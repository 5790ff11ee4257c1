------------------------------- MODULE StopWindow -------------------------------
(***************************************************************************)
(* The time Close of container.go has, and the time it gives the program.  *)
(*                                                                         *)
(* Close asks the daemon to stop the program, with a timeout in whole      *)
(* seconds after which the daemon kills it, and then to remove the         *)
(* container, all under one context.  Time is counted in ticks, Second of  *)
(* them to a second.  The daemon, the network and the scheduler take at    *)
(* most Lag ticks for each thing they do.                                  *)
(***************************************************************************)
EXTENDS Integers

CONSTANTS
    Second,        \* ticks to a second
    DefaultStop,   \* defaultStopTimeout in ticks
    Lag,           \* the longest the daemon, or a scheduler, takes for a step
    Deadlines,     \* the deadlines the context of the caller may have
    Works,         \* how long a program may take to shut down
    None,          \* no deadline, or a moment that has not come
    MaxStart,      \* bound on the moment Close is called
    MaxNow         \* bound on the clock

ASSUME StopWindowAssumption ==
    /\ Second \in Nat \ {0}
    /\ DefaultStop \in Nat
    /\ Lag \in Nat
    /\ Deadlines \subseteq Nat
    /\ Works \subseteq Nat
    /\ None \notin Int
    /\ MaxStart \in Nat /\ MaxNow \in Nat

VARIABLES
    now,        \* the clock
    deadline,   \* the deadline of the caller's context
    limit,      \* the deadline of the context Close uses
    remaining,  \* the time that remained when the timeout was computed
    grant,      \* the timeout of the stop request, in ticks
    signalled,  \* when the daemon told the program to stop
    work,       \* how long the program takes to shut down
    program,    \* what has become of it
    due,        \* when the next step of the daemon, or of Close, is done at the latest
    cancelled,  \* whether the context Close has, or will be given, was cancelled
    pc,         \* where Close is, or how it ended
    why         \* what a Close that failed failed for

closeVars == <<deadline, limit, remaining, grant, cancelled, pc, why>>
stopVars == <<now, closeVars, signalled, work, program, due>>

Moment == Nat \union {None}

StopWindowTypeOK ==
    /\ now \in Nat
    /\ deadline \in Moment /\ limit \in Moment /\ signalled \in Moment
    /\ remaining \in Int /\ grant \in Nat /\ work \in Nat /\ due \in Nat
    /\ program \in {"running", "ended", "killed", "removed"}
    /\ cancelled \in BOOLEAN
    /\ pc \in {"idle", "window", "request", "stopping", "remove", "nil", "failed"}
    /\ why \in {"none", "time", "cancelled", "refused"}

Init ==
    /\ now = 0
    /\ deadline \in Deadlines \union {None}
    /\ limit = None
    /\ remaining = 0 /\ grant = 0
    /\ signalled = None
    /\ work \in Works
    /\ program = "running"
    /\ due = 0
    /\ cancelled = FALSE
    /\ pc = "idle" /\ why = "none"

--------------------------------------------------------------------------------
Past(t) == t # None /\ t <= now

CtxDone == cancelled \/ Past(limit)

\* Faulty variants: rounded up; a second kept back for the removal.
WholeSecondsUp(t) == t + ((Second - (t % Second)) % Second)
WholeSecondsShort(t) == (t - (t % Second)) - Second

\* int(timeout / time.Second), in ticks.
WholeSeconds(t) == t - (t % Second)

\* Faulty variant: without a deadline the daemon is given none either.
TimeoutUnset(left) == IF limit # None /\ left > 0 THEN left ELSE MaxNow + Second

Timeout(left) == IF limit # None /\ left > 0 THEN left ELSE DefaultStop

\* A context that has expired is replaced, by one nobody cancels; one that was
\* cancelled before its deadline, or has none, is not.
CloseCall ==
    /\ pc = "idle"
    /\ limit' = IF Past(deadline) THEN now + DefaultStop ELSE deadline
    /\ cancelled' = (cancelled /\ ~Past(deadline))
    /\ pc' = "window"
    /\ due' = now + Lag
    /\ UNCHANGED <<now, deadline, remaining, grant, why, signalled, work, program>>

\* The clock is read again for the timeout.
SetTimeout ==
    /\ pc = "window"
    /\ remaining' = IF limit = None THEN DefaultStop ELSE limit - now
    /\ grant' = WholeSeconds(Timeout(remaining'))
    /\ pc' = "request"
    /\ due' = now + Lag
    /\ UNCHANGED <<now, deadline, limit, cancelled, why, signalled, work, program>>

\* ContainerStop reaches the daemon, which signals the program.
Signal ==
    /\ pc = "request" /\ ~CtxDone
    /\ signalled' = now
    /\ pc' = "stopping"
    /\ UNCHANGED <<now, deadline, limit, remaining, grant, cancelled, why, work, program, due>>

\* The program shuts down, whether Close still waits or not.
Ends ==
    /\ program = "running" /\ signalled # None
    /\ now >= signalled + work
    /\ program' = "ended"
    /\ due' = now + Lag
    /\ UNCHANGED <<now, closeVars, signalled, work>>

Kill ==
    /\ program = "running" /\ signalled # None
    /\ now >= signalled + grant /\ now < signalled + work
    /\ program' = "killed"
    /\ due' = now + Lag
    /\ UNCHANGED <<now, closeVars, signalled, work>>

\* ContainerStop answers when the program is over.
StopAnswers ==
    /\ pc = "stopping" /\ program # "running" /\ ~CtxDone
    /\ pc' = "remove"
    /\ due' = now + Lag
    /\ UNCHANGED <<now, deadline, limit, remaining, grant, cancelled, why, signalled, work, program>>

Remove ==
    /\ pc = "remove" /\ ~CtxDone
    /\ program' = "removed"
    /\ pc' = "nil"
    /\ UNCHANGED <<now, deadline, limit, remaining, grant, cancelled, why, signalled, work, due>>

\* The caller cancels his context; one that has expired has ended already.
Cancel ==
    /\ ~cancelled /\ ~Past(deadline)
    /\ pc \notin {"nil", "failed"}
    /\ cancelled' = TRUE
    /\ UNCHANGED <<now, deadline, limit, remaining, grant, pc, why, signalled, work, program, due>>

\* Any error of the stop or of the removal ends Close.  The container may be
\* gone though the removal failed.
Fail(reason) ==
    /\ pc \in {"request", "stopping", "remove"}
    /\ pc' = "failed" /\ why' = reason
    /\ program' \in IF pc = "remove" THEN {program, "removed"} ELSE {program}
    /\ UNCHANGED <<now, deadline, limit, remaining, grant, cancelled, signalled, work, due>>

Interrupted == \/ cancelled /\ Fail("cancelled")
               \/ ~cancelled /\ Past(limit) /\ Fail("time")

Refused == Fail("refused")

--------------------------------------------------------------------------------
(* Time passes as long as nothing is overdue. *)

Overdue ==
    \/ pc \in {"window", "request", "remove"} /\ now >= due
    \/ pc = "stopping" /\ program # "running" /\ now >= due
    \/ program = "running" /\ signalled # None
       /\ (now >= signalled + grant + Lag \/ now >= signalled + work)

Tick ==
    /\ ~Overdue
    /\ now < MaxNow
    /\ pc = "idle" => now < MaxStart
    /\ now' = now + 1
    /\ UNCHANGED <<closeVars, signalled, work, program, due>>

CloseStep == CloseCall \/ SetTimeout \/ StopAnswers \/ Remove \/ Interrupted
DaemonStep == Signal \/ Ends \/ Kill

Next == CloseStep \/ DaemonStep \/ Refused \/ Cancel \/ Tick

Spec == Init /\ [][Next]_stopVars

\* The clock runs, and what is due happens before it runs on; nobody has to
\* cancel or to refuse.
FairSpec == Spec /\ WF_stopVars(CloseStep \/ DaemonStep \/ Tick)

--------------------------------------------------------------------------------
(* Properties. *)

\* A Close that nobody cancels and the daemon refuses nothing fails only under
\* a deadline, and only when the part of a second the timeout leaves out is no
\* more than the four steps around the shutdown may take: in that part a program
\* that never ends is killed and removed.  The fresh context of an expired one
\* leaves out nearly all of a second, since the clock is read again after it
\* was made (container.go Close).
EnoughTimeRemoves ==
    pc = "failed" /\ why = "time" =>
        limit # None /\ (remaining <= 0 \/ remaining % Second <= 4 * Lag)

\* A program is killed only if it would not have ended a second before the
\* deadline of the context, or within defaultStopTimeout where there is none:
\* a timeout of 0 is for those with less than a second.  That Close has failed
\* since, or was cancelled, takes no time from it (container.go Close).
KilledOnlyAtTheEnd ==
    program = "killed" =>
        IF limit = None THEN work > DefaultStop - Second
        ELSE signalled + work > limit - Second

\* Close comes back, also from a program that does not stop by itself, and where
\* there is no deadline it has removed the container, unless it was cancelled
\* or the daemon refused the stop or the removal (container.go Close).
StopEnds ==
    pc = "window" ~> pc = "nil" \/ (pc = "failed" /\ (limit # None \/ why # "time"))

--------------------------------------------------------------------------------
(* The inductive invariant. *)

\* The order of the requests: nothing is signalled before the timeout is set,
\* and nothing ends before it is signalled.
Order ==
    /\ pc \in {"idle", "window", "request"} => signalled = None
    /\ signalled = None => program = "running"
    /\ pc \in {"remove", "nil"} => program # "running"
    /\ program = "removed" => pc \in {"nil", "failed"}
    /\ pc \in {"nil", "failed"} \/ why = "none"
    /\ signalled # None => signalled <= now

\* What the timeout leaves out of the time that remained.
Truncated ==
    pc \notin {"idle", "window"} =>
        /\ limit = None => grant = WholeSeconds(DefaultStop)
        /\ limit # None /\ remaining > 0 => grant = WholeSeconds(remaining)
        /\ limit # None => limit - remaining <= now
        /\ signalled # None /\ limit # None =>
               remaining > 0 /\ limit - remaining <= signalled

KilledLate == program = "killed" => work > grant

\* Each step of the daemon and of Close comes at most Lag after the last.
Punctual ==
    /\ program = "running" /\ signalled # None => now <= signalled + grant + Lag
    /\ pc = "stopping" /\ program # "running" => now <= due /\ due <= signalled + grant + 2 * Lag
    /\ pc = "remove" => now <= due /\ due <= signalled + grant + 3 * Lag
    /\ limit # None /\ pc = "request" => now <= due /\ due <= (limit - remaining) + Lag
    /\ limit # None /\ signalled # None => signalled <= (limit - remaining) + Lag

SInv == Order /\ Truncated /\ KilledLate /\ Punctual /\ EnoughTimeRemoves /\ KilledOnlyAtTheEnd
================================================================================
