------------------------------ MODULE Application ------------------------------
(***************************************************************************)
(* The constructors of applications/*: each builds one container handle,   *)
(* runs it, waits until the service is up in its own way, and closes the   *)
(* handle again, under a context of its own, when a step fails.            *)
(*                                                                         *)
(* The constructors are one procedure that differs in two things: whether  *)
(* it awaits a line of output, and how it probes the service after that.   *)
(***************************************************************************)
EXTENDS Container

CONSTANTS
    Cleanup,   \* Cleanup[c]: the context the deferred Close of c runs under
    MaxTries   \* how often a loop of pings or attempts goes round

\* What each constructor does between Run and success.  RabbitMQ sleeps a
\* second and K3s two, which is a step like any other here.
Redis      == [awaits |-> TRUE,  probe |-> "none"]
Kafka      == [awaits |-> TRUE,  probe |-> "none"]
Minio      == [awaits |-> TRUE,  probe |-> "none"]
Vault      == [awaits |-> TRUE,  probe |-> "none"]
RabbitMQ   == [awaits |-> TRUE,  probe |-> "none"]
Memcache   == [awaits |-> FALSE, probe |-> "pings"]
PostgreSQL == [awaits |-> TRUE,  probe |-> "connects"]
MySQL      == [awaits |-> TRUE,  probe |-> "dbpings"]
ScyllaDB   == [awaits |-> TRUE,  probe |-> "session"]
K3sServer  == [awaits |-> TRUE,  probe |-> "reads"]

Kinds == {Redis, Kafka, Minio, Vault, RabbitMQ,
          Memcache, PostgreSQL, MySQL, ScyllaDB, K3sServer}

CleanupCtxs == {Cleanup[c] : c \in Containers}
UserCtxs == Ctxs \ CleanupCtxs

ASSUME ApplicationAssumption ==
    /\ Cleanup \in [Containers -> Ctxs]
    /\ \A c, d \in Containers : Cleanup[c] = Cleanup[d] => c = d
    /\ MaxTries \in Nat \ {0}

VARIABLES
    kind,      \* kind[c]: which constructor builds c
    apc,       \* apc[c]: where the constructor of c, or a Close after it, is
    actx,      \* actx[c]: the context given to the constructor
    at,        \* at[c]: where its probe is
    tries,     \* tries[c]: rounds of its loop
    late,      \* late[c]: history: attempts it began after its context had ended, to 2
    accepting, \* the instances whose service would answer a client
    frozen     \* the instances that run, and answer and end nothing any more

probeVars == <<at, tries, late>>
serviceVars == <<accepting, frozen>>
appVars == <<kind, apc, actx, probeVars, serviceVars>>
avars == <<appVars, vars>>

\* The steps of the probes: those of a loop of attempts, and those of k3s,
\* which executes a command in the container and writes what it reads.
Places == {"address", "select", "waiting", "attempt", "over",
           "exec", "attach", "copy", "inspect", "mkdir", "write", "done"}

ApplicationTypeOK ==
    /\ kind \in [Containers -> Kinds]
    /\ apc \in [Containers -> {"new", "running", "awaiting", "probing", "cleanup",
                               "failed", "built", "closing"}]
    /\ actx \in [Containers -> Ctxs]
    /\ at \in [Containers -> Places]
    /\ tries \in [Containers -> 0..MaxTries]
    /\ late \in [Containers -> 0..2]
    /\ accepting \subseteq Instances /\ frozen \subseteq Instances

ApplicationInit ==
    /\ Init
    /\ \A x \in CleanupCtxs : deadline[x] = "ahead"
    /\ kind \in [Containers -> Kinds]
    /\ apc = [c \in Containers |-> "new"]
    /\ actx = [c \in Containers |-> Cleanup[c]]
    /\ at = [c \in Containers |-> IF kind[c].probe = "reads" THEN "exec" ELSE "address"]
    /\ tries = [c \in Containers |-> 0]
    /\ late = [c \in Containers |-> 0]
    /\ accepting = {} /\ frozen = {}

--------------------------------------------------------------------------------
Runs(c) == inst[containerID[c]] = "running"

\* A client is answered; a client without a timeout waits and waits.
Answers(c) == Runs(c) /\ containerID[c] \in accepting \ frozen
Hangs(c) == Runs(c) /\ containerID[c] \in frozen

CtxDone(c) == actx[c] \in cancelled \/ deadline[actx[c]] = "past"

Goes(c, p) == apc' = [apc EXCEPT ![c] = p]

\* Faulty variant: no deferred function.
FailBare(c) == pc[c] = "idle" /\ Goes(c, "failed") /\ UNCHANGED vars

\* The deferred function: started is false, the handle is closed.
Fail(c) ==
    /\ CloseCall(c, Cleanup[c])
    /\ Goes(c, "cleanup")

Built(c) == Goes(c, "built") /\ UNCHANGED vars

New(c, x) ==
    /\ apc[c] = "new"
    /\ RunCall(c, x)
    /\ Goes(c, "running")
    /\ actx' = [actx EXCEPT ![c] = x]
    /\ UNCHANGED <<kind, probeVars, serviceVars>>

Ran(c) ==
    /\ apc[c] = "running" /\ pc[c] = "idle"
    /\ \/ err[c] = "nil" /\ kind[c].awaits /\ AwaitCall(c, actx[c]) /\ Goes(c, "awaiting")
       \/ err[c] = "nil" /\ ~kind[c].awaits /\ Goes(c, "probing") /\ UNCHANGED vars
       \/ err[c] # "nil" /\ Fail(c)
    /\ UNCHANGED <<kind, actx, probeVars, serviceVars>>

\* Faulty variant: the error of AwaitOutput is dropped.
AwaitedAnyway(c) ==
    /\ apc[c] = "awaiting" /\ pc[c] = "idle"
    /\ \/ kind[c].probe = "none" /\ Built(c)
       \/ kind[c].probe # "none" /\ Goes(c, "probing") /\ UNCHANGED vars
    /\ UNCHANGED <<kind, actx, probeVars, serviceVars>>

Awaited(c) ==
    /\ apc[c] = "awaiting" /\ pc[c] = "idle"
    /\ \/ err[c] = "nil" /\ kind[c].probe = "none" /\ Built(c)
       \/ err[c] = "nil" /\ kind[c].probe # "none" /\ Goes(c, "probing") /\ UNCHANGED vars
       \/ err[c] # "nil" /\ Fail(c)
    /\ UNCHANGED <<kind, actx, probeVars, serviceVars>>

--------------------------------------------------------------------------------
(* The probes.  Each ends at "done", or in the deferred function. *)

MovesTo(c, p) ==
    /\ at' = [at EXCEPT ![c] = p]
    /\ late' = [late EXCEPT ![c] = IF p = "attempt" /\ CtxDone(c) /\ @ < 2 THEN @ + 1 ELSE @]
    /\ UNCHANGED <<apc, vars>>

Fails(c) == Fail(c) /\ UNCHANGED <<at, late>>

\* URL, which DSN and ClusterConfig call, may fail, and sql.Open.
Address(c, next) ==
    /\ at[c] = "address"
    /\ MovesTo(c, next) \/ Fails(c)
    /\ UNCHANGED tries

\* Faulty variant: a ticker made before the loop, whose tick may wait already.
SelectTicked(c) == at[c] = "select" /\ MovesTo(c, "waiting") /\ UNCHANGED tries

\* The select between the context and a timer that starts now: a context that
\* has ended is taken at once.
Select(c) ==
    /\ at[c] = "select"
    /\ \/ CtxDone(c) /\ Fails(c)
       \/ ~CtxDone(c) /\ MovesTo(c, "waiting")
    /\ UNCHANGED tries

\* It is chosen at random when both are ready: the timer, in the actions
\* below, may win.
WaitCut(c) == at[c] = "waiting" /\ CtxDone(c) /\ Fails(c) /\ UNCHANGED tries

\* Faulty variants: the attempt does not count; there is one more.
RoundUncounted(c, next, last) == MovesTo(c, next) /\ UNCHANGED tries
RoundOneMore(c, next, last) ==
    /\ tries' = [tries EXCEPT ![c] = @ + 1]
    /\ MovesTo(c, IF tries[c] < MaxTries THEN next ELSE last)

Round(c, next, last) ==
    /\ tries' = [tries EXCEPT ![c] = @ + 1]
    /\ MovesTo(c, IF tries[c] + 1 < MaxTries THEN next ELSE last)

\* Memcache: pings, of a client with a timeout; the end of the loop is a failure.
Ping(c) ==
    /\ kind[c].probe = "pings"
    /\ \/ Address(c, "select") \/ Select(c) \/ WaitCut(c)
       \/ at[c] = "waiting" /\ MovesTo(c, "attempt") /\ UNCHANGED tries
       \/ at[c] = "attempt" /\ Answers(c) /\ MovesTo(c, "done") /\ UNCHANGED tries
       \/ at[c] = "attempt" /\ Round(c, "select", "over")
       \/ at[c] = "over" /\ Fails(c) /\ UNCHANGED tries

\* PostgreSQL: connections, under the context; the end of the loop is a success.
Connects(c) ==
    /\ kind[c].probe = "connects"
    /\ \/ Address(c, "attempt") \/ Select(c) \/ WaitCut(c)
       \/ at[c] = "attempt" /\ Answers(c) /\ ~CtxDone(c) /\ MovesTo(c, "done") /\ UNCHANGED tries
       \/ at[c] = "attempt" /\ (CtxDone(c) \/ ~Hangs(c)) /\ MovesTo(c, "select") /\ UNCHANGED tries
       \/ at[c] = "waiting" /\ Round(c, "attempt", "done")

\* MySQL: pings with neither context nor timeout; the end of the loop is a success.
DBPing(c) ==
    /\ kind[c].probe = "dbpings"
    /\ \/ Address(c, "attempt")
       \/ at[c] = "attempt" /\ Answers(c) /\ MovesTo(c, "done") /\ UNCHANGED tries
       \/ at[c] = "attempt" /\ ~Hangs(c) /\ Round(c, "attempt", "done")

\* ScyllaDB: one session, with a timeout, or failure.
OpenSession(c) ==
    /\ kind[c].probe = "session"
    /\ \/ Address(c, "attempt")
       \/ at[c] = "attempt" /\ Answers(c) /\ MovesTo(c, "done") /\ UNCHANGED tries
       \/ at[c] = "attempt" /\ Fails(c) /\ UNCHANGED tries

\* K3s: each request fails when the context has ended, or the container.  The
\* copy of the output lasts until the command ends, whatever the context does.
ReadFile(c) ==
    /\ kind[c].probe = "reads"
    /\ \/ at[c] = "exec" /\ Runs(c) /\ ~CtxDone(c) /\ MovesTo(c, "attach")
       \/ at[c] = "attach" /\ Runs(c) /\ ~CtxDone(c) /\ MovesTo(c, "copy")
       \/ at[c] = "copy" /\ ~Hangs(c) /\ MovesTo(c, "inspect")
       \/ at[c] = "inspect" /\ ~CtxDone(c) /\ MovesTo(c, "address")
       \/ at[c] \in {"exec", "attach", "inspect"} /\ Fails(c)
       \/ at[c] = "copy" /\ ~Hangs(c) /\ Fails(c)
    /\ UNCHANGED tries

\* rewriteKubeconfig: the directory, then the file in it; each may fail.
Rewrite(c) ==
    /\ kind[c].probe = "reads"
    /\ \/ Address(c, "mkdir")
       \/ at[c] = "mkdir" /\ (MovesTo(c, "write") \/ Fails(c)) /\ UNCHANGED tries
       \/ at[c] = "write" /\ (MovesTo(c, "done") \/ Fails(c)) /\ UNCHANGED tries

Probe(c) ==
    /\ apc[c] = "probing"
    /\ \/ Ping(c) \/ Connects(c) \/ DBPing(c) \/ OpenSession(c) \/ ReadFile(c) \/ Rewrite(c)
       \/ at[c] = "done" /\ Built(c) /\ UNCHANGED probeVars
    /\ UNCHANGED <<kind, actx, serviceVars>>

\* The error of the deferred Close is dropped.
CleanedUp(c) ==
    /\ apc[c] = "cleanup" /\ pc[c] = "idle"
    /\ Goes(c, "failed")
    /\ UNCHANGED <<kind, actx, probeVars, serviceVars, vars>>

\* Close of the application, which the caller may repeat.
Close(c, x) ==
    /\ apc[c] \in {"built", "closing"}
    /\ CloseCall(c, x)
    /\ Goes(c, "closing")
    /\ UNCHANGED <<kind, actx, probeVars, serviceVars>>

--------------------------------------------------------------------------------
ServiceAccepts(i) ==
    /\ inst[i] = "running" /\ i \notin accepting
    /\ accepting' = accepting \union {i}
    /\ UNCHANGED <<kind, apc, actx, probeVars, frozen, vars>>

Freezes(i) ==
    /\ inst[i] = "running" /\ i \notin frozen
    /\ frozen' = frozen \union {i}
    /\ UNCHANGED <<kind, apc, actx, probeVars, accepting, vars>>

\* The context of the deferred Close exists, and ages, only while it runs.
Ages(x) ==
    /\ \A c \in Containers : Cleanup[c] = x => apc[c] = "cleanup" /\ pc[c] # "idle"
    /\ DeadlinePasses(x)

ApplicationWorld ==
    /\ \/ \E x \in Ctxs : Ages(x)
       \/ \E x \in UserCtxs : Cancel(x)
       \/ \E c \in Containers : GracePasses(c) \/ LogSevered(c)
       \/ \E i \in Instances : Exits(i) \/ Emits(i)
       \/ \E m \in Images : Publishes(m)
    /\ UNCHANGED appVars

Constructor(c) == Ran(c) \/ Awaited(c) \/ Probe(c) \/ CleanedUp(c)

ApplicationNext ==
    \/ \E c \in Containers, x \in UserCtxs : New(c, x) \/ Close(c, x)
    \/ \E c \in Containers : Constructor(c)
    \/ \E c \in Containers : ApiStep(c) /\ UNCHANGED appVars
    \/ \E i \in Instances : ServiceAccepts(i) \/ Freezes(i)
    \/ ApplicationWorld

ApplicationSpec == ApplicationInit /\ [][ApplicationNext]_avars

--------------------------------------------------------------------------------
(* Properties. *)

\* A constructor that failed has left nothing in the daemon, unless its
\* clean-up ran out of time or failed in the daemon, or the answer to the
\* create request was lost (the deferred function of every constructor).
FailedLeavesNothing ==
    \A c \in Containers :
        apc[c] = "failed" =>
            \/ \A i \in Instances : Label[i] = c /\ Held(i) => i \in lost
            \/ deadline[Cleanup[c]] = "past"
            \/ err[c] = "error" /\ Faults # {}

\* A loop that heeds its context begins at most one more attempt after the
\* context has ended: the timer may win the select once, but the next select
\* finds the context done (memcache.go, postgres.go NewWithImage).
OneLateAttempt ==
    \A c \in Containers : kind[c].probe \in {"pings", "connects"} => late[c] <= 1

\* A built application holds a container of its own that was started, and a
\* constructor never succeeds on an instance it did not start itself.
BuiltHoldsContainer ==
    \A c \in Containers :
        apc[c] = "built" =>
            /\ containerID[c] # NoID /\ Label[containerID[c]] = c
            /\ inst[containerID[c]] \in {"running", "exited"}
            /\ kind[c].awaits =>
                   containerID[c] \in ready \/ inst[containerID[c]] = "exited"

\* Whoever waits here waits for the container alone: the ping of MySQL and the
\* copy of k3s have neither context nor timeout (mysql.go:119, k3s.go:234).
WaitsOnContainer(c) ==
    /\ apc[c] = "probing" /\ Hangs(c)
    /\ <<kind[c].probe, at[c]>> \in {<<"dbpings", "attempt">>, <<"reads", "copy">>}

\* A constructor under a deadline, or whose context is cancelled, comes back,
\* its clean-up included; but those of MySQL and k3s may wait for ever for a
\* container that runs and does not answer (applications/*).
ConstructorReturns ==
    \A c \in Containers :
        (/\ apc[c] \in {"running", "awaiting", "probing"}
         /\ deadline[actx[c]] # "none" \/ actx[c] \in cancelled)
            ~> (apc[c] \in {"built", "failed"} \/ []WaitsOnContainer(c))

--------------------------------------------------------------------------------
(* The inductive invariant: what a constructor relies on between two steps. *)

\* Where the constructor is agrees with the call its handle runs, or ran.
Duty ==
    \A c \in Containers :
        /\ apc[c] \in {"new", "probing", "built", "failed"} => pc[c] = "idle"
        /\ apc[c] = "running" => op[c] = "Run"
        /\ apc[c] = "awaiting" => op[c] = "AwaitOutput"
        /\ apc[c] \in {"cleanup", "failed", "closing"} => op[c] = "Close"

\* A handle is run once, so that it has no instance before its only create,
\* and no ID is ever overwritten.
RunOnce ==
    /\ superseded = {}
    /\ \A c \in Containers :
          apc[c] = "new" \/ pc[c] \in {"list", "pull", "create"} => containerID[c] = NoID

\* An instance the constructor knows of stays in the daemon until the
\* removal, and is what Run and AwaitOutput said of it.
Keeps ==
    \A c \in Containers :
        /\ containerID[c] # NoID
           /\ \/ apc[c] \in {"running", "awaiting", "probing", "built"}
              \/ apc[c] = "cleanup" /\ pc[c] # "idle"
           => Held(containerID[c])
        /\ apc[c] \in {"awaiting", "probing", "built"} => Started(c)
        /\ apc[c] \in {"probing", "built"} /\ kind[c].awaits =>
               containerID[c] \in ready \/ inst[containerID[c]] = "exited"

\* The clean-up has its window to itself: it starts with the clean-up, and
\* nobody cancels it.
OwnWindow ==
    \A c \in Containers :
        /\ Cleanup[c] \notin cancelled
        /\ apc[c] \notin {"cleanup", "failed"} => deadline[Cleanup[c]] = "ahead"
        /\ apc[c] = "cleanup" => arg[c] = Cleanup[c] /\ grace[c] = "unused"

\* How a clean-up ends.
CleanedUpWell ==
    \A c \in Containers :
        apc[c] = "failed" \/ (apc[c] = "cleanup" /\ pc[c] = "idle") =>
            \/ err[c] = "nil"
            \/ deadline[Cleanup[c]] = "past"
            \/ err[c] = "error" /\ Faults # {}

\* A loop that goes on has rounds left.
RoundsLeft ==
    \A c \in Containers : at[c] \notin {"over", "done"} => tries[c] < MaxTries

\* An attempt that was begun late is the last: nothing waits any more.
LateOK(c) ==
    /\ apc[c] \in {"new", "running", "awaiting"} => late[c] = 0
    /\ late[c] > 0 => CtxDone(c)
    /\ kind[c].probe \in {"pings", "connects"} =>
           late[c] <= 1 /\ (at[c] \in {"address", "waiting"} => late[c] = 0)

LateInv == \A c \in Containers : LateOK(c)

AInv == Duty /\ RunOnce /\ Keeps /\ OwnWindow /\ CleanedUpWell
================================================================================
