--------------------------------- MODULE Lease ---------------------------------
(***************************************************************************)
(* What a container handle promises, without saying how: a lease on a      *)
(* resource of the daemon.                                                 *)
(*                                                                         *)
(* A holder acquires resources one after the other and knows the last.  A  *)
(* resource is released by the holder that knows it, and never while it    *)
(* serves; one that its holder does not know, or no longer knows, has      *)
(* leaked for good.  What a holder has been told is true when it is told.  *)
(* container.go implements this with requests that fail or lose their      *)
(* answer, and contexts that end between them.                             *)
(***************************************************************************)
CONSTANTS
    Holders,      \* the handles
    Resources,    \* the containers a daemon may ever create
    Owner,        \* Owner[r]: the holder resource r is made for
    None          \* no resource

VARIABLES
    own,          \* own[h]: the resource holder h knows
    phase,        \* phase[r]: how far resource r has come
    told,         \* told[h]: the success the last call of h reported
    leaked        \* the resources in the daemon no holder knows

leaseVars == <<own, phase, told, leaked>>

InHand(r) == r \in Resources /\ phase[r] \in {"held", "serving", "finished"}

Init ==
    /\ own = [h \in Holders |-> None]
    /\ phase = [r \in Resources |-> "new"]
    /\ told = [h \in Holders |-> "nothing"]
    /\ leaked = {}

Tell(h, what) == told' = [told EXCEPT ![h] = what]
Busy(h) == told[h] = "nothing"

\* A call begins, and with it the last report is out of date.
Ask(h) ==
    /\ Tell(h, "nothing")
    /\ UNCHANGED <<own, phase, leaked>>

\* A resource the holder knows from now on.  It forgets the one it had.
Acquire(h, r) ==
    /\ Busy(h) /\ Owner[r] = h /\ phase[r] = "new"
    /\ phase' = [phase EXCEPT ![r] = "held"]
    /\ own' = [own EXCEPT ![h] = r]
    /\ leaked' = leaked \union {s \in {own[h]} : InHand(s)}
    /\ UNCHANGED told

\* A resource the holder never hears of.
Leak(h, r) ==
    /\ Busy(h) /\ Owner[r] = h /\ phase[r] = "new"
    /\ phase' = [phase EXCEPT ![r] = "held"]
    /\ leaked' = leaked \union {r}
    /\ UNCHANGED <<own, told>>

Serve(h) ==
    /\ Busy(h) /\ own[h] # None /\ phase[own[h]] = "held"
    /\ phase' = [phase EXCEPT ![own[h]] = "serving"]
    /\ Tell(h, "serving") \/ UNCHANGED told
    /\ UNCHANGED <<own, leaked>>

Finish(r) ==
    /\ phase[r] = "serving"
    /\ phase' = [phase EXCEPT ![r] = "finished"]
    /\ UNCHANGED <<own, told, leaked>>

Release(h) ==
    /\ Busy(h) /\ own[h] # None /\ phase[own[h]] \in {"held", "finished"}
    /\ phase' = [phase EXCEPT ![own[h]] = "released"]
    /\ Tell(h, "released") \/ UNCHANGED told
    /\ UNCHANGED <<own, leaked>>

\* A holder that never acquired anything has nothing to release.
ReleaseNothing(h) ==
    /\ own[h] = None
    /\ Tell(h, "released")
    /\ UNCHANGED <<own, phase, leaked>>

Next ==
    \/ \E h \in Holders : Ask(h) \/ Serve(h) \/ Release(h) \/ ReleaseNothing(h)
    \/ \E h \in Holders, r \in Resources : Acquire(h, r) \/ Leak(h, r)
    \/ \E r \in Resources : Finish(r)

Spec == Init /\ [][Next]_leaseVars
================================================================================
