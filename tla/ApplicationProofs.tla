--------------------------- MODULE ApplicationProofs ---------------------------
(* Proofs about modules Application and K3s, for every value of their       *)
(* constants.                                                              *)
EXTENDS K3s, ContainerImplements

--------------------------------------------------------------------------------
(* Type correctness, and that a constructor is a use of its handle. *)

\* What a step of a probe to p does to the loop it is in.
Advances(c, p) ==
    /\ MovesTo(c, p)
    /\ at[c] \notin {"over", "done"}
    /\ \/ UNCHANGED tries
       \/ /\ tries' = [tries EXCEPT ![c] = @ + 1]
          /\ tries[c] + 1 < MaxTries \/ p \in {"over", "done"}
    /\ p = "address" => kind[c].probe = "reads"
    /\ p = "waiting" => ~CtxDone(c)
    /\ p = "attempt" /\ kind[c].probe \in {"pings", "connects"} => at[c] \in {"address", "waiting"}
    /\ p = "done" /\ kind[c].probe = "reads" => at[c] = "write"

\* A step of a probe goes on, fails, or is the last (applications/*).
LEMMA ProbeMoves ==
  ASSUME NEW c \in Containers, Probe(c)
  PROVE  /\ apc[c] = "probing" /\ UNCHANGED <<kind, actx, serviceVars>>
         /\ \/ \E p \in Places : Advances(c, p)
            \/ Fail(c) /\ UNCHANGED <<at, tries, late>>
            \/ at[c] = "done" /\ Built(c) /\ UNCHANGED probeVars
<1> USE DEF Places
<1> DEFINE Goal == \/ \E p \in Places : Advances(c, p)
                   \/ Fail(c) /\ UNCHANGED <<at, tries, late>>
                   \/ at[c] = "done" /\ Built(c) /\ UNCHANGED probeVars
<1> SUFFICES Goal
  BY DEF Probe
<1>0. ASSUME NEW p \in Places, Advances(c, p) PROVE Goal
  BY <1>0
<1>1. ASSUME Fails(c), UNCHANGED tries PROVE Goal
  BY <1>1 DEF Fails
<1> HIDE DEF Goal
<1>2. ASSUME NEW p \in {"select", "attempt", "mkdir"}, Address(c, p) PROVE Goal
  <2>1. CASE Fails(c)
    BY <1>1, <1>2, <2>1 DEF Address
  <2>2. CASE MovesTo(c, p)
    <3>1. Advances(c, p)
      BY <1>2, <2>2 DEF Address, Advances
    <3> QED BY <1>0, <3>1
  <2> QED BY <1>2, <2>1, <2>2 DEF Address
<1>3. CASE Select(c) \/ WaitCut(c)
  <2>1. CASE Fails(c)
    BY <1>1, <1>3, <2>1 DEF Select, WaitCut
  <2>2. CASE ~Fails(c)
    <3>1. Advances(c, "waiting")
      BY <1>3, <2>2 DEF Select, WaitCut, Advances
    <3> QED BY <1>0, <3>1
  <2> QED BY <2>1, <2>2
<1>4. ASSUME NEW p \in Places, NEW q \in {"over", "done"}, Round(c, p, q),
             at[c] \notin {"over", "done"}, p \notin {"address", "waiting", "done"},
             kind[c].probe # "reads",
             p = "attempt" => at[c] = "waiting" \/ kind[c].probe \notin {"pings", "connects"}
      PROVE  Goal
  <2>1. CASE tries[c] + 1 < MaxTries
    <3>1. Advances(c, p)
      BY <1>4, <2>1 DEF Round, Advances
    <3> QED BY <1>0, <3>1
  <2>2. CASE ~(tries[c] + 1 < MaxTries)
    <3>1. Advances(c, q)
      BY <1>4, <2>2 DEF Round, Advances
    <3> QED BY <1>0, <3>1
  <2> QED BY <2>1, <2>2
<1>5. CASE Ping(c)
  <2>1. CASE at[c] = "waiting" /\ MovesTo(c, "attempt") /\ UNCHANGED tries
    <3>1. Advances(c, "attempt")
      BY <2>1 DEF Advances
    <3> QED BY <1>0, <3>1
  <2>2. CASE at[c] = "attempt" /\ MovesTo(c, "done") /\ UNCHANGED tries
    <3>1. Advances(c, "done")
      BY <1>5, <2>2 DEF Advances, Ping
    <3> QED BY <1>0, <3>1
  <2>3. CASE at[c] = "attempt" /\ Round(c, "select", "over")
    BY <1>4, <1>5, <2>3 DEF Ping
  <2> QED BY <1>1, <1>2, <1>3, <1>5, <2>1, <2>2, <2>3 DEF Ping
<1>6. CASE Connects(c)
  <2>1. CASE at[c] = "attempt" /\ MovesTo(c, "done") /\ UNCHANGED tries
    <3>1. Advances(c, "done")
      BY <1>6, <2>1 DEF Advances, Connects
    <3> QED BY <1>0, <3>1
  <2>2. CASE at[c] = "attempt" /\ MovesTo(c, "select") /\ UNCHANGED tries
    <3>1. Advances(c, "select")
      BY <2>2 DEF Advances
    <3> QED BY <1>0, <3>1
  <2>3. CASE at[c] = "waiting" /\ Round(c, "attempt", "done")
    BY <1>4, <1>6, <2>3 DEF Connects
  <2> QED BY <1>2, <1>3, <1>6, <2>1, <2>2, <2>3 DEF Connects
<1>7. CASE DBPing(c) \/ OpenSession(c)
  <2>1. kind[c].probe \in {"dbpings", "session"}
    BY <1>7 DEF DBPing, OpenSession
  <2>2. CASE at[c] = "attempt" /\ MovesTo(c, "done") /\ UNCHANGED tries
    <3>1. Advances(c, "done")
      BY <2>1, <2>2 DEF Advances
    <3> QED BY <1>0, <3>1
  <2>3. CASE at[c] = "attempt" /\ Round(c, "attempt", "done")
    BY <1>4, <2>1, <2>3
  <2> QED BY <1>1, <1>2, <1>7, <2>2, <2>3 DEF DBPing, OpenSession
<1>8. CASE ReadFile(c)
  <2>1. CASE Fails(c)
    BY <1>1, <1>8, <2>1 DEF ReadFile
  <2>2. ASSUME NEW p \in {"attach", "copy", "inspect", "address"}, MovesTo(c, p),
               at[c] \in {"exec", "attach", "copy", "inspect"}
        PROVE  Goal
    <3>1. Advances(c, p)
      BY <1>8, <2>2 DEF ReadFile, Advances
    <3> QED BY <1>0, <3>1
  <2> QED BY <1>8, <2>1, <2>2 DEF ReadFile
<1>9. CASE Rewrite(c)
  <2>1. CASE Fails(c) /\ UNCHANGED tries
    BY <1>1, <2>1
  <2>2. CASE at[c] = "mkdir" /\ MovesTo(c, "write") /\ UNCHANGED tries
    <3>1. Advances(c, "write")
      BY <2>2 DEF Advances
    <3> QED BY <1>0, <3>1
  <2>3. CASE at[c] = "write" /\ MovesTo(c, "done") /\ UNCHANGED tries
    <3>1. Advances(c, "done")
      BY <2>3 DEF Advances
    <3> QED BY <1>0, <3>1
  <2> QED BY <1>2, <1>9, <2>1, <2>2, <2>3 DEF Rewrite
<1>10. CASE at[c] = "done" /\ Built(c) /\ UNCHANGED probeVars
  BY <1>10 DEF Goal
<1> QED BY <1>5, <1>6, <1>7, <1>8, <1>9, <1>10 DEF Probe

\* The variables of the constructors keep their types: no loop goes round
\* more often than it may (applications/*: the pings and attempts).
THEOREM ApplicationTypeCorrect == ApplicationSpec => []ApplicationTypeOK
<1> USE ApplicationAssumption DEF ApplicationTypeOK, RoundsLeft
<1>1. ApplicationInit => ApplicationTypeOK /\ RoundsLeft
  BY DEF ApplicationInit, Places
<1>2. ApplicationTypeOK /\ RoundsLeft /\ [ApplicationNext]_avars => (ApplicationTypeOK /\ RoundsLeft)'
  <2> SUFFICES ASSUME ApplicationTypeOK, RoundsLeft, [ApplicationNext]_avars
               PROVE  (ApplicationTypeOK /\ RoundsLeft)'
    OBVIOUS
  <2> USE DEF Goes, Fail, Built, probeVars, serviceVars
  <2>1. ASSUME NEW c \in Containers, NEW x \in UserCtxs, New(c, x) \/ Close(c, x)
        PROVE  (ApplicationTypeOK /\ RoundsLeft)'
    BY <2>1 DEF New, Close, UserCtxs
  <2>2. ASSUME NEW c \in Containers, Ran(c) \/ Awaited(c) \/ CleanedUp(c)
        PROVE  (ApplicationTypeOK /\ RoundsLeft)'
    BY <2>2 DEF Ran, Awaited, CleanedUp
  <2>3. ASSUME NEW c \in Containers, Probe(c)
        PROVE  (ApplicationTypeOK /\ RoundsLeft)'
    <3>1. CASE Fail(c) /\ UNCHANGED <<at, tries, late>>
      BY <2>3, <3>1, ProbeMoves
    <3>2. CASE at[c] = "done" /\ Built(c) /\ UNCHANGED probeVars
      BY <2>3, <3>2, ProbeMoves
    <3>3. ASSUME NEW p \in Places, Advances(c, p), UNCHANGED <<kind, actx, serviceVars>>
          PROVE  (ApplicationTypeOK /\ RoundsLeft)'
      BY <3>3 DEF Advances, MovesTo
    <3> QED BY <2>3, <3>1, <3>2, <3>3, ProbeMoves
  <2>4. ASSUME NEW i \in Instances, ServiceAccepts(i) \/ Freezes(i)
        PROVE  (ApplicationTypeOK /\ RoundsLeft)'
    BY <2>4 DEF ServiceAccepts, Freezes
  <2>5. CASE UNCHANGED appVars
    BY <2>5 DEF appVars
  <2> QED BY <2>1, <2>2, <2>3, <2>4, <2>5 DEF ApplicationNext, Constructor, ApplicationWorld, avars
<1> QED BY <1>1, <1>2, PTL DEF ApplicationSpec

\* What the environment of the applications does is what Container's may do.
LEMMA ApplicationWorldIsWorld == ApplicationWorld => WorldStep
BY DEF ApplicationWorld, WorldStep, Ages, UserCtxs

\* Every step of a constructor is one of its handle's, or none
\* (applications/*).
LEMMA ApplicationStepIsStep == ApplicationTypeOK /\ [ApplicationNext]_avars => [Next]_vars
<1> SUFFICES ASSUME ApplicationTypeOK, [ApplicationNext]_avars PROVE [Next]_vars
  OBVIOUS
<1>1. ASSUME NEW c \in Containers, NEW x \in UserCtxs, New(c, x) \/ Close(c, x)
      PROVE  Next
  BY <1>1 DEF New, Close, UserCtxs, Next, CallStep
<1>2. ASSUME NEW c \in Containers, Constructor(c)
      PROVE  [Next]_vars
  <2>1. CASE Fail(c) \/ AwaitCall(c, actx[c])
    BY <2>1, ApplicationAssumption DEF Fail, ApplicationTypeOK, Next, CallStep
  <2>2. UNCHANGED vars \/ Fail(c) \/ AwaitCall(c, actx[c])
    BY <1>2, ProbeMoves DEF Constructor, Ran, Awaited, CleanedUp, Built, Advances, MovesTo
  <2> QED BY <2>1, <2>2
<1>3. ASSUME NEW i \in Instances, ServiceAccepts(i) \/ Freezes(i) PROVE UNCHANGED vars
  BY <1>3 DEF ServiceAccepts, Freezes
<1>4. CASE ApplicationWorld
  BY <1>4, ApplicationWorldIsWorld DEF Next
<1>5. ASSUME NEW c \in Containers, ApiStep(c) PROVE Next
  BY <1>5 DEF Next
<1>6. CASE UNCHANGED avars
  BY <1>6 DEF avars
<1> QED BY <1>1, <1>2, <1>3, <1>4, <1>5, <1>6 DEF ApplicationNext

\* The constructors use their handles only as Container allows
\* (applications/*), so that what is proved of a handle holds of theirs.
LEMMA ApplicationUsesContainers == ApplicationSpec => Spec
<1>1. ApplicationInit => Init
  BY DEF ApplicationInit
<1> QED BY <1>1, ApplicationTypeCorrect, ApplicationStepIsStep, PTL DEF ApplicationSpec, Spec

\* So the handle of an application keeps the promise of a lease through the
\* constructor, its clean-up and Close (applications/*, container.go).
THEOREM ApplicationKeepsLease == ApplicationSpec => ImplementsLease
<1> QED BY ApplicationUsesContainers, Implements, PTL

--------------------------------------------------------------------------------
(* The inductive invariant, one lemma for the steps of each kind. *)

\* What is known of the applications and their handles between two steps.
Known == TypeOK /\ IInv /\ ApplicationTypeOK /\ AInv

\* The service of c is ready as far as the constructor awaits it.
AwaitedFor(c) == kind[c].awaits => containerID[c] \in ready \/ inst[containerID[c]] = "exited"

\* A constructor runs its handle, once (New of every application).
LEMMA NewKeeps ==
  ASSUME Known, NEW c \in Containers, NEW x \in UserCtxs, New(c, x)
  PROVE  AInv'
<1> USE DEF Known, AInv, TypeOK, ApplicationTypeOK
<1>1. /\ UNCHANGED <<containerID, ctxVars, daemonVars, ghostVars, kind>>
      /\ pc[c] = "idle" /\ apc[c] = "new"
      /\ pc' = [pc EXCEPT ![c] = "list"] /\ op' = [op EXCEPT ![c] = "Run"]
      /\ err' = [err EXCEPT ![c] = "none"] /\ arg' = [arg EXCEPT ![c] = x]
      /\ grace' = [grace EXCEPT ![c] = "unused"] /\ apc' = [apc EXCEPT ![c] = "running"]
  BY DEF New, RunCall, Call, Goes
<1> USE DEF ctxVars, daemonVars, ghostVars
<1>2. Duty' /\ RunOnce'
  BY <1>1 DEF Duty, RunOnce
<1>3. Keeps'
  BY <1>1 DEF Keeps, Held, Started, RunOnce
<1>4. OwnWindow' /\ CleanedUpWell'
  BY <1>1 DEF OwnWindow, CleanedUpWell
<1> QED BY <1>2, <1>3, <1>4

\* A step failed: the deferred function closes the handle under a context of
\* its own (the deferred function of every constructor).
LEMMA FailKeeps ==
  ASSUME Known, NEW c \in Containers, apc[c] \in {"running", "awaiting", "probing"},
         Fail(c), kind' = kind
  PROVE  AInv'
<1> USE DEF Known, AInv, TypeOK, ApplicationTypeOK
<1>1. /\ UNCHANGED <<containerID, ctxVars, daemonVars, ghostVars, kind>>
      /\ apc' = [apc EXCEPT ![c] = "cleanup"] /\ pc[c] = "idle"
      /\ op' = [op EXCEPT ![c] = "Close"] /\ arg' = [arg EXCEPT ![c] = Cleanup[c]]
      /\ \A d \in Containers \ {c} : pc'[d] = pc[d] /\ err'[d] = err[d] /\ grace'[d] = grace[d]
  BY DEF Fail, CloseCall, Call, Goes
<1>2. \/ pc'[c] = "idle" /\ err'[c] = "nil"
      \/ pc'[c] = "stop"
  BY DEF Fail, CloseCall, Call
<1>3. grace'[c] = "unused"
  BY DEF Fail, CloseCall, OwnWindow
<1> USE DEF ctxVars, daemonVars, ghostVars
<1>4. Duty' /\ RunOnce'
  BY <1>1, <1>2 DEF Duty, RunOnce
<1>5. Keeps'
  BY <1>1 DEF Keeps, Held, Started
<1>6. OwnWindow'
  BY <1>1, <1>3 DEF OwnWindow
<1>7. CleanedUpWell'
  BY <1>1, <1>2 DEF CleanedUpWell
<1> QED BY <1>4, <1>5, <1>6, <1>7

\* The constructor goes on to the probe, or returns its application, when
\* the instance was started and what it awaits was heard.
LEMMA MovesOnKeeps ==
  ASSUME Known, NEW c \in Containers, NEW p \in {"probing", "built"},
         apc[c] \in {"running", "awaiting", "probing"}, pc[c] = "idle",
         Started(c), AwaitedFor(c), Goes(c, p), UNCHANGED <<kind, vars>>
  PROVE  AInv'
<1> USE DEF Known, AInv, TypeOK, ApplicationTypeOK
<1>1. /\ UNCHANGED <<containerID, ctxVars, daemonVars, ghostVars, kind, pc, op, err, arg, grace>>
      /\ apc' = [apc EXCEPT ![c] = p]
  BY DEF vars, clientVars, Goes
<1> USE DEF ctxVars, daemonVars, ghostVars
<1>2. Duty' /\ RunOnce'
  BY <1>1 DEF Duty, RunOnce
<1>3. Keeps'
  BY <1>1 DEF Keeps, Held, Started, AwaitedFor
<1>4. OwnWindow' /\ CleanedUpWell'
  BY <1>1 DEF OwnWindow, CleanedUpWell
<1> QED BY <1>2, <1>3, <1>4

\* What a step of a constructor comes to (applications/*).
LEMMA ConstructorMoves ==
  ASSUME Known, NEW c \in Containers, Constructor(c)
  PROVE  /\ kind' = kind
         /\ pc[c] = "idle"
         /\ \/ /\ apc[c] = "running" /\ Started(c)
               /\ AwaitCall(c, actx[c]) /\ Goes(c, "awaiting")
            \/ /\ apc[c] \in {"running", "awaiting", "probing"} /\ Started(c) /\ AwaitedFor(c)
               /\ UNCHANGED vars
               /\ \E p \in {"probing", "built"} : Goes(c, p)
            \/ apc[c] \in {"running", "awaiting", "probing"} /\ Fail(c)
            \/ apc[c] = "cleanup" /\ Goes(c, "failed") /\ UNCHANGED vars
<1> USE DEF Known, AInv
<1>1. CASE Ran(c)
  <2>1. err[c] = "nil" => Started(c)
    BY <1>1 DEF Ran, Duty, IInv, Outcome, Returned
  <2> QED BY <1>1, <2>1 DEF Ran, AwaitedFor
<1>2. CASE Awaited(c)
  <2>1. Started(c)
    BY <1>2 DEF Awaited, Keeps
  <2>2. err[c] = "nil" => AwaitedFor(c)
    BY <1>2, <2>1 DEF Awaited, AwaitedFor, Started, Duty, IInv, AwaitNilIsFinal, Returned
  <2> QED BY <1>2, <2>1, <2>2 DEF Awaited, Built
<1>3. CASE Probe(c)
  <2>1. Started(c) /\ AwaitedFor(c) /\ apc[c] = "probing" /\ pc[c] = "idle" /\ kind' = kind
    BY <1>3 DEF Probe, Keeps, Duty, AwaitedFor
  <2>2. \/ Goes(c, "built") /\ UNCHANGED vars
        \/ UNCHANGED <<apc, vars>>
        \/ Fail(c)
    BY <1>3, ProbeMoves DEF Built, Advances, MovesTo
  <2>3. apc' = apc => Goes(c, "probing")
    BY <2>1 DEF Goes, ApplicationTypeOK
  <2> QED BY <2>1, <2>2, <2>3
<1>4. CASE CleanedUp(c)
  BY <1>4 DEF CleanedUp
<1> QED BY <1>1, <1>2, <1>3, <1>4 DEF Constructor

\* The constructor awaits the line, or ends (applications/*).
LEMMA ConstructorKeeps ==
  ASSUME Known, NEW c \in Containers, Constructor(c)
  PROVE  AInv'
<1> USE DEF Known, AInv, TypeOK, ApplicationTypeOK
<1>1. kind' = kind /\ pc[c] = "idle"
  BY ConstructorMoves
<1>2. CASE apc[c] = "running" /\ Started(c) /\ AwaitCall(c, actx[c]) /\ Goes(c, "awaiting")
  <2>1. /\ UNCHANGED <<containerID, ctxVars, daemonVars, ghostVars>>
        /\ pc' = [pc EXCEPT ![c] = "logs"] /\ op' = [op EXCEPT ![c] = "AwaitOutput"]
        /\ err' = [err EXCEPT ![c] = "none"] /\ arg' = [arg EXCEPT ![c] = actx[c]]
        /\ grace' = [grace EXCEPT ![c] = "unused"] /\ apc' = [apc EXCEPT ![c] = "awaiting"]
    BY <1>2 DEF AwaitCall, Call, Goes
  <2> USE DEF ctxVars, daemonVars, ghostVars
  <2>2. Duty' /\ RunOnce'
    BY <1>2, <2>1 DEF Duty, RunOnce
  <2>3. Keeps'
    BY <1>1, <1>2, <2>1 DEF Keeps, Held, Started
  <2>4. OwnWindow' /\ CleanedUpWell'
    BY <1>2, <2>1 DEF OwnWindow, CleanedUpWell
  <2> QED BY <2>2, <2>3, <2>4
<1>3. CASE apc[c] = "cleanup" /\ Goes(c, "failed") /\ UNCHANGED vars
  <2>1. /\ UNCHANGED <<containerID, ctxVars, daemonVars, ghostVars, kind, pc, op, err, arg, grace>>
        /\ apc' = [apc EXCEPT ![c] = "failed"]
    BY <1>1, <1>3 DEF vars, clientVars, Goes
  <2> USE DEF ctxVars, daemonVars, ghostVars
  <2>2. Duty' /\ RunOnce'
    BY <1>1, <1>3, <2>1 DEF Duty, RunOnce
  <2>3. Keeps'
    BY <1>1, <1>3, <2>1 DEF Keeps, Held, Started
  <2>4. OwnWindow' /\ CleanedUpWell'
    BY <1>1, <1>3, <2>1 DEF OwnWindow, CleanedUpWell
  <2> QED BY <2>2, <2>3, <2>4
<1> QED BY <1>1, <1>2, <1>3, ConstructorMoves, FailKeeps, MovesOnKeeps

\* The caller closes the application (Close of every application).
LEMMA CloseKeeps ==
  ASSUME Known, NEW c \in Containers, NEW x \in UserCtxs, Close(c, x)
  PROVE  AInv'
<1> USE DEF Known, AInv, TypeOK, ApplicationTypeOK
<1>1. /\ UNCHANGED <<containerID, ctxVars, daemonVars, ghostVars, kind>>
      /\ apc[c] \in {"built", "closing"} /\ apc' = [apc EXCEPT ![c] = "closing"]
      /\ op' = [op EXCEPT ![c] = "Close"] /\ pc'[c] \in {"idle", "stop"}
      /\ \A d \in Containers \ {c} :
            pc'[d] = pc[d] /\ err'[d] = err[d] /\ arg'[d] = arg[d] /\ grace'[d] = grace[d]
  BY DEF Close, CloseCall, Call, Goes
<1> USE DEF ctxVars, daemonVars, ghostVars
<1>2. Duty' /\ RunOnce'
  BY <1>1 DEF Duty, RunOnce
<1>3. Keeps'
  BY <1>1 DEF Keeps, Held, Started
<1>4. OwnWindow' /\ CleanedUpWell'
  BY <1>1 DEF OwnWindow, CleanedUpWell
<1> QED BY <1>2, <1>3, <1>4

\* A handle makes its next request (container.go, called by the constructors).
LEMMA RequestKeeps ==
  ASSUME Known, TypeOK', IInv', NEW c \in Containers, ApiStep(c), UNCHANGED appVars
  PROVE  AInv'
<1> USE DEF Known, AInv
<1>1. /\ pc[c] # "idle" /\ UNCHANGED <<networkID, op, arg, grace, ctxVars, ready, net>>
      /\ \A d \in Containers \ {c} :
             /\ pc'[d] = pc[d] /\ err'[d] = err[d] /\ containerID'[d] = containerID[d]
             /\ containerID[d] # NoID =>
                    /\ inst'[containerID[d]] = inst[containerID[d]]
                    /\ attached'[containerID[d]] = attached[containerID[d]]
  BY RequestFrame
<1>2. UNCHANGED <<kind, apc, actx, tries, accepting, deadline, cancelled>>
  BY <1>1 DEF appVars, probeVars, serviceVars, ctxVars
<1>3. /\ pc[c] \in RunPC => op[c] = "Run"
      /\ pc[c] \in ClosePC => op[c] = "Close"
      /\ pc[c] \in AwaitPC => op[c] = "AwaitOutput"
  BY DEF IInv, Program
<1>4. Duty'
  BY <1>1, <1>2 DEF Duty
<1>5. RunOnce'
  <2>1. CASE Create(c)
    BY <1>1, <1>2, <2>1 DEF RunOnce, Create, GoOn, Return, TypeOK, ghostVars, Duty
  <2>2. CASE ~Create(c)
    <3>1. superseded' = superseded /\ containerID' = containerID
      BY <2>2 DEF ApiStep, ListImages, PullImage, Connect, Start, Stop, Remove, OpenLogs,
         AwaitOutput, ghostVars
    <3>2. pc'[c] \in {"list", "pull", "create"} => pc[c] \in {"list", "pull"}
      BY <2>2 DEF ApiStep, ListImages, PullImage, Connect, Start, Stop, Remove, OpenLogs,
         AwaitOutput, Matched, Ended, Interrupted, GoOn, Return, TypeOK
    <3> QED BY <1>1, <1>2, <3>1, <3>2 DEF RunOnce
  <2> QED BY <2>1, <2>2
<1>6. Keeps'
  <2>1. ASSUME apc[c] = "running", containerID'[c] # NoID PROVE Held(containerID[c])'
    <3>1. pc[c] \in RunPC
      BY <1>1, <1>3, <2>1 DEF Duty, TypeOK, ClosePC, AwaitPC
    <3> QED BY <1>2, <2>1, <3>1, ContainerAssumption
        DEF Keeps, Held, ApiStep, ListImages, PullImage, Create, Connect, Start, Stop, Remove,
            OpenLogs, AwaitOutput, GoOn, Return, TypeOK, daemonVars, RunPC
  <2>2. ASSUME apc[c] = "awaiting" PROVE UNCHANGED <<containerID, inst>>
    <3>1. pc[c] \in AwaitPC
      BY <1>1, <1>3, <2>2 DEF Duty, TypeOK, ClosePC, RunPC
    <3> QED BY <3>1 DEF ApiStep, ListImages, PullImage, Create, Connect, Start, Stop, Remove,
            OpenLogs, AwaitOutput, daemonVars, AwaitPC
  <2>3. ASSUME apc[c] = "cleanup", pc'[c] # "idle", containerID'[c] # NoID
        PROVE  Held(containerID[c])'
    <3>1. pc[c] \in ClosePC
      BY <1>1, <1>3, <2>3 DEF Duty, TypeOK, AwaitPC, RunPC
    <3>2. Stop(c)
      BY <2>3, <3>1 DEF ApiStep, ListImages, PullImage, Create, Connect, Start, Remove,
         OpenLogs, AwaitOutput, Return, TypeOK, ClosePC
    <3> QED BY <1>1, <2>3, <3>2, ContainerAssumption DEF Keeps, Held, Stop, Stopped, TypeOK
  <2>4. apc[c] \notin {"new", "probing", "built", "failed"}
    BY <1>1 DEF Duty
  <2>5. ASSUME NEW d \in Containers, d # c, containerID[d] # NoID
        PROVE  Held(containerID[d]) <=> Held(containerID[d])'
    BY <1>1, <2>5 DEF Held
  <2> QED BY <1>1, <1>2, <2>1, <2>2, <2>3, <2>4, <2>5 DEF Keeps, Started, Held
<1>7. OwnWindow'
  BY <1>1, <1>2 DEF OwnWindow
<1>8. CleanedUpWell'
  <2>1. ASSUME apc[c] = "cleanup", pc'[c] = "idle"
        PROVE  \/ err'[c] = "nil"
               \/ deadline[Cleanup[c]] = "past"
               \/ err'[c] = "error" /\ Faults # {}
    <3>1. pc[c] \in ClosePC
      BY <1>1, <1>3, <2>1 DEF Duty, TypeOK, AwaitPC, RunPC
    <3>2. containerID[c] # NoID /\ Held(containerID[c])
      BY <1>1, <2>1, <3>1 DEF Keeps, IInv, Progress, ClosePC
    <3>3. Done(c) => deadline[Cleanup[c]] = "past"
      BY <2>1 DEF Done, OwnWindow
    <3>4. err'[c] = "nil" \/ (err'[c] = Reason(c) /\ (Done(c) \/ Faults # {}))
      BY <2>1, <3>1, <3>2 DEF ApiStep, ListImages, PullImage, Create, Connect, Start, Stop, Remove,
         OpenLogs, AwaitOutput, GoOn, Return, TypeOK, ClosePC, MayRefuse, MayLose
    <3> QED BY <3>3, <3>4 DEF Reason
  <2> QED BY <1>1, <1>2, <2>1 DEF CleanedUpWell, Duty
<1> QED BY <1>4, <1>5, <1>6, <1>7, <1>8

\* Time, the programs and the registry take nothing from an application that
\* it had, and let no clean-up context age but that of a clean-up that runs.
LEMMA ApplicationWorldKeeps ==
  ASSUME Known, ApplicationWorld
  PROVE  AInv'
<1> USE DEF Known, AInv
<1>1. UNCHANGED <<kind, apc, actx, tries, accepting>>
  BY DEF ApplicationWorld, appVars, probeVars, serviceVars
<1>2. WorldStep
  BY ApplicationWorldIsWorld
<1>3. /\ UNCHANGED <<containerID, networkID, op, arg, net, attached, lost, superseded>>
      /\ \A c \in Containers :
            \/ pc'[c] = pc[c] /\ err'[c] = err[c]
            \/ /\ pc[c] = "await" /\ pc'[c] = "idle"
               /\ err'[c] = "error" \/ (err'[c] = "nil" /\ containerID[c] \in ready)
      /\ \A i \in Instances :
            inst'[i] = inst[i] \/ (inst[i] = "running" /\ inst'[i] = "exited")
      /\ ready \subseteq ready'
  BY <1>2, WorldFrame DEF ghostVars
<1>4. \A c \in Containers : pc[c] = "await" => op[c] = "AwaitOutput"
  BY DEF IInv, Program, AwaitPC
<1>5. Duty' /\ RunOnce'
  BY <1>1, <1>3 DEF Duty, RunOnce
<1>6. Keeps'
  BY <1>1, <1>3 DEF Keeps, Held, Started, TypeOK
<1>7. /\ \A c \in Containers : Cleanup[c] \in Ctxs \ UserCtxs
      /\ \A c \in Containers : deadline'[Cleanup[c]] = deadline[Cleanup[c]]
             \/ (deadline'[Cleanup[c]] = "past" /\ apc[c] = "cleanup")
  <2>1. \A c \in Containers : Cleanup[c] \in Ctxs \ UserCtxs
    BY ApplicationAssumption DEF UserCtxs, CleanupCtxs
  <2>2. ASSUME NEW x \in Ctxs, Ages(x), NEW c \in Containers
        PROVE  deadline'[Cleanup[c]] = deadline[Cleanup[c]]
                   \/ (deadline'[Cleanup[c]] = "past" /\ apc[c] = "cleanup")
    BY <2>1, <2>2 DEF Ages, DeadlinePasses, TypeOK
  <2> QED BY <2>1, <2>2 DEF ApplicationWorld, Cancel, GracePasses, LogSevered, Exits, Emits,
          Publishes, ctxVars
<1>8. OwnWindow'
  <2>1. \A c \in Containers : Cleanup[c] \notin cancelled'
    BY <1>7 DEF OwnWindow, ApplicationWorld, Ages, DeadlinePasses, Cancel, GracePasses, LogSevered,
       Exits, Emits, Publishes, ctxVars
  <2>2. \A c \in Containers : grace[c] = "unused" => grace'[c] = "unused"
    BY DEF ApplicationWorld, Ages, DeadlinePasses, Cancel, GracePasses, LogSevered,
       Exits, Emits, Publishes, clientVars, TypeOK
  <2> QED BY <1>1, <1>3, <1>7, <2>1, <2>2 DEF OwnWindow
<1>9. CleanedUpWell'
  BY <1>1, <1>3, <1>4, <1>7 DEF CleanedUpWell, Duty
<1> QED BY <1>5, <1>6, <1>8, <1>9

\* Every step of the applications keeps the invariant (applications/*).
LEMMA ApplicationStepKeeps == Known /\ TypeOK' /\ IInv' /\ [ApplicationNext]_avars => AInv'
<1> SUFFICES ASSUME Known, TypeOK', IInv', [ApplicationNext]_avars PROVE AInv'
  OBVIOUS
<1>1. ASSUME NEW c \in Containers, NEW x \in UserCtxs, New(c, x) \/ Close(c, x) PROVE AInv'
  BY <1>1, NewKeeps, CloseKeeps
<1>2. ASSUME NEW c \in Containers, Constructor(c) PROVE AInv'
  BY <1>2, ConstructorKeeps
<1>3. ASSUME NEW c \in Containers, ApiStep(c), UNCHANGED appVars PROVE AInv'
  BY <1>3, RequestKeeps
<1>4. CASE ApplicationWorld
  BY <1>4, ApplicationWorldKeeps
<1>5. CASE UNCHANGED <<kind, apc, vars>>
  BY <1>5 DEF vars, clientVars, ctxVars, daemonVars, ghostVars, Known, AInv, Duty, RunOnce,
     Keeps, Held, Started, OwnWindow, CleanedUpWell
<1>6. UNCHANGED avars \/ (\E i \in Instances : ServiceAccepts(i) \/ Freezes(i)) =>
          UNCHANGED <<kind, apc, vars>>
  BY DEF avars, appVars, ServiceAccepts, Freezes
<1> QED BY <1>1, <1>2, <1>3, <1>4, <1>5, <1>6 DEF ApplicationNext

\* What the constructors rely on between two steps, of which everything
\* below follows (applications/*).
THEOREM ApplicationInductive == ApplicationSpec => []Known
<1>1. ApplicationInit => AInv
  BY ContainerAssumption, ApplicationAssumption DEF ApplicationInit, Init, AInv, Duty, RunOnce,
     Keeps, OwnWindow, CleanedUpWell, CleanupCtxs
<1>2. ApplicationSpec => [](TypeOK /\ IInv /\ ApplicationTypeOK)
  BY ApplicationUsesContainers, TypeCorrect, Inductive, ApplicationTypeCorrect, PTL
<1>3. TypeOK /\ IInv /\ ApplicationTypeOK /\ AInv /\ TypeOK' /\ IInv' /\ [ApplicationNext]_avars => AInv'
  BY ApplicationStepKeeps DEF Known
<1>4. TypeOK /\ IInv /\ ApplicationTypeOK /\ AInv => Known
  BY DEF Known
<1> QED BY <1>1, <1>2, <1>3, <1>4, PTL DEF ApplicationSpec

--------------------------------------------------------------------------------
(* What the users of a constructor may rely on. *)

\* A constructor that failed left nothing in the daemon, but for a clean-up
\* out of time or refused, or an instance nobody told it of (the deferred
\* function of every constructor).
THEOREM FailureIsClean == ApplicationSpec => []FailedLeavesNothing
<1>1. Known => FailedLeavesNothing
  <2> SUFFICES ASSUME Known, NEW c \in Containers, apc[c] = "failed", err[c] = "nil",
                      NEW i \in Instances, Label[i] = c, Held(i)
               PROVE  i \in lost
    BY DEF Known, AInv, CleanedUpWell, FailedLeavesNothing
  <2>1. Returned(c, "Close", "nil") /\ superseded = {}
    BY DEF Known, AInv, Duty, RunOnce, Returned
  <2>2. containerID[c] = NoID \/ inst[containerID[c]] = "removed"
    BY <2>1 DEF Known, IInv, Outcome
  <2>3. containerID[c] = i \/ i \in lost
    BY <2>1 DEF Known, IInv, NothingUntracked
  <2> QED BY <2>2, <2>3, ContainerAssumption DEF Held
<1> QED BY <1>1, ApplicationInductive, PTL

\* A constructor that succeeded has a container of its own, started and, if
\* it awaits a line, heard (New of every application).
THEOREM SuccessIsStarted == ApplicationSpec => []BuiltHoldsContainer
<1>1. Known => BuiltHoldsContainer
  BY DEF Known, AInv, Keeps, Started, IInv, OwnID, BuiltHoldsContainer
<1> QED BY <1>1, ApplicationInductive, PTL

\* A context that has ended stays so (context.Context).
LEMMA CtxStaysDone ==
  ASSUME Known, [ApplicationNext]_avars, NEW c \in Containers, CtxDone(c), actx'[c] = actx[c]
  PROVE  CtxDone(c)'
<1> USE DEF Known, TypeOK, ApplicationTypeOK, CtxDone
<1>1. [Next]_vars
  BY ApplicationStepIsStep
<1>2. CASE UNCHANGED ctxVars
  BY <1>2 DEF ctxVars
<1>3. ASSUME NEW x \in Ctxs, DeadlinePasses(x) \/ Cancel(x) PROVE CtxDone(c)'
  BY <1>3 DEF DeadlinePasses, Cancel
<1>4. (\E x \in Ctxs : DeadlinePasses(x) \/ Cancel(x)) \/ UNCHANGED ctxVars
  <2>1. ASSUME NEW d \in Containers, CallStep(d) PROVE UNCHANGED ctxVars
    BY <2>1 DEF CallStep, RunCall, CloseCall, AwaitCall, NetworkAttach, Call, ctxVars
  <2>2. ASSUME NEW d \in Containers, ApiStep(d) PROVE UNCHANGED ctxVars
    BY <2>2, RequestFrame
  <2>3. CASE WorldStep
    BY <2>3 DEF WorldStep, GracePasses, LogSevered, Exits, Emits, Publishes, ctxVars
  <2>4. CASE UNCHANGED vars
    BY <2>4 DEF vars
  <2>5. CASE NetworkStep
    BY <2>5 DEF NetworkStep, NetworkCreated, NetworkRemoved, ctxVars
  <2> QED BY <1>1, <2>1, <2>2, <2>3, <2>4, <2>5 DEF Next
<1> QED BY <1>2, <1>3, <1>4

\* Every step keeps the attempts that were begun late to one (memcache.go and
\* postgres.go: the select).
LEMMA LateStepKeeps == Known /\ LateInv /\ [ApplicationNext]_avars => LateInv'
<1> SUFFICES ASSUME Known, LateInv, [ApplicationNext]_avars, NEW d \in Containers
             PROVE  LateOK(d)'
  BY DEF LateInv
<1> USE DEF Known, ApplicationTypeOK, LateOK
<1>1. /\ LateOK(d) /\ late[d] \in 0..2
  BY DEF LateInv
<1>2. ASSUME UNCHANGED <<kind, at, late>>, actx'[d] = actx[d] \/ late[d] = 0,
             apc'[d] \in {"new", "running", "awaiting"} => apc[d] \in {"new", "running", "awaiting"}
      PROVE  LateOK(d)'
  BY <1>1, <1>2, CtxStaysDone
<1>3. CASE \E c \in Containers, x \in UserCtxs : New(c, x) \/ Close(c, x)
  <2>1. /\ UNCHANGED <<kind, at, late>>
        /\ actx'[d] = actx[d] \/ late[d] = 0
        /\ apc'[d] \in {"new", "running", "awaiting"} => apc[d] \in {"new", "running", "awaiting"}
    BY <1>1, <1>3 DEF New, Close, Goes, probeVars
  <2> QED BY <1>2, <2>1
<1>4. CASE \E c \in Containers : Ran(c) \/ Awaited(c) \/ CleanedUp(c)
  <2>1. /\ UNCHANGED <<kind, at, late, actx>>
        /\ apc'[d] \in {"new", "running", "awaiting"} => apc[d] \in {"new", "running", "awaiting"}
    BY <1>4 DEF Ran, Awaited, CleanedUp, Fail, Built, Goes, probeVars
  <2> QED BY <1>2, <2>1
<1>5. ASSUME NEW c \in Containers, Probe(c)
      PROVE  LateOK(d)'
  <2>1. apc[c] = "probing" /\ UNCHANGED <<kind, actx>>
    BY <1>5, ProbeMoves
  <2>2. CASE UNCHANGED <<at, late>>
    <3>1. apc'[d] \in {"new", "running", "awaiting"} => apc[d] \in {"new", "running", "awaiting"}
      BY <1>5, ProbeMoves DEF Advances, MovesTo, Fail, Built, Goes
    <3> QED BY <1>2, <2>1, <2>2, <3>1
  <2>3. ASSUME NEW p \in Places, Advances(c, p), d # c
        PROVE  LateOK(d)'
    <3>1. at'[d] = at[d] /\ late'[d] = late[d] /\ apc' = apc
      BY <2>3 DEF Advances, MovesTo
    <3> QED BY <1>1, <2>1, <3>1, CtxStaysDone
  <2>4. ASSUME NEW p \in Places, Advances(c, p), d = c
        PROVE  LateOK(d)'
    <3>1. at'[d] = p /\ apc'[d] = "probing"
      BY <2>1, <2>4 DEF Advances, MovesTo
    <3>2. \/ late'[d] = late[d]
          \/ p = "attempt" /\ CtxDone(d) /\ late'[d] = late[d] + 1
      BY <2>4 DEF Advances, MovesTo
    <3>3. late'[d] > 0 => CtxDone(d)'
      BY <1>1, <2>1, <3>2, CtxStaysDone
    <3>4. kind'[d].probe \in {"pings", "connects"} /\ p \in {"address", "waiting"} => late'[d] = 0
      BY <1>1, <2>1, <2>4, <3>2 DEF Advances
    <3>5. kind'[d].probe \in {"pings", "connects"} => late'[d] <= 1
      BY <1>1, <2>1, <2>4, <3>2 DEF Advances
    <3> QED BY <3>1, <3>3, <3>4, <3>5
  <2> QED BY <1>5, <2>2, <2>3, <2>4, ProbeMoves DEF probeVars
<1>6. CASE \/ \E c \in Containers : ApiStep(c) /\ UNCHANGED appVars
           \/ \E i \in Instances : ServiceAccepts(i) \/ Freezes(i)
           \/ ApplicationWorld
           \/ UNCHANGED avars
  <2>1. UNCHANGED <<kind, apc, actx, at, late>>
    BY <1>6 DEF ServiceAccepts, Freezes, ApplicationWorld, avars, appVars, probeVars
  <2> QED BY <1>2, <2>1
<1> QED BY <1>3, <1>4, <1>5, <1>6 DEF ApplicationNext, Constructor

\* A loop that heeds its context begins at most one more attempt after the
\* context has ended (memcache.go, postgres.go).
THEOREM AtMostOneLate == ApplicationSpec => []OneLateAttempt
<1>1. ApplicationInit => LateInv
  BY DEF ApplicationInit, LateInv, LateOK
<1>2. ApplicationSpec => []LateInv
  BY <1>1, ApplicationInductive, LateStepKeeps, PTL DEF ApplicationSpec
<1>3. LateInv => OneLateAttempt
  BY DEF LateInv, LateOK, OneLateAttempt
<1> QED BY <1>2, <1>3, PTL

--------------------------------------------------------------------------------
(* K3s: the file besides the container. *)

\* An application with a file is an application (k3s.go).
THEOREM K3sIsApplication == K3sSpec => ApplicationSpec
<1>1. K3sInit => ApplicationInit
  BY DEF K3sInit
<1>2. [K3sNext]_kvars => [ApplicationNext]_avars
  BY DEF K3sNext, kvars, K3sConstructor, K3sClose, K3sClosed, ApplicationNext
<1> QED BY <1>1, <1>2, PTL DEF K3sSpec, ApplicationSpec

\* The file and the result of a Close keep their types (k3s.go).
THEOREM K3sTypeCorrect == K3sSpec => []K3sTypeOK
<1> DEFINE FileTypeOK ==
             /\ kubeconfig \in [Containers -> {"none", "dir", "written", "deleted"}]
             /\ kerr \in [Containers -> {"none", "pending", "file", "nil", "container"}]
<1>1. K3sInit => FileTypeOK
  BY DEF K3sInit
<1>2. FileTypeOK /\ [K3sNext]_kvars => FileTypeOK'
  BY DEF K3sNext, kvars, fileVars, K3sConstructor, K3sClose, K3sClosed
<1>3. ApplicationTypeOK /\ FileTypeOK => K3sTypeOK
  BY DEF K3sTypeOK
<1>4. K3sSpec => []ApplicationTypeOK
  BY K3sIsApplication, ApplicationTypeCorrect, PTL
<1> HIDE DEF FileTypeOK
<1> QED BY <1>1, <1>2, <1>3, <1>4, PTL DEF K3sSpec

\* Every step keeps what is known of the file (k3s.go).
LEMMA K3sStepKeeps == Known /\ K3sTypeOK /\ KInv /\ [K3sNext]_kvars => KInv'
<1> SUFFICES ASSUME Known, K3sTypeOK, KInv, [K3sNext]_kvars PROVE KInv'
  OBVIOUS
<1> USE DEF Known, AInv, K3sTypeOK, ApplicationTypeOK, TypeOK, KInv, FileFirst,
        FileWritten, HasFile, Returned, probeVars
<1>1. ASSUME NEW c \in Containers, NEW x \in UserCtxs, New(c, x), UNCHANGED fileVars PROVE KInv'
  BY <1>1 DEF New, RunCall, Call, Goes, fileVars
<1>2. ASSUME NEW c \in Containers, NEW x \in UserCtxs, kerr[c] # "pending", K3sClose(c, x)
      PROVE  KInv'
  <2>1. CASE ~Close(c, x)
    <3>1. /\ UNCHANGED <<kubeconfig, apc, at, kind, pc, op, err>>
          /\ kerr' = [kerr EXCEPT ![c] = "file"]
      BY <1>2, <2>1 DEF K3sClose, avars, appVars, vars, clientVars
    <3> QED BY <3>1
  <2>2. CASE Close(c, x)
    BY <1>2, <2>2 DEF K3sClose, Close, CloseCall, Call, Goes
  <2> QED BY <2>1, <2>2
<1>3. ASSUME NEW c \in Containers, K3sConstructor(c) PROVE KInv'
  <2>1. /\ kind' = kind /\ kerr' = kerr
        /\ apc[c] \notin {"new", "built", "closing", "failed"}
        /\ \E p \in {"awaiting", "probing", "built", "cleanup", "failed"} : Goes(c, p)
    BY <1>3, ConstructorMoves DEF K3sConstructor, Fail
  <2>2. \A d \in Containers \ {c} : pc'[d] = pc[d] /\ op'[d] = op[d] /\ err'[d] = err[d]
    BY <1>3, ConstructorMoves DEF K3sConstructor, Fail, AwaitCall, CloseCall, Call, vars, clientVars
  <2>3. \A d \in Containers \ {c} : at'[d] = at[d] /\ kubeconfig'[d] = kubeconfig[d]
    <3>1. CASE Probe(c)
      BY <1>3, <3>1, ProbeMoves DEF Advances, MovesTo, K3sConstructor
    <3>2. CASE ~Probe(c)
      BY <1>3, <3>2 DEF K3sConstructor, Constructor, Ran, Awaited, CleanedUp
    <3> QED BY <3>1, <3>2
  <2>4. HasFile(c) /\ at'[c] = "done" => kubeconfig'[c] \in {"written", "deleted"}
    <3>1. HasFile(c) => kind[c].probe = "reads"
      BY DEF K3sServer
    <3>2. CASE at' = at
      BY <1>3, <3>2 DEF K3sConstructor
    <3>3. HasFile(c) /\ at' # at /\ at'[c] = "done" => at[c] = "write"
      <4>1. CASE Probe(c)
        BY <3>1, <4>1, ProbeMoves DEF Advances, MovesTo
      <4>2. CASE ~Probe(c)
        BY <1>3, <4>2 DEF K3sConstructor, Constructor, Ran, Awaited, CleanedUp
      <4> QED BY <4>1, <4>2
    <3> QED BY <1>3, <3>2, <3>3 DEF K3sConstructor
  <2>5. HasFile(c) /\ apc'[c] = "built" => at'[c] = "done"
    <3>1. HasFile(c) => kind[c].probe = "reads" /\ kind[c].awaits
      BY DEF K3sServer
    <3>2. CASE Probe(c)
      BY <3>2, ProbeMoves DEF Advances, MovesTo, Fail, Built, Goes
    <3>3. CASE ~Probe(c)
      BY <1>3, <3>1, <3>3 DEF K3sConstructor, Constructor, Ran, Awaited, CleanedUp, Fail, Goes
    <3> QED BY <3>2, <3>3
  <2> QED BY <2>1, <2>2, <2>3, <2>4, <2>5 DEF Goes
<1>4. ASSUME NEW c \in Containers, K3sClosed(c) PROVE KInv'
  BY <1>4 DEF K3sClosed, avars, appVars, vars, clientVars, Duty
<1>5. ASSUME NEW c \in Containers, ApiStep(c), UNCHANGED <<appVars, fileVars>> PROVE KInv'
  BY <1>5, RequestFrame DEF appVars, fileVars
<1>6. ASSUME NEW i \in Instances, ServiceAccepts(i) \/ Freezes(i), UNCHANGED fileVars PROVE KInv'
  BY <1>6 DEF ServiceAccepts, Freezes, fileVars, vars, clientVars
<1>7. CASE ApplicationWorld /\ UNCHANGED fileVars
  BY <1>7, ApplicationWorldIsWorld, WorldFrame DEF ApplicationWorld, appVars, fileVars
<1>8. CASE UNCHANGED kvars
  BY <1>8 DEF kvars, fileVars, avars, appVars, vars, clientVars
<1> QED BY <1>1, <1>2, <1>3, <1>4, <1>5, <1>6, <1>7, <1>8 DEF K3sNext

\* What is known of the file between two steps (k3s.go).
LEMMA K3sInductive == K3sSpec => [](Known /\ KInv)
<1>1. K3sInit => KInv
  BY DEF K3sInit, ApplicationInit, Init, KInv, FileFirst, FileWritten, HasFile
<1>2. K3sSpec => []Known
  BY K3sIsApplication, ApplicationInductive, PTL
<1> QED BY <1>1, <1>2, K3sTypeCorrect, K3sStepKeeps, PTL DEF K3sSpec

\* A Close that returns nil has left no container, and removed the file the
\* constructor of k3s wrote (k3s.go Close).
THEOREM K3sCloseIsComplete == K3sSpec => []K3sCloseLeavesNothing
<1>1. Known /\ KInv => K3sCloseLeavesNothing
  BY ContainerAssumption
     DEF Known, KInv, FileFirst, FileWritten, IInv, Outcome, Held, K3sCloseLeavesNothing
<1> QED BY <1>1, K3sInductive, PTL

================================================================================
