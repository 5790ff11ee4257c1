---------------------------- MODULE ContainerProofs ----------------------------
(* Proofs about module Container, for every value of its constants. *)
EXTENDS Container, TLAPS

--------------------------------------------------------------------------------
(* Type correctness. *)

\* Every variable of the handle, the contexts and the daemon keeps its type
\* (container.go: the fields of container and what the daemon reports).
THEOREM TypeCorrect == Spec => []TypeOK
<1>1. Init => TypeOK
  BY ContainerAssumption DEF Init, TypeOK, RunPC, ClosePC, AwaitPC, Result, Clock
<1>2. TypeOK /\ [Next]_vars => TypeOK'
  <2> SUFFICES ASSUME TypeOK, [Next]_vars PROVE TypeOK'
    OBVIOUS
  <2> USE ContainerAssumption DEF TypeOK, RunPC, ClosePC, AwaitPC, Result, Clock,
          clientVars, ctxVars, daemonVars, ghostVars
  <2>1. ASSUME NEW c \in Containers, CallStep(c) PROVE TypeOK'
    <3>1. ASSUME NEW n \in Networks, NetworkAttach(c, n) PROVE TypeOK'
      BY <3>1 DEF NetworkAttach
    <3>2. ASSUME NEW x \in Ctxs, RunCall(c, x) PROVE TypeOK'
      BY <3>2 DEF RunCall, Call
    <3>3. ASSUME NEW x \in Ctxs, CloseCall(c, x) PROVE TypeOK'
      <4>1. CASE containerID[c] = NoID
        BY <3>3, <4>1 DEF CloseCall, Call
      <4>2. CASE containerID[c] # NoID
        <5> DEFINE g == IF deadline[x] = "past" THEN "ahead" ELSE "unused"
        <5>1. g \in {"unused"} \union Clock
          OBVIOUS
        <5>2. grace' = [grace EXCEPT ![c] = g]
          BY <3>3, <4>2 DEF CloseCall
        <5>3. /\ pc' = [pc EXCEPT ![c] = "stop"]
              /\ op' = [op EXCEPT ![c] = "Close"]
              /\ err' = [err EXCEPT ![c] = "none"]
              /\ arg' = [arg EXCEPT ![c] = x]
              /\ UNCHANGED <<containerID, networkID, ctxVars, daemonVars, ghostVars>>
          BY <3>3, <4>2 DEF CloseCall, Call
        <5> HIDE DEF g
        <5> QED BY <5>1, <5>2, <5>3
      <4> QED BY <4>1, <4>2
    <3>4. ASSUME NEW x \in Ctxs, AwaitCall(c, x) PROVE TypeOK'
      BY <3>4 DEF AwaitCall, Call
    <3> QED BY <2>1, <3>1, <3>2, <3>3, <3>4 DEF CallStep
  <2>2. ASSUME NEW c \in Containers, ApiStep(c) PROVE TypeOK'
    <3> USE DEF GoOn, Return, Reason
    <3>1. CASE ListImages(c)
      BY <3>1 DEF ListImages
    <3>2. CASE PullImage(c)
      BY <3>2 DEF PullImage
    <3>3. CASE Create(c)
      BY <3>3 DEF Create
    <3>4. CASE Connect(c)
      BY <3>4 DEF Connect
    <3>5. CASE Start(c)
      <4>1. \E e \in Result : Return(c, e)
        BY <3>5 DEF Start
      <4>2. inst' \in [Instances -> {"absent", "created", "running", "exited", "removed"}]
        BY <3>5 DEF Start
      <4>3. UNCHANGED <<containerID, networkID, op, arg, grace, ctxVars,
                        attached, ready, store, net, ghostVars>>
        BY <3>5 DEF Start
      <4> QED BY <4>1, <4>2, <4>3
    <3>6. CASE Stop(c)
      BY <3>6 DEF Stop, Stopped
    <3>7. CASE Remove(c)
      BY <3>7 DEF Remove
    <3>8. CASE OpenLogs(c)
      BY <3>8 DEF OpenLogs
    <3>9. CASE AwaitOutput(c)
      BY <3>9 DEF AwaitOutput, Matched, Ended, Interrupted
    <3> QED BY <2>2, <3>1, <3>2, <3>3, <3>4, <3>5, <3>6, <3>7, <3>8, <3>9 DEF ApiStep
  <2>3. ASSUME WorldStep PROVE TypeOK'
    BY <2>3 DEF WorldStep, DeadlinePasses, Cancel, GracePasses, LogSevered, Matched, Return,
                Exits, Emits, Publishes
  <2>4. ASSUME NetworkStep PROVE TypeOK'
    BY <2>4 DEF NetworkStep, NetworkCreated, NetworkRemoved
  <2>5. CASE UNCHANGED vars
    BY <2>5 DEF vars
  <2> QED BY <2>1, <2>2, <2>3, <2>4, <2>5 DEF Next
<1> QED BY <1>1, <1>2, PTL DEF Spec
--------------------------------------------------------------------------------
(* The inductive invariant. *)

\* The invariant survives this step: NetworkAttach writes only the networkID,
\* and only between calls
\* (container.go).
LEMMA NetworkAttachKeeps ==
  ASSUME TypeOK, IInv, NEW c \in Containers, NEW n \in Networks, NetworkAttach(c, n)
  PROVE  IInv'
<1> USE ContainerAssumption DEF TypeOK, IInv, RunPC, ClosePC, AwaitPC, Result, Held, Returned,
        clientVars, ctxVars, daemonVars, ghostVars
<1>1. OwnID'
  BY DEF OwnID, Fresh, NetworkAttach
<1>2. Fresh'
  BY DEF Fresh, NetworkAttach
<1>3. Program'
  BY DEF Program, NetworkAttach
<1>4. Progress'
  BY DEF OwnID, Progress, Program, NetworkAttach
<1>5. Outcome'
  BY DEF OwnID, Progress, Program, Outcome, Started, NetworkAttach
<1>6. NothingUntracked'
  BY DEF OwnID, NothingUntracked, NetworkAttach
<1>7. AwaitNilIsFinal'
  BY DEF OwnID, Outcome, Progress, Program, AwaitNilIsFinal, NetworkAttach
<1>8. ExpiredCloseHasWindow'
  BY DEF OwnID, Progress, Program, ExpiredCloseHasWindow, NetworkAttach
<1> QED BY <1>1, <1>2, <1>3, <1>4, <1>5, <1>6, <1>7, <1>8

\* The invariant survives this step: Run begins with an instance to come and takes back the last result
\* (container.go).
LEMMA RunCallKeeps ==
  ASSUME TypeOK, IInv, NEW c \in Containers, NEW x \in Ctxs, RunCall(c, x)
  PROVE  IInv'
<1> USE ContainerAssumption DEF TypeOK, IInv, RunPC, ClosePC, AwaitPC, Result, Held, Returned,
        clientVars, ctxVars, daemonVars, ghostVars
<1>1. OwnID'
  BY DEF OwnID, Fresh, RunCall, Call
<1>2. Fresh'
  BY DEF Fresh, RunCall, Call
<1>3. Program'
  BY DEF Program, RunCall, Call
<1>4. Progress'
  BY DEF OwnID, Progress, Program, RunCall, Call
<1>5. Outcome'
  BY DEF OwnID, Progress, Program, Outcome, Started, RunCall, Call
<1>6. NothingUntracked'
  BY DEF OwnID, NothingUntracked, RunCall, Call
<1>7. AwaitNilIsFinal'
  BY DEF OwnID, Outcome, Progress, Program, AwaitNilIsFinal, RunCall, Call
<1>8. ExpiredCloseHasWindow'
  BY DEF OwnID, Progress, Program, ExpiredCloseHasWindow, RunCall, Call
<1> QED BY <1>1, <1>2, <1>3, <1>4, <1>5, <1>6, <1>7, <1>8

\* The invariant survives this step: Close returns at once without an ID, and else begins with a stop
\* (container.go).
LEMMA CloseCallKeeps ==
  ASSUME TypeOK, IInv, NEW c \in Containers, NEW x \in Ctxs, CloseCall(c, x)
  PROVE  IInv'
<1> USE ContainerAssumption DEF TypeOK, IInv, RunPC, ClosePC, AwaitPC, Result, Held, Returned,
        clientVars, ctxVars, daemonVars, ghostVars
<1>1. OwnID'
  BY DEF OwnID, Fresh, CloseCall, Call
<1>2. Fresh'
  BY DEF Fresh, CloseCall, Call
<1>3. Program'
  BY DEF Program, CloseCall, Call
<1>4. Progress'
  BY DEF OwnID, Progress, Program, CloseCall, Call
<1>5. Outcome'
  BY DEF OwnID, Progress, Program, Outcome, Started, CloseCall, Call
<1>6. NothingUntracked'
  BY DEF OwnID, NothingUntracked, CloseCall, Call
<1>7. AwaitNilIsFinal'
  BY DEF OwnID, Outcome, Progress, Program, AwaitNilIsFinal, CloseCall, Call
<1>8. ExpiredCloseHasWindow'
  BY DEF OwnID, Progress, Program, ExpiredCloseHasWindow, CloseCall, Call
<1> QED BY <1>1, <1>2, <1>3, <1>4, <1>5, <1>6, <1>7, <1>8

\* The invariant survives this step: AwaitOutput begins by opening the log
\* (container.go).
LEMMA AwaitCallKeeps ==
  ASSUME TypeOK, IInv, NEW c \in Containers, NEW x \in Ctxs, AwaitCall(c, x)
  PROVE  IInv'
<1> USE ContainerAssumption DEF TypeOK, IInv, RunPC, ClosePC, AwaitPC, Result, Held, Returned,
        clientVars, ctxVars, daemonVars, ghostVars
<1>1. OwnID'
  BY DEF OwnID, Fresh, AwaitCall, Call
<1>2. Fresh'
  BY DEF Fresh, AwaitCall, Call
<1>3. Program'
  BY DEF Program, AwaitCall, Call
<1>4. Progress'
  BY DEF OwnID, Progress, Program, AwaitCall, Call
<1>5. Outcome'
  BY DEF OwnID, Progress, Program, Outcome, Started, AwaitCall, Call
<1>6. NothingUntracked'
  BY DEF OwnID, NothingUntracked, AwaitCall, Call
<1>7. AwaitNilIsFinal'
  BY DEF OwnID, Outcome, Progress, Program, AwaitNilIsFinal, AwaitCall, Call
<1>8. ExpiredCloseHasWindow'
  BY DEF OwnID, Progress, Program, ExpiredCloseHasWindow, AwaitCall, Call
<1> QED BY <1>1, <1>2, <1>3, <1>4, <1>5, <1>6, <1>7, <1>8

\* The invariant survives this step: the listing of pullImage only chooses the next request
\* (container.go).
LEMMA ListImagesKeeps ==
  ASSUME TypeOK, IInv, NEW c \in Containers, ListImages(c)
  PROVE  IInv'
<1> USE ContainerAssumption DEF TypeOK, IInv, RunPC, ClosePC, AwaitPC, Result, Held, Returned,
        clientVars, ctxVars, daemonVars, ghostVars
<1>1. OwnID'
  BY DEF OwnID, Fresh, ListImages, GoOn, Return, Reason, MayRefuse, Done
<1>2. Fresh'
  BY DEF Fresh, ListImages, GoOn, Return, Reason, MayRefuse, Done
<1>3. Program'
  BY DEF Program, ListImages, GoOn, Return, Reason, MayRefuse, Done
<1>4. Progress'
  BY DEF OwnID, Progress, Program, ListImages, GoOn, Return, Reason, MayRefuse, Done
<1>5. Outcome'
  BY DEF OwnID, Progress, Program, Outcome, Started, ListImages, GoOn, Return, Reason, MayRefuse, Done
<1>6. NothingUntracked'
  BY DEF OwnID, NothingUntracked, ListImages, GoOn, Return, Reason, MayRefuse, Done
<1>7. AwaitNilIsFinal'
  BY DEF OwnID, Outcome, Progress, Program, AwaitNilIsFinal, ListImages, GoOn, Return, Reason, MayRefuse, Done
<1>8. ExpiredCloseHasWindow'
  BY DEF OwnID, Progress, Program, ExpiredCloseHasWindow, ListImages, GoOn, Return, Reason, MayRefuse, Done
<1> QED BY <1>1, <1>2, <1>3, <1>4, <1>5, <1>6, <1>7, <1>8

\* The invariant survives this step: the pull changes the image store and the next request
\* (container.go).
LEMMA PullImageKeeps ==
  ASSUME TypeOK, IInv, NEW c \in Containers, PullImage(c)
  PROVE  IInv'
<1> USE ContainerAssumption DEF TypeOK, IInv, RunPC, ClosePC, AwaitPC, Result, Held, Returned,
        clientVars, ctxVars, daemonVars, ghostVars
<1>1. OwnID'
  BY DEF OwnID, Fresh, PullImage, GoOn, Return, Reason
<1>2. Fresh'
  BY DEF Fresh, PullImage, GoOn, Return, Reason
<1>3. Program'
  BY DEF Program, PullImage, GoOn, Return, Reason
<1>4. Progress'
  BY DEF OwnID, Progress, Program, PullImage, GoOn, Return, Reason
<1>5. Outcome'
  BY DEF OwnID, Progress, Program, Outcome, Started, PullImage, GoOn, Return, Reason
<1>6. NothingUntracked'
  BY DEF OwnID, NothingUntracked, PullImage, GoOn, Return, Reason
<1>7. AwaitNilIsFinal'
  BY DEF OwnID, Outcome, Progress, Program, AwaitNilIsFinal, PullImage, GoOn, Return, Reason
<1>8. ExpiredCloseHasWindow'
  BY DEF OwnID, Progress, Program, ExpiredCloseHasWindow, PullImage, GoOn, Return, Reason
<1> QED BY <1>1, <1>2, <1>3, <1>4, <1>5, <1>6, <1>7, <1>8

\* The invariant survives this step: the create makes a fresh instance the handle's own, supersedes the
\* old one, or loses the new one
\* (container.go).
LEMMA CreateKeeps ==
  ASSUME TypeOK, IInv, NEW c \in Containers, Create(c)
  PROVE  IInv'
<1> USE ContainerAssumption DEF TypeOK, IInv, RunPC, ClosePC, AwaitPC, Result, Held, Returned,
        clientVars, ctxVars, daemonVars, ghostVars
<1>1. OwnID'
  BY DEF OwnID, Fresh, Create, GoOn, Return, Reason
<1>2. Fresh'
  BY DEF Fresh, OwnID, Create, GoOn, Return, Reason
<1>3. Program'
  BY DEF Program, Create, GoOn, Return, Reason
<1>4. Progress'
  BY DEF OwnID, Fresh, Progress, Create, GoOn, Return, Reason
<1>5. Outcome'
  BY DEF OwnID, Progress, Program, Outcome, Started, Create, GoOn, Return, Reason
<1>6. NothingUntracked'
  BY DEF OwnID, NothingUntracked, Create, GoOn, Return, Reason
<1>7. AwaitNilIsFinal'
  BY DEF OwnID, Outcome, Progress, Program, AwaitNilIsFinal, Create, GoOn, Return, Reason
<1>8. ExpiredCloseHasWindow'
  <2>1. op[c] = "Run" /\ op' = op /\ grace' = grace
    BY DEF Program, Create
  <2>2. \A d \in Containers \ {c} :
            /\ pc'[d] = pc[d] /\ err'[d] = err[d] /\ containerID'[d] = containerID[d]
    BY DEF Create, GoOn, Return
  <2>3. \A i \in Instances : inst[i] = "removed" => inst'[i] = "removed"
    BY DEF Create
  <2>4. \A d \in Containers : grace[d] = "ahead" /\ op[d] = "Close" => containerID[d] \in Instances
    BY DEF TypeOK, Outcome
  <2> QED BY <2>1, <2>2, <2>3, <2>4 DEF ExpiredCloseHasWindow
<1> QED BY <1>1, <1>2, <1>3, <1>4, <1>5, <1>6, <1>7, <1>8

\* The invariant survives this step: the connect puts the handle's own instance on the handle's network
\* (container.go).
LEMMA ConnectKeeps ==
  ASSUME TypeOK, IInv, NEW c \in Containers, Connect(c)
  PROVE  IInv'
<1> USE ContainerAssumption DEF TypeOK, IInv, RunPC, ClosePC, AwaitPC, Result, Held, Returned,
        clientVars, ctxVars, daemonVars, ghostVars
<1>1. OwnID'
  BY DEF OwnID, Fresh, Connect, GoOn, Return, Reason
<1>2. Fresh'
  BY DEF Fresh, OwnID, Progress, Connect, GoOn, Return, Reason
<1>3. Program'
  BY DEF Program, Connect, GoOn, Return, Reason
<1>4. Progress'
  BY DEF OwnID, Progress, Program, Connect, GoOn, Return, Reason
<1>5. Outcome'
  BY DEF OwnID, Progress, Program, Outcome, Started, Connect, GoOn, Return, Reason
<1>6. NothingUntracked'
  BY DEF OwnID, NothingUntracked, Connect, GoOn, Return, Reason
<1>7. AwaitNilIsFinal'
  BY DEF OwnID, Outcome, Progress, Program, AwaitNilIsFinal, Connect, GoOn, Return, Reason
<1>8. ExpiredCloseHasWindow'
  BY DEF OwnID, Progress, Program, ExpiredCloseHasWindow, Connect, GoOn, Return, Reason
<1> QED BY <1>1, <1>2, <1>3, <1>4, <1>5, <1>6, <1>7, <1>8

\* The invariant survives this step: the start makes the handle's own instance run
\* (container.go).
LEMMA StartKeeps ==
  ASSUME TypeOK, IInv, NEW c \in Containers, Start(c)
  PROVE  IInv'
<1> USE ContainerAssumption DEF TypeOK, IInv, RunPC, ClosePC, AwaitPC, Result, Held, Returned,
        clientVars, ctxVars, daemonVars, ghostVars
<1>1. OwnID'
  BY DEF OwnID, Fresh, Start, GoOn, Return, Reason
<1>2. Fresh'
  BY DEF Fresh, Start, GoOn, Return, Reason
<1>3. Program'
  BY DEF Program, Start, GoOn, Return, Reason
<1>4. Progress'
  BY DEF OwnID, Progress, Program, Start, GoOn, Return, Reason
<1>5. Outcome'
  BY DEF OwnID, Progress, Program, Outcome, Started, Start, GoOn, Return, Reason
<1>6. NothingUntracked'
  BY DEF OwnID, NothingUntracked, Start, GoOn, Return, Reason
<1>7. AwaitNilIsFinal'
  BY DEF OwnID, Outcome, Progress, Program, AwaitNilIsFinal, Start, GoOn, Return, Reason
<1>8. ExpiredCloseHasWindow'
  <2>1. op[c] = "Run" /\ op' = op /\ grace' = grace
    BY DEF Program, Start
  <2>2. \A d \in Containers \ {c} :
            /\ pc'[d] = pc[d] /\ err'[d] = err[d] /\ containerID'[d] = containerID[d]
    BY DEF Start, GoOn, Return
  <2>3. \A i \in Instances : inst[i] = "removed" => inst'[i] = "removed"
    BY DEF Start
  <2>4. \A d \in Containers : grace[d] = "ahead" /\ op[d] = "Close" => containerID[d] \in Instances
    BY DEF TypeOK, Outcome
  <2> QED BY <2>1, <2>2, <2>3, <2>4 DEF ExpiredCloseHasWindow
<1> QED BY <1>1, <1>2, <1>3, <1>4, <1>5, <1>6, <1>7, <1>8

\* The invariant survives this step: the stop leaves the instance not running before Close goes on to remove
\* (container.go).
LEMMA StopKeeps ==
  ASSUME TypeOK, IInv, NEW c \in Containers, Stop(c)
  PROVE  IInv'
<1> USE ContainerAssumption DEF TypeOK, IInv, RunPC, ClosePC, AwaitPC, Result, Held, Returned,
        clientVars, ctxVars, daemonVars, ghostVars
<1>1. OwnID'
  BY DEF OwnID, Fresh, Stop, Stopped, GoOn, Return, Reason, MayRefuse, Done
<1>2. Fresh'
  BY DEF Fresh, Stop, Stopped, GoOn, Return, Reason, MayRefuse, Done
<1>3. Program'
  BY DEF Program, Stop, Stopped, GoOn, Return, Reason, MayRefuse, Done
<1>4. Progress'
  BY DEF OwnID, Progress, Program, Stop, Stopped, GoOn, Return, Reason, MayRefuse, Done
<1>5. Outcome'
  BY DEF OwnID, Progress, Program, Outcome, Started, Stop, Stopped, GoOn, Return, Reason, MayRefuse, Done
<1>6. NothingUntracked'
  BY DEF OwnID, NothingUntracked, Stop, Stopped, GoOn, Return, Reason, MayRefuse, Done
<1>7. AwaitNilIsFinal'
  BY DEF OwnID, Outcome, Progress, Program, AwaitNilIsFinal, Stop, Stopped, GoOn, Return, Reason, MayRefuse, Done
<1>8. ExpiredCloseHasWindow'
  <2> SUFFICES ASSUME NEW d \in Containers,
                      op'[d] = "Close", grace'[d] = "ahead", pc'[d] = "idle"
               PROVE  \/ err'[d] # "ctx" /\ Faults # {}
                      \/ inst'[containerID'[d]] = "removed"
    BY DEF ExpiredCloseHasWindow
  <2>1. op' = op /\ grace' = grace /\ containerID' = containerID
    BY DEF Stop
  <2>2. CASE d = c
    <3>1. ~Done(c)
      BY <2>1, <2>2 DEF Done
    <3>2. pc[c] = "stop" /\ containerID[c] \in Instances /\ inst[containerID[c]] # "absent"
      BY DEF Stop, OwnID, Progress
    <3> QED BY <2>2, <3>1, <3>2 DEF Stop, Stopped, GoOn, Return, Reason, MayRefuse, MayLose
  <2>3. CASE d # c
    <3>1. pc[d] = "idle" /\ err'[d] = err[d]
      BY <2>3 DEF Stop, GoOn, Return
    <3>2. \A i \in Instances : inst[i] = "removed" => inst'[i] = "removed"
      BY DEF Stop, Stopped
    <3> QED BY <2>1, <3>1, <3>2 DEF ExpiredCloseHasWindow, Outcome
  <2> QED BY <2>2, <2>3
<1> QED BY <1>1, <1>2, <1>3, <1>4, <1>5, <1>6, <1>7, <1>8

\* The invariant survives this step: the removal takes the handle's own instance out of the daemon
\* (container.go).
LEMMA RemoveKeeps ==
  ASSUME TypeOK, IInv, NEW c \in Containers, Remove(c)
  PROVE  IInv'
<1> USE ContainerAssumption DEF TypeOK, IInv, RunPC, ClosePC, AwaitPC, Result, Held, Returned,
        clientVars, ctxVars, daemonVars, ghostVars
<1>1. OwnID'
  BY DEF OwnID, Fresh, Remove, GoOn, Return, Reason, MayRefuse, Done
<1>2. Fresh'
  BY DEF Fresh, Remove, GoOn, Return, Reason, MayRefuse, Done
<1>3. Program'
  BY DEF Program, Remove, GoOn, Return, Reason, MayRefuse, Done
<1>4. Progress'
  BY DEF OwnID, Progress, Program, Remove, GoOn, Return, Reason, MayRefuse, Done
<1>5. Outcome'
  BY DEF OwnID, Progress, Program, Outcome, Started, Remove, GoOn, Return, Reason, MayRefuse, Done
<1>6. NothingUntracked'
  BY DEF OwnID, NothingUntracked, Remove, GoOn, Return, Reason, MayRefuse, Done
<1>7. AwaitNilIsFinal'
  BY DEF OwnID, Outcome, Progress, Program, AwaitNilIsFinal, Remove, GoOn, Return, Reason, MayRefuse, Done
<1>8. ExpiredCloseHasWindow'
  <2> SUFFICES ASSUME NEW d \in Containers,
                      op'[d] = "Close", grace'[d] = "ahead", pc'[d] = "idle"
               PROVE  \/ err'[d] # "ctx" /\ Faults # {}
                      \/ inst'[containerID'[d]] = "removed"
    BY DEF ExpiredCloseHasWindow
  <2>1. op' = op /\ grace' = grace /\ containerID' = containerID
    BY DEF Remove
  <2>2. CASE d = c
    <3>1. ~Done(c)
      BY <2>1, <2>2 DEF Done
    <3>2. pc[c] = "remove" /\ containerID[c] \in Instances /\ inst[containerID[c]] # "absent"
      BY DEF Remove, OwnID, Progress
    <3> QED BY <2>2, <3>1, <3>2 DEF Remove, GoOn, Return, Reason, MayRefuse, MayLose
  <2>3. CASE d # c
    <3>1. pc[d] = "idle" /\ err'[d] = err[d]
      BY <2>3 DEF Remove, GoOn, Return
    <3>2. \A i \in Instances : inst[i] = "removed" => inst'[i] = "removed"
      BY DEF Remove
    <3> QED BY <2>1, <3>1, <3>2 DEF ExpiredCloseHasWindow, Outcome
  <2> QED BY <2>2, <2>3
<1> QED BY <1>1, <1>2, <1>3, <1>4, <1>5, <1>6, <1>7, <1>8

\* The invariant survives this step: the log opens only for an instance that exists
\* (container.go).
LEMMA OpenLogsKeeps ==
  ASSUME TypeOK, IInv, NEW c \in Containers, OpenLogs(c)
  PROVE  IInv'
<1> USE ContainerAssumption DEF TypeOK, IInv, RunPC, ClosePC, AwaitPC, Result, Held, Returned,
        clientVars, ctxVars, daemonVars, ghostVars
<1>1. OwnID'
  BY DEF OwnID, Fresh, OpenLogs, GoOn, Return, Reason
<1>2. Fresh'
  BY DEF Fresh, OpenLogs, GoOn, Return, Reason
<1>3. Program'
  BY DEF Program, OpenLogs, GoOn, Return, Reason
<1>4. Progress'
  BY DEF OwnID, Progress, Program, OpenLogs, GoOn, Return, Reason
<1>5. Outcome'
  BY DEF OwnID, Progress, Program, Outcome, Started, OpenLogs, GoOn, Return, Reason
<1>6. NothingUntracked'
  BY DEF OwnID, NothingUntracked, OpenLogs, GoOn, Return, Reason
<1>7. AwaitNilIsFinal'
  BY DEF OwnID, Outcome, Progress, Program, AwaitNilIsFinal, OpenLogs, GoOn, Return, Reason
<1>8. ExpiredCloseHasWindow'
  BY DEF OwnID, Progress, Program, ExpiredCloseHasWindow, OpenLogs, GoOn, Return, Reason
<1> QED BY <1>1, <1>2, <1>3, <1>4, <1>5, <1>6, <1>7, <1>8

\* The invariant survives this step: AwaitOutput ends with nil only on the line or on the end of the log
\* (container.go).
LEMMA AwaitOutputKeeps ==
  ASSUME TypeOK, IInv, NEW c \in Containers, AwaitOutput(c)
  PROVE  IInv'
<1> USE ContainerAssumption DEF TypeOK, IInv, RunPC, ClosePC, AwaitPC, Result, Held, Returned,
        clientVars, ctxVars, daemonVars, ghostVars
<1>1. OwnID'
  BY DEF OwnID, Fresh, AwaitOutput, Matched, Ended, Interrupted, Return
<1>2. Fresh'
  BY DEF Fresh, AwaitOutput, Matched, Ended, Interrupted, Return
<1>3. Program'
  BY DEF Program, AwaitOutput, Matched, Ended, Interrupted, Return
<1>4. Progress'
  BY DEF OwnID, Progress, Program, AwaitOutput, Matched, Ended, Interrupted, Return
<1>5. Outcome'
  BY DEF OwnID, Progress, Program, Outcome, Started, AwaitOutput, Matched, Ended, Interrupted, Return
<1>6. NothingUntracked'
  BY DEF OwnID, NothingUntracked, AwaitOutput, Matched, Ended, Interrupted, Return
<1>7. AwaitNilIsFinal'
  BY DEF OwnID, Outcome, Progress, Program, AwaitNilIsFinal, AwaitOutput, Matched, Ended, Interrupted, Return
<1>8. ExpiredCloseHasWindow'
  BY DEF OwnID, Progress, Program, ExpiredCloseHasWindow, AwaitOutput, Matched, Ended, Interrupted, Return
<1> QED BY <1>1, <1>2, <1>3, <1>4, <1>5, <1>6, <1>7, <1>8

\* The invariant survives this step: time, programs, registry and networks disturb no result
\* (container.go).
LEMMA WorldKeeps ==
  ASSUME TypeOK, IInv, WorldStep \/ NetworkStep
  PROVE  IInv'
<1> USE ContainerAssumption DEF TypeOK, IInv, RunPC, ClosePC, AwaitPC, Result, Held, Returned,
        OwnID, Fresh, Program, Progress, Outcome, Started,
        NothingUntracked, AwaitNilIsFinal, ExpiredCloseHasWindow,
        clientVars, ctxVars, daemonVars, ghostVars
<1>1. ASSUME NEW x \in Ctxs, DeadlinePasses(x) \/ Cancel(x) PROVE IInv'
  BY <1>1 DEF DeadlinePasses, Cancel
<1>2. ASSUME NEW c \in Containers, GracePasses(c) PROVE IInv'
  BY <1>2 DEF GracePasses
<1>3. ASSUME NEW c \in Containers, LogSevered(c) PROVE IInv'
  BY <1>3 DEF LogSevered, Matched, Return
<1>4. ASSUME NEW i \in Instances, Exits(i) PROVE IInv'
  BY <1>4 DEF Exits
<1>5. ASSUME NEW i \in Instances, Emits(i) PROVE IInv'
  BY <1>5 DEF Emits
<1>6. ASSUME NEW m \in Images, Publishes(m) PROVE IInv'
  BY <1>6 DEF Publishes
<1>7. ASSUME NEW n \in Networks, NetworkCreated(n) \/ NetworkRemoved(n) PROVE IInv'
  BY <1>7 DEF NetworkCreated, NetworkRemoved
<1> QED BY <1>1, <1>2, <1>3, <1>4, <1>5, <1>6, <1>7 DEF WorldStep, NetworkStep

\* Every step of container.go or of its surroundings keeps the invariant.
LEMMA StepKeeps == TypeOK /\ IInv /\ [Next]_vars => IInv'
<1> SUFFICES ASSUME TypeOK, IInv, [Next]_vars PROVE IInv'
  OBVIOUS
<1>1. ASSUME NEW c \in Containers, CallStep(c) PROVE IInv'
  BY <1>1, NetworkAttachKeeps, RunCallKeeps, CloseCallKeeps, AwaitCallKeeps DEF CallStep
<1>2. ASSUME NEW c \in Containers, ApiStep(c) PROVE IInv'
  BY <1>2, ListImagesKeeps, PullImageKeeps, CreateKeeps, ConnectKeeps, StartKeeps,
     StopKeeps, RemoveKeeps, OpenLogsKeeps, AwaitOutputKeeps DEF ApiStep
<1>3. CASE WorldStep \/ NetworkStep
  BY <1>3, WorldKeeps
<1>4. CASE UNCHANGED vars
  BY <1>4 DEF vars, clientVars, ctxVars, daemonVars, ghostVars, IInv, Held, Returned,
     OwnID, Fresh, Program, Progress, Outcome, Started,
     NothingUntracked, AwaitNilIsFinal, ExpiredCloseHasWindow
<1> QED BY <1>1, <1>2, <1>3, <1>4 DEF Next

\* What a call relies on between two of its requests holds whatever happens
\* between them (container.go Run, Close, AwaitOutput).
THEOREM Inductive == Spec => []IInv
<1>1. Init => IInv
  BY ContainerAssumption DEF Init, IInv, Held, Returned, RunPC, ClosePC, AwaitPC,
     OwnID, Fresh, Program, Progress, Outcome, Started,
     NothingUntracked, AwaitNilIsFinal, ExpiredCloseHasWindow
<1> QED BY <1>1, StepKeeps, TypeCorrect, PTL DEF Spec

--------------------------------------------------------------------------------
(* What one step does to the handles it is not about, for the modules that *)
(* drive handles.                                                          *)

\* The handle that makes a request runs a call; the request changes neither
\* that call, nor what a network or a program did, nor another handle, nor
\* the instance of another handle (container.go).
LEMMA RequestFrame ==
  ASSUME TypeOK, IInv, NEW c \in Containers, ApiStep(c)
  PROVE  /\ pc[c] # "idle"
         /\ UNCHANGED <<networkID, op, arg, grace, ctxVars, ready, net>>
         /\ \A d \in Containers \ {c} :
                /\ pc'[d] = pc[d] /\ err'[d] = err[d] /\ containerID'[d] = containerID[d]
                /\ containerID[d] # NoID =>
                       /\ inst'[containerID[d]] = inst[containerID[d]]
                       /\ attached'[containerID[d]] = attached[containerID[d]]
<1> USE ContainerAssumption DEF TypeOK, GoOn, Return, IInv, OwnID, Progress, ctxVars, daemonVars, ghostVars
<1>1. CASE ListImages(c)
  BY <1>1 DEF ListImages
<1>2. CASE PullImage(c)
  BY <1>2 DEF PullImage
<1>3. CASE Create(c)
  BY <1>3 DEF Create
<1>4. CASE Connect(c)
  BY <1>4 DEF Connect
<1>5. CASE Start(c)
  BY <1>5 DEF Start
<1>6. CASE Stop(c)
  BY <1>6 DEF Stop, Stopped
<1>7. CASE Remove(c)
  BY <1>7 DEF Remove
<1>8. CASE OpenLogs(c) \/ AwaitOutput(c)
  BY <1>8 DEF OpenLogs, AwaitOutput, Matched, Ended, Interrupted
<1> QED BY <1>1, <1>2, <1>3, <1>4, <1>5, <1>6, <1>7, <1>8 DEF ApiStep

\* A request of Run that makes it return nil is the start (container.go Run).
LEMMA NilIsStart ==
  ASSUME TypeOK, IInv, NEW c \in Containers, ApiStep(c), op[c] = "Run", err'[c] = "nil"
  PROVE  Start(c)
<1> USE ContainerAssumption DEF TypeOK, Result
<1>1. pc[c] \in RunPC /\ err[c] = "none"
  BY RequestFrame DEF IInv, Program, RunPC, ClosePC, AwaitPC
<1> QED BY <1>1 DEF ApiStep, ListImages, PullImage, Create, Connect, Stop, Remove,
           OpenLogs, AwaitOutput, GoOn, Return, Reason, RunPC

\* An instance starts to run only on its handle's network, which is there;
\* one that runs stays where it is attached (container.go Run).
LEMMA RunsAttached ==
  ASSUME TypeOK, IInv, NEW c \in Containers, ApiStep(c),
         NEW i \in Instances, inst'[i] = "running"
  PROVE  \/ inst[i] = "running" /\ attached'[i] = attached[i]
         \/ /\ pc[c] = "start" /\ attached'[i] = networkID[c]
            /\ networkID[c] # NoNet => networkID[c] \in Networks /\ net[networkID[c]] = "present"
<1> USE ContainerAssumption DEF TypeOK, GoOn, Return, IInv, OwnID, Progress, daemonVars, ghostVars
<1>1. CASE ListImages(c) \/ PullImage(c) \/ OpenLogs(c) \/ AwaitOutput(c)
  BY <1>1 DEF ListImages, PullImage, OpenLogs, AwaitOutput
<1>2. CASE Create(c)
  BY <1>2 DEF Create
<1>3. CASE Connect(c)
  BY <1>3 DEF Connect
<1>4. CASE Start(c)
  BY <1>4 DEF Start, Linked, Present
<1>5. CASE Stop(c)
  BY <1>5 DEF Stop, Stopped
<1>6. CASE Remove(c)
  BY <1>6 DEF Remove
<1> QED BY <1>1, <1>2, <1>3, <1>4, <1>5, <1>6 DEF ApiStep

\* Time, the programs, the registry and a broken log change no handle but one
\* that awaits output, stop or mark instances only, and bring no image
\* (container.go).
LEMMA WorldFrame ==
  ASSUME TypeOK, WorldStep
  PROVE  /\ UNCHANGED <<containerID, networkID, op, arg, net, attached, ghostVars>>
         /\ \A c \in Containers :
                \/ pc'[c] = pc[c] /\ err'[c] = err[c]
                \/ /\ pc[c] = "await" /\ pc'[c] = "idle"
                   /\ err'[c] = "error" \/ (err'[c] = "nil" /\ containerID[c] \in ready)
         /\ \A i \in Instances :
                inst'[i] = inst[i] \/ (inst[i] = "running" /\ inst'[i] = "exited")
         /\ ready \subseteq ready'
         /\ \A m \in Images : store[m] = "absent" => store'[m] = "absent"
<1> USE DEF DeadlinePasses, Cancel, GracePasses, LogSevered, Exits, Emits, Publishes,
        clientVars, ctxVars, daemonVars
<1>1. UNCHANGED <<containerID, networkID, op, arg, net, attached, ghostVars>>
  BY DEF WorldStep
<1>2. \A c \in Containers :
          \/ pc'[c] = pc[c] /\ err'[c] = err[c]
          \/ /\ pc[c] = "await" /\ pc'[c] = "idle"
             /\ err'[c] = "error" \/ (err'[c] = "nil" /\ containerID[c] \in ready)
  <2>1. ASSUME NEW d \in Containers, LogSevered(d)
        PROVE  /\ pc[d] = "await" /\ pc'[d] = "idle"
               /\ err'[d] = "error" \/ (err'[d] = "nil" /\ containerID[d] \in ready)
               /\ \A c \in Containers \ {d} : pc'[c] = pc[c] /\ err'[c] = err[c]
    <3>1. /\ pc[d] = "await" /\ pc' = [pc EXCEPT ![d] = "idle"]
          /\ \/ err' = [err EXCEPT ![d] = "error"]
             \/ err' = [err EXCEPT ![d] = "nil"] /\ containerID[d] \in ready
      BY <2>1 DEF Matched, Return
    <3> QED BY <3>1 DEF TypeOK
  <2>2. UNCHANGED <<pc, err>> \/ \E d \in Containers : LogSevered(d)
    BY DEF WorldStep
  <2> QED BY <2>1, <2>2
<1>3. /\ \A i \in Instances :
             inst'[i] = inst[i] \/ (inst[i] = "running" /\ inst'[i] = "exited")
      /\ ready \subseteq ready'
  <2>1. CASE inst' = inst /\ (ready' = ready \/ \E i \in Instances : ready' = ready \union {i})
    BY <2>1
  <2>2. CASE ready' = ready /\ \E i \in Instances : Exits(i)
    BY <2>2 DEF TypeOK
  <2> QED BY <2>1, <2>2 DEF WorldStep
<1>4. \A m \in Images : store[m] = "absent" => store'[m] = "absent"
  BY DEF WorldStep, TypeOK
<1> QED BY <1>1, <1>2, <1>3, <1>4

--------------------------------------------------------------------------------
(* What the callers may rely on. *)

\* A Close that returns nil has left nothing of its handle in the daemon but
\* what the handle could not know of (container.go Close).
THEOREM CloseIsComplete == Spec => []CloseLeavesNothing
<1>1. TypeOK /\ IInv => CloseLeavesNothing
  BY ContainerAssumption DEF TypeOK, IInv, Outcome, NothingUntracked, CloseLeavesNothing, Held, Returned
<1> QED BY <1>1, TypeCorrect, Inductive, PTL

\* A nil from AwaitOutput is for good: the line was seen, or never will be
\* (container.go AwaitOutput).
THEOREM AwaitIsFinal == Spec => []AwaitNilIsFinal
<1>1. IInv => AwaitNilIsFinal
  BY DEF IInv
<1> QED BY <1>1, Inductive, PTL

\* A Close called with an expired deadline has a window of its own
\* (container.go Close).
THEOREM ExpiredCloseWindow == Spec => []ExpiredCloseHasWindow
<1>1. IInv => ExpiredCloseHasWindow
  BY DEF IInv
<1> QED BY <1>1, Inductive, PTL

\* Run returns nil only in the step that makes the handle's own instance run
\* on the network the handle is attached to (container.go Run).
THEOREM RunServes == Spec => RunNilServes
<1> DEFINE Serves(c) ==
        op[c] = "Run" /\ pc[c] # "idle" /\ err'[c] = "nil" =>
            /\ containerID[c] # NoID /\ Label[containerID[c]] = c
            /\ inst[containerID[c]] = "created" /\ inst'[containerID[c]] = "running"
            /\ attached[containerID[c]] = networkID[c]
            /\ store[ImageOf[c]] # "absent"
<1>1. TypeOK /\ IInv /\ [Next]_vars => [\A c \in Containers : Serves(c)]_vars
  <2> SUFFICES ASSUME TypeOK, IInv, Next, NEW d \in Containers,
                      op[d] = "Run", pc[d] # "idle", err'[d] = "nil"
               PROVE  Serves(d)
    OBVIOUS
  <2> USE ContainerAssumption DEF TypeOK, Result, clientVars, ctxVars, daemonVars, ghostVars
  <2>1. pc[d] \in RunPC /\ err[d] = "none"
    BY DEF IInv, Program, RunPC, ClosePC, AwaitPC
  <2>2. ASSUME NEW c \in Containers, CallStep(c) PROVE Serves(d)
    BY <2>1, <2>2 DEF CallStep, NetworkAttach, RunCall, CloseCall, AwaitCall, Call
  <2>3. ASSUME NEW c \in Containers, ApiStep(c) PROVE Serves(d)
    <3>1. CASE c # d
      BY <2>1, <2>3, <3>1 DEF ApiStep, ListImages, PullImage, Create, Connect, Start, Stop, Remove,
         OpenLogs, AwaitOutput, Matched, Ended, Interrupted, GoOn, Return
    <3>2. CASE c = d
      <4>1. Start(d)
        BY <2>3, <3>2, NilIsStart
      <4> QED BY <4>1 DEF Start, Return, Reason, IInv, OwnID, Progress
    <3> QED BY <3>1, <3>2
  <2>4. CASE WorldStep
    <3>1. err' = err \/ \E c \in Containers : LogSevered(c)
      BY <2>4 DEF WorldStep, DeadlinePasses, Cancel, GracePasses, Exits, Emits, Publishes
    <3>2. ASSUME NEW c \in Containers, LogSevered(c) PROVE err'[d] = "none"
      BY <2>1, <3>2 DEF LogSevered, Matched, Return, RunPC
    <3> QED BY <2>1, <3>1, <3>2
  <2>5. CASE NetworkStep
    BY <2>1, <2>5 DEF NetworkStep, NetworkCreated, NetworkRemoved
  <2> QED BY <2>2, <2>3, <2>4, <2>5 DEF Next
<1> QED BY <1>1, TypeCorrect, Inductive, PTL DEF Spec, RunNilServes

\* The forced removal never takes a running instance: a stop went before it
\* (container.go Close).
THEOREM RemovalIsGraceful == Spec => GracefulRemoval
<1> DEFINE Graceful == \A i \in Instances : inst[i] = "running" => inst'[i] \in {"running", "exited"}
<1>1. TypeOK /\ IInv /\ [Next]_vars => [Graceful]_vars
  <2> SUFFICES ASSUME TypeOK, IInv, Next PROVE Graceful
    OBVIOUS
  <2> USE DEF TypeOK, clientVars, ctxVars, daemonVars, ghostVars
  <2>1. ASSUME NEW c \in Containers, CallStep(c) PROVE Graceful
    BY <2>1 DEF CallStep, NetworkAttach, RunCall, CloseCall, AwaitCall
  <2>2. ASSUME NEW c \in Containers, ApiStep(c) PROVE Graceful
    <3>1. CASE Remove(c)
      BY <3>1 DEF Remove, IInv, Progress
    <3>2. CASE Create(c)
      BY <3>2 DEF Create
    <3>3. CASE Start(c)
      BY <3>3 DEF Start
    <3>4. CASE Stop(c)
      BY <3>4 DEF Stop, Stopped
    <3> QED BY <2>2, <3>1, <3>2, <3>3, <3>4 DEF ApiStep, ListImages, PullImage, Connect,
            OpenLogs, AwaitOutput
  <2>3. CASE WorldStep
    BY <2>3 DEF WorldStep, DeadlinePasses, Cancel, GracePasses, LogSevered, Exits, Emits, Publishes
  <2>4. CASE NetworkStep
    BY <2>4 DEF NetworkStep, NetworkCreated, NetworkRemoved
  <2> QED BY <2>1, <2>2, <2>3, <2>4 DEF Next
<1> QED BY <1>1, TypeCorrect, Inductive, PTL DEF Spec, GracefulRemoval
================================================================================
