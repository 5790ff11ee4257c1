------------------------------- MODULE GroupProofs -------------------------------
(* Proofs about module Group, for every value of its constants.            *)
EXTENDS Group, ContainerImplements

--------------------------------------------------------------------------------
(* Type correctness, and that a group is a use of its containers. *)

\* The variables of the group keep their types: the index never leaves the
\* applications (group.go Run, Close).
THEOREM GroupTypeCorrect == GroupSpec => []GroupTypeOK
<1>1. N \in Nat \ {0} /\ Hooks \in [1..N -> Nat]
  BY GroupAssumption
<1>2. 1 \in 1..N /\ N \in 1..N
  BY <1>1
<1>3. ASSUME NEW k \in 1..N PROVE (k < N => k + 1 \in 1..N) /\ (k > 1 => k - 1 \in 1..N)
  BY <1>1
<1>4. GroupInit => GroupTypeOK
  <2> SUFFICES ASSUME GroupInit PROVE GroupTypeOK
    OBVIOUS
  <2>1. failed \in BOOLEAN /\ gctx \in Ctxs /\ lostNets = {}
    BY Zenon DEF GroupInit
  <2>2. gnet = NoNet /\ gpc = "idle" /\ gop = "none" /\ gerr = "none" /\ idx = 1 /\ hook = 0
    BY Zenon DEF GroupInit
  <2> QED BY <1>2, <2>1, <2>2 DEF GroupTypeOK, HookPC
<1>5. GroupTypeOK /\ [GroupNext]_gvars => GroupTypeOK'
  <2> SUFFICES ASSUME GroupTypeOK, [GroupNext]_gvars PROVE GroupTypeOK'
    OBVIOUS
  <2> USE <1>1, <1>2 DEF GroupTypeOK, HookPC, GroupReturn
  <2>1. ASSUME NEW x \in Ctxs, GroupRunCall(x) \/ GroupCloseCall(x) PROVE GroupTypeOK'
    <3>1. failed' \in BOOLEAN
      BY <2>1, Zenon DEF GroupRunCall, GroupCloseCall, GroupCall
    <3> QED BY <2>1, <3>1 DEF GroupRunCall, GroupCloseCall, GroupCall
  <2>2. CASE CreateNetwork
    BY <2>2 DEF CreateNetwork
  <2>3. CASE AttachApp \/ RunApp \/ AppRan
    BY <2>3 DEF AttachApp, RunApp, AppRan
  <2>4. ASSUME NEW stage, Leave(stage)
        PROVE  /\ idx' \in 1..N /\ hook' \in Nat
               /\ gerr' \in {"none", "nil", "error"}
               /\ gpc' \in {"idle", "run", "attach", "close", "beforeClose", "remove"}
    BY <2>4, <1>3 DEF Leave
  <2>5. CASE HookNil \/ HookAwaits
    BY <2>5 DEF HookNil, HookAwaits
  <2>6. CASE HookFails
    <3>1. failed' \in BOOLEAN
      BY <2>6, Zenon DEF HookFails, HookError
    <3> QED BY <2>6, <2>4, <3>1 DEF HookFails, HookError
  <2>7. CASE HookAwaited
    <3>1. failed' \in BOOLEAN
      BY <2>7, Zenon DEF HookAwaited, HookError
    <3> QED BY <2>7, <2>4, <3>1 DEF HookAwaited, HookError
  <2>8. CASE HooksDone
    BY <2>8, <2>4 DEF HooksDone
  <2>9. CASE CloseApp \/ AppClosed \/ RemoveNetwork
    <3>1. failed' \in BOOLEAN
      BY <2>9, Zenon DEF CloseApp, AppClosed, RemoveNetwork
    <3> QED BY <2>9, <3>1 DEF CloseApp, AppClosed, RemoveNetwork
  <2>10. CASE UNCHANGED groupVars
    BY <2>10 DEF groupVars
  <2> QED BY <2>1, <2>2, <2>3, <2>5, <2>6, <2>7, <2>8, <2>9, <2>10
          DEF GroupNext, GroupCalls, GroupStep, gvars
<1> QED BY <1>4, <1>5, PTL DEF GroupSpec

\* Where the group is agrees with the call it runs (group.go Run, Close).
LEMMA StageHolds == GroupSpec => []Stage
<1>1. GroupInit => Stage
  BY DEF GroupInit, Stage, RunStage, CloseStage
<1>2. GroupTypeOK /\ Stage /\ [GroupNext]_gvars => Stage'
  <2> SUFFICES ASSUME GroupTypeOK, Stage, [GroupNext]_gvars PROVE Stage'
    OBVIOUS
  <2> USE GroupAssumption, ContainerAssumption
      DEF GroupTypeOK, Stage, RunStage, CloseStage, HookPC, GroupReturn
  <2>1. ASSUME NEW x \in Ctxs, GroupRunCall(x) \/ GroupCloseCall(x) PROVE Stage'
    BY <2>1 DEF GroupRunCall, GroupCloseCall, GroupCall
  <2>2. CASE CreateNetwork
    BY <2>2 DEF CreateNetwork
  <2>3. CASE AttachApp \/ RunApp \/ AppRan
    BY <2>3 DEF AttachApp, RunApp, AppRan
  <2>4. CASE HookNil \/ HookAwaits \/ HooksDone
    BY <2>4 DEF HookNil, HookAwaits, HooksDone, Leave, HookCalled
  <2>5. CASE HookFails \/ HookAwaited
    BY <2>5 DEF HookFails, HookAwaited, HookError, Leave, HookCalled
  <2>6. CASE CloseApp \/ AppClosed \/ RemoveNetwork
    BY <2>6 DEF CloseApp, AppClosed, RemoveNetwork
  <2>7. CASE UNCHANGED groupVars
    BY <2>7 DEF groupVars
  <2> QED BY <2>1, <2>2, <2>3, <2>4, <2>5, <2>6, <2>7 DEF GroupNext, GroupCalls, GroupStep, gvars
<1> QED BY <1>1, <1>2, GroupTypeCorrect, PTL DEF GroupSpec

\* Every step of the group is one of Container's, or none (group.go).
LEMMA GroupStepIsStep == GroupTypeOK /\ Stage /\ [GroupNext]_gvars => [Next]_vars
<1> SUFFICES ASSUME GroupTypeOK, Stage, [GroupNext]_gvars PROVE [Next]_vars
  OBVIOUS
<1>1. This \in Containers /\ gctx \in Ctxs
  BY GroupAssumption DEF GroupTypeOK, This
<1>2. ASSUME NEW x \in Ctxs, GroupRunCall(x) \/ GroupCloseCall(x) PROVE UNCHANGED vars
  BY <1>2 DEF GroupRunCall, GroupCloseCall, GroupCall
<1>3. CASE CreateNetwork
  BY <1>3 DEF CreateNetwork, Next, NetworkStep
<1>4. CASE AttachApp
  BY <1>1, <1>4 DEF AttachApp, Next, CallStep, GroupTypeOK, Stage, RunStage
<1>5. CASE RunApp \/ HookAwaits \/ CloseApp
  BY <1>1, <1>5 DEF RunApp, HookAwaits, CloseApp, Next, CallStep
<1>6. CASE AppRan \/ HookNil \/ HookFails \/ HookAwaited \/ HooksDone \/ AppClosed
  BY <1>6 DEF AppRan, HookNil, HookFails, HookAwaited, HooksDone, AppClosed
<1>7. CASE RemoveNetwork
  BY <1>7 DEF RemoveNetwork, Next, NetworkStep, GroupTypeOK
<1>8. CASE WorldStep \/ \E c \in Containers : ApiStep(c)
  BY <1>8 DEF Next
<1>9. CASE UNCHANGED gvars
  BY <1>9 DEF gvars
<1> QED BY <1>2, <1>3, <1>4, <1>5, <1>6, <1>7, <1>8, <1>9 DEF GroupNext, GroupCalls, GroupStep

\* A group uses its containers only as Container allows (group.go), so that
\* what is proved of a handle holds of a handle in a group.
LEMMA GroupUsesContainers == GroupSpec => Spec
<1>1. GroupInit => Init
  BY DEF GroupInit
<1> QED BY <1>1, GroupTypeCorrect, StageHolds, GroupStepIsStep, PTL DEF GroupSpec, Spec

\* So every handle of a group keeps the promise of a lease, whatever Run, Close
\* and the hooks do with it (group.go Run, Close, container.go Run, Close).
THEOREM GroupKeepsLeases == GroupSpec => ImplementsLease
<1> QED BY GroupUsesContainers, Implements, PTL

--------------------------------------------------------------------------------
(* The inductive invariant, one lemma for the steps of each kind. *)

\* What is known of a group and its handles between two steps.
Known == TypeOK /\ IInv /\ GroupTypeOK /\ GInv

\* A call of the group begins when none of its handles works
\* (group.go Run, Close).
LEMMA GroupCallKeeps ==
  ASSUME Known, NEW x \in Ctxs, GroupRunCall(x) \/ GroupCloseCall(x)
  PROVE  GInv'
<1> USE DEF Known, GInv
<1>1. /\ UNCHANGED <<gnet, lostNets, vars>>
      /\ gpc = "idle" /\ gerr' = "none"
      /\ \/ gop' = "Run" /\ gpc' = "create" /\ idx' = 1
         \/ gop' = "Close" /\ gpc' = "beforeClose" /\ idx' = N
  BY DEF GroupRunCall, GroupCloseCall, GroupCall
<1>2. UNCHANGED <<networkID, containerID, pc, op, err, store, inst, attached, net>>
  BY <1>1 DEF vars, clientVars, daemonVars
<1>3. Stage'
  BY <1>1 DEF Stage, RunStage, CloseStage
<1>4. Driven'
  BY <1>1, <1>2 DEF Driven
<1>5. Networked' /\ RunsUp' /\ ClosesDown'
  BY <1>1, <1>2 DEF Networked, RunsUp, ClosesDown
<1>6. PullsMissing' /\ NeverRunsDetached'
  BY <1>1, <1>2 DEF PullsMissing, NeverRunsDetached
<1>7. StartsInOrder' /\ ClosesAllInReverse'
  BY <1>1, GroupAssumption DEF StartsInOrder, ClosesAllInReverse
<1> QED BY <1>3, <1>4, <1>5, <1>6, <1>7

\* The network is made before anything runs (group.go Run).
LEMMA CreateNetworkKeeps ==
  ASSUME Known, CreateNetwork
  PROVE  GInv'
<1> USE ContainerAssumption DEF Known, GInv, GroupReturn
<1>1. UNCHANGED <<networkID, containerID, pc, op, err, store, inst, attached>>
  BY DEF CreateNetwork, NetworkCreated, vars, clientVars, daemonVars
<1>2. gop = "Run" /\ gpc = "create" /\ idx = 1 /\ UNCHANGED <<gop, idx, hook, failed>>
  BY DEF CreateNetwork, Stage, RunStage
<1>3. \/ gpc' = "attach" /\ gerr' = "none" /\ gnet' \in Networks
      \/ gpc' = "idle" /\ gerr' = "error" /\ gnet' = gnet
  BY <1>2 DEF CreateNetwork, Stage
<1>4. Stage'
  BY <1>2, <1>3 DEF Stage, RunStage, CloseStage
<1>5. Driven'
  BY <1>1, <1>2, <1>3 DEF Driven, This
<1>6. Networked'
  BY <1>1, <1>2, <1>3 DEF Networked, CreateNetwork, NetworkCreated, Present, vars, daemonVars,
     TypeOK, GroupTypeOK, NeverRunsDetached
<1>7. RunsUp' /\ ClosesDown' /\ PullsMissing'
  BY <1>1, <1>3 DEF RunsUp, ClosesDown, PullsMissing
<1>8. NeverRunsDetached'
  BY <1>1, <1>3 DEF NeverRunsDetached, Networked, CreateNetwork, NetworkCreated, Present,
     vars, daemonVars, TypeOK, GroupTypeOK
<1>9. StartsInOrder' /\ ClosesAllInReverse'
  BY <1>2, <1>3 DEF StartsInOrder, ClosesAllInReverse
<1> QED BY <1>4, <1>5, <1>6, <1>7, <1>8, <1>9

\* A handle is attached, run, awaited or closed: its instance, the networks
\* and the other handles stay as they are (group.go Run, Close).
LEMMA HandleCallKeeps ==
  ASSUME Known, AttachApp \/ RunApp \/ HookAwaits \/ CloseApp
  PROVE  GInv'
<1> USE DEF Known, GInv
<1>1. /\ This \in Containers /\ This' = This /\ idx \in 1..N
      /\ \A k \in 1..N : App[k] \in Containers /\ (k # idx => App[k] # This)
  BY GroupAssumption DEF GroupTypeOK, This, AttachApp, RunApp, HookAwaits, CloseApp
<1>2. UNCHANGED <<gnet, gop, gerr, idx, failed, lostNets, containerID, inst, attached, ready,
                  store, net>>
  BY DEF AttachApp, RunApp, HookAwaits, CloseApp, NetworkAttach, RunCall, AwaitCall, CloseCall,
     daemonVars
<1>3. /\ gpc = "attach" /\ gpc' = "beforeRun" /\ networkID'[This] = gnet /\ pc' = pc /\ op' = op
      \/ /\ gpc = "run" /\ gpc' = "running" /\ networkID' = networkID
         /\ pc'[This] = "list" /\ op'[This] = "Run"
      \/ /\ gpc = "afterRun" /\ gpc' = "awaiting" /\ networkID' = networkID /\ hook' = hook
         /\ pc'[This] = "logs" /\ op'[This] = "AwaitOutput"
      \/ /\ gpc = "close" /\ gpc' = "closing" /\ networkID' = networkID
         /\ pc'[This] \in {"idle", "stop"} /\ op'[This] = "Close"
  BY <1>1 DEF TypeOK, AttachApp, RunApp, HookAwaits, CloseApp, NetworkAttach,
     RunCall, AwaitCall, CloseCall, Call
<1>4. \A c \in Containers \ {This} : pc'[c] = pc[c] /\ op'[c] = op[c] /\ err'[c] = err[c]
  BY <1>1 DEF TypeOK, AttachApp, RunApp, HookAwaits, CloseApp, NetworkAttach,
     RunCall, AwaitCall, CloseCall, Call
<1>5. Stage'
  BY <1>2, <1>3 DEF Stage, RunStage, CloseStage
<1>6. Driven'
  BY <1>1, <1>2, <1>3, <1>4 DEF Driven
<1>7. Networked'
  BY <1>1, <1>2, <1>3 DEF Networked
<1>8. RunsUp'
  BY <1>1, <1>2, <1>3 DEF RunsUp, Returned, Serves, Started, Heard
<1>9. ClosesDown' /\ PullsMissing' /\ NeverRunsDetached'
  BY <1>2, <1>3, <1>4 DEF ClosesDown, PullsMissing, NeverRunsDetached, Driven
<1>10. StartsInOrder'
  BY <1>2, <1>3 DEF StartsInOrder, Up, Serves, Started, Heard, Stage
<1>11. ClosesAllInReverse'
  BY <1>1, <1>2, <1>3, <1>4 DEF ClosesAllInReverse, Closed, Stage
<1> QED BY <1>5, <1>6, <1>7, <1>8, <1>9, <1>10, <1>11

\* What a call of a handle came to is what its result said
\* (group.go Run, Close).
LEMMA HandleDoneKeeps ==
  ASSUME Known, AppRan \/ AppClosed
  PROVE  GInv'
<1> USE DEF Known, GInv, GroupReturn
<1>1. This \in Containers /\ This = App[idx] /\ This' = This /\ idx \in 1..N
  BY GroupAssumption DEF GroupTypeOK, This, AppRan, AppClosed
<1>2. UNCHANGED <<gnet, gop, idx, lostNets, networkID, containerID, pc, op, err, inst,
                  attached, ready, store, net>>
  BY DEF AppRan, AppClosed, vars, clientVars, daemonVars
<1>3. pc[This] = "idle" /\ gerr = "none"
  BY DEF AppRan, AppClosed, Stage
<1>4. \/ gpc = "running" /\ gpc' = "afterRun" /\ hook' = 0 /\ gerr' = gerr /\ err[This] = "nil"
      \/ gpc = "running" /\ gpc' = "idle" /\ gerr' = "error"
      \/ gpc = "closing" /\ gpc' = "afterClose" /\ gerr' = gerr
  BY DEF AppRan, AppClosed
<1>5. Stage'
  BY <1>2, <1>3, <1>4 DEF Stage, RunStage, CloseStage
<1>6. Driven'
  BY <1>1, <1>2, <1>3, <1>4 DEF Driven
<1>7. Networked' /\ PullsMissing' /\ NeverRunsDetached'
  BY <1>2, <1>3, <1>4 DEF Networked, PullsMissing, NeverRunsDetached
<1>8. RunsUp'
  BY <1>1, <1>2, <1>3, <1>4 DEF RunsUp, Returned, Serves, Driven, IInv, Outcome, Started
<1>9. ClosesDown' /\ ClosesAllInReverse'
  <2>1. failed => failed'
    BY Zenon DEF AppRan, AppClosed
  <2>2. gpc' = "afterClose" => failed' \/ err[This] = "nil"
    BY <1>4, Zenon DEF AppRan, AppClosed
  <2> QED BY <1>1, <1>2, <1>3, <1>4, <2>1, <2>2 DEF ClosesDown, ClosesAllInReverse, Closed, Driven,
       Stage, RunStage
<1>10. StartsInOrder'
  BY <1>2, <1>3, <1>4 DEF StartsInOrder, Up, Serves, Started, Heard, Stage, CloseStage
<1> QED BY <1>5, <1>6, <1>7, <1>8, <1>9, <1>10

\* A hook ended, and nothing else was done (group.go runHooks).
LEMMA HookKeeps ==
  ASSUME Known, HookNil \/ (HookAwaited /\ err[This] = "nil")
  PROVE  GInv'
<1> USE DEF Known, GInv
<1>1. This \in Containers /\ This' = This
  BY GroupAssumption DEF GroupTypeOK, This, HookNil, HookAwaited
<1>2. UNCHANGED <<gnet, gop, gerr, idx, failed, lostNets, networkID, containerID, pc, op, err,
                  inst, attached, ready, store, net>>
  BY DEF HookNil, HookAwaited, vars, clientVars, daemonVars
<1>3. \/ gpc \in {"beforeRun", "beforeClose", "afterClose"} /\ gpc' = gpc
      \/ gpc = "awaiting" /\ pc[This] = "idle" /\ err[This] = "nil" /\ gpc' = "afterRun"
  BY DEF HookNil, HookAwaited, HookCalled, HookPC
<1>4. Stage'
  BY <1>2, <1>3 DEF Stage, RunStage, CloseStage
<1>5. Driven'
  BY <1>1, <1>2, <1>3 DEF Driven
<1>6. Networked' /\ PullsMissing' /\ NeverRunsDetached'
  BY <1>1, <1>2, <1>3 DEF Networked, PullsMissing, NeverRunsDetached
<1>7. RunsUp'
  BY <1>1, <1>2, <1>3 DEF RunsUp, Serves, Started, Heard, Driven, IInv, AwaitNilIsFinal, Returned
<1>8. ClosesDown' /\ StartsInOrder' /\ ClosesAllInReverse'
  BY <1>2, <1>3 DEF ClosesDown, StartsInOrder, ClosesAllInReverse, Closed, Up, Serves,
     Started, Heard, Stage
<1> QED BY <1>4, <1>5, <1>6, <1>7, <1>8

\* The last hook of an application is done, or one failed: the group goes on
\* to what follows, or gives up (group.go runHooks, Run, Close).
LEMMA LeaveKeeps ==
  ASSUME Known, HookFails \/ (HookAwaited /\ err[This] # "nil") \/ HooksDone
  PROVE  GInv'
<1> USE DEF Known, GInv, GroupReturn
<1>1. /\ This \in Containers /\ This = App[idx] /\ idx \in 1..N /\ N \in Nat
      /\ \A k \in 1..N : App[k] \in Containers /\ Hooks[k] \in Nat
  BY GroupAssumption DEF GroupTypeOK, This
<1>2. UNCHANGED <<gnet, gop, lostNets, networkID, containerID, pc, op, err,
                  inst, attached, ready, store, net>>
  BY DEF HookFails, HookAwaited, HooksDone, vars, clientVars, daemonVars
<1>3. /\ gpc \in HookPC \union {"awaiting"} /\ gerr = "none"
      /\ \A c \in Containers : pc[c] = "idle"
  BY <1>1 DEF HookFails, HookAwaited, HooksDone, HookCalled, HookPC, Driven, Stage
<1>4. (failed => failed') /\ (failed' => failed \/ gop = "Close")
  <2>1. ASSUME NEW stage, HookError(stage) PROVE failed' = failed \/ (failed' = TRUE /\ gop = "Close")
    BY <2>1, Zenon DEF HookError
  <2>2. failed' = failed \/ (failed' = TRUE /\ gop = "Close")
    BY <2>1, Zenon DEF HookFails, HookAwaited, HooksDone
  <2> QED BY <2>2 DEF GroupTypeOK
<1>5. CASE gpc' = "idle" /\ gerr' = "error" /\ idx' = idx /\ gop = "Run"
  <2>1. Stage' /\ Driven' /\ Networked'
    BY <1>2, <1>3, <1>5 DEF Stage, RunStage, CloseStage, Driven, Networked, This
  <2>2. RunsUp' /\ ClosesDown' /\ PullsMissing' /\ NeverRunsDetached'
    BY <1>2, <1>3, <1>5 DEF RunsUp, ClosesDown, PullsMissing, NeverRunsDetached
  <2>3. StartsInOrder' /\ ClosesAllInReverse'
    BY <1>2, <1>5 DEF StartsInOrder, ClosesAllInReverse
  <2> QED BY <2>1, <2>2, <2>3
<1>6. CASE Leave(gpc) /\ (gpc = "afterRun" => hook = Hooks[idx])
  <2>1. Stage'
    BY <1>2, <1>3, <1>4, <1>6 DEF Stage, RunStage, CloseStage, Leave, HookPC
  <2>2. Driven'
    BY <1>2, <1>3, <1>6 DEF Driven, Leave, HookPC
  <2>3. Networked'
    BY <1>2, <1>3, <1>6 DEF Networked, Leave, HookPC, This, Stage, RunStage
  <2>4. RunsUp' /\ ClosesDown' /\ PullsMissing' /\ NeverRunsDetached'
    BY <1>2, <1>3, <1>6 DEF RunsUp, ClosesDown, PullsMissing, NeverRunsDetached, Leave
  <2>5. \A k \in 1..N : (Closed(k) => Closed(k)') /\ (Up(k) => Up(k)')
    BY <1>2, <1>4 DEF Closed, Up, Serves, Started, Heard
  <2>6. StartsInOrder'
    <3>1. gpc = "afterRun" => Up(idx)
      BY <1>1, <1>6 DEF Up, RunsUp
    <3> QED BY <1>1, <1>2, <1>3, <1>6, <2>5, <3>1 DEF StartsInOrder, Leave, HookPC, Stage,
             CloseStage, RunStage
  <2>7. ClosesAllInReverse'
    BY <1>1, <1>2, <1>3, <1>6, <2>5 DEF ClosesAllInReverse, ClosesDown, Leave, HookPC, Stage, RunStage
  <2> QED BY <2>1, <2>2, <2>3, <2>4, <2>6, <2>7
<1> QED BY <1>3, <1>5, <1>6 DEF HookFails, HookAwaited, HooksDone, HookError, HookPC,
           Stage, RunStage, CloseStage

\* The network goes only when nothing runs on it (group.go Close).
LEMMA RemoveNetworkKeeps ==
  ASSUME Known, RemoveNetwork
  PROVE  GInv'
<1> USE ContainerAssumption DEF Known, GInv, GroupReturn
<1>1. UNCHANGED <<gnet, gop, idx, failed, lostNets, networkID, containerID, pc, op, err,
                  inst, attached, store>>
  BY DEF RemoveNetwork, NetworkRemoved, vars, clientVars, daemonVars
<1>2. gpc = "remove" /\ gop = "Close" /\ gpc' = "idle"
  BY DEF RemoveNetwork, Stage, CloseStage
<1>3. gerr' = "nil" => ~failed /\ gnet \in Networks /\ net' = [net EXCEPT ![gnet] = "removed"]
  BY DEF RemoveNetwork, NetworkRemoved, GroupTypeOK
<1>4. Stage'
  BY <1>1, <1>2, <1>3 DEF Stage, RunStage, CloseStage
<1>5. Driven'
  BY <1>1, <1>2 DEF Driven, This
<1>6. \A n \in Networks : net'[n] = "present" => net[n] = "present"
  BY DEF RemoveNetwork, NetworkRemoved, TypeOK, vars, daemonVars
<1>7. Networked'
  BY <1>1, <1>2, <1>3, <1>6 DEF Networked, Stage, TypeOK
<1>8. NeverRunsDetached'
  <2>1. \/ net' = net
        \/ gnet \in Networks /\ \A i \in Instances : ~(attached[i] = gnet /\ inst[i] = "running")
    BY DEF RemoveNetwork, NetworkRemoved, InUse, vars, daemonVars, GroupTypeOK
  <2> QED BY <1>1, <2>1 DEF NeverRunsDetached
<1>9. RunsUp' /\ ClosesDown' /\ PullsMissing' /\ StartsInOrder'
  BY <1>1, <1>2 DEF RunsUp, ClosesDown, PullsMissing, StartsInOrder
<1>10. ClosesAllInReverse'
  BY <1>1, <1>2 DEF ClosesAllInReverse, Closed
<1> QED BY <1>4, <1>5, <1>7, <1>8, <1>9, <1>10

\* A handle makes its next request: the others, and what Run or Close
\* achieved for them, stay as they are (group.go Run, Close; container.go).
LEMMA RequestKeeps ==
  ASSUME Known, TypeOK', IInv', NEW c \in Containers, ApiStep(c), UNCHANGED groupVars
  PROVE  GInv'
<1> USE DEF Known, GInv
<1>1. /\ pc[c] # "idle" /\ UNCHANGED <<networkID, op, arg, grace, ctxVars, ready, net>>
      /\ \A d \in Containers \ {c} :
             /\ pc'[d] = pc[d] /\ err'[d] = err[d] /\ containerID'[d] = containerID[d]
             /\ containerID[d] # NoID =>
                    /\ inst'[containerID[d]] = inst[containerID[d]]
                    /\ attached'[containerID[d]] = attached[containerID[d]]
  BY RequestFrame
<1>2. UNCHANGED <<gnet, gpc, gop, gerr, gctx, idx, hook, failed, lostNets>>
  BY DEF groupVars
<1>3. /\ c = This /\ c = App[idx] /\ gpc \in {"running", "awaiting", "closing"}
      /\ \A k \in 1..N : App[k] \in Containers /\ (k # idx => App[k] # c)
  BY <1>1, GroupAssumption DEF Driven, This, GroupTypeOK
<1>4. This' = This
  BY <1>2 DEF This
<1>5. Stage'
  BY <1>2 DEF Stage
<1>6. Driven'
  BY <1>1, <1>2, <1>3, <1>4 DEF Driven, This, GroupTypeOK
<1>7. networkID[c] = gnet \/ gpc # "running"
  BY <1>3 DEF Networked
<1>8. NeverRunsDetached' /\ (gnet = NoNet => \A i \in Instances : inst'[i] # "running")
  <2>1. ASSUME NEW i \in Instances, inst'[i] = "running"
        PROVE  gnet # NoNet /\ attached'[i] = gnet /\ net[gnet] = "present"
    <3>1. CASE inst[i] = "running" /\ attached'[i] = attached[i]
      BY <2>1, <3>1 DEF NeverRunsDetached, Networked
    <3>2. CASE /\ pc[c] = "start" /\ attached'[i] = networkID[c]
               /\ networkID[c] # NoNet => networkID[c] \in Networks /\ net[networkID[c]] = "present"
      <4>1. gpc = "running" /\ gnet # NoNet
        BY <1>3, <3>2 DEF Driven, IInv, Program, RunPC, Stage, RunStage
      <4> QED BY <1>7, <3>2, <4>1
    <3> QED BY <2>1, <3>1, <3>2, RunsAttached
  <2> QED BY <1>1, <1>2, <2>1 DEF NeverRunsDetached
<1>9. Networked'
  BY <1>1, <1>2, <1>4, <1>8 DEF Networked
<1>10. RunsUp'
  <2>1. ASSUME gpc = "running", Returned(c, "Run", "nil")'
        PROVE  attached'[containerID'[c]] = gnet
    <3>1. Start(c)
      BY <2>1, <1>1, NilIsStart DEF Returned
    <3>2. pc[c] = "start" /\ containerID' = containerID /\ attached' = attached
      BY <3>1 DEF Start
    <3> QED BY <1>7, <2>1, <3>2 DEF IInv, Progress
  <2>2. ASSUME gpc = "awaiting"
        PROVE  UNCHANGED <<containerID, inst, attached, ready>>
    <3>1. op[c] = "AwaitOutput" /\ pc[c] \notin RunPC \union ClosePC
      BY <1>3, <2>2 DEF Driven, IInv, Program
    <3> QED BY <3>1 DEF ApiStep, ListImages, PullImage, Create, Connect, Start, Stop, Remove,
            OpenLogs, AwaitOutput, daemonVars, RunPC, ClosePC
  <2> QED BY <1>2, <1>3, <1>4, <2>1, <2>2 DEF RunsUp, Serves, Started, Heard
<1>11. ClosesDown'
  BY <1>2, <1>3 DEF ClosesDown
<1>12. PullsMissing'
  <2>1. \A d \in Containers \ {c} : pc'[d] = "idle"
    BY <1>1, <1>3 DEF Driven
  <2>2. pc'[c] = "pull" => /\ ImageOf[c] \in Latest \/ ~Listed(ImageOf[c])
                           /\ store' = store
    BY ContainerAssumption DEF ApiStep, ListImages, PullImage, Create, Connect, Start, Stop, Remove,
       OpenLogs, AwaitOutput, Matched, Ended, Interrupted, GoOn, Return, TypeOK, daemonVars
  <2> QED BY <2>1, <2>2 DEF PullsMissing, Listed
<1>13. StartsInOrder'
  <2>1. \A k \in 1..N : k # idx /\ Up(k) => Up(k)'
    BY <1>1, <1>2, <1>3 DEF Up, Serves, Started, Heard
  <2>2. idx \in 1..N /\ N \in Nat
    BY GroupAssumption DEF GroupTypeOK
  <2> QED BY <1>2, <1>3, <2>1, <2>2 DEF StartsInOrder, Stage
<1>14. ClosesAllInReverse'
  BY <1>1, <1>2, <1>3 DEF ClosesAllInReverse, Closed
<1> QED BY <1>5, <1>6, <1>8, <1>9, <1>10, <1>11, <1>12, <1>13, <1>14

\* Time, the programs, the registry and a broken log undo nothing of what
\* the group achieved (group.go).
LEMMA WorldStepKeeps ==
  ASSUME Known, WorldStep, UNCHANGED groupVars
  PROVE  GInv'
<1> USE DEF Known, GInv
<1>1. UNCHANGED <<gnet, gpc, gop, gerr, gctx, idx, hook, failed, lostNets, This>>
  BY DEF groupVars, This
<1>2. UNCHANGED <<containerID, networkID, op, net, attached>>
  BY WorldFrame
<1>3. \A c \in Containers :
          \/ pc'[c] = pc[c] /\ err'[c] = err[c]
          \/ /\ pc[c] = "await" /\ pc'[c] = "idle"
             /\ err'[c] = "error" \/ (err'[c] = "nil" /\ containerID[c] \in ready)
  BY WorldFrame
<1>4. /\ \A i \in Instances :
             inst'[i] = inst[i] \/ (inst[i] = "running" /\ inst'[i] = "exited")
      /\ ready \subseteq ready'
  BY WorldFrame
<1>5. \A m \in Images : store[m] = "absent" => store'[m] = "absent"
  BY WorldFrame
<1>6. \A c \in Containers : pc[c] = "await" => op[c] = "AwaitOutput"
  BY DEF IInv, Program, AwaitPC
<1>7. Stage' /\ Networked' /\ NeverRunsDetached'
  BY <1>1, <1>2, <1>4 DEF Stage, Networked, NeverRunsDetached
<1>8. Driven'
  BY <1>1, <1>2, <1>3 DEF Driven
<1>9. /\ This \in Containers /\ \A k \in 1..N : App[k] \in Containers
      /\ idx \in 1..N
  BY GroupAssumption DEF This, GroupTypeOK
<1>10. \A c \in Containers : /\ Serves(c) => Serves(c)'
                             /\ Heard(c) /\ Serves(c) => Heard(c)'
  BY <1>1, <1>2, <1>4 DEF Serves, Started, Heard, TypeOK
<1>11. RunsUp'
  BY <1>1, <1>2, <1>3, <1>6, <1>9, <1>10 DEF RunsUp, Returned
<1>12. ClosesDown' /\ ClosesAllInReverse'
  BY <1>1, <1>2, <1>3, <1>6, <1>9 DEF ClosesDown, ClosesAllInReverse, Closed
<1>13. PullsMissing'
  BY <1>3, <1>5, ContainerAssumption DEF PullsMissing
<1>14. StartsInOrder'
  BY <1>1, <1>9, <1>10, GroupAssumption DEF StartsInOrder, Up
<1> QED BY <1>7, <1>8, <1>11, <1>12, <1>13, <1>14

\* Every step of a group keeps the invariant (group.go).
LEMMA GroupStepKeeps == Known /\ TypeOK' /\ IInv' /\ [GroupNext]_gvars => GInv'
<1> SUFFICES ASSUME Known, TypeOK', IInv', [GroupNext]_gvars PROVE GInv'
  OBVIOUS
<1>1. CASE GroupCalls
  BY <1>1, GroupCallKeeps DEF GroupCalls
<1>2. CASE GroupStep
  BY <1>2, CreateNetworkKeeps, HandleCallKeeps, HandleDoneKeeps, HookKeeps, LeaveKeeps,
     RemoveNetworkKeeps DEF GroupStep
<1>3. CASE (WorldStep \/ \E c \in Containers : ApiStep(c)) /\ UNCHANGED groupVars
  BY <1>3, RequestKeeps, WorldStepKeeps
<1>4. CASE UNCHANGED gvars
  BY <1>4 DEF gvars, groupVars, vars, clientVars, ctxVars, daemonVars, Known, GInv, Stage, Driven, This,
     Networked, RunsUp, Returned, Serves, Started, Heard, ClosesDown, Closed, PullsMissing,
     StartsInOrder, Up, ClosesAllInReverse, NeverRunsDetached
<1> QED BY <1>1, <1>2, <1>3, <1>4 DEF GroupNext

\* What a group relies on between two steps, of which everything below
\* follows (group.go Run, Close).
THEOREM GroupInductive == GroupSpec => []Known
<1>1. GroupInit => GInv
  BY ContainerAssumption DEF GroupInit, Init, GInv, Stage, RunStage, CloseStage, Driven, Networked,
     RunsUp, ClosesDown, PullsMissing, StartsInOrder, ClosesAllInReverse, NeverRunsDetached
<1>2. GroupSpec => [](TypeOK /\ IInv /\ GroupTypeOK)
  BY GroupUsesContainers, TypeCorrect, Inductive, GroupTypeCorrect, PTL
<1>3. TypeOK /\ IInv /\ GroupTypeOK /\ GInv /\ TypeOK' /\ IInv' /\ [GroupNext]_gvars => GInv'
  BY GroupStepKeeps DEF Known
<1>4. TypeOK /\ IInv /\ GroupTypeOK /\ GInv => Known
  BY DEF Known
<1> QED BY <1>1, <1>2, <1>3, <1>4, PTL DEF GroupSpec

--------------------------------------------------------------------------------
(* What the users of a group may rely on. *)

\* Run takes up an application only when those before it are up, and returns
\* nil only when all are (group.go Run).
THEOREM GroupStartsInOrder == GroupSpec => []StartsInOrder
<1>1. Known => StartsInOrder
  BY DEF Known, GInv
<1> QED BY <1>1, GroupInductive, PTL

\* Close closes an application only when the later ones are closed, and
\* returns only after it tried them all (group.go Close).
THEOREM GroupClosesAll == GroupSpec => []ClosesAllInReverse
<1>1. Known => ClosesAllInReverse
  BY DEF Known, GInv
<1> QED BY <1>1, GroupInductive, PTL

\* Nothing of the group runs off its network, not even what a failed Run
\* left behind (group.go Run, container.go Run).
THEOREM GroupRunsAttached == GroupSpec => []NeverRunsDetached
<1>1. Known => NeverRunsDetached
  BY DEF Known, GInv
<1> QED BY <1>1, GroupInductive, PTL

\* A Close that returns nil has left neither an instance nor a network of
\* the group but those nobody told it of (group.go Close).
THEOREM GroupCloseIsComplete == GroupSpec => []GroupCloseLeavesNothing
<1>1. Known => GroupCloseLeavesNothing
  <2> SUFFICES ASSUME Known, gop = "Close", gerr = "nil"
               PROVE  /\ \A i \in Instances : Held(i) => i \in lost \union superseded
                      /\ \A n \in Networks : net[n] = "present" => n \in lostNets
    BY DEF GroupCloseLeavesNothing
  <2> USE DEF Known, GInv
  <2>1. gpc = "idle" /\ ~failed
    BY Zenon DEF Stage
  <2>2. ASSUME NEW k \in 1..N PROVE Returned(App[k], "Close", "nil") /\ App[k] \in Containers
    BY <2>1, GroupAssumption DEF ClosesAllInReverse, Closed, Returned
  <2>3. ASSUME NEW i \in Instances, Held(i), i \notin lost \union superseded PROVE FALSE
    <3>1. Label[i] \in Containers /\ containerID[Label[i]] = i /\ i # NoID
      BY <2>3, ContainerAssumption DEF IInv, NothingUntracked
    <3>2. PICK k \in 1..N : App[k] = Label[i]
      BY <3>1 DEF Driven
    <3> QED BY <2>2, <2>3, <3>1, <3>2 DEF IInv, Outcome, Held
  <2> QED BY <2>3 DEF Networked
<1> QED BY <1>1, GroupInductive, PTL

\* While a group is used the daemon's copy of an image with a fixed tag that
\* it lists as it is written is not replaced (container.go pullImage).
THEOREM GroupKeepsFixedTags == GroupSpec => FixedTagStable
<1> DEFINE Stable == \A m \in Verbatim \ Latest : store[m] = "stale" => store'[m] = "stale"
<1>1. Known /\ [GroupNext]_gvars => [Stable]_vars
  <2> SUFFICES ASSUME Known, [GroupNext]_gvars, ~UNCHANGED vars PROVE Stable
    OBVIOUS
  <2> USE ContainerAssumption DEF Known, TypeOK, daemonVars
  <2>1. Next
    BY GroupStepIsStep DEF GInv
  <2>2. ASSUME NEW c \in Containers, CallStep(c) PROVE Stable
    BY <2>2 DEF CallStep, NetworkAttach, RunCall, CloseCall, AwaitCall
  <2>3. ASSUME NEW c \in Containers, PullImage(c) PROVE Stable
    BY <2>3 DEF PullImage, GInv, PullsMissing
  <2>4. ASSUME NEW c \in Containers, ApiStep(c), ~PullImage(c) PROVE Stable
    BY <2>4 DEF ApiStep, ListImages, Create, Connect, Start, Stop, Remove, OpenLogs, AwaitOutput
  <2>5. CASE WorldStep \/ NetworkStep
    BY <2>5 DEF WorldStep, DeadlinePasses, Cancel, GracePasses, LogSevered, Exits, Emits, Publishes,
       NetworkStep, NetworkCreated, NetworkRemoved
  <2> QED BY <2>1, <2>2, <2>3, <2>4, <2>5 DEF Next
<1> QED BY <1>1, GroupInductive, PTL DEF GroupSpec, FixedTagStable

================================================================================
