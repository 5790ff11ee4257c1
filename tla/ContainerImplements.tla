-------------------------- MODULE ContainerImplements --------------------------
(* That the handle of container.go implements the lease it promises. *)
EXTENDS ContainerProofs

--------------------------------------------------------------------------------
(* The state of the lease, as Container's state determines it. *)

PhaseBar  == [i \in Instances |-> PhaseOf[inst[i]]]
ToldBar   == [c \in Containers |-> Told(c)]
LeakedBar == {i \in lost \union superseded : Held(i)}

\* A stutter of the lease: the handle knows, holds and says what it did.
LeaseUnchanged == UNCHANGED <<containerID, PhaseBar, ToldBar, LeakedBar>>

\* The lease allows it to stutter.
LEMMA StutterIsStep ==
  ASSUME LeaseUnchanged
  PROVE  [Promise!Next]_(Promise!leaseVars)
BY DEF LeaseUnchanged, Promise!leaseVars, PhaseBar, ToldBar, LeakedBar

\* While a call runs the handle has told nothing, and it tells nothing new
\* by going on or by coming back with an error (container.go: err is nil
\* only where a call ends well).
LEMMA ToldStays ==
  ASSUME TypeOK, NEW c \in Containers, pc[c] # "idle", op' = op,
         \/ \E r \in RunPC \union ClosePC \union AwaitPC : GoOn(c, r)
         \/ \E e \in Result : Return(c, e) /\ (e = "nil" => op[c] = "AwaitOutput")
  PROVE  ToldBar' = ToldBar
<1>1. \A d \in Containers \ {c} : pc'[d] = pc[d] /\ err'[d] = err[d]
  BY DEF TypeOK, GoOn, Return
<1>2. Told(c) = "nothing"
  BY DEF Told
<1>3. Told(c)' = "nothing"
  BY DEF Told, TypeOK, GoOn, Return, RunPC, ClosePC, AwaitPC, Result
<1>4. \A d \in Containers : Told(d)' = Told(d)
  BY <1>1, <1>2, <1>3 DEF Told
<1> QED BY <1>4 DEF ToldBar

\* A call that comes back, and what it then has told.
LEMMA ToldChanges ==
  ASSUME TypeOK, NEW c \in Containers,
         \A d \in Containers \ {c} : pc'[d] = pc[d] /\ err'[d] = err[d] /\ op'[d] = op[d]
  PROVE  ToldBar' = [ToldBar EXCEPT ![c] = Told(c)']
<1>1. \A d \in Containers \ {c} : Told(d)' = Told(d)
  BY DEF Told
<1> QED BY <1>1 DEF ToldBar

\* The phase follows the one instance a request changes.
LEMMA PhaseChanges ==
  ASSUME TypeOK, NEW i \in Instances
  PROVE  /\ inst' = [inst EXCEPT ![i] = "created"]
              => PhaseBar' = [PhaseBar EXCEPT ![i] = "held"]
         /\ inst' = [inst EXCEPT ![i] = "running"]
              => PhaseBar' = [PhaseBar EXCEPT ![i] = "serving"]
         /\ inst' = [inst EXCEPT ![i] = "exited"]
              => PhaseBar' = [PhaseBar EXCEPT ![i] = "finished"]
         /\ inst' = [inst EXCEPT ![i] = "removed"]
              => PhaseBar' = [PhaseBar EXCEPT ![i] = "released"]
<1>1. ASSUME NEW s, inst' = [inst EXCEPT ![i] = s]
      PROVE  PhaseBar' = [PhaseBar EXCEPT ![i] = PhaseOf[s]]
  BY <1>1 DEF TypeOK, PhaseBar
<1>2. /\ PhaseOf["created"] = "held"
      /\ PhaseOf["running"] = "serving"
      /\ PhaseOf["exited"] = "finished"
      /\ PhaseOf["removed"] = "released"
  BY DEF PhaseOf
<1>3. ASSUME inst' = [inst EXCEPT ![i] = "created"]
      PROVE  PhaseBar' = [PhaseBar EXCEPT ![i] = "held"]
  BY <1>1, <1>2, <1>3, Zenon
<1>4. ASSUME inst' = [inst EXCEPT ![i] = "running"]
      PROVE  PhaseBar' = [PhaseBar EXCEPT ![i] = "serving"]
  BY <1>1, <1>2, <1>4, Zenon
<1>5. ASSUME inst' = [inst EXCEPT ![i] = "exited"]
      PROVE  PhaseBar' = [PhaseBar EXCEPT ![i] = "finished"]
  BY <1>1, <1>2, <1>5, Zenon
<1>6. ASSUME inst' = [inst EXCEPT ![i] = "removed"]
      PROVE  PhaseBar' = [PhaseBar EXCEPT ![i] = "released"]
  BY <1>1, <1>2, <1>6, Zenon
<1> QED BY <1>3, <1>4, <1>5, <1>6

\* An instance is in the hand of the lease when the daemon holds it.
LEMMA HeldInHand ==
  ASSUME TypeOK, NEW i \in Instances
  PROVE  /\ Promise!InHand(i) <=> Held(i)
         /\ PhaseBar[i] = "new" <=> inst[i] = "absent"
         /\ PhaseBar[i] = "held" <=> inst[i] = "created"
         /\ PhaseBar[i] = "serving" <=> inst[i] = "running"
         /\ PhaseBar[i] = "finished" <=> inst[i] = "exited"
<1>1. inst[i] \in {"absent", "created", "running", "exited", "removed"}
  BY DEF TypeOK
<1>2. PhaseBar[i] = PhaseOf[inst[i]]
  BY DEF PhaseBar
<1> QED BY <1>1, <1>2 DEF Promise!InHand, Held, PhaseBar, PhaseOf

--------------------------------------------------------------------------------
(* Every step of the handle is a step of the lease, or none. *)

\* The step of the lease is what this step of the handle maps to: a call
\* that begins takes back what was told; Close without an ID releases
\* nothing (container.go Run, Close, AwaitOutput, NetworkAttach).
LEMMA CallImplements ==
  ASSUME TypeOK, IInv, NEW c \in Containers, CallStep(c)
  PROVE  [Promise!Next]_(Promise!leaseVars)
<1> USE DEF clientVars, ctxVars, daemonVars, ghostVars
<1>1. ASSUME NEW n \in Networks, NetworkAttach(c, n) PROVE LeaseUnchanged
  BY <1>1 DEF NetworkAttach, LeaseUnchanged, PhaseBar, ToldBar, LeakedBar, Told, Held
<1>2. ASSUME NEW o, NEW x \in Ctxs, NEW r \in RunPC \union ClosePC \union AwaitPC,
             Call(c, o, x, r), UNCHANGED <<containerID, inst, lost, superseded>>
      PROVE  Promise!Ask(c)
  <2>1. Told(c)' = "nothing"
    BY <1>2 DEF Call, Told, TypeOK, RunPC, ClosePC, AwaitPC
  <2>2. ToldBar' = [ToldBar EXCEPT ![c] = "nothing"]
    BY <1>2, <2>1, ToldChanges DEF Call, TypeOK
  <2>3. UNCHANGED <<containerID, PhaseBar, LeakedBar>>
    BY <1>2 DEF PhaseBar, LeakedBar, Held
  <2> QED BY <2>2, <2>3 DEF Promise!Ask, Promise!Tell, ToldBar, PhaseBar, LeakedBar
<1>3. ASSUME NEW x \in Ctxs, CloseCall(c, x), containerID[c] = NoID
      PROVE  Promise!ReleaseNothing(c)
  <2>1. Told(c)' = "released"
    BY <1>3 DEF CloseCall, Told, TypeOK
  <2>2. ToldBar' = [ToldBar EXCEPT ![c] = "released"]
    BY <1>3, <2>1, ToldChanges DEF CloseCall, TypeOK
  <2>3. UNCHANGED <<containerID, PhaseBar, LeakedBar>>
    BY <1>3 DEF CloseCall, PhaseBar, LeakedBar, Held
  <2> QED BY <1>3, <2>2, <2>3 DEF Promise!ReleaseNothing, Promise!Tell, ToldBar, PhaseBar, LeakedBar
<1>4. ASSUME NEW x \in Ctxs, RunCall(c, x) \/ AwaitCall(c, x)
      PROVE  Promise!Ask(c)
  BY <1>2, <1>4 DEF RunCall, AwaitCall, RunPC, AwaitPC
<1>5. ASSUME NEW x \in Ctxs, CloseCall(c, x), containerID[c] # NoID
      PROVE  Promise!Ask(c)
  BY <1>2, <1>5 DEF CloseCall, ClosePC
<1> QED BY <1>1, <1>3, <1>4, <1>5, StutterIsStep DEF CallStep, Promise!Next

\* Requests that change no instance: the lease does not notice
\* (container.go pullImage, the connect in Run, AwaitOutput).
LEMMA QuietImplements ==
  ASSUME TypeOK, IInv, NEW c \in Containers,
         ListImages(c) \/ PullImage(c) \/ Connect(c) \/ OpenLogs(c) \/ AwaitOutput(c)
  PROVE  LeaseUnchanged
<1> USE DEF clientVars, ctxVars, daemonVars, ghostVars
<1>1. /\ pc[c] # "idle" /\ op' = op
      /\ UNCHANGED <<containerID, inst, lost, superseded>>
  BY DEF ListImages, PullImage, Connect, OpenLogs, AwaitOutput
<1>2. CASE AwaitOutput(c)
  <2>1. \E e \in Result : Return(c, e)
    BY <1>2 DEF AwaitOutput, Matched, Ended, Interrupted, Result
  <2>2. op[c] = "AwaitOutput"
    BY <1>2 DEF AwaitOutput, IInv, Program, AwaitPC
  <2> QED BY <1>1, <2>1, <2>2, ToldStays DEF LeaseUnchanged, PhaseBar, LeakedBar, Held
<1>3. CASE ListImages(c) \/ PullImage(c) \/ Connect(c) \/ OpenLogs(c)
  <2>1. \/ \E r \in RunPC \union ClosePC \union AwaitPC : GoOn(c, r)
        \/ Return(c, Reason(c))
    BY <1>3 DEF ListImages, PullImage, Connect, OpenLogs, RunPC, AwaitPC
  <2>2. Reason(c) \in Result \ {"nil"}
    BY DEF Reason, Result
  <2> QED BY <1>1, <2>1, <2>2, ToldStays DEF LeaseUnchanged, PhaseBar, LeakedBar, Held
<1> QED BY <1>2, <1>3

\* The create acquires, or leaks, or fails (container.go Run).
LEMMA CreateImplements ==
  ASSUME TypeOK, IInv, NEW c \in Containers, Create(c)
  PROVE  [Promise!Next]_(Promise!leaseVars)
<1> USE DEF clientVars, ctxVars, daemonVars, ghostVars
<1>1. pc[c] = "create" /\ op' = op /\ Told(c) = "nothing"
  BY DEF Create, Told
<1>2. Reason(c) \in Result \ {"nil"}
  BY DEF Reason, Result
<1>3. ToldBar' = ToldBar
  <2>1. \/ \E r \in RunPC \union ClosePC \union AwaitPC : GoOn(c, r)
        \/ Return(c, Reason(c))
    BY DEF Create, RunPC
  <2> QED BY <1>1, <1>2, <2>1, ToldStays
<1>4. ASSUME NEW i \in Instances, Label[i] = c, inst[i] = "absent",
             inst' = [inst EXCEPT ![i] = "created"],
             containerID' = [containerID EXCEPT ![c] = i],
             superseded' = superseded \union ({containerID[c]} \ {NoID}),
             lost' = lost
      PROVE  Promise!Acquire(c, i)
  <2>1. PhaseBar' = [PhaseBar EXCEPT ![i] = "held"]
    BY <1>4, PhaseChanges
  <2>2. LeakedBar' = LeakedBar \union {s \in {containerID[c]} : Held(s)}
    BY <1>4, ContainerAssumption DEF LeakedBar, Held, IInv, Fresh, OwnID, TypeOK
  <2>3. {s \in {containerID[c]} : Held(s)} = {s \in {containerID[c]} : Promise!InHand(s)}
    BY HeldInHand DEF Held, Promise!InHand
  <2>4. PhaseBar[i] = "new"
    BY <1>4, HeldInHand
  <2>5. ToldBar[c] = "nothing"
    BY <1>1 DEF ToldBar
  <2> QED BY <1>3, <1>4, <2>1, <2>2, <2>3, <2>4, <2>5
          DEF Promise!Acquire, Promise!Busy, PhaseBar, ToldBar, LeakedBar
<1>5. ASSUME NEW i \in Instances, Label[i] = c, inst[i] = "absent",
             inst' = [inst EXCEPT ![i] = "created"],
             lost' = lost \union {i},
             UNCHANGED <<containerID, superseded>>
      PROVE  Promise!Leak(c, i)
  <2>1. PhaseBar' = [PhaseBar EXCEPT ![i] = "held"]
    BY <1>5, PhaseChanges
  <2>2. LeakedBar' = LeakedBar \union {i}
    BY <1>5 DEF LeakedBar, Held, TypeOK
  <2>3. PhaseBar[i] = "new"
    BY <1>5, HeldInHand
  <2>4. ToldBar[c] = "nothing"
    BY <1>1 DEF ToldBar
  <2> QED BY <1>3, <1>5, <2>1, <2>2, <2>3, <2>4
          DEF Promise!Leak, Promise!Busy, PhaseBar, ToldBar, LeakedBar
<1>6. ASSUME UNCHANGED <<containerID, inst, lost, superseded>> PROVE LeaseUnchanged
  BY <1>3, <1>6 DEF LeaseUnchanged, PhaseBar, LeakedBar, Held
<1> QED BY <1>4, <1>5, <1>6, StutterIsStep DEF Create, Promise!Next

\* The start makes what is held serve, and only then is it told (container.go Run).
LEMMA StartImplements ==
  ASSUME TypeOK, IInv, NEW c \in Containers, Start(c)
  PROVE  [Promise!Next]_(Promise!leaseVars)
<1> USE DEF clientVars, ctxVars, daemonVars, ghostVars
<1> DEFINE i == containerID[c]
<1>1. /\ pc[c] = "start" /\ op[c] = "Run" /\ op' = op /\ Told(c) = "nothing"
      /\ i \in Instances /\ i # NoID /\ inst[i] = "created"
  BY DEF Start, Told, IInv, Program, Progress, RunPC, TypeOK
<1>2. Reason(c) \in Result \ {"nil"}
  BY DEF Reason, Result
<1>3. UNCHANGED <<containerID, lost, superseded>>
  BY DEF Start
<1>4. CASE inst' = [inst EXCEPT ![i] = "running"]
  <2>1. PhaseBar' = [PhaseBar EXCEPT ![i] = "serving"]
    <3>1. i \in Instances /\ inst' = [inst EXCEPT ![i] = "running"]
      BY <1>1, <1>4
    <3> HIDE DEF i
    <3> QED BY <3>1, PhaseChanges
  <2>2. LeakedBar' = LeakedBar
    BY <1>1, <1>3, <1>4 DEF LeakedBar, Held, TypeOK
  <2>3. ToldBar' = [ToldBar EXCEPT ![c] = "serving"] \/ ToldBar' = ToldBar
    <3>1. CASE Return(c, "nil")
      <4>1. Told(c)' = "serving"
        BY <1>1, <3>1 DEF Return, Told, TypeOK
      <4> QED BY <1>1, <3>1, <4>1, ToldChanges DEF Return, TypeOK
    <3>2. CASE Return(c, Reason(c))
      BY <1>1, <1>2, <3>2, ToldStays
    <3> QED BY <3>1, <3>2 DEF Start
  <2>4. PhaseBar[i] = "held" /\ ToldBar[c] = "nothing"
    BY <1>1, HeldInHand DEF ToldBar
  <2>5. Promise!Serve(c)
    BY <1>1, <1>3, <2>1, <2>2, <2>3, <2>4
       DEF Promise!Serve, Promise!Busy, Promise!Tell, PhaseBar, ToldBar, LeakedBar
  <2> QED BY <2>5 DEF Promise!Next
<1>5. CASE inst' = inst /\ Return(c, Reason(c))
  <2>1. LeaseUnchanged
    BY <1>1, <1>2, <1>3, <1>5, ToldStays DEF LeaseUnchanged, PhaseBar, LeakedBar, Held
  <2> QED BY <2>1, StutterIsStep
<1> QED BY <1>4, <1>5 DEF Start

\* A serving instance that ends, by itself or by a stop.
LEMMA FinishImplements ==
  ASSUME TypeOK, NEW i \in Instances, inst[i] = "running",
         inst' = [inst EXCEPT ![i] = "exited"],
         ToldBar' = ToldBar, UNCHANGED <<containerID, lost, superseded>>
  PROVE  [Promise!Next]_(Promise!leaseVars)
<1>1. PhaseBar' = [PhaseBar EXCEPT ![i] = "finished"]
  BY PhaseChanges
<1>2. LeakedBar' = LeakedBar
  BY DEF LeakedBar, Held, TypeOK
<1>3. PhaseBar[i] = "serving"
  BY HeldInHand
<1>4. Promise!Finish(i)
  BY <1>1, <1>2, <1>3 DEF Promise!Finish, PhaseBar, ToldBar, LeakedBar
<1> QED BY <1>4 DEF Promise!Next

\* The stop finishes what serves and leaves the rest (container.go Close).
LEMMA StopImplements ==
  ASSUME TypeOK, IInv, NEW c \in Containers, Stop(c)
  PROVE  [Promise!Next]_(Promise!leaseVars)
<1> USE DEF clientVars, ctxVars, daemonVars, ghostVars
<1> DEFINE i == containerID[c]
<1>1. pc[c] = "stop" /\ op' = op /\ UNCHANGED <<containerID, lost, superseded>> /\ i \in Instances
  BY DEF Stop, IInv, Progress, TypeOK
<1>2. Reason(c) \in Result \ {"nil"}
  BY DEF Reason, Result
<1>3. ToldBar' = ToldBar
  <2>1. GoOn(c, "remove") \/ Return(c, Reason(c))
    BY DEF Stop
  <2> QED BY <1>1, <1>2, <2>1, ToldStays DEF ClosePC
<1>4. CASE inst' = inst
  <2>1. LeaseUnchanged
    BY <1>1, <1>3, <1>4 DEF LeaseUnchanged, PhaseBar, LeakedBar, Held
  <2> QED BY <2>1, StutterIsStep
<1>5. CASE inst' # inst
  <2>1. inst[i] = "running" /\ inst' = [inst EXCEPT ![i] = "exited"]
    BY <1>1, <1>5 DEF Stop, Stopped, TypeOK
  <2> QED BY <1>1, <1>3, <2>1, FinishImplements
<1> QED BY <1>4, <1>5

\* The removal releases what does not serve, and is told only when it did
\* (container.go Close).
LEMMA RemoveImplements ==
  ASSUME TypeOK, IInv, NEW c \in Containers, Remove(c)
  PROVE  [Promise!Next]_(Promise!leaseVars)
<1> USE DEF clientVars, ctxVars, daemonVars, ghostVars
<1> DEFINE i == containerID[c]
<1>1. /\ pc[c] = "remove" /\ op[c] = "Close" /\ op' = op /\ Told(c) = "nothing"
      /\ i \in Instances /\ i # NoID /\ inst[i] # "running" /\ i \notin lost \union superseded
  BY DEF Remove, Told, IInv, Program, Progress, OwnID, ClosePC, TypeOK
<1>2. Reason(c) \in Result \ {"nil"}
  BY DEF Reason, Result
<1>3. UNCHANGED <<containerID, lost, superseded>>
  BY DEF Remove
<1>4. CASE Held(i) /\ inst' = [inst EXCEPT ![i] = "removed"]
  <2>1. PhaseBar' = [PhaseBar EXCEPT ![i] = "released"]
    <3>1. i \in Instances /\ inst' = [inst EXCEPT ![i] = "removed"]
      BY <1>1, <1>4
    <3> HIDE DEF i
    <3> QED BY <3>1, PhaseChanges
  <2>2. LeakedBar' = LeakedBar
    BY <1>1, <1>3, <1>4 DEF LeakedBar, Held, TypeOK
  <2>3. ToldBar' = [ToldBar EXCEPT ![c] = "released"] \/ ToldBar' = ToldBar
    <3>1. CASE Return(c, "nil")
      <4>1. Told(c)' = "released"
        BY <1>1, <3>1 DEF Return, Told, TypeOK
      <4> QED BY <1>1, <3>1, <4>1, ToldChanges DEF Return, TypeOK
    <3>2. CASE Return(c, Reason(c))
      BY <1>1, <1>2, <3>2, ToldStays
    <3> QED BY <3>1, <3>2 DEF Remove
  <2>4. PhaseBar[i] \in {"held", "finished"} /\ ToldBar[c] = "nothing"
    BY <1>1, <1>4, HeldInHand DEF ToldBar, Held
  <2>5. Promise!Release(c)
    BY <1>1, <1>3, <2>1, <2>2, <2>3, <2>4
       DEF Promise!Release, Promise!Busy, Promise!Tell, PhaseBar, ToldBar, LeakedBar
  <2> QED BY <2>5 DEF Promise!Next
<1>5. CASE inst' = inst /\ Return(c, Reason(c))
  <2>1. LeaseUnchanged
    BY <1>1, <1>2, <1>3, <1>5, ToldStays DEF LeaseUnchanged, PhaseBar, LeakedBar, Held
  <2> QED BY <2>1, StutterIsStep
<1> QED BY <1>4, <1>5 DEF Remove

\* What happens around the handle: only the end of a program is noticed.
LEMMA WorldImplements ==
  ASSUME TypeOK, IInv, WorldStep \/ NetworkStep
  PROVE  [Promise!Next]_(Promise!leaseVars)
<1> USE DEF clientVars, ctxVars, daemonVars, ghostVars
<1>1. ASSUME NEW i \in Instances, Exits(i) PROVE [Promise!Next]_(Promise!leaseVars)
  <2>1. ToldBar' = ToldBar
    BY <1>1 DEF Exits, ToldBar, Told
  <2> QED BY <1>1, <2>1, FinishImplements DEF Exits
<1>2. ASSUME NEW c \in Containers, LogSevered(c) PROVE LeaseUnchanged
  <2>1. /\ pc[c] # "idle" /\ op[c] = "AwaitOutput" /\ op' = op
        /\ \E e \in Result : Return(c, e)
    BY <1>2 DEF LogSevered, Matched, Result, IInv, Program, AwaitPC
  <2>2. ToldBar' = ToldBar
    BY <2>1, ToldStays
  <2> QED BY <1>2, <2>2 DEF LogSevered, LeaseUnchanged, PhaseBar, LeakedBar, Held
<1>3. ASSUME UNCHANGED <<containerID, pc, op, err, inst, lost, superseded>> PROVE LeaseUnchanged
  BY <1>3 DEF LeaseUnchanged, PhaseBar, ToldBar, LeakedBar, Held, Told
<1> QED BY <1>1, <1>2, <1>3, StutterIsStep
        DEF WorldStep, DeadlinePasses, Cancel, GracePasses, Emits, Publishes,
            NetworkStep, NetworkCreated, NetworkRemoved

\* Whatever requests fail or lose their answer, and whatever happens between
\* them, the handle behaves as a lease (container.go Run, Close, AwaitOutput).
THEOREM Implements == Spec => ImplementsLease
<1>1. Init => Promise!Init
  BY DEF Init, Promise!Init, PhaseOf, Told
<1>2. TypeOK /\ IInv /\ [Next]_vars => [Promise!Next]_(Promise!leaseVars)
  <2> SUFFICES ASSUME TypeOK, IInv, [Next]_vars PROVE [Promise!Next]_(Promise!leaseVars)
    OBVIOUS
  <2>1. ASSUME NEW c \in Containers, CallStep(c) PROVE [Promise!Next]_(Promise!leaseVars)
    BY <2>1, CallImplements
  <2>2. ASSUME NEW c \in Containers, ApiStep(c) PROVE [Promise!Next]_(Promise!leaseVars)
    <3>1. CASE ListImages(c) \/ PullImage(c) \/ Connect(c) \/ OpenLogs(c) \/ AwaitOutput(c)
      BY <3>1, QuietImplements, StutterIsStep
    <3>2. CASE Create(c) \/ Start(c) \/ Stop(c) \/ Remove(c)
      BY <3>2, CreateImplements, StartImplements, StopImplements, RemoveImplements
    <3> QED BY <2>2, <3>1, <3>2 DEF ApiStep
  <2>3. CASE WorldStep \/ NetworkStep
    BY <2>3, WorldImplements
  <2>4. CASE UNCHANGED vars
    <3>1. LeaseUnchanged
      BY <2>4 DEF vars, clientVars, ctxVars, daemonVars, ghostVars,
         LeaseUnchanged, PhaseBar, ToldBar, LeakedBar, Held, Told
    <3> QED BY <3>1, StutterIsStep
  <2> QED BY <2>1, <2>2, <2>3, <2>4 DEF Next
<1> QED BY <1>1, <1>2, TypeCorrect, Inductive, PTL DEF Spec, ImplementsLease, Promise!Spec
================================================================================
