---------------------------- MODULE StopWindowProofs ----------------------------
(* Proofs about module StopWindow, for every length of a second, of the      *)
(* default timeout and of the daemon's delay, and every clock.               *)
EXTENDS StopWindow, TLAPS

\* The timeout is a time, no longer than what remains, and shorter by the
\* part of a second that remains beyond it (container.go Close).
LEMMA WholeSecondsBounds ==
  ASSUME NEW t \in Nat
  PROVE  /\ t % Second \in 0..Second - 1
         /\ WholeSeconds(t) \in Nat
         /\ WholeSeconds(t) <= t
         /\ t - WholeSeconds(t) = t % Second
         /\ WholeSeconds(t) > t - Second
<1>1. t % Second \in 0..Second - 1
  BY StopWindowAssumption
<1>2. t % Second <= t
  BY StopWindowAssumption
<1> QED BY <1>1, <1>2, StopWindowAssumption DEF WholeSeconds

\* Every variable keeps its type: the timeout Close asks for is never
\* negative, though the clock runs on between its two readings.
THEOREM StopWindowTypes == Spec => []StopWindowTypeOK
<1> USE StopWindowAssumption DEF StopWindowTypeOK, Moment
<1>1. Init => StopWindowTypeOK
  <2> SUFFICES ASSUME Init PROVE StopWindowTypeOK
    OBVIOUS
  <2>1. cancelled \in BOOLEAN
    BY Zenon DEF Init
  <2> QED BY <2>1 DEF Init
<1>2. StopWindowTypeOK /\ [Next]_stopVars => StopWindowTypeOK'
  <2> SUFFICES ASSUME StopWindowTypeOK, [Next]_stopVars PROVE StopWindowTypeOK'
    OBVIOUS
  <2> USE DEF closeVars
  <2>1. CASE CloseCall
    BY <2>1 DEF CloseCall
  <2>2. CASE SetTimeout
    <3>1. remaining' \in Int
      BY <2>2 DEF SetTimeout
    <3>2. Timeout(remaining') \in Nat
      BY <2>2, <3>1 DEF Timeout
    <3>3. grant' \in Nat
      BY <2>2, <3>2, WholeSecondsBounds DEF SetTimeout
    <3> QED BY <2>2, <3>1, <3>3 DEF SetTimeout
  <2>3. CASE Signal
    BY <2>3 DEF Signal
  <2>4. CASE Ends \/ Kill
    BY <2>4 DEF Ends, Kill
  <2>5. CASE StopAnswers \/ Remove \/ Interrupted \/ Refused
    BY <2>5 DEF StopAnswers, Remove, Interrupted, Refused, Fail
  <2>8. CASE Cancel
    BY <2>8 DEF Cancel
  <2>6. CASE Tick
    BY <2>6 DEF Tick
  <2>7. CASE UNCHANGED stopVars
    BY <2>7 DEF stopVars
  <2> QED BY <2>1, <2>2, <2>3, <2>4, <2>5, <2>6, <2>7, <2>8 DEF Next, CloseStep, DaemonStep
<1> QED BY <1>1, <1>2, PTL DEF Spec

\* The truncation and the order of the steps, through every step.
LEMMA StopStepKeeps ==
  ASSUME StopWindowTypeOK, SInv, [Next]_stopVars
  PROVE  (Order /\ Truncated /\ KilledLate /\ Punctual)'
<1> USE StopWindowAssumption DEF StopWindowTypeOK, Moment, SInv, closeVars
<1>1. CASE CloseCall
  <2>1. Order' /\ KilledLate'
    BY <1>1 DEF CloseCall, Order, KilledLate
  <2>2. Truncated'
    BY <1>1 DEF CloseCall, Truncated
  <2>3. Punctual'
    BY <1>1 DEF CloseCall, Order, Punctual
  <2> QED BY <2>1, <2>2, <2>3
<1>2. CASE SetTimeout
  <2>1. Order'
    BY <1>2 DEF SetTimeout, Order
  <2>2. KilledLate'
    BY <1>2 DEF SetTimeout, Order, KilledLate
  <2>3. Truncated'
    BY <1>2 DEF SetTimeout, Order, Truncated, Timeout
  <2>4. Punctual'
    BY <1>2 DEF SetTimeout, Order, Punctual
  <2> QED BY <2>1, <2>2, <2>3, <2>4
<1>3. CASE Signal
  <2>1. Order' /\ KilledLate'
    BY <1>3 DEF Signal, Order, KilledLate
  <2>2. Truncated'
    BY <1>3 DEF Signal, CtxDone, Past, Order, Truncated
  <2>3. Punctual'
    BY <1>3 DEF Signal, Order, Punctual
  <2> QED BY <2>1, <2>2, <2>3
<1>4. CASE Ends \/ Kill
  <2>1. Order' /\ KilledLate'
    BY <1>4 DEF Ends, Kill, Order, KilledLate
  <2>2. Truncated'
    BY <1>4 DEF Ends, Kill, Truncated
  <2>3. Punctual'
    BY <1>4 DEF Ends, Kill, Order, Punctual
  <2> QED BY <2>1, <2>2, <2>3
<1>5. CASE StopAnswers
  <2>1. Order' /\ KilledLate' /\ Truncated'
    BY <1>5 DEF StopAnswers, Order, KilledLate, Truncated
  <2>2. Punctual'
    BY <1>5 DEF StopAnswers, Order, Punctual
  <2> QED BY <2>1, <2>2
<1>6. CASE Remove \/ Interrupted \/ Refused
  <2> USE DEF Interrupted, Refused, Fail
  <2>1. Order' /\ KilledLate' /\ Truncated'
    BY <1>6 DEF Remove, Order, KilledLate, Truncated
  <2>2. Punctual'
    BY <1>6 DEF Remove, Order, Punctual
  <2> QED BY <2>1, <2>2
<1>7. CASE Tick
  <2>1. Order' /\ KilledLate' /\ Truncated'
    BY <1>7 DEF Tick, Order, KilledLate, Truncated
  <2>2. Punctual'
    BY <1>7 DEF Tick, Overdue, Order, Punctual
  <2> QED BY <2>1, <2>2
<1>8. CASE Cancel \/ UNCHANGED stopVars
  BY <1>8 DEF Cancel, stopVars, Order, KilledLate, Truncated, Punctual
<1> QED BY <1>1, <1>2, <1>3, <1>4, <1>5, <1>6, <1>7, <1>8 DEF Next, CloseStep, DaemonStep

\* Close fails only when the part of a second left out is too short.
LEMMA FailKeeps ==
  ASSUME StopWindowTypeOK, SInv, [Next]_stopVars
  PROVE  EnoughTimeRemoves'
<1> USE StopWindowAssumption DEF StopWindowTypeOK, Moment, SInv, closeVars
<1>1. CASE Interrupted
  <2> SUFFICES ASSUME Past(limit), remaining > 0 PROVE remaining % Second <= 4 * Lag
    BY <1>1 DEF Interrupted, Fail, Past, EnoughTimeRemoves
  <2>1. limit # None /\ limit <= now /\ limit \in Nat /\ remaining \in Nat
    BY DEF Past
  <2>2. grant = WholeSeconds(remaining)
    BY <1>1, <2>1 DEF Interrupted, Fail, Truncated
  <2>3. remaining - grant = remaining % Second /\ grant >= 0
    BY <2>1, <2>2, WholeSecondsBounds
  <2>4. now <= (limit - remaining) + grant + 4 * Lag
    <3>1. CASE pc = "request"
      BY <2>1, <2>3, <3>1 DEF Punctual
    <3>2. CASE pc = "stopping"
      <4>1. CASE signalled # None
        BY <2>1, <3>2, <4>1 DEF Punctual
      <4>2. CASE signalled = None
        BY <1>1, <3>2, <4>2 DEF Punctual, Order, Interrupted, Fail
      <4> QED BY <4>1, <4>2
    <3>3. CASE pc = "remove"
      <4>1. signalled # None
        BY <3>3 DEF Order
      <4> QED BY <2>1, <3>3, <4>1 DEF Punctual
    <3> QED BY <1>1, <3>1, <3>2, <3>3 DEF Interrupted, Fail
  <2>5. remaining % Second \in Int
    BY <2>1, WholeSecondsBounds
  <2> QED BY <2>1, <2>3, <2>4, <2>5
<1>2. CASE CloseCall \/ SetTimeout \/ Refused
  BY <1>2 DEF CloseCall, SetTimeout, Refused, Fail, EnoughTimeRemoves
<1>3. CASE Signal \/ Ends \/ Kill \/ StopAnswers \/ Remove \/ Cancel \/ Tick \/ UNCHANGED stopVars
  BY <1>3 DEF Signal, Ends, Kill, StopAnswers, Remove, Cancel, Tick, stopVars, EnoughTimeRemoves
<1> QED BY <1>1, <1>2, <1>3 DEF Next, CloseStep, DaemonStep

\* A killed program would have needed all but the last second.
LEMMA KilledFollows ==
  StopWindowTypeOK /\ Order /\ Truncated /\ KilledLate => KilledOnlyAtTheEnd
<1> USE StopWindowAssumption DEF StopWindowTypeOK, Moment
<1> SUFFICES ASSUME StopWindowTypeOK, Order, Truncated, KilledLate, program = "killed" PROVE
        IF limit = None THEN work > DefaultStop - Second ELSE signalled + work > limit - Second
  BY DEF KilledOnlyAtTheEnd
<1>1. signalled # None /\ pc \notin {"idle", "window"} /\ work > grant
  BY DEF Order, KilledLate
<1>2. CASE limit = None
  BY <1>1, <1>2, WholeSecondsBounds DEF Truncated
<1>3. CASE limit # None
  <2>0. remaining > 0 /\ limit - remaining <= signalled
    BY <1>1, <1>3 DEF Truncated
  <2>1. grant = WholeSeconds(remaining)
    BY <1>1, <1>3, <2>0, Zenon DEF Truncated
  <2>2. remaining \in Nat
    <3>1. remaining \in Int
      OBVIOUS
    <3> QED BY <2>0, <3>1
  <2>3. grant > remaining - Second
    <3>1. WholeSeconds(remaining) > remaining - Second
      BY <2>2, WholeSecondsBounds
    <3> QED BY <2>1, <3>1
  <2> QED BY <1>1, <1>3, <2>0, <2>3
<1> QED BY <1>2, <1>3

\* Between two steps of Close the clock is where the timeout left it room
\* to be (container.go Close).
THEOREM StopWindowInductive == Spec => []SInv
<1>1. Init => SInv
  BY StopWindowAssumption
     DEF Init, SInv, Order, Truncated, KilledLate, Punctual, EnoughTimeRemoves, KilledOnlyAtTheEnd
<1>2. StopWindowTypeOK /\ StopWindowTypeOK' /\ SInv /\ [Next]_stopVars => SInv'
  <2> SUFFICES ASSUME StopWindowTypeOK, StopWindowTypeOK', SInv, [Next]_stopVars PROVE SInv'
    OBVIOUS
  <2>1. (Order /\ Truncated /\ KilledLate /\ Punctual)'
    BY StopStepKeeps
  <2>2. EnoughTimeRemoves'
    BY FailKeeps
  <2>3. KilledOnlyAtTheEnd'
    BY <2>1, KilledFollows, PTL
  <2> QED BY <2>1, <2>2, <2>3 DEF SInv
<1> QED BY <1>1, <1>2, StopWindowTypes, PTL DEF Spec

\* A Close that is neither cancelled nor refused by the daemon removes also a
\* program that never ends, if it has no deadline, or if the part of a second
\* its timeout leaves out is enough for the four steps around the shutdown
\* (container.go Close).
THEOREM EnoughTimeIsEnough == Spec => []EnoughTimeRemoves
<1>1. SInv => EnoughTimeRemoves
  BY DEF SInv
<1> QED BY <1>1, StopWindowInductive, PTL

\* A program that is killed had all the time but the last second, however
\* short the deadline was (container.go Close).
THEOREM KilledIsLate == Spec => []KilledOnlyAtTheEnd
<1>1. SInv => KilledOnlyAtTheEnd
  BY DEF SInv
<1> QED BY <1>1, StopWindowInductive, PTL
================================================================================
