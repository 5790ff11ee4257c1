----------------------------- MODULE ServicesProofs -----------------------------
(* Proofs about modules Ports and Services, for every value of their        *)
(* constants.                                                              *)
EXTENDS Services, FiniteSetTheorems, SequenceTheorems, TLAPS

--------------------------------------------------------------------------------
(* The port bindings. *)

\* The tables keep their types (ports.go).
LEMMA PortsTyped ==
  /\ Init => PortsTypeOK
  /\ PortsTypeOK /\ [Next]_vars => PortsTypeOK'
<1> USE PortsAssumption DEF PortsTypeOK
<1>1. Init => PortsTypeOK
  BY DEF Init
<1>2. PortsTypeOK /\ [Next]_vars => PortsTypeOK'
  <2> SUFFICES ASSUME PortsTypeOK, [Next]_vars PROVE PortsTypeOK'
    OBVIOUS
  <2>1. ASSUME NEW p \in CPorts, PortDNAT(p) PROVE PortsTypeOK'
    <3>1. calls' \in Seq(CPorts) /\ UNCHANGED <<tcpPortAllocator, owner>>
      BY <2>1 DEF PortDNAT
    <3>2. CASE UNCHANGED <<portBindings, portAliases>> /\ state' = "panicked"
      BY <3>1, <3>2
    <3>3. ASSUME NEW h \in HostPorts, NEW k \in HostPorts \union CPorts, state' = state,
                 portBindings' = [portBindings EXCEPT ![k] = Append(@, h)],
                 portAliases' = [portAliases EXCEPT ![p] = k]
          PROVE  PortsTypeOK'
      <4>1. Append(portBindings[k], h) \in Seq(HostPorts)
        OBVIOUS
      <4>2. portBindings' \in [HostPorts \union CPorts -> Seq(HostPorts)]
        BY <3>3, <4>1
      <4> QED BY <3>1, <3>3, <4>2
    <3>4. \A h \in HostPorts : KeyOf(p, h) \in HostPorts \union CPorts
      BY DEF KeyOf
    <3> QED BY <2>1, <3>2, <3>3, <3>4 DEF PortDNAT
  <2>2. ASSUME NEW p \in CPorts, PortDNATUDP(p) PROVE PortsTypeOK'
    BY <2>2 DEF PortDNATUDP
  <2>3. CASE StartPorts \/ StopPorts
    BY <2>3 DEF StartPorts, StopPorts
  <2>4. ASSUME NEW h \in HostPorts, OtherTakes(h) \/ OtherLeaves(h) PROVE PortsTypeOK'
    BY <2>4 DEF OtherTakes, OtherLeaves
  <2>5. CASE UNCHANGED vars
    BY <2>5 DEF vars
  <2> QED BY <2>1, <2>2, <2>3, <2>4, <2>5 DEF Next
<1> QED BY <1>1, <1>2

\* Where q comes in the sequence s.
Places(s, q) == {j \in DOMAIN s : s[j] = q}

\* A number comes once in a sequence when it comes at one place and no other.
LEMMA OnceIsOne ==
  ASSUME NEW T, NEW s \in Seq(T), NEW q
  PROVE  Cardinality(Places(s, q)) = 1
             <=> \E j \in 1..Len(s) : \A i \in 1..Len(s) : s[i] = q <=> i = j
<1>1. DOMAIN s = 1..Len(s) /\ Len(s) \in Nat
  BY LenProperties
<1>2. IsFiniteSet(Places(s, q))
  <2>1. IsFiniteSet(1..Len(s))
    BY <1>1, FS_Interval
  <2>2. Places(s, q) \in SUBSET (1..Len(s))
    BY <1>1 DEF Places
  <2> QED BY <2>1, <2>2, FS_Subset
<1>3. Cardinality(Places(s, q)) = 1 <=> \E x : Places(s, q) = {x}
  BY <1>2, FS_Singleton
<1>4. ASSUME NEW x, Places(s, q) = {x}
      PROVE  x \in 1..Len(s) /\ \A i \in 1..Len(s) : s[i] = q <=> i = x
  <2>1. \A i : i \in Places(s, q) <=> i = x
    BY <1>4
  <2> QED BY <1>1, <2>1 DEF Places
<1>5. ASSUME NEW j \in 1..Len(s), \A i \in 1..Len(s) : s[i] = q <=> i = j
      PROVE  Places(s, q) = {j}
  <2>1. \A i : i \in Places(s, q) <=> i \in 1..Len(s) /\ s[i] = q
    BY <1>1 DEF Places
  <2>2. \A i : i \in Places(s, q) <=> i = j
    BY <1>5, <2>1
  <2> QED BY <2>2
<1> QED BY <1>3, <1>4, <1>5

\* What one more element makes of it.
LEMMA OnceAppended ==
  ASSUME NEW T, NEW s \in Seq(T), NEW p \in T, NEW q,
         Cardinality(Places(Append(s, p), q)) = 1
  PROVE  IF q = p THEN Places(s, q) = {} ELSE Cardinality(Places(s, q)) = 1
<1> DEFINE t == Append(s, p)
           n == Len(s)
<1>1. /\ n \in Nat /\ DOMAIN s = 1..n /\ Len(t) = n + 1 /\ t \in Seq(T)
      /\ \A i \in 1..n : t[i] = s[i]
      /\ t[n + 1] = p
  BY LenProperties, AppendProperties
<1>2. Cardinality(Places(t, q)) = 1
  OBVIOUS
<1> HIDE DEF t
<1>3. PICK j \in 1..Len(t) : \A i \in 1..Len(t) : t[i] = q <=> i = j
  <2>1. t \in Seq(T)
    BY <1>1
  <2>2. Cardinality(Places(t, q)) = 1
             <=> \E j \in 1..Len(t) : \A i \in 1..Len(t) : t[i] = q <=> i = j
    BY <2>1, OnceIsOne
  <2> QED BY <1>2, <2>2, Zenon
<1>4. CASE q = p
  <2>1. j = n + 1
    BY <1>1, <1>3, <1>4
  <2>2. \A i \in 1..n : s[i] # q
    BY <1>1, <1>3, <2>1
  <2> QED BY <1>1, <1>4, <2>2 DEF Places
<1>5. CASE q # p
  <2>1. j \in 1..n
    BY <1>1, <1>3, <1>5
  <2>2. \A i \in 1..n : s[i] = q <=> i = j
    BY <1>1, <1>3
  <2>3. Cardinality(Places(s, q)) = 1
    BY <2>1, <2>2, OnceIsOne
  <2> QED BY <1>5, <2>3
<1> QED BY <1>4, <1>5

\* What one more call makes of the ports that were asked for (ports.go
\* PortDNAT).
LEMMA AskedAgain ==
  ASSUME PortsTypeOK, NEW p \in CPorts, calls' = Append(calls, p), NEW q \in CPorts
  PROVE  /\ Asked(q)' <=> (Asked(q) \/ q = p)
         /\ AskedOnce(q)' => IF q = p THEN ~Asked(q) ELSE AskedOnce(q)
<1>1. calls \in Seq(CPorts) /\ calls' \in Seq(CPorts)
  BY AppendProperties DEF PortsTypeOK
<1> DEFINE n == Len(calls)
<1>2. /\ n \in Nat /\ DOMAIN calls = 1..n /\ DOMAIN calls' = 1..(n + 1)
      /\ \A j \in 1..n : calls'[j] = calls[j]
      /\ calls'[n + 1] = p
  BY <1>1, LenProperties, AppendProperties
<1> HIDE DEF n
<1>3. Asked(q)' <=> (Asked(q) \/ q = p)
  <2>1. ASSUME NEW j \in 1..n PROVE j \in 1..(n + 1)
    BY <1>2
  <2>2. n + 1 \in 1..(n + 1) /\ \A j \in 1..(n + 1) : j \in 1..n \/ j = n + 1
    BY <1>2
  <2> QED BY <1>2, <2>1, <2>2 DEF Asked
<1>4. ASSUME AskedOnce(q)' PROVE IF q = p THEN ~Asked(q) ELSE AskedOnce(q)
  <2>1. Cardinality(Places(Append(calls, p), q)) = 1
    BY <1>4 DEF AskedOnce, Places
  <2>2. IF q = p THEN Places(calls, q) = {} ELSE Cardinality(Places(calls, q)) = 1
    BY <1>1, <2>1, OnceAppended
  <2> QED BY <2>2 DEF AskedOnce, Asked, Places
<1> QED BY <1>3, <1>4

\* A binding is of a host port.
LEMMA BindingTyped ==
  ASSUME PortsTypeOK, NEW b \in Bindings
  PROVE  /\ b[1] \in HostPorts \union CPorts /\ b[2] \in DOMAIN portBindings[b[1]]
         /\ HostPort(b) \in HostPorts
<1>1. b[1] \in HostPorts \union CPorts /\ b[2] \in DOMAIN portBindings[b[1]]
  BY DEF Bindings, Keys
<1>2. portBindings[b[1]] \in Seq(HostPorts)
  BY <1>1 DEF PortsTypeOK
<1>3. \A j \in DOMAIN portBindings[b[1]] : portBindings[b[1]][j] \in HostPorts
  BY <1>2, LenProperties, ElementOfSeq
<1> QED BY <1>1, <1>3 DEF HostPort

\* A step that leaves the tables alone keeps what they say of the calls.
LEMMA TablesKept ==
  ASSUME PortsInv, UNCHANGED <<tcpPortAllocator, portBindings, portAliases, calls>>,
         state' = "panicked" \/ state # "panicked"
  PROVE  Counted' /\ (IF Direct THEN KeyedByHost ELSE KeyedByPort)'
<1>1. Counted'
  BY DEF PortsInv, Counted
<1>2. Direct' <=> Direct
  BY DEF Direct
<1>3. \A p : (Asked(p)' <=> Asked(p)) /\ (AskedOnce(p)' <=> AskedOnce(p))
  BY DEF Asked, AskedOnce
<1>4. ASSUME Direct PROVE KeyedByHost'
  BY <1>3, <1>4 DEF PortsInv, KeyedByHost
<1>5. ASSUME ~Direct PROVE KeyedByPort'
  BY <1>3, <1>5 DEF PortsInv, KeyedByPort
<1> QED BY <1>1, <1>2, <1>4, <1>5

\* A call that panics leaves them alone too, and is counted.
LEMMA PanicKept ==
  ASSUME PortsTypeOK, PortsInv, NEW p \in CPorts, Len(calls) < MaxCalls,
         calls' = Append(calls, p), state' = "panicked",
         UNCHANGED <<tcpPortAllocator, portBindings, portAliases>>
  PROVE  PortsInv'
<1>1. Len(calls) \in Nat /\ Len(calls') = Len(calls) + 1
  BY AppendProperties, LenProperties DEF PortsTypeOK
<1>2. \A k \in HostPorts \union CPorts : Len(portBindings[k]) \in Nat
  BY LenProperties DEF PortsTypeOK
<1>3. Counted'
  BY <1>1, <1>2, PortsAssumption DEF PortsInv, Counted
<1>4. ASSUME Direct PROVE KeyedByHost'
  BY <1>4 DEF PortsInv, KeyedByHost
<1>5. ASSUME ~Direct PROVE KeyedByPort'
  BY <1>5 DEF PortsInv, KeyedByPort
<1>6. BoundOnce'
  BY DEF BoundOnce
<1> QED BY <1>3, <1>4, <1>5, <1>6 DEF PortsInv, Direct

\* A call that gets the host port h.
LEMMA CallKept ==
  ASSUME PortsTypeOK, PortsInv, NEW p \in CPorts, NEW h \in HostPorts,
         state = "building", Len(calls) < MaxCalls, calls' = Append(calls, p),
         portBindings' = [portBindings EXCEPT ![KeyOf(p, h)] = Append(@, h)],
         portAliases' = [portAliases EXCEPT ![p] = KeyOf(p, h)],
         UNCHANGED <<tcpPortAllocator, owner, state>>
  PROVE  PortsInv'
<1> DEFINE key == KeyOf(p, h)
<1>1. Len(calls) \in Nat /\ Len(calls') = Len(calls) + 1
  BY AppendProperties, LenProperties DEF PortsTypeOK
<1>2. key \in HostPorts \union CPorts
  BY DEF KeyOf
<1>3. \A k \in HostPorts \union CPorts :
         /\ portBindings[k] \in Seq(HostPorts) /\ Len(portBindings[k]) \in Nat
         /\ k # key => portBindings'[k] = portBindings[k]
  BY LenProperties DEF PortsTypeOK
<1>4. /\ portBindings'[key] = Append(portBindings[key], h)
      /\ Len(portBindings'[key]) = Len(portBindings[key]) + 1
      /\ portBindings'[key] # <<>>
      /\ \A j \in DOMAIN portBindings'[key] :
            portBindings'[key][j] = h
              \/ (j \in DOMAIN portBindings[key]
                    /\ portBindings'[key][j] = portBindings[key][j])
  <2>1. portBindings'[key] = Append(portBindings[key], h)
    BY <1>2 DEF PortsTypeOK
  <2> HIDE DEF key
  <2>2. portBindings[key] \in Seq(HostPorts)
    BY <1>2, <1>3
  <2> QED BY <2>1, <2>2, AppendProperties, LenProperties
<1> HIDE DEF key
<1>5. portAliases'[p] = key /\ \A q \in CPorts : q # p => portAliases'[q] = portAliases[q]
  BY DEF PortsTypeOK, key
<1>6. \A q \in CPorts :
         /\ Asked(q)' <=> (Asked(q) \/ q = p)
         /\ AskedOnce(q)' => IF q = p THEN ~Asked(q) ELSE AskedOnce(q)
  BY AskedAgain
<1>7. Counted'
  BY <1>1, <1>2, <1>3, <1>4, PortsAssumption DEF PortsInv, Counted
<1>8. BoundOnce'
  BY DEF BoundOnce
<1>9. ASSUME ~Direct PROVE KeyedByPort'
  <2>1. key = p
    BY <1>9 DEF key, KeyOf
  <2>2. KeyedByPort
    BY <1>9 DEF PortsInv
  <2> SUFFICES ASSUME NEW q \in CPorts
               PROVE  /\ portAliases'[q] = q
                      /\ portBindings'[q] # <<>> <=> Asked(q)'
                      /\ AskedOnce(q)' => Len(portBindings'[q]) = 1
    BY DEF KeyedByPort
  <2>3. CASE q = p
    <3>1. ~Asked(p) => Len(portBindings[p]) = 0
      BY <2>2 DEF KeyedByPort
    <3> QED BY <1>4, <1>5, <1>6, <2>1, <2>3, <3>1
  <2>4. CASE q # p
    <3>1. portBindings'[q] = portBindings[q]
      BY <1>3, <2>1, <2>4
    <3>2. portAliases'[q] = q
      BY <1>5, <2>2, <2>4 DEF KeyedByPort
    <3>3. (Asked(q)' <=> Asked(q)) /\ (AskedOnce(q)' => AskedOnce(q))
      BY <1>6, <2>4
    <3> QED BY <2>2, <3>1, <3>2, <3>3 DEF KeyedByPort
  <2> QED BY <2>3, <2>4
<1>10. ASSUME Direct PROVE KeyedByHost'
  <2>1. key = h
    BY <1>10 DEF key, KeyOf
  <2>2. KeyedByHost
    BY <1>10 DEF PortsInv
  <2>3. ASSUME NEW g \in HostPorts, NEW j \in DOMAIN portBindings'[g]
        PROVE  portBindings'[g][j] = g
    BY <1>3, <1>4, <2>1, <2>2, <2>3 DEF KeyedByHost
  <2>4. \A g \in HostPorts : Len(portBindings'[g]) \in Nat
                               /\ Len(portBindings'[g]) >= Len(portBindings[g])
    BY <1>3, <1>4, <2>1
  <2>5. ASSUME NEW q \in CPorts
        PROVE  /\ portBindings'[q] = <<>>
               /\ portAliases'[q] \in HostPorts \union {q}
               /\ Asked(q)' => portAliases'[q] \in HostPorts
               /\ portAliases'[q] \in HostPorts => Len(portBindings'[portAliases'[q]]) >= 1
    <3>1. portBindings'[q] = <<>>
      BY <1>3, <2>1, <2>2, PortsAssumption DEF KeyedByHost
    <3>2. CASE q = p
      BY <1>3, <1>4, <1>5, <2>1, <3>1, <3>2
    <3>3. CASE q # p
      <4>1. /\ portAliases'[q] = portAliases[q]
            /\ portAliases[q] \in HostPorts \union {q}
            /\ Asked(q) => portAliases[q] \in HostPorts
            /\ portAliases[q] \in HostPorts => Len(portBindings[portAliases[q]]) >= 1
        BY <1>5, <2>2, <3>3 DEF KeyedByHost
      <4>2. Asked(q)' <=> Asked(q)
        BY <1>6, <3>3
      <4>3. portAliases[q] \in HostPorts => Len(portBindings'[portAliases[q]]) >= 1
        BY <1>3, <2>4, <4>1
      <4> QED BY <3>1, <4>1, <4>2, <4>3
    <3> QED BY <3>2, <3>3
  <2>6. ASSUME NEW q \in CPorts, NEW r \in CPorts, q # r,
               portAliases'[q] \in HostPorts, portAliases'[q] = portAliases'[r]
        PROVE  Len(portBindings'[portAliases'[q]]) >= 2
    <3>1. CASE q # p /\ r # p
      <4>1. Len(portBindings[portAliases'[q]]) >= 2
        BY <1>5, <2>2, <2>6, <3>1 DEF KeyedByHost
      <4> QED BY <1>3, <2>4, <2>6, <4>1
    <3>2. CASE q = p \/ r = p
      <4>1. portAliases'[q] = h
        BY <1>5, <2>1, <2>6, <3>2
      <4>2. \E s \in CPorts : portAliases[s] = h
        BY <1>5, <2>6, <3>2, <4>1
      <4>3. Len(portBindings[h]) >= 1
        BY <2>2, <4>2 DEF KeyedByHost
      <4> QED BY <1>3, <1>4, <2>1, <4>1, <4>3
    <3> QED BY <3>1, <3>2
  <2> QED BY <2>3, <2>5, <2>6 DEF KeyedByHost
<1> QED BY <1>7, <1>8, <1>9, <1>10 DEF PortsInv, Direct

\* The start binds every binding to a port of its own, or is refused.
LEMMA StartKept ==
  ASSUME PortsTypeOK, PortsInv, StartPorts
  PROVE  PortsInv'
<1>1. UNCHANGED <<tcpPortAllocator, portBindings, portAliases, calls>> /\ state = "building"
  BY DEF StartPorts
<1>2. Counted' /\ (IF Direct THEN KeyedByHost ELSE KeyedByPort)'
  BY <1>1, TablesKept
<1>3. Bindings' = Bindings /\ \A b : HostPort(b)' = HostPort(b)
  BY <1>1 DEF Bindings, HostPort, Keys, Direct
<1>4. ASSUME state' = "started"
      PROVE  /\ \A b \in Bindings : owner'[HostPort(b)] = "docker"
             /\ \A a, b \in Bindings : HostPort(a) = HostPort(b) => a = b
  <2>1. /\ \A a, b \in Bindings : HostPort(a) = HostPort(b) => a = b
        /\ owner' = [h \in HostPorts |->
                       IF \E b \in Bindings : HostPort(b) = h THEN "docker" ELSE owner[h]]
    BY <1>4 DEF StartPorts
  <2>2. ASSUME NEW b \in Bindings PROVE owner'[HostPort(b)] = "docker"
    BY <2>1, BindingTyped
  <2> QED BY <2>1, <2>2
<1>5. BoundOnce'
  BY <1>3, <1>4 DEF BoundOnce
<1> QED BY <1>2, <1>5 DEF PortsInv

\* What others do to the host's ports leaves the container its own.
LEMMA OthersKept ==
  ASSUME PortsTypeOK, PortsInv, NEW h \in HostPorts, OtherTakes(h) \/ OtherLeaves(h)
  PROVE  PortsInv'
<1>1. /\ UNCHANGED <<tcpPortAllocator, portBindings, portAliases, calls, state>>
      /\ owner[h] # "docker" /\ \A g \in HostPorts : g # h => owner'[g] = owner[g]
  BY DEF OtherTakes, OtherLeaves, Free, PortsTypeOK
<1>2. Counted' /\ (IF Direct THEN KeyedByHost ELSE KeyedByPort)'
  BY <1>1, TablesKept
<1>3. Bindings' = Bindings /\ \A b : HostPort(b)' = HostPort(b)
  BY <1>1 DEF Bindings, HostPort, Keys, Direct
<1>4. ASSUME state = "started", NEW b \in Bindings PROVE owner'[HostPort(b)] = "docker"
  <2>1. HostPort(b) \in HostPorts
    BY BindingTyped
  <2>2. owner[HostPort(b)] = "docker"
    BY <1>4 DEF PortsInv, BoundOnce
  <2> QED BY <1>1, <2>1, <2>2
<1>5. BoundOnce'
  BY <1>1, <1>3, <1>4 DEF PortsInv, BoundOnce
<1> QED BY <1>2, <1>5 DEF PortsInv

\* Every step keeps the invariant, from every state of the right types.
LEMMA PortsKept ==
  ASSUME PortsTypeOK, PortsInv, [Next]_vars
  PROVE  PortsInv'
<1>1. ASSUME NEW p \in CPorts, PortDNAT(p) PROVE PortsInv'
  <2>1. CASE state' = "panicked" /\ UNCHANGED <<portBindings, portAliases>>
    BY <1>1, <2>1, PanicKept DEF PortDNAT
  <2>2. ASSUME NEW h \in HostPorts,
               portBindings' = [portBindings EXCEPT ![KeyOf(p, h)] = Append(@, h)],
               portAliases' = [portAliases EXCEPT ![p] = KeyOf(p, h)],
               UNCHANGED state
        PROVE  PortsInv'
    BY <1>1, <2>2, CallKept DEF PortDNAT
  <2> QED BY <1>1, <2>1, <2>2 DEF PortDNAT
<1>2. ASSUME NEW p \in CPorts, PortDNATUDP(p) PROVE PortsInv'
  BY <1>2, PanicKept DEF PortDNATUDP
<1>3. CASE StartPorts
  BY <1>3, StartKept
<1>4. CASE StopPorts
  <2>1. /\ UNCHANGED <<tcpPortAllocator, portBindings, portAliases, calls>>
        /\ state = "started" /\ state' = "stopped"
    BY <1>4 DEF StopPorts
  <2>2. Counted' /\ (IF Direct THEN KeyedByHost ELSE KeyedByPort)'
    BY <2>1, TablesKept
  <2>3. BoundOnce'
    BY <2>1 DEF BoundOnce
  <2> QED BY <2>2, <2>3 DEF PortsInv
<1>5. ASSUME NEW h \in HostPorts, OtherTakes(h) \/ OtherLeaves(h) PROVE PortsInv'
  BY <1>5, OthersKept
<1>6. CASE UNCHANGED vars
  <2>1. UNCHANGED <<tcpPortAllocator, portBindings, portAliases, calls, state, owner>>
    BY <1>6 DEF vars
  <2>2. Counted' /\ (IF Direct THEN KeyedByHost ELSE KeyedByPort)'
    BY <2>1, TablesKept
  <2>3. BoundOnce'
    BY <2>1 DEF PortsInv, BoundOnce, Bindings, HostPort, Keys, Direct
  <2> QED BY <2>2, <2>3 DEF PortsInv
<1> QED BY <1>1, <1>2, <1>3, <1>4, <1>5, <1>6 DEF Next

\* It holds before the first call.
LEMMA PortsBegin ==
  ASSUME Init PROVE PortsInv
<1>1. calls = <<>> /\ state = "building" /\ Len(calls) = 0 /\ DOMAIN calls = {}
  BY DEF Init
<1>2. \A k \in HostPorts \union CPorts :
         portBindings[k] = <<>> /\ Len(portBindings[k]) = 0 /\ DOMAIN portBindings[k] = {}
  BY DEF Init
<1>3. \A p \in CPorts : portAliases[p] = p
  BY DEF Init
<1>4. \A p : ~Asked(p) /\ ~AskedOnce(p)
  <2>1. \A p : {j \in DOMAIN calls : calls[j] = p} = {}
    BY <1>1
  <2> QED BY <1>1, <2>1, FS_EmptySet DEF Asked, AskedOnce
<1>5. Counted
  BY <1>1, <1>2, PortsAssumption DEF Counted
<1>6. KeyedByPort
  BY <1>2, <1>3, <1>4 DEF KeyedByPort
<1>7. KeyedByHost
  BY <1>2, <1>3, <1>4, PortsAssumption DEF KeyedByHost
<1>8. BoundOnce
  BY <1>1 DEF BoundOnce
<1> QED BY <1>5, <1>6, <1>7, <1>8 DEF PortsInv

\* Every place of the table is a binding.
LEMMA IsBinding ==
  ASSUME PortsTypeOK, PortsInv, NEW k \in Keys, NEW j \in DOMAIN portBindings[k]
  PROVE  <<k, j>> \in Bindings
<1>1. k \in HostPorts \union CPorts
  BY DEF Keys
<1>2. DOMAIN portBindings[k] = 1..Len(portBindings[k]) /\ Len(portBindings[k]) \in Nat
  BY <1>1, LenProperties DEF PortsTypeOK
<1>3. Len(portBindings[k]) <= Len(calls) /\ Len(calls) <= MaxCalls /\ Len(calls) \in Nat
  BY <1>1, LenProperties DEF PortsInv, Counted, PortsTypeOK
<1>4. j \in 1..MaxCalls
  BY <1>2, <1>3, PortsAssumption
<1> QED BY <1>4 DEF Bindings

LEMMA AskedOnceIsAsked ==
  ASSUME NEW p \in CPorts, AskedOnce(p) PROVE Asked(p)
<1>1. {j \in DOMAIN calls : calls[j] = p} # {}
  BY FS_EmptySet DEF AskedOnce
<1> QED BY <1>1 DEF Asked

\* RandomPort: the one binding of the port is the one the daemon made.
LEMMA ReachableByPort ==
  ASSUME PortsTypeOK, PortsInv, ~Direct, state = "started",
         NEW p \in CPorts, AskedOnce(p)
  PROVE  \E h \in HostPorts :
            /\ URL(p) = {h} /\ owner[h] = "docker"
            /\ ForwardedTo(h) = ListensOn(p)
            /\ \A q \in CPorts : URL(q) = {h} => q = p
<1> DEFINE h == portBindings[p][1]
<1>1. KeyedByPort /\ BoundOnce
  BY DEF PortsInv
<1>2. \A q \in CPorts : Lookup(q) = portBindings[q] /\ q \in Keys
  BY <1>1 DEF KeyedByPort, Lookup, Keys
<1>3. Len(portBindings[p]) = 1
  BY <1>1 DEF KeyedByPort
<1>4. ASSUME NEW q \in CPorts, Len(portBindings[q]) = 1
      PROVE  <<q, 1>> \in Bindings /\ HostPort(<<q, 1>>) = portBindings[q][1]
  <2>1. 1 \in DOMAIN portBindings[q]
    BY <1>4, LenProperties DEF PortsTypeOK
  <2> QED BY <1>2, <2>1, IsBinding DEF HostPort
<1>5. <<p, 1>> \in Bindings /\ HostPort(<<p, 1>>) = h
  BY <1>3, <1>4
<1> HIDE DEF h
<1>6. h \in HostPorts
  BY <1>5, BindingTyped
<1>7. URL(p) = {h}
  BY <1>2, <1>3 DEF URL, h
<1>8. owner[h] = "docker"
  BY <1>1, <1>5 DEF BoundOnce
<1>9. ForwardedTo(h) = ListensOn(p)
  <2>1. \A b \in Bindings : HostPort(b) = h => b = <<p, 1>>
    BY <1>1, <1>5 DEF BoundOnce
  <2>2. {b \in Bindings : HostPort(b) = h} = {<<p, 1>>}
    BY <1>5, <2>1
  <2>3. ForwardedTo(h) = {b[1] : b \in {<<p, 1>>}}
    BY <2>2 DEF ForwardedTo
  <2>4. \A x : x \in ForwardedTo(h) <=> x = p
    BY <2>3
  <2> QED BY <2>4 DEF ListensOn
<1>10. ASSUME NEW q \in CPorts, URL(q) = {h} PROVE q = p
  <2>1. Len(portBindings[q]) = 1 /\ portBindings[q][1] = h
    BY <1>2, <1>10 DEF URL
  <2>2. <<q, 1>> = <<p, 1>>
    BY <1>1, <1>4, <1>5, <2>1 DEF BoundOnce
  <2> QED BY <2>2
<1> QED BY <1>6, <1>7, <1>8, <1>9, <1>10

\* OneToOneRandomPort: a host port that was given out twice would be bound
\* twice, which the daemon has refused; so the alias is the only one to it.
LEMMA ReachableByHost ==
  ASSUME PortsTypeOK, PortsInv, Direct, state = "started",
         NEW p \in CPorts, AskedOnce(p)
  PROVE  \E h \in HostPorts :
            /\ URL(p) = {h} /\ owner[h] = "docker"
            /\ ForwardedTo(h) = ListensOn(p)
            /\ \A q \in CPorts : URL(q) = {h} => q = p
<1> DEFINE h == portAliases[p]
<1>1. KeyedByHost /\ BoundOnce
  BY DEF PortsInv
<1>2. h \in HostPorts /\ Len(portBindings[h]) >= 1
  BY <1>1, AskedOnceIsAsked DEF KeyedByHost
<1> HIDE DEF h
<1>3. h \in Keys /\ portBindings[h] \in Seq(HostPorts)
      /\ DOMAIN portBindings[h] = 1..Len(portBindings[h]) /\ Len(portBindings[h]) \in Nat
  BY <1>2, LenProperties DEF Keys, PortsTypeOK
<1>4. \A j \in DOMAIN portBindings[h] : <<h, j>> \in Bindings /\ HostPort(<<h, j>>) = h
  BY <1>1, <1>2, <1>3, IsBinding DEF HostPort, KeyedByHost
<1>5. Len(portBindings[h]) = 1
  <2>1. ASSUME Len(portBindings[h]) # 1 PROVE FALSE
    <3>1. \A n \in Nat : (n >= 1 /\ n # 1) => (1 \in 1..n /\ 2 \in 1..n)
      OBVIOUS
    <3>2. 1 \in DOMAIN portBindings[h] /\ 2 \in DOMAIN portBindings[h]
      BY <1>2, <1>3, <2>1, <3>1
    <3>3. <<h, 1>> = <<h, 2>>
      BY <1>1, <1>4, <3>2 DEF BoundOnce
    <3> QED BY <3>3
  <2> QED BY <2>1
<1>6. <<h, 1>> \in Bindings /\ HostPort(<<h, 1>>) = h /\ portBindings[h][1] = h
  BY <1>3, <1>4, <1>5 DEF HostPort
<1>7. URL(p) = {h} /\ ListensOn(p) = {h}
  BY <1>5, <1>6 DEF URL, ListensOn, GetExternalPortMapping, Lookup, h
<1>8. owner[h] = "docker"
  BY <1>1, <1>6 DEF BoundOnce
<1>9. ForwardedTo(h) = {h}
  <2>1. \A b \in Bindings : HostPort(b) = h => b = <<h, 1>>
    BY <1>1, <1>6 DEF BoundOnce
  <2>2. {b \in Bindings : HostPort(b) = h} = {<<h, 1>>}
    BY <1>6, <2>1
  <2>3. ForwardedTo(h) = {b[1] : b \in {<<h, 1>>}}
    BY <2>2 DEF ForwardedTo
  <2>4. \A x : x \in ForwardedTo(h) <=> x = h
    BY <2>3
  <2> QED BY <2>4
<1>10. ASSUME NEW q \in CPorts, URL(q) = {h}, q # p PROVE FALSE
  <2>1. Len(Lookup(q)) = 1 /\ Lookup(q)[1] = h
    BY <1>10 DEF URL
  <2>2. portAliases[q] \in HostPorts
    <3>1. portAliases[q] # q
      BY <1>1, <2>1 DEF KeyedByHost, Lookup
    <3> QED BY <1>1, <3>1 DEF KeyedByHost
  <2>3. 1 \in DOMAIN portBindings[portAliases[q]]
    BY <2>1, <2>2, LenProperties DEF PortsTypeOK, Lookup
  <2>4. portAliases[q] = h
    BY <1>1, <2>1, <2>2, <2>3 DEF KeyedByHost, Lookup
  <2>5. Len(portBindings[h]) >= 2
    BY <1>1, <1>2, <1>10, <2>4 DEF KeyedByHost, h
  <2> QED BY <1>5, <2>5
<1> QED BY <1>2, <1>7, <1>8, <1>9, <1>10

LEMMA InvariantReaches ==
  ASSUME PortsTypeOK, PortsInv PROVE StartedPortsReachable
BY ReachableByPort, ReachableByHost DEF StartedPortsReachable

\* The tables keep their types (ports.go).
THEOREM PortsTypeCorrect == Spec => []PortsTypeOK
<1> QED BY PortsTyped, PTL DEF Spec

\* The tables say of the calls what PortsInv says, whatever others do to the
\* ports meanwhile (ports.go PortDNAT, NewHostConfig).
THEOREM PortsInductive == Spec => []PortsInv
<1>1. Init => PortsInv
  BY PortsBegin
<1>2. PortsTypeOK /\ PortsInv /\ [Next]_vars => PortsInv'
  BY PortsKept
<1> QED BY <1>1, <1>2, PortsTypeCorrect, PTL DEF Spec

\* In a started container every port that was asked for once has an address of
\* its own, which leads to the number the service listens on (ports.go
\* PortDNAT, container.go URL).
THEOREM PortsReachable == Spec => []StartedPortsReachable
<1>1. PortsTypeOK /\ PortsInv => StartedPortsReachable
  BY InvariantReaches
<1> QED BY <1>1, PortsTypeCorrect, PortsInductive, PTL

--------------------------------------------------------------------------------
(* The helpers. *)

\* The application stays what it is, and no helper touches the ports.
LEMMA HelpersFrame ==
  ASSUME [ServicesNext]_servicesVars
  PROVE  /\ app' = app /\ Requests' = Requests /\ Records' = Records /\ Target' = Target
         /\ [Next]_vars
         /\ \/ UNCHANGED helperVars
            \/ /\ UNCHANGED vars
               /\ \/ \E k \in Callers, r \in Requests, x \in {"none", "ahead", "past"} :
                        HelperCall(k, r, x)
                  \/ \E k \in Callers : Connect(k) \/ Token(k) \/ Request(k) \/ DeadlinePasses(k)
                  \/ CloseSession \/ Hangs
<1>1. app' = app
  BY DEF ServicesNext, servicesVars, helperVars, HelperStep, HelperCall, Connect, Token,
         Request, DeadlinePasses, CloseSession, Hangs
<1>2. Requests' = Requests
  BY <1>1 DEF Requests
<1>3. Records' = Records /\ Target' = Target
  BY <1>1, <1>2 DEF Records, Target
<1> QED BY <1>1, <1>2, <1>3 DEF ServicesNext, servicesVars, HelperStep

\* What is on the ports once the application is built stays on them.
LEMMA BuiltStays ==
  ASSUME Built, [Next]_vars PROVE Built'
<1>1. state \in {"started", "stopped"} /\ state # "building"
  BY DEF Built
<1>2. calls' = calls /\ state' \in {"started", "stopped"}
  BY <1>1 DEF Next, vars, PortDNAT, PortDNATUDP, StartPorts, StopPorts, OtherTakes, OtherLeaves
<1> QED BY <1>2 DEF Built, AskedOnce

\* A caller may ask for these requests and no others; the three that validate
\* the name let one database through, which the service takes as it is.
LEMMA RequestsVetted ==
  ASSUME app \in Apps, NEW r \in Requests, Validated(r[2])
  PROVE  /\ r = <<r[1], r[2]>>
         /\ r[1] \in {"create", "drop", "put"}
         /\ r[1] = "put" <=> app = "rabbitmq"
         /\ r[1] = "put" => r[2] \in {VHost, User, Permissions}
         /\ r[1] # "put" => r[2] = Target
<1>1. CASE app = "rabbitmq"
  BY <1>1 DEF Requests
<1>2. CASE app = "vault"
  BY <1>2 DEF Requests, Target
<1>3. CASE app \in {"mysql", "postgres", "scylladb"}
  <2>1. /\ r = <<r[1], r[2]>> /\ r[1] \in {"create", "drop"}
        /\ r[2] \in {Database(n) : n \in {0, ServiceMax[app], ServiceMax[app] + 1}}
    BY <1>3 DEF Requests
  <2>2. PICK n \in {0, ServiceMax[app], ServiceMax[app] + 1} : r[2] = Database(n)
    BY <2>1
  <2>3. n \in 1..MaxName[app]
    BY <2>2 DEF Validated, Database
  <2>4. n = MaxName[app]
    BY <1>3, <2>2, <2>3 DEF MaxName, ServiceMax
  <2> QED BY <1>3, <2>1, <2>2, <2>4 DEF Target
<1> QED BY <1>1, <1>2, <1>3 DEF Apps

\* A change of one or two fields of a call.
LEMMA FieldsTyped ==
  ASSUME NEW c \in Records
  PROVE  /\ [c EXCEPT !.ctx = "past"] \in Records
         /\ [c EXCEPT !.at = "request"] \in Records
         /\ \A s \in {"none", "own", "theirs"} :
               [c EXCEPT !.at = "request", !.server = s] \in Records
BY DEF Records

\* Every step keeps the calls typed.
LEMMA CallsTyped ==
  ASSUME app \in Apps, CallTyped, [ServicesNext]_servicesVars
  PROVE  CallTyped'
<1>1. Records' = Records
  BY HelpersFrame
<1>2. ASSUME NEW k \in Callers, NEW e \in {"nil", "refused", "error"}, Returns(k, e)
      PROVE  CallTyped'
  <2>1. NoCall \in Records
    BY DEF NoCall, Records
  <2> QED BY <1>1, <1>2, <2>1 DEF CallTyped, Returns
<1>3. ASSUME UNCHANGED <<call, result>> PROVE CallTyped'
  BY <1>1, <1>3 DEF CallTyped
<1>4. ASSUME NEW k \in Callers, NEW r \in Requests, NEW x \in {"none", "ahead", "past"},
             HelperCall(k, r, x)
      PROVE  CallTyped'
  <2>1. CASE Returns(k, "error")
    BY <1>2, <2>1
  <2>2. CASE /\ Validated(r[2])
             /\ call' = [call EXCEPT ![k] = [at |-> First, does |-> r[1], object |-> r[2],
                                             ctx |-> x, server |-> "none"]]
             /\ result' = [result EXCEPT ![k] = "none"]
    <3>1. First \in {"connect", "token", "request"}
      BY DEF First
    <3>2. r[1] \in {"create", "drop", "put"}
      BY <2>2, RequestsVetted
    <3>3. [at |-> First, does |-> r[1], object |-> r[2], ctx |-> x, server |-> "none"] \in Records
      BY <3>1, <3>2 DEF Records
    <3> QED BY <1>1, <2>2, <3>3 DEF CallTyped
  <2> QED BY <1>4, <2>1, <2>2 DEF HelperCall
<1>5. ASSUME NEW k \in Callers, Connect(k) PROVE CallTyped'
  <2>1. CASE /\ call' = [call EXCEPT ![k].at = "request", ![k].server = Behind]
             /\ UNCHANGED result
    <3>1. Behind \in {"none", "own", "theirs"}
      BY DEF Behind
    <3>2. call' = [call EXCEPT ![k] = [@ EXCEPT !.at = "request", !.server = Behind]]
      BY <2>1
    <3>3. [call[k] EXCEPT !.at = "request", !.server = Behind] \in Records
      BY <3>1, FieldsTyped DEF CallTyped
    <3> QED BY <1>1, <2>1, <3>2, <3>3 DEF CallTyped
  <2> QED BY <1>2, <1>5, <2>1 DEF Connect
<1>6. ASSUME NEW k \in Callers, Token(k) PROVE CallTyped'
  <2>1. CASE call' = [call EXCEPT ![k].at = "request"] /\ UNCHANGED result
    <3>1. call' = [call EXCEPT ![k] = [@ EXCEPT !.at = "request"]]
      BY <2>1
    <3>2. [call[k] EXCEPT !.at = "request"] \in Records
      BY FieldsTyped DEF CallTyped
    <3> QED BY <1>1, <2>1, <3>1, <3>2 DEF CallTyped
  <2> QED BY <1>2, <1>6, <2>1 DEF Token
<1>7. ASSUME NEW k \in Callers, Request(k) PROVE CallTyped'
  <2>1. \E e \in {"nil", "refused", "error"} : Returns(k, e)
    BY <1>7 DEF Request, Executes, Declines, Strays, GivesUp, Outcome
  <2> QED BY <1>2, <2>1
<1>8. ASSUME NEW k \in Callers, DeadlinePasses(k) PROVE CallTyped'
  <2>1. call' = [call EXCEPT ![k] = [@ EXCEPT !.ctx = "past"]] /\ UNCHANGED result
    BY <1>8 DEF DeadlinePasses
  <2>2. [call[k] EXCEPT !.ctx = "past"] \in Records
    BY FieldsTyped DEF CallTyped
  <2> QED BY <1>1, <2>1, <2>2 DEF CallTyped
<1>9. CASE CloseSession \/ Hangs \/ UNCHANGED helperVars
  BY <1>3, <1>9 DEF CloseSession, Hangs, helperVars
<1> QED BY <1>4, <1>5, <1>6, <1>7, <1>8, <1>9, HelpersFrame

\* A helper runs on a built application under a validated name to its end.
LEMMA VettedKept ==
  ASSUME app \in Apps, CallTyped, Vetted, [ServicesNext]_servicesVars
  PROVE  Vetted'
<1> SUFFICES ASSUME NEW j \in Callers, call'[j].at # "idle"
             PROVE  /\ Built'
                    /\ <<call'[j].does, call'[j].object>> \in Requests
                    /\ Validated(call'[j].object)
  BY HelpersFrame DEF Vetted, Validated
<1>1. ASSUME call[j].at # "idle", call'[j].does = call[j].does, call'[j].object = call[j].object
      PROVE  /\ Built'
             /\ <<call'[j].does, call'[j].object>> \in Requests
             /\ Validated(call'[j].object)
  BY <1>1, HelpersFrame, BuiltStays DEF Vetted
<1>2. ASSUME NEW k \in Callers, NEW e, Returns(k, e)
      PROVE  call'[j] = call[j]
  BY <1>2 DEF Returns, CallTyped, NoCall
<1>3. ASSUME NEW k \in Callers, NEW r \in Requests, NEW x \in {"none", "ahead", "past"},
             HelperCall(k, r, x)
      PROVE  \/ call'[j] = call[j]
             \/ /\ Built /\ call'[j].does = r[1] /\ call'[j].object = r[2] /\ Validated(r[2])
  <2>1. CASE Returns(k, "error")
    BY <1>2, <2>1
  <2>2. CASE /\ Validated(r[2])
             /\ call' = [call EXCEPT ![k] = [at |-> First, does |-> r[1], object |-> r[2],
                                             ctx |-> x, server |-> "none"]]
    BY <1>3, <2>2 DEF HelperCall, CallTyped
  <2> QED BY <1>3, <2>1, <2>2 DEF HelperCall
<1>4. ASSUME NEW k \in Callers, Connect(k) \/ Token(k)
      PROVE  call'[j] = call[j]
               \/ (call[j].at # "idle" /\ call'[j].does = call[j].does
                     /\ call'[j].object = call[j].object)
  <2>1. ASSUME call' = [call EXCEPT ![k].at = "request"]
                 \/ call' = [call EXCEPT ![k].at = "request", ![k].server = Behind]
        PROVE  call'[j].does = call[j].does /\ call'[j].object = call[j].object
                 /\ (j # k => call'[j] = call[j])
    BY <2>1 DEF CallTyped, Records
  <2>2. call[k].at # "idle"
    BY <1>4 DEF Connect, Token
  <2> QED BY <1>2, <1>4, <2>1, <2>2 DEF Connect, Token
<1>5. ASSUME NEW k \in Callers, Request(k) PROVE call'[j] = call[j]
  <2>1. \E e : Returns(k, e)
    BY <1>5 DEF Request, Executes, Declines, Strays, GivesUp
  <2> QED BY <1>2, <2>1
<1>6. ASSUME NEW k \in Callers, DeadlinePasses(k)
      PROVE  call'[j].at = call[j].at /\ call'[j].does = call[j].does
               /\ call'[j].object = call[j].object
  BY <1>6 DEF DeadlinePasses, CallTyped, Records
<1>7. CASE CloseSession \/ Hangs \/ UNCHANGED helperVars
  BY <1>1, <1>7 DEF CloseSession, Hangs, helperVars
<1>8. ASSUME NEW k \in Callers, Connect(k) \/ Token(k) \/ Request(k) \/ DeadlinePasses(k)
      PROVE  call[j].at # "idle" /\ call'[j].does = call[j].does /\ call'[j].object = call[j].object
  BY <1>4, <1>5, <1>6, <1>8
<1>9. ASSUME NEW k \in Callers, NEW r \in Requests, NEW x \in {"none", "ahead", "past"},
             HelperCall(k, r, x), UNCHANGED vars
      PROVE  /\ Built'
             /\ <<call'[j].does, call'[j].object>> \in Requests
             /\ Validated(call'[j].object)
  <2>1. CASE call'[j] = call[j]
    BY <1>1, <2>1
  <2>2. CASE Built /\ call'[j].does = r[1] /\ call'[j].object = r[2] /\ Validated(r[2])
    BY <2>2, RequestsVetted, HelpersFrame, BuiltStays
  <2> QED BY <1>3, <1>9, <2>1, <2>2
<1> QED BY <1>1, <1>7, <1>8, <1>9, HelpersFrame

\* What the service of the application may hold.
Holdings == {VHost, User, Permissions, Engine} \union {Database(n) : n \in 1..64}

\* What a service makes of a request under a validated name (the statements
\* of CreateDB, DropDB, CreateVHost and the others).
LEMMA StatementTakes ==
  ASSUME app \in Apps, Grounded, objects \subseteq Holdings,
         NEW r \in Requests, Validated(r[2]), Takes(r[1], r[2]), app' = app
  PROVE  /\ objects' \subseteq Holdings
         /\ Grounded'
         /\ r[1] = "put" =>
              /\ r[2] \in objects' <=> Statement(r[1], r[2]) # "refusal"
         /\ r[1] = "create" =>
              /\ Statement(r[1], r[2]) \in {"created", "refusal"}
              /\ Statement(r[1], r[2]) = "created" <=> Target \notin objects
              /\ Target \in objects'
         /\ r[1] = "drop" =>
              /\ Statement(r[1], r[2]) \in {"nocontent", "refusal"}
              /\ Target \notin objects'
              /\ Statement(r[1], r[2]) = "refusal" => objects' = objects
<1> DEFINE does == r[1]
           o == r[2]
<1>1. /\ does \in {"create", "drop", "put"}
      /\ does = "put" <=> app = "rabbitmq"
      /\ does = "put" => o \in {VHost, User, Permissions}
      /\ does # "put" => o = Target
  BY RequestsVetted
<1> HIDE DEF does, o
<1>2. app # "rabbitmq" => Target \notin {VHost, User, Permissions} /\ Target \in Holdings
  <2>1. CASE app = "vault"
    BY <2>1 DEF Target, Holdings, VHost, User, Permissions, Engine
  <2>2. CASE app \in {"mysql", "postgres", "scylladb"}
    <3>1. MaxName[app] \in 1..64 /\ Target = Database(MaxName[app])
      BY <2>2 DEF Target, MaxName
    <3>2. Database(MaxName[app]) \in Holdings
      BY <3>1 DEF Holdings
    <3>3. Database(MaxName[app]) \notin {VHost, User, Permissions}
      BY DEF Database, VHost, User, Permissions
    <3> QED BY <3>1, <3>2, <3>3
  <2> QED BY <2>1, <2>2 DEF Apps
<1>3. Stored(o) = o /\ ~TooLong(o)
  <2>1. o[1] = "database" => o[2] <= ServiceMax[app] /\ app \in {"mysql", "postgres", "scylladb"}
    BY <1>1 DEF Target, VHost, User, Permissions, Engine, Database, MaxName, ServiceMax, Apps
  <2>2. o[1] = "database" => ServiceMax[app] \in Nat /\ o[2] \in Nat
    BY <1>1, <2>1 DEF Target, Database, MaxName, ServiceMax, VHost, User, Permissions
  <2>3. ~(o[1] = "database" /\ o[2] > ServiceMax[app])
    BY <2>1, <2>2
  <2> QED BY <2>3 DEF Stored, TooLong
<1>4. objects' = IF Statement(does, o) = "refusal" THEN objects
                 ELSE IF does = "drop" THEN objects \ {o}
                 ELSE objects \union {o}
  BY <1>3 DEF Takes, does, o
<1>5. CASE does = "drop"
  <2>1. Statement(does, o) = IF o \in objects \/ app = "vault" THEN "nocontent" ELSE "refusal"
    BY <1>3, <1>5 DEF Statement, Status, Refused
  <2>2. objects' = objects \ {o}
    BY <1>4, <1>5, <2>1
  <2>3. o = Target /\ o \notin {VHost, User}
    BY <1>1, <1>2, <1>5
  <2>4. Grounded' /\ objects' \subseteq Holdings
    BY <2>2, <2>3 DEF Grounded, Needs
  <2>5. /\ Statement(does, o) \in {"nocontent", "refusal"} /\ Target \notin objects'
        /\ Statement(does, o) = "refusal" => objects' = objects
    BY <2>1, <2>2, <2>3
  <2> QED BY <1>5, <2>4, <2>5 DEF does, o
<1>6. CASE does = "create"
  <2>1. o = Target /\ o \in Holdings /\ o # Permissions /\ Needs(o) = {}
    BY <1>1, <1>2, <1>6 DEF Needs
  <2>2. Statement(does, o) = IF o \notin objects THEN "created" ELSE "refusal"
    BY <1>3, <1>6, <2>1 DEF Statement, Status, Refused
  <2>3. objects' = objects \union {o}
    BY <1>4, <1>6, <2>2
  <2>4. Grounded' /\ objects' \subseteq Holdings
    BY <2>1, <2>3 DEF Grounded, Needs
  <2> QED BY <1>6, <2>1, <2>2, <2>3, <2>4 DEF does, o
<1>7. CASE does = "put"
  <2>1. o \in Holdings
    BY <1>1, <1>7 DEF Holdings
  <2>2. Statement(does, o) = IF ~(Needs(o) \subseteq objects) THEN "refusal"
                             ELSE IF o \notin objects THEN "created" ELSE "nocontent"
    BY <1>3, <1>7 DEF Statement, Status, Refused
  <2>3. objects' = IF Needs(o) \subseteq objects THEN objects \union {o} ELSE objects
    BY <1>4, <1>7, <2>2
  <2>4. o \in objects => Needs(o) \subseteq objects
    BY DEF Grounded, Needs
  <2>5. o \in objects' <=> Statement(does, o) # "refusal"
    BY <2>2, <2>3, <2>4
  <2>6. Grounded' /\ objects' \subseteq Holdings
    BY <2>1, <2>3 DEF Grounded, Needs
  <2> QED BY <1>7, <2>5, <2>6 DEF does, o
<1> QED BY <1>1, <1>5, <1>6, <1>7

\* A helper that answers nil had its statement accepted.
LEMMA NilIsAccepted ==
  ASSUME NEW does, NEW o
  PROVE  /\ Statement(does, o) \in {"created", "nocontent", "refusal"}
         /\ Outcome(Statement(does, o)) = "nil" <=> Statement(does, o) # "refusal"
         /\ Outcome(Statement(does, o)) \in {"nil", "refused"}
BY DEF Statement, Status, Outcome, Accepted

\* What a running helper asks for, which is vetted.
LEMMA RunningAsks ==
  ASSUME CallTyped, Vetted, NEW k \in Callers, call[k].at # "idle"
  PROVE  \E r \in Requests : r[1] = call[k].does /\ r[2] = call[k].object /\ Validated(r[2])
<1>1. <<call[k].does, call[k].object>> \in Requests /\ Validated(call[k].object)
  BY DEF Vetted
<1> QED BY <1>1

\* What the helpers keep: the parts of the invariant that are about what the
\* service holds.
HoldingsOK == objects \subseteq Holdings /\ Grounded /\ MadeIsThere

\* One of the callers that create gets its statement through, and no second.
LEMMA ExecutesKeeps ==
  ASSUME app \in Apps, app' = app, CallTyped, Vetted, HoldingsOK, Target' = Target,
         NEW k \in Callers, call[k].at # "idle", Executes(k)
  PROVE  HoldingsOK'
<1> DEFINE does == call[k].does
           o == call[k].object
<1>1. PICK r \in Requests : r[1] = does /\ r[2] = o /\ Validated(r[2])
  BY RunningAsks
<1>2. Takes(r[1], r[2])
  BY <1>1 DEF Executes
<1>3. PICK answered \in {TRUE, FALSE} :
         made' = CASE does = "drop" /\ Statement(does, o) # "refusal" -> 0
                   [] does = "create" /\ answered /\ Outcome(Statement(does, o)) = "nil"
                        -> made + 1
                   [] OTHER -> made
  BY DEF Executes
<1> HIDE DEF does, o
<1>4. /\ r[1] \in {"create", "drop", "put"}
      /\ r[1] = "put" <=> app = "rabbitmq"
  BY <1>1, RequestsVetted
<1>5. /\ objects' \subseteq Holdings
      /\ Grounded'
      /\ r[1] = "create" =>
            /\ Statement(r[1], r[2]) = "created" <=> Target \notin objects
            /\ Target \in objects'
      /\ r[1] = "drop" /\ Statement(r[1], r[2]) = "refusal" => objects' = objects
  BY <1>1, <1>2, StatementTakes DEF HoldingsOK
<1>6. MadeIsThere'
  <2>1. CASE does = "put"
    <3>1. made' = made /\ made = 0
      BY <1>1, <1>3, <1>4, <2>1 DEF HoldingsOK, MadeIsThere
    <3> QED BY <3>1 DEF MadeIsThere
  <2>2. CASE does = "drop"
    <3>1. made' = 0 \/ (made' = made /\ objects' = objects)
      BY <1>1, <1>3, <1>5, <2>2
    <3> QED BY <3>1 DEF HoldingsOK, MadeIsThere
  <2>3. CASE does = "create"
    <3>1. made' = made + 1 => Target \notin objects \/ made' = made
      <4>1. Statement(r[1], r[2]) \in {"created", "refusal"}
        BY <1>1, <1>2, <2>3, StatementTakes DEF HoldingsOK
      <4> QED BY <1>1, <1>3, <1>5, <2>3, <4>1, NilIsAccepted
    <3>2. made' \in {made, made + 1}
      BY <1>3, <2>3
    <3>3. Target \in objects' /\ app # "rabbitmq"
      BY <1>1, <1>4, <1>5, <2>3
    <3> QED BY <3>1, <3>2, <3>3 DEF HoldingsOK, MadeIsThere
  <2> QED BY <1>1, <1>4, <2>1, <2>2, <2>3
<1> QED BY <1>5, <1>6 DEF HoldingsOK

\* So does every step.
LEMMA HoldingsKept ==
  ASSUME app \in Apps, CallTyped, Vetted, HoldingsOK, [ServicesNext]_servicesVars
  PROVE  HoldingsOK'
<1>1. app' = app /\ Target' = Target
  BY HelpersFrame
<1>2. ASSUME UNCHANGED <<objects, made>> PROVE HoldingsOK'
  BY <1>1, <1>2 DEF HoldingsOK, Grounded, MadeIsThere
<1>3. ASSUME NEW k \in Callers, Request(k) PROVE HoldingsOK'
  <2>1. CASE Executes(k)
    BY <1>1, <1>3, <2>1, ExecutesKeeps DEF Request
  <2>2. CASE UNCHANGED <<objects, made>>
    BY <1>2, <2>2
  <2> QED BY <1>3, <2>1, <2>2 DEF Request, Declines, Strays, GivesUp
<1>4. ASSUME NEW k \in Callers, NEW r, NEW x,
             HelperCall(k, r, x) \/ Connect(k) \/ Token(k) \/ DeadlinePasses(k)
      PROVE  HoldingsOK'
  BY <1>2, <1>4 DEF HelperCall, Connect, Token, DeadlinePasses
<1>5. CASE CloseSession \/ Hangs \/ UNCHANGED helperVars
  BY <1>2, <1>5 DEF CloseSession, Hangs, helperVars
<1> QED BY <1>3, <1>4, <1>5, HelpersFrame

\* The ports of the helpers' application are those of module Ports, all bound
\* one to a key.
THEOREM ServicesUsePorts == ServicesSpec => Spec /\ []~Direct
<1>1. ServicesInit => Init /\ ~Direct
  BY DEF ServicesInit, Direct
<1>2. [ServicesNext]_servicesVars => [Next]_vars
  BY HelpersFrame
<1>3. ~Direct /\ [Next]_vars => ~Direct'
  BY DEF Direct, Next, vars, PortDNAT, PortDNATUDP, StartPorts, StopPorts, OtherTakes,
         OtherLeaves
<1> QED BY <1>1, <1>2, <1>3, PTL DEF ServicesSpec, Spec

\* All that the properties of the helpers need.
HelpersOK == app \in Apps /\ CallTyped /\ Vetted /\ HoldingsOK

\* The calls, and what they and the service hold, keep to HelpersOK: the
\* inductive invariant (CreateDB, DropDB and the others).
THEOREM HelpersInductive == ServicesSpec => []HelpersOK
<1>1. ServicesInit => HelpersOK
  <2> SUFFICES ASSUME ServicesInit PROVE HelpersOK
    OBVIOUS
  <2>1. NoCall \in Records /\ NoCall.at = "idle"
    BY DEF NoCall, Records
  <2>2. CallTyped /\ Vetted
    BY <2>1 DEF ServicesInit, CallTyped, Vetted
  <2>3. HoldingsOK
    BY DEF ServicesInit, HoldingsOK, Grounded, MadeIsThere
  <2> QED BY <2>2, <2>3 DEF HelpersOK, ServicesInit
<1>2. HelpersOK /\ [ServicesNext]_servicesVars => HelpersOK'
  BY HelpersFrame, CallsTyped, VettedKept, HoldingsKept DEF HelpersOK
<1> QED BY <1>1, <1>2, PTL DEF ServicesSpec

\* A helper answers in a step of its own, its request.
LEMMA OnlyRequestsAnswer ==
  ASSUME HelpersOK, [ServicesNext]_servicesVars, NEW k \in Callers,
         call[k].at = "request", call'[k].at = "idle"
  PROVE  Request(k) /\ UNCHANGED vars
<1>1. CallTyped /\ call' # call
  BY DEF HelpersOK
<1>2. ASSUME NEW j \in Callers, NEW e, j # k, Returns(j, e) PROVE FALSE
  BY <1>1, <1>2 DEF Returns, CallTyped
<1>3. ASSUME NEW j \in Callers, NEW r, NEW x, HelperCall(j, r, x) PROVE FALSE
  <2>1. j # k
    BY <1>3 DEF HelperCall
  <2>2. \A c : call' = [call EXCEPT ![j] = c] => call'[k] = call[k]
    BY <1>1, <2>1 DEF CallTyped
  <2> QED BY <1>2, <1>3, <2>1, <2>2 DEF HelperCall
<1>4. ASSUME NEW j \in Callers, Connect(j) \/ Token(j) PROVE FALSE
  <2>1. j # k
    BY <1>4 DEF Connect, Token
  <2>2. call' # [call EXCEPT ![j].at = "request"]
          /\ call' # [call EXCEPT ![j].at = "request", ![j].server = Behind]
    BY <1>1, <2>1 DEF CallTyped
  <2> QED BY <1>2, <1>4, <2>1, <2>2 DEF Connect, Token
<1>5. ASSUME NEW j \in Callers, DeadlinePasses(j) PROVE FALSE
  BY <1>1, <1>5 DEF DeadlinePasses, CallTyped, Records
<1>6. ASSUME NEW j \in Callers, Request(j), j # k PROVE FALSE
  <2>1. \E e : Returns(j, e)
    BY <1>6 DEF Request, Executes, Declines, Strays, GivesUp
  <2> QED BY <1>2, <1>6, <2>1
<1>7. ~(CloseSession \/ Hangs \/ UNCHANGED helperVars)
  BY <1>1 DEF CloseSession, Hangs, helperVars
<1> QED BY <1>3, <1>4, <1>5, <1>6, <1>7, HelpersFrame

\* While the application's container runs, its own service is behind the
\* address (the daemon keeps the port).
LEMMA OwnIsBehind ==
  ASSUME StartedPortsReachable, AskedOnce(Port), state = "started"
  PROVE  Behind = "own"
<1>1. PICK h \in HostPorts : URL(Port) = {h} /\ owner[h] = "docker"
  BY ServicesAssumption DEF StartedPortsReachable
<1> QED BY <1>1 DEF Behind

\* nil comes from the helper's own service or, once the container has stopped,
\* from one that asks for no token (container.go URL and the helpers).
LEMMA NilComesFrom ==
  ASSUME HelpersOK, StartedPortsReachable, [ServicesNext]_servicesVars,
         NEW k \in Callers, Answers(k, "nil")
  PROVE  Server(k) = "own" \/ (state # "started" /\ app # "vault")
<1>1. Request(k) /\ call[k].at = "request" /\ result'[k] = "nil"
  BY OnlyRequestsAnswer DEF Answers
<1>2. \A e : Returns(k, e) => result'[k] = e
  BY DEF Returns, HelpersOK, CallTyped
<1>3. ~GivesUp(k) /\ ~(Server(k) = "none" /\ Returns(k, "error"))
  BY <1>1, <1>2 DEF GivesUp
<1>4. CASE Server(k) = "own"
  BY <1>4
<1>5. CASE Server(k) = "theirs" /\ Strays(k)
  <2>1. app # "vault"
    BY <1>1, <1>2, <1>5 DEF Strays
  <2>2. Behind # "own"
    BY <1>5 DEF Server
  <2>3. Built
    BY <1>1 DEF HelpersOK, Vetted
  <2>4. state # "started"
    BY <2>2, <2>3, OwnIsBehind DEF Built
  <2> QED BY <2>1, <2>4
<1> QED BY <1>1, <1>3, <1>4, <1>5 DEF Request

\* No name that passed the validation is too long for the service.
LEMMA NoneTooLong ==
  ASSUME app \in Apps, NEW r \in Requests, Validated(r[2])
  PROVE  ~TooLong(r[2])
<1>1. CASE app \in {"rabbitmq", "vault"}
  BY <1>1 DEF Requests, TooLong, Stored, VHost, User, Permissions, Engine
<1>2. CASE app \in {"mysql", "postgres", "scylladb"}
  <2>1. PICK n \in Nat : r[2] = Database(n)
    BY <1>2 DEF Requests, ServiceMax
  <2>2. n <= MaxName[app]
    BY <1>2, <2>1 DEF Validated, Database, MaxName
  <2>3. MaxName[app] = ServiceMax[app] /\ ServiceMax[app] \in Nat
    BY <1>2 DEF MaxName, ServiceMax
  <2>4. ~(Database(n)[2] > ServiceMax[app]) /\ Stored(Database(n)) = Database(n)
    BY <2>2, <2>3 DEF Stored, Database
  <2> QED BY <2>1, <2>4 DEF TooLong
<1> QED BY <1>1, <1>2 DEF Apps

\* What its own service has said is so.
LEMMA OwnAnswersAreTrue ==
  ASSUME HelpersOK, [ServicesNext]_servicesVars, NEW k \in Callers, Server(k) = "own"
  PROVE  /\ Answers(k, "nil") => (call[k].object \in objects' <=> call[k].does # "drop")
         /\ Answers(k, "refused") => ~TooLong(call[k].object)
<1> DEFINE does == call[k].does
           o == call[k].object
<1>1. SUFFICES ASSUME NEW e \in {"nil", "refused"}, Answers(k, e)
               PROVE  /\ e = "nil" => (o \in objects' <=> does # "drop")
                      /\ e = "refused" => ~TooLong(o)
  OBVIOUS
<1>2. Request(k) /\ call[k].at = "request" /\ result'[k] = e
  BY <1>1, OnlyRequestsAnswer DEF Answers
<1>3. \A f : Returns(k, f) => result'[k] = f
  BY DEF Returns, HelpersOK, CallTyped
<1>4. PICK r \in Requests : r[1] = does /\ r[2] = o /\ Validated(r[2])
  BY <1>2, RunningAsks DEF HelpersOK
<1>5. CASE e = "refused"
  BY <1>4, <1>5, NoneTooLong DEF HelpersOK
<1>6. CASE e = "nil"
  <2>1. Executes(k)
    BY <1>2, <1>3, <1>6 DEF Request, Declines, GivesUp
  <2>2. Takes(does, o) /\ Outcome(Statement(does, o)) = "nil"
    BY <1>2, <1>3, <1>6, <2>1 DEF Executes
  <2> HIDE DEF does, o
  <2>3. Statement(does, o) # "refusal"
    BY <2>2, NilIsAccepted
  <2>4. /\ r[1] \in {"create", "drop", "put"}
        /\ r[1] # "put" => r[2] = Target
    BY <1>4, RequestsVetted DEF HelpersOK
  <2>5. app' = app
    BY HelpersFrame
  <2>6. /\ r[1] = "put" => (r[2] \in objects' <=> Statement(r[1], r[2]) # "refusal")
        /\ r[1] = "create" => Target \in objects'
        /\ r[1] = "drop" => Target \notin objects'
    BY <1>4, <2>2, <2>5, StatementTakes DEF HelpersOK, HoldingsOK
  <2> QED BY <1>4, <1>6, <2>3, <2>4, <2>6
<1> QED BY <1>1, <1>5, <1>6

\* The calls and what the services hold keep their types.
THEOREM ServicesTypeCorrect == ServicesSpec => []ServicesTypeOK
<1> DEFINE Flags == hung \in BOOLEAN /\ session \in {"open", "closed"}
<1>1. ServicesInit => Flags
  BY DEF ServicesInit
<1>2. Flags /\ [ServicesNext]_servicesVars => Flags'
  BY DEF ServicesNext, servicesVars, helperVars, HelperStep, HelperCall, Connect, Token,
         Request, DeadlinePasses, CloseSession, Hangs
<1>3. PortsTypeOK /\ HelpersOK /\ Flags => ServicesTypeOK
  <2> SUFFICES ASSUME PortsTypeOK, HelpersOK, Flags PROVE ServicesTypeOK
    OBVIOUS
  <2>1. made \in Nat
    BY DEF HelpersOK, HoldingsOK, MadeIsThere
  <2>2. \A k \in Callers : call[k] \in Records /\ result[k] \in {"none", "nil", "refused", "error"}
    BY DEF HelpersOK, CallTyped
  <2>3. objects \subseteq {VHost, User, Permissions, Engine} \union {Database(n) : n \in 1..64}
    BY DEF HelpersOK, HoldingsOK, Holdings
  <2> QED BY <2>1, <2>2, <2>3 DEF ServicesTypeOK, HelpersOK, Records
<1> HIDE DEF Flags
<1> QED BY <1>1, <1>2, <1>3, HelpersInductive, ServicesUsePorts, PortsTypeCorrect, PTL
       DEF ServicesSpec

\* What ServicesInv says of the calls and the objects holds in every reachable
\* state (CreateDB, CreateKeyspace, CreateVHost and the others).
THEOREM ServicesInductive == ServicesSpec => []ServicesInv
<1>1. HelpersOK /\ ~Direct => ServicesInv
  BY DEF HelpersOK, HoldingsOK, ServicesInv
<1> QED BY <1>1, HelpersInductive, ServicesUsePorts, PTL

\* Of the callers that create one database, keyspace or engine at most one is
\* told nil until it is dropped (CreateDB, CreateKeyspace, CreateEngine).
THEOREM CreatesOnce == ServicesSpec => []CreatedOnce
<1>1. HelpersOK => CreatedOnce
  BY DEF HelpersOK, HoldingsOK, MadeIsThere, CreatedOnce
<1> QED BY <1>1, HelpersInductive, PTL

\* A helper that returns nil while the container runs has reached its own
\* service (container.go URL and the helpers).
THEOREM NilFromOwnService == ServicesSpec => NilIsOwn
<1>1. HelpersOK /\ StartedPortsReachable /\ [ServicesNext]_servicesVars =>
        [\A k \in Callers : Answers(k, "nil") =>
           Server(k) = "own" \/ (state # "started" /\ app # "vault")]_servicesVars
  BY NilComesFrom
<1> QED BY <1>1, HelpersInductive, ServicesUsePorts, PortsReachable, PTL
       DEF ServicesSpec, NilIsOwn

\* nil from its own service is true, and a refusal is never for the length of
\* a name that passed the validation (validateDBName, CreateDB, DropDB,
\* CreateVHost and the others).
THEOREM ServicesTellTheTruth == ServicesSpec => AnswersAreTrue
<1>1. HelpersOK /\ [ServicesNext]_servicesVars =>
        [\A k \in Callers : Server(k) = "own" =>
           /\ Answers(k, "nil") => (call[k].object \in objects' <=> call[k].does # "drop")
           /\ Answers(k, "refused") => ~TooLong(call[k].object)]_servicesVars
  BY OwnAnswersAreTrue
<1> QED BY <1>1, HelpersInductive, PTL DEF ServicesSpec, AnswersAreTrue

================================================================================
