--------------------------------- MODULE Ports ---------------------------------
(***************************************************************************)
(* The port bindings of ports.go and node.go: PortDNAT asks an allocator   *)
(* for a free port of the host, long before the daemon binds it.           *)
(*                                                                         *)
(* The allocator listens on a port the kernel picks and closes it at once, *)
(* so until the container starts anybody may take the port, the allocator  *)
(* itself included.  With RandomPort the container's own port is the key   *)
(* of the binding.  With OneToOneRandomPort (kafka) the key is the host    *)
(* port, the service listens on that number inside the container too, and  *)
(* an alias leads from the number the caller knows to the key.             *)
(***************************************************************************)
EXTENDS Naturals, FiniteSets, Sequences

CONSTANTS
    HostPorts,    \* ports of the host
    CPorts,       \* port numbers a caller asks for
    MaxCalls      \* bound: how often PortDNAT is called

ASSUME PortsAssumption ==
    /\ HostPorts \intersect CPorts = {}
    /\ MaxCalls \in Nat

VARIABLES
    tcpPortAllocator,  \* RandomPort or OneToOneRandomPort, from the construction on
    portBindings,  \* portBindings[k]: the host ports bound to key k, in order
    portAliases,   \* portAliases[p]: the key p stands for, p itself without an alias
    owner,         \* owner[h]: who holds host port h
    state,         \* of the handle: "building", "started", "stopped", "refused", "panicked"
    calls          \* history: the ports asked for, in order

vars == <<tcpPortAllocator, portBindings, portAliases, owner, state, calls>>

Allocators == {"RandomPort", "OneToOneRandomPort"}

PortsTypeOK ==
    /\ tcpPortAllocator \in Allocators
    /\ portBindings \in [HostPorts \union CPorts -> Seq(HostPorts)]
    /\ portAliases \in [CPorts -> CPorts \union HostPorts]
    /\ owner \in [HostPorts -> {"nobody", "other", "docker"}]
    /\ state \in {"building", "started", "stopped", "refused", "panicked"}
    /\ calls \in Seq(CPorts)

Init ==
    /\ tcpPortAllocator \in Allocators
    /\ portBindings = [k \in HostPorts \union CPorts |-> <<>>]
    /\ portAliases = [p \in CPorts |-> p]
    /\ owner \in [HostPorts -> {"nobody", "other"}]
    /\ state = "building"
    /\ calls = <<>>

\* NewDirectPortBinding, which kafka uses.
Direct == tcpPortAllocator = "OneToOneRandomPort"

Keys == IF Direct THEN HostPorts ELSE CPorts

\* RandomPort: any port nobody listens on; it is free again on return.
Free(h) == owner[h] = "nobody"

KeyOf(p, h) == IF Direct THEN h ELSE p

\* The allocator's error is a panic of PortDNAT.
PortDNAT(p) ==
    /\ state = "building" /\ Len(calls) < MaxCalls
    /\ \/ \E h \in HostPorts :
            /\ Free(h)
            /\ portBindings' = [portBindings EXCEPT ![KeyOf(p, h)] = Append(@, h)]
            /\ portAliases' = [portAliases EXCEPT ![p] = KeyOf(p, h)]
            /\ UNCHANGED state
       \/ /\ \A h \in HostPorts : ~Free(h)
          /\ state' = "panicked"
          /\ UNCHANGED <<portBindings, portAliases>>
    /\ calls' = Append(calls, p)
    /\ UNCHANGED <<tcpPortAllocator, owner>>

\* For UDP the allocator calls net.Listen, which knows no such network.
PortDNATUDP(p) ==
    /\ state = "building" /\ Len(calls) < MaxCalls
    /\ state' = "panicked"
    /\ calls' = Append(calls, p)
    /\ UNCHANGED <<tcpPortAllocator, portBindings, portAliases, owner>>

--------------------------------------------------------------------------------
\* Faulty variant: the host configuration is made without the bindings.
BindingsNone == {}

\* The host ports of every binding, as NewHostConfig hands them over.
Bindings == {b \in Keys \X (1..MaxCalls) : b[2] \in DOMAIN portBindings[b[1]]}
HostPort(b) == portBindings[b[1]][b[2]]

\* The daemon binds them all or refuses the start.
StartPorts ==
    /\ state = "building"
    /\ \/ /\ \A b \in Bindings : Free(HostPort(b))
          /\ \A a, b \in Bindings : HostPort(a) = HostPort(b) => a = b
          /\ owner' = [h \in HostPorts |->
                         IF \E b \in Bindings : HostPort(b) = h THEN "docker" ELSE owner[h]]
          /\ state' = "started"
       \/ /\ \/ \E b \in Bindings : ~Free(HostPort(b))
             \/ \E a, b \in Bindings : HostPort(a) = HostPort(b) /\ a # b
          /\ state' = "refused"
          /\ UNCHANGED owner
    /\ UNCHANGED <<tcpPortAllocator, portBindings, portAliases, calls>>

\* The program ends, or Close stops it: the daemon lets go of the ports, and
\* the bindings keep their numbers.
StopPorts ==
    /\ state = "started"
    /\ state' = "stopped"
    /\ owner' = [h \in HostPorts |-> IF owner[h] = "docker" THEN "nobody" ELSE owner[h]]
    /\ UNCHANGED <<tcpPortAllocator, portBindings, portAliases, calls>>

OtherTakes(h) ==
    /\ Free(h) /\ owner' = [owner EXCEPT ![h] = "other"]
    /\ UNCHANGED <<tcpPortAllocator, portBindings, portAliases, state, calls>>

OtherLeaves(h) ==
    /\ owner[h] = "other" /\ owner' = [owner EXCEPT ![h] = "nobody"]
    /\ UNCHANGED <<tcpPortAllocator, portBindings, portAliases, state, calls>>

Next ==
    \/ \E p \in CPorts : PortDNAT(p) \/ PortDNATUDP(p)
    \/ StartPorts \/ StopPorts
    \/ \E h \in HostPorts : OtherTakes(h) \/ OtherLeaves(h)

Spec == Init /\ [][Next]_vars

--------------------------------------------------------------------------------
\* Faulty variant: aliases are not resolved.
LookupUnaliased(p) == portBindings[p]

\* The binding a port number leads to, its alias resolved.
Lookup(p) == portBindings[portAliases[p]]

\* URL: the host port, none for an error (no binding, or several).
URL(p) == IF Len(Lookup(p)) = 1 THEN {Lookup(p)[1]} ELSE {}

\* GetExternalPortMapping: the first host port, none for an error.
GetExternalPortMapping(p) == IF Lookup(p) # <<>> THEN {Lookup(p)[1]} ELSE {}

\* The number the service for p listens on in the container: kafka takes it
\* from GetExternalPortMapping, the others know p.
ListensOn(p) == IF Direct THEN GetExternalPortMapping(p) ELSE {p}

\* The key the daemon forwards host port h to.
ForwardedTo(h) == {b[1] : b \in {a \in Bindings : HostPort(a) = h}}

AskedOnce(p) == Cardinality({j \in DOMAIN calls : calls[j] = p}) = 1

\* In a started container every port that was asked for once has an address,
\* no two share it, and it leads to the number the service listens on, even
\* when the allocator gave a host port out twice (ports.go PortDNAT,
\* container.go URL, container_info.go GetExternalPortMapping).
StartedPortsReachable ==
    state = "started" =>
        \A p \in CPorts : AskedOnce(p) =>
            \E h \in HostPorts :
                /\ URL(p) = {h} /\ owner[h] = "docker"
                /\ ForwardedTo(h) = ListensOn(p)
                /\ \A q \in CPorts : URL(q) = {h} => q = p

--------------------------------------------------------------------------------
(* The inductive invariant: what the binding tables say of the calls. *)

Asked(p) == \E j \in DOMAIN calls : calls[j] = p

\* Every binding comes from a call of its own.
Counted ==
    /\ Len(calls) <= MaxCalls
    /\ \A k \in HostPorts \union CPorts : Len(portBindings[k]) <= Len(calls)

\* RandomPort: the bindings of a port are under its own number, one for
\* each call.
KeyedByPort ==
    \A p \in CPorts :
        /\ portAliases[p] = p
        /\ state # "panicked" =>
              /\ portBindings[p] # <<>> <=> Asked(p)
              /\ AskedOnce(p) => Len(portBindings[p]) = 1

\* OneToOneRandomPort: a binding is from a host port to itself, the alias of
\* a port that was asked for leads to one, and two aliases to one host port
\* mean two bindings of it.
KeyedByHost ==
    /\ \A h \in HostPorts : \A j \in DOMAIN portBindings[h] : portBindings[h][j] = h
    /\ \A p \in CPorts :
          /\ portBindings[p] = <<>>
          /\ portAliases[p] \in HostPorts \union {p}
          /\ state # "panicked" /\ Asked(p) => portAliases[p] \in HostPorts
          /\ portAliases[p] \in HostPorts => Len(portBindings[portAliases[p]]) >= 1
    /\ \A p, q \in CPorts :
          p # q /\ portAliases[p] \in HostPorts /\ portAliases[p] = portAliases[q] =>
              Len(portBindings[portAliases[p]]) >= 2

\* What the daemon's start has made sure of.
BoundOnce ==
    state = "started" =>
        /\ \A b \in Bindings : owner[HostPort(b)] = "docker"
        /\ \A a, b \in Bindings : HostPort(a) = HostPort(b) => a = b

PortsInv == Counted /\ (IF Direct THEN KeyedByHost ELSE KeyedByPort) /\ BoundOnce
================================================================================
