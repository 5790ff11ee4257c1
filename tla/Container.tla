------------------------------- MODULE Container -------------------------------
(***************************************************************************)
(* The container handle of container.go against a docker daemon.           *)
(*                                                                         *)
(* A handle serves one call at a time: Run, Close, AwaitOutput and         *)
(* NetworkAttach.  A call is a sequence of requests to the daemon, each an *)
(* action of this module.  Between two requests anything else may happen:  *)
(* the caller's deadline passes or its context is cancelled, a program in  *)
(* a container exits or writes the awaited line, a registry moves a tag,   *)
(* another handle works on the same daemon.                                *)
(*                                                                         *)
(* A request ends in one of three ways: it takes effect and its answer     *)
(* arrives, it fails without effect, or it takes effect and its answer is  *)
(* lost.  The last two are possible once the context of the call is done,  *)
(* and at any time when Faults has "refused" and "lost".                   *)
(***************************************************************************)
EXTENDS Naturals, FiniteSets

CONSTANTS
    Containers,   \* container handles (type container)
    Instances,    \* docker containers the daemon may ever create
    Networks,     \* docker networks
    Images,       \* image references
    Ctxs,         \* contexts the callers hold
    NoID,         \* the empty ContainerID
    NoNet,        \* the empty NetworkID
    Label,        \* Label[i]: the handle whose name instance i is labelled with
    ImageOf,      \* ImageOf[c]: the image reference handle c was built with
    Latest,       \* the references that end in :latest
    Verbatim,     \* the references the daemon lists, once pulled, as they are written
    Faults        \* how the daemon and the connection may fail

ASSUME ContainerAssumption ==
    /\ NoID \notin Instances
    /\ NoNet \notin Networks
    /\ Label \in [Instances -> Containers]
    /\ ImageOf \in [Containers -> Images]
    /\ Latest \subseteq Images
    /\ Verbatim \subseteq Images
    /\ Faults \subseteq {"refused", "lost", "inband", "severed"}

VARIABLES
    containerID,  \* containerID[c]: the field of the handle
    networkID,    \* networkID[c]: the field of the handle
    pc,           \* pc[c]: the request the running call makes next
    op,           \* op[c]: the running, or last, call
    err,          \* err[c]: what the last call returned, "none" while it runs
    arg,          \* arg[c]: the context given to that call
    grace         \* grace[c]: the deadline of the fresh context Close may take

VARIABLES
    deadline,     \* deadline[x]: "none", or whether it is "ahead" or "past"
    cancelled     \* the contexts that were cancelled

VARIABLES
    inst,         \* inst[i]: the state of instance i in the daemon
    attached,     \* attached[i]: the network instance i was connected to
    ready,        \* the instances that wrote a line, or a rest of one, the matcher accepts
    store,        \* store[m]: the daemon's copy of image m against the registry's
    net           \* net[n]: the state of network n in the daemon

VARIABLES
    lost,         \* history: instances created by a request that failed
    superseded    \* history: IDs a second Run overwrote

clientVars == <<containerID, networkID, pc, op, err, arg, grace>>
ctxVars    == <<deadline, cancelled>>
daemonVars == <<inst, attached, ready, store, net>>
ghostVars  == <<lost, superseded>>
vars       == <<clientVars, ctxVars, daemonVars, ghostVars>>

RunPC   == {"list", "pull", "create", "connect", "start"}
ClosePC == {"stop", "remove"}
AwaitPC == {"logs", "await"}
Result  == {"nil", "ctx", "error"}
Clock   == {"ahead", "past"}

TypeOK ==
    /\ containerID \in [Containers -> Instances \union {NoID}]
    /\ networkID \in [Containers -> Networks \union {NoNet}]
    /\ pc \in [Containers -> {"idle"} \union RunPC \union ClosePC \union AwaitPC]
    /\ op \in [Containers -> {"none", "Run", "Close", "AwaitOutput"}]
    /\ err \in [Containers -> {"none"} \union Result]
    /\ arg \in [Containers -> Ctxs]
    /\ grace \in [Containers -> {"unused"} \union Clock]
    /\ deadline \in [Ctxs -> {"none"} \union Clock]
    /\ cancelled \subseteq Ctxs
    /\ inst \in [Instances -> {"absent", "created", "running", "exited", "removed"}]
    /\ attached \in [Instances -> Networks \union {NoNet}]
    /\ ready \subseteq Instances
    /\ store \in [Images -> {"absent", "stale", "current"}]
    /\ net \in [Networks -> {"absent", "present", "removed"}]
    /\ lost \subseteq Instances
    /\ superseded \subseteq Instances

Init ==
    /\ containerID = [c \in Containers |-> NoID]
    /\ networkID = [c \in Containers |-> NoNet]
    /\ pc = [c \in Containers |-> "idle"]
    /\ op = [c \in Containers |-> "none"]
    /\ err = [c \in Containers |-> "none"]
    /\ arg \in [Containers -> Ctxs]
    /\ grace = [c \in Containers |-> "unused"]
    /\ deadline \in [Ctxs -> {"none", "ahead"}]
    /\ cancelled = {}
    /\ inst = [i \in Instances |-> "absent"]
    /\ attached = [i \in Instances |-> NoNet]
    /\ ready = {}
    /\ store \in [Images -> {"absent", "stale", "current"}]
    /\ net = [n \in Networks |-> "absent"]
    /\ lost = {}
    /\ superseded = {}

--------------------------------------------------------------------------------
(* What a call sees of its context and of the daemon. *)

\* The instance is in the daemon: it holds a name, ports and a file system.
Held(i) == i \in Instances /\ inst[i] \in {"created", "running", "exited"}

\* Faulty variant: the fresh context of Close is shadowed and never used.
DoneShadowed(c) == arg[c] \in cancelled \/ deadline[arg[c]] = "past"

\* The context the running call of c uses is done: the fresh one of Close
\* if it took one, else the caller's.
Done(c) ==
    \/ grace[c] = "past"
    \/ grace[c] = "unused" /\ (arg[c] \in cancelled \/ deadline[arg[c]] = "past")

\* Faulty variant: the state of the clock passed on in place of an error.
ReasonUnwrapped(c) == IF Done(c) THEN "past" ELSE "error"

Reason(c) == IF Done(c) THEN "ctx" ELSE "error"

\* A request of c may fail without effect; it may take effect and fail.
MayRefuse(c) == Done(c) \/ "refused" \in Faults
MayLose(c)   == Done(c) \/ "lost" \in Faults

Call(c, o, x, request) ==
    /\ pc[c] = "idle"
    /\ pc' = [pc EXCEPT ![c] = request]
    /\ op' = [op EXCEPT ![c] = o]
    /\ err' = [err EXCEPT ![c] = "none"]
    /\ arg' = [arg EXCEPT ![c] = x]

GoOn(c, request) ==
    /\ pc' = [pc EXCEPT ![c] = request]
    /\ UNCHANGED err

Return(c, e) ==
    /\ pc' = [pc EXCEPT ![c] = "idle"]
    /\ err' = [err EXCEPT ![c] = e]

--------------------------------------------------------------------------------
NetworkAttach(c, n) ==
    /\ pc[c] = "idle"
    /\ networkID' = [networkID EXCEPT ![c] = n]
    /\ UNCHANGED <<containerID, pc, op, err, arg, grace, ctxVars, daemonVars, ghostVars>>

(* Run: pullImage (list, pull), then create, connect, start. *)

\* Faulty variant: Run starts by forgetting the ID of the last instance.
RunCallForgets(c, x) ==
    /\ \E i \in Instances : Label[i] = c /\ inst[i] = "absent"
    /\ Call(c, "Run", x, "list")
    /\ containerID' = [containerID EXCEPT ![c] = NoID]
    /\ grace' = [grace EXCEPT ![c] = "unused"]
    /\ UNCHANGED <<networkID, ctxVars, daemonVars, ghostVars>>

\* Instances bounds the number of Run calls.
RunCall(c, x) ==
    /\ \E i \in Instances : Label[i] = c /\ inst[i] = "absent"
    /\ Call(c, "Run", x, "list")
    /\ grace' = [grace EXCEPT ![c] = "unused"]
    /\ UNCHANGED <<containerID, networkID, ctxVars, daemonVars, ghostVars>>

\* Faulty variant: the condition on the listing is inverted.
ListedInverted(m) == store[m] = "absent" /\ m \in Verbatim

\* isImagePulled compares the reference with what the daemon lists.
Listed(m) == store[m] # "absent" /\ m \in Verbatim

\* Faulty variant: a failed listing is retried instead of returned.
ListImagesRetried(c) ==
    /\ pc[c] = "list"
    /\ \/ /\ ~Done(c)
          /\ GoOn(c, IF ImageOf[c] \in Latest \/ ~Listed(ImageOf[c]) THEN "pull" ELSE "create")
       \/ MayRefuse(c) /\ UNCHANGED <<pc, err>>
    /\ UNCHANGED <<containerID, networkID, op, arg, grace, ctxVars, daemonVars, ghostVars>>

ListImages(c) ==
    /\ pc[c] = "list"
    /\ \/ /\ ~Done(c)
          /\ GoOn(c, IF ImageOf[c] \in Latest \/ ~Listed(ImageOf[c]) THEN "pull" ELSE "create")
       \/ MayRefuse(c) /\ Return(c, Reason(c))
    /\ UNCHANGED <<containerID, networkID, op, arg, grace, ctxVars, daemonVars, ghostVars>>

\* The answer is a stream that is drained unread: a failure the registry
\* reports inside it is not noticed.
PullImage(c) ==
    /\ pc[c] = "pull"
    /\ \/ /\ ~Done(c)
          /\ store' = [store EXCEPT ![ImageOf[c]] = "current"]
          /\ GoOn(c, "create")
       \/ ~Done(c) /\ "inband" \in Faults /\ GoOn(c, "create") /\ UNCHANGED store
       \/ MayRefuse(c) /\ Return(c, Reason(c)) /\ UNCHANGED store
       \/ /\ MayLose(c)
          /\ store' = [store EXCEPT ![ImageOf[c]] = "current"]
          /\ Return(c, Reason(c))
    /\ UNCHANGED <<containerID, networkID, op, arg, grace, ctxVars,
                   inst, attached, ready, net, ghostVars>>

Create(c) ==
    /\ pc[c] = "create"
    /\ \/ \E i \in Instances :
            /\ Label[i] = c /\ inst[i] = "absent"
            /\ store[ImageOf[c]] # "absent"
            /\ inst' = [inst EXCEPT ![i] = "created"]
            /\ \/ /\ ~Done(c)
                  /\ containerID' = [containerID EXCEPT ![c] = i]
                  /\ superseded' = superseded \union ({containerID[c]} \ {NoID})
                  /\ GoOn(c, IF networkID[c] = NoNet THEN "start" ELSE "connect")
                  /\ UNCHANGED lost
               \/ /\ MayLose(c)
                  /\ lost' = lost \union {i}
                  /\ Return(c, Reason(c))
                  /\ UNCHANGED <<containerID, superseded>>
       \/ /\ MayRefuse(c) \/ store[ImageOf[c]] = "absent"
          /\ Return(c, Reason(c))
          /\ UNCHANGED <<containerID, inst, ghostVars>>
    /\ UNCHANGED <<networkID, op, arg, grace, ctxVars, attached, ready, store, net>>

\* Faulty variant: an instance that could not be connected is started.
ConnectOptional(c) ==
    /\ pc[c] = "connect"
    /\ \/ /\ net[networkID[c]] = "present"
          /\ attached' = [attached EXCEPT ![containerID[c]] = networkID[c]]
       \/ UNCHANGED attached
    /\ GoOn(c, "start")
    /\ UNCHANGED <<containerID, networkID, op, arg, grace, ctxVars,
                   inst, ready, store, net, ghostVars>>

Connect(c) ==
    /\ pc[c] = "connect"
    /\ \/ /\ net[networkID[c]] = "present"
          /\ attached' = [attached EXCEPT ![containerID[c]] = networkID[c]]
          /\ \/ ~Done(c) /\ GoOn(c, "start")
             \/ MayLose(c) /\ Return(c, Reason(c))
       \/ /\ MayRefuse(c) \/ net[networkID[c]] # "present"
          /\ Return(c, Reason(c))
          /\ UNCHANGED attached
    /\ UNCHANGED <<containerID, networkID, op, arg, grace, ctxVars,
                   inst, ready, store, net, ghostVars>>

\* The network the instance was connected to is still there.
Present == {n \in Networks : net[n] = "present"}
Linked(i) == attached[i] \in Present \union {NoNet}

\* A refusal stands also for a host port somebody took in the meantime.
Start(c) ==
    /\ pc[c] = "start"
    /\ \/ /\ inst[containerID[c]] = "created" /\ Linked(containerID[c])
          /\ inst' = [inst EXCEPT ![containerID[c]] = "running"]
          /\ \/ ~Done(c) /\ Return(c, "nil")
             \/ MayLose(c) /\ Return(c, Reason(c))
       \/ /\ MayRefuse(c) \/ ~Linked(containerID[c])
          /\ Return(c, Reason(c))
          /\ UNCHANGED inst
    /\ UNCHANGED <<containerID, networkID, op, arg, grace, ctxVars,
                   attached, ready, store, net, ghostVars>>

(* Close: nothing without an ID; else stop, then remove, under a fresh     *)
(* context when the deadline of the caller's has passed.                   *)
CloseCall(c, x) ==
    /\ \/ /\ containerID[c] = NoID
          /\ pc[c] = "idle"
          /\ op' = [op EXCEPT ![c] = "Close"]
          /\ err' = [err EXCEPT ![c] = "nil"]
          /\ arg' = [arg EXCEPT ![c] = x]
          /\ grace' = [grace EXCEPT ![c] = "unused"]
          /\ UNCHANGED pc
       \/ /\ containerID[c] # NoID
          /\ Call(c, "Close", x, "stop")
          /\ grace' = [grace EXCEPT ![c] = IF deadline[x] = "past" THEN "ahead" ELSE "unused"]
    /\ UNCHANGED <<containerID, networkID, ctxVars, daemonVars, ghostVars>>

Stopped(i) == [inst EXCEPT ![i] = IF @ = "running" THEN "exited" ELSE @]

Stop(c) ==
    /\ pc[c] = "stop"
    /\ \/ /\ Held(containerID[c])
          /\ inst' = Stopped(containerID[c])
          /\ \/ ~Done(c) /\ GoOn(c, "remove")
             \/ MayLose(c) /\ Return(c, Reason(c))
       \/ /\ MayRefuse(c) \/ ~Held(containerID[c])
          /\ Return(c, Reason(c))
          /\ UNCHANGED inst
    /\ UNCHANGED <<containerID, networkID, op, arg, grace, ctxVars,
                   attached, ready, store, net, ghostVars>>

\* Faulty variant: the error of the removal is dropped.
RemoveQuiet(c) ==
    /\ pc[c] = "remove"
    /\ \/ inst' = [inst EXCEPT ![containerID[c]] = "removed"]
       \/ MayRefuse(c) /\ UNCHANGED inst
    /\ Return(c, "nil")
    /\ UNCHANGED <<containerID, networkID, op, arg, grace, ctxVars,
                   attached, ready, store, net, ghostVars>>

\* The removal is forced: the daemon takes a running instance too.
Remove(c) ==
    /\ pc[c] = "remove"
    /\ \/ /\ Held(containerID[c])
          /\ inst' = [inst EXCEPT ![containerID[c]] = "removed"]
          /\ \/ ~Done(c) /\ Return(c, "nil")
             \/ MayLose(c) /\ Return(c, Reason(c))
       \/ /\ MayRefuse(c) \/ ~Held(containerID[c])
          /\ Return(c, Reason(c))
          /\ UNCHANGED inst
    /\ UNCHANGED <<containerID, networkID, op, arg, grace, ctxVars,
                   attached, ready, store, net, ghostVars>>

(* AwaitOutput: open the log and read it until a line matches. *)
AwaitCall(c, x) ==
    /\ Call(c, "AwaitOutput", x, "logs")
    /\ grace' = [grace EXCEPT ![c] = "unused"]
    /\ UNCHANGED <<containerID, networkID, ctxVars, daemonVars, ghostVars>>

OpenLogs(c) ==
    /\ pc[c] = "logs"
    /\ \/ /\ Held(containerID[c])
          /\ ~Done(c)
          /\ GoOn(c, "await")
       \/ /\ MayRefuse(c) \/ ~Held(containerID[c])
          /\ Return(c, Reason(c))
    /\ UNCHANGED <<containerID, networkID, op, arg, grace, ctxVars, daemonVars, ghostVars>>

Matched(c) == containerID[c] \in ready /\ ~Done(c) /\ Return(c, "nil")

\* The daemon ends the log of an instance that does not run, and the
\* scanner takes that end for no error.
Ended(c) ==
    /\ containerID[c] \notin ready
    /\ inst[containerID[c]] # "running"
    /\ Return(c, "nil")

\* Faulty variant: a timeout is taken for the end of the log.
InterruptedNil(c) == Done(c) /\ Return(c, "nil")

Interrupted(c) == Done(c) /\ Return(c, "ctx")

AwaitOutput(c) ==
    /\ pc[c] = "await"
    /\ Matched(c) \/ Ended(c) \/ Interrupted(c)
    /\ UNCHANGED <<containerID, networkID, op, arg, grace, ctxVars, daemonVars, ghostVars>>

\* The connection breaks, or a line is longer than the scanner takes; before
\* the error of a break, the scanner hands out what it has of the line.
LogSevered(c) ==
    /\ pc[c] = "await"
    /\ "severed" \in Faults
    /\ Matched(c) \/ Return(c, "error")
    /\ UNCHANGED <<containerID, networkID, op, arg, grace, ctxVars, daemonVars, ghostVars>>

--------------------------------------------------------------------------------
(* The environment: time, the callers' contexts, the programs in the       *)
(* containers, the registry and the other users of the daemon.             *)

DeadlinePasses(x) ==
    /\ deadline[x] = "ahead"
    /\ deadline' = [deadline EXCEPT ![x] = "past"]
    /\ UNCHANGED <<clientVars, cancelled, daemonVars, ghostVars>>

Cancel(x) ==
    /\ x \notin cancelled
    /\ cancelled' = cancelled \union {x}
    /\ UNCHANGED <<clientVars, deadline, daemonVars, ghostVars>>

\* defaultStopTimeout runs out before Close returns.
GracePasses(c) ==
    /\ grace[c] = "ahead" /\ pc[c] \in ClosePC
    /\ grace' = [grace EXCEPT ![c] = "past"]
    /\ UNCHANGED <<containerID, networkID, pc, op, err, arg, ctxVars, daemonVars, ghostVars>>

Exits(i) ==
    /\ inst[i] = "running"
    /\ inst' = [inst EXCEPT ![i] = "exited"]
    /\ UNCHANGED <<clientVars, ctxVars, attached, ready, store, net, ghostVars>>

Emits(i) ==
    /\ inst[i] = "running" /\ i \notin ready
    /\ ready' = ready \union {i}
    /\ UNCHANGED <<clientVars, ctxVars, inst, attached, store, net, ghostVars>>

Publishes(m) ==
    /\ store[m] = "current"
    /\ store' = [store EXCEPT ![m] = "stale"]
    /\ UNCHANGED <<clientVars, ctxVars, inst, attached, ready, net, ghostVars>>

\* A network has active endpoints while an instance attached to it runs,
\* and the daemon refuses to remove it then.
InUse(n) == \E i \in Instances : attached[i] = n /\ inst[i] = "running"

NetworkCreated(n) ==
    /\ net[n] = "absent"
    /\ net' = [net EXCEPT ![n] = "present"]
    /\ UNCHANGED <<clientVars, ctxVars, inst, attached, ready, store, ghostVars>>

NetworkRemoved(n) ==
    /\ net[n] = "present" /\ ~InUse(n)
    /\ net' = [net EXCEPT ![n] = "removed"]
    /\ UNCHANGED <<clientVars, ctxVars, inst, attached, ready, store, ghostVars>>

--------------------------------------------------------------------------------
CallStep(c) ==
    \/ \E n \in Networks : NetworkAttach(c, n)
    \/ \E x \in Ctxs : RunCall(c, x) \/ CloseCall(c, x) \/ AwaitCall(c, x)

ApiStep(c) ==
    \/ ListImages(c) \/ PullImage(c) \/ Create(c) \/ Connect(c) \/ Start(c)
    \/ Stop(c) \/ Remove(c)
    \/ OpenLogs(c) \/ AwaitOutput(c)

WorldStep ==
    \/ \E x \in Ctxs : DeadlinePasses(x) \/ Cancel(x)
    \/ \E c \in Containers : GracePasses(c) \/ LogSevered(c)
    \/ \E i \in Instances : Exits(i) \/ Emits(i)
    \/ \E m \in Images : Publishes(m)

NetworkStep == \E n \in Networks : NetworkCreated(n) \/ NetworkRemoved(n)

Next ==
    \/ \E c \in Containers : CallStep(c) \/ ApiStep(c)
    \/ WorldStep
    \/ NetworkStep

Spec == Init /\ [][Next]_vars

--------------------------------------------------------------------------------
(* What a nil means to the caller, and what a failure may leave behind. *)

Returned(c, o, e) == pc[c] = "idle" /\ op[c] = o /\ err[c] = e

\* Close that returns nil has left nothing of the handle in the daemon
\* (container.go Close), whatever failed before it, except an instance the
\* handle never learned the ID of (the answer to the create request was
\* lost) or one whose ID a second Run overwrote.
CloseLeavesNothing ==
    \A c \in Containers : Returned(c, "Close", "nil") =>
        \A i \in Instances : Label[i] = c /\ Held(i) => i \in lost \union superseded

\* The handle's ID names the newest instance the daemon confirmed to it:
\* Run records the ID before it makes the next request, so an instance in
\* the daemon is the handle's own or one of the two exceptions above.
NothingUntracked ==
    \A i \in Instances :
        Held(i) => containerID[Label[i]] = i \/ i \in lost \union superseded

\* AwaitOutput that returns nil has seen the line, or the program does not
\* run any more and never will (container.go AwaitOutput).
AwaitNilIsFinal ==
    \A c \in Containers : Returned(c, "AwaitOutput", "nil") =>
        containerID[c] \in ready \/ inst[containerID[c]] \in {"created", "exited", "removed"}

\* Close with an expired deadline gives the removal a window of its own:
\* it fails on a context only when that window is over, and on the daemon's
\* side only if the daemon fails or the instance is gone already.
ExpiredCloseHasWindow ==
    \A c \in Containers :
        op[c] = "Close" /\ grace[c] = "ahead" /\ pc[c] = "idle" =>
            \/ err[c] # "ctx" /\ Faults # {}
            \/ inst[containerID[c]] = "removed"

\* Run returns nil in the very step that makes the handle's own instance
\* run, from an image the daemon has and on the network the handle is
\* attached to, whatever the pull went through (container.go Run).
RunNilServes ==
    [][\A c \in Containers :
         op[c] = "Run" /\ pc[c] # "idle" /\ err'[c] = "nil" =>
            /\ containerID[c] # NoID /\ Label[containerID[c]] = c
            /\ inst[containerID[c]] = "created" /\ inst'[containerID[c]] = "running"
            /\ attached[containerID[c]] = networkID[c]
            /\ store[ImageOf[c]] # "absent"]_vars

\* A program is never killed by the forced removal: a running instance
\* leaves the daemon only after a stop (container.go Close).
GracefulRemoval ==
    [][\A i \in Instances : inst[i] = "running" => inst'[i] \in {"running", "exited"}]_vars

\* The daemon's copy of an image with a fixed tag, if it lists it as it is
\* written, stays the one it was, so that the containers of one suite run the
\* same (container.go pullImage).
FixedTagStable ==
    [][\A m \in Verbatim \ Latest : store[m] = "stale" => store'[m] = "stale"]_vars

\* The call of c waits for output, for as long as it takes.
Waits(c) == pc[c] = "await" /\ deadline[arg[c]] = "none"

\* Run and Close come back, whatever the daemon answers, and AwaitOutput under
\* a deadline too, though nothing is written (container.go).
CallsReturn ==
    \A c \in Containers : pc[c] # "idle" /\ ~Waits(c) ~> pc[c] = "idle" \/ Waits(c)

--------------------------------------------------------------------------------
(* The inductive invariant: what a call relies on between two requests. *)

\* The ID of a handle names an instance the daemon created for it.
OwnID ==
    \A c \in Containers : containerID[c] # NoID =>
        /\ Label[containerID[c]] = c
        /\ inst[containerID[c]] # "absent"
        /\ containerID[c] \notin lost \union superseded

\* Nothing is known of an instance before it exists.
Fresh ==
    \A i \in Instances : inst[i] = "absent" =>
        attached[i] = NoNet /\ i \notin lost \union superseded

\* The request a call makes next agrees with the call, and a call that runs
\* has no result.
Program ==
    \A c \in Containers :
        /\ pc[c] \in RunPC => op[c] = "Run"
        /\ pc[c] \in ClosePC => op[c] = "Close"
        /\ pc[c] \in AwaitPC => op[c] = "AwaitOutput"
        /\ pc[c] # "idle" => err[c] = "none"

\* What earlier requests of the call have achieved when a later one is made.
Progress ==
    \A c \in Containers :
        /\ pc[c] \in {"connect", "start", "stop", "remove", "await"} => containerID[c] # NoID
        /\ pc[c] \in {"connect", "start"} =>
               inst[containerID[c]] = "created" /\ store[ImageOf[c]] # "absent"
        /\ pc[c] = "connect" => networkID[c] # NoNet
        /\ pc[c] = "start" => attached[containerID[c]] = networkID[c]
        /\ pc[c] = "remove" => inst[containerID[c]] # "running"

\* The handle has an instance that was started and is not removed.
Started(c) == containerID[c] # NoID /\ inst[containerID[c]] \in {"running", "exited"}

\* What a result says of the handle's own instance.
Outcome ==
    \A c \in Containers :
        /\ Returned(c, "Close", "nil") =>
               containerID[c] = NoID \/ inst[containerID[c]] = "removed"
        /\ Returned(c, "AwaitOutput", "nil") => containerID[c] # NoID
        /\ Returned(c, "Run", "nil") => Started(c)
        /\ op[c] = "Close" /\ grace[c] = "ahead" => containerID[c] # NoID

IInv ==
    /\ OwnID /\ Fresh /\ Program /\ Progress /\ Outcome
    /\ NothingUntracked /\ AwaitNilIsFinal /\ ExpiredCloseHasWindow

--------------------------------------------------------------------------------
(* The promise this implements. *)

PhaseOf == [absent |-> "new", created |-> "held", running |-> "serving",
            exited |-> "finished", removed |-> "released"]

Told(c) ==
    IF pc[c] # "idle" \/ err[c] # "nil" THEN "nothing"
    ELSE CASE op[c] = "Run"   -> "serving"
           [] op[c] = "Close" -> "released"
           [] OTHER           -> "nothing"

Promise == INSTANCE Lease WITH
    Holders <- Containers, Resources <- Instances, Owner <- Label, None <- NoID,
    own    <- containerID,
    phase  <- [i \in Instances |-> PhaseOf[inst[i]]],
    told   <- [c \in Containers |-> Told(c)],
    leaked <- {i \in lost \union superseded : Held(i)}

\* The handle is a lease on its container: what it reports of it is so when
\* it reports it, it gives up only what does not serve, and loses track of
\* a container in two ways only (container.go Run and Close).
ImplementsLease == Promise!Spec

--------------------------------------------------------------------------------
(* What the comments and documents say and the code does not do. *)

\* container.go:124: AwaitOutput blocks for a matched string or a timeout.
NilMeansMatched ==
    \A c \in Containers : Returned(c, "AwaitOutput", "nil") => containerID[c] \in ready
================================================================================
