--------------------------------- MODULE Group ---------------------------------
(***************************************************************************)
(* A group of group.go: containers run in order on a network of their own  *)
(* and closed in reverse order, with hooks around each Run and Close.      *)
(*                                                                         *)
(* The group drives the handles of module Container: a step of this module *)
(* is a step of that one, or leaves its variables alone.  Run stops at the *)
(* first failure and cleans nothing; Close goes on after every failure and *)
(* reports them together.                                                  *)
(***************************************************************************)
EXTENDS Container

CONSTANTS
    N,      \* how many applications the group has
    App,    \* App[k]: the handle of the k-th application
    Hooks   \* Hooks[k]: how many hooks it has

ASSUME GroupAssumption ==
    /\ N \in Nat \ {0}
    /\ App \in [1..N -> Containers]
    /\ \A j, k \in 1..N : App[j] = App[k] => j = k
    /\ Hooks \in [1..N -> Nat]

VARIABLES
    gnet,      \* the networkID of the group
    gpc,       \* what the running call of the group does next
    gop,       \* the running, or last, call of the group
    gerr,      \* what the last call returned, "none" while it runs
    gctx,      \* the context given to it
    idx,       \* the application it works on
    hook,      \* how many hooks of that application it has run
    failed,    \* Close has an error to report
    lostNets   \* history: networks created by a request that failed

groupVars == <<gnet, gpc, gop, gerr, gctx, idx, hook, failed, lostNets>>
gvars == <<groupVars, vars>>

HookPC == {"beforeRun", "afterRun", "beforeClose", "afterClose"}

GroupTypeOK ==
    /\ gnet \in Networks \union {NoNet}
    /\ gpc \in {"idle", "create", "attach", "run", "running", "awaiting",
                "close", "closing", "remove"} \union HookPC
    /\ gop \in {"none", "Run", "Close"}
    /\ gerr \in {"none", "nil", "error"}
    /\ gctx \in Ctxs
    /\ idx \in 1..N
    /\ hook \in Nat
    /\ failed \in BOOLEAN
    /\ lostNets \subseteq Networks

GroupInit ==
    /\ Init
    /\ gnet = NoNet
    /\ gpc = "idle" /\ gop = "none" /\ gerr = "none"
    /\ gctx \in Ctxs
    /\ idx = 1 /\ hook = 0 /\ failed = FALSE
    /\ lostNets = {}

--------------------------------------------------------------------------------
This == App[idx]

\* The context of the group's call is done: the group takes no fresh one.
GroupDone == gctx \in cancelled \/ deadline[gctx] = "past"

GroupMayRefuse == GroupDone \/ "refused" \in Faults
GroupMayLose   == GroupDone \/ "lost" \in Faults

GroupReturn(e) == gpc' = "idle" /\ gerr' = e

GroupCall(o, x, k, pc0) ==
    /\ gpc = "idle"
    /\ gpc' = pc0 /\ gop' = o /\ gerr' = "none" /\ gctx' = x
    /\ idx' = k /\ hook' = 0 /\ failed' = FALSE
    /\ UNCHANGED <<gnet, lostNets, vars>>

--------------------------------------------------------------------------------
(* Run. *)

\* Instances and Networks bound the number of Run calls.
GroupRunCall(x) ==
    /\ \E n \in Networks : net[n] # "removed"
    /\ \A k \in 1..N : \E i \in Instances : Label[i] = App[k] /\ inst[i] = "absent"
    /\ GroupCall("Run", x, 1, "create")

\* The name of the network is the group's: a second one of that name is refused.
CreateNetwork ==
    /\ gpc = "create"
    /\ \/ \E n \in Networks :
            /\ Present = {}
            /\ NetworkCreated(n)
            /\ \/ ~GroupDone /\ gnet' = n /\ gpc' = "attach" /\ UNCHANGED <<gerr, lostNets>>
               \/ /\ GroupMayLose
                  /\ lostNets' = lostNets \union {n}
                  /\ GroupReturn("error") /\ UNCHANGED gnet
       \/ /\ GroupMayRefuse \/ Present # {}
          /\ GroupReturn("error")
          /\ UNCHANGED <<gnet, lostNets, vars>>
    /\ UNCHANGED <<gop, gctx, idx, hook, failed>>

\* Faulty variant: the handle is not told the network.
AttachAppSkipped ==
    /\ gpc = "attach"
    /\ gpc' = "beforeRun" /\ hook' = 0
    /\ UNCHANGED <<gnet, gop, gerr, gctx, idx, failed, lostNets, vars>>

AttachApp ==
    /\ gpc = "attach"
    /\ NetworkAttach(This, gnet)
    /\ gpc' = "beforeRun" /\ hook' = 0
    /\ UNCHANGED <<gnet, gop, gerr, gctx, idx, failed, lostNets>>

RunApp ==
    /\ gpc = "run"
    /\ RunCall(This, gctx)
    /\ gpc' = "running"
    /\ UNCHANGED <<gnet, gop, gerr, gctx, idx, hook, failed, lostNets>>

\* Faulty variant: the error of the container's Run is dropped.
AppRanAnyway ==
    /\ gpc = "running" /\ pc[This] = "idle"
    /\ gpc' = "afterRun" /\ hook' = 0
    /\ UNCHANGED <<gnet, gop, gerr, gctx, idx, failed, lostNets, vars>>

AppRan ==
    /\ gpc = "running" /\ pc[This] = "idle"
    /\ \/ err[This] = "nil" /\ gpc' = "afterRun" /\ hook' = 0 /\ UNCHANGED gerr
       \/ err[This] # "nil" /\ GroupReturn("error") /\ UNCHANGED hook
    /\ UNCHANGED <<gnet, gop, gctx, idx, failed, lostNets, vars>>

--------------------------------------------------------------------------------
(* Hooks: each may fail; one of AfterRun awaits the output of the          *)
(* container, as the tests and the example do.                             *)

HookCalled == gpc \in HookPC /\ hook < Hooks[idx]

\* runHooks ends: the call goes on to what follows the hooks.
Leave(stage) ==
    /\ hook' = 0
    /\ \/ stage = "beforeRun" /\ gpc' = "run" /\ UNCHANGED <<idx, gerr>>
       \/ stage = "afterRun" /\ idx < N /\ idx' = idx + 1 /\ gpc' = "attach" /\ UNCHANGED gerr
       \/ stage = "afterRun" /\ idx = N /\ GroupReturn("nil") /\ UNCHANGED idx
       \/ stage = "beforeClose" /\ gpc' = "close" /\ UNCHANGED <<idx, gerr>>
       \/ stage = "afterClose" /\ idx > 1 /\ idx' = idx - 1 /\ gpc' = "beforeClose" /\ UNCHANGED gerr
       \/ stage = "afterClose" /\ idx = 1 /\ gpc' = "remove" /\ UNCHANGED <<idx, gerr>>

HookNil ==
    /\ HookCalled /\ gpc # "afterRun"
    /\ hook' = hook + 1
    /\ UNCHANGED <<gnet, gpc, gop, gerr, gctx, idx, failed, lostNets, vars>>

\* The first error ends the hooks of that type, and Run with them.
HookError(stage) ==
    \/ gop = "Run" /\ GroupReturn("error") /\ UNCHANGED <<idx, hook, failed>>
    \/ gop = "Close" /\ failed' = TRUE /\ Leave(stage)

HookFails ==
    /\ HookCalled /\ gpc # "afterRun"
    /\ HookError(gpc)
    /\ UNCHANGED <<gnet, gop, gctx, lostNets, vars>>

HookAwaits ==
    /\ HookCalled /\ gpc = "afterRun"
    /\ AwaitCall(This, gctx)
    /\ gpc' = "awaiting"
    /\ UNCHANGED <<gnet, gop, gerr, gctx, idx, hook, failed, lostNets>>

\* Faulty variant: the group waits until the hook succeeds.
HookAwaitedOnlyNil ==
    /\ gpc = "awaiting" /\ pc[This] = "idle"
    /\ err[This] = "nil" /\ hook' = hook + 1 /\ gpc' = "afterRun"
    /\ UNCHANGED <<gnet, gop, gerr, gctx, idx, failed, lostNets, vars>>

HookAwaited ==
    /\ gpc = "awaiting" /\ pc[This] = "idle"
    /\ \/ err[This] = "nil" /\ hook' = hook + 1 /\ gpc' = "afterRun" /\ UNCHANGED <<gerr, idx, failed>>
       \/ err[This] # "nil" /\ HookError("afterRun")
    /\ UNCHANGED <<gnet, gop, gctx, lostNets, vars>>

HooksDone ==
    /\ gpc \in HookPC /\ hook = Hooks[idx]
    /\ Leave(gpc)
    /\ UNCHANGED <<gnet, gop, gctx, failed, lostNets, vars>>

--------------------------------------------------------------------------------
(* Close. *)

\* Faulty variants: the loop starts one too high; it starts at the low end.
GroupCloseCallHigh(x) == GroupCall("Close", x, N + 1, "beforeClose")
GroupCloseCallLow(x) == GroupCall("Close", x, 1, "beforeClose")

GroupCloseCall(x) == GroupCall("Close", x, N, "beforeClose")

CloseApp ==
    /\ gpc = "close"
    /\ CloseCall(This, gctx)
    /\ gpc' = "closing"
    /\ UNCHANGED <<gnet, gop, gerr, gctx, idx, hook, failed, lostNets>>

\* Faulty variant: the error of the container's Close is not collected.
AppClosedQuiet ==
    /\ gpc = "closing" /\ pc[This] = "idle"
    /\ gpc' = "afterClose" /\ hook' = 0
    /\ UNCHANGED <<gnet, gop, gerr, gctx, idx, failed, lostNets, vars>>

AppClosed ==
    /\ gpc = "closing" /\ pc[This] = "idle"
    /\ failed' = (failed \/ err[This] # "nil")
    /\ gpc' = "afterClose" /\ hook' = 0
    /\ UNCHANGED <<gnet, gop, gerr, gctx, idx, lostNets, vars>>

\* The daemon knows no network "": the client refuses to ask it.
RemoveNetwork ==
    /\ gpc = "remove"
    /\ \/ /\ gnet # NoNet /\ NetworkRemoved(gnet)
          /\ \/ ~GroupDone /\ GroupReturn(IF failed THEN "error" ELSE "nil")
             \/ GroupMayLose /\ GroupReturn("error")
       \/ /\ \/ GroupMayRefuse
             \/ gnet = NoNet
             \/ gnet # NoNet /\ (net[gnet] # "present" \/ InUse(gnet))
          /\ GroupReturn("error")
          /\ UNCHANGED vars
    /\ UNCHANGED <<gnet, gop, gctx, idx, hook, failed, lostNets>>

--------------------------------------------------------------------------------
GroupCalls == \E x \in Ctxs : GroupRunCall(x) \/ GroupCloseCall(x)

GroupStep ==
    \/ CreateNetwork \/ AttachApp \/ RunApp \/ AppRan
    \/ HookNil \/ HookFails \/ HookAwaits \/ HookAwaited \/ HooksDone
    \/ CloseApp \/ AppClosed \/ RemoveNetwork

GroupNext ==
    \/ GroupCalls
    \/ GroupStep
    \/ /\ WorldStep \/ \E c \in Containers : ApiStep(c)
       /\ UNCHANGED groupVars

GroupSpec == GroupInit /\ [][GroupNext]_gvars

\* The daemon answers every request it got, time goes on, and so does the
\* group's own code.  Nothing makes a caller call, a program write its line
\* or a log break.
GroupFairSpec ==
    /\ GroupSpec
    /\ WF_gvars(GroupStep)
    /\ \A c \in Containers : WF_gvars(ApiStep(c) /\ UNCHANGED groupVars)
    /\ \A x \in Ctxs : WF_gvars(DeadlinePasses(x) /\ UNCHANGED groupVars)

--------------------------------------------------------------------------------
(* Properties. *)

\* The handle's instance was started on the group's network; its output came,
\* or its program is over.
Serves(c) == Started(c) /\ attached[containerID[c]] = gnet
Heard(c) == containerID[c] \in ready \/ inst[containerID[c]] = "exited"

\* The k-th application was created, connected to the group's network,
\* started, and waited for by its AfterRun hooks.
Up(k) == Serves(App[k]) /\ (Hooks[k] > 0 => Heard(App[k]))

\* Run takes up an application, hooks included, only when every one before
\* it is up, and returns nil only when all are (group.go Run).
StartsInOrder ==
    /\ gop = "Run" /\ gpc # "idle" => \A k \in 1..(idx - 1) : Up(k)
    /\ gop = "Run" /\ gerr = "nil" => \A k \in 1..N : Up(k)

\* The last thing the handle did is a Close, whose error is not forgotten.
Closed(k) ==
    /\ op[App[k]] = "Close" /\ pc[App[k]] = "idle"
    /\ failed \/ err[App[k]] = "nil"

\* Close closes an application only when every later one was closed, and it
\* returns, nil or not, only after it tried them all (group.go Close).
ClosesAllInReverse ==
    gop = "Close" =>
        \A k \in 1..N : k > idx \/ gpc \in {"idle", "remove"} => Closed(k)

\* Close that returns nil has left neither an instance nor a network of the
\* group, whatever failed in Run before it, but those of requests whose
\* answer was lost, and the instances that an earlier Close could not remove
\* and whose IDs a later Run of the group then overwrote (group.go Close).
GroupCloseLeavesNothing ==
    gop = "Close" /\ gerr = "nil" =>
        /\ \A i \in Instances : Held(i) => i \in lost \union superseded
        /\ \A n \in Networks : net[n] = "present" => n \in lostNets

\* No instance of the group ever runs off the group's network, not even
\* one that a failed Run left behind (group.go Run, container.go Run).
NeverRunsDetached ==
    \A i \in Instances : inst[i] = "running" => attached[i] = gnet /\ net[gnet] = "present"

\* A call of the group under a deadline comes back (group.go Run, Close).
GroupReturns == gpc # "idle" /\ deadline[gctx] # "none" ~> gpc = "idle"

--------------------------------------------------------------------------------
(* The inductive invariant: what the group relies on between two steps. *)

RunStage == {"create", "attach", "beforeRun", "run", "running", "afterRun", "awaiting"}
CloseStage == {"beforeClose", "close", "closing", "afterClose", "remove"}

\* Where the group is agrees with its call, which has no result yet.
Stage ==
    /\ gpc \in RunStage => gop = "Run"
    /\ gpc \in CloseStage => gop = "Close"
    /\ gpc # "idle" => gerr = "none"
    /\ gpc \in RunStage \ {"create"} => gnet # NoNet
    /\ gpc = "create" => idx = 1
    /\ gop = "Close" /\ gerr = "nil" => ~failed

\* Only the handle the group works on is busy, with the call it was given,
\* and a handle outside the group never has an instance.
Driven ==
    /\ \A c \in Containers :
          pc[c] # "idle" => c = This /\ gpc \in {"running", "awaiting", "closing"}
    /\ gpc = "running" => op[This] = "Run"
    /\ gpc = "awaiting" => op[This] = "AwaitOutput"
    /\ gpc = "closing" => op[This] = "Close"
    /\ \A c \in Containers : containerID[c] # NoID => \E k \in 1..N : App[k] = c

\* The daemon has no network of the group but the one it knows and those it
\* never heard of, a handle that runs was told the one it knows, and before
\* there was one nothing ran.
Networked ==
    /\ \A n \in Networks : net[n] = "present" =>
          n \in lostNets \/ (n = gnet /\ ~(gop = "Close" /\ gerr = "nil"))
    /\ gpc \in {"beforeRun", "run", "running"} => networkID[This] = gnet
    /\ gnet = NoNet => \A i \in Instances : inst[i] # "running"

\* What Run has achieved for the application it works on.
RunsUp ==
    /\ gpc = "running" /\ Returned(This, "Run", "nil") => attached[containerID[This]] = gnet
    /\ gpc \in {"afterRun", "awaiting"} => Serves(This) /\ (hook > 0 => Heard(This))

\* What Close has done for it.
ClosesDown == gpc = "afterClose" => Closed(idx)

\* An image is about to be pulled because there is none.
PullsMissing ==
    \A c \in Containers :
        pc[c] = "pull" /\ ImageOf[c] \in Verbatim \ Latest => store[ImageOf[c]] = "absent"

GInv ==
    /\ Stage /\ Driven /\ Networked /\ RunsUp /\ ClosesDown /\ PullsMissing
    /\ StartsInOrder /\ ClosesAllInReverse /\ NeverRunsDetached

================================================================================
