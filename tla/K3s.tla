---------------------------------- MODULE K3s ----------------------------------
(***************************************************************************)
(* Close of an application and, for k3s.go, the kubeconfig file it owns    *)
(* besides its container.  The last step of its constructor writes the     *)
(* file, and its Close removes the file before it closes the container.    *)
(* The other applications have no file, as a k3s without a path would be.  *)
(***************************************************************************)
EXTENDS Application

VARIABLES
    kubeconfig,  \* kubeconfig[c]: the file; kubeconfigPath names it once it is "written"
    kerr         \* kerr[c]: what the last Close of the application returned

fileVars == <<kubeconfig, kerr>>
kvars == <<fileVars, avars>>

K3sTypeOK ==
    /\ ApplicationTypeOK
    /\ kubeconfig \in [Containers -> {"none", "dir", "written", "deleted"}]
    /\ kerr \in [Containers -> {"none", "pending", "file", "nil", "container"}]

K3sInit ==
    /\ ApplicationInit
    /\ kubeconfig = [c \in Containers |-> "none"]
    /\ kerr = [c \in Containers |-> "none"]

--------------------------------------------------------------------------------
HasFile(c) == kind[c] = K3sServer

\* A write that fails leaves the directory, and perhaps a part of the file,
\* with no path to it.
K3sConstructor(c) ==
    /\ Constructor(c)
    /\ kubeconfig' = [kubeconfig EXCEPT ![c] =
           CASE at[c] = "mkdir" /\ at'[c] = "write" -> "dir"
             [] at[c] = "write" /\ at'[c] = "done" -> "written"
             [] OTHER -> @]
    /\ UNCHANGED kerr

\* kubeconfigPath keeps its value when the file is removed.  "refused" stands
\* for a failure of the file system too.
K3sClose(c, x) ==
    /\ \/ /\ kubeconfig[c] \in {"none", "written"}
          /\ kubeconfig' = [kubeconfig EXCEPT ![c] = IF @ = "written" THEN "deleted" ELSE @]
          /\ kerr' = [kerr EXCEPT ![c] = "pending"]
          /\ Close(c, x)
       \/ /\ apc[c] \in {"built", "closing"} /\ pc[c] = "idle"
          /\ \/ kubeconfig[c] = "deleted"
             \/ kubeconfig[c] = "written" /\ "refused" \in Faults
          /\ kerr' = [kerr EXCEPT ![c] = "file"]
          /\ UNCHANGED <<kubeconfig, avars>>

\* Faulty variant: the error is dropped.
K3sClosedQuiet(c) ==
    /\ kerr[c] = "pending" /\ pc[c] = "idle"
    /\ kerr' = [kerr EXCEPT ![c] = "nil"]
    /\ UNCHANGED <<kubeconfig, avars>>

K3sClosed(c) ==
    /\ kerr[c] = "pending" /\ pc[c] = "idle"
    /\ kerr' = [kerr EXCEPT ![c] = IF err[c] = "nil" THEN "nil" ELSE "container"]
    /\ UNCHANGED <<kubeconfig, avars>>

K3sNext ==
    \/ \E c \in Containers, x \in UserCtxs : New(c, x) /\ UNCHANGED fileVars
    \/ \E c \in Containers, x \in UserCtxs : kerr[c] # "pending" /\ K3sClose(c, x)
    \/ \E c \in Containers : K3sConstructor(c) \/ K3sClosed(c)
    \/ \E c \in Containers : ApiStep(c) /\ UNCHANGED <<appVars, fileVars>>
    \/ \E i \in Instances : (ServiceAccepts(i) \/ Freezes(i)) /\ UNCHANGED fileVars
    \/ ApplicationWorld /\ UNCHANGED fileVars

K3sSpec == K3sInit /\ [][K3sNext]_kvars

\* A constructor runs on; the sleep between two attempts ends.
K3sFairSpec ==
    /\ K3sSpec
    /\ \A c \in Containers :
          WF_kvars(K3sConstructor(c)) /\ WF_kvars(ApiStep(c) /\ UNCHANGED <<appVars, fileVars>>)
    /\ \A x \in Ctxs : WF_kvars(Ages(x) /\ UNCHANGED <<appVars, fileVars>>)

--------------------------------------------------------------------------------
(* Properties. *)

\* A Close of the application that returns nil has left no container and, for
\* k3s, has removed the file the constructor wrote (k3s.go Close).
K3sCloseLeavesNothing ==
    \A c \in Containers :
        kerr[c] = "nil" =>
            /\ ~Held(containerID[c])
            /\ HasFile(c) => kubeconfig[c] = "deleted"

\* k3s.go:135: Close stops the container and cleans up the file.  A Close
\* that only trips over the missing file has no container left to stop.
K3sCloseStops ==
    \A c \in Containers :
        kerr[c] = "file" /\ kubeconfig[c] = "deleted" => inst[containerID[c]] # "running"

--------------------------------------------------------------------------------
(* The inductive invariant. *)

\* A constructor of k3s that is done has written the file.
FileWritten ==
    \A c \in Containers :
        HasFile(c) =>
            /\ apc[c] \in {"built", "closing"} => at[c] = "done"
            /\ at[c] = "done" => kubeconfig[c] \in {"written", "deleted"}

\* A Close that got past the file waits for, or passed on, the result of the
\* container's.
FileFirst ==
    \A c \in Containers :
        /\ kerr[c] \in {"pending", "nil", "container"} =>
               apc[c] = "closing" /\ kubeconfig[c] # "written"
        /\ kerr[c] = "nil" => Returned(c, "Close", "nil")

KInv == FileWritten /\ FileFirst
================================================================================
