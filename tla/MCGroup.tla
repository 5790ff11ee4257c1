-------------------------------- MODULE MCGroup --------------------------------
(* Groups of one and two applications for TLC. *)
EXTENDS Group, TLC

CONSTANTS c1, c2, i1, i2, i3, n1, n2, m1

OneLabel == i1 :> c1 @@ i3 :> c1
OneImage == c1 :> m1
OneApp == <<c1>>
OneHook == <<1>>

TwoLabels == i1 :> c1 @@ i2 :> c2
SameImage == c1 :> m1 @@ c2 :> m1
TwoApps == <<c1, c2>>
OneHookEach == <<1, 1>>

DaemonFaults == {"refused", "lost"}

\* With one application its instances, and the networks, are interchangeable.
Interchangeable == Permutations({i1, i3}) \union Permutations({n1, n2})
================================================================================
