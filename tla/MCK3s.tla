--------------------------------- MODULE MCK3s ---------------------------------
(* One application, of any kind, for TLC. *)
EXTENDS K3s, TLC

CONSTANTS c1, i1, m1, x1, xc

OneLabel == i1 :> c1
OneImage == c1 :> m1
OneCleanup == c1 :> xc

NoFaults == {}
AllFaults == {"refused", "lost", "inband", "severed"}
================================================================================
