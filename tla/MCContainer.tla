------------------------------ MODULE MCContainer ------------------------------
(* Small instances of Container for TLC. *)
EXTENDS Container, TLC

CONSTANTS c1, c2, i1, i2, x1, x2, m1

SingleLabel == i1 :> c1
OneLabel == i1 :> c1 @@ i2 :> c1

OneImage == c1 :> m1

NoFaults == {}
AllFaults == {"refused", "lost", "inband", "severed"}

\* With one handle its instances, and its contexts, are interchangeable.
Interchangeable == Permutations({i1, i2}) \union Permutations({x1, x2})
================================================================================
