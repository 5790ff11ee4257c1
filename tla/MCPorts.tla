-------------------------------- MODULE MCPorts --------------------------------
(* Three host ports, two container ports and three calls, for TLC. *)
EXTENDS Ports, TLC

CONSTANTS h1, h2, h3, p1, p2

Interchangeable == Permutations({h1, h2, h3}) \union Permutations({p1, p2})
================================================================================
