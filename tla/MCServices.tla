------------------------------- MODULE MCServices -------------------------------
(* Two callers of one application with one port, for TLC. *)
EXTENDS Services
================================================================================
