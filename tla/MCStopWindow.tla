------------------------------ MODULE MCStopWindow ------------------------------
(* Six ticks to a second and two seconds by default, for TLC. *)
EXTENDS StopWindow

SomeDeadlines == 0..16

\* At once, about a second, about two, and never.
SomeWorks == {0, 5, 6, 7, 11, 12, 100}
================================================================================
