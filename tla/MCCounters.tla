------------------------------ MODULE MCCounters ------------------------------
(* ErrorCounters on one port: ports never meet in the code it models. *)
EXTENDS ErrorCounters

CONSTANT p1

OnePort == {p1}
=============================================================================
