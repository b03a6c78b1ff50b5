------------------------------ MODULE MCHandover ------------------------------
(* Two processes, one of which may die, and an Agent edited while they work.    *)
EXTENDS Handover
=============================================================================
