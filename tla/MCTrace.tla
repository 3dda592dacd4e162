------------------------------- MODULE MCTrace --------------------------------
(* Model checking of Trace. *)
EXTENDS Trace, TLC

MCProtoOf == [s \in Sites |-> "p"]
Kinds == [f |-> "FUNCF", i |-> "ITERN", c |-> "CALL", r |-> "RET"]
MCKindOf == [s \in Sites |-> Kinds[s]]
Symmetry == Permutations(Ids)
================================================================================
