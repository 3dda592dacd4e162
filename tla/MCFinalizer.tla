------------------------------ MODULE MCFinalizer ------------------------------
(* Model checking of Finalizer: m1 has a C finalizer without upvalues, m2 a  *)
(* Lua closure.                                                              *)
EXTENDS Finalizer

CONSTANTS m1, m2, c1, c2

MCMeta == {m1, m2}
MCCallable == {c1, c2}
MCGcOf == [m \in {m1, m2} |-> IF m = m1 THEN c1 ELSE c2]
================================================================================
