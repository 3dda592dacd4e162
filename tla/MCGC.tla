--------------------------------- MODULE MCGC ---------------------------------
(* Model checking of GC: interchangeable objects of the small populations.   *)
EXTENDS GC, TLC

Symmetry == Permutations(Tab) \cup Permutations(Func) \cup Permutations(Upval)
================================================================================
