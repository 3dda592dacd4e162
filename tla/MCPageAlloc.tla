------------------------------ MODULE MCPageAlloc ------------------------------
(* Model checking of PageAlloc, on pages of two and three blocks, and of the *)
(* size classes, for every size.                                             *)
EXTENDS PageAlloc, TLC

CONSTANTS p, q, r

ASSUME BestFit ==
  \A n \in 1..LJ_PAGE_ALLOC_MAX_SIZE : IsBestFit(n, page_size_class(n))

Symmetry == Permutations(Chunk)
================================================================================
