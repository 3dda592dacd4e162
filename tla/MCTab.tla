--------------------------------- MODULE MCTab ---------------------------------
EXTENDS Tab, TLC
CONSTANTS a, b
Symmetry == Permutations(Strs)

\* Every operation sets op anew and none reads it: states that differ in op
\* alone have the same successors, and TLC checks the steps to all of them.
AllButOp == <<t, sid, it_state, it_key, due>>
================================================================================
