------------------------------- MODULE MCStrTab -------------------------------
(* Model checking of StrTab with hashes that collide. *)
EXTENDS StrTab, TLC

Sparse == <<
  [a |-> 0, b |-> 0, c |-> 4, d |-> 1, e |-> 3],
  [a |-> 0, b |-> 1, c |-> 0, d |-> 1, e |-> 2] >>
Dense == <<
  [a |-> 0, b |-> 1, c |-> 2, d |-> 0, e |-> 7],
  [a |-> 1, b |-> 0, c |-> 3, d |-> 1, e |-> 2] >>
MCsparse(s, c) == Sparse[s][c]
MCdense(s, c) == Dense[s][c]
================================================================================
