--------------------------------- MODULE Table ---------------------------------
(***************************************************************************)
(* What a Lua table promises: a function from keys to values, nil where    *)
(* nothing was assigned, that an assignment changes at its key and every   *)
(* other operation leaves as it is.                                        *)
(***************************************************************************)
CONSTANTS Keys, Value(_), NULL
VARIABLES
  map,
  op    \* the last operation: the keys it assigns to, and what it assigns

Init == map = [k \in Keys |-> NULL] /\ op = <<{}, NULL>>

Assign(ks, v) ==
  /\ op' = <<ks, v>>
  /\ map' = [k \in Keys |-> IF k \in ks THEN v ELSE map[k]]

Set(k) == Assign({k}, Value(k)) \/ Assign({k}, NULL)
Clear == Assign(Keys, NULL)
Other == Assign({}, NULL)

Next == Clear \/ Other \/ \E k \in Keys : Set(k)
Spec == Init /\ [][Next]_<<map, op>>
================================================================================
