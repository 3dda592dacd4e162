------------------------------- MODULE Allocator -------------------------------
(***************************************************************************)
(* What a lua_Alloc function promises: a block that has been handed out    *)
(* keeps its contents and overlaps no other block until it is freed, and a *)
(* reallocation moves the contents.  Requests that fail are left out.      *)
(***************************************************************************)
EXTENDS Naturals

CONSTANTS
  Addr,           \* the places a block can be at
  Overlap(_, _),  \* two places share memory
  Sizes           \* the sizes that are asked for

VARIABLES
  open,   \* the allocator exists
  size,   \* size of the block at a place, 0 when there is none
  data    \* what a block holds: "data" since the program has written to it

Live == {a \in Addr : size[a] > 0}
Vacant(b, live) == b \notin live /\ \A a \in live : ~Overlap(a, b)

Init ==
  /\ open = FALSE
  /\ size = [a \in Addr |-> 0]
  /\ data = [a \in Addr |-> "junk"]

Create ==
  /\ ~open /\ open' = TRUE
  /\ UNCHANGED <<size, data>>

Malloc(b, n) ==
  /\ open
  /\ Vacant(b, Live)
  /\ size' = [size EXCEPT ![b] = n]
  /\ UNCHANGED <<open, data>>

Write(a) ==
  /\ a \in Live
  /\ data' = [data EXCEPT ![a] = "data"]
  /\ UNCHANGED <<open, size>>

Realloc(a, b, n) ==
  /\ a \in Live
  /\ a = b \/ Vacant(b, Live)
  /\ size' = [size EXCEPT ![a] = 0, ![b] = n]
  /\ data' = [data EXCEPT ![a] = "junk", ![b] = data[a]]
  /\ UNCHANGED open

Free(a) ==
  /\ a \in Live
  /\ size' = [size EXCEPT ![a] = 0]
  /\ data' = [data EXCEPT ![a] = "junk"]
  /\ UNCHANGED open

Destroy ==
  /\ open /\ open' = FALSE
  /\ size' = [a \in Addr |-> 0]
  /\ data' = [a \in Addr |-> "junk"]

Next ==
  \/ Create \/ Destroy
  \/ \E a \in Live : Write(a) \/ Free(a)
  \/ \E b \in Addr, n \in Sizes : Malloc(b, n)
  \/ \E a \in Live, b \in Addr, n \in Sizes : Realloc(a, b, n)

Spec == Init /\ [][Next]_<<open, size, data>>
================================================================================
