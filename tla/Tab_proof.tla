------------------------------- MODULE Tab_proof -------------------------------
(***************************************************************************)
(* Theorems about Tab for any finite set of keys, any string IDs and any   *)
(* sizes.                                                                  *)
(*                                                                         *)
(* A chain is a function from nodes to nodes; a node is on the chain of    *)
(* another one if it is in each set that contains that one and that no     *)
(* link leads out of.  The hash part is Sound if the chains have no        *)
(* cycles and do not join, a node that was never used is on none, and      *)
(* looking up the key of a live node finds that node.  The last is what    *)
(* Brent's variation has to keep true, and what a resurrected key puts at  *)
(* risk: a dead node may come to bear a key that another node is live      *)
(* under.  It is stated with the first node that bears a key on the chain  *)
(* of the key's main position, not with the main positions of the dead     *)
(* nodes, which a new string changes.  In the middle of an eviction it     *)
(* holds only of the nodes that are not behind the one being rechained     *)
(* (Semi).                                                                 *)
(*                                                                         *)
(* A table is TabOk if its hash part is Sound and holds no key that the    *)
(* array part is for.  Each operation is then described by what it does    *)
(* to the set of the keys it has (Contents).                               *)
(***************************************************************************)
EXTENDS Tab, ListLemmas, FiniteSetTheorems, TLAPS

--------------------------------------------------------------------------------
(* Chains: a function nx from each node to the next one, or NULL. *)

Closed(nx, S) == \A i \in S : nx[i] # NULL => nx[i] \in S
\* Node b is on the chain from node a: in each set that a is in and that no
\* link leads out of.
Reaches(nx, a, b) ==
  \A S \in SUBSET DOMAIN nx : a \in S /\ Closed(nx, S) => b \in S
\* No two nodes have the same successor, and no set of nodes is a cycle.
Linear(nx) ==
  /\ \A i, j \in DOMAIN nx : nx[i] = nx[j] /\ nx[i] # NULL => i = j
  /\ \A S \in SUBSET DOMAIN nx : S # {} => \E i \in S : nx[i] \notin S
Links(D) == [D -> D \cup {NULL}]

LEMMA ReachSelf ==
  ASSUME NEW D, NEW nx \in Links(D), NEW a \in D
  PROVE  Reaches(nx, a, a)
  BY DEF Reaches

LEMMA ReachType ==
  ASSUME NEW D, NEW nx \in Links(D), NEW a \in D, NEW b, Reaches(nx, a, b)
  PROVE  b \in D
<1>1. Closed(nx, D) /\ DOMAIN nx = D
  BY DEF Closed, Links
<1>. QED
  BY <1>1 DEF Reaches

LEMMA ReachTrans ==
  ASSUME NEW D, NEW nx \in Links(D), NEW a \in D, NEW b \in D, NEW c \in D,
         Reaches(nx, a, b), Reaches(nx, b, c)
  PROVE  Reaches(nx, a, c)
  BY DEF Reaches

LEMMA ReachNext ==
  ASSUME NEW D, NULL \notin D, NEW nx \in Links(D), NEW a \in D, NEW b \in D,
         Reaches(nx, a, b), nx[b] # NULL
  PROVE  nx[b] \in D /\ Reaches(nx, a, nx[b])
  BY DEF Reaches, Closed, Links

\* What a node reaches besides itself its successor reaches.
LEMMA ReachStep ==
  ASSUME NEW D, NULL \notin D, NEW nx \in Links(D), NEW a \in D, NEW b \in D,
         Reaches(nx, a, b), a # b
  PROVE  nx[a] \in D /\ Reaches(nx, nx[a], b)
<1>. DEFINE S == {i \in D : i = a \/ (nx[a] # NULL /\ Reaches(nx, nx[a], i))}
<1>1. DOMAIN nx = D
  BY DEF Links
<1>2. a \in S /\ S \in SUBSET D
  OBVIOUS
<1>3. ASSUME NEW i \in S, nx[i] # NULL PROVE nx[i] \in S
  <2>1. nx[i] \in D
    BY <1>3 DEF Links
  <2>2. CASE i = a
    <3>1. Reaches(nx, nx[a], nx[a])
      BY <2>1, <2>2, ReachSelf
    <3>. QED
      BY <2>1, <2>2, <3>1, <1>3
  <2>3. CASE i # a
    <3>1. nx[a] # NULL /\ nx[a] \in D /\ Reaches(nx, nx[a], i) /\ i \in D
      BY <2>3, <1>3 DEF Links
    <3>2. Reaches(nx, nx[a], nx[i])
      BY <3>1, <1>3, ReachNext
    <3>. QED
      BY <3>1, <3>2, <2>1
  <2>. QED
    BY <2>2, <2>3
<1>. HIDE DEF S
<1>4. b \in S
  BY <1>1, <1>2, <1>3 DEF Reaches, Closed
<1>. QED
  BY <1>4 DEF S, Links

\* Of two nodes on a chain one is behind the other.
LEMMA ReachOrder ==
  ASSUME NEW D, NULL \notin D, NEW nx \in Links(D),
         NEW a \in D, NEW b \in D, NEW c \in D,
         Reaches(nx, a, b), Reaches(nx, a, c)
  PROVE  Reaches(nx, b, c) \/ Reaches(nx, c, b)
<1>. DEFINE S == {i \in D : Reaches(nx, i, b) \/ Reaches(nx, b, i)}
<1>1. DOMAIN nx = D
  BY DEF Links
<1>2. a \in S /\ S \in SUBSET D
  OBVIOUS
<1>3. ASSUME NEW i \in S, nx[i] # NULL PROVE nx[i] \in S
  <2>1. nx[i] \in D
    BY <1>3 DEF Links
  <2>2. CASE i = b
    BY <2>1, <2>2, <1>3, ReachSelf, ReachNext
  <2>3. CASE i # b /\ Reaches(nx, i, b)
    BY <2>1, <2>3, ReachStep
  <2>4. CASE Reaches(nx, b, i)
    BY <2>1, <2>4, <1>3, ReachNext
  <2>. QED
    BY <2>2, <2>3, <2>4
<1>. HIDE DEF S
<1>4. c \in S
  BY <1>1, <1>2, <1>3 DEF Reaches, Closed
<1>. QED
  BY <1>4 DEF S

\* There is no way back on a chain.
LEMMA ReachBack ==
  ASSUME NEW D, NULL \notin D, NEW nx \in Links(D), Linear(nx),
         NEW a \in D, NEW b \in D, Reaches(nx, a, b), Reaches(nx, b, a)
  PROVE  a = b
<1>. SUFFICES ASSUME a # b PROVE FALSE
  OBVIOUS
<1>. DEFINE S == {i \in D : Reaches(nx, a, i) /\ Reaches(nx, i, a)}
<1>1. DOMAIN nx = D
  BY DEF Links
<1>2. a \in S
  BY ReachSelf
<1>3. \E i \in S : nx[i] \notin S
  <2>1. S \in SUBSET DOMAIN nx /\ S # {}
    BY <1>1, <1>2
  <2>. QED
    BY <2>1 DEF Linear
<1>4. PICK i \in S : nx[i] \notin S
  BY <1>3
<1>5. nx[i] \in D /\ Reaches(nx, nx[i], a)
  <2>1. CASE i # a
    BY <2>1, ReachStep
  <2>2. CASE i = a
    <3>1. nx[a] \in D /\ Reaches(nx, nx[a], b)
      BY ReachStep
    <3>. QED
      BY <3>1, <2>2, ReachTrans
  <2>. QED
    BY <2>1, <2>2
<1>6. nx[i] # NULL /\ Reaches(nx, a, i) /\ i \in D
  BY <1>5
<1>7. Reaches(nx, a, nx[i])
  BY <1>6, ReachNext
<1>. QED
  BY <1>4, <1>5, <1>7

\* A node that is reached from another one has a predecessor there.
LEMMA ReachPrevious ==
  ASSUME NEW D, NULL \notin D, NEW nx \in Links(D), NEW a \in D, NEW b \in D,
         Reaches(nx, a, b), a # b
  PROVE  \E p \in D : nx[p] = b /\ Reaches(nx, a, p)
<1>. SUFFICES ASSUME \A p \in D : nx[p] = b => ~ Reaches(nx, a, p)
              PROVE  FALSE
  OBVIOUS
<1>. DEFINE S == {i \in D : Reaches(nx, a, i) /\ i # b}
<1>1. DOMAIN nx = D
  BY DEF Links
<1>2. a \in S /\ S \in SUBSET D
  BY ReachSelf
<1>3. ASSUME NEW i \in S, nx[i] # NULL PROVE nx[i] \in S
  BY <1>3, ReachNext
<1>. HIDE DEF S
<1>4. b \in S
  BY <1>1, <1>2, <1>3 DEF Reaches, Closed
<1>. QED
  BY <1>4 DEF S

\* Nothing is behind the end of a chain.
LEMMA ReachEnd ==
  ASSUME NEW D, NULL \notin D, NEW nx \in Links(D), NEW a \in D, NEW b \in D,
         nx[a] = NULL, Reaches(nx, a, b)
  PROVE  a = b
  BY ReachStep

Behind(nx, a) == {i \in DOMAIN nx : Reaches(nx, a, i)}
LEMMA BehindNext ==
  ASSUME NEW D, NULL \notin D, NEW nx \in Links(D), Linear(nx), NEW a \in D,
         nx[a] # NULL
  PROVE  Behind(nx, nx[a]) = Behind(nx, a) \ {a} /\ nx[a] \in D /\ nx[a] # a
<1>1. nx[a] \in D /\ Reaches(nx, a, nx[a]) /\ DOMAIN nx = D
  BY ReachSelf, ReachNext DEF Links
<1>2. nx[a] # a
  <2>1. {a} \in SUBSET DOMAIN nx /\ {a} # {}
    BY <1>1
  <2>2. \E i \in {a} : nx[i] \notin {a}
    BY <2>1 DEF Linear
  <2>. QED
    BY <2>2
<1>3. ASSUME NEW i \in D, Reaches(nx, nx[a], i) PROVE Reaches(nx, a, i) /\ i # a
  BY <1>1, <1>2, <1>3, ReachTrans, ReachBack
<1>4. ASSUME NEW i \in D, Reaches(nx, a, i), i # a PROVE Reaches(nx, nx[a], i)
  BY <1>4, ReachStep
<1>. QED
  BY <1>1, <1>2, <1>3, <1>4 DEF Behind
--------------------------------------------------------------------------------
(* The two ways in which a chain changes. *)

Isolated(nx, x) == nx[x] = NULL /\ \A i \in DOMAIN nx : nx[i] # x

\* Node x, which is on no chain, joins the one of m behind m.
Joined2(nx, ny, m, x) ==
  \A i \in DOMAIN nx : ny[i] = IF i = x THEN nx[m] ELSE IF i = m THEN x ELSE nx[i]
\* Node y, behind p, leaves its chain.
Left(nx, ny, p, y) ==
  \A i \in DOMAIN nx : ny[i] = IF i = y THEN NULL ELSE IF i = p THEN nx[y] ELSE nx[i]

LEMMA JoinReaches ==
  ASSUME NEW D, NULL \notin D, NEW nx \in Links(D), NEW ny \in Links(D),
         NEW m \in D, NEW x \in D, m # x, Isolated(nx, x), Joined2(nx, ny, m, x)
  PROVE  /\ \A a, b \in D \ {x} : Reaches(ny, a, b) <=> Reaches(nx, a, b)
         /\ \A a \in D \ {x} : Reaches(ny, a, x) <=> Reaches(nx, a, m)
         /\ \A b \in D \ {x} : Reaches(ny, x, b) => Reaches(nx, m, b)
<1>1. DOMAIN nx = D /\ DOMAIN ny = D
  BY DEF Links
<1>2. /\ ny[x] = nx[m] /\ ny[m] = x /\ nx[x] = NULL /\ nx[m] # x
      /\ \A i \in D : nx[i] # x /\ (i # x /\ i # m => ny[i] = nx[i])
  BY <1>1 DEF Joined2, Isolated
<1>3. ASSUME NEW a \in D \ {x}, NEW b \in D \ {x}, Reaches(nx, a, b)
      PROVE  Reaches(ny, a, b)
  <2>. SUFFICES ASSUME NEW S \in SUBSET D, a \in S, Closed(ny, S) PROVE b \in S
    BY <1>1 DEF Reaches
  <2>1. ASSUME NEW i \in S \ {x}, nx[i] # NULL PROVE nx[i] \in S \ {x}
    <3>1. CASE i = m
      <4>1. x \in S
        BY <3>1, <1>2 DEF Closed
      <4>. QED
        BY <3>1, <4>1, <2>1, <1>2 DEF Closed
    <3>2. CASE i # m
      BY <3>2, <2>1, <1>2 DEF Closed
    <3>. QED
      BY <3>1, <3>2
  <2>2. Closed(nx, S \ {x}) /\ a \in S \ {x}
    BY <2>1 DEF Closed
  <2>3. b \in S \ {x}
    BY <2>2, <1>1, <1>3 DEF Reaches
  <2>. QED
    BY <2>3
<1>4. ASSUME NEW a \in D \ {x}, NEW b \in D, Reaches(ny, a, b), b # x \/ ~ Reaches(nx, a, m)
      PROVE  b # x /\ Reaches(nx, a, b)
  <2>. SUFFICES ASSUME NEW S \in SUBSET D, a \in S, Closed(nx, S),
                       b # x \/ m \notin S
                PROVE  b # x /\ b \in S
    BY <1>1, <1>4 DEF Reaches
  <2>. DEFINE T == (S \ {x}) \cup IF m \in S THEN {x} ELSE {}
  <2>1. ASSUME NEW i \in T, ny[i] # NULL PROVE ny[i] \in T
    <3>1. CASE i = x
      BY <3>1, <2>1, <1>2 DEF Closed
    <3>2. CASE i = m
      BY <3>2, <1>2
    <3>3. CASE i # x /\ i # m
      BY <3>3, <2>1, <1>2 DEF Closed
    <3>. QED
      BY <3>1, <3>2, <3>3
  <2>2. Closed(ny, T) /\ a \in T /\ T \in SUBSET D
    BY <2>1 DEF Closed
  <2>. HIDE DEF T
  <2>3. b \in T
    BY <2>2, <1>1, <1>4 DEF Reaches
  <2>. QED
    BY <2>3 DEF T
<1>5. ASSUME NEW a \in D \ {x}, Reaches(nx, a, m) PROVE Reaches(ny, a, x)
  <2>1. Reaches(ny, a, m) /\ ny[m] # NULL
    BY <1>2, <1>3, <1>5
  <2>. QED
    BY <2>1, <1>2, ReachNext
<1>6. ASSUME NEW b \in D \ {x}, Reaches(ny, x, b) PROVE Reaches(nx, m, b)
  <2>1. ny[x] \in D \ {x} /\ Reaches(ny, ny[x], b)
    BY <1>2, <1>6, ReachStep
  <2>2. nx[m] # NULL /\ nx[m] \in D \ {x} /\ Reaches(nx, nx[m], b)
    BY <2>1, <1>2, <1>4
  <2>3. Reaches(nx, m, nx[m])
    BY <2>2, ReachSelf, ReachNext
  <2>. QED
    BY <2>2, <2>3, ReachTrans
<1>. QED
  BY <1>3, <1>4, <1>5, <1>6

LEMMA JoinLinear ==
  ASSUME NEW D, NULL \notin D, NEW nx \in Links(D), NEW ny \in Links(D),
         NEW m \in D, NEW x \in D, m # x, Isolated(nx, x), Joined2(nx, ny, m, x),
         Linear(nx)
  PROVE  Linear(ny)
<1>1. DOMAIN nx = D /\ DOMAIN ny = D
  BY DEF Links
<1>2. /\ ny[x] = nx[m] /\ ny[m] = x /\ nx[x] = NULL /\ nx[m] # x
      /\ \A i \in D : nx[i] # x /\ (i # x /\ i # m => ny[i] = nx[i])
  BY <1>1 DEF Joined2, Isolated
<1>3. ASSUME NEW i \in D, NEW j \in D, ny[i] = ny[j], ny[i] # NULL PROVE i = j
  BY <1>1, <1>2, <1>3 DEF Linear
<1>4. ASSUME NEW S \in SUBSET D, S # {} PROVE \E i \in S : ny[i] \notin S
  <2>1. CASE S = {x}
    BY <2>1, <1>2
  <2>2. CASE S # {x}
    <3>1. S \ {x} # {} /\ S \ {x} \in SUBSET DOMAIN nx
      BY <2>2, <1>1, <1>4
    <3>2. PICK i \in S \ {x} : nx[i] \notin S \ {x}
      BY <3>1 DEF Linear
    <3>3. CASE i = m
      <4>1. CASE x \in S
        <5>1. ny[x] \notin S
          BY <3>2, <3>3, <1>2
        <5>. QED
          BY <4>1, <5>1
      <4>2. CASE x \notin S
        BY <3>2, <3>3, <4>2, <1>2
      <4>. QED
        BY <4>1, <4>2
    <3>4. CASE i # m
      BY <3>2, <3>4, <1>2
    <3>. QED
      BY <3>3, <3>4
  <2>. QED
    BY <2>1, <2>2
<1>. QED
  BY <1>1, <1>3, <1>4 DEF Linear

LEMMA LeaveReaches ==
  ASSUME NEW D, NULL \notin D, NEW nx \in Links(D), NEW ny \in Links(D),
         NEW p \in D, NEW y \in D, nx[p] = y, Linear(nx), Left(nx, ny, p, y)
  PROVE  /\ \A a, b \in D \ {y} : Reaches(ny, a, b) <=> Reaches(nx, a, b)
         /\ Isolated(ny, y) /\ p # y
<1>1. DOMAIN nx = D /\ DOMAIN ny = D
  BY DEF Links
<1>2. p # y /\ nx[y] # y
  <2>1. y # NULL /\ nx[p] # NULL
    OBVIOUS
  <2>. QED
    BY <2>1, BehindNext
<1>3. /\ ny[y] = NULL /\ ny[p] = nx[y]
      /\ \A i \in D : i # p /\ i # y => ny[i] = nx[i] /\ nx[i] # y
  BY <1>1, <1>2 DEF Left, Linear
<1>4. Isolated(ny, y)
  BY <1>1, <1>2, <1>3 DEF Isolated
<1>5. ASSUME NEW a \in D \ {y}, NEW b \in D \ {y}, Reaches(nx, a, b)
      PROVE  Reaches(ny, a, b)
  <2>. SUFFICES ASSUME NEW S \in SUBSET D, a \in S, Closed(ny, S) PROVE b \in S
    BY <1>1 DEF Reaches
  <2>. DEFINE T == (S \ {y}) \cup IF p \in S THEN {y} ELSE {}
  <2>1. ASSUME NEW i \in T, nx[i] # NULL PROVE nx[i] \in T
    BY <2>1, <1>2, <1>3 DEF Closed
  <2>2. Closed(nx, T) /\ a \in T /\ T \in SUBSET D
    BY <2>1 DEF Closed
  <2>. HIDE DEF T
  <2>3. b \in T
    BY <2>2, <1>1, <1>5 DEF Reaches
  <2>. QED
    BY <2>3 DEF T
<1>6. ASSUME NEW a \in D \ {y}, NEW b \in D \ {y}, Reaches(ny, a, b)
      PROVE  Reaches(nx, a, b)
  <2>. SUFFICES ASSUME NEW S \in SUBSET D, a \in S, Closed(nx, S) PROVE b \in S
    BY <1>1 DEF Reaches
  <2>1. ASSUME NEW i \in S \ {y}, ny[i] # NULL PROVE ny[i] \in S \ {y}
    BY <2>1, <1>2, <1>3 DEF Closed
  <2>2. Closed(ny, S \ {y}) /\ a \in S \ {y}
    BY <2>1 DEF Closed
  <2>3. b \in S \ {y}
    BY <2>2, <1>1, <1>6 DEF Reaches
  <2>. QED
    BY <2>3
<1>. QED
  BY <1>2, <1>4, <1>5, <1>6

LEMMA LeaveLinear ==
  ASSUME NEW D, NULL \notin D, NEW nx \in Links(D), NEW ny \in Links(D),
         NEW p \in D, NEW y \in D, nx[p] = y, Linear(nx), Left(nx, ny, p, y)
  PROVE  Linear(ny)
<1>1. DOMAIN nx = D /\ DOMAIN ny = D
  BY DEF Links
<1>2. p # y /\ nx[y] # y /\ nx[y] # p
  <2>1. y # NULL /\ nx[p] # NULL
    OBVIOUS
  <2>2. p # y /\ (nx[y] # NULL => nx[y] # y)
    BY <2>1, BehindNext
  <2>3. nx[y] # p
    <3>1. {p, y} \in SUBSET DOMAIN nx /\ {p, y} # {}
      BY <1>1
    <3>2. \E i \in {p, y} : nx[i] \notin {p, y}
      BY <3>1 DEF Linear
    <3>. QED
      BY <3>2
  <2>. QED
    BY <2>1, <2>2, <2>3
<1>3. /\ ny[y] = NULL /\ ny[p] = nx[y]
      /\ \A i \in D : i # p /\ i # y => ny[i] = nx[i] /\ nx[i] # y
  BY <1>1, <1>2 DEF Left, Linear
<1>4. ASSUME NEW i \in D, NEW j \in D, ny[i] = ny[j], ny[i] # NULL PROVE i = j
  BY <1>1, <1>2, <1>3, <1>4 DEF Linear
<1>5. ASSUME NEW S \in SUBSET D, S # {} PROVE \E i \in S : ny[i] \notin S
  <2>1. CASE y \in S
    BY <2>1, <1>3
  <2>2. CASE y \notin S /\ p \notin S
    BY <2>2, <1>1, <1>3, <1>5 DEF Linear
  <2>3. CASE y \notin S /\ p \in S
    <3>1. S \cup {y} \in SUBSET DOMAIN nx /\ S \cup {y} # {}
      BY <1>1
    <3>2. PICK i \in S \cup {y} : nx[i] \notin S \cup {y}
      BY <3>1 DEF Linear
    <3>3. i # p
      BY <3>2
    <3>4. CASE i = y
      BY <3>2, <3>4, <2>3, <1>3
    <3>5. CASE i # y
      BY <3>2, <3>3, <3>5, <1>3
    <3>. QED
      BY <3>4, <3>5
  <2>. QED
    BY <2>1, <2>2, <2>3
<1>. QED
  BY <1>1, <1>4, <1>5 DEF Linear
--------------------------------------------------------------------------------
(* Walking along a chain. *)

\* What a loop that st repeats from x on is defined by.
Loop(m, x, st, g) == [j \in 0..m |-> IF j = 0 THEN x ELSE st[g[j - 1]]]
IsLoop(f, m, x, st) ==
  \A e : e = Loop(m, x, st, e) => f = Loop(m, x, st, f)
\* What it comes to.
Looped(f, m, H, x, st) ==
  f \in [0..m -> H] /\ f[0] = x /\ \A j \in 1..m : f[j] = st[f[j - 1]]

\* A loop whose step stays in H is what its recursive definition says.
LEMMA LoopDefined ==
  ASSUME NEW H, NEW m \in Nat, NEW x \in H, NEW st \in [H -> H], NEW f,
         IsLoop(f, m, x, st)
  PROVE  Looped(f, m, H, x, st)
<1>. DEFINE ix == [z \in (1..m) \X H |-> st[z[2]]]
<1>1. \E e : Repeats(e, m, H, ix, x)
  <2>1. ix \in [(1..m) \X H -> H]
    OBVIOUS
  <2>. HIDE DEF ix
  <2>. QED
    BY <2>1, Repeated
<1>2. PICK e : Repeats(e, m, H, ix, x)
  BY <1>1
<1>3. /\ e \in [0..m -> H] /\ e[0] = x
      /\ \A j \in 1..m : e[j] = st[e[j - 1]]
  <2>1. /\ e \in [0..m -> H] /\ e[0] = x
        /\ \A j \in 1..m : e[j] = ix[<<j, e[j - 1]>>]
    BY <1>2 DEF Repeats
  <2>2. ASSUME NEW j \in 1..m PROVE e[j] = st[e[j - 1]]
    <3>1. j - 1 \in 0..m
      OBVIOUS
    <3>2. e[j - 1] \in H
      BY <2>1, <3>1
    <3>. QED
      BY <2>1, <3>2
  <2>. QED
    BY <2>1, <2>2
<1>4. e = Loop(m, x, st, e)
  <2>1. \A j \in 0..m : e[j] = IF j = 0 THEN x ELSE st[e[j - 1]]
    <3>1. \A j \in 0..m : j # 0 => j \in 1..m
      OBVIOUS
    <3>. QED
      BY <1>3, <3>1
  <2>2. e = [j \in 0..m |-> IF j = 0 THEN x ELSE st[e[j - 1]]]
    BY <1>3, <2>1
  <2>. QED
    BY <2>2 DEF Loop
<1>5. f = [j \in 0..m |-> IF j = 0 THEN x ELSE st[f[j - 1]]]
  BY <1>4 DEF IsLoop, Loop
<1>6. \A j \in 0..m : f[j] = IF j = 0 THEN x ELSE st[f[j - 1]]
  BY <1>5
<1>. DEFINE T == {j \in Nat : j <= m => f[j] = e[j]}
<1>7. 0 \in T
  BY <1>3, <1>6
<1>8. ASSUME NEW j \in Nat, j \in T PROVE j + 1 \in T
  <2>. SUFFICES ASSUME j + 1 <= m PROVE f[j + 1] = e[j + 1]
    OBVIOUS
  <2>1. f[j] = e[j] /\ j + 1 \in 0..m /\ j + 1 \in 1..m /\ j + 1 # 0 /\ (j + 1) - 1 = j
    BY <1>8
  <2>2. f[j + 1] = st[f[j]]
    BY <2>1, <1>6
  <2>3. e[j + 1] = st[e[j]]
    BY <2>1, <1>3
  <2>. QED
    BY <2>1, <2>2, <2>3
<1>9. \A j \in Nat : j \in T
  <2>. HIDE DEF T
  <2>. QED
    BY <1>7, <1>8, SetInduction
<1>10. \A j \in 0..m : f[j] = e[j]
  BY <1>9
<1>11. \A j \in 0..m : e[j] \in H
  BY <1>3
<1>12. f = e
  <2>1. f = [j \in 0..m |-> f[j]]
    BY <1>5
  <2>2. e = [j \in 0..m |-> e[j]]
    BY <1>3
  <2>. QED
    BY <1>10, <2>1, <2>2
<1>. QED
  BY <1>3, <1>12 DEF Looped

\* The nodes of a table, and what is known of their links.
Chained(D, node, nx) ==
  /\ NULL \notin D /\ DOMAIN node = D /\ nx \in Links(D) /\ Linear(nx)
  /\ \A i \in D : nx[i] = node[i].next

\* The sets that a walk has left before it, one node fewer with each step.
LEMMA BehindCount ==
  ASSUME NEW D, IsFiniteSet(D), NULL \notin D, NEW nx \in Links(D), Linear(nx),
         NEW a \in D
  PROVE  /\ IsFiniteSet(Behind(nx, a)) /\ Cardinality(Behind(nx, a)) \in Nat \ {0}
         /\ Cardinality(Behind(nx, a)) <= Cardinality(D)
         /\ nx[a] # NULL => /\ nx[a] \in D
                            /\ Cardinality(Behind(nx, nx[a])) = Cardinality(Behind(nx, a)) - 1
<1>1. Behind(nx, a) \in SUBSET D /\ a \in Behind(nx, a)
  BY ReachSelf DEF Behind, Links
<1>2. /\ IsFiniteSet(Behind(nx, a)) /\ Cardinality(Behind(nx, a)) <= Cardinality(D)
      /\ Cardinality(Behind(nx, a)) \in Nat
  BY <1>1, FS_Subset, FS_CardinalityType
<1>3. Cardinality(Behind(nx, a)) # 0
  BY <1>1, <1>2, FS_EmptySet
<1>4. ASSUME nx[a] # NULL
      PROVE  /\ nx[a] \in D
             /\ Cardinality(Behind(nx, nx[a])) = Cardinality(Behind(nx, a)) - 1
  <2>1. Behind(nx, nx[a]) = Behind(nx, a) \ {a} /\ nx[a] \in D
    BY <1>4, BehindNext
  <2>2. Cardinality(Behind(nx, a) \ {a}) = Cardinality(Behind(nx, a)) - 1
    BY <1>1, <1>2, FS_RemoveElement
  <2>. QED
    BY <2>1, <2>2
<1>. QED
  BY <1>2, <1>3, <1>4

Walked(hm, nx, n, c) ==
  /\ c \in [0..hm -> 0..hm \cup {NULL}] /\ c[0] = n
  /\ \A j \in 0..(hm - 1) : c[j + 1] = IF c[j] = NULL THEN NULL ELSE nx[c[j]]
  /\ \A b \in 0..hm : Reaches(nx, n, b) => \E j \in 0..hm : c[j] = b
  /\ \A i, j \in 0..hm : i <= j /\ c[j] # NULL => c[i] # NULL /\ Reaches(nx, c[i], c[j])
LEMMA ChainWalk ==
  ASSUME NEW hm \in Nat, NEW node, NEW nx, Chained(0..hm, node, nx), NEW n \in 0..hm,
         NEW c, c = Chain(node, n)
  PROVE  Walked(hm, nx, n, c)
<1>. DEFINE D == 0..hm
            st == [i \in D \cup {NULL} |-> IF i = NULL THEN NULL ELSE node[i].next]
<1>1. /\ DOMAIN node = D /\ nx \in Links(D) /\ NULL \notin D /\ Linear(nx)
      /\ \A i \in D : nx[i] = node[i].next
  BY DEF Chained
<1>2. st \in [D \cup {NULL} -> D \cup {NULL}] /\ DOMAIN nx = D
  BY <1>1 DEF Links
<1>3. c = CHOOSE g : g = Loop(hm, n, st, g)
  BY <1>1 DEF Chain, Loop
<1>4. /\ c \in [D -> D \cup {NULL}] /\ c[0] = n
      /\ \A j \in 1..hm : c[j] = st[c[j - 1]]
  <2>. DEFINE H == D \cup {NULL}
  <2>1. n \in H /\ st \in [H -> H]
    BY <1>2
  <2>. HIDE DEF st, H
  <2>2. IsLoop(c, hm, n, st)
    BY <1>3 DEF IsLoop
  <2>3. Looped(c, hm, H, n, st)
    BY <2>1, <2>2, LoopDefined
  <2>. QED
    BY <2>3 DEF H, Looped
<1>5. ASSUME NEW j \in 0..(hm - 1)
      PROVE  c[j + 1] = IF c[j] = NULL THEN NULL ELSE nx[c[j]]
  <2>1. j + 1 \in 1..hm /\ (j + 1) - 1 = j /\ j \in D
    OBVIOUS
  <2>2. c[j] \in D \cup {NULL} /\ c[j + 1] = st[c[j]]
    BY <1>4, <2>1
  <2>. QED
    BY <2>2, <1>1
<1>6. IsFiniteSet(D) /\ Cardinality(D) = hm + 1
  BY FS_Interval
\* After j steps at least j nodes are left behind.
<1>. DEFINE P(j) == c[j] # NULL => Cardinality(Behind(nx, c[j])) <= hm + 1 - j
            T == {j \in Nat : j <= hm => P(j)}
<1>. HIDE DEF D, st
<1>7. 0 \in T
  <2>1. c[0] \in D
    BY <1>4 DEF D
  <2>2. Cardinality(Behind(nx, c[0])) <= Cardinality(D)
    BY <2>1, <1>1, <1>6, BehindCount
  <2>. QED
    BY <2>2, <1>6
<1>8. ASSUME NEW j \in Nat, j \in T PROVE j + 1 \in T
  <2>. SUFFICES ASSUME j + 1 <= hm, c[j + 1] # NULL
                PROVE  Cardinality(Behind(nx, c[j + 1])) <= hm + 1 - (j + 1)
    OBVIOUS
  <2>1. j \in 0..(hm - 1) /\ j \in D /\ j <= hm
    BY DEF D
  <2>2. c[j] \in D /\ nx[c[j]] # NULL /\ c[j + 1] = nx[c[j]]
    BY <2>1, <1>4, <1>5
  <2>3. Cardinality(Behind(nx, c[j])) <= hm + 1 - j
    BY <1>8, <2>1, <2>2, <1>1
  <2>4. /\ Cardinality(Behind(nx, nx[c[j]])) = Cardinality(Behind(nx, c[j])) - 1
        /\ Cardinality(Behind(nx, c[j])) \in Nat
    BY <2>2, <1>1, <1>6, BehindCount
  <2>. QED
    BY <2>2, <2>3, <2>4
<1>9. \A j \in Nat : j \in T
  <2>. HIDE DEF T
  <2>. QED
    BY <1>7, <1>8, SetInduction
<1>10. c[hm] # NULL => nx[c[hm]] = NULL
  <2>. SUFFICES ASSUME c[hm] # NULL, nx[c[hm]] # NULL PROVE FALSE
    OBVIOUS
  <2>1. c[hm] \in D /\ Cardinality(Behind(nx, c[hm])) <= 1
    BY <1>4, <1>9 DEF D
  <2>2. /\ nx[c[hm]] \in D
        /\ Cardinality(Behind(nx, nx[c[hm]])) = Cardinality(Behind(nx, c[hm])) - 1
        /\ Cardinality(Behind(nx, c[hm])) \in Nat
    BY <2>1, <1>1, <1>6, BehindCount
  <2>3. Cardinality(Behind(nx, nx[c[hm]])) \in Nat \ {0}
    BY <2>2, <1>1, <1>6, BehindCount
  <2>. QED
    BY <2>1, <2>2, <2>3
<1>11. ASSUME NEW b \in D, Reaches(nx, n, b) PROVE \E j \in D : c[j] = b
  <2>. DEFINE S == {i \in D : \E j \in D : c[j] = i}
  <2>1. n \in S /\ S \in SUBSET DOMAIN nx
    BY <1>2, <1>4 DEF D
  <2>2. ASSUME NEW i \in S, nx[i] # NULL PROVE nx[i] \in S
    <3>1. PICK j \in D : c[j] = i
      OBVIOUS
    <3>2. nx[i] \in D /\ i # NULL
      BY <2>2, <1>1 DEF Links
    <3>3. j # hm
      BY <3>1, <3>2, <2>2, <1>10
    <3>4. j \in 0..(hm - 1) /\ j + 1 \in D
      BY <3>3 DEF D
    <3>. QED
      BY <3>1, <3>2, <3>4, <1>5
  <2>. HIDE DEF S
  <2>3. b \in S
    BY <2>1, <2>2, <1>11 DEF Reaches, Closed
  <2>. QED
    BY <2>3 DEF S
<1>12. ASSUME NEW i \in D, NEW j \in D, i <= j, c[j] # NULL
       PROVE  c[i] # NULL /\ Reaches(nx, c[i], c[j])
  <2>. DEFINE Q(k) == k \in D /\ i <= k /\ c[k] # NULL
                      => c[i] # NULL /\ Reaches(nx, c[i], c[k])
              U == {k \in Nat : Q(k)}
  <2>1. i \in Nat /\ j \in Nat
    BY DEF D
  <2>2. Q(i)
    BY <1>1, <1>4, ReachSelf
  <2>3. 0 \in U
    <3>1. i <= 0 => i = 0
      BY <2>1
    <3>. QED
      BY <2>2, <3>1
  <2>4. ASSUME NEW k \in Nat, k \in U PROVE k + 1 \in U
    <3>. SUFFICES ASSUME k + 1 \in D, i <= k + 1, c[k + 1] # NULL
                  PROVE  c[i] # NULL /\ Reaches(nx, c[i], c[k + 1])
      OBVIOUS
    <3>1. CASE i = k + 1
      BY <3>1, <2>2
    <3>2. CASE i # k + 1
      <4>1. k \in D /\ i <= k /\ k \in 0..(hm - 1)
        BY <3>2, <2>1 DEF D
      <4>2. c[k] # NULL /\ c[k] \in D /\ c[k + 1] = nx[c[k]]
        BY <4>1, <1>4, <1>5
      <4>3. c[i] # NULL /\ c[i] \in D /\ Reaches(nx, c[i], c[k])
        BY <4>1, <4>2, <2>4, <1>4
      <4>. QED
        BY <4>2, <4>3, <1>1, ReachNext
    <3>. QED
      BY <3>1, <3>2
  <2>5. \A k \in Nat : k \in U
    <3>. HIDE DEF U
    <3>. QED
      BY <2>3, <2>4, SetInduction
  <2>6. Q(j)
    BY <2>1, <2>5
  <2>. QED
    BY <2>6, <1>12
<1>. QED
  BY <1>4, <1>5, <1>11, <1>12 DEF D, Walked
--------------------------------------------------------------------------------
(* Looking a key up. *)

\* The links of the nodes.
Nx(node) == [i \in DOMAIN node |-> node[i].next]

\* n is the first node with key k on the chain from m, or NULL.
First(node, m, k, n) ==
  IF n = NULL
  THEN \A i \in DOMAIN node : Reaches(Nx(node), m, i) => node[i].key # k
  ELSE /\ n \in DOMAIN node /\ node[n].key = k /\ Reaches(Nx(node), m, n)
       /\ \A i \in DOMAIN node : Reaches(Nx(node), m, i) /\ node[i].key = k
                                 => Reaches(Nx(node), n, i)

\* The nodes are linked in chains.
Woven(node, hm) ==
  /\ NULL \notin 0..hm /\ DOMAIN node = 0..hm
  /\ Nx(node) \in Links(0..hm) /\ Linear(Nx(node))

LEMMA LookupFirst ==
  ASSUME NEW h, h.hmask \in Nat, Woven(h.node, h.hmask), NEW k,
         hashkey(h, k) \in 0..h.hmask
  PROVE  First(h.node, hashkey(h, k), k, Lookup(h, k))
<1>. DEFINE hm == h.hmask
            D == 0..hm
            node == h.node
            nx == Nx(node)
            m == hashkey(h, k)
            st == [i \in D \cup {NULL} |-> IF i = NULL \/ h.node[i].key = k THEN i
                                           ELSE h.node[i].next]
            at == CHOOSE g : g = Loop(hm + 1, m, st, g)
            H == D \cup {NULL}
<1>1. /\ NULL \notin D /\ DOMAIN node = D /\ nx \in Links(D) /\ Linear(nx)
      /\ \A i \in D : nx[i] = node[i].next
      /\ DOMAIN nx = D
  BY DEF Woven, Links, Nx
<1>2. Lookup(h, k) = at[hm + 1]
  BY <1>1 DEF Lookup, Loop
<1>3. st \in [H -> H] /\ m \in H
  <2>1. \A i \in D : node[i].next \in H
    BY <1>1 DEF Links
  <2>. QED
    BY <2>1
<1>4. Looped(at, hm + 1, H, m, st)
  <2>. HIDE DEF st, H, m
  <2>1. IsLoop(at, hm + 1, m, st)
    BY DEF IsLoop
  <2>. HIDE DEF at
  <2>2. hm + 1 \in Nat
    OBVIOUS
  <2>. QED
    BY <1>3, <2>1, <2>2, LoopDefined
<1>5. IsFiniteSet(D) /\ Cardinality(D) = hm + 1 /\ hm \in Nat
  BY FS_Interval
<1>6. m \in D
  OBVIOUS
<1>. DEFINE Inv(j, x) ==
       IF x = NULL
       THEN \A i \in D : Reaches(nx, m, i) => node[i].key # k
       ELSE /\ x \in D /\ Reaches(nx, m, x)
            /\ \A i \in D : Reaches(nx, m, i) /\ node[i].key = k => Reaches(nx, x, i)
            /\ node[x].key # k => Cardinality(Behind(nx, x)) <= hm + 1 - j
            T == {j \in Nat : j <= hm + 1 => Inv(j, at[j])}
<1>7. /\ at[0] = m
      /\ \A j \in 1..(hm + 1) : at[j] = IF at[j - 1] = NULL \/ node[at[j - 1]].key = k
                                        THEN at[j - 1] ELSE nx[at[j - 1]]
  <2>1. at \in [0..(hm + 1) -> H] /\ at[0] = m /\ \A j \in 1..(hm + 1) : at[j] = st[at[j - 1]]
    <3>. HIDE DEF at, st, H, m
    <3>. QED
      BY <1>4 DEF Looped
  <2>. HIDE DEF at, m
  <2>2. ASSUME NEW j \in 1..(hm + 1)
        PROVE  at[j] = IF at[j - 1] = NULL \/ node[at[j - 1]].key = k
                       THEN at[j - 1] ELSE nx[at[j - 1]]
    <3>1. j - 1 \in 0..(hm + 1)
      OBVIOUS
    <3>2. at[j - 1] \in H
      BY <2>1, <3>1
    <3>. QED
      BY <2>1, <3>2, <1>1
  <2>. QED
    BY <2>1, <2>2
<1>. HIDE DEF at, st, H, nx, m, D, node, hm
<1>8. 0 \in T
  <2>1. Cardinality(Behind(nx, m)) <= Cardinality(D)
    BY <1>1, <1>5, <1>6, BehindCount
  <2>2. Reaches(nx, m, m)
    BY <1>1, <1>6, ReachSelf
  <2>. QED
    BY <1>1, <1>5, <1>6, <1>7, <2>1, <2>2
<1>9. ASSUME NEW j \in Nat, j \in T PROVE j + 1 \in T
  <2>. SUFFICES ASSUME j + 1 <= hm + 1 PROVE Inv(j + 1, at[j + 1])
    OBVIOUS
  <2>1. j + 1 \in 1..(hm + 1) /\ (j + 1) - 1 = j /\ Inv(j, at[j])
    BY <1>5, <1>9
  <2>2. at[j + 1] = IF at[j] = NULL \/ node[at[j]].key = k THEN at[j] ELSE nx[at[j]]
    BY <2>1, <1>7
  <2>3. CASE at[j] = NULL \/ node[at[j]].key = k
    BY <2>1, <2>2, <2>3
  <2>4. CASE ~ (at[j] = NULL \/ node[at[j]].key = k)
    <3>. DEFINE x == at[j]
    <3>. HIDE DEF x
    <3>1. /\ x \in D /\ Reaches(nx, m, x) /\ node[x].key # k /\ at[j + 1] = nx[x]
          /\ \A i \in D : Reaches(nx, m, i) /\ node[i].key = k => Reaches(nx, x, i)
          /\ Cardinality(Behind(nx, x)) <= hm + 1 - j
      BY <2>1, <2>2, <2>4 DEF x
    <3>2. CASE nx[x] = NULL
      <4>1. ASSUME NEW i \in D, Reaches(nx, m, i), node[i].key = k PROVE FALSE
        <5>1. Reaches(nx, x, i)
          BY <3>1, <4>1
        <5>2. x = i
          BY <5>1, <3>1, <3>2, <1>1, ReachEnd
        <5>. QED
          BY <5>2, <3>1, <4>1
      <4>. QED
        BY <4>1, <3>1, <3>2
    <3>3. CASE nx[x] # NULL
      <4>1. nx[x] \in D /\ Reaches(nx, m, nx[x])
        BY <3>1, <3>3, <1>1, <1>6, ReachNext
      <4>2. ASSUME NEW i \in D, Reaches(nx, m, i), node[i].key = k
            PROVE  Reaches(nx, nx[x], i)
        <5>1. Reaches(nx, x, i) /\ x # i
          BY <3>1, <4>2
        <5>. QED
          BY <5>1, <3>1, <1>1, ReachStep
      <4>3. /\ Cardinality(Behind(nx, nx[x])) = Cardinality(Behind(nx, x)) - 1
            /\ Cardinality(Behind(nx, x)) \in Nat
        BY <3>1, <3>3, <1>1, <1>5, BehindCount
      <4>4. Cardinality(Behind(nx, nx[x])) <= hm + 1 - (j + 1)
        BY <4>3, <3>1, <1>5
      <4>5. nx[x] # NULL
        BY <3>3
      <4>. QED
        BY <4>1, <4>2, <4>4, <4>5, <3>1
    <3>. QED
      BY <3>2, <3>3
  <2>. QED
    BY <2>3, <2>4
<1>10. Inv(hm + 1, at[hm + 1])
  <2>1. \A j \in Nat : j \in T
    <3>. HIDE DEF T
    <3>. QED
      BY <1>8, <1>9, SetInduction
  <2>. QED
    BY <2>1, <1>5
<1>. DEFINE n == at[hm + 1]
<1>11. n # NULL => node[n].key = k
  <2>. SUFFICES ASSUME n # NULL, node[n].key # k PROVE FALSE
    OBVIOUS
  <2>1. n \in D /\ Cardinality(Behind(nx, n)) <= 0
    BY <1>10, <1>5
  <2>. HIDE DEF n
  <2>2. Cardinality(Behind(nx, n)) \in Nat \ {0}
    BY <2>1, <1>1, <1>5, BehindCount
  <2>. QED
    BY <2>1, <2>2
<1>. QED
  BY <1>1, <1>2, <1>10, <1>11 DEF First, nx, node, m, n

\* There is only one first node.
LEMMA FirstUnique ==
  ASSUME NEW hm, NEW node, Woven(node, hm), NEW m \in 0..hm, NEW k,
         NEW n, First(node, m, k, n), NEW p, First(node, m, k, p)
  PROVE  n = p
<1>1. /\ NULL \notin 0..hm /\ DOMAIN node = 0..hm
      /\ Nx(node) \in Links(0..hm) /\ Linear(Nx(node))
  BY DEF Woven
<1>2. CASE n = NULL \/ p = NULL
  BY <1>1, <1>2 DEF First
<1>3. CASE n # NULL /\ p # NULL
  <2>1. n \in 0..hm /\ p \in 0..hm /\ Reaches(Nx(node), n, p) /\ Reaches(Nx(node), p, n)
    BY <1>1, <1>3 DEF First
  <2>. QED
    BY <2>1, <1>1, ReachBack
<1>. QED
  BY <1>2, <1>3
--------------------------------------------------------------------------------
(* Rechaining a node, and evicting one. *)

\* The node behind f moves to the chain of m.
LEMMA MoveReaches ==
  ASSUME NEW D, NULL \notin D, NEW nx \in Links(D), NEW ny \in Links(D), Linear(nx),
         NEW f \in D, NEW m \in D, NEW y \in D, nx[f] = y, m # f, m # y,
         ny[f] = nx[y], ny[y] = nx[m], ny[m] = y,
         \A i \in D \ {f, y, m} : ny[i] = nx[i]
  PROVE  /\ Linear(ny)
         /\ \A a, b \in D \ {y} : Reaches(ny, a, b) <=> Reaches(nx, a, b)
         /\ \A a \in D \ {y} : Reaches(ny, a, y) <=> Reaches(nx, a, m)
<1>. DEFINE nz == [i \in D |-> IF i = y THEN NULL ELSE IF i = f THEN nx[y] ELSE nx[i]]
<1>1. nz \in Links(D) /\ DOMAIN nx = D /\ DOMAIN nz = D
  BY DEF Links
<1>2. Left(nx, nz, f, y)
  BY <1>1 DEF Left
<1>3. f # y
  BY BehindNext
<1>4. nz[m] = nx[m] /\ \A i \in D : nz[i] = IF i = y THEN NULL ELSE IF i = f THEN nx[y] ELSE nx[i]
  OBVIOUS
<1>5. Joined2(nz, ny, m, y)
  <2>. HIDE DEF nz
  <2>. QED
    BY <1>1, <1>3, <1>4 DEF Joined2
<1>. HIDE DEF nz
<1>6. /\ \A a, b \in D \ {y} : Reaches(nz, a, b) <=> Reaches(nx, a, b)
      /\ Isolated(nz, y) /\ Linear(nz)
  BY <1>1, <1>2, LeaveReaches, LeaveLinear
<1>7. /\ \A a, b \in D \ {y} : Reaches(ny, a, b) <=> Reaches(nz, a, b)
      /\ \A a \in D \ {y} : Reaches(ny, a, y) <=> Reaches(nz, a, m)
      /\ Linear(ny)
  BY <1>1, <1>5, <1>6, JoinReaches, JoinLinear
<1>. QED
  BY <1>6, <1>7

\* Node f takes the place of node n, which is behind p.
EvictedReach(D, nx, ny, n, f) ==
  /\ Linear(ny) /\ Isolated(ny, n)
  /\ \A a, b \in D \ {n, f} : Reaches(ny, a, b) <=> Reaches(nx, a, b)
  /\ \A a \in D \ {n, f} : Reaches(ny, a, f) <=> Reaches(nx, a, n)
  /\ \A b \in D \ {n, f} : Reaches(nx, n, b) => Reaches(ny, f, b)
LEMMA EvictReaches ==
  ASSUME NEW D, NULL \notin D, NEW nx \in Links(D), NEW ny \in Links(D), Linear(nx),
         NEW p \in D, NEW n \in D, NEW f \in D, nx[p] = n, f # n, Isolated(nx, f),
         ny[p] = f, ny[f] = nx[n], ny[n] = NULL,
         \A i \in D \ {p, n, f} : ny[i] = nx[i]
  PROVE  EvictedReach(D, nx, ny, n, f)
<1>. DEFINE nz == [i \in D |-> IF i = f THEN nx[n] ELSE IF i = n THEN f ELSE nx[i]]
<1>1. nz \in Links(D) /\ DOMAIN nx = D /\ DOMAIN nz = D
  BY DEF Links
<1>2. Joined2(nx, nz, n, f)
  BY <1>1 DEF Joined2
<1>3. p # n /\ p # f
  <2>1. nx[p] # NULL
    OBVIOUS
  <2>. QED
    BY <2>1, BehindNext DEF Isolated
<1>4. \A i \in D : nz[i] = IF i = f THEN nx[n] ELSE IF i = n THEN f ELSE nx[i]
  OBVIOUS
<1>. HIDE DEF nz
<1>5. Left(nz, ny, p, n) /\ nz[p] = n
  BY <1>1, <1>3, <1>4 DEF Left
<1>6. /\ \A a, b \in D \ {f} : Reaches(nz, a, b) <=> Reaches(nx, a, b)
      /\ \A a \in D \ {f} : Reaches(nz, a, f) <=> Reaches(nx, a, n)
      /\ Linear(nz)
  BY <1>1, <1>2, JoinReaches, JoinLinear
<1>7. /\ \A a, b \in D \ {n} : Reaches(ny, a, b) <=> Reaches(nz, a, b)
      /\ Isolated(ny, n) /\ Linear(ny)
  BY <1>1, <1>5, <1>6, LeaveReaches, LeaveLinear
<1>8. ASSUME NEW b \in D \ {n, f}, Reaches(nx, n, b) PROVE Reaches(ny, f, b)
  <2>1. Reaches(nz, n, b) /\ nz[n] = f
    BY <1>4, <1>6, <1>8
  <2>2. Reaches(nz, f, b)
    BY <2>1, <1>1, ReachStep
  <2>. QED
    BY <2>2, <1>7
<1>. QED
  BY <1>6, <1>7, <1>8 DEF EvictedReach
--------------------------------------------------------------------------------
(* The hash part. *)

Live(node) == {i \in DOMAIN node : node[i].val # NULL}

Fields(D) == [key : Keys \cup {NULL}, val : Keys \cup {NULL}, next : D \cup {NULL}]

\* mn gives each key its main position.  A live node stands at its main
\* position or another key does, and only one live node bears a key.
Keyed(node, hm, mn) ==
  /\ node \in [0..hm -> Fields(0..hm)]
  /\ mn \in [Keys -> 0..hm]
  /\ \A i \in 0..hm : node[i].val \in {NULL, node[i].key}
  /\ \A i, j \in Live(node) : node[i].key = node[j].key => i = j
  /\ \A i \in Live(node) : /\ node[mn[node[i].key]].key # NULL
                           /\ mn[node[i].key] # i
                              => node[mn[node[i].key]].key # node[i].key
\* A node that was never used is on no chain.
Spare(node) ==
  \A i \in DOMAIN node : node[i].key = NULL => Isolated(Nx(node), i)
\* Looking up the key of node i finds node i.
Found(node, mn, i) == First(node, mn[node[i].key], node[i].key, i)
Sound(node, hm, mn) ==
  /\ Woven(node, hm) /\ Keyed(node, hm, mn) /\ Spare(node)
  /\ \A i \in Live(node) : Found(node, mn, i)

\* While nodes are rechained, those after node f may not be found, and none
\* of them is in front of its main position.
After(node, f) == Behind(Nx(node), f) \ {f}
Semi(node, hm, mn, f) ==
  /\ Woven(node, hm) /\ Keyed(node, hm, mn) /\ Spare(node) /\ f \in 0..hm
  /\ \A i \in Live(node) \ After(node, f) : Found(node, mn, i)
  /\ \A i \in Live(node) \cap After(node, f) :
       mn[node[i].key] # i => ~ Reaches(Nx(node), i, mn[node[i].key])

SameFields(node, g) ==
  /\ DOMAIN g = DOMAIN node
  /\ \A i \in DOMAIN node : g[i].key = node[i].key /\ g[i].val = node[i].val

\* What is known of the links.
LEMMA Linked ==
  ASSUME NEW hm, NEW node, Woven(node, hm)
  PROVE  /\ NULL \notin 0..hm /\ DOMAIN node = 0..hm /\ DOMAIN Nx(node) = 0..hm
         /\ Nx(node) \in Links(0..hm) /\ Linear(Nx(node))
         /\ \A i \in 0..hm : Nx(node)[i] = node[i].next /\ node[i].next \in 0..hm \cup {NULL}
  BY DEF Woven, Links, Nx

\* A node's link is set.
Relinked(node, g, D, n, x) ==
  /\ g \in [D -> Fields(D)] /\ DOMAIN g = D
  /\ \A i \in D : /\ g[i].key = node[i].key /\ g[i].val = node[i].val
                  /\ g[i].next = IF i = n THEN x ELSE node[i].next
LEMMA Relink ==
  ASSUME NEW D, NEW node \in [D -> Fields(D)], NEW n \in D, NEW x \in D \cup {NULL}
  PROVE  Relinked(node, [node EXCEPT ![n].next = x], D, n, x)
<1>. DEFINE r == [node[n] EXCEPT !.next = x]
            g == [node EXCEPT ![n] = r]
<1>1. /\ r \in Fields(D) /\ r.key = node[n].key /\ r.val = node[n].val /\ r.next = x
  <2>1. node[n] \in Fields(D)
    OBVIOUS
  <2>. QED
    BY <2>1 DEF Fields
<1>. HIDE DEF r
<1>2. g \in [D -> Fields(D)] /\ DOMAIN g = D /\ \A i \in D : g[i] = IF i = n THEN r ELSE node[i]
  BY <1>1
<1>3. g = [node EXCEPT ![n].next = x]
  BY DEF r
<1>. HIDE DEF g
<1>. QED
  BY <1>1, <1>2, <1>3 DEF Relinked

\* A live node has a key, and a main position.
HasMain(node, hm, mn, i) ==
  /\ i \in 0..hm /\ node[i].val = node[i].key
  /\ node[i].key \in Keys /\ node[i].key # NULL
  /\ mn[node[i].key] \in 0..hm /\ node[mn[node[i].key]].key # NULL
  /\ mn[node[i].key] # i => node[mn[node[i].key]].key # node[i].key
LEMMA LiveMain ==
  ASSUME NEW hm, NEW node, NEW mn, Woven(node, hm), Keyed(node, hm, mn),
         NEW i \in Live(node)
  PROVE  HasMain(node, hm, mn, i)
<1>1. i \in 0..hm /\ node[i].val # NULL
  BY DEF Live, Woven
<1>2. node[i].val = node[i].key /\ node[i].key \in Keys \cup {NULL}
  BY <1>1 DEF Keyed, Fields
<1>. QED
  BY <1>1, <1>2 DEF Keyed, HasMain

\* Keys and values decide what is live and how it is keyed.
LEMMA SameKeyed ==
  ASSUME NEW hm, NEW node, NEW mn, NEW g, Woven(node, hm), Keyed(node, hm, mn),
         SameFields(node, g), Woven(g, hm),
         g \in [0..hm -> Fields(0..hm)]
  PROVE  Keyed(g, hm, mn) /\ Live(g) = Live(node)
<1>1. /\ DOMAIN node = 0..hm /\ DOMAIN g = 0..hm
      /\ \A i \in 0..hm : g[i].key = node[i].key /\ g[i].val = node[i].val
  BY DEF SameFields, Woven
<1>2. Live(g) = Live(node)
  BY <1>1 DEF Live
<1>3. \A i \in Live(node) : i \in 0..hm /\ mn[node[i].key] \in 0..hm
  BY LiveMain DEF HasMain
<1>. QED
  BY <1>1, <1>2, <1>3 DEF Keyed

LEMMA MoveStep ==
  ASSUME NEW hm, NEW node, NEW mn, NEW f, Semi(node, hm, mn, f),
         NEW y, y = node[f].next, y # NULL, node[y].val # NULL,
         NEW m, m = mn[node[y].key], m # f, m # y
  PROVE  LET g == MoveNext(node, f, m) IN
         /\ Semi(g, hm, mn, f) /\ SameFields(node, g)
         /\ y \in After(node, f) /\ After(g, f) = After(node, f) \ {y}
<1>. DEFINE D == 0..hm
            nx == Nx(node)
            g == MoveNext(node, f, m)
            ny == Nx(g)
<1>1. /\ NULL \notin D /\ DOMAIN node = D /\ DOMAIN nx = D /\ nx \in Links(D)
      /\ Linear(nx) /\ f \in D /\ Keyed(node, hm, mn) /\ Woven(node, hm)
      /\ \A i \in D : nx[i] = node[i].next /\ node[i].next \in D \cup {NULL}
  BY Linked DEF Semi
<1>. HIDE DEF D, nx
<1>2. y \in D /\ nx[f] = y /\ y \in Live(node)
  BY <1>1 DEF Live
<1>3. m \in D /\ node[m].key # NULL /\ node[m].key # node[y].key
  <2>1. HasMain(node, hm, mn, y)
    BY <1>1, <1>2, LiveMain
  <2>. QED
    BY <2>1 DEF HasMain, D
<1>4. f # y
  <2>1. nx[f] # NULL
    BY <1>2
  <2>. QED
    BY <2>1, <1>1, <1>2, BehindNext
<1>5. /\ g \in [D -> Fields(D)] /\ SameFields(node, g) /\ DOMAIN g = D
      /\ g[f].next = node[y].next /\ g[y].next = node[m].next /\ g[m].next = y
      /\ \A i \in D \ {f, y, m} : g[i].next = node[i].next
  <2>. DEFINE g1 == [node EXCEPT ![f].next = node[y].next]
              g2 == [g1 EXCEPT ![y].next = node[m].next]
              g3 == [g2 EXCEPT ![m].next = y]
  <2>1. g = g3
    BY DEF MoveNext
  <2>2. node \in [D -> Fields(D)] /\ node[y].next \in D \cup {NULL} /\ node[m].next \in D \cup {NULL}
    BY <1>1, <1>2, <1>3 DEF Keyed, D
  <2>3. Relinked(node, g1, D, f, node[y].next)
    BY <2>2, <1>1, Relink
  <2>. HIDE DEF g1
  <2>4. g1 \in [D -> Fields(D)]
    BY <2>3 DEF Relinked
  <2>5. Relinked(g1, g2, D, y, node[m].next)
    BY <2>2, <2>4, <1>2, Relink
  <2>. HIDE DEF g2
  <2>6. g2 \in [D -> Fields(D)]
    BY <2>5 DEF Relinked
  <2>7. Relinked(g2, g3, D, m, y)
    BY <2>6, <1>2, <1>3, Relink
  <2>. HIDE DEF g3, g
  <2>8. f \in D /\ y \in D /\ m \in D /\ DOMAIN node = D /\ f # y /\ m # f /\ m # y
    BY <1>1, <1>2, <1>3, <1>4
  <2>9. \A i \in D : /\ g1[i].next = IF i = f THEN node[y].next ELSE node[i].next
                     /\ g2[i].next = IF i = y THEN node[m].next ELSE g1[i].next
                     /\ g3[i].next = IF i = m THEN y ELSE g2[i].next
    <3>1. \A i \in D : g1[i].next = IF i = f THEN node[y].next ELSE node[i].next
      BY <2>3 DEF Relinked
    <3>2. \A i \in D : g2[i].next = IF i = y THEN node[m].next ELSE g1[i].next
      BY <2>5 DEF Relinked
    <3>3. \A i \in D : g3[i].next = IF i = m THEN y ELSE g2[i].next
      BY <2>7 DEF Relinked
    <3>. QED
      BY ONLY <3>1, <3>2, <3>3
  <2>10. \A i \in D : g3[i].key = node[i].key /\ g3[i].val = node[i].val
    BY <2>3, <2>5, <2>7 DEF Relinked
  <2>11. g3 \in [D -> Fields(D)] /\ DOMAIN g3 = D
    BY <2>7 DEF Relinked
  <2>12. /\ g3[f].next = node[y].next /\ g3[y].next = node[m].next /\ g3[m].next = y
         /\ \A i \in D \ {f, y, m} : g3[i].next = node[i].next
    BY <2>8, <2>9
  <2>. QED
    BY <2>1, <2>8, <2>10, <2>11, <2>12 DEF SameFields
<1>6. /\ ny \in Links(D) /\ DOMAIN ny = D
      /\ ny[f] = nx[y] /\ ny[y] = nx[m] /\ ny[m] = y
      /\ \A i \in D \ {f, y, m} : ny[i] = nx[i]
  <2>. HIDE DEF g
  <2>1. DOMAIN ny = D /\ \A i \in D : ny[i] = g[i].next /\ nx[i] = node[i].next
    BY <1>1, <1>5 DEF Nx, nx
  <2>2. ASSUME NEW i \in D PROVE g[i].next \in D \cup {NULL}
    <3>1. g[i] \in Fields(D)
      BY <1>5
    <3>. QED
      BY <3>1 DEF Fields
  <2>3. ny \in Links(D)
    BY <2>1, <2>2 DEF Links, Nx
  <2>. QED
    BY <2>1, <2>3, <1>1, <1>2, <1>3, <1>5
<1>. HIDE DEF g, ny
<1>links. /\ NULL \notin D /\ nx \in Links(D) /\ Linear(nx) /\ ny \in Links(D)
          /\ f \in D /\ m \in D /\ y \in D /\ f # y /\ m # f /\ m # y /\ nx[f] = y
  BY <1>1, <1>2, <1>3, <1>4, <1>6
<1>7. /\ Linear(ny)
      /\ \A a, b \in D \ {y} : Reaches(ny, a, b) <=> Reaches(nx, a, b)
      /\ \A a \in D \ {y} : Reaches(ny, a, y) <=> Reaches(nx, a, m)
  BY ONLY <1>links, <1>6, MoveReaches
<1>8. Woven(g, hm)
  BY <1>1, <1>5, <1>6, <1>7 DEF Woven, D, ny
<1>9. Keyed(g, hm, mn) /\ Live(g) = Live(node)
  <2>1. Woven(node, hm) /\ Keyed(node, hm, mn) /\ g \in [D -> Fields(D)] /\ SameFields(node, g)
    BY <1>1, <1>5 DEF Semi
  <2>. QED
    BY <2>1, <1>8, SameKeyed DEF D
<1>10. Spare(g)
  <2>. SUFFICES ASSUME NEW i \in D, g[i].key = NULL PROVE Isolated(ny, i)
    BY <1>5 DEF Spare, ny
  <2>1. node[i].key = NULL
    BY <1>1, <1>5 DEF SameFields
  <2>2. nx[i] = NULL /\ \A j \in D : nx[j] # i
    BY <2>1, <1>1 DEF Semi, Spare, Isolated, nx, D
  <2>3. i # f /\ i # y /\ i # m
    BY <2>1, <2>2, <1>1, <1>2, <1>3
  <2>4. ny[i] = NULL
    BY <2>2, <2>3, <1>6
  <2>5. ASSUME NEW j \in D PROVE ny[j] # i
    <3>1. nx[y] # i /\ nx[m] # i /\ nx[j] # i
      BY <2>2, <1>links
    <3>2. j \in {f, y, m} \/ ny[j] = nx[j]
      BY <1>6
    <3>3. ny[f] = nx[y] /\ ny[y] = nx[m] /\ ny[m] = y
      BY <1>6
    <3>. QED
      BY <3>1, <3>2, <3>3, <2>3
  <2>. QED
    BY <2>4, <2>5, <1>6 DEF Isolated
<1>11. y \in After(node, f)
  <2>1. Reaches(nx, f, f) /\ nx[f] # NULL
    BY <1>1, <1>2, ReachSelf
  <2>2. Reaches(nx, f, y)
    BY <2>1, <1>1, <1>2, ReachNext
  <2>. QED
    BY <2>2, <1>1, <1>2, <1>4 DEF After, Behind, nx
<1>12. ~ Reaches(nx, y, m)
  BY <1>2, <1>11 DEF Semi, nx
<1>13. After(g, f) = After(node, f) \ {y}
  <2>1. ~ Reaches(ny, f, y)
    <3>. SUFFICES ASSUME Reaches(nx, f, m) PROVE FALSE
      BY <1>links, <1>7
    <3>1. Reaches(nx, nx[f], m)
      BY ONLY <1>links, Reaches(nx, f, m), ReachStep
    <3>. QED
      BY <3>1, <1>links, <1>12
  <2>. QED
    BY <2>1, <1>1, <1>4, <1>6, <1>7 DEF After, Behind, nx, ny
<1>14. ASSUME NEW i \in Live(node), i \notin After(node, f) \ {y} PROVE Found(g, mn, i)
  <2>. DEFINE k == node[i].key
              mi == mn[k]
  <2>1. /\ i \in D /\ k \in Keys /\ mi \in D /\ g[i].key = k
        /\ \A j \in D : g[j].key = node[j].key
    BY <1>1, <1>5, LiveMain DEF SameFields, D, HasMain
  <2>. SUFFICES /\ Reaches(ny, mi, i)
                /\ \A j \in D : Reaches(ny, mi, j) /\ node[j].key = k => Reaches(ny, i, j)
    <3>. HIDE DEF mi, k
    <3>1. i # NULL /\ DOMAIN g = D
      BY <1>1, <1>5, <2>1
    <3>2. Found(g, mn, i) <=> First(g, mi, k, i)
      BY <2>1 DEF Found, mi
    <3>. QED
      BY <3>1, <3>2, <2>1 DEF First, ny
  <2>2. CASE i = y
    <3>1. mi = m
      BY <2>2
    <3>2. Reaches(ny, m, y)
      BY <1>1, <1>3, <1>7, ReachSelf
    <3>3. ASSUME NEW j \in D, Reaches(ny, m, j), node[j].key = k PROVE Reaches(ny, y, j)
      <4>1. m # j
        BY <3>3, <2>2, <1>3
      <4>. QED
        BY ONLY <4>1, <3>3, <1>links, <1>6, ReachStep
    <3>. QED
      BY <3>1, <3>2, <3>3, <2>2
  <2>3. CASE i # y
    <3>1. Found(node, mn, i) /\ i \notin After(node, f)
      BY <2>3, <1>14 DEF Semi
    <3>. HIDE DEF mi, k
    <3>2. /\ Reaches(nx, mi, i)
          /\ \A j \in D : Reaches(nx, mi, j) /\ node[j].key = k => Reaches(nx, i, j)
      <4>1. i # NULL /\ First(node, mi, k, i)
        BY <3>1, <2>1, <1>1 DEF Found, mi, k
      <4>. QED
        BY <4>1, <1>1 DEF First, nx
    <3>3. mi # y
      <4>. SUFFICES ASSUME mi = y PROVE FALSE
        OBVIOUS
      <4>1. Reaches(nx, f, i)
        BY <3>2, <1>1, <1>2, <2>1, <1>11, ReachTrans DEF After, Behind, nx
      <4>2. i = f
        BY <4>1, <3>1, <1>1, <2>1 DEF After, Behind, nx
      <4>3. Reaches(nx, f, y)
        BY <1>11 DEF After, Behind, nx
      <4>. QED
        BY <4>2, <4>3, <3>2, <1>1, <1>2, <1>4, ReachBack
    <3>4. Reaches(ny, mi, i)
      BY <3>2, <3>3, <2>1, <2>3, <1>7
    <3>5. ASSUME NEW j \in D, Reaches(ny, mi, j), node[j].key = k PROVE Reaches(ny, i, j)
      <4>1. j # y
        BY <3>5, <2>3, <1>1, <1>2 DEF Keyed, k
      <4>. QED
        BY <4>1, <3>2, <3>3, <3>5, <2>1, <2>3, <1>7
    <3>. QED
      BY <3>4, <3>5
  <2>. QED
    BY <2>2, <2>3
<1>15. ASSUME NEW i \in Live(node), i \in After(node, f) \ {y}, mn[node[i].key] # i
       PROVE  ~ Reaches(ny, i, mn[node[i].key])
  <2>. DEFINE mi == mn[node[i].key]
  <2>1. i \in D /\ mi \in D
    BY <1>1, LiveMain DEF D, HasMain
  <2>2. ~ Reaches(nx, i, mi)
    BY <1>15 DEF Semi, nx
  <2>. SUFFICES ~ Reaches(ny, i, mi)
    OBVIOUS
  <2>. HIDE DEF mi
  <2>3. CASE mi # y
    BY <2>1, <2>2, <2>3, <1>7, <1>15
  <2>4. CASE mi = y
    <3>1. Reaches(nx, f, i) /\ i # f
      BY <1>15 DEF After, Behind, nx
    <3>2. Reaches(nx, y, i)
      BY ONLY <3>1, <2>1, <1>links, ReachStep
    <3>3. ~ Reaches(nx, i, m)
      BY ONLY <3>2, <2>1, <1>links, <1>12, ReachTrans
    <3>. QED
      BY <3>3, <2>1, <2>4, <1>7, <1>15
  <2>. QED
    BY <2>3, <2>4
<1>16. Semi(g, hm, mn, f)
  <2>1. \A i \in Live(node) : i \in D /\ g[i].key = node[i].key
    BY <1>1, <1>5, LiveMain DEF SameFields, D, HasMain
  <2>2. \A i \in Live(g) \ After(g, f) : Found(g, mn, i)
    BY <1>9, <1>13, <1>14
  <2>3. \A i \in Live(g) \cap After(g, f) :
          mn[g[i].key] # i => ~ Reaches(Nx(g), i, mn[g[i].key])
    BY <2>1, <1>9, <1>13, <1>15 DEF ny
  <2>. QED
    BY <2>2, <2>3, <1>1, <1>8, <1>9, <1>10 DEF Semi, D
<1>. QED
  BY <1>5, <1>11, <1>13, <1>16 DEF g
--------------------------------------------------------------------------------
LEMMA SkipStep ==
  ASSUME NEW hm, NEW node, NEW mn, NEW f, Semi(node, hm, mn, f),
         NEW y, y = node[f].next, y # NULL,
         node[y].val # NULL => mn[node[y].key] \in {f, y}
  PROVE  /\ Semi(node, hm, mn, y)
         /\ y \in After(node, f) /\ After(node, y) = After(node, f) \ {y}
<1>. DEFINE D == 0..hm
            nx == Nx(node)
<1>1. /\ NULL \notin D /\ DOMAIN node = D /\ DOMAIN nx = D /\ nx \in Links(D)
      /\ Linear(nx) /\ f \in D /\ Keyed(node, hm, mn) /\ Woven(node, hm)
      /\ \A i \in D : nx[i] = node[i].next /\ node[i].next \in D \cup {NULL}
  BY Linked DEF Semi
<1>. HIDE DEF D, nx
<1>2. y \in D /\ nx[f] = y /\ nx[f] # NULL
  BY <1>1
<1>3. Behind(nx, y) = Behind(nx, f) \ {f} /\ f # y
  BY <1>1, <1>2, BehindNext
<1>4. y \in Behind(nx, y)
  BY <1>1, <1>2, ReachSelf DEF Behind
<1>5. y \in After(node, f) /\ After(node, y) = After(node, f) \ {y}
  BY <1>3, <1>4 DEF After, nx
<1>6. ASSUME NEW i \in Live(node), i \notin After(node, y) PROVE Found(node, mn, i)
  <2>1. CASE i # y
    BY <2>1, <1>5, <1>6 DEF Semi
  <2>2. CASE i = y
    <3>. DEFINE k == node[y].key
                m == mn[k]
    <3>1. HasMain(node, hm, mn, y) /\ node[y].val # NULL
      BY <2>2, <1>1, LiveMain DEF Live
    <3>2. m \in {f, y} /\ (m # y => node[m].key # k)
      BY <3>1 DEF HasMain
    <3>. HIDE DEF m, k
    <3>3. Reaches(nx, m, y)
      <4>1. Reaches(nx, f, y) /\ Reaches(nx, y, y)
        BY <1>3, <1>4 DEF Behind
      <4>. QED
        BY <3>2, <4>1
    <3>4. ASSUME NEW j \in D, Reaches(nx, m, j), node[j].key = k PROVE Reaches(nx, y, j)
      <4>1. CASE m = y
        BY <3>4, <4>1
      <4>2. CASE m = f /\ m # y
        <5>1. j # f
          BY <4>2, <3>2, <3>4
        <5>2. Reaches(nx, nx[f], j)
          BY <5>1, <4>2, <3>4, <1>1, ReachStep
        <5>. QED
          BY <5>2, <1>2
      <4>. QED
        BY <4>1, <4>2, <3>2
    <3>5. First(node, m, k, y)
      BY <3>3, <3>4, <1>1, <1>2 DEF First, nx, k
    <3>. QED
      BY <3>5, <2>2 DEF Found, m, k
  <2>. QED
    BY <2>1, <2>2
<1>7. Semi(node, hm, mn, y)
  <2>1. \A i \in Live(node) \cap After(node, y) :
          mn[node[i].key] # i => ~ Reaches(Nx(node), i, mn[node[i].key])
    BY <1>5 DEF Semi
  <2>2. y \in 0..hm
    BY <1>2 DEF D
  <2>3. \A i \in Live(node) \ After(node, y) : Found(node, mn, i)
    BY <1>6
  <2>. QED
    BY <2>1, <2>2, <2>3 DEF Semi
<1>. QED
  BY <1>5, <1>7

\* Nothing is after the end of a chain.
LEMMA AfterEnd ==
  ASSUME NEW hm, NEW node, Woven(node, hm), NEW f \in 0..hm, node[f].next = NULL
  PROVE  After(node, f) = {}
<1>. DEFINE D == 0..hm
            nx == Nx(node)
<1>1. NULL \notin D /\ DOMAIN nx = D /\ nx \in Links(D) /\ nx[f] = NULL /\ f \in D
  BY Linked
<1>. HIDE DEF D, nx
<1>2. \A i \in D : Reaches(nx, f, i) => i = f
  BY <1>1, ReachEnd
<1>. QED
  BY <1>1, <1>2 DEF After, Behind, nx

\* The nodes with the same keys and values that a walk along the chain of
\* node f may have made of node, and how far it has come.
Walks(node, hm, mn) ==
  {p \in [node : [0..hm -> Fields(0..hm)], f : 0..hm] :
     Semi(p.node, hm, mn, p.f) /\ SameFields(node, p.node)}

LEMMA SameFieldsTrans ==
  ASSUME NEW node, NEW g, NEW e, SameFields(node, g), SameFields(g, e)
  PROVE  SameFields(node, e)
  BY DEF SameFields

LEMMA RechainAllSound ==
  ASSUME NEW hm \in Nat, NEW node, NEW mn, NEW f, Semi(node, hm, mn, f),
         NEW h, h.hmask = hm, \A k \in Keys : mn[k] = hashkey(h, k)
  PROVE  Sound(RechainAll(h, node, f), hm, mn) /\ SameFields(node, RechainAll(h, node, f))
<1>. DEFINE H == Walks(node, hm, mn)
            p0 == [node |-> node, f |-> f]
            step(p) ==
              LET nn == p.node[p.f].next
                  m  == hashkey(h, p.node[nn].key) IN
              IF nn = NULL THEN p
              ELSE IF p.node[nn].val # NULL /\ m \notin {p.f, nn}
              THEN [p EXCEPT !.node = MoveNext(p.node, p.f, m)]
              ELSE [p EXCEPT !.f = nn]
            body(g) == [j \in 0..hm |-> IF j = 0 THEN p0 ELSE step(g[j - 1])]
            pass == CHOOSE g : g = body(g)
            ix == [z \in (1..hm) \X H |-> step(z[2])]
            Done(p, q) == \/ After(p.node, p.f) = {} /\ q = p
                          \/ \E y \in After(p.node, p.f) :
                               After(q.node, q.f) = After(p.node, p.f) \ {y}
<1>1. RechainAll(h, node, f) = pass[hm].node
  BY DEF RechainAll, Semi, Woven
<1>2. p0 \in H
  <2>1. node \in [0..hm -> Fields(0..hm)] /\ f \in 0..hm /\ SameFields(node, node)
    BY DEF Semi, Keyed, SameFields
  <2>. QED
    BY <2>1 DEF Walks
<1>3. ASSUME NEW p \in H PROVE step(p) \in H /\ Done(p, step(p))
  <2>. DEFINE nn == p.node[p.f].next
              m  == hashkey(h, p.node[nn].key)
              q  == [p EXCEPT !.node = MoveNext(p.node, p.f, m)]
              r  == [p EXCEPT !.f = nn]
  <2>1. /\ Semi(p.node, hm, mn, p.f) /\ SameFields(node, p.node) /\ p.f \in 0..hm
        /\ p \in [node : [0..hm -> Fields(0..hm)], f : 0..hm]
        /\ Woven(p.node, hm) /\ Keyed(p.node, hm, mn)
    BY DEF Walks, Semi
  <2>2. CASE nn = NULL
    <3>1. step(p) = p
      BY <2>2
    <3>2. After(p.node, p.f) = {}
      BY <2>1, <2>2, AfterEnd
    <3>. HIDE DEF step, H
    <3>. QED
      BY <3>1, <3>2
  <2>3. CASE nn # NULL /\ p.node[nn].val # NULL /\ m \notin {p.f, nn}
    <3>1. step(p) = q
      BY <2>3
    <3>. DEFINE g == MoveNext(p.node, p.f, m)
    <3>2. q \in [node : {g}, f : 0..hm] /\ q.node = g /\ q.f = p.f
      BY <2>1
    <3>3. m = mn[p.node[nn].key]
      <4>1. DOMAIN p.node = 0..hm /\ p.node[p.f].next \in 0..hm \cup {NULL}
        BY <2>1, Linked
      <4>2. nn \in Live(p.node)
        BY <4>1, <2>3 DEF Live
      <4>3. HasMain(p.node, hm, mn, nn)
        BY <4>2, <2>1, LiveMain
      <4>. QED
        BY <4>3 DEF HasMain
    <3>. HIDE DEF g, q, m, step
    <3>4. /\ Semi(g, hm, mn, p.f) /\ SameFields(p.node, g)
          /\ nn \in After(p.node, p.f) /\ After(g, p.f) = After(p.node, p.f) \ {nn}
      <4>. HIDE DEF nn
      <4>1. nn = p.node[p.f].next /\ nn # NULL /\ p.node[nn].val # NULL /\ m # p.f /\ m # nn
        BY <2>3 DEF nn
      <4>2. Semi(p.node, hm, mn, p.f) /\ m = mn[p.node[nn].key]
        BY <3>3, <2>1
      <4>. DEFINE a == p.node
                  b == p.f
      <4>3. /\ Semi(a, hm, mn, b) /\ nn = a[b].next /\ nn # NULL /\ a[nn].val # NULL
            /\ m = mn[a[nn].key] /\ m # b /\ m # nn /\ g = MoveNext(a, b, m)
        BY <4>1, <4>2 DEF g
      <4>. HIDE DEF a, b
      <4>4. /\ Semi(g, hm, mn, b) /\ SameFields(a, g)
            /\ nn \in After(a, b) /\ After(g, b) = After(a, b) \ {nn}
        BY ONLY <4>3, MoveStep
      <4>. QED
        BY <4>4 DEF a, b
    <3>5. SameFields(node, g)
      BY <3>4, <2>1, SameFieldsTrans
    <3>6. g \in [0..hm -> Fields(0..hm)]
      BY <3>4 DEF Semi, Keyed
    <3>7. q \in H
      BY <3>2, <3>4, <3>5, <3>6 DEF Walks
    <3>8. Done(p, q)
      BY <3>2, <3>4
    <3>. HIDE DEF H
    <3>. QED
      BY <3>1, <3>7, <3>8
  <2>4. CASE nn # NULL /\ ~ (p.node[nn].val # NULL /\ m \notin {p.f, nn})
    <3>1. step(p) = r
      BY <2>4
    <3>2. DOMAIN p.node = 0..hm /\ p.node[p.f].next \in 0..hm \cup {NULL}
      BY <2>1, Linked
    <3>3. nn \in 0..hm
      BY <3>2, <2>4
    <3>4. r \in [node : [0..hm -> Fields(0..hm)], f : 0..hm] /\ r.node = p.node /\ r.f = nn
      BY <2>1, <3>3
    <3>5. p.node[nn].val # NULL => mn[p.node[nn].key] \in {p.f, nn}
      <4>. SUFFICES ASSUME p.node[nn].val # NULL PROVE mn[p.node[nn].key] \in {p.f, nn}
        OBVIOUS
      <4>1. nn \in Live(p.node)
        BY <3>2, <3>3 DEF Live
      <4>2. HasMain(p.node, hm, mn, nn)
        BY <4>1, <2>1, LiveMain
      <4>. QED
        BY <4>2, <2>4 DEF HasMain
    <3>. HIDE DEF r, step
    <3>6. /\ Semi(p.node, hm, mn, nn)
          /\ nn \in After(p.node, p.f) /\ After(p.node, nn) = After(p.node, p.f) \ {nn}
      <4>. HIDE DEF nn
      <4>1. nn = p.node[p.f].next /\ nn # NULL
        BY <2>4 DEF nn
      <4>. QED
        BY <4>1, <3>5, <2>1, SkipStep
    <3>7. r \in H
      BY <3>4, <3>6, <2>1 DEF Walks
    <3>8. Done(p, r)
      BY <3>4, <3>6
    <3>. HIDE DEF H
    <3>. QED
      BY <3>1, <3>7, <3>8
  <2>. QED
    BY <2>2, <2>3, <2>4
<1>. HIDE DEF H, step, p0
<1>4. pass = body(pass)
  <2>1. ix \in [(1..hm) \X H -> H]
    BY <1>3
  <2>2. \A j \in 1..hm, p \in H : ix[<<j, p>>] = step(p)
    OBVIOUS
  <2>. HIDE DEF ix
  <2>3. PICK e : Repeats(e, hm, H, ix, p0)
    BY <1>2, <2>1, Repeated
  <2>4. /\ e \in [0..hm -> H] /\ e[0] = p0
        /\ \A j \in 1..hm : e[j] = ix[<<j, e[j - 1]>>]
    BY <2>3 DEF Repeats
  <2>5. \A j \in 0..hm : e[j] = IF j = 0 THEN p0 ELSE step(e[j - 1])
    <3>. SUFFICES ASSUME NEW j \in 1..hm PROVE e[j] = step(e[j - 1])
      BY <2>4
    <3>1. j - 1 \in 0..hm
      OBVIOUS
    <3>2. e[j - 1] \in H
      BY <3>1, <2>4
    <3>. QED
      BY <3>2, <2>2, <2>4
  <2>6. e = body(e)
    BY <2>4, <2>5
  <2>. HIDE DEF body
  <2>. QED
    BY <2>6
<1>5. \A j \in 0..hm : pass[j] = IF j = 0 THEN p0 ELSE step(pass[j - 1])
  <2>. HIDE DEF pass
  <2>. QED
    BY <1>4
<1>. HIDE DEF pass
<1>6. \A p \in H : IsFiniteSet(After(p.node, p.f)) /\ Cardinality(After(p.node, p.f)) \in 0..hm
  <2>. SUFFICES ASSUME NEW p \in H
                PROVE  /\ IsFiniteSet(After(p.node, p.f))
                       /\ Cardinality(After(p.node, p.f)) \in 0..hm
    OBVIOUS
  <2>1. p.f \in 0..hm /\ DOMAIN Nx(p.node) = 0..hm
    BY Linked DEF H, Walks, Semi
  <2>2. IsFiniteSet(0..hm) /\ Cardinality(0..hm) = hm + 1
    BY FS_Interval
  <2>3. /\ IsFiniteSet((0..hm) \ {p.f}) /\ Cardinality((0..hm) \ {p.f}) = hm
    <3>. DEFINE S == 0..hm
    <3>1. p.f \in S /\ IsFiniteSet(S) /\ Cardinality(S) = hm + 1
      BY <2>1, <2>2
    <3>. HIDE DEF S
    <3>2. IsFiniteSet(S \ {p.f}) /\ Cardinality(S \ {p.f}) = Cardinality(S) - 1
      BY <3>1, FS_RemoveElement
    <3>3. IsFiniteSet(S \ {p.f}) /\ Cardinality(S \ {p.f}) = hm
      BY <3>1, <3>2
    <3>. QED
      BY <3>3 DEF S
  <2>4. After(p.node, p.f) \in SUBSET ((0..hm) \ {p.f})
    BY <2>1 DEF After, Behind
  <2>. QED
    BY <2>3, <2>4, FS_Subset, FS_CardinalityType
<1>. DEFINE left(j) == Cardinality(After(pass[j].node, pass[j].f))
            T == {j \in Nat : j <= hm => pass[j] \in H /\ left(j) <= hm - j}
<1>7. 0 \in T
  <2>1. pass[0] \in H
    BY <1>2, <1>5
  <2>. QED
    BY <2>1, <1>6
<1>8. ASSUME NEW j \in Nat, j \in T PROVE j + 1 \in T
  <2>. SUFFICES ASSUME j + 1 <= hm
                PROVE  pass[j + 1] \in H /\ left(j + 1) <= hm - (j + 1)
    OBVIOUS
  <2>1. pass[j] \in H /\ left(j) <= hm - j
    BY <1>8
  <2>2. pass[j + 1] = step(pass[j])
    <3>1. j + 1 \in 0..hm /\ j + 1 # 0 /\ (j + 1) - 1 = j
      OBVIOUS
    <3>. QED
      BY <3>1, <1>5
  <2>3. pass[j + 1] \in H /\ Done(pass[j], pass[j + 1])
    <3>. HIDE DEF Done
    <3>. QED
      BY <2>1, <2>2, <1>3
  <2>4. IsFiniteSet(After(pass[j].node, pass[j].f)) /\ left(j) \in 0..hm /\ left(j + 1) \in 0..hm
    BY <2>1, <2>3, <1>6
  <2>5. CASE After(pass[j].node, pass[j].f) = {} /\ pass[j + 1] = pass[j]
    <3>1. left(j + 1) = 0
      BY <2>5, FS_EmptySet
    <3>. QED
      BY <3>1, <2>3
  <2>6. CASE \E y \in After(pass[j].node, pass[j].f) :
               After(pass[j + 1].node, pass[j + 1].f) = After(pass[j].node, pass[j].f) \ {y}
    <3>1. left(j + 1) = left(j) - 1
      <4>. DEFINE A == After(pass[j].node, pass[j].f)
                  B == After(pass[j + 1].node, pass[j + 1].f)
      <4>1. PICK y \in A : B = A \ {y}
        BY <2>6
      <4>2. IsFiniteSet(A)
        BY <2>4
      <4>. HIDE DEF A, B
      <4>3. Cardinality(B) = Cardinality(A) - 1
        BY <4>1, <4>2, FS_RemoveElement
      <4>. QED
        BY <4>3 DEF A, B
    <3>. QED
      BY <3>1, <2>1, <2>3, <2>4
  <2>. QED
    BY <2>3, <2>5, <2>6
<1>9. pass[hm] \in H /\ After(pass[hm].node, pass[hm].f) = {}
  <2>1. \A j \in Nat : j \in T
    <3>. HIDE DEF T
    <3>. QED
      BY <1>7, <1>8, SetInduction
  <2>2. pass[hm] \in H /\ left(hm) <= 0
    BY <2>1
  <2>3. IsFiniteSet(After(pass[hm].node, pass[hm].f)) /\ left(hm) = 0
    BY <2>2, <1>6
  <2>. QED
    BY <2>2, <2>3, FS_EmptySet
<1>. QED
  BY <1>1, <1>9 DEF H, Walks, Semi, Sound
--------------------------------------------------------------------------------
(* The least and the largest of a set of numbers. *)

IsMin(S, x) == x \in S /\ \A y \in S : x <= y
IsMax(S, x) == x \in S /\ \A y \in S : y <= x

LEMMA MinNat ==
  ASSUME NEW S \in SUBSET Nat, S # {}
  PROVE  IsMin(S, Min(S))
<1>1. \E x \in S : \A y \in S : x <= y
  <2>. SUFFICES ASSUME \A x \in S : \E y \in S : ~ (x <= y) PROVE FALSE
    OBVIOUS
  <2>. DEFINE T == {i \in Nat : \A y \in S : i <= y}
  <2>1. 0 \in T
    OBVIOUS
  <2>2. ASSUME NEW i \in Nat, i \in T PROVE i + 1 \in T
    <3>1. \A y \in S : i <= y /\ y \in Nat
      BY <2>2
    <3>2. i \notin S
      BY <3>1
    <3>3. \A y \in S : i + 1 <= y
      BY <3>1, <3>2
    <3>. QED
      BY <3>3
  <2>3. \A i \in Nat : i \in T
    <3>. HIDE DEF T
    <3>. QED
      BY <2>1, <2>2, SetInduction
  <2>4. PICK y \in S : TRUE
    OBVIOUS
  <2>5. y + 1 \in T
    BY <2>3, <2>4
  <2>6. y + 1 <= y
    BY <2>4, <2>5
  <2>. QED
    BY <2>6
<1>. QED
  BY <1>1 DEF Min, IsMin

LEMMA MaxNat ==
  ASSUME NEW b \in Nat, NEW S \in SUBSET (0..b), S # {}
  PROVE  IsMax(S, Max(S))
<1>. DEFINE T == {i \in 0..b : b - i \in S}
<1>1. T \in SUBSET Nat /\ T # {}
  <2>1. PICK x \in S : TRUE
    OBVIOUS
  <2>2. b - x \in 0..b /\ b - (b - x) = x
    BY <2>1
  <2>. QED
    BY <2>2
<1>2. PICK i \in T : \A j \in T : i <= j
  <2>. HIDE DEF T
  <2>. QED
    BY <1>1, MinNat DEF IsMin
<1>3. b - i \in S
  BY <1>2
<1>4. \A y \in S : b - i >= y
  <2>. SUFFICES ASSUME NEW y \in S PROVE b - i >= y
    OBVIOUS
  <2>1. b - y \in T
    OBVIOUS
  <2>2. i <= b - y /\ y \in 0..b /\ i \in 0..b
    BY <2>1, <1>2
  <2>. QED
    BY <2>2
<1>5. \E x \in S : \A y \in S : x >= y
  BY <1>3, <1>4
<1>6. Max(S) \in S /\ \A y \in S : Max(S) >= y
  BY <1>5 DEF Max
<1>. QED
  BY <1>6 DEF IsMax
--------------------------------------------------------------------------------
LEMMA RechainSound ==
  ASSUME NEW hm \in Nat, NEW node, NEW mn, NEW f, Semi(node, hm, mn, f),
         NEW h, h.hmask = hm, \A k \in Keys : mn[k] = hashkey(h, k),
         NEW n \in 0..hm, Isolated(Nx(node), n),
         \A i \in Live(node) : mn[node[i].key] # n => Found(node, mn, i)
  PROVE  /\ Sound(Rechain(h, node, f, n), hm, mn)
         /\ SameFields(node, Rechain(h, node, f, n))
<1>. DEFINE D == 0..hm
            nx == Nx(node)
            c == Chain(node, f)
            lost == {j \in DOMAIN node \ {0} :
                       /\ c[j] # NULL /\ node[c[j]].val # NULL
                       /\ hashkey(h, node[c[j]].key) = n}
            j0 == Min(lost)
            last == c[j0 - 1]
            y == c[j0]
<1>1. Rechain(h, node, f, n) = IF lost = {} THEN node
                               ELSE RechainAll(h, MoveNext(node, last, n), last)
  BY DEF Rechain
<1>2. /\ NULL \notin D /\ DOMAIN node = D /\ DOMAIN nx = D /\ nx \in Links(D)
      /\ Linear(nx) /\ f \in D /\ Keyed(node, hm, mn) /\ Woven(node, hm)
      /\ \A i \in D : nx[i] = node[i].next /\ node[i].next \in D \cup {NULL}
  BY Linked DEF Semi
<1>3. /\ c \in [D -> D \cup {NULL}] /\ c[0] = f
      /\ \A j \in 0..(hm - 1) : c[j + 1] = IF c[j] = NULL THEN NULL ELSE nx[c[j]]
      /\ \A b \in D : Reaches(nx, f, b) => \E j \in D : c[j] = b
      /\ \A i, j \in D : i <= j /\ c[j] # NULL => c[i] # NULL /\ Reaches(nx, c[i], c[j])
  <2>1. Chained(0..hm, node, nx)
    BY <1>2 DEF Chained
  <2>. HIDE DEF nx, c
  <2>2. c = Chain(node, f)
    BY DEF c
  <2>. HIDE DEF D
  <2>3. f \in 0..hm
    BY <1>2 DEF D
  <2>4. Walked(hm, nx, f, c)
    BY <2>1, <2>2, <2>3, ChainWalk
  <2>. QED
    BY <2>4 DEF D, Walked
<1>. HIDE DEF c, nx
<1>4. ASSUME NEW j \in D, c[j] # NULL, node[c[j]].val # NULL
      PROVE  /\ c[j] \in D /\ c[j] \in Live(node) /\ node[c[j]].key \in Keys
             /\ mn[node[c[j]].key] = hashkey(h, node[c[j]].key)
  <2>1. c[j] \in D
    BY <1>3, <1>4
  <2>2. c[j] \in Live(node)
    BY <2>1, <1>2, <1>4 DEF Live
  <2>3. HasMain(node, hm, mn, c[j])
    BY <2>2, <1>2, LiveMain
  <2>. QED
    BY <2>1, <2>2, <2>3 DEF HasMain
\* Those that are not found are after f, from the first lost one on.
<1>5. ASSUME NEW i \in Live(node), ~ Found(node, mn, i)
      PROVE  \E j \in lost : c[j] = i
  <2>1. i \in After(node, f) /\ mn[node[i].key] = n
    BY <1>5 DEF Semi
  <2>2. i \in D /\ i # f /\ Reaches(nx, f, i) /\ node[i].val # NULL
    BY <2>1, <1>2 DEF After, Behind, nx, Live
  <2>3. PICK j \in D : c[j] = i
    BY <2>2, <1>3
  <2>4. c[j] # NULL /\ node[c[j]].val # NULL /\ j # 0
    BY <2>2, <2>3, <1>2, <1>3
  <2>5. hashkey(h, node[c[j]].key) = n
    BY <2>1, <2>3, <2>4, <1>4
  <2>. QED
    BY <2>3, <2>4, <2>5, <1>2
<1>6. CASE lost = {}
  <2>1. \A i \in Live(node) : Found(node, mn, i)
    BY <1>5, <1>6
  <2>2. SameFields(node, node)
    BY DEF SameFields
  <2>. HIDE DEF lost
  <2>. QED
    BY <2>1, <2>2, <1>1, <1>6 DEF Semi, Sound
<1>7. CASE lost # {}
  <2>1. IsMin(lost, j0)
    <3>1. lost \in SUBSET Nat
      BY <1>2
    <3>. HIDE DEF lost
    <3>. QED
      BY <3>1, <1>7, MinNat
  <2>2. /\ j0 \in D /\ j0 # 0 /\ y # NULL /\ node[y].val # NULL /\ hashkey(h, node[y].key) = n
        /\ \A j \in lost : j0 <= j
    <3>1. j0 \in lost /\ \A j \in lost : j0 <= j
      BY <2>1 DEF IsMin
    <3>. HIDE DEF j0
    <3>. QED
      BY <3>1, <1>2
  <2>. HIDE DEF j0
  <2>3. y \in D /\ y \in Live(node) /\ mn[node[y].key] = n
    BY <2>2, <1>4
  <2>4. j0 - 1 \in D /\ j0 - 1 \in 0..(hm - 1) /\ (j0 - 1) + 1 = j0 /\ j0 - 1 <= j0
    BY <2>2
  <2>5. last # NULL /\ last \in D /\ nx[last] = y
    BY <2>2, <2>4, <1>3
  <2>6. y # n /\ last # n
    <3>1. \A i \in D : nx[i] # n
      BY <1>2 DEF Isolated, nx
    <3>2. nx[n] = NULL
      BY <1>2 DEF Isolated, nx
    <3>. QED
      BY <3>1, <3>2, <2>2, <2>5
  <2>7. After(node, last) \in SUBSET After(node, f)
    <3>. SUFFICES ASSUME NEW i \in After(node, last) PROVE i \in After(node, f)
      OBVIOUS
    <3>1. i \in D /\ Reaches(nx, last, i) /\ i # last
      BY <1>2 DEF After, Behind, nx
    <3>2. Reaches(nx, f, last)
      <4>1. 0 \in D /\ 0 <= j0 - 1
        BY <2>2, <2>4
      <4>. QED
        BY <4>1, <2>4, <2>5, <1>3
    <3>. HIDE DEF last, D
    <3>3. Reaches(nx, f, i)
      BY <3>1, <3>2, <2>5, <1>2, ReachTrans
    <3>4. i # f
      BY <3>1, <3>2, <2>5, <1>2, ReachBack
    <3>. QED
      BY <3>1, <3>3, <3>4, <1>2 DEF After, Behind, nx
  <2>8. ASSUME NEW i \in Live(node), ~ Found(node, mn, i) PROVE i \in After(node, last)
    <3>1. PICK j \in lost : c[j] = i
      BY <2>8, <1>5
    <3>2. j \in D /\ j0 <= j /\ c[j] # NULL /\ i \in D
      BY <3>1, <2>2, <1>2, <1>3
    <3>3. j0 - 1 <= j
      BY <3>2, <2>2
    <3>4. Reaches(nx, last, i) /\ Reaches(nx, y, i)
      BY <3>1, <3>2, <3>3, <2>2, <2>4, <1>3
    <3>5. i # last
      <4>. SUFFICES ASSUME i = last PROVE FALSE
        OBVIOUS
      <4>1. Reaches(nx, y, last) /\ nx[last] # NULL
        BY <3>4, <2>2, <2>5
      <4>. HIDE DEF last, y, D
      <4>2. Reaches(nx, last, last)
        BY <2>5, <1>2, ReachSelf
      <4>3. Reaches(nx, last, nx[last])
        BY <4>1, <4>2, <2>5, <1>2, ReachNext
      <4>4. nx[last] # last
        BY <4>1, <2>5, <1>2, BehindNext
      <4>. QED
        BY <4>1, <4>3, <4>4, <2>3, <2>5, <1>2, ReachBack
    <3>. QED
      BY <3>2, <3>4, <3>5, <1>2 DEF After, Behind, nx
  <2>9. Semi(node, hm, mn, last)
    <3>1. /\ Woven(node, hm) /\ Keyed(node, hm, mn) /\ Spare(node)
          /\ \A i \in Live(node) \cap After(node, f) :
               mn[node[i].key] # i => ~ Reaches(Nx(node), i, mn[node[i].key])
      BY DEF Semi
    <3>2. \A i \in Live(node) \ After(node, last) : Found(node, mn, i)
      BY <2>8
    <3>3. \A i \in Live(node) \cap After(node, last) :
               mn[node[i].key] # i => ~ Reaches(Nx(node), i, mn[node[i].key])
      BY <3>1, <2>7
    <3>4. last \in 0..hm
      BY <2>5
    <3>. QED
      BY <3>1, <3>2, <3>3, <3>4 DEF Semi
  <2>10. y = node[last].next
    BY <2>5, <1>2
  <2>. HIDE DEF last, y
  <2>11. Semi(MoveNext(node, last, n), hm, mn, last) /\ SameFields(node, MoveNext(node, last, n))
    BY <2>2, <2>3, <2>6, <2>9, <2>10, MoveStep
  <2>. DEFINE g == MoveNext(node, last, n)
              e == RechainAll(h, g, last)
  <2>12. Semi(g, hm, mn, last)
    BY <2>11
  <2>13. SameFields(node, g)
    BY <2>11
  <2>. HIDE DEF g
  <2>14. Sound(e, hm, mn) /\ SameFields(g, e)
    BY <2>12, RechainAllSound
  <2>15. Rechain(h, node, f, n) = e
    BY <1>1, <1>7 DEF g
  <2>. HIDE DEF e
  <2>. QED
    BY <2>13, <2>14, <2>15, SameFieldsTrans
<1>. QED
  BY <1>6, <1>7
--------------------------------------------------------------------------------
(* Inserting a key. *)

Evicted(node, g, n, f) ==
  /\ DOMAIN g = DOMAIN node
  /\ \A i \in DOMAIN node :
       /\ g[i].key = IF i = f THEN node[n].key ELSE node[i].key
       /\ g[i].val = IF i = f THEN node[n].val ELSE IF i = n THEN NULL ELSE node[i].val

\* Node n moves to the free node f, behind p in the place of n.
Moved(node, p, n, f) ==
  [node EXCEPT ![p].next = f, ![f] = node[n], ![n].next = NULL, ![n].val = NULL]

MovedTo(node, g, D, p, n, f) ==
  /\ g \in [D -> Fields(D)] /\ DOMAIN g = D /\ Evicted(node, g, n, f)
  /\ g[p].next = f /\ g[f].next = node[n].next /\ g[n].next = NULL
  /\ \A i \in D \ {p, n, f} : g[i].next = node[i].next
LEMMA MovedFields ==
  ASSUME NEW D, NULL \notin D, NEW node \in [D -> Fields(D)],
         NEW p \in D, NEW n \in D, NEW f \in D, p # n, p # f, f # n
  PROVE  MovedTo(node, Moved(node, p, n, f), D, p, n, f)
<1>. DEFINE rp == [node[p] EXCEPT !.next = f]
            rn == [node[n] EXCEPT !.next = NULL, !.val = NULL]
            g  == [node EXCEPT ![p] = rp, ![f] = node[n], ![n] = rn]
<1>1. /\ rp \in Fields(D) /\ rp.key = node[p].key /\ rp.val = node[p].val /\ rp.next = f
      /\ rn \in Fields(D) /\ rn.key = node[n].key /\ rn.val = NULL /\ rn.next = NULL
      /\ node[n] \in Fields(D) /\ DOMAIN node = D
  <2>1. node[p] \in Fields(D) /\ node[n] \in Fields(D)
    OBVIOUS
  <2>. QED
    BY <2>1 DEF Fields
<1>2. Moved(node, p, n, f) = g
  BY <1>1 DEF Moved
<1>. HIDE DEF rp, rn
<1>3. /\ g \in [D -> Fields(D)] /\ DOMAIN g = D
      /\ g[p] = rp /\ g[f] = node[n] /\ g[n] = rn
      /\ \A i \in D \ {p, n, f} : g[i] = node[i]
  BY <1>1
<1>. HIDE DEF g
<1>. QED
  BY <1>1, <1>2, <1>3 DEF Evicted, MovedTo

LEMMA EvictSemi ==
  ASSUME NEW hm \in Nat, NEW node, NEW mn, Sound(node, hm, mn),
         NEW n \in Live(node), mn[node[n].key] # n,
         NEW f \in 0..hm, node[f].key = NULL,
         NEW p \in 0..hm, node[p].next = n
  PROVE  LET g == Moved(node, p, n, f) IN
         /\ Semi(g, hm, mn, f) /\ Isolated(Nx(g), n) /\ Evicted(node, g, n, f)
         /\ \A i \in Live(g) : mn[g[i].key] # n => Found(g, mn, i)
<1>. DEFINE D == 0..hm
            nx == Nx(node)
            g == Moved(node, p, n, f)
            ny == Nx(g)
<1>1. /\ NULL \notin D /\ DOMAIN node = D /\ DOMAIN nx = D /\ nx \in Links(D)
      /\ Linear(nx) /\ f \in D /\ Keyed(node, hm, mn) /\ Woven(node, hm)
      /\ \A i \in D : nx[i] = node[i].next /\ node[i].next \in D \cup {NULL}
  BY Linked DEF Sound
<1>2. n \in D /\ node[n].val # NULL /\ nx[p] = n /\ n # NULL /\ p \in D /\ HasMain(node, hm, mn, n)
  BY <1>1, LiveMain DEF Live
<1>3. Isolated(nx, f) /\ nx[f] = NULL /\ f # n /\ p # f /\ p # n
  <2>1. Isolated(nx, f) /\ nx[f] = NULL
    BY <1>1 DEF Sound, Spare, Isolated
  <2>2. f # n
    BY <1>2 DEF HasMain
  <2>3. p # f
    BY <2>1, <1>2
  <2>. HIDE DEF D, nx
  <2>4. nx[p] # NULL
    BY <1>2
  <2>5. p # n
    BY <2>4, <1>1, <1>2, BehindNext
  <2>. QED
    BY <2>1, <2>2, <2>3, <2>5
<1>4. /\ g \in [D -> Fields(D)] /\ DOMAIN g = D /\ Evicted(node, g, n, f)
      /\ g[p].next = f /\ g[f].next = node[n].next /\ g[n].next = NULL
      /\ \A i \in D \ {p, n, f} : g[i].next = node[i].next
  <2>1. node \in [D -> Fields(D)]
    BY <1>1 DEF Keyed
  <2>2. NULL \notin D /\ p \in D /\ n \in D /\ f \in D /\ p # n /\ p # f /\ f # n
    BY <1>1, <1>2, <1>3
  <2>. HIDE DEF D
  <2>3. MovedTo(node, g, D, p, n, f)
    BY <2>1, <2>2, MovedFields
  <2>. QED
    BY <2>3 DEF MovedTo
<1>. HIDE DEF g
<1>5. /\ ny \in Links(D) /\ DOMAIN ny = D
      /\ ny[p] = f /\ ny[f] = nx[n] /\ ny[n] = NULL
      /\ \A i \in D \ {p, n, f} : ny[i] = nx[i]
  <2>1. \A i \in D : g[i].next \in D \cup {NULL}
    BY <1>1, <1>2, <1>4
  <2>2. ny \in Links(D) /\ DOMAIN ny = D /\ \A i \in D : ny[i] = g[i].next
    BY <2>1, <1>4 DEF Nx, Links
  <2>. HIDE DEF ny, nx, D
  <2>. QED
    BY <2>2, <1>1, <1>2, <1>3, <1>4
<1>. HIDE DEF ny, nx, D
<1>6. /\ Linear(ny) /\ Isolated(ny, n)
      /\ \A a, b \in D \ {n, f} : Reaches(ny, a, b) <=> Reaches(nx, a, b)
      /\ \A a \in D \ {n, f} : Reaches(ny, a, f) <=> Reaches(nx, a, n)
      /\ \A b \in D \ {n, f} : Reaches(nx, n, b) => Reaches(ny, f, b)
  <2>1. NULL \notin D /\ nx \in Links(D) /\ ny \in Links(D) /\ Linear(nx)
    BY <1>1, <1>5
  <2>2. p \in D /\ n \in D /\ f \in D /\ nx[p] = n /\ f # n /\ Isolated(nx, f)
    BY <1>1, <1>2, <1>3
  <2>3. ny[p] = f /\ ny[f] = nx[n] /\ ny[n] = NULL /\ \A i \in D \ {p, n, f} : ny[i] = nx[i]
    BY <1>5
  <2>4. EvictedReach(D, nx, ny, n, f)
    BY <2>1, <2>2, <2>3, EvictReaches
  <2>. QED
    BY <2>4 DEF EvictedReach
<1>7. \A i \in D : /\ g[i].key = IF i = f THEN node[n].key ELSE node[i].key
                   /\ g[i].val = IF i = f THEN node[n].val
                                 ELSE IF i = n THEN NULL ELSE node[i].val
  BY <1>1, <1>4 DEF Evicted
<1>8. Live(g) = (Live(node) \ {n}) \cup {f} /\ f \notin Live(node)
  <2>1. f \notin Live(node)
    <3>1. f \in Live(node) => HasMain(node, hm, mn, f)
      BY <1>1, LiveMain
    <3>. QED
      BY <3>1 DEF HasMain
  <2>2. \A i \in D : g[i].val # NULL <=> (i # n /\ node[i].val # NULL) \/ i = f
    BY <1>2, <1>3, <1>7
  <2>3. DOMAIN node = D /\ DOMAIN g = D /\ f \in D
    BY <1>1, <1>3, <1>4
  <2>. HIDE DEF D
  <2>4. Live(node) = {i \in D : node[i].val # NULL} /\ Live(g) = {i \in D : g[i].val # NULL}
    BY <2>3 DEF Live
  <2>. QED
    BY <2>1, <2>2, <2>3, <2>4
\* The key of a live node and its main position are as they were.
<1>9. ASSUME NEW i \in Live(node), i # n
      PROVE  /\ HasMain(node, hm, mn, i) /\ i # f /\ i \in D
             /\ g[i].key = node[i].key /\ node[i].key # node[n].key
             /\ mn[node[i].key] # f /\ g[mn[node[i].key]].key = node[mn[node[i].key]].key
             /\ mn[node[i].key] \in D
  <2>1. HasMain(node, hm, mn, i) /\ i # f
    BY <1>1, <1>8, LiveMain
  <2>2. node[i].key # node[n].key
    BY <1>1, <1>9 DEF Keyed
  <2>. QED
    BY <2>1, <2>2, <1>7 DEF HasMain, D
<1>10. mn[node[n].key] # f /\ mn[node[n].key] \in D
  BY <1>2 DEF HasMain, D
<1>11. Woven(g, hm)
  BY <1>1, <1>4, <1>5, <1>6 DEF Woven, D, ny
<1>12. Keyed(g, hm, mn)
  <2>1. \A i \in D : g[i].val \in {NULL, g[i].key}
    <3>1. \A i \in D : node[i].val \in {NULL, node[i].key}
      BY <1>1 DEF Keyed, D
    <3>. QED
      BY <3>1, <1>2, <1>7
  <2>2. ASSUME NEW i \in Live(g), NEW j \in Live(g), g[i].key = g[j].key PROVE i = j
    <3>1. CASE i = f
      BY <3>1, <2>2, <1>1, <1>7, <1>8, <1>9
    <3>2. CASE j = f
      BY <3>2, <2>2, <1>1, <1>7, <1>8, <1>9
    <3>3. CASE i # f /\ j # f
      <4>1. i \in Live(node) /\ j \in Live(node) /\ node[i].key = node[j].key
        BY <3>3, <2>2, <1>8, <1>9
      <4>. QED
        BY <4>1, <1>1 DEF Keyed
    <3>. QED
      BY <3>1, <3>2, <3>3
  <2>3. ASSUME NEW i \in Live(g)
        PROVE  /\ g[mn[g[i].key]].key # NULL
               /\ mn[g[i].key] # i => g[mn[g[i].key]].key # g[i].key
    <3>1. CASE i = f
      <4>1. g[i].key = node[n].key
        BY <3>1, <1>1, <1>7
      <4>2. g[mn[node[n].key]].key = node[mn[node[n].key]].key
        BY <1>10, <1>7
      <4>. QED
        BY <4>1, <4>2, <1>2 DEF HasMain
    <3>2. CASE i # f
      <4>1. i \in Live(node) /\ i # n
        BY <3>2, <1>8
      <4>2. HasMain(node, hm, mn, i) /\ g[i].key = node[i].key
            /\ g[mn[node[i].key]].key = node[mn[node[i].key]].key
        BY <4>1, <1>9
      <4>. QED
        BY <4>2 DEF HasMain
    <3>. QED
      BY <3>1, <3>2
  <2>4. mn \in [Keys -> D]
    BY <1>1 DEF Keyed, D
  <2>. QED
    BY <2>1, <2>2, <2>3, <2>4, <1>4 DEF Keyed, D
<1>13. Spare(g)
  <2>. SUFFICES ASSUME NEW i \in D, g[i].key = NULL PROVE Isolated(ny, i)
    BY <1>4 DEF Spare, ny
  <2>1. i # f /\ i # n /\ node[i].key = NULL
    BY <1>2, <1>3, <1>7 DEF HasMain
  <2>2. nx[i] = NULL /\ \A j \in D : nx[j] # i
    BY <2>1, <1>1 DEF Sound, Spare, Isolated, nx, D
  <2>3. i # p
    BY <2>2, <1>2
  <2>4. ny[i] = NULL
    BY <2>1, <2>2, <2>3, <1>5
  <2>5. ASSUME NEW j \in D PROVE ny[j] # i
    BY <2>1, <2>2, <2>3, <1>2, <1>5
  <2>. QED
    BY <2>4, <2>5, <1>5 DEF Isolated
<1>14. ASSUME NEW i \in Live(node), i # n, mn[node[i].key] # n
       PROVE  /\ Found(g, mn, i) /\ Reaches(ny, mn[node[i].key], i)
  <2>. DEFINE k == node[i].key
              mi == mn[k]
  <2>1. /\ i \in D /\ i # f /\ mi \in D /\ mi # f /\ mi # n
        /\ g[i].key = k /\ k # node[n].key /\ i # NULL
    BY <1>1, <1>9, <1>14
  <2>2. First(node, mi, k, i)
    BY DEF Sound, Found
  <2>. HIDE DEF mi, k
  <2>3. /\ Reaches(nx, mi, i)
        /\ \A j \in D : Reaches(nx, mi, j) /\ node[j].key = k => Reaches(nx, i, j)
    BY <2>1, <2>2, <1>1 DEF First, nx
  <2>4. Reaches(ny, mi, i)
    BY <2>1, <2>3, <1>6, <1>14
  <2>5. ASSUME NEW j \in D, Reaches(ny, mi, j), g[j].key = k PROVE Reaches(ny, i, j)
    <3>1. j # f /\ j # n
      BY <2>1, <2>5, <1>2, <1>3, <1>7
    <3>2. node[j].key = k
      BY <3>1, <2>5, <1>7
    <3>. QED
      BY <3>1, <3>2, <2>1, <2>3, <2>5, <1>6, <1>14
  <2>6. First(g, mi, k, i)
    BY <2>1, <2>4, <2>5, <1>4 DEF First, ny
  <2>. QED
    BY <2>1, <2>4, <2>6 DEF Found, mi, k
<1>15. Found(g, mn, f)
  <2>. DEFINE k == node[n].key
              m == mn[k]
  <2>1. m \in D /\ m # f /\ m # n /\ g[f].key = k
    BY <1>1, <1>7, <1>10
  <2>2. First(node, m, k, n)
    BY DEF Sound, Found
  <2>. HIDE DEF m, k
  <2>3. /\ Reaches(nx, m, n)
        /\ \A j \in D : Reaches(nx, m, j) /\ node[j].key = k => Reaches(nx, n, j)
    BY <2>2, <1>1, <1>2 DEF First, nx
  <2>4. Reaches(ny, m, f)
    BY <2>1, <2>3, <1>6
  <2>5. ASSUME NEW j \in D, Reaches(ny, m, j), g[j].key = k PROVE Reaches(ny, f, j)
    <3>1. CASE j = f
      BY <3>1, <1>1, <1>5, ReachSelf
    <3>2. CASE j = n
      <4>1. \E q \in D : ny[q] = n
        <5>1. NULL \notin D /\ ny \in Links(D) /\ m \in D /\ n \in D /\ m # n
          BY <2>1, <1>1, <1>2, <1>5
        <5>2. Reaches(ny, m, n)
          BY <3>2, <2>5
        <5>. QED
          BY <5>1, <5>2, ReachPrevious
      <4>. QED
        BY <4>1, <1>5, <1>6 DEF Isolated
    <3>3. CASE j # f /\ j # n
      <4>1. node[j].key = k /\ Reaches(nx, m, j)
        BY <3>3, <2>1, <2>5, <1>6, <1>7
      <4>. QED
        BY <4>1, <3>3, <2>3, <1>6
    <3>. QED
      BY <3>1, <3>2, <3>3
  <2>6. First(g, m, k, f)
    BY <2>1, <2>4, <2>5, <1>1, <1>4 DEF First, ny
  <2>. QED
    BY <2>1, <2>6 DEF Found, m, k
<1>16. ASSUME NEW i \in Live(g), mn[g[i].key] # n PROVE Found(g, mn, i)
  BY <1>8, <1>9, <1>14, <1>15, <1>16
<1>17. ASSUME NEW i \in Live(g), mn[g[i].key] = n PROVE i \in After(g, f)
  <2>1. i \in Live(node) /\ i # n /\ i # f
    BY <1>1, <1>3, <1>7, <1>8, <1>17
  <2>2. i \in D /\ mn[node[i].key] = n
    BY <2>1, <1>9, <1>17
  <2>3. Reaches(nx, n, i)
    <3>1. Found(node, mn, i) /\ i # NULL
      BY <2>1, <2>2, <1>1 DEF Sound
    <3>. QED
      BY <3>1, <2>2 DEF Found, First, nx
  <2>. QED
    BY <2>1, <2>2, <2>3, <1>5, <1>6 DEF After, Behind, ny
<1>18. ASSUME NEW i \in Live(g), i \in After(g, f), mn[g[i].key] # i
       PROVE  ~ Reaches(ny, i, mn[g[i].key])
  <2>1. i \in Live(node) /\ i # n /\ i # f
    BY <1>3, <1>8, <1>18 DEF After
  <2>2. i \in D /\ g[i].key = node[i].key /\ mn[node[i].key] \in D
    BY <2>1, <1>9
  <2>. DEFINE mi == mn[node[i].key]
  <2>3. CASE mi = n
    <3>. SUFFICES ASSUME Reaches(ny, i, n) PROVE FALSE
      BY <2>2, <2>3
    <3>1. \E q \in D : ny[q] = n
      <4>1. NULL \notin D /\ ny \in Links(D) /\ i \in D /\ n \in D /\ i # n
        BY <2>1, <2>2, <1>1, <1>2, <1>5
      <4>. QED
        BY <4>1, ReachPrevious
    <3>. QED
      BY <3>1, <1>5, <1>6 DEF Isolated
  <2>4. CASE mi # n
    <3>1. Reaches(ny, mi, i) /\ mi # i /\ mi \in D
      BY <2>1, <2>2, <2>4, <1>14, <1>18
    <3>. HIDE DEF mi
    <3>2. ~ Reaches(ny, i, mi)
      BY <3>1, <2>2, <1>1, <1>5, <1>6, ReachBack
    <3>. QED
      BY <3>2, <2>2 DEF mi
  <2>. QED
    BY <2>3, <2>4
<1>19. Semi(g, hm, mn, f)
  <2>1. f \in 0..hm
    OBVIOUS
  <2>2. \A i \in Live(g) \ After(g, f) : Found(g, mn, i)
    BY <1>16, <1>17
  <2>3. \A i \in Live(g) \cap After(g, f) :
          mn[g[i].key] # i => ~ Reaches(Nx(g), i, mn[g[i].key])
    BY <1>18 DEF ny
  <2>. QED
    BY <2>1, <2>2, <2>3, <1>11, <1>12, <1>13 DEF Semi
<1>. QED
  BY <1>4, <1>6, <1>16, <1>19 DEF g, ny
--------------------------------------------------------------------------------
LEMMA PredecessorLinks ==
  ASSUME NEW hm \in Nat, NEW node, Woven(node, hm), NEW m \in 0..hm, NEW n \in 0..hm,
         Reaches(Nx(node), m, n), m # n
  PROVE  Predecessor(node, m, n) \in 0..hm /\ node[Predecessor(node, m, n)].next = n
<1>. DEFINE D == 0..hm
            nx == Nx(node)
            c == Chain(node, m)
            Ok(j) == c[j] # NULL /\ node[c[j]].next = n
<1>1. /\ NULL \notin D /\ DOMAIN node = D /\ DOMAIN nx = D /\ nx \in Links(D)
      /\ Linear(nx) /\ \A i \in D : nx[i] = node[i].next
  BY Linked
<1>2. /\ c \in [D -> D \cup {NULL}]
      /\ \A b \in D : Reaches(nx, m, b) => \E j \in D : c[j] = b
  <2>1. Chained(0..hm, node, nx)
    BY <1>1 DEF Chained
  <2>. HIDE DEF nx, c
  <2>2. c = Chain(node, m)
    BY DEF c
  <2>3. m \in 0..hm
    OBVIOUS
  <2>. HIDE DEF D
  <2>4. Walked(hm, nx, m, c)
    BY <2>1, <2>2, <2>3, ChainWalk
  <2>. QED
    BY <2>4 DEF D, Walked
<1>. HIDE DEF c
<1>3. PICK p \in D : nx[p] = n /\ Reaches(nx, m, p)
  <2>. HIDE DEF D, nx
  <2>1. m \in D /\ n \in D /\ Reaches(nx, m, n)
    BY DEF D, nx
  <2>. QED
    BY <2>1, <1>1, ReachPrevious
<1>4. \E j \in D : Ok(j)
  <2>1. PICK j \in D : c[j] = p
    BY <1>2, <1>3
  <2>2. c[j] # NULL /\ node[c[j]].next = n
    BY <2>1, <1>1, <1>3
  <2>. QED
    BY <2>2
<1>5. Predecessor(node, m, n) = c[CHOOSE j \in D : Ok(j)]
  BY <1>1 DEF Predecessor, c
<1>6. PICK j \in D : Ok(j) /\ Predecessor(node, m, n) = c[j]
  <2>. HIDE DEF Ok
  <2>. QED
    BY <1>4, <1>5
<1>. QED
  BY <1>2, <1>6

\* Node n is vacated, and what was there is in node f.
LEMMA EvictSound ==
  ASSUME NEW h, h.hmask \in Nat, NEW mn, \A k \in Keys : mn[k] = hashkey(h, k),
         Sound(h.node, h.hmask, mn), NEW n \in Live(h.node), mn[h.node[n].key] # n,
         NEW f \in 0..h.hmask, h.node[f].key = NULL
  PROVE  \E g : /\ Evict(h, n, f) = [h EXCEPT !.freetop = f, !.node = g]
                /\ Sound(g, h.hmask, mn) /\ Evicted(h.node, g, n, f)
<1>. DEFINE hm == h.hmask
            node == h.node
            k == node[n].key
            m == mn[k]
            p == Predecessor(node, m, n)
            e == Moved(node, p, n, f)
            g == Rechain(h, e, f, n)
<1>1. Woven(node, hm) /\ Keyed(node, hm, mn) /\ Found(node, mn, n)
  BY DEF Sound
<1>2. HasMain(node, hm, mn, n)
  BY <1>1, LiveMain
<1>3. n \in 0..hm /\ m \in 0..hm /\ k \in Keys /\ m = hashkey(h, k) /\ n # NULL
  BY <1>1, <1>2 DEF HasMain, Woven
<1>4. Reaches(Nx(node), m, n)
  BY <1>1, <1>3 DEF Found, First
<1>5. p \in 0..hm /\ node[p].next = n
  <2>1. m # n /\ hm \in Nat
    OBVIOUS
  <2>. HIDE DEF m, hm, node
  <2>. QED
    BY <2>1, <1>1, <1>3, <1>4, PredecessorLinks
<1>6. /\ Semi(e, hm, mn, f) /\ Isolated(Nx(e), n) /\ Evicted(node, e, n, f)
      /\ \A i \in Live(e) : mn[e[i].key] # n => Found(e, mn, i)
  <2>. HIDE DEF p
  <2>. QED
    BY <1>5, EvictSemi
<1>7. Evict(h, n, f) = [h EXCEPT !.freetop = f, !.node = g]
  BY <1>3 DEF Evict, Moved
<1>. HIDE DEF e
<1>8. Sound(g, hm, mn) /\ SameFields(e, g)
  BY <1>3, <1>6, RechainSound
<1>9. Evicted(node, g, n, f)
  BY <1>6, <1>8 DEF Evicted, SameFields
<1>. QED
  BY <1>7, <1>8, <1>9

--------------------------------------------------------------------------------
\* Node n may be given the key k.
Ready(node, hm, mn, n, k) ==
  /\ Woven(node, hm) /\ Keyed(node, hm, mn)
  /\ \A i \in Live(node) : Found(node, mn, i) /\ node[i].key # k
  /\ \A i \in 0..hm \ {n} : node[i].key = NULL => Isolated(Nx(node), i)
  /\ n \in 0..hm /\ node[n].val = NULL
  /\ Reaches(Nx(node), mn[k], n)
  /\ \A i \in 0..hm : Reaches(Nx(node), mn[k], i) /\ node[i].key = k
                      => Reaches(Nx(node), n, i)
  /\ mn[k] # n => node[mn[k]].key \notin {NULL, k}
Filled(node, n, k, v) == [node EXCEPT ![n].key = k, ![n].val = v]
\* What the nodes' keys and values are then.
FilledWith(node, g, n, k, v) ==
  /\ DOMAIN g = DOMAIN node
  /\ \A i \in DOMAIN node : /\ g[i].key = IF i = n THEN k ELSE node[i].key
                            /\ g[i].val = IF i = n THEN v ELSE node[i].val
                            /\ g[i].next = node[i].next

LEMMA FillFields ==
  ASSUME NEW D, NEW node \in [D -> Fields(D)], NEW n \in D, NEW k \in Keys, NEW v \in {k, NULL}
  PROVE  /\ Filled(node, n, k, v) \in [D -> Fields(D)]
         /\ FilledWith(node, Filled(node, n, k, v), n, k, v)
<1>. DEFINE r == [node[n] EXCEPT !.key = k, !.val = v]
            g == [node EXCEPT ![n] = r]
<1>1. /\ r \in Fields(D) /\ r.key = k /\ r.val = v /\ r.next = node[n].next
      /\ DOMAIN node = D
  <2>1. node[n] \in Fields(D)
    OBVIOUS
  <2>. QED
    BY <2>1 DEF Fields
<1>2. Filled(node, n, k, v) = g
  BY <1>1 DEF Filled
<1>. HIDE DEF r
<1>3. g \in [D -> Fields(D)] /\ DOMAIN g = D /\ \A i \in D : g[i] = IF i = n THEN r ELSE node[i]
  BY <1>1
<1>. HIDE DEF g
<1>. QED
  BY <1>1, <1>2, <1>3 DEF FilledWith

LEMMA FillSound ==
  ASSUME NEW hm \in Nat, NEW node, NEW mn, NEW n, NEW k \in Keys, Ready(node, hm, mn, n, k),
         NEW v \in {k, NULL}
  PROVE  /\ Sound(Filled(node, n, k, v), hm, mn)
         /\ FilledWith(node, Filled(node, n, k, v), n, k, v)
<1>. DEFINE D == 0..hm
            nx == Nx(node)
            g == Filled(node, n, k, v)
<1>1. /\ NULL \notin D /\ DOMAIN node = D /\ DOMAIN nx = D /\ nx \in Links(D)
      /\ Linear(nx) /\ n \in D /\ Keyed(node, hm, mn) /\ Woven(node, hm)
      /\ node \in [D -> Fields(D)] /\ mn \in [Keys -> D]
  BY Linked DEF Ready, Keyed
<1>. HIDE DEF D
<1>2. g \in [D -> Fields(D)] /\ FilledWith(node, g, n, k, v)
  BY <1>1, FillFields
<1>. HIDE DEF g
<1>3. /\ DOMAIN g = D
      /\ \A i \in D : /\ g[i].key = IF i = n THEN k ELSE node[i].key
                      /\ g[i].val = IF i = n THEN v ELSE node[i].val
                      /\ g[i].next = node[i].next
  BY <1>1, <1>2 DEF FilledWith
<1>4. Nx(g) = nx
  BY <1>1, <1>3 DEF Nx
<1>. HIDE DEF nx
<1>5. k # NULL /\ n \notin Live(node)
  BY <1>1, KeysAssumption DEF Ready, Live
<1>6. Live(g) = Live(node) \cup IF v = NULL THEN {} ELSE {n}
  BY <1>1, <1>3, <1>5 DEF Live
<1>7. ASSUME NEW i \in Live(node)
      PROVE  /\ HasMain(node, hm, mn, i) /\ i \in D /\ i # n /\ mn[node[i].key] \in D
             /\ g[i].key = node[i].key /\ node[i].key # k /\ Found(node, mn, i)
  BY <1>1, <1>3, <1>5, LiveMain DEF HasMain, Ready, D
<1>8. Woven(g, hm)
  BY <1>1, <1>3, <1>4 DEF Woven, D, nx
<1>9. Keyed(g, hm, mn)
  <2>1. \A i \in D : g[i].val \in {NULL, g[i].key}
    <3>1. \A i \in D : node[i].val \in {NULL, node[i].key}
      BY <1>1 DEF Keyed, D
    <3>. QED
      BY <3>1, <1>3
  <2>2. ASSUME NEW i \in Live(g), NEW j \in Live(g), g[i].key = g[j].key PROVE i = j
    <3>1. CASE i = n /\ j \in Live(node)
      BY <3>1, <2>2, <1>1, <1>3, <1>7
    <3>2. CASE j = n /\ i \in Live(node)
      BY <3>2, <2>2, <1>1, <1>3, <1>7
    <3>3. CASE i \in Live(node) /\ j \in Live(node)
      <4>1. node[i].key = node[j].key
        BY <3>3, <2>2, <1>7
      <4>. QED
        BY <3>3, <4>1, <1>1 DEF Keyed
    <3>. QED
      BY <3>1, <3>2, <3>3, <1>6
  <2>3. ASSUME NEW i \in Live(g)
        PROVE  /\ g[mn[g[i].key]].key # NULL
               /\ mn[g[i].key] # i => g[mn[g[i].key]].key # g[i].key
    <3>1. CASE i \in Live(node)
      <4>. DEFINE mi == mn[node[i].key]
      <4>1. /\ node[mi].key # NULL /\ mi \in D /\ g[i].key = node[i].key /\ node[i].key # k
            /\ mi # i => node[mi].key # node[i].key
        BY <3>1, <1>7 DEF HasMain
      <4>2. g[mi].key = IF mi = n THEN k ELSE node[mi].key
        BY <4>1, <1>3
      <4>. HIDE DEF mi
      <4>3. g[mi].key # NULL /\ (mi # i => g[mi].key # node[i].key)
        BY <4>1, <4>2, <1>5
      <4>. QED
        BY <4>1, <4>3 DEF mi
    <3>2. CASE i = n
      <4>1. g[i].key = k /\ mn[k] \in D
        BY <3>2, <1>1, <1>3
      <4>2. mn[k] # n => g[mn[k]].key \notin {NULL, k}
        BY <4>1, <1>3 DEF Ready
      <4>. QED
        BY <3>2, <4>1, <4>2, <1>5
    <3>. QED
      BY <3>1, <3>2, <1>6
  <2>. QED
    BY <2>1, <2>2, <2>3, <1>1, <1>2 DEF Keyed, D
<1>10. Spare(g)
  <2>. SUFFICES ASSUME NEW i \in D, g[i].key = NULL PROVE Isolated(nx, i)
    BY <1>3, <1>4 DEF Spare
  <2>1. i # n /\ node[i].key = NULL
    BY <1>1, <1>3, <1>5
  <2>. QED
    BY <2>1 DEF Ready, D, nx
<1>11. ASSUME NEW i \in Live(node) PROVE Found(g, mn, i)
  <2>. DEFINE ki == node[i].key
              mi == mn[ki]
  <2>1. i \in D /\ i # NULL /\ g[i].key = ki /\ ki # k /\ First(node, mi, ki, i)
    BY <1>1, <1>7 DEF Found
  <2>. HIDE DEF mi, ki
  <2>2. /\ Reaches(nx, mi, i)
        /\ \A j \in D : Reaches(nx, mi, j) /\ node[j].key = ki => Reaches(nx, i, j)
    BY <2>1, <1>1 DEF First, nx
  <2>3. \A j \in D : g[j].key = ki => node[j].key = ki
    BY <2>1, <1>3
  <2>4. First(g, mi, ki, i)
    BY <2>1, <2>2, <2>3, <1>3, <1>4 DEF First
  <2>. QED
    BY <2>1, <2>4 DEF Found, mi, ki
<1>12. Found(g, mn, n)
  <2>1. g[n].key = k /\ n # NULL
    BY <1>1, <1>3
  <2>2. /\ Reaches(nx, mn[k], n)
        /\ \A j \in D : Reaches(nx, mn[k], j) /\ node[j].key = k => Reaches(nx, n, j)
    BY DEF Ready, D, nx
  <2>3. ASSUME NEW j \in D, Reaches(nx, mn[k], j), g[j].key = k PROVE Reaches(nx, n, j)
    <3>1. CASE j = n
      BY <3>1, <1>1, ReachSelf
    <3>2. CASE j # n
      BY <3>2, <2>2, <2>3, <1>3
    <3>. QED
      BY <3>1, <3>2
  <2>4. First(g, mn[k], k, n)
    BY <2>1, <2>2, <2>3, <1>1, <1>3, <1>4 DEF First
  <2>. QED
    BY <2>1, <2>4 DEF Found
<1>13. \A i \in Live(g) : Found(g, mn, i)
  BY <1>6, <1>11, <1>12
<1>. QED
  BY <1>2, <1>8, <1>9, <1>10, <1>13 DEF Sound, g
--------------------------------------------------------------------------------
Extended(node, n, f) == [node EXCEPT ![f].next = node[n].next, ![n].next = f]

\* No live node has a key that is not found.
LEMMA NotLive ==
  ASSUME NEW hm, NEW node, NEW mn, Sound(node, hm, mn), NEW k,
         First(node, mn[k], k, NULL)
  PROVE  \A i \in Live(node) : node[i].key # k
<1>. SUFFICES ASSUME NEW i \in Live(node), node[i].key = k PROVE FALSE
  OBVIOUS
<1>1. First(node, mn[k], k, i) /\ DOMAIN node = 0..hm /\ NULL \notin 0..hm
  BY DEF Sound, Found, Woven
<1>2. i \in DOMAIN node /\ i # NULL
  BY <1>1 DEF Live
<1>. QED
  BY <1>1, <1>2 DEF First

\* The free main position is ready for a key.
LEMMA MainReady ==
  ASSUME NEW hm, NEW node, NEW mn, Sound(node, hm, mn), NEW k \in Keys,
         \A i \in Live(node) : node[i].key # k, node[mn[k]].val = NULL
  PROVE  Ready(node, hm, mn, mn[k], k)
<1>1. mn[k] \in 0..hm /\ DOMAIN node = 0..hm /\ Nx(node) \in Links(0..hm)
  BY Linked DEF Sound, Keyed
<1>2. Reaches(Nx(node), mn[k], mn[k])
  <2>. DEFINE D == 0..hm
  <2>1. Nx(node) \in Links(D) /\ mn[k] \in D
    BY <1>1
  <2>. HIDE DEF D
  <2>. QED
    BY <2>1, ReachSelf
<1>. QED
  BY <1>1, <1>2 DEF Ready, Sound, Spare

\* A free node that joins the chain of the main position is ready for a key.
LEMMA ExtendReady ==
  ASSUME NEW hm \in Nat, NEW node, NEW mn, Sound(node, hm, mn), NEW k \in Keys,
         First(node, mn[k], k, NULL), node[mn[k]].val # NULL,
         NEW f \in 0..hm, node[f].key = NULL
  PROVE  Ready(Extended(node, mn[k], f), hm, mn, f, k)
         /\ SameFields(node, Extended(node, mn[k], f))
<1>. DEFINE D == 0..hm
            nx == Nx(node)
            n == mn[k]
            g == Extended(node, n, f)
            ny == Nx(g)
<1>1. /\ NULL \notin D /\ DOMAIN node = D /\ DOMAIN nx = D /\ nx \in Links(D)
      /\ Linear(nx) /\ f \in D /\ Keyed(node, hm, mn) /\ Woven(node, hm)
      /\ node \in [D -> Fields(D)] /\ mn \in [Keys -> D]
      /\ \A i \in D : nx[i] = node[i].next /\ node[i].next \in D \cup {NULL}
  BY Linked DEF Sound, Keyed
<1>2. n \in D /\ n \in Live(node) /\ node[n].key # NULL
  <2>1. n \in D /\ n \in Live(node)
    BY <1>1 DEF Live
  <2>2. HasMain(node, hm, mn, n)
    BY <2>1, <1>1, LiveMain
  <2>. QED
    BY <2>1, <2>2 DEF HasMain
<1>3. Isolated(nx, f) /\ nx[f] = NULL /\ f # n /\ node[f].val = NULL
  <2>1. Isolated(nx, f) /\ nx[f] = NULL
    BY <1>1 DEF Sound, Spare, Isolated
  <2>2. node[f].val = NULL
    BY <1>1 DEF Keyed
  <2>. QED
    BY <2>1, <2>2, <1>2
<1>. HIDE DEF nx, D, n
<1>4. /\ g \in [D -> Fields(D)] /\ DOMAIN g = D /\ SameFields(node, g)
      /\ g[n].next = f /\ g[f].next = node[n].next
      /\ \A i \in D \ {n, f} : g[i].next = node[i].next
  <2>. DEFINE g1 == [node EXCEPT ![f].next = node[n].next]
              g2 == [g1 EXCEPT ![n].next = f]
  <2>1. g = g2
    BY DEF Extended
  <2>2. node[n].next \in D \cup {NULL} /\ node \in [D -> Fields(D)]
    BY <1>1, <1>2
  <2>3. Relinked(node, g1, D, f, node[n].next)
    BY <2>2, <1>1, Relink
  <2>. HIDE DEF g1
  <2>4. g1 \in [D -> Fields(D)]
    BY <2>3 DEF Relinked
  <2>5. Relinked(g1, g2, D, n, f)
    BY <2>4, <1>1, <1>2, Relink
  <2>. HIDE DEF g2, g
  <2>. QED
    BY <2>1, <2>3, <2>5, <1>1, <1>2, <1>3 DEF Relinked, SameFields
<1>. HIDE DEF g
<1>5. /\ ny \in Links(D) /\ DOMAIN ny = D /\ ny[n] = f /\ ny[f] = nx[n]
      /\ \A i \in D \ {n, f} : ny[i] = nx[i]
  <2>1. \A i \in D : g[i].next \in D \cup {NULL}
    BY <1>1, <1>2, <1>4
  <2>2. ny \in Links(D) /\ DOMAIN ny = D /\ \A i \in D : ny[i] = g[i].next
    BY <2>1, <1>4 DEF Nx, Links
  <2>. HIDE DEF ny
  <2>. QED
    BY <2>2, <1>1, <1>2, <1>3, <1>4
<1>. HIDE DEF ny
<1>6. Joined2(nx, ny, n, f)
  BY <1>1, <1>2, <1>3, <1>5 DEF Joined2
<1>7. /\ \A a, b \in D \ {f} : Reaches(ny, a, b) <=> Reaches(nx, a, b)
      /\ \A a \in D \ {f} : Reaches(ny, a, f) <=> Reaches(nx, a, n)
      /\ Linear(ny)
  <2>1. n # f /\ NULL \notin D /\ nx \in Links(D) /\ ny \in Links(D) /\ f \in D /\ n \in D
    BY <1>1, <1>2, <1>3, <1>5
  <2>. QED
    BY <2>1, <1>1, <1>3, <1>6, JoinReaches, JoinLinear
<1>8. \A i \in D : g[i].key = node[i].key /\ g[i].val = node[i].val
  BY <1>1, <1>4 DEF SameFields
<1>9. Woven(g, hm)
  BY <1>1, <1>4, <1>5, <1>7 DEF Woven, D, ny
<1>10. Keyed(g, hm, mn) /\ Live(g) = Live(node)
  <2>1. g \in [0..hm -> Fields(0..hm)] /\ SameFields(node, g)
    BY <1>4 DEF D
  <2>2. Woven(node, hm) /\ Keyed(node, hm, mn)
    BY <1>1
  <2>. QED
    BY <2>1, <2>2, <1>9, SameKeyed
<1>11. \A i \in Live(node) : node[i].key # k
  BY NotLive
<1>12. ASSUME NEW i \in Live(node) PROVE Found(g, mn, i) /\ g[i].key # k
  <2>. DEFINE ki == node[i].key
              mi == mn[ki]
  <2>1. HasMain(node, hm, mn, i) /\ First(node, mi, ki, i)
    BY <1>1, LiveMain DEF Sound, Found
  <2>2. i \in D /\ i # NULL /\ mi \in D /\ ki # NULL /\ mi # f /\ i # f /\ g[i].key = ki
    BY <2>1, <1>1, <1>8 DEF HasMain, D
  <2>. HIDE DEF mi, ki
  <2>3. /\ Reaches(nx, mi, i)
        /\ \A j \in D : Reaches(nx, mi, j) /\ node[j].key = ki => Reaches(nx, i, j)
    BY <2>1, <2>2, <1>1 DEF First, nx
  <2>4. Reaches(ny, mi, i)
    BY <2>2, <2>3, <1>7
  <2>5. ASSUME NEW j \in D, Reaches(ny, mi, j), g[j].key = ki PROVE Reaches(ny, i, j)
    <3>1. j # f /\ node[j].key = ki
      BY <2>2, <2>5, <1>8
    <3>. QED
      BY <3>1, <2>2, <2>3, <2>5, <1>7
  <2>6. First(g, mi, ki, i)
    BY <2>2, <2>4, <2>5, <1>4 DEF First, ny
  <2>. QED
    BY <2>2, <2>6, <1>11 DEF Found, mi, ki
<1>13. ASSUME NEW i \in D \ {f}, g[i].key = NULL PROVE Isolated(ny, i)
  <2>1. node[i].key = NULL /\ i # n
    BY <1>2, <1>8, <1>13
  <2>2. nx[i] = NULL /\ \A j \in D : nx[j] # i
    BY <2>1, <1>1 DEF Sound, Spare, Isolated, nx, D
  <2>3. ny[i] = NULL /\ \A j \in D : ny[j] # i
    BY <2>1, <2>2, <1>2, <1>5, <1>13
  <2>. QED
    BY <2>3, <1>5 DEF Isolated
<1>14. Reaches(ny, n, f)
  BY <1>1, <1>2, <1>3, <1>7, ReachSelf
<1>15. ASSUME NEW i \in D, Reaches(ny, n, i), g[i].key = k PROVE FALSE
  <2>1. node[i].key = k /\ i # f
    BY <1>3, <1>8, <1>15, KeysAssumption
  <2>2. Reaches(nx, n, i)
    BY <2>1, <1>2, <1>3, <1>7, <1>15
  <2>. QED
    BY <2>1, <2>2, <1>1 DEF First, nx, n
<1>16. n # f => g[n].key \notin {NULL, k}
  BY <1>2, <1>8, <1>11
<1>17. Ready(g, hm, mn, f, k)
  <2>1. \A i \in 0..hm : Reaches(Nx(g), mn[k], i) /\ g[i].key = k => Reaches(Nx(g), f, i)
    BY <1>15 DEF ny, n, D
  <2>2. \A i \in Live(g) : Found(g, mn, i) /\ g[i].key # k
    BY <1>10, <1>12
  <2>3. \A i \in 0..hm \ {f} : g[i].key = NULL => Isolated(Nx(g), i)
    BY <1>13 DEF ny, D
  <2>4. f \in 0..hm /\ g[f].val = NULL /\ Reaches(Nx(g), mn[k], f)
        /\ (mn[k] # f => g[mn[k]].key \notin {NULL, k})
    BY <1>1, <1>3, <1>8, <1>14, <1>16 DEF ny, n
  <2>. QED
    BY <2>1, <2>2, <2>3, <2>4, <1>9, <1>10 DEF Ready
<1>. QED
  BY <1>4, <1>17 DEF g, n
--------------------------------------------------------------------------------
LiveKeys(node) == {node[i].key : i \in Live(node)}
\* Every node from the free pointer up has been taken.
FreeRule(node, hm, ft) ==
  ft \in 0..(hm + 1) /\ \A i \in ft..hm : node[i].key # NULL
\* No node bears the key of a value that is gone.
NoneDead(node) == \A i \in DOMAIN node : node[i].key # NULL => node[i].val # NULL
HasShape(h) == h = [asize |-> h.asize, array |-> h.array, hmask |-> h.hmask,
                    node |-> h.node, freetop |-> h.freetop]

\* What lj_tab_newkey does.
Inserts(h, mn, k, v, g) ==
  /\ g = [h EXCEPT !.freetop = g.freetop, !.node = g.node]
  /\ Sound(g.node, h.hmask, mn) /\ FreeRule(g.node, h.hmask, g.freetop)
  /\ LiveKeys(g.node) = LiveKeys(h.node) \cup IF v = NULL THEN {} ELSE {k}
  /\ NoneDead(h.node) /\ v # NULL => NoneDead(g.node)

LEMMA FilledLive ==
  ASSUME NEW hm, NEW node, DOMAIN node = 0..hm, NEW g, NEW n \in 0..hm, NEW k, NEW v,
         FilledWith(node, g, n, k, v), node[n].val = NULL
  PROVE  LiveKeys(g) = LiveKeys(node) \cup IF v = NULL THEN {} ELSE {k}
<1>1. /\ DOMAIN g = 0..hm
      /\ \A i \in 0..hm : /\ g[i].key = IF i = n THEN k ELSE node[i].key
                          /\ g[i].val = IF i = n THEN v ELSE node[i].val
  BY DEF FilledWith
<1>2. Live(g) = Live(node) \cup IF v = NULL THEN {} ELSE {n}
  BY <1>1 DEF Live
<1>3. \A i \in Live(node) : i \in 0..hm /\ i # n
  BY DEF Live
<1>4. \A i \in Live(node) : g[i].key = node[i].key
  BY <1>1, <1>3
<1>5. g[n].key = k
  BY <1>1
<1>. QED
  BY <1>1, <1>2, <1>4, <1>5 DEF LiveKeys

LEMMA FilledNoneDead ==
  ASSUME NEW hm, NEW node, DOMAIN node = 0..hm, NEW g, NEW n \in 0..hm, NEW k, NEW v,
         FilledWith(node, g, n, k, v), v # NULL,
         \A i \in 0..hm \ {n} : node[i].key # NULL => node[i].val # NULL
  PROVE  NoneDead(g)
<1>1. /\ DOMAIN g = 0..hm
      /\ \A i \in 0..hm : /\ g[i].key = IF i = n THEN k ELSE node[i].key
                          /\ g[i].val = IF i = n THEN v ELSE node[i].val
  BY DEF FilledWith
<1>. QED
  BY <1>1 DEF NoneDead

LEMMA NewKey ==
  ASSUME NEW h, HasShape(h), h.hmask \in Nat \ {0},
         NEW mn, \A x \in Keys : mn[x] = hashkey(h, x),
         Sound(h.node, h.hmask, mn), FreeRule(h.node, h.hmask, h.freetop),
         NEW k \in Keys, First(h.node, mn[k], k, NULL),
         h.node[mn[k]].val = NULL \/ Free(h) # {}, NEW v \in {k, NULL}
  PROVE  \E g : newkey(h, k, v) = g /\ Inserts(h, mn, k, v, g)
<1>. DEFINE hm == h.hmask
            node == h.node
            n == mn[k]
            f == Max(Free(h))
            D == 0..hm
<1>1. /\ Woven(node, hm) /\ Keyed(node, hm, mn) /\ DOMAIN node = D /\ n \in D
      /\ n = hashkey(h, k) /\ k # NULL /\ mn \in [Keys -> D]
      /\ \A i \in Live(node) : node[i].key # k
  <2>1. Woven(node, hm) /\ Keyed(node, hm, mn) /\ mn \in [Keys -> D]
    BY DEF Sound, Keyed
  <2>2. DOMAIN node = D
    BY <2>1 DEF Woven
  <2>3. n \in D /\ n = hashkey(h, k) /\ k # NULL
    BY <2>1, KeysAssumption
  <2>4. \A i \in Live(node) : node[i].key # k
    BY NotLive
  <2>. QED
    BY <2>1, <2>2, <2>3, <2>4
<1>2. CASE node[n].val = NULL
  <2>. DEFINE e == Filled(node, n, k, v)
              g == [h EXCEPT !.freetop = h.freetop, !.node = e]
  <2>1. Ready(node, hm, mn, n, k)
    BY <1>1, <1>2, MainReady
  <2>2. Sound(e, hm, mn) /\ FilledWith(node, e, n, k, v)
    <3>. HIDE DEF n
    <3>. QED
      BY <2>1, FillSound
  <2>3. newkey(h, k, v) = g
    <3>1. newkey(h, k, v) = Fill(h, n, k, v)
      BY <1>1, <1>2 DEF newkey
    <3>2. Fill(h, n, k, v) = [h EXCEPT !.node = e]
      BY DEF Fill, Filled, HasShape
    <3>. HIDE DEF e, n
    <3>3. [h EXCEPT !.node = e] = g
      BY DEF HasShape
    <3>. QED
      BY <3>1, <3>2, <3>3
  <2>. HIDE DEF e
  <2>4. g.node = e /\ g.freetop = h.freetop
    BY DEF HasShape
  <2>5. FreeRule(e, hm, h.freetop)
    BY <2>2, <1>1 DEF FreeRule, FilledWith
  <2>6. /\ LiveKeys(e) = LiveKeys(node) \cup IF v = NULL THEN {} ELSE {k}
        /\ NoneDead(node) /\ v # NULL => NoneDead(e)
    <3>1. LiveKeys(e) = LiveKeys(node) \cup IF v = NULL THEN {} ELSE {k}
      BY <2>2, <1>1, <1>2, FilledLive
    <3>. HIDE DEF n
    <3>2. ASSUME NoneDead(node), v # NULL PROVE NoneDead(e)
      <4>1. \A i \in D \ {n} : node[i].key # NULL => node[i].val # NULL
        BY <3>2, <1>1 DEF NoneDead
      <4>. QED
        BY <4>1, <3>2, <2>2, <1>1, FilledNoneDead
    <3>. QED
      BY <3>1, <3>2
  <2>. HIDE DEF g
  <2>7. Inserts(h, mn, k, v, g)
    BY <2>2, <2>4, <2>5, <2>6 DEF Inserts, g
  <2>. QED
    BY <2>3, <2>7
<1>3. CASE node[n].val # NULL
  <2>1. /\ f \in D /\ f < h.freetop /\ node[f].key = NULL
        /\ \A i \in (f + 1)..hm : node[i].key # NULL
    <3>1. Free(h) \in SUBSET D /\ Free(h) # {} /\ h.freetop \in 0..(hm + 1)
      BY <1>3 DEF Free, FreeRule
    <3>2. IsMax(Free(h), f)
      BY <3>1, MaxNat
    <3>3. f \in Free(h) /\ \A i \in Free(h) : i <= f
      BY <3>2 DEF IsMax
    <3>. HIDE DEF f
    <3>4. f \in 0..(h.freetop - 1) /\ node[f].key = NULL
      BY <3>3 DEF Free
    <3>5. ASSUME NEW i \in (f + 1)..hm PROVE node[i].key # NULL
      <4>1. CASE i \in h.freetop..hm
        BY <4>1 DEF FreeRule
      <4>2. CASE i \notin h.freetop..hm
        <5>1. i \in 0..(h.freetop - 1) /\ ~ (i <= f)
          BY <4>2, <3>1, <3>4
        <5>. QED
          BY <5>1, <3>3 DEF Free
      <4>. QED
        BY <4>1, <4>2
    <3>. QED
      BY <3>1, <3>4, <3>5
  <2>2. n \in Live(node) /\ node[n].key \in Keys /\ mn[node[n].key] = hashkey(h, node[n].key)
    <3>1. n \in Live(node)
      BY <1>1, <1>3 DEF Live
    <3>2. HasMain(node, hm, mn, n)
      BY <3>1, <1>1, LiveMain
    <3>. QED
      BY <3>1, <3>2 DEF HasMain
  <2>3. CASE mn[node[n].key] # n
    <3>. HIDE DEF f, n
    <3>1. PICK e : /\ Evict(h, n, f) = [h EXCEPT !.freetop = f, !.node = e]
                   /\ Sound(e, hm, mn) /\ Evicted(node, e, n, f)
      BY <2>1, <2>2, <2>3, EvictSound
    <3>2. /\ DOMAIN e = D
          /\ \A i \in D : /\ e[i].key = IF i = f THEN node[n].key ELSE node[i].key
                          /\ e[i].val = IF i = f THEN node[n].val
                                        ELSE IF i = n THEN NULL ELSE node[i].val
      BY <3>1, <1>1 DEF Evicted
    <3>3. f # n /\ e[n].val = NULL
      <4>1. f # n
        BY <2>1, <2>2, <1>1 DEF Live, Keyed, n
      <4>. QED
        BY <4>1, <3>2, <1>1
    <3>4. Live(e) = (Live(node) \ {n}) \cup {f} /\ f \notin Live(node)
      <4>1. f \notin Live(node)
        BY <2>1, <1>1 DEF Live, Keyed
      <4>. QED
        BY <4>1, <3>2, <3>3, <2>1, <1>1, <1>3 DEF Live, n
    <3>5. \A i \in Live(e) : e[i].key # k
      BY <3>2, <3>4, <2>2, <1>1 DEF Live
    <3>6. LiveKeys(e) = LiveKeys(node)
      <4>1. \A i \in Live(node) : i # n => i \in Live(e) /\ e[i].key = node[i].key
        BY <3>2, <3>4, <1>1 DEF Live
      <4>2. f \in Live(e) /\ e[f].key = node[n].key
        BY <3>2, <3>4, <2>1
      <4>3. \A i \in Live(e) : i # f => i \in Live(node) /\ e[i].key = node[i].key
        BY <3>2, <3>4, <1>1 DEF Live
      <4>. QED
        BY <4>1, <4>2, <4>3, <2>2 DEF LiveKeys
    <3>7. Ready(e, hm, mn, n, k)
      BY <3>1, <3>3, <3>5, MainReady DEF n
    <3>. DEFINE d == Filled(e, n, k, v)
                g == [h EXCEPT !.freetop = f, !.node = d]
    <3>8. Sound(d, hm, mn) /\ FilledWith(e, d, n, k, v)
      BY <3>7, FillSound
    <3>9. newkey(h, k, v) = g
      <4>1. newkey(h, k, v) = Fill(Evict(h, n, f), n, k, v)
        BY <2>2, <2>3, <1>1, <1>3 DEF newkey, n, f
      <4>2. Fill([h EXCEPT !.freetop = f, !.node = e], n, k, v) = g
        BY DEF Fill, Filled, HasShape
      <4>. QED
        BY <4>1, <4>2, <3>1
    <3>. HIDE DEF d
    <3>10. g.node = d /\ g.freetop = f
      BY DEF HasShape
    <3>11. FreeRule(d, hm, f)
      <4>1. ASSUME NEW i \in f..hm PROVE d[i].key # NULL
        <5>1. i \in D /\ (i # f => i \in (f + 1)..hm)
          BY <2>1
        <5>2. d[i].key = IF i = n THEN k ELSE e[i].key
          BY <5>1, <3>2, <3>8 DEF FilledWith
        <5>3. node[n].key # NULL
          BY <2>2, KeysAssumption
        <5>. QED
          BY <5>1, <5>2, <5>3, <3>2, <2>1, <1>1
      <4>. QED
        BY <4>1, <2>1 DEF FreeRule
    <3>12. LiveKeys(d) = LiveKeys(node) \cup IF v = NULL THEN {} ELSE {k}
      BY <3>2, <3>3, <3>6, <3>8, <1>1, FilledLive
    <3>13. NoneDead(node) /\ v # NULL => NoneDead(d)
      <4>1. NoneDead(node) => \A i \in D \ {n} : e[i].key # NULL => e[i].val # NULL
        BY <3>2, <1>1, <1>3 DEF NoneDead, n
      <4>. QED
        BY <4>1, <3>2, <3>3, <3>8, <1>1, FilledNoneDead
    <3>. HIDE DEF g
    <3>14. Inserts(h, mn, k, v, g)
      BY <3>8, <3>10, <3>11, <3>12, <3>13 DEF Inserts, g
    <3>. QED
      BY <3>9, <3>14
  <2>4. CASE mn[node[n].key] = n
    <3>. DEFINE e == Extended(node, n, f)
                d == Filled(e, f, k, v)
                g == [h EXCEPT !.freetop = f, !.node = d]
    <3>1. Ready(e, hm, mn, f, k) /\ SameFields(node, e)
      <4>. HIDE DEF f
      <4>. QED
        BY <2>1, <1>1, <1>3, ExtendReady
    <3>2. newkey(h, k, v) = g
      <4>1. newkey(h, k, v) = Fill(Extend(h, n, f), f, k, v)
        BY <2>2, <2>4, <1>1, <1>3 DEF newkey
      <4>. HIDE DEF f, n
      <4>2. Extend(h, n, f) = [h EXCEPT !.freetop = f, !.node = e]
        BY DEF Extend, Extended, HasShape
      <4>. HIDE DEF e
      <4>3. Fill([h EXCEPT !.freetop = f, !.node = e], f, k, v) = g
        BY DEF Fill, Filled, HasShape
      <4>. QED
        BY <4>1, <4>2, <4>3
    <3>. HIDE DEF e, f, n
    <3>3. Sound(d, hm, mn) /\ FilledWith(e, d, f, k, v)
      BY <3>1, FillSound
    <3>4. DOMAIN e = D /\ \A i \in D : e[i].key = node[i].key /\ e[i].val = node[i].val
      BY <3>1, <1>1 DEF SameFields
    <3>. HIDE DEF d
    <3>5. g.node = d /\ g.freetop = f
      BY DEF HasShape
    <3>6. FreeRule(d, hm, f)
      <4>1. ASSUME NEW i \in f..hm PROVE d[i].key # NULL
        <5>1. i \in D /\ (i # f => i \in (f + 1)..hm)
          BY <2>1
        <5>2. d[i].key = IF i = f THEN k ELSE e[i].key
          BY <5>1, <3>3, <3>4 DEF FilledWith
        <5>. QED
          BY <5>1, <5>2, <3>4, <2>1, <1>1
      <4>. QED
        BY <4>1, <2>1 DEF FreeRule
    <3>7. Live(e) = Live(node) /\ LiveKeys(e) = LiveKeys(node) /\ e[f].val = NULL
      <4>1. Live(e) = Live(node)
        BY <3>4, <1>1 DEF Live
      <4>2. \A i \in Live(node) : e[i].key = node[i].key
        BY <3>4, <1>1 DEF Live
      <4>3. e[f].val = NULL
        BY <3>1 DEF Ready
      <4>. QED
        BY <4>1, <4>2, <4>3 DEF LiveKeys
    <3>8. LiveKeys(d) = LiveKeys(node) \cup IF v = NULL THEN {} ELSE {k}
      BY <3>3, <3>4, <3>7, <2>1, <1>1, FilledLive
    <3>9. NoneDead(node) /\ v # NULL => NoneDead(d)
      <4>1. NoneDead(node) => \A i \in D \ {f} : e[i].key # NULL => e[i].val # NULL
        BY <3>4, <1>1 DEF NoneDead
      <4>. QED
        BY <4>1, <3>3, <3>4, <3>7, <2>1, <1>1, FilledNoneDead
    <3>. HIDE DEF g
    <3>10. Inserts(h, mn, k, v, g)
      BY <3>3, <3>5, <3>6, <3>8, <3>9 DEF Inserts, g
    <3>. QED
      BY <3>2, <3>10
  <2>. QED
    BY <2>3, <2>4
<1>. QED
  BY <1>2, <1>3
--------------------------------------------------------------------------------
(* A table. *)

\* The main positions, if sd are the IDs of the strings.
Mains(sd, hm) == [k \in Keys |-> (IF k \in Ints THEN k ELSE sd[k]) % (hm + 1)]

TabOk(sd, h) ==
  /\ HasShape(h)
  /\ h.asize \in Nat /\ h.array \in [0..(h.asize - 1) -> Ints \cup {NULL}]
  /\ \A i \in 0..(h.asize - 1) : h.array[i] \in {i, NULL}
  /\ h.hmask \in Nat
  /\ IF h.hmask = 0 THEN h.node[0] = NilNode /\ h.freetop = 0
                    ELSE FreeRule(h.node, h.hmask, h.freetop)
  /\ Sound(h.node, h.hmask, Mains(sd, h.hmask))
  /\ \A i \in Live(h.node) : ~ inarray(h, h.node[i].key)

ArrayKeys(h) == {i \in 0..(h.asize - 1) : h.array[i] # NULL}
Contents(h) == ArrayKeys(h) \cup LiveKeys(h.node)

SidOk == sid \in [Strs -> SIDS]

LEMMA MainsType ==
  ASSUME NEW sd \in [Strs -> SIDS], NEW hm \in Nat
  PROVE  Mains(sd, hm) \in [Keys -> 0..hm]
<1>. SUFFICES ASSUME NEW k \in Keys
              PROVE  (IF k \in Ints THEN k ELSE sd[k]) % (hm + 1) \in 0..hm
  BY DEF Mains
<1>1. k \in Ints => k \in Nat
  BY KeysAssumption
<1>2. k \notin Ints => sd[k] \in Nat
  BY KeysAssumption DEF Keys
<1>. DEFINE x == IF k \in Ints THEN k ELSE sd[k]
<1>3. x \in Nat
  BY <1>1, <1>2
<1>. HIDE DEF x
<1>4. x % (hm + 1) \in 0..hm
  BY <1>3
<1>. QED
  BY <1>4 DEF x

LEMMA MainsHash ==
  ASSUME SidOk, NEW h, h.hmask \in Nat
  PROVE  /\ Mains(sid, h.hmask) \in [Keys -> 0..h.hmask]
         /\ \A k \in Keys : Mains(sid, h.hmask)[k] = hashkey(h, k)
  BY MainsType DEF SidOk, Mains, hashkey

\* Keys that are there are told from each other, and from nil.
LEMMA ContentsKeys ==
  ASSUME NEW sd, NEW h, TabOk(sd, h)
  PROVE  /\ Contents(h) \in SUBSET Keys
         /\ \A k \in ArrayKeys(h) : k \in Ints /\ inarray(h, k) /\ h.array[k] = k
         /\ \A k \in LiveKeys(h.node) : k \in Keys /\ ~ inarray(h, k)
<1>1. \A k \in ArrayKeys(h) : k \in Ints /\ inarray(h, k) /\ h.array[k] = k
  <2>. SUFFICES ASSUME NEW k \in ArrayKeys(h)
                PROVE  k \in Ints /\ inarray(h, k) /\ h.array[k] = k
    OBVIOUS
  <2>1. k \in 0..(h.asize - 1) /\ h.array[k] = k /\ h.array[k] # NULL
    BY DEF ArrayKeys, TabOk
  <2>2. k \in Ints
    BY <2>1 DEF TabOk
  <2>3. k < h.asize
    BY <2>1 DEF TabOk
  <2>. QED
    BY <2>1, <2>2, <2>3 DEF inarray
<1>2. \A i \in Live(h.node) : h.node[i].key \in Keys
  BY LiveMain DEF TabOk, Sound, HasMain
<1>3. \A k \in LiveKeys(h.node) : k \in Keys /\ ~ inarray(h, k)
  BY <1>2 DEF LiveKeys, TabOk
<1>. QED
  BY <1>1, <1>3 DEF Contents, Keys

LEMMA LookupSpec ==
  ASSUME SidOk, NEW h, TabOk(sid, h), NEW k \in Keys
  PROVE  /\ First(h.node, Mains(sid, h.hmask)[k], k, Lookup(h, k))
         /\ Mains(sid, h.hmask)[k] \in 0..h.hmask
<1>1. /\ h.hmask \in Nat /\ Woven(h.node, h.hmask)
      /\ Mains(sid, h.hmask)[k] = hashkey(h, k) /\ hashkey(h, k) \in 0..h.hmask
  BY MainsHash DEF TabOk, Sound
<1>. QED
  BY <1>1, LookupFirst

\* lj_tab_get finds what is there.
LEMMA GetSpec ==
  ASSUME SidOk, NEW h, TabOk(sid, h), NEW k \in Keys
  PROVE  Get(h, k) = IF k \in Contents(h) THEN k ELSE NULL
<1>1. CASE inarray(h, k)
  <2>1. k \in 0..(h.asize - 1)
    BY <1>1, KeysAssumption DEF inarray, TabOk
  <2>2. k \notin LiveKeys(h.node)
    BY <1>1, ContentsKeys
  <2>3. h.array[k] \in {k, NULL}
    BY <2>1 DEF TabOk
  <2>4. Get(h, k) = h.array[k]
    BY <1>1 DEF Get
  <2>. QED
    BY <2>1, <2>2, <2>3, <2>4 DEF Contents, ArrayKeys
<1>2. CASE ~ inarray(h, k)
  <2>. DEFINE n == Lookup(h, k)
              m == Mains(sid, h.hmask)[k]
              node == h.node
  <2>1. k \notin ArrayKeys(h)
    BY <1>2, ContentsKeys
  <2>2. First(node, m, k, n) /\ m \in 0..h.hmask
    BY LookupSpec
  <2>3. Get(h, k) = IF n = NULL THEN NULL ELSE node[n].val
    BY <1>2 DEF Get
  <2>. HIDE DEF n, m
  <2>4. /\ Woven(node, h.hmask) /\ DOMAIN node = 0..h.hmask
        /\ \A i \in 0..h.hmask : node[i].val \in {NULL, node[i].key}
    BY DEF TabOk, Sound, Woven, Keyed
  <2>5. ASSUME NEW i \in Live(node), node[i].key = k PROVE i = n
    <3>1. First(node, m, k, i)
      BY <2>5 DEF TabOk, Sound, Found, m
    <3>. QED
      BY <3>1, <2>2, <2>4, FirstUnique
  <2>6. CASE n = NULL
    <3>1. k \notin LiveKeys(node)
      <4>1. NULL \notin Live(node)
        BY <2>4 DEF Live, Woven
      <4>. QED
        BY <4>1, <2>5, <2>6 DEF LiveKeys
    <3>. QED
      BY <3>1, <2>1, <2>3, <2>6 DEF Contents
  <2>7. CASE n # NULL
    <3>1. n \in 0..h.hmask /\ node[n].key = k /\ node[n].val \in {NULL, k}
      BY <2>2, <2>4, <2>7 DEF First
    <3>2. CASE node[n].val = NULL
      <4>1. k \notin LiveKeys(node)
        BY <2>5, <3>2 DEF LiveKeys, Live
      <4>. QED
        BY <4>1, <2>1, <2>3, <2>7, <3>2 DEF Contents
    <3>3. CASE node[n].val # NULL
      <4>1. k \in LiveKeys(node)
        BY <3>1, <3>3, <2>4 DEF LiveKeys, Live
      <4>. QED
        BY <4>1, <2>3, <2>7, <3>1, <3>3 DEF Contents
    <3>. QED
      BY <3>2, <3>3
  <2>. QED
    BY <2>6, <2>7
<1>. QED
  BY <1>1, <1>2
--------------------------------------------------------------------------------
Changed(S, k, v) == IF v = NULL THEN S \ {k} ELSE S \cup {k}
SetVal(node, n, v) == [node EXCEPT ![n].val = v]

LEMMA SetValFields ==
  ASSUME NEW D, NEW node \in [D -> Fields(D)], NEW n \in D, NEW v \in Keys \cup {NULL}
  PROVE  /\ SetVal(node, n, v) \in [D -> Fields(D)]
         /\ FilledWith(node, SetVal(node, n, v), n, node[n].key, v)
<1>. DEFINE r == [node[n] EXCEPT !.val = v]
            g == [node EXCEPT ![n] = r]
<1>1. /\ r \in Fields(D) /\ r.key = node[n].key /\ r.val = v /\ r.next = node[n].next
      /\ DOMAIN node = D
  <2>1. node[n] \in Fields(D)
    OBVIOUS
  <2>. QED
    BY <2>1 DEF Fields
<1>2. SetVal(node, n, v) = g
  BY <1>1 DEF SetVal
<1>. HIDE DEF r
<1>3. g \in [D -> Fields(D)] /\ DOMAIN g = D /\ \A i \in D : g[i] = IF i = n THEN r ELSE node[i]
  BY <1>1
<1>. HIDE DEF g
<1>. QED
  BY <1>1, <1>2, <1>3 DEF FilledWith

\* The value of a node that is found is set.
LEMMA SetValSound ==
  ASSUME NEW hm, NEW node, NEW mn, Sound(node, hm, mn), NEW k \in Keys,
         NEW n, n # NULL, First(node, mn[k], k, n), NEW v \in {k, NULL}
  PROVE  /\ Sound(SetVal(node, n, v), hm, mn)
         /\ FilledWith(node, SetVal(node, n, v), n, k, v)
         /\ LiveKeys(SetVal(node, n, v)) = Changed(LiveKeys(node), k, v)
<1>. DEFINE D == 0..hm
            nx == Nx(node)
            g == SetVal(node, n, v)
            m == mn[k]
<1>1. /\ NULL \notin D /\ DOMAIN node = D /\ DOMAIN nx = D /\ nx \in Links(D)
      /\ Linear(nx) /\ Keyed(node, hm, mn) /\ Woven(node, hm)
      /\ node \in [D -> Fields(D)] /\ mn \in [Keys -> D] /\ m \in D
  BY Linked DEF Sound, Keyed
<1>2. n \in D /\ node[n].key = k /\ k # NULL
  BY <1>1, KeysAssumption DEF First
<1>. HIDE DEF D, m
<1>3. g \in [D -> Fields(D)] /\ FilledWith(node, g, n, k, v)
  BY <1>1, <1>2, SetValFields
<1>. HIDE DEF g
<1>4. /\ DOMAIN g = D
      /\ \A i \in D : /\ g[i].key = node[i].key /\ g[i].next = node[i].next
                      /\ g[i].val = IF i = n THEN v ELSE node[i].val
  BY <1>1, <1>2, <1>3 DEF FilledWith
<1>5. Nx(g) = nx
  BY <1>1, <1>4 DEF Nx
<1>. HIDE DEF nx
<1>6. Live(g) = (Live(node) \ {n}) \cup IF v = NULL THEN {} ELSE {n}
  BY <1>1, <1>2, <1>4 DEF Live
<1>7. ASSUME NEW i \in Live(node)
      PROVE  HasMain(node, hm, mn, i) /\ i \in D /\ Found(node, mn, i) /\ mn[node[i].key] \in D
  <2>1. HasMain(node, hm, mn, i)
    BY <1>1, LiveMain
  <2>2. Found(node, mn, i)
    BY DEF Sound
  <2>. QED
    BY <2>1, <2>2 DEF HasMain, D
<1>8. ASSUME NEW i \in Live(node), node[i].key = k PROVE i = n
  <2>1. First(node, m, k, i)
    BY <1>7, <1>8 DEF Found, m
  <2>2. First(node, m, k, n) /\ Woven(node, hm) /\ m \in 0..hm
    BY <1>1 DEF m, D
  <2>. QED
    BY <2>1, <2>2, FirstUnique
<1>9. Woven(g, hm)
  BY <1>1, <1>4, <1>5 DEF Woven, D, nx
<1>10. node[m].key # NULL /\ (m # n => node[m].key # k)
  <2>1. CASE m = n
    BY <2>1, <1>2
  <2>2. CASE m # n
    <3>1. Reaches(nx, m, n)
      BY <1>1 DEF First, nx, m
    <3>2. nx[m] \in D
      BY <3>1, <2>2, <1>1, <1>2, ReachStep
    <3>3. node[m].key # NULL
      BY <3>2, <1>1 DEF Sound, Spare, Isolated, nx
    <3>4. node[m].key # k
      <4>. SUFFICES ASSUME node[m].key = k PROVE FALSE
        OBVIOUS
      <4>1. Reaches(nx, m, m)
        BY <1>1, ReachSelf
      <4>2. Reaches(nx, n, m)
        BY <4>1, <1>1 DEF First, nx, m
      <4>. QED
        BY <4>2, <3>1, <2>2, <1>1, <1>2, ReachBack
    <3>. QED
      BY <3>3, <3>4
  <2>. QED
    BY <2>1, <2>2
<1>11. Keyed(g, hm, mn)
  <2>1. \A i \in D : g[i].val \in {NULL, g[i].key}
    <3>1. \A i \in D : node[i].val \in {NULL, node[i].key}
      BY <1>1 DEF Keyed, D
    <3>. QED
      BY <3>1, <1>2, <1>4
  <2>2. ASSUME NEW i \in Live(g), NEW j \in Live(g), g[i].key = g[j].key PROVE i = j
    <3>1. i \in D /\ j \in D /\ node[i].key = node[j].key
      BY <2>2, <1>2, <1>4, <1>6, <1>7
    <3>2. CASE i \in Live(node) /\ j \in Live(node)
      BY <3>1, <3>2, <1>1 DEF Keyed
    <3>3. CASE i = n \/ j = n
      BY <3>1, <3>3, <1>2, <1>6, <1>8
    <3>. QED
      BY <3>2, <3>3, <1>6
  <2>3. ASSUME NEW i \in Live(g)
        PROVE  /\ g[mn[g[i].key]].key # NULL
               /\ mn[g[i].key] # i => g[mn[g[i].key]].key # g[i].key
    <3>1. CASE i \in Live(node)
      <4>. DEFINE mi == mn[node[i].key]
      <4>1. /\ node[mi].key # NULL /\ mi \in D /\ g[i].key = node[i].key
            /\ mi # i => node[mi].key # node[i].key
        BY <3>1, <1>4, <1>7 DEF HasMain
      <4>. HIDE DEF mi
      <4>2. g[mi].key = node[mi].key
        BY <4>1, <1>4
      <4>. QED
        BY <4>1, <4>2 DEF mi
    <3>2. CASE i = n
      <4>1. g[i].key = k /\ g[m].key = node[m].key
        BY <3>2, <1>1, <1>2, <1>4
      <4>. QED
        BY <3>2, <4>1, <1>10 DEF m
    <3>. QED
      BY <3>1, <3>2, <1>6
  <2>. QED
    BY <2>1, <2>2, <2>3, <1>1, <1>3 DEF Keyed, D
<1>12. Spare(g)
  BY <1>1, <1>4, <1>5 DEF Sound, Spare, nx
<1>13. ASSUME NEW i \in D, Found(node, mn, i) PROVE Found(g, mn, i)
  <2>. DEFINE ki == node[i].key
              mi == mn[ki]
  <2>1. g[i].key = ki /\ First(node, mi, ki, i)
    BY <1>4, <1>13 DEF Found
  <2>. HIDE DEF mi, ki
  <2>2. First(g, mi, ki, i)
    BY <2>1, <1>1, <1>4, <1>5 DEF First, nx
  <2>. QED
    BY <2>1, <2>2 DEF Found, mi, ki
<1>14. Found(node, mn, n)
  BY <1>2 DEF Found
<1>15. \A i \in Live(g) : Found(g, mn, i)
  BY <1>2, <1>6, <1>7, <1>13, <1>14
<1>16. LiveKeys(g) = Changed(LiveKeys(node), k, v)
  <2>1. \A i \in Live(node) : g[i].key = node[i].key
    BY <1>4, <1>7
  <2>2. CASE v = NULL
    <3>1. Live(g) = Live(node) \ {n}
      BY <2>2, <1>6
    <3>. QED
      BY <3>1, <2>1, <2>2, <1>2, <1>8 DEF LiveKeys, Changed
  <2>3. CASE v # NULL
    <3>1. Live(g) = Live(node) \cup {n} /\ g[n].key = k
      BY <2>3, <1>2, <1>4, <1>6
    <3>. QED
      BY <3>1, <2>1, <2>3 DEF LiveKeys, Changed
  <2>. QED
    BY <2>2, <2>3
<1>. QED
  BY <1>3, <1>9, <1>11, <1>12, <1>15, <1>16 DEF Sound, g

--------------------------------------------------------------------------------
\* What storing v under k does to a table with room for it.
Stored(sd, h, k, v, g) ==
  /\ TabOk(sd, g) /\ g.asize = h.asize /\ g.hmask = h.hmask
  /\ Contents(g) = Changed(Contents(h), k, v)
  /\ NoneDead(h.node) /\ v # NULL => NoneDead(g.node)

LEMMA StoreSpec ==
  ASSUME SidOk, NEW h, TabOk(sid, h), NEW k \in Keys, NEW v \in {k, NULL}, HasRoom(h, k)
  PROVE  Stored(sid, h, k, v, Store(h, k, v))
<1>. DEFINE n == Lookup(h, k)
            mn == Mains(sid, h.hmask)
            node == h.node
<1>1. k # NULL /\ h.hmask \in Nat /\ Sound(node, h.hmask, mn) /\ HasShape(h)
  BY KeysAssumption DEF TabOk
<1>2. First(node, mn[k], k, n) /\ mn[k] \in 0..h.hmask /\ DOMAIN node = 0..h.hmask
  BY <1>1, LookupSpec DEF Sound, Woven
<1>3. mn \in [Keys -> 0..h.hmask] /\ \A x \in Keys : mn[x] = hashkey(h, x)
  BY <1>1, MainsHash
<1>4. CASE inarray(h, k)
  <2>. DEFINE g == [h EXCEPT !.array[k] = v]
  <2>1. Store(h, k, v) = g
    BY <1>4 DEF Store
  <2>2. /\ HasShape(g) /\ g.asize = h.asize /\ g.hmask = h.hmask /\ g.node = node
        /\ g.freetop = h.freetop /\ g.array = [h.array EXCEPT ![k] = v]
    BY <1>1 DEF HasShape
  <2>. HIDE DEF g
  <2>3. k \in 0..(h.asize - 1) /\ k \in Ints
    BY <1>4, KeysAssumption DEF inarray, TabOk
  <2>4. /\ g.array \in [0..(h.asize - 1) -> Ints \cup {NULL}]
        /\ \A i \in 0..(h.asize - 1) : g.array[i] = IF i = k THEN v ELSE h.array[i]
    BY <2>2, <2>3 DEF TabOk
  <2>5. \A x : inarray(g, x) <=> inarray(h, x)
    BY <2>2 DEF inarray
  <2>6. TabOk(sid, g)
    <3>1. \A i \in 0..(h.asize - 1) : g.array[i] \in {i, NULL}
      BY <2>4 DEF TabOk
    <3>. QED
      BY <3>1, <2>2, <2>4, <2>5 DEF TabOk
  <2>7. ArrayKeys(g) = Changed(ArrayKeys(h), k, v)
    BY <2>2, <2>3, <2>4, <1>1 DEF ArrayKeys, Changed
  <2>8. k \notin LiveKeys(node)
    BY <1>4, ContentsKeys
  <2>9. Contents(g) = Changed(Contents(h), k, v)
    BY <2>2, <2>7, <2>8 DEF Contents, Changed
  <2>. QED
    BY <2>1, <2>2, <2>6, <2>9 DEF Stored
\* The array part stays as it is.
<1>5. ASSUME NEW g, ~ inarray(h, k),
             g = [h EXCEPT !.freetop = g.freetop, !.node = g.node],
             Sound(g.node, h.hmask, mn), LiveKeys(g.node) = Changed(LiveKeys(node), k, v),
             h.hmask # 0, FreeRule(g.node, h.hmask, g.freetop),
             NoneDead(node) /\ v # NULL => NoneDead(g.node)
      PROVE  Stored(sid, h, k, v, g)
  <2>1. /\ HasShape(g) /\ g.asize = h.asize /\ g.array = h.array /\ g.hmask = h.hmask
    BY <1>1, <1>5 DEF HasShape
  <2>2. \A x : inarray(g, x) <=> inarray(h, x)
    BY <2>1 DEF inarray
  <2>3. \A x \in LiveKeys(g.node) : ~ inarray(h, x)
    BY <1>5, ContentsKeys DEF Changed
  <2>4. \A i \in Live(g.node) : ~ inarray(g, g.node[i].key)
    BY <2>2, <2>3 DEF LiveKeys
  <2>5. TabOk(sid, g)
    BY <2>1, <2>4, <1>5 DEF TabOk
  <2>6. k \notin ArrayKeys(h) /\ ArrayKeys(g) = ArrayKeys(h)
    BY <2>1, <1>5, ContentsKeys DEF ArrayKeys
  <2>7. Contents(g) = Changed(Contents(h), k, v)
    BY <2>6, <1>5 DEF Contents, Changed
  <2>. QED
    BY <2>1, <2>5, <2>7, <1>5 DEF Stored
<1>6. h.hmask = 0 => n = NULL /\ Free(h) = {}
  <2>. SUFFICES ASSUME h.hmask = 0 PROVE n = NULL /\ Free(h) = {}
    OBVIOUS
  <2>1. node[0].key = NULL /\ h.freetop = 0
    BY DEF TabOk, NilNode
  <2>2. Free(h) = {}
    BY <2>1 DEF Free
  <2>3. n = NULL
    <3>1. \A i \in DOMAIN node : node[i].key # k
      BY <2>1, <1>1, <1>2
    <3>. HIDE DEF n
    <3>. QED
      BY <3>1, <1>2 DEF First
  <2>. QED
    BY <2>2, <2>3
<1>7. CASE ~ inarray(h, k) /\ n # NULL
  <2>. DEFINE g == [h EXCEPT !.node[n].val = v]
              e == SetVal(node, n, v)
  <2>1. Store(h, k, v) = g
    BY <1>7 DEF Store
  <2>2. g = [h EXCEPT !.node = e]
    BY DEF SetVal
  <2>. HIDE DEF n
  <2>3. /\ Sound(e, h.hmask, mn) /\ FilledWith(node, e, n, k, v)
        /\ LiveKeys(e) = Changed(LiveKeys(node), k, v)
    BY <1>1, <1>2, <1>7, SetValSound
  <2>. HIDE DEF e, g
  <2>4. g.freetop = h.freetop /\ g.node = e /\ g = [h EXCEPT !.freetop = g.freetop, !.node = g.node]
    BY <2>2, <1>1 DEF HasShape
  <2>5. h.hmask # 0 /\ FreeRule(node, h.hmask, h.freetop)
    BY <1>6, <1>7 DEF TabOk
  <2>6. DOMAIN e = 0..h.hmask /\ \A i \in 0..h.hmask : e[i].key = IF i = n THEN k ELSE node[i].key
    BY <2>3, <1>2 DEF FilledWith
  <2>7. FreeRule(e, h.hmask, h.freetop)
    BY <2>5, <2>6, <1>1 DEF FreeRule
  <2>8. NoneDead(node) /\ v # NULL => NoneDead(e)
    <3>1. \A i \in 0..h.hmask : e[i].val = IF i = n THEN v ELSE node[i].val
      BY <2>3, <1>2 DEF FilledWith
    <3>. QED
      BY <3>1, <2>6, <1>2 DEF NoneDead
  <2>9. Stored(sid, h, k, v, g)
    BY <2>3, <2>4, <2>5, <2>7, <2>8, <1>5, <1>7
  <2>. QED
    BY <2>1, <2>9
<1>8. CASE ~ inarray(h, k) /\ n = NULL
  <2>1. Store(h, k, v) = newkey(h, k, v)
    BY <1>8 DEF Store
  <2>2. h.hmask # 0 /\ (node[mn[k]].val = NULL \/ Free(h) # {})
    BY <1>3, <1>6, <1>8 DEF HasRoom
  <2>3. PICK g : newkey(h, k, v) = g /\ Inserts(h, mn, k, v, g)
    <3>1. FreeRule(node, h.hmask, h.freetop)
      BY <2>2 DEF TabOk
    <3>2. First(node, mn[k], k, NULL)
      BY <1>2, <1>8
    <3>3. h.hmask \in Nat \ {0}
      BY <2>2, <1>1
    <3>. HIDE DEF mn, n
    <3>. QED
      BY <3>1, <3>2, <3>3, <2>2, <1>1, <1>3, NewKey
  <2>4. LiveKeys(g.node) = Changed(LiveKeys(node), k, v)
    <3>1. \A i \in Live(node) : node[i].key # k
      BY <1>1, <1>2, <1>8, NotLive
    <3>2. k \notin LiveKeys(node)
      BY <3>1 DEF LiveKeys
    <3>. QED
      BY <3>2, <2>3 DEF Inserts, Changed
  <2>5. Stored(sid, h, k, v, g)
    BY <2>2, <2>3, <2>4, <1>5, <1>8 DEF Inserts
  <2>. QED
    BY <2>1, <2>3, <2>5
<1>. QED
  BY <1>4, <1>7, <1>8
--------------------------------------------------------------------------------
(* Powers of two. *)

LEMMA PowNat ==
  ASSUME NEW b \in Nat
  PROVE  2^b \in Nat /\ 2^b >= 1 /\ IsFiniteSet(SUBSET (1..b)) /\ Cardinality(SUBSET (1..b)) = 2^b
<1>. DEFINE S == 1..b
<1>1. IsFiniteSet(S) /\ Cardinality(S) = b
  BY FS_Interval
<1>. HIDE DEF S
<1>2. IsFiniteSet(SUBSET S) /\ Cardinality(SUBSET S) = 2^b
  BY <1>1, FS_SUBSET
<1>3. 2^b \in Nat /\ 2^b # 0
  <2>1. {} \in SUBSET S
    OBVIOUS
  <2>2. SUBSET S # {}
    BY <2>1
  <2>3. Cardinality(SUBSET S) \in Nat /\ Cardinality(SUBSET S) # 0
    BY <2>2, <1>2, FS_EmptySet, FS_CardinalityType
  <2>. QED
    BY <2>3, <1>2
<1>. QED
  BY <1>2, <1>3 DEF S

LEMMA PowStep ==
  ASSUME NEW b \in Nat
  PROVE  2^(b + 1) = 2^b + 2^b
<1>. DEFINE A == SUBSET (1..b)
            B == {X \cup {b + 1} : X \in A}
            C == SUBSET (1..(b + 1))
            f == [X \in A |-> X \cup {b + 1}]
<1>1. /\ 2^b \in Nat /\ IsFiniteSet(A) /\ Cardinality(A) = 2^b
      /\ 2^(b + 1) \in Nat /\ Cardinality(C) = 2^(b + 1)
  <2>1. b + 1 \in Nat
    OBVIOUS
  <2>2. 2^b \in Nat /\ IsFiniteSet(A) /\ Cardinality(A) = 2^b
    BY PowNat
  <2>3. 2^(b + 1) \in Nat /\ Cardinality(C) = 2^(b + 1)
    BY <2>1, PowNat
  <2>. QED
    BY <2>2, <2>3
<1>2. \A X \in A : b + 1 \notin X
  OBVIOUS
<1>3. A \cap B = {}
  BY <1>2
<1>4. C = A \cup B
  <2>1. ASSUME NEW X \in C PROVE X \in A \cup B
    <3>1. CASE b + 1 \notin X
      <4>1. \A x \in X : x \in 1..b
        BY <3>1
      <4>. QED
        BY <4>1
    <3>2. CASE b + 1 \in X
      <4>. DEFINE Y == X \ {b + 1}
      <4>1. \A x \in Y : x \in 1..b
        OBVIOUS
      <4>2. Y \in A /\ X = Y \cup {b + 1}
        BY <4>1, <3>2
      <4>. QED
        BY <4>2
    <3>. QED
      BY <3>1, <3>2
  <2>2. ASSUME NEW X \in A PROVE X \in C
    <3>1. \A x \in X : x \in 1..(b + 1)
      OBVIOUS
    <3>. QED
      BY <3>1
  <2>3. ASSUME NEW X \in A PROVE X \cup {b + 1} \in C
    <3>1. \A x \in X \cup {b + 1} : x \in 1..(b + 1)
      OBVIOUS
    <3>. QED
      BY <3>1
  <2>4. B \subseteq C
    BY <2>3
  <2>. HIDE DEF A, B, C
  <2>. QED
    BY <2>1, <2>2, <2>4
<1>5. f \in Bijection(A, B)
  <2>1. f \in [A -> B]
    OBVIOUS
  <2>2. \A y \in B : \E X \in A : f[X] = y
    OBVIOUS
  <2>3. ASSUME NEW X \in A, NEW Y \in A, f[X] = f[Y] PROVE X = Y
    <3>1. X \cup {b + 1} = Y \cup {b + 1}
      BY <2>3
    <3>2. X = (X \cup {b + 1}) \ {b + 1}
      BY <1>2
    <3>3. Y = (Y \cup {b + 1}) \ {b + 1}
      BY <1>2
    <3>. HIDE DEF A
    <3>. QED
      BY <3>1, <3>2, <3>3
  <2>. HIDE DEF A, B, f
  <2>. QED
    BY <2>1, <2>2, <2>3 DEF Bijection, Injection, Surjection, IsInjective
<1>. HIDE DEF A, B, C, f
<1>6. IsFiniteSet(B) /\ Cardinality(B) = Cardinality(A)
  BY <1>1, <1>5, FS_Bijection DEF ExistsBijection
<1>7. Cardinality(C) = Cardinality(A) + Cardinality(B) - Cardinality({})
  BY <1>1, <1>3, <1>4, <1>6, FS_Union
<1>8. Cardinality({}) = 0
  BY FS_EmptySet
<1>. QED
  BY <1>1, <1>6, <1>7, <1>8

LEMMA PowGreater ==
  ASSUME NEW b \in Nat
  PROVE  2^b > b
<1>. DEFINE T == {n \in Nat : 2^n > n}
<1>1. 0 \in T
  <2>1. 2^0 \in Nat /\ 2^0 >= 1
    BY PowNat
  <2>. QED
    BY <2>1
<1>2. ASSUME NEW n \in Nat, n \in T PROVE n + 1 \in T
  <2>1. 2^(n + 1) = 2^n + 2^n /\ 2^n \in Nat /\ 2^n > n
    BY <1>2, PowStep, PowNat
  <2>. DEFINE p == 2^n
              q == 2^(n + 1)
  <2>. HIDE DEF p, q
  <2>2. q = p + p /\ p \in Nat /\ p > n
    BY <2>1 DEF p, q
  <2>3. q > n + 1
    BY <2>2
  <2>. QED
    BY <2>3 DEF q
<1>. HIDE DEF T
<1>3. \A n \in Nat : n \in T
  BY <1>1, <1>2, SetInduction
<1>. QED
  BY <1>3 DEF T

LEMMA PowLe ==
  ASSUME NEW a \in Nat, NEW b \in Nat, a <= b
  PROVE  2^a <= 2^b
<1>. DEFINE T == {n \in Nat : 2^a <= 2^(a + n)}
<1>1. 0 \in T
  <2>. DEFINE o == 2^a
              q == 2^(a + 0)
  <2>1. a + 0 = a
    OBVIOUS
  <2>2. o \in Nat
    BY PowNat
  <2>3. q = o
    BY <2>1
  <2>. HIDE DEF o, q
  <2>4. o <= q
    BY <2>2, <2>3
  <2>. QED
    BY <2>4 DEF o, q
<1>2. ASSUME NEW n \in Nat, n \in T PROVE n + 1 \in T
  <2>. DEFINE o == 2^a
              p == 2^(a + n)
              q == 2^(a + (n + 1))
  <2>1. a + n \in Nat /\ a + (n + 1) = (a + n) + 1
    OBVIOUS
  <2>2. o \in Nat /\ p \in Nat /\ o <= p
    <3>1. o \in Nat
      BY PowNat
    <3>2. p \in Nat
      BY <2>1, PowNat
    <3>. QED
      BY <1>2, <3>1, <3>2
  <2>3. 2^((a + n) + 1) = p + p
    BY <2>1, PowStep
  <2>4. q = p + p
    BY <2>1, <2>3
  <2>. HIDE DEF o, p, q
  <2>5. o <= q
    BY <2>2, <2>4
  <2>. QED
    BY <2>5 DEF o, q
<1>. HIDE DEF T
<1>3. \A n \in Nat : n \in T
  BY <1>1, <1>2, SetInduction
<1>4. b - a \in Nat /\ a + (b - a) = b
  OBVIOUS
<1>5. 2^a <= 2^(a + (b - a))
  BY <1>3, <1>4 DEF T
<1>. QED
  BY <1>4, <1>5

\* 2^b is above 2^a only if b is above a.
LEMMA PowLess ==
  ASSUME NEW a \in Nat, NEW b \in Nat, 2^a < 2^b
  PROVE  a < b
<1>. SUFFICES ASSUME b <= a PROVE FALSE
  OBVIOUS
<1>1. 2^b <= 2^a /\ 2^a \in Nat /\ 2^b \in Nat
  BY PowLe, PowNat
<1>. DEFINE p == 2^a
            q == 2^b
<1>. HIDE DEF p, q
<1>2. p < q /\ q <= p /\ p \in Nat /\ q \in Nat
  BY <1>1 DEF p, q
<1>. QED
  BY <1>2

--------------------------------------------------------------------------------
LEMMA FlsSpec ==
  ASSUME NEW x \in Nat \ {0}
  PROVE  fls(x) \in 0..x /\ 2^fls(x) <= x /\ x < 2^(fls(x) + 1)
<1>. DEFINE S == {b \in 0..x : 2^b <= x}
            f == Max(S)
<1>1. 0 \in S
  <2>1. 2^0 = 1
    OBVIOUS
  <2>. QED
    BY <2>1
<1>2. IsMax(S, f)
  <2>1. S \in SUBSET (0..x)
    OBVIOUS
  <2>. HIDE DEF S
  <2>. QED
    BY <1>1, <2>1, MaxNat
<1>3. f \in 0..x /\ 2^f <= x /\ \A b \in 0..x : 2^b <= x => b <= f
  <2>. HIDE DEF f
  <2>. QED
    BY <1>2 DEF IsMax
<1>. HIDE DEF f
<1>4. x < 2^(f + 1)
  <2>. SUFFICES ASSUME ~ (x < 2^(f + 1)) PROVE FALSE
    OBVIOUS
  <2>1. f + 1 \in Nat
    BY <1>3
  <2>. DEFINE p == 2^(f + 1)
  <2>2. p \in Nat /\ p > f + 1
    BY <2>1, PowNat, PowGreater
  <2>3. p <= x
    <3>1. ~ (x < p)
      OBVIOUS
    <3>. HIDE DEF p
    <3>. QED
      BY <3>1, <2>2
  <2>4. f + 1 \in 0..x
    <3>. HIDE DEF p
    <3>. QED
      BY <2>1, <2>2, <2>3
  <2>5. f + 1 <= f
    BY <2>3, <2>4, <1>3
  <2>. QED
    BY <2>5, <1>3
<1>. QED
  BY <1>3, <1>4 DEF fls, f

LEMMA FlsLe ==
  ASSUME NEW x \in Nat \ {0}, NEW y \in Nat \ {0}, x <= y
  PROVE  fls(x) <= fls(y)
<1>. DEFINE a == fls(x)
            b == fls(y)
<1>1. a \in Nat /\ b \in Nat /\ 2^a <= x /\ y < 2^(b + 1)
  BY FlsSpec
<1>. HIDE DEF a, b
<1>2. 2^a \in Nat /\ 2^(b + 1) \in Nat /\ b + 1 \in Nat
  <2>1. b + 1 \in Nat
    BY <1>1
  <2>. QED
    BY <1>1, <2>1, PowNat
<1>3. 2^a < 2^(b + 1)
  <2>. DEFINE p == 2^a
              q == 2^(b + 1)
  <2>1. p \in Nat /\ q \in Nat /\ p <= x /\ y < q
    BY <1>1, <1>2
  <2>. HIDE DEF p, q
  <2>2. p < q
    BY <2>1
  <2>. QED
    BY <2>2 DEF p, q
<1>4. a < b + 1
  BY <1>1, <1>2, <1>3, PowLess
<1>5. a <= b
  BY <1>1, <1>4
<1>. QED
  BY <1>5 DEF a, b

\* The number of bits of a full hash mask.
LEMMA FlsPow ==
  ASSUME NEW b \in Nat, 2^b - 1 > 0
  PROVE  fls(2^b - 1) + 1 = b
<1>. DEFINE q == 2^b
            f == fls(q - 1)
<1>1. q \in Nat /\ q - 1 \in Nat \ {0}
  <2>1. q \in Nat /\ q - 1 > 0
    BY PowNat
  <2>. HIDE DEF q
  <2>. QED
    BY <2>1
<1>2. f \in Nat /\ 2^f <= q - 1 /\ q - 1 < 2^(f + 1)
  <2>. HIDE DEF q
  <2>. QED
    BY <1>1, FlsSpec
<1>. HIDE DEF f
<1>3. f + 1 \in Nat /\ f + 2 = (f + 1) + 1 /\ f + 2 \in Nat
  BY <1>2
<1>. DEFINE p == 2^f
            r == 2^(f + 1)
            s == 2^(f + 2)
<1>4. p \in Nat /\ r \in Nat /\ r >= 1 /\ s \in Nat /\ s = r + r
  BY <1>2, <1>3, PowNat, PowStep
<1>5. p < q /\ q < s
  <2>1. p <= q - 1 /\ q - 1 < r
    BY <1>2
  <2>. HIDE DEF p, q, r, s
  <2>. QED
    BY <2>1, <1>1, <1>4
<1>6. f < b /\ b < f + 2
  <2>1. 2^f < 2^b /\ 2^b < 2^(f + 2)
    BY <1>5
  <2>. QED
    BY <2>1, <1>2, <1>3, PowLess
<1>7. f + 1 = b
  BY <1>2, <1>6
<1>. QED
  BY <1>7 DEF f, q

LEMMA HbitsSpec ==
  ASSUME NEW s \in Nat
  PROVE  /\ hsize2hbits(s) \in Nat /\ s <= 2^hsize2hbits(s)
         /\ hsize2hbits(s) = 0 => s = 0
         /\ \A z \in Nat \ {0} : s <= z => hsize2hbits(s) \in 0..(1 + fls(z))
<1>. DEFINE hb == hsize2hbits(s)
            P == /\ hb \in Nat /\ s <= 2^hb /\ (hb = 0 => s = 0)
                 /\ \A z \in Nat \ {0} : s <= z => hb \in 0..(1 + fls(z))
<1>1. ASSUME s = 0 PROVE P
  <2>1. hb = 0
    BY <1>1 DEF hsize2hbits
  <2>2. 2^0 = 1
    OBVIOUS
  <2>3. \A z \in Nat \ {0} : fls(z) \in Nat
    BY FlsSpec
  <2>. HIDE DEF hb
  <2>4. \A z \in Nat \ {0} : hb \in 0..(1 + fls(z))
    BY <2>1, <2>3
  <2>5. hb \in Nat /\ s <= 2^hb /\ (hb = 0 => s = 0)
    BY <1>1, <2>1, <2>2
  <2>. QED
    BY <2>4, <2>5
<1>2. ASSUME s = 1 PROVE P
  <2>1. hb = 1
    BY <1>2 DEF hsize2hbits
  <2>2. 2^1 = 2
    OBVIOUS
  <2>3. \A z \in Nat \ {0} : fls(z) \in Nat
    BY FlsSpec
  <2>. HIDE DEF hb
  <2>4. \A z \in Nat \ {0} : hb \in 0..(1 + fls(z))
    BY <2>1, <2>3
  <2>5. hb \in Nat /\ s <= 2^hb /\ (hb = 0 => s = 0)
    BY <1>2, <2>1, <2>2
  <2>. QED
    BY <2>4, <2>5
<1>3. ASSUME s \notin {0, 1} PROVE P
  <2>1. hb = 1 + fls(s - 1) /\ s - 1 \in Nat \ {0}
    BY <1>3 DEF hsize2hbits
  <2>2. fls(s - 1) \in Nat /\ s - 1 < 2^(fls(s - 1) + 1)
    BY <2>1, FlsSpec
  <2>3. hb \in Nat \ {0} /\ s - 1 < 2^hb
    <3>. DEFINE l == fls(s - 1)
    <3>1. l \in Nat /\ s - 1 < 2^(l + 1) /\ hb = 1 + l
      BY <2>1, <2>2
    <3>. HIDE DEF l, hb
    <3>2. hb = l + 1
      BY <3>1
    <3>3. hb \in Nat \ {0}
      BY <3>1
    <3>. QED
      BY <3>1, <3>2, <3>3
  <2>4. s <= 2^hb
    <3>. DEFINE p == 2^hb
    <3>1. p \in Nat /\ s - 1 < p
      <4>. HIDE DEF hb
      <4>. QED
        BY <2>3, PowNat
    <3>. HIDE DEF p
    <3>2. s <= p
      BY <3>1
    <3>. QED
      BY <3>2 DEF p
  <2>5. ASSUME NEW z \in Nat \ {0}, s <= z PROVE hb \in 0..(1 + fls(z))
    <3>1. fls(s - 1) <= fls(z) /\ fls(z) \in Nat
      <4>1. s - 1 <= z
        BY <2>5
      <4>2. fls(s - 1) <= fls(z)
        BY <4>1, <2>1, FlsLe
      <4>3. fls(z) \in Nat
        BY FlsSpec
      <4>. QED
        BY <4>2, <4>3
    <3>. DEFINE l == fls(s - 1)
                u == fls(z)
    <3>2. l \in Nat /\ u \in Nat /\ l <= u /\ hb = 1 + l
      BY <3>1, <2>1, <2>2
    <3>. HIDE DEF l, u, hb
    <3>3. hb \in 0..(1 + u)
      BY <3>2
    <3>. QED
      BY <3>3 DEF u
  <2>. HIDE DEF hb
  <2>6. hb = 0 => s = 0
    BY <2>3
  <2>7. \A z \in Nat \ {0} : s <= z => hb \in 0..(1 + fls(z))
    BY <2>5
  <2>. QED
    BY <2>3, <2>4, <2>6, <2>7
<1>4. P
  BY <1>1, <1>2, <1>3
<1>. QED
  BY <1>4
--------------------------------------------------------------------------------
(* What the array part gets. *)

\* A finite set of numbers is bounded.
LEMMA NatBounded ==
  ASSUME NEW S \in SUBSET Nat, IsFiniteSet(S)
  PROVE  \E b \in Nat : S \in SUBSET (0..b)
<1>. DEFINE Small(n) == \A X \in SUBSET Nat :
                          IsFiniteSet(X) /\ Cardinality(X) = n
                            => \E b \in Nat : X \in SUBSET (0..b)
            T == {n \in Nat : Small(n)}
<1>1. 0 \in T
  <2>. SUFFICES ASSUME NEW X \in SUBSET Nat, IsFiniteSet(X), Cardinality(X) = 0
                PROVE  \E b \in Nat : X \in SUBSET (0..b)
    OBVIOUS
  <2>1. X = {}
    BY FS_EmptySet
  <2>. QED
    BY <2>1
<1>2. ASSUME NEW n \in Nat, n \in T PROVE n + 1 \in T
  <2>. SUFFICES ASSUME NEW X \in SUBSET Nat, IsFiniteSet(X), Cardinality(X) = n + 1
                PROVE  \E b \in Nat : X \in SUBSET (0..b)
    OBVIOUS
  <2>1. X # {}
    BY FS_EmptySet
  <2>2. PICK x \in X : TRUE
    BY <2>1
  <2>. DEFINE Y == X \ {x}
  <2>3. IsFiniteSet(Y) /\ Cardinality(Y) = n /\ Y \in SUBSET Nat
    <3>1. IsFiniteSet(Y) /\ Cardinality(Y) = Cardinality(X) - 1
      BY <2>2, FS_RemoveElement
    <3>. QED
      BY <3>1
  <2>4. PICK b \in Nat : Y \in SUBSET (0..b)
    BY <1>2, <2>3
  <2>5. \A y \in X : y \in 0..(b + x)
    <3>. SUFFICES ASSUME NEW y \in X PROVE y \in 0..(b + x)
      OBVIOUS
    <3>1. CASE y = x
      BY <3>1, <2>4
    <3>2. CASE y # x
      <4>1. y \in 0..b
        BY <3>2, <2>4
      <4>. QED
        BY <4>1, <2>2
    <3>. QED
      BY <3>1, <3>2
  <2>6. b + x \in Nat
    BY <2>2
  <2>. QED
    BY <2>5, <2>6
<1>3. \A n \in Nat : n \in T
  <2>. HIDE DEF T
  <2>. QED
    BY <1>1, <1>2, SetInduction
<1>4. Cardinality(S) \in Nat
  BY FS_CardinalityType
<1>. QED
  BY <1>3, <1>4

\* The keys of bins up to b are those that an array of their size has.
LEMMA BinSpec ==
  ASSUME NEW k \in Nat
  PROVE  /\ bin(k) \in 0..k
         /\ \A b \in Nat : bin(k) <= b <=> k < 2^(b + 1) + 1
<1>1. CASE k > 2
  <2>. DEFINE l == fls(k - 1)
  <2>1. k - 1 \in Nat \ {0} /\ bin(k) = l
    BY <1>1 DEF bin
  <2>2. l \in 0..(k - 1) /\ 2^l <= k - 1 /\ k - 1 < 2^(l + 1)
    BY <2>1, FlsSpec
  <2>. HIDE DEF l
  <2>3. ASSUME NEW b \in Nat, l <= b PROVE k < 2^(b + 1) + 1
    <3>1. l + 1 \in Nat /\ b + 1 \in Nat /\ l + 1 <= b + 1
      BY <2>2, <2>3
    <3>2. 2^(l + 1) <= 2^(b + 1)
      BY <3>1, PowLe
    <3>3. 2^(l + 1) \in Nat
      BY <3>1, PowNat
    <3>4. 2^(b + 1) \in Nat
      BY <3>1, PowNat
    <3>. DEFINE p == 2^(l + 1)
                q == 2^(b + 1)
    <3>5. p <= q /\ p \in Nat /\ q \in Nat /\ k - 1 < p
      BY <3>2, <3>3, <3>4, <2>2
    <3>. HIDE DEF p, q
    <3>6. k < q + 1
      BY <3>5
    <3>. QED
      BY <3>6 DEF q
  <2>4. ASSUME NEW b \in Nat, k < 2^(b + 1) + 1 PROVE l <= b
    <3>1. b + 1 \in Nat /\ l \in Nat
      BY <2>2
    <3>2. 2^(b + 1) \in Nat
      BY <3>1, PowNat
    <3>3. 2^l \in Nat
      BY <3>1, PowNat
    <3>. DEFINE p == 2^l
                q == 2^(b + 1)
    <3>4. p \in Nat /\ q \in Nat /\ p <= k - 1 /\ k < q + 1
      BY <3>2, <3>3, <2>2, <2>4
    <3>. HIDE DEF p, q
    <3>5. p < q
      BY <3>4
    <3>6. 2^l < 2^(b + 1)
      BY <3>5 DEF p, q
    <3>7. l < b + 1
      BY <3>1, <3>6, PowLess
    <3>. QED
      BY <3>1, <3>7
  <2>. QED
    BY <2>1, <2>2, <2>3, <2>4
<1>2. CASE ~ (k > 2)
  <2>1. bin(k) = 0
    BY <1>2 DEF bin
  <2>2. ASSUME NEW b \in Nat PROVE k < 2^(b + 1) + 1
    <3>1. 2^b \in Nat /\ 2^b >= 1 /\ 2^(b + 1) = 2^b + 2^b
      BY PowNat, PowStep
    <3>. DEFINE p == 2^b
                q == 2^(b + 1)
    <3>2. p \in Nat /\ p >= 1 /\ q = p + p
      BY <3>1
    <3>. HIDE DEF p, q
    <3>3. k < q + 1
      BY <3>2, <1>2
    <3>. QED
      BY <3>3 DEF q
  <2>. QED
    BY <2>1, <2>2
<1>. QED
  BY <1>1, <1>2

LEMMA BestSpec ==
  ASSUME NEW ints \in SUBSET Nat, IsFiniteSet(ints)
  PROVE  /\ bestasize(ints).asize \in Nat
         /\ bestasize(ints).narray = Cardinality({k \in ints : k < bestasize(ints).asize})
<1>. DEFINE below(b) == {k \in ints : bin(k) <= b}
            half == {b \in {bin(k) : k \in ints} : 2 * Cardinality(below(b)) > 2^b}
            best == Max(half)
            none == [narray |-> 0, asize |-> 0]
            some == [narray |-> Cardinality(below(best)), asize |-> 2^(best + 1) + 1]
<1>1. bestasize(ints) = IF half = {} THEN none ELSE some
  BY DEF bestasize
<1>2. CASE half = {}
  <2>1. bestasize(ints) = none
    BY <1>1, <1>2
  <2>2. none.asize = 0 /\ none.narray = 0
    OBVIOUS
  <2>3. {k \in ints : k < 0} = {}
    <3>1. \A k \in ints : ~ (k < 0)
      OBVIOUS
    <3>. QED
      BY <3>1
  <2>. QED
    BY <2>1, <2>2, <2>3, FS_EmptySet
<1>3. CASE half # {}
  <2>1. PICK z \in Nat : ints \in SUBSET (0..z)
    BY NatBounded
  <2>2. half \in SUBSET (0..z)
    <3>. SUFFICES ASSUME NEW k \in ints PROVE bin(k) \in 0..z
      OBVIOUS
    <3>1. k \in 0..z /\ k \in Nat
      BY <2>1
    <3>2. bin(k) \in 0..k
      BY <3>1, BinSpec
    <3>. QED
      BY <3>1, <3>2
  <2>. HIDE DEF half
  <2>3. best \in Nat
    <3>1. best \in 0..z
      BY <1>3, <2>2, MaxNat DEF IsMax
    <3>. QED
      BY <3>1
  <2>. HIDE DEF best
  <2>4. some.asize = 2^(best + 1) + 1 /\ some.narray = Cardinality(below(best))
    OBVIOUS
  <2>5. below(best) = {k \in ints : k < 2^(best + 1) + 1}
    <3>1. \A k \in ints : bin(k) <= best <=> k < 2^(best + 1) + 1
      BY <2>3, BinSpec
    <3>. QED
      BY <3>1
  <2>6. 2^(best + 1) \in Nat
    <3>1. best + 1 \in Nat
      BY <2>3
    <3>. QED
      BY <3>1, PowNat
  <2>7. 2^(best + 1) + 1 \in Nat
    <3>. DEFINE p == 2^(best + 1)
    <3>1. p \in Nat
      BY <2>6
    <3>. HIDE DEF p
    <3>2. p + 1 \in Nat
      BY <3>1
    <3>. QED
      BY <3>2 DEF p
  <2>8. bestasize(ints) = some
    BY <1>1, <1>3
  <2>. HIDE DEF some
  <2>. QED
    BY <2>4, <2>5, <2>7, <2>8
<1>. QED
  BY <1>2, <1>3
--------------------------------------------------------------------------------
(* Empty nodes, and how many are left. *)

Blank(node, hm) == DOMAIN node = 0..hm /\ \A i \in 0..hm : node[i] = NilNode

LEMMA BlankSound ==
  ASSUME NEW hm \in Nat, NEW mn \in [Keys -> 0..hm], NEW node, Blank(node, hm),
         node = [i \in 0..hm |-> node[i]]
  PROVE  Sound(node, hm, mn) /\ Live(node) = {} /\ NoneDead(node)
<1>. DEFINE D == 0..hm
            nx == Nx(node)
<1>1. NULL \notin D
  BY KeysAssumption
<1>2. DOMAIN node = D /\ \A i \in D : node[i].key = NULL /\ node[i].val = NULL /\ node[i].next = NULL
  BY DEF Blank, NilNode
<1>3. node \in [D -> Fields(D)]
  <2>1. \A i \in D : node[i] \in Fields(D)
    BY DEF Blank, NilNode, Fields
  <2>. QED
    BY <2>1
<1>4. DOMAIN nx = D /\ nx = [i \in D |-> NULL]
  BY <1>2 DEF Nx
<1>5. nx \in Links(D) /\ \A i \in D : nx[i] = NULL
  BY <1>4 DEF Links
<1>. HIDE DEF nx
<1>6. Linear(nx)
  <2>1. ASSUME NEW S \in SUBSET D, S # {} PROVE \E i \in S : nx[i] \notin S
    BY <2>1, <1>1, <1>5
  <2>. QED
    BY <2>1, <1>4, <1>5 DEF Linear
<1>7. \A i \in D : Isolated(nx, i)
  <2>1. ASSUME NEW i \in D PROVE nx[i] = NULL /\ \A j \in D : nx[j] # i
    BY <1>1, <1>5
  <2>. QED
    BY <2>1, <1>4 DEF Isolated
<1>8. Live(node) = {}
  BY <1>2 DEF Live
<1>9. Woven(node, hm)
  BY <1>1, <1>2, <1>5, <1>6 DEF Woven, nx
<1>10. Keyed(node, hm, mn)
  BY <1>2, <1>3, <1>8 DEF Keyed
<1>11. Spare(node)
  BY <1>2, <1>7 DEF Spare, nx
<1>12. NoneDead(node)
  BY <1>2 DEF NoneDead
<1>. QED
  BY <1>8, <1>9, <1>10, <1>11, <1>12 DEF Sound

LEMMA KeysFinite ==
  ASSUME NEW S \in SUBSET Keys
  PROVE  IsFiniteSet(S) /\ Cardinality(S) \in Nat /\ Cardinality(S) <= Cardinality(Keys)
         /\ Cardinality(Keys) \in Nat
<1>1. IsFiniteSet(Keys)
  BY KeysAssumption
<1>2. IsFiniteSet(S) /\ Cardinality(S) <= Cardinality(Keys)
  BY <1>1, FS_Subset
<1>. QED
  BY <1>1, <1>2, FS_CardinalityType

\* There is no live node more than there are nodes.
LEMMA LiveCount ==
  ASSUME NEW hm \in Nat, NEW node, NEW mn, Sound(node, hm, mn)
  PROVE  Cardinality(LiveKeys(node)) <= hm + 1
<1>. DEFINE L == Live(node)
            f == [i \in L |-> node[i].key]
<1>1. L \in SUBSET (0..hm)
  BY DEF Live, Sound, Woven
<1>2. IsFiniteSet(0..hm) /\ Cardinality(0..hm) = hm + 1
  BY FS_Interval
<1>3. IsFiniteSet(L) /\ Cardinality(L) <= hm + 1
  <2>. HIDE DEF L
  <2>. QED
    BY <1>1, <1>2, FS_Subset
<1>4. f \in Surjection(L, LiveKeys(node))
  BY DEF LiveKeys, Surjection
<1>5. Cardinality(LiveKeys(node)) <= Cardinality(L) /\ IsFiniteSet(LiveKeys(node))
  <2>. HIDE DEF L, f
  <2>. QED
    BY <1>3, <1>4, FS_Surjection
<1>6. Cardinality(L) \in Nat /\ Cardinality(LiveKeys(node)) \in Nat
  <2>. HIDE DEF L
  <2>. QED
    BY <1>3, <1>5, FS_CardinalityType
<1>. HIDE DEF L
<1>. QED
  BY <1>3, <1>5, <1>6

\* While no key is dead, another key of a set that is no larger than the hash
\* part has room.
LEMMA RoomLeft ==
  ASSUME NEW sd, NEW h, TabOk(sd, h), h.hmask # 0, NoneDead(h.node),
         NEW T \in SUBSET Keys, Cardinality(T) <= h.hmask + 1,
         LiveKeys(h.node) \subseteq T, NEW k \in T, k \notin LiveKeys(h.node)
  PROVE  Free(h) # {}
<1>. DEFINE hm == h.hmask
            node == h.node
            D == 0..hm
            f == [i \in D |-> node[i].key]
<1>. SUFFICES ASSUME Free(h) = {} PROVE FALSE
  OBVIOUS
<1>1. /\ hm \in Nat /\ h.freetop \in 0..(hm + 1) /\ DOMAIN node = D
      /\ \A i \in h.freetop..hm : node[i].key # NULL
      /\ \A i, j \in Live(node) : node[i].key = node[j].key => i = j
  BY DEF TabOk, FreeRule, Sound, Woven, Keyed
<1>2. \A i \in D : node[i].key # NULL
  <2>1. \A i \in 0..(h.freetop - 1) : node[i].key # NULL
    BY DEF Free
  <2>2. \A i \in D : i \in 0..(h.freetop - 1) \/ i \in h.freetop..hm
    BY <1>1
  <2>. QED
    BY <1>1, <2>1, <2>2
<1>3. \A i \in D : i \in Live(node)
  BY <1>1, <1>2 DEF NoneDead, Live
<1>4. f \in Injection(D, T \ {k})
  <2>1. \A i \in D : node[i].key \in T \ {k}
    BY <1>3 DEF LiveKeys
  <2>2. f \in [D -> T \ {k}]
    BY <2>1
  <2>3. \A i, j \in D : f[i] = f[j] => i = j
    BY <1>1, <1>3
  <2>. HIDE DEF D, f
  <2>. QED
    BY <2>2, <2>3 DEF Injection, IsInjective
<1>5. IsFiniteSet(T) /\ Cardinality(T) \in Nat
  BY KeysFinite
<1>6. IsFiniteSet(T \ {k}) /\ Cardinality(T \ {k}) = Cardinality(T) - 1
  BY <1>5, FS_RemoveElement
<1>7. Cardinality(D) = hm + 1
  BY <1>1, FS_Interval
<1>8. Cardinality(D) <= Cardinality(T \ {k})
  <2>. HIDE DEF D, f
  <2>. QED
    BY <1>4, <1>6, FS_Injection
<1>. HIDE DEF hm, D
<1>9. hm + 1 <= Cardinality(T) - 1 /\ Cardinality(T) <= hm + 1
  BY <1>6, <1>7, <1>8 DEF hm
<1>. QED
  BY <1>1, <1>5, <1>9

\* A table whose nodes are empty.
LEMMA BlankOk ==
  ASSUME SidOk, NEW h, HasShape(h), h.asize \in Nat, h.hmask \in Nat,
         h.array \in [0..(h.asize - 1) -> Ints \cup {NULL}],
         \A i \in 0..(h.asize - 1) : h.array[i] \in {i, NULL},
         Blank(h.node, h.hmask), h.node = [i \in 0..h.hmask |-> h.node[i]],
         h.freetop = IF h.hmask = 0 THEN 0 ELSE h.hmask + 1
  PROVE  TabOk(sid, h) /\ LiveKeys(h.node) = {} /\ NoneDead(h.node)
<1>. DEFINE mn == Mains(sid, h.hmask)
<1>1. mn \in [Keys -> 0..h.hmask]
  BY MainsType DEF SidOk
<1>. HIDE DEF mn
<1>2. Sound(h.node, h.hmask, mn) /\ Live(h.node) = {} /\ NoneDead(h.node)
  BY <1>1, BlankSound
<1>3. h.hmask = 0 => h.node[0] = NilNode
  BY DEF Blank
<1>4. FreeRule(h.node, h.hmask, h.hmask + 1)
  BY DEF FreeRule
<1>5. LiveKeys(h.node) = {}
  BY <1>2 DEF LiveKeys
<1>. QED
  BY <1>2, <1>3, <1>4, <1>5 DEF TabOk, mn
--------------------------------------------------------------------------------
(* Moving to new parts. *)

\* The keys that are not for an array part of size a.
Outside(S, a) == {k \in S : ~ (k \in Ints /\ k < a)}

\* A slot that is not empty holds a key of the table under itself.
LEMMA SlotSpec ==
  ASSUME NEW sd, NEW h, TabOk(sd, h), NEW i \in Slots(h)
  PROVE  /\ slot(h, i).val \in {NULL, slot(h, i).key}
         /\ slot(h, i).val # NULL => slot(h, i).key \in Contents(h)
<1>1. /\ h.asize \in Nat /\ h.hmask \in Nat /\ DOMAIN h.node = 0..h.hmask
      /\ \A j \in 0..(h.asize - 1) : h.array[j] \in {j, NULL}
      /\ \A j \in 0..h.hmask : h.node[j].val \in {NULL, h.node[j].key}
  BY DEF TabOk, Sound, Woven, Keyed
<1>2. CASE i < h.asize
  <2>1. i \in 0..(h.asize - 1)
    BY <1>1, <1>2 DEF Slots
  <2>2. slot(h, i).key = i /\ slot(h, i).val = h.array[i]
    BY <1>2 DEF slot
  <2>. QED
    BY <1>1, <2>1, <2>2 DEF Contents, ArrayKeys
<1>3. CASE ~ (i < h.asize)
  <2>. DEFINE j == i - h.asize
  <2>1. j \in 0..h.hmask
    BY <1>1, <1>3 DEF Slots
  <2>2. slot(h, i).key = h.node[j].key /\ slot(h, i).val = h.node[j].val
    BY <1>3 DEF slot
  <2>. HIDE DEF j
  <2>. QED
    BY <1>1, <2>1, <2>2 DEF Contents, LiveKeys, Live
<1>. QED
  BY <1>2, <1>3

\* Every key of the table is in a slot.
LEMMA SlotOf ==
  ASSUME NEW sd, NEW h, TabOk(sd, h), NEW k \in Contents(h)
  PROVE  \E i \in Slots(h) : /\ slot(h, i).key = k /\ slot(h, i).val # NULL
                             /\ i >= h.asize => h.hmask > 0
                             /\ k \in ArrayKeys(h) => i = k
                             /\ k \notin ArrayKeys(h) => i >= h.asize
<1>1. /\ h.asize \in Nat /\ h.hmask \in Nat /\ DOMAIN h.node = 0..h.hmask
      /\ h.hmask = 0 => h.node[0] = NilNode
  BY DEF TabOk, Sound, Woven
<1>2. CASE k \in ArrayKeys(h)
  <2>1. k \in 0..(h.asize - 1) /\ h.array[k] # NULL
    BY <1>2 DEF ArrayKeys
  <2>2. k \in Slots(h) /\ k < h.asize
    BY <1>1, <2>1 DEF Slots
  <2>3. slot(h, k).key = k /\ slot(h, k).val = h.array[k]
    BY <2>2 DEF slot
  <2>. QED
    BY <1>1, <1>2, <2>1, <2>2, <2>3
<1>3. CASE k \notin ArrayKeys(h)
  <2>1. PICK j \in Live(h.node) : h.node[j].key = k
    BY <1>3 DEF Contents, LiveKeys
  <2>2. j \in 0..h.hmask /\ h.node[j].val # NULL
    BY <1>1, <2>1 DEF Live
  <2>3. h.hmask > 0
    <3>. SUFFICES ASSUME h.hmask = 0 PROVE FALSE
      BY <1>1
    <3>. QED
      BY <1>1, <2>2 DEF NilNode
  <2>. DEFINE i == h.asize + j
  <2>4. i \in Slots(h) /\ i >= h.asize /\ ~ (i < h.asize) /\ i - h.asize = j
    BY <1>1, <2>2 DEF Slots
  <2>5. slot(h, i).key = h.node[j].key /\ slot(h, i).val = h.node[j].val
    BY <2>4 DEF slot
  <2>. HIDE DEF i
  <2>. QED
    BY <1>3, <2>1, <2>2, <2>3, <2>4, <2>5
<1>. QED
  BY <1>2, <1>3

LEMMA SlotKeys ==
  ASSUME NEW sd, NEW h, TabOk(sd, h)
  PROVE  {slot(h, i).key : i \in {j \in Slots(h) : slot(h, j).val # NULL}} = Contents(h)
<1>. DEFINE S == {slot(h, i).key : i \in {j \in Slots(h) : slot(h, j).val # NULL}}
<1>1. \A k \in S : k \in Contents(h)
  BY SlotSpec
<1>2. \A k \in Contents(h) : \E i \in Slots(h) : slot(h, i).key = k /\ slot(h, i).val # NULL
  BY SlotOf
<1>. QED
  BY <1>1, <1>2
--------------------------------------------------------------------------------
\* The tables on the way to one with parts of new sizes.
Tables(a, hm) ==
  [asize : {a}, array : [0..(a - 1) -> Ints \cup {NULL}], hmask : {hm},
   node : [0..hm -> Fields(0..hm)], freetop : 0..(hm + 1)]
OnTheWay(h, a, hm) ==
  {g \in Tables(a, hm) : TabOk(sid, g) /\ NoneDead(g.node) /\ Contents(g) \subseteq Contents(h)}

LEMMA InTables ==
  ASSUME NEW sd, NEW g, TabOk(sd, g)
  PROVE  g \in Tables(g.asize, g.hmask)
<1>1. /\ HasShape(g) /\ g.array \in [0..(g.asize - 1) -> Ints \cup {NULL}]
      /\ g.node \in [0..g.hmask -> Fields(0..g.hmask)]
  BY DEF TabOk, Sound, Keyed
<1>2. g.freetop \in 0..(g.hmask + 1)
  BY DEF TabOk, FreeRule
<1>. QED
  BY <1>1, <1>2 DEF HasShape, Tables

\* An entry moves.
LEMMA EntryMoves ==
  ASSUME SidOk, NEW h, TabOk(sid, h), NEW a \in Nat, NEW hm \in Nat,
         NEW T \in SUBSET Keys, Outside(Contents(h), a) \subseteq T,
         Cardinality(T) <= hm + 1, hm = 0 => T = {},
         NEW g \in OnTheWay(h, a, hm), NEW k \in Contents(h)
  PROVE  Stored(sid, g, k, k, Store(g, k, k)) /\ Store(g, k, k) \in OnTheWay(h, a, hm)
<1>1. TabOk(sid, g) /\ NoneDead(g.node) /\ Contents(g) \subseteq Contents(h)
      /\ g.asize = a /\ g.hmask = hm
  BY DEF OnTheWay, Tables
<1>2. k \in Keys /\ k # NULL
  BY ContentsKeys, KeysAssumption
<1>3. HasRoom(g, k)
  <2>1. CASE inarray(g, k)
    BY <2>1 DEF HasRoom
  <2>2. CASE ~ inarray(g, k) /\ k \in Contents(g)
    <3>1. Get(g, k) = k
      BY <1>1, <1>2, <2>2, GetSpec
    <3>2. Lookup(g, k) # NULL
      BY <1>2, <2>2, <3>1 DEF Get
    <3>. QED
      BY <3>2 DEF HasRoom
  <2>3. CASE ~ inarray(g, k) /\ k \notin Contents(g)
    <3>1. k \in T
      BY <1>1, <2>3 DEF Outside, inarray
    <3>2. \A x \in LiveKeys(g.node) : x \in T
      <4>1. \A x \in LiveKeys(g.node) : ~ inarray(g, x)
        BY <1>1, ContentsKeys
      <4>. QED
        BY <1>1, <4>1 DEF Contents, Outside, inarray
    <3>3. k \notin LiveKeys(g.node) /\ g.hmask # 0
      BY <1>1, <2>3, <3>1 DEF Contents
    <3>4. Free(g) # {}
      BY <1>1, <3>1, <3>2, <3>3, RoomLeft
    <3>. QED
      BY <3>4 DEF HasRoom
  <2>. QED
    BY <2>1, <2>2, <2>3
<1>. DEFINE e == Store(g, k, k)
<1>4. Stored(sid, g, k, k, e)
  BY <1>1, <1>2, <1>3, StoreSpec
<1>. HIDE DEF e
<1>5. TabOk(sid, e) /\ e.asize = a /\ e.hmask = hm /\ NoneDead(e.node)
      /\ Contents(e) = Contents(g) \cup {k}
  BY <1>1, <1>2, <1>4 DEF Stored, Changed
<1>6. e \in Tables(a, hm)
  BY <1>5, InTables
<1>7. e \in OnTheWay(h, a, hm)
  BY <1>1, <1>5, <1>6 DEF OnTheWay
<1>. QED
  BY <1>4, <1>7 DEF e
--------------------------------------------------------------------------------
Resized(sd, h, a, hm, g) ==
  /\ TabOk(sd, g) /\ NoneDead(g.node) /\ g.asize = a /\ g.hmask = hm
  /\ Contents(g) = Contents(h)

LEMMA ResizeSpec ==
  ASSUME SidOk, NEW h, TabOk(sid, h), NEW asize \in Nat, NEW hbits \in Nat,
         NEW T \in SUBSET Keys, Outside(Contents(h), asize) \subseteq T,
         Cardinality(T) <= 2^hbits, hbits = 0 => T = {}
  PROVE  Resized(sid, h, asize, 2^hbits - 1, resize(h, asize, hbits))
<1>. DEFINE hm == 2^hbits - 1
            N == h.asize + h.hmask + 1
            H == OnTheWay(h, asize, hm)
            array == [i \in 0..(asize - 1) |-> IF i < h.asize THEN h.array[i] ELSE NULL]
            moves(i) == /\ i >= IF asize < h.asize THEN asize ELSE h.asize
                        /\ i >= h.asize => h.hmask > 0
                        /\ slot(h, i).val # NULL
            start == [NewTab(asize, hbits) EXCEPT !.array = array]
            go(i, g) == IF moves(i - 1) THEN Store(g, slot(h, i - 1).key, slot(h, i - 1).val)
                        ELSE g
            Pass(e) == [i \in 0..N |-> IF i = 0 THEN start ELSE go(i, e[i - 1])]
            move == CHOOSE e : e = Pass(e)
<1>1. resize(h, asize, hbits) = move[N]
  BY DEF resize
<1>2. /\ hm \in Nat /\ Cardinality(T) <= hm + 1 /\ (hm = 0 => T = {})
  <2>. DEFINE q == 2^hbits
              c == Cardinality(T)
  <2>1. q \in Nat /\ q >= 1 /\ c <= q
    BY PowNat
  <2>2. hbits # 0 => q > 1
    <3>. SUFFICES ASSUME hbits # 0 PROVE q > 1
      OBVIOUS
    <3>1. q > hbits
      BY PowGreater
    <3>. HIDE DEF q
    <3>. QED
      BY <2>1, <3>1
  <2>3. c \in Nat
    BY KeysFinite
  <2>. HIDE DEF q, c
  <2>4. q - 1 \in Nat /\ c <= (q - 1) + 1 /\ (q - 1 = 0 => hbits = 0)
    BY <2>1, <2>2, <2>3
  <2>. QED
    BY <2>4 DEF q, c
<1>3. /\ h.asize \in Nat /\ h.hmask \in Nat /\ N \in Nat
      /\ \A i \in 0..(h.asize - 1) : h.array[i] \in {i, NULL} /\ h.array[i] \in Ints \cup {NULL}
  BY DEF TabOk
<1>4. /\ start \in H
      /\ \A k \in ArrayKeys(h) : k < asize => k \in Contents(start)
  <2>1. /\ HasShape(start) /\ start.asize = asize /\ start.array = array
        /\ start.hmask = hm /\ start.node = [i \in 0..hm |-> NilNode]
        /\ start.freetop = IF hbits = 0 THEN 0 ELSE 2^hbits
    <3>. DEFINE node == [i \in 0..hm |-> NilNode]
                ft == IF hbits = 0 THEN 0 ELSE 2^hbits
                old == [i \in 0..(asize - 1) |-> NULL]
                new == [asize |-> asize, array |-> old, hmask |-> hm, node |-> node, freetop |-> ft]
    <3>1. NewTab(asize, hbits) = new
      BY DEF NewTab, HashPart
    <3>2. start = [new EXCEPT !.array = array]
      BY <3>1
    <3>. HIDE DEF hm, node, ft, old, array, start
    <3>3. start = [asize |-> asize, array |-> array, hmask |-> hm, node |-> node, freetop |-> ft]
      BY <3>2
    <3>4. HasShape(start) /\ start.asize = asize /\ start.array = array
          /\ start.hmask = hm /\ start.node = node /\ start.freetop = ft
      BY <3>3 DEF HasShape
    <3>. QED
      BY <3>4 DEF node, ft
  <2>2. start.freetop = IF hm = 0 THEN 0 ELSE hm + 1
    <3>1. hbits = 0 => 2^hbits = 1
      OBVIOUS
    <3>2. hbits # 0 => 2^hbits > hbits
      BY PowGreater
    <3>. DEFINE q == 2^hbits
    <3>3. /\ q \in Nat /\ (hbits = 0 => q = 1) /\ (hbits # 0 => q > hbits) /\ hm = q - 1
          /\ start.freetop = IF hbits = 0 THEN 0 ELSE q
      BY <2>1, <3>1, <3>2, PowNat
    <3>. HIDE DEF q, hm, start
    <3>. QED
      BY <3>3
  <2>3. /\ array \in [0..(asize - 1) -> Ints \cup {NULL}]
        /\ \A i \in 0..(asize - 1) : array[i] = IF i < h.asize THEN h.array[i] ELSE NULL
    <3>1. \A i \in 0..(asize - 1) : i < h.asize => i \in 0..(h.asize - 1)
      BY <1>3
    <3>. QED
      BY <1>3, <3>1
  <2>4. \A i \in 0..(asize - 1) : array[i] \in {i, NULL}
    <3>1. \A i \in 0..(asize - 1) : i < h.asize => i \in 0..(h.asize - 1)
      BY <1>3
    <3>. QED
      BY <1>3, <2>3, <3>1
  <2>. HIDE DEF array, start, hm
  <2>5. Blank(start.node, hm) /\ start.node = [i \in 0..hm |-> start.node[i]]
    BY <2>1 DEF Blank
  <2>6. TabOk(sid, start) /\ LiveKeys(start.node) = {} /\ NoneDead(start.node)
    BY <1>2, <2>1, <2>2, <2>3, <2>4, <2>5, BlankOk
  <2>7. Contents(start) = {i \in 0..(asize - 1) : array[i] # NULL}
    BY <2>1, <2>6 DEF Contents, ArrayKeys
  <2>8. \A k \in Contents(start) : k \in Contents(h)
    <3>1. \A i \in 0..(asize - 1) : i < h.asize => i \in 0..(h.asize - 1)
      BY <1>3
    <3>. QED
      BY <2>3, <2>7, <3>1 DEF Contents, ArrayKeys
  <2>9. start \in Tables(asize, hm)
    BY <2>1, <2>6, InTables
  <2>10. \A k \in ArrayKeys(h) : k < asize => k \in Contents(start)
    <3>1. \A k \in ArrayKeys(h) : k < asize => k \in 0..(asize - 1) /\ k < h.asize /\ h.array[k] # NULL
      BY <1>3 DEF ArrayKeys
    <3>. QED
      BY <2>3, <2>7, <3>1
  <2>. QED
    BY <2>6, <2>8, <2>9, <2>10 DEF OnTheWay
<1>. HIDE DEF hm, array, start
<1>5. ASSUME NEW i \in 1..N, NEW g \in H
      PROVE  /\ go(i, g) \in H
             /\ Contents(g) \subseteq Contents(go(i, g))
             /\ moves(i - 1) => slot(h, i - 1).key \in Contents(go(i, g))
  <2>1. CASE moves(i - 1)
    <3>. DEFINE k == slot(h, i - 1).key
    <3>1. i - 1 \in Slots(h)
      BY <1>3 DEF Slots
    <3>2. slot(h, i - 1).val = k /\ k \in Contents(h)
      BY <2>1, <3>1, SlotSpec
    <3>. HIDE DEF k, H
    <3>3. go(i, g) = Store(g, k, k)
      BY <2>1, <3>2 DEF k
    <3>4. Stored(sid, g, k, k, Store(g, k, k)) /\ Store(g, k, k) \in H
      <4>. DEFINE U == OnTheWay(h, asize, hm)
      <4>1. g \in U /\ hm \in Nat /\ Cardinality(T) <= hm + 1 /\ (hm = 0 => T = {})
        BY <1>2 DEF H
      <4>2. Stored(sid, g, k, k, Store(g, k, k)) /\ Store(g, k, k) \in U
        BY <3>2, <4>1, EntryMoves
      <4>. QED
        BY <4>2 DEF H
    <3>5. k # NULL
      BY <3>2, ContentsKeys, KeysAssumption
    <3>6. Contents(Store(g, k, k)) = Contents(g) \cup {k}
      BY <3>4, <3>5 DEF Stored, Changed
    <3>7. slot(h, i - 1).key = k
      BY DEF k
    <3>. QED
      BY <3>3, <3>4, <3>6, <3>7
  <2>2. CASE ~ moves(i - 1)
    <3>. HIDE DEF moves, H
    <3>. QED
      BY <2>2
  <2>. QED
    BY <2>1, <2>2
<1>. HIDE DEF H, moves, go
<1>6. \E e : e = Pass(e) /\ e \in [0..N -> H]
  <2>. DEFINE st == [z \in (1..N) \X H |-> go(z[1], z[2])]
  <2>1. st \in [(1..N) \X H -> H]
    BY <1>5
  <2>2. PICK e : Repeats(e, N, H, st, start)
    <3>. HIDE DEF st, N
    <3>. QED
      BY <1>3, <1>4, <2>1, Repeated
  <2>3. e \in [0..N -> H] /\ e[0] = start /\ \A i \in 1..N : e[i] = st[<<i, e[i - 1]>>]
    BY <2>2 DEF Repeats
  <2>4. \A i \in 1..N : e[i] = go(i, e[i - 1])
    <3>. SUFFICES ASSUME NEW i \in 1..N PROVE e[i] = go(i, e[i - 1])
      OBVIOUS
    <3>1. i - 1 \in 0..N
      BY <1>3
    <3>2. e[i - 1] \in H
      BY <2>3, <3>1
    <3>. QED
      BY <2>3, <3>2
  <2>5. \A i \in 0..N : e[i] = IF i = 0 THEN start ELSE go(i, e[i - 1])
    <3>1. \A i \in 0..N : i # 0 => i \in 1..N
      BY <1>3
    <3>. QED
      BY <2>3, <2>4, <3>1
  <2>6. e = Pass(e)
    BY <2>3, <2>5
  <2>. QED
    BY <2>3, <2>6
<1>7. move = Pass(move)
  <2>. HIDE DEF Pass
  <2>. QED
    BY <1>6
<1>. HIDE DEF move
<1>8. /\ move[0] = start
      /\ \A i \in 1..N : move[i] = go(i, move[i - 1])
  <2>1. \A i \in 0..N : move[i] = IF i = 0 THEN start ELSE go(i, move[i - 1])
    BY <1>7
  <2>2. 0 \in 0..N /\ \A i \in 1..N : i \in 0..N /\ i # 0
    BY <1>3
  <2>. QED
    BY <2>1, <2>2
\* What has moved after slot i - 1 was looked at.
<1>. DEFINE Kept(i) == /\ move[i] \in H
                       /\ \A k \in ArrayKeys(h) : k < asize => k \in Contents(move[i])
                       /\ \A j \in 0..(i - 1) : moves(j) => slot(h, j).key \in Contents(move[i])
            Q == {i \in Nat : i <= N => Kept(i)}
<1>9. 0 \in Q
  BY <1>4, <1>8
<1>10. ASSUME NEW i \in Nat, i \in Q PROVE i + 1 \in Q
  <2>. SUFFICES ASSUME i + 1 <= N PROVE Kept(i + 1)
    OBVIOUS
  <2>1. Kept(i) /\ i + 1 \in 1..N /\ (i + 1) - 1 = i
    BY <1>3, <1>10
  <2>. DEFINE g == move[i]
              e == move[i + 1]
  <2>2. e = go(i + 1, g)
    BY <1>8, <2>1
  <2>3. /\ e \in H /\ Contents(g) \subseteq Contents(e)
        /\ moves(i) => slot(h, i).key \in Contents(e)
    BY <1>5, <2>1, <2>2
  <2>4. \A j \in 0..((i + 1) - 1) : j = i \/ j \in 0..(i - 1)
    OBVIOUS
  <2>5. \A j \in 0..((i + 1) - 1) : moves(j) => slot(h, j).key \in Contents(e)
    BY <2>1, <2>3, <2>4
  <2>. HIDE DEF N
  <2>. QED
    BY <2>1, <2>3, <2>5
<1>11. Kept(N)
  <2>1. \A i \in Nat : i \in Q
    <3>. HIDE DEF Q
    <3>. QED
      BY <1>9, <1>10, SetInduction
  <2>. QED
    BY <1>3, <2>1
<1>. DEFINE g == move[N]
<1>12. /\ TabOk(sid, g) /\ NoneDead(g.node) /\ Contents(g) \subseteq Contents(h)
       /\ g.asize = asize /\ g.hmask = hm
  BY <1>11 DEF H, OnTheWay, Tables
<1>13. ASSUME NEW k \in Contents(h) PROVE k \in Contents(g)
  <2>1. CASE k \in ArrayKeys(h) /\ k < asize
    BY <1>11, <2>1
  <2>2. CASE ~ (k \in ArrayKeys(h) /\ k < asize)
    <3>1. PICK i \in Slots(h) : /\ slot(h, i).key = k /\ slot(h, i).val # NULL
                                /\ i >= h.asize => h.hmask > 0
                                /\ k \in ArrayKeys(h) => i = k
                                /\ k \notin ArrayKeys(h) => i >= h.asize
      BY SlotOf
    <3>2. i >= IF asize < h.asize THEN asize ELSE h.asize
      <4>1. CASE k \in ArrayKeys(h)
        <5>1. i = k /\ ~ (k < asize) /\ k \in Nat
          BY <2>2, <3>1, <4>1 DEF ArrayKeys
        <5>2. k < h.asize
          BY <1>3, <4>1 DEF ArrayKeys
        <5>. QED
          BY <1>3, <5>1, <5>2
      <4>2. CASE k \notin ArrayKeys(h)
        BY <1>3, <3>1, <4>2 DEF Slots
      <4>. QED
        BY <4>1, <4>2
    <3>3. moves(i)
      BY <3>1, <3>2 DEF moves
    <3>4. i \in 0..(N - 1)
      BY <1>3 DEF Slots
    <3>. QED
      BY <1>11, <3>1, <3>3, <3>4
  <2>. QED
    BY <2>1, <2>2
<1>14. Resized(sid, h, asize, hm, g)
  <2>. HIDE DEF g
  <2>. QED
    BY <1>12, <1>13 DEF Resized
<1>. QED
  BY <1>1, <1>14 DEF hm
--------------------------------------------------------------------------------
(* Making room, and assignments. *)

\* A size that the code gives the hash part.
Sized(hm) == \E b \in HBITS \cup 0..(1 + fls(Cardinality(Keys))) : hm = 2^b - 1

\* What rehashtab leaves: the entries are there, and there is room for key k.
Rehashed(sd, h, k, g) ==
  /\ TabOk(sd, g) /\ Contents(g) = Contents(h) /\ Sized(g.hmask) /\ HasRoom(g, k)

LEMMA RehashSpec ==
  ASSUME SidOk, NEW h, TabOk(sid, h), NEW k \in Keys, k \notin Contents(h)
  PROVE  Rehashed(sid, h, k, rehashtab(h, k))
<1>. DEFINE C == Contents(h)
            X == C \cup {k}
            best == bestasize(X \cap Ints)
            a == best.asize
            A == {i \in X \cap Ints : i < a}
            T == Outside(X, a)
            s == 1 + Cardinality(C) - best.narray
            hb == hsize2hbits(s)
            hm == 2^hb - 1
            g == resize(h, a, hb)
<1>1. rehashtab(h, k) = g
  <2>. DEFINE keys == {slot(h, i).key : i \in {j \in Slots(h) : slot(h, j).val # NULL}}
  <2>1. keys = C
    BY SlotKeys
  <2>. DEFINE old == bestasize((keys \cup {k}) \cap Ints)
  <2>2. rehashtab(h, k) = resize(h, old.asize, hsize2hbits(1 + Cardinality(keys) - old.narray))
    BY DEF rehashtab
  <2>. HIDE DEF keys, C
  <2>. QED
    BY <2>1, <2>2
<1>2. C \in SUBSET Keys /\ X \in SUBSET Keys
  BY ContentsKeys
<1>3. /\ IsFiniteSet(C) /\ Cardinality(C) \in Nat
      /\ IsFiniteSet(X) /\ Cardinality(X) = Cardinality(C) + 1
  <2>. HIDE DEF C
  <2>1. IsFiniteSet(C) /\ Cardinality(C) \in Nat
    BY <1>2, KeysFinite
  <2>2. k \notin C
    BY DEF C
  <2>. QED
    BY <2>1, <2>2, FS_AddElement
<1>. HIDE DEF C
<1>4. a \in Nat /\ best.narray = Cardinality(A)
  <2>1. X \cap Ints \in SUBSET Nat
    BY KeysAssumption
  <2>2. IsFiniteSet(X \cap Ints)
    BY <1>3, FS_Intersection
  <2>. HIDE DEF X
  <2>. QED
    BY <2>1, <2>2, BestSpec
<1>. HIDE DEF a, best
<1>5. T = X \ A /\ X \cap A = A /\ A \in SUBSET X /\ T \in SUBSET Keys
  <2>1. T = X \ A
    BY DEF Outside
  <2>. QED
    BY <1>2, <2>1
<1>6. Cardinality(T) = Cardinality(X) - Cardinality(A)
  <2>1. Cardinality(X \ A) = Cardinality(X) - Cardinality(X \cap A)
    <3>. HIDE DEF X, A
    <3>. QED
      BY <1>3, FS_Difference
  <2>. HIDE DEF T, X, A
  <2>. QED
    BY <1>5, <2>1
<1>7. /\ Cardinality(T) \in Nat /\ Cardinality(T) <= Cardinality(Keys)
      /\ Cardinality(Keys) \in Nat /\ IsFiniteSet(T)
  <2>. HIDE DEF T
  <2>. QED
    BY <1>5, KeysFinite
<1>8. s = Cardinality(T)
  <2>1. Cardinality(A) \in Nat
    <3>. HIDE DEF A, X
    <3>. QED
      BY <1>3, <1>5, FS_Subset, FS_CardinalityType
  <2>2. s = 1 + Cardinality(C) - Cardinality(A)
    BY <1>4
  <2>. HIDE DEF s, A, T, X
  <2>. QED
    BY <1>3, <1>6, <2>1, <2>2
<1>. HIDE DEF s
<1>9. Cardinality(Keys) \in Nat \ {0}
  <2>1. IsFiniteSet(Keys) /\ Keys # {}
    BY KeysAssumption
  <2>. QED
    BY <1>7, <2>1, FS_EmptySet
<1>10. /\ hb \in Nat /\ s <= 2^hb /\ (hb = 0 => s = 0)
       /\ hb \in 0..(1 + fls(Cardinality(Keys)))
  <2>1. s \in Nat /\ s <= Cardinality(Keys)
    BY <1>7, <1>8
  <2>. QED
    BY <1>9, <2>1, HbitsSpec
<1>. HIDE DEF hb
<1>11. Cardinality(T) <= 2^hb /\ (hb = 0 => T = {}) /\ Outside(Contents(h), a) \subseteq T
  <2>1. hb = 0 => T = {}
    <3>. HIDE DEF T
    <3>. QED
      BY <1>7, <1>8, <1>10, FS_EmptySet
  <2>2. Outside(Contents(h), a) \subseteq T
    BY DEF Outside, C
  <2>. QED
    BY <1>8, <1>10, <2>1, <2>2
<1>12. Resized(sid, h, a, hm, g)
  <2>. HIDE DEF T, g
  <2>1. Resized(sid, h, a, 2^hb - 1, resize(h, a, hb))
    BY <1>4, <1>5, <1>10, <1>11, ResizeSpec
  <2>. QED
    BY <2>1 DEF g
<1>. HIDE DEF g
<1>13. TabOk(sid, g) /\ NoneDead(g.node) /\ g.asize = a /\ g.hmask = hm /\ Contents(g) = C
  BY <1>12 DEF Resized, C
<1>14. HasRoom(g, k)
  <2>1. CASE inarray(g, k)
    BY <2>1 DEF HasRoom
  <2>2. CASE ~ inarray(g, k)
    <3>1. k \in T
      BY <1>13, <2>2 DEF Outside, inarray
    <3>2. \A x \in LiveKeys(g.node) : x \in T
      <4>1. \A x \in LiveKeys(g.node) : ~ inarray(g, x) /\ x \in C
        BY <1>13, ContentsKeys DEF Contents
      <4>. QED
        BY <1>13, <4>1 DEF Outside, inarray
    <3>3. k \notin LiveKeys(g.node)
      BY <1>13 DEF Contents, C
    <3>4. hm # 0 /\ Cardinality(T) <= hm + 1
      <4>1. hb # 0
        BY <3>1, <1>11
      <4>2. 2^hb > hb /\ 2^hb \in Nat
        BY <1>10, PowGreater, PowNat
      <4>. DEFINE q == 2^hb
                  c == Cardinality(T)
      <4>3. q \in Nat /\ q > hb /\ c <= q /\ c \in Nat /\ hm = q - 1
        BY <4>2, <1>7, <1>11
      <4>. HIDE DEF q, c, hm
      <4>4. hm # 0 /\ c <= hm + 1
        BY <4>1, <4>3, <1>10
      <4>. QED
        BY <4>4 DEF c
    <3>. HIDE DEF T, hm
    <3>5. Free(g) # {}
      BY <1>5, <1>13, <3>1, <3>2, <3>3, <3>4, RoomLeft
    <3>. QED
      BY <3>5 DEF HasRoom
  <2>. QED
    BY <2>1, <2>2
<1>15. Sized(g.hmask)
  BY <1>10, <1>13 DEF Sized
<1>. QED
  BY <1>1, <1>13, <1>14, <1>15 DEF Rehashed, C

\* An assignment.
Assigned(sd, h, k, v, g) ==
  /\ TabOk(sd, g) /\ Sized(g.hmask) /\ Contents(g) = Changed(Contents(h), k, v)

LEMMA PutSpec ==
  ASSUME SidOk, NEW h, TabOk(sid, h), Sized(h.hmask), NEW k \in Keys, NEW v \in {k, NULL}
  PROVE  Assigned(sid, h, k, v, Put(h, k, v))
<1>1. CASE HasRoom(h, k)
  <2>1. Stored(sid, h, k, v, Store(h, k, v))
    BY <1>1, StoreSpec
  <2>2. Put(h, k, v) = Store(h, k, v)
    BY <1>1 DEF Put
  <2>. QED
    BY <2>1, <2>2 DEF Stored, Assigned
<1>2. CASE ~ HasRoom(h, k)
  <2>. DEFINE g == rehashtab(h, k)
  <2>1. k \notin Contents(h)
    <3>1. k # NULL /\ ~ inarray(h, k) /\ Lookup(h, k) = NULL
      BY <1>2, KeysAssumption DEF HasRoom
    <3>2. Get(h, k) = NULL
      BY <3>1 DEF Get
    <3>. QED
      BY <3>1, <3>2, GetSpec
  <2>2. Rehashed(sid, h, k, g)
    BY <2>1, RehashSpec
  <2>3. Put(h, k, v) = Store(g, k, v)
    BY <1>2 DEF Put
  <2>. HIDE DEF g
  <2>4. Stored(sid, g, k, v, Store(g, k, v))
    BY <2>2, StoreSpec DEF Rehashed
  <2>. QED
    BY <2>2, <2>3, <2>4 DEF Rehashed, Stored, Assigned
<1>. QED
  BY <1>1, <1>2

\* lj_tab_reasize.
LEMMA ReasizeSpec ==
  ASSUME SidOk, NEW h, TabOk(sid, h), Sized(h.hmask), NEW n \in Nat, n + 1 > h.asize
  PROVE  Resized(sid, h, n + 1, h.hmask,
                 resize(h, n + 1, IF h.hmask > 0 THEN fls(h.hmask) + 1 ELSE 0))
<1>. DEFINE b == IF h.hmask > 0 THEN fls(h.hmask) + 1 ELSE 0
            T == LiveKeys(h.node)
<1>1. /\ h.asize \in Nat /\ h.hmask \in Nat /\ DOMAIN h.node = 0..h.hmask
      /\ h.hmask = 0 => h.node[0] = NilNode
      /\ Sound(h.node, h.hmask, Mains(sid, h.hmask))
  BY DEF TabOk, Sound, Woven
<1>2. b \in Nat /\ h.hmask = 2^b - 1
  <2>1. CASE h.hmask > 0
    <3>1. PICK c \in HBITS \cup 0..(1 + fls(Cardinality(Keys))) : h.hmask = 2^c - 1
      BY DEF Sized
    <3>2. c \in Nat
      BY KeysAssumption
    <3>3. fls(2^c - 1) + 1 = c
      BY <2>1, <3>1, <3>2, FlsPow
    <3>4. b = c
      BY <2>1, <3>1, <3>3
    <3>. QED
      BY <3>1, <3>2, <3>4
  <2>2. CASE ~ (h.hmask > 0)
    <3>1. b = 0 /\ h.hmask = 0 /\ 2^0 = 1
      BY <1>1, <2>2
    <3>. QED
      BY <3>1
  <2>. QED
    BY <2>1, <2>2
<1>3. T \in SUBSET Keys /\ Cardinality(T) <= h.hmask + 1
  BY <1>1, ContentsKeys, LiveCount
<1>4. Outside(Contents(h), n + 1) \subseteq T
  <2>1. \A k \in ArrayKeys(h) : k \in Ints /\ k < n + 1
    <3>1. \A k \in ArrayKeys(h) : k \in Ints /\ k \in 0..(h.asize - 1)
      BY ContentsKeys DEF ArrayKeys
    <3>. QED
      BY <1>1, <3>1
  <2>. QED
    BY <2>1 DEF Outside, Contents
<1>5. b = 0 => T = {}
  <2>. SUFFICES ASSUME b = 0 PROVE T = {}
    OBVIOUS
  <2>1. h.hmask = 0
    <3>1. 2^0 = 1
      OBVIOUS
    <3>. HIDE DEF b
    <3>. QED
      BY <1>2, <3>1
  <2>2. Live(h.node) = {}
    BY <1>1, <2>1 DEF Live, NilNode
  <2>. QED
    BY <2>2 DEF LiveKeys
<1>6. Cardinality(T) <= 2^b
  <2>. DEFINE q == 2^b
              c == Cardinality(T)
  <2>1. c <= h.hmask + 1 /\ h.hmask = q - 1 /\ q \in Nat
    BY <1>2, <1>3, PowNat
  <2>. HIDE DEF q, c
  <2>2. c <= q
    <3>1. h.hmask + 1 = q
      BY <2>1
    <3>. QED
      BY <2>1, <3>1
  <2>. QED
    BY <2>2 DEF q, c
<1>. HIDE DEF b, T
<1>7. Resized(sid, h, n + 1, 2^b - 1, resize(h, n + 1, b))
  <2>1. n + 1 \in Nat
    OBVIOUS
  <2>. QED
    BY <2>1, <1>2, <1>3, <1>4, <1>5, <1>6, ResizeSpec
<1>. QED
  BY <1>2, <1>7 DEF b

\* A new table is empty.
LEMMA NewTabSpec ==
  ASSUME SidOk, NEW b \in HBITS
  PROVE  /\ TabOk(sid, NewTab(0, b)) /\ Contents(NewTab(0, b)) = {}
         /\ Sized(NewTab(0, b).hmask)
<1>. DEFINE h == NewTab(0, b)
            hm == 2^b - 1
<1>1. /\ h.asize = 0 /\ h.array = [i \in 0..(0 - 1) |-> NULL] /\ h.hmask = hm
      /\ h.node = [i \in 0..hm |-> NilNode] /\ h.freetop = IF b = 0 THEN 0 ELSE 2^b
      /\ HasShape(h)
  BY DEF NewTab, HashPart, HasShape
<1>2. b \in Nat
  BY KeysAssumption
<1>3. hm \in Nat /\ h.freetop = IF hm = 0 THEN 0 ELSE hm + 1
  <2>1. b = 0 => 2^b = 1
    OBVIOUS
  <2>2. b # 0 => 2^b > b
    BY <1>2, PowGreater
  <2>. DEFINE q == 2^b
  <2>3. /\ q \in Nat /\ q >= 1 /\ (b = 0 => q = 1) /\ (b # 0 => q > b) /\ hm = q - 1
        /\ h.freetop = IF b = 0 THEN 0 ELSE q
    BY <1>1, <1>2, <2>1, <2>2, PowNat
  <2>. HIDE DEF q, hm, h
  <2>. QED
    BY <1>2, <2>3
<1>. HIDE DEF h, hm
<1>4. Blank(h.node, hm) /\ h.node = [i \in 0..hm |-> h.node[i]]
  BY <1>1 DEF Blank
<1>5. /\ h.array \in [0..(h.asize - 1) -> Ints \cup {NULL}]
      /\ \A i \in 0..(h.asize - 1) : h.array[i] \in {i, NULL}
      /\ h.asize \in Nat /\ 0..(h.asize - 1) = {}
  BY <1>1
<1>6. TabOk(sid, h) /\ LiveKeys(h.node) = {}
  BY <1>1, <1>3, <1>4, <1>5, BlankOk
<1>7. Contents(h) = {}
  BY <1>5, <1>6 DEF Contents, ArrayKeys
<1>8. Sized(h.hmask)
  BY <1>1 DEF Sized, hm
<1>. QED
  BY <1>6, <1>7, <1>8 DEF h

\* lj_tab_clear.
Cleared(h, g) ==
  g = [h EXCEPT !.array = [i \in DOMAIN @ |-> NULL],
                !.node = [i \in DOMAIN @ |-> NilNode],
                !.freetop = IF h.hmask > 0 THEN h.hmask + 1 ELSE 0]
LEMMA ClearSpec ==
  ASSUME SidOk, NEW h, TabOk(sid, h), NEW g, Cleared(h, g)
  PROVE  TabOk(sid, g) /\ Contents(g) = {} /\ g.hmask = h.hmask
<1>1. /\ HasShape(h) /\ h.asize \in Nat /\ h.hmask \in Nat /\ DOMAIN h.node = 0..h.hmask
      /\ DOMAIN h.array = 0..(h.asize - 1)
  BY DEF TabOk, Sound, Woven
<1>2. /\ HasShape(g) /\ g.asize = h.asize /\ g.hmask = h.hmask
      /\ g.array = [i \in 0..(h.asize - 1) |-> NULL]
      /\ g.node = [i \in 0..h.hmask |-> NilNode]
      /\ g.freetop = IF h.hmask > 0 THEN h.hmask + 1 ELSE 0
  BY <1>1 DEF HasShape, Cleared
<1>3. /\ Blank(g.node, g.hmask) /\ g.node = [i \in 0..g.hmask |-> g.node[i]]
      /\ g.asize \in Nat /\ g.hmask \in Nat
  BY <1>1, <1>2 DEF Blank
<1>4. /\ g.array \in [0..(g.asize - 1) -> Ints \cup {NULL}]
      /\ \A i \in 0..(g.asize - 1) : g.array[i] = NULL /\ g.array[i] \in {i, NULL}
  BY <1>2
<1>5. g.freetop = IF g.hmask = 0 THEN 0 ELSE g.hmask + 1
  BY <1>1, <1>2
<1>6. TabOk(sid, g) /\ LiveKeys(g.node) = {}
  <2>1. HasShape(g) /\ \A i \in 0..(g.asize - 1) : g.array[i] \in {i, NULL}
    BY <1>2, <1>4
  <2>. QED
    BY <1>3, <1>4, <1>5, <2>1, BlankOk
<1>7. Contents(g) = {}
  BY <1>2, <1>4, <1>6 DEF Contents, ArrayKeys
<1>. QED
  BY <1>2, <1>6, <1>7
--------------------------------------------------------------------------------
(* Traversals. *)

\* The slot after that of a key has index j.
Stands(sd, h, k, j) ==
  IF k = NULL THEN j = 0
  ELSE IF inarray(h, k) THEN j = k + 1
  ELSE \E n \in 0..h.hmask : /\ First(h.node, Mains(sd, h.hmask)[k], k, n)
                             /\ j = h.asize + n + 1
\* The entries from index j on.
From(h, j) == {i \in Slots(h) : slot(h, i).val # NULL /\ i >= j}
\* A traversal that stands at a key has these keys to come to.
Travels(sd, h, k, ds) ==
  \E j \in 0..(h.asize + h.hmask + 1) :
    Stands(sd, h, k, j) /\ ds = {slot(h, i).key : i \in From(h, j)}

LEMMA PlaceUnique ==
  ASSUME NEW sd \in [Strs -> SIDS], NEW h, TabOk(sd, h), NEW k \in Keys \cup {NULL},
         NEW i, NEW j, Stands(sd, h, k, i), Stands(sd, h, k, j)
  PROVE  i = j
<1>1. CASE k = NULL \/ inarray(h, k)
  BY <1>1 DEF Stands
<1>2. CASE k # NULL /\ ~ inarray(h, k)
  <2>. DEFINE m == Mains(sd, h.hmask)[k]
  <2>1. Woven(h.node, h.hmask) /\ h.hmask \in Nat
    BY DEF TabOk, Sound
  <2>2. m \in 0..h.hmask
    BY <1>2, <2>1, MainsType
  <2>3. PICK n \in 0..h.hmask : First(h.node, m, k, n) /\ i = h.asize + n + 1
    BY <1>2 DEF Stands
  <2>4. PICK p \in 0..h.hmask : First(h.node, m, k, p) /\ j = h.asize + p + 1
    BY <1>2 DEF Stands
  <2>. HIDE DEF m
  <2>5. n = p
    BY <2>1, <2>2, <2>3, <2>4, FirstUnique
  <2>. QED
    BY <2>3, <2>4, <2>5
<1>. QED
  BY <1>1, <1>2

LEMMA IndexPlace ==
  ASSUME SidOk, NEW h, TabOk(sid, h), NEW k \in Keys \cup {NULL}, NEW j
  PROVE  j \in keyindex(h, k) <=> Stands(sid, h, k, j)
<1>1. CASE k = NULL
  BY <1>1 DEF Stands, keyindex
<1>2. CASE k # NULL /\ inarray(h, k)
  BY <1>2 DEF Stands, keyindex
<1>3. CASE k # NULL /\ ~ inarray(h, k)
  <2>. DEFINE m == Mains(sid, h.hmask)[k]
              n == Lookup(h, k)
  <2>1. Woven(h.node, h.hmask) /\ NULL \notin 0..h.hmask /\ DOMAIN h.node = 0..h.hmask
    BY DEF TabOk, Sound, Woven
  <2>2. First(h.node, m, k, n) /\ m \in 0..h.hmask
    BY <1>3, LookupSpec
  <2>3. keyindex(h, k) = IF n = NULL THEN {} ELSE {h.asize + n + 1}
    BY <1>3 DEF keyindex
  <2>. HIDE DEF m, n
  <2>4. n = NULL \/ n \in 0..h.hmask
    BY <2>1, <2>2 DEF First
  <2>5. ASSUME NEW p \in 0..h.hmask, First(h.node, m, k, p) PROVE p = n
    BY <2>1, <2>2, <2>5, FirstUnique
  <2>6. Stands(sid, h, k, j) <=> \E p \in 0..h.hmask : First(h.node, m, k, p) /\ j = h.asize + p + 1
    BY <1>3 DEF Stands, m
  <2>. QED
    BY <2>1, <2>2, <2>3, <2>4, <2>5, <2>6
<1>. QED
  BY <1>1, <1>2, <1>3

\* The place of an entry's key is that of the entry.
LEMMA SlotPlace ==
  ASSUME NEW sd, NEW h, TabOk(sd, h), NEW i \in Slots(h), slot(h, i).val # NULL
  PROVE  slot(h, i).key \in Keys /\ slot(h, i).key # NULL /\ Stands(sd, h, slot(h, i).key, i + 1)
<1>. DEFINE k == slot(h, i).key
<1>1. k \in Keys /\ k # NULL
  BY SlotSpec, ContentsKeys, KeysAssumption
<1>2. /\ h.asize \in Nat /\ h.hmask \in Nat /\ DOMAIN h.node = 0..h.hmask
      /\ h.array \in [0..(h.asize - 1) -> Ints \cup {NULL}]
      /\ \A j \in 0..(h.asize - 1) : h.array[j] \in {j, NULL}
  BY DEF TabOk, Sound, Woven
<1>3. CASE i < h.asize
  <2>1. i \in 0..(h.asize - 1) /\ k = i /\ h.array[i] # NULL
    BY <1>2, <1>3 DEF Slots, slot
  <2>2. i \in Ints
    BY <1>2, <2>1
  <2>3. inarray(h, k)
    BY <1>3, <2>1, <2>2 DEF inarray
  <2>. HIDE DEF k
  <2>. QED
    BY <1>1, <2>1, <2>3 DEF Stands, k
<1>4. CASE ~ (i < h.asize)
  <2>. DEFINE n == i - h.asize
  <2>1. n \in 0..h.hmask /\ i = h.asize + n
    BY <1>2, <1>4 DEF Slots
  <2>2. k = h.node[n].key /\ h.node[n].val # NULL
    BY <1>4 DEF slot
  <2>. HIDE DEF n, k
  <2>3. n \in Live(h.node)
    BY <1>2, <2>1, <2>2 DEF Live
  <2>4. ~ inarray(h, k) /\ First(h.node, Mains(sd, h.hmask)[k], k, n)
    BY <2>2, <2>3 DEF TabOk, Sound, Found
  <2>5. i + 1 = h.asize + n + 1
    BY <2>1
  <2>6. Stands(sd, h, k, i + 1)
    BY <1>1, <2>1, <2>4, <2>5 DEF Stands
  <2>. QED
    BY <1>1, <2>6 DEF k
<1>. QED
  BY <1>3, <1>4

\* No key has two entries.
LEMMA SlotUnique ==
  ASSUME NEW sd \in [Strs -> SIDS], NEW h, TabOk(sd, h),
         NEW i \in Slots(h), slot(h, i).val # NULL,
         NEW j \in Slots(h), slot(h, j).val # NULL, slot(h, i).key = slot(h, j).key
  PROVE  i = j
<1>. DEFINE k == slot(h, i).key
<1>1. k \in Keys /\ Stands(sd, h, k, i + 1)
  BY SlotPlace
<1>2. Stands(sd, h, k, j + 1)
  BY SlotPlace
<1>. HIDE DEF k
<1>3. i + 1 = j + 1
  BY <1>1, <1>2, PlaceUnique
<1>4. i \in Int /\ j \in Int
  BY DEF Slots
<1>. QED
  BY <1>3, <1>4

\* A traversal starts.
LEMMA StartTravels ==
  ASSUME NEW sd, NEW h, TabOk(sd, h)
  PROVE  Travels(sd, h, NULL, Contents(h))
<1>1. h.asize \in Nat /\ h.hmask \in Nat
  BY DEF TabOk
<1>2. From(h, 0) = {i \in Slots(h) : slot(h, i).val # NULL}
  BY <1>1 DEF From, Slots
<1>3. {slot(h, i).key : i \in From(h, 0)} = Contents(h)
  BY <1>2, SlotKeys
<1>4. Stands(sd, h, NULL, 0) /\ 0 \in 0..(h.asize + h.hmask + 1)
  BY <1>1 DEF Stands
<1>. QED
  BY <1>3, <1>4 DEF Travels

\* It comes to the next key, if there is one.
Advances(h, k, ds) ==
  /\ keyindex(h, k) # {}
  /\ Rest(h, k) = {} => ds = {}
  /\ Rest(h, k) # {} => /\ slot(h, Min(Rest(h, k))).key \in ds \cap Keys
                        /\ Travels(sid, h, slot(h, Min(Rest(h, k))).key,
                                   ds \ {slot(h, Min(Rest(h, k))).key})
LEMMA NextTravels ==
  ASSUME SidOk, NEW h, TabOk(sid, h), NEW k \in Keys \cup {NULL},
         NEW ds, Travels(sid, h, k, ds)
  PROVE  Advances(h, k, ds)
<1>. DEFINE R == Rest(h, k)
            i == Min(R)
            e == slot(h, i).key
<1>1. PICK j \in 0..(h.asize + h.hmask + 1) :
        Stands(sid, h, k, j) /\ ds = {slot(h, x).key : x \in From(h, j)}
  BY DEF Travels
<1>2. h.asize \in Nat /\ h.hmask \in Nat /\ sid \in [Strs -> SIDS]
  BY DEF TabOk, SidOk
<1>3. keyindex(h, k) = {j}
  <2>1. \A x : x \in keyindex(h, k) <=> Stands(sid, h, k, x)
    BY IndexPlace
  <2>2. \A x : Stands(sid, h, k, x) => x = j
    BY <1>1, <1>2, PlaceUnique
  <2>. QED
    BY <1>1, <2>1, <2>2
<1>4. R = From(h, j)
  BY <1>3 DEF Rest, From
<1>5. R = {} => ds = {}
  BY <1>1, <1>4
<1>6. ASSUME R # {} PROVE e \in ds \cap Keys /\ Travels(sid, h, e, ds \ {e})
  <2>1. R \in SUBSET Nat
    BY <1>2, <1>4 DEF From, Slots
  <2>2. i \in R /\ \A x \in R : i <= x
    <3>. HIDE DEF R
    <3>. QED
      BY <1>6, <2>1, MinNat DEF IsMin
  <2>. HIDE DEF i, R
  <2>3. i \in Slots(h) /\ slot(h, i).val # NULL /\ i >= j /\ i \in Nat
    BY <1>4, <2>1, <2>2 DEF From
  <2>4. e \in Keys /\ Stands(sid, h, e, i + 1)
    BY <2>3, SlotPlace
  <2>5. e \in ds
    BY <1>1, <1>4, <2>2
  <2>6. From(h, i + 1) = R \ {i}
    <3>1. \A x \in From(h, i + 1) : x \in R \ {i}
      BY <1>2, <1>4, <2>3, <1>1 DEF From, Slots
    <3>2. \A x \in R \ {i} : x \in From(h, i + 1)
      <4>1. \A x \in R \ {i} : x >= i + 1
        BY <2>1, <2>2
      <4>. QED
        BY <1>4, <4>1 DEF From
    <3>. QED
      BY <3>1, <3>2
  <2>7. ds \ {e} = {slot(h, x).key : x \in From(h, i + 1)}
    <3>1. \A x \in R : slot(h, x).key = e => x = i
      <4>1. \A x \in R : x \in Slots(h) /\ slot(h, x).val # NULL
        BY <1>4 DEF From
      <4>. QED
        BY <1>2, <2>3, <4>1, SlotUnique
    <3>2. ds = {slot(h, x).key : x \in R}
      BY <1>1, <1>4
    <3>. HIDE DEF e
    <3>3. \A y \in ds \ {e} : \E x \in R \ {i} : y = slot(h, x).key
      BY <3>2 DEF e
    <3>4. \A x \in R \ {i} : slot(h, x).key \in ds \ {e}
      BY <3>1, <3>2
    <3>. QED
      BY <2>6, <3>3, <3>4
  <2>8. i + 1 \in 0..(h.asize + h.hmask + 1)
    BY <1>2, <2>3 DEF Slots
  <2>9. Travels(sid, h, e, ds \ {e})
    <3>. HIDE DEF e
    <3>. QED
      BY <2>4, <2>7, <2>8 DEF Travels
  <2>. QED
    BY <2>4, <2>5, <2>9
<1>. QED
  BY <1>3, <1>5, <1>6 DEF Advances
--------------------------------------------------------------------------------
\* A field that exists is set: no entry gets another place, and that of k is
\* emptied if v is nil.
Resets(sd, h, k, v, g) ==
  /\ g.asize = h.asize /\ g.hmask = h.hmask
  /\ \A x \in Keys \cup {NULL} : \A j : Stands(sd, h, x, j) => Stands(sd, g, x, j)
  /\ \A i \in Slots(h) :
       /\ slot(g, i).key = slot(h, i).key
       /\ slot(g, i).val # NULL <=> slot(h, i).val # NULL /\ (slot(h, i).key = k => v # NULL)

LEMMA StoreResets ==
  ASSUME SidOk, NEW h, TabOk(sid, h), NEW k \in Contents(h), NEW v \in {k, NULL}
  PROVE  HasRoom(h, k) /\ Resets(sid, h, k, v, Store(h, k, v))
<1>. DEFINE n == Lookup(h, k)
            mn == Mains(sid, h.hmask)
            node == h.node
<1>1. k \in Keys /\ k # NULL
  BY ContentsKeys, KeysAssumption
<1>2. /\ h.asize \in Nat /\ h.hmask \in Nat /\ HasShape(h) /\ Sound(node, h.hmask, mn)
      /\ DOMAIN node = 0..h.hmask /\ NULL \notin 0..h.hmask
      /\ \A i \in 0..h.hmask : node[i].val \in {NULL, node[i].key}
      /\ \A i, j \in Live(node) : node[i].key = node[j].key => i = j
      /\ node \in [0..h.hmask -> Fields(0..h.hmask)]
  BY DEF TabOk, Sound, Woven, Keyed
<1>3. CASE inarray(h, k)
  <2>. DEFINE g == [h EXCEPT !.array[k] = v]
  <2>1. Store(h, k, v) = g /\ HasRoom(h, k)
    BY <1>3 DEF Store, HasRoom
  <2>2. k \in 0..(h.asize - 1)
    BY <1>2, <1>3, KeysAssumption DEF inarray
  <2>3. /\ g.asize = h.asize /\ g.hmask = h.hmask /\ g.node = node
        /\ g.array = [h.array EXCEPT ![k] = v]
    BY <1>2 DEF HasShape
  <2>. HIDE DEF g, mn, node
  <2>4. /\ \A i \in 0..(h.asize - 1) : g.array[i] = IF i = k THEN v ELSE h.array[i]
        /\ h.array[k] # NULL
    <3>1. DOMAIN h.array = 0..(h.asize - 1)
      BY DEF TabOk
    <3>2. k \notin LiveKeys(h.node)
      BY <1>3, ContentsKeys
    <3>3. h.array[k] # NULL
      BY <3>2 DEF Contents, ArrayKeys
    <3>. QED
      BY <2>3, <3>1, <3>3
  <2>5. ASSUME NEW x \in Keys \cup {NULL}, NEW j, Stands(sid, h, x, j) PROVE Stands(sid, g, x, j)
    BY <2>3, <2>5 DEF Stands, inarray, node
  <2>6. ASSUME NEW i \in Slots(h)
        PROVE  /\ slot(g, i).key = slot(h, i).key
               /\ slot(g, i).val # NULL
                    <=> slot(h, i).val # NULL /\ (slot(h, i).key = k => v # NULL)
    <3>1. CASE i < h.asize
      <4>1. i \in 0..(h.asize - 1)
        BY <1>2, <3>1 DEF Slots
      <4>2. slot(h, i).key = i /\ slot(h, i).val = h.array[i]
        BY <3>1 DEF slot
      <4>3. slot(g, i).key = i /\ slot(g, i).val = g.array[i]
        BY <2>3, <3>1 DEF slot
      <4>4. g.array[i] = IF i = k THEN v ELSE h.array[i]
        BY <2>4, <4>1
      <4>. QED
        BY <2>4, <4>2, <4>3, <4>4
    <3>2. CASE ~ (i < h.asize)
      <4>. DEFINE p == i - h.asize
      <4>1. p \in 0..h.hmask
        BY <1>2, <3>2 DEF Slots
      <4>2. slot(h, i).key = h.node[p].key /\ slot(h, i).val = h.node[p].val
        BY <3>2 DEF slot
      <4>3. slot(g, i).key = h.node[p].key /\ slot(g, i).val = h.node[p].val
        BY <2>3, <3>2 DEF slot, node
      <4>. HIDE DEF p
      <4>4. h.node[p].val # NULL => h.node[p].key # k
        <5>1. h.node[p].val # NULL => p \in Live(h.node)
          BY <1>2, <4>1 DEF Live, node
        <5>. QED
          BY <1>3, <5>1 DEF TabOk
      <4>. QED
        BY <4>2, <4>3, <4>4
    <3>. QED
      BY <3>1, <3>2
  <2>7. Resets(sid, h, k, v, g)
    BY <2>3, <2>5, <2>6 DEF Resets
  <2>. QED
    BY <2>1, <2>7
<1>4. CASE ~ inarray(h, k)
  <2>. DEFINE g == [h EXCEPT !.node[n].val = v]
              e == SetVal(node, n, v)
  <2>1. First(node, mn[k], k, n) /\ n # NULL
    <3>1. Get(h, k) # NULL
      BY <1>1, GetSpec
    <3>2. n # NULL
      BY <1>4, <3>1 DEF Get
    <3>. QED
      BY <1>1, <3>2, LookupSpec
  <2>2. Store(h, k, v) = g /\ HasRoom(h, k)
    BY <1>4, <2>1 DEF Store, HasRoom
  <2>3. g = [h EXCEPT !.node = e]
    BY DEF SetVal
  <2>. HIDE DEF n
  <2>4. FilledWith(node, e, n, k, v) /\ n \in 0..h.hmask /\ node[n].key = k
    <3>1. FilledWith(node, e, n, k, v)
      BY <1>1, <1>2, <2>1, SetValSound
    <3>. QED
      BY <3>1, <2>1, <1>2 DEF First
  <2>5. g.asize = h.asize /\ g.hmask = h.hmask /\ g.node = e /\ g.array = h.array
    BY <1>2, <2>3 DEF HasShape
  <2>. HIDE DEF g, e, mn
  <2>6. /\ DOMAIN e = 0..h.hmask
        /\ \A i \in 0..h.hmask : /\ e[i].key = node[i].key /\ e[i].next = node[i].next
                                 /\ e[i].val = IF i = n THEN v ELSE node[i].val
    BY <1>2, <2>4 DEF FilledWith
  <2>7. Nx(e) = Nx(node)
    BY <1>2, <2>6 DEF Nx
  <2>8. \A x, m, p : First(node, m, x, p) => First(e, m, x, p)
    BY <1>2, <2>6, <2>7 DEF First
  <2>9. ASSUME NEW x \in Keys \cup {NULL}, NEW j, Stands(sid, h, x, j) PROVE Stands(sid, g, x, j)
    <3>1. CASE x = NULL \/ inarray(h, x)
      BY <2>5, <2>9, <3>1 DEF Stands, inarray
    <3>2. CASE x # NULL /\ ~ inarray(h, x)
      <4>1. PICK p \in 0..h.hmask : /\ First(h.node, Mains(sid, h.hmask)[x], x, p)
                                    /\ j = h.asize + p + 1
        BY <2>9, <3>2 DEF Stands
      <4>2. First(e, Mains(sid, h.hmask)[x], x, p)
        BY <2>8, <4>1 DEF node
      <4>3. ~ inarray(g, x)
        BY <2>5, <3>2 DEF inarray
      <4>. QED
        BY <2>5, <3>2, <4>1, <4>2, <4>3 DEF Stands
    <3>. QED
      BY <3>1, <3>2
  <2>10. ASSUME NEW i \in Slots(h)
         PROVE  /\ slot(g, i).key = slot(h, i).key
                /\ slot(g, i).val # NULL
                     <=> slot(h, i).val # NULL /\ (slot(h, i).key = k => v # NULL)
    <3>1. CASE i < h.asize
      <4>1. slot(h, i).key = i /\ slot(h, i).val = h.array[i]
        BY <3>1 DEF slot
      <4>2. slot(g, i).key = i /\ slot(g, i).val = h.array[i]
        BY <2>5, <3>1 DEF slot
      <4>3. slot(h, i).val # NULL => slot(h, i).key # k
        <5>1. i \in 0..(h.asize - 1)
          BY <1>2, <3>1 DEF Slots
        <5>2. h.array[i] # NULL => i \in ArrayKeys(h)
          BY <5>1 DEF ArrayKeys
        <5>3. \A x \in ArrayKeys(h) : inarray(h, x)
          BY ContentsKeys
        <5>. QED
          BY <1>4, <4>1, <5>2, <5>3
      <4>. QED
        BY <4>1, <4>2, <4>3
    <3>2. CASE ~ (i < h.asize)
      <4>. DEFINE p == i - h.asize
      <4>1. p \in 0..h.hmask
        BY <1>2, <3>2 DEF Slots
      <4>2. slot(h, i).key = node[p].key /\ slot(h, i).val = node[p].val
        BY <3>2 DEF slot
      <4>3. slot(g, i).key = e[p].key /\ slot(g, i).val = e[p].val
        BY <2>5, <3>2 DEF slot
      <4>. HIDE DEF p
      <4>4. /\ e[p].key = node[p].key
            /\ e[p].val = IF p = n THEN v ELSE node[p].val
        BY <2>6, <4>1
      <4>5. node[n].val # NULL
        <5>1. k \notin ArrayKeys(h)
          BY <1>4, ContentsKeys
        <5>2. PICK q \in Live(node) : node[q].key = k
          BY <5>1 DEF Contents, LiveKeys
        <5>3. First(node, mn[k], k, q)
          BY <1>2, <5>2 DEF Sound, Found
        <5>4. mn[k] \in 0..h.hmask /\ Woven(node, h.hmask)
          BY <1>1, <1>2 DEF Sound, Keyed
        <5>5. q = n
          BY <2>1, <5>3, <5>4, FirstUnique
        <5>. QED
          BY <5>2, <5>5 DEF Live
      <4>6. node[p].val # NULL /\ node[p].key = k => p = n
        <5>1. n \in Live(node) /\ (node[p].val # NULL => p \in Live(node))
          BY <1>2, <2>4, <4>1, <4>5 DEF Live
        <5>. QED
          BY <1>2, <2>4, <5>1
      <4>. QED
        BY <2>4, <4>2, <4>3, <4>4, <4>5, <4>6
    <3>. QED
      BY <3>1, <3>2
  <2>11. Resets(sid, h, k, v, g)
    BY <2>5, <2>9, <2>10 DEF Resets
  <2>. QED
    BY <2>2, <2>11
<1>. QED
  BY <1>3, <1>4

LEMMA AssignTravels ==
  ASSUME SidOk, NEW h, TabOk(sid, h), NEW k \in Contents(h), NEW v \in {k, NULL},
         NEW x \in Keys \cup {NULL}, NEW ds, Travels(sid, h, x, ds)
  PROVE  Travels(sid, Put(h, k, v), x, IF v = NULL THEN ds \ {k} ELSE ds)
<1>. DEFINE g == Put(h, k, v)
            es == IF v = NULL THEN ds \ {k} ELSE ds
<1>1. HasRoom(h, k) /\ Resets(sid, h, k, v, Store(h, k, v))
  BY StoreResets
<1>2. Resets(sid, h, k, v, g)
  BY <1>1 DEF Put
<1>. HIDE DEF g
<1>3. PICK j \in 0..(h.asize + h.hmask + 1) :
        Stands(sid, h, x, j) /\ ds = {slot(h, i).key : i \in From(h, j)}
  BY DEF Travels
<1>4. /\ j \in 0..(g.asize + g.hmask + 1) /\ Stands(sid, g, x, j) /\ Slots(g) = Slots(h)
      /\ \A i \in Slots(h) :
           /\ slot(g, i).key = slot(h, i).key
           /\ slot(g, i).val # NULL <=> slot(h, i).val # NULL /\ (slot(h, i).key = k => v # NULL)
  BY <1>2, <1>3 DEF Resets, Slots
<1>5. \A i \in From(g, j) : i \in From(h, j) /\ slot(g, i).key = slot(h, i).key
                            /\ (slot(h, i).key = k => v # NULL)
  BY <1>4 DEF From
<1>6. \A i \in From(h, j) : (slot(h, i).key = k => v # NULL)
                               => i \in From(g, j) /\ slot(g, i).key = slot(h, i).key
  BY <1>4 DEF From
<1>7. \A y \in es : \E i \in From(g, j) : y = slot(g, i).key
  <2>1. \A y \in es : y \in ds /\ (y = k => v # NULL)
    OBVIOUS
  <2>. HIDE DEF es
  <2>. QED
    BY <1>3, <1>6, <2>1
<1>8. \A i \in From(g, j) : slot(g, i).key \in es
  BY <1>3, <1>5
<1>9. es = {slot(g, i).key : i \in From(g, j)}
  <2>. HIDE DEF es
  <2>. QED
    BY <1>7, <1>8
<1>. HIDE DEF es
<1>10. Travels(sid, g, x, es)
  BY <1>4, <1>9 DEF Travels
<1>. QED
  BY <1>10 DEF g, es
--------------------------------------------------------------------------------
\* A string that is no key of an entry gets another ID.
Recycled(sd, se, s) == \A x \in Strs : x # s => se[x] = sd[x]

LEMMA RecycleMains ==
  ASSUME NEW sd \in [Strs -> SIDS], NEW se \in [Strs -> SIDS], NEW s \in Strs,
         Recycled(sd, se, s), NEW hm \in Nat
  PROVE  /\ Mains(se, hm) \in [Keys -> 0..hm]
         /\ \A k \in Keys : k # s => Mains(se, hm)[k] = Mains(sd, hm)[k]
<1>1. Mains(se, hm) \in [Keys -> 0..hm]
  BY MainsType
<1>2. ASSUME NEW k \in Keys, k # s PROVE Mains(se, hm)[k] = Mains(sd, hm)[k]
  <2>1. k \notin Ints => k \in Strs
    BY DEF Keys
  <2>2. k \notin Ints => se[k] = sd[k]
    BY <1>2, <2>1 DEF Recycled
  <2>. QED
    BY <2>2 DEF Mains
<1>. QED
  BY <1>1, <1>2

LEMMA RecycleOk ==
  ASSUME NEW sd \in [Strs -> SIDS], NEW se \in [Strs -> SIDS], NEW s \in Strs,
         Recycled(sd, se, s), NEW h, TabOk(sd, h), s \notin Contents(h)
  PROVE  TabOk(se, h)
<1>. DEFINE hm == h.hmask
            node == h.node
            mn == Mains(sd, hm)
            mm == Mains(se, hm)
<1>1. hm \in Nat /\ Sound(node, hm, mn) /\ DOMAIN node = 0..hm
  BY DEF TabOk, Sound, Woven
<1>2. mm \in [Keys -> 0..hm] /\ \A k \in Keys : k # s => mm[k] = mn[k]
  <2>. HIDE DEF hm
  <2>. QED
    BY <1>1, RecycleMains
<1>3. \A i \in Live(node) : node[i].key \in Keys /\ node[i].key # s
  BY ContentsKeys DEF Contents, LiveKeys
<1>4. \A i \in Live(node) : mm[node[i].key] = mn[node[i].key]
  BY <1>2, <1>3
<1>. HIDE DEF mm, mn
<1>5. Keyed(node, hm, mm)
  BY <1>1, <1>2, <1>4 DEF Sound, Keyed
<1>6. \A i \in Live(node) : Found(node, mm, i)
  BY <1>1, <1>4 DEF Sound, Found
<1>7. Sound(node, hm, mm)
  BY <1>1, <1>5, <1>6 DEF Sound
<1>. QED
  BY <1>7 DEF TabOk, mm

LEMMA RecycleTravels ==
  ASSUME NEW sd \in [Strs -> SIDS], NEW se \in [Strs -> SIDS], NEW s \in Strs,
         Recycled(sd, se, s), NEW h, h.hmask \in Nat, NEW k \in Keys \cup {NULL}, k # s,
         NEW ds, Travels(sd, h, k, ds)
  PROVE  Travels(se, h, k, ds)
<1>1. k # NULL => Mains(se, h.hmask)[k] = Mains(sd, h.hmask)[k]
  BY RecycleMains
<1>2. \A j : Stands(sd, h, k, j) => Stands(se, h, k, j)
  BY <1>1 DEF Stands
<1>. QED
  BY <1>2 DEF Travels
--------------------------------------------------------------------------------
(* The inductive invariant. *)

IInv ==
  /\ SidOk /\ TabOk(sid, t) /\ Sized(t.hmask)
  /\ it_state \in {"none", "on", "done"}
  /\ it_key \in Keys \cup {NULL} /\ due \subseteq Keys
  /\ it_state # "on" => it_key = NULL
  /\ it_state = "on" => Travels(sid, t, it_key, due)

\* What a step does to the contents, and which operation may do it.
Effect(S, R) ==
  \/ R = S /\ (AssignsNone \/ op' = op)
  \/ R = {} /\ Assigns(Keys, NULL)
  \/ \E k \in Keys, v \in Keys \cup {NULL} :
       v \in {k, NULL} /\ R = Changed(S, k, v) /\ Assigns({k}, v)

LEMMA InitIInv == Init => IInv
<1>. SUFFICES ASSUME Init PROVE IInv
  OBVIOUS
<1>1. PICK b \in HBITS : t = NewTab(0, b)
  BY DEF Init
<1>2. SidOk /\ it_state = "none" /\ it_key = NULL /\ due = {}
  BY DEF Init, SidOk
<1>3. TabOk(sid, t) /\ Sized(t.hmask)
  BY <1>1, <1>2, NewTabSpec
<1>. QED
  BY <1>2, <1>3 DEF IInv

LEMMA SetStep ==
  ASSUME IInv, NEW k \in Keys, NEW v \in {k, NULL}, Set(k, v)
  PROVE  IInv' /\ Effect(Contents(t), Contents(t'))
<1>1. SidOk /\ TabOk(sid, t) /\ Sized(t.hmask) /\ k # NULL /\ it_key \in Keys \cup {NULL}
  BY KeysAssumption DEF IInv
<1>2. t' = Put(t, k, v) /\ sid' = sid /\ Assigns({k}, v)
  BY DEF Set
<1>3. TabOk(sid, t') /\ Sized((t').hmask) /\ Contents(t') = Changed(Contents(t), k, v)
  BY <1>1, <1>2, PutSpec DEF Assigned
<1>4. SidOk' /\ TabOk(sid', t') /\ Sized((t').hmask)
  BY <1>1, <1>2, <1>3 DEF SidOk
<1>5. Effect(Contents(t), Contents(t'))
  BY <1>2, <1>3 DEF Effect
<1>6. CASE Get(t, k) = NULL /\ it_state = "on"
  <2>1. it_state' = "none" /\ it_key' = NULL /\ due' = {}
    BY <1>6 DEF Set, NoTraversal
  <2>. QED
    BY <1>4, <1>5, <2>1 DEF IInv
<1>7. CASE ~ (Get(t, k) = NULL /\ it_state = "on")
  <2>. DEFINE es == IF v = NULL THEN due \ {k} ELSE due
  <2>1. due' = es /\ it_state' = it_state /\ it_key' = it_key
    BY <1>7 DEF Set
  <2>2. ASSUME it_state = "on" PROVE Travels(sid', t', it_key', due')
    <3>1. k \in Contents(t)
      BY <1>1, <1>7, <2>2, GetSpec
    <3>2. Travels(sid, t, it_key, due)
      BY <2>2 DEF IInv
    <3>3. Travels(sid, Put(t, k, v), it_key, es)
      BY <1>1, <3>1, <3>2, AssignTravels
    <3>. QED
      BY <1>2, <2>1, <3>3
  <2>3. es \subseteq Keys
    BY DEF IInv
  <2>. HIDE DEF es
  <2>. QED
    BY <1>4, <1>5, <2>1, <2>2, <2>3 DEF IInv
<1>. QED
  BY <1>6, <1>7

LEMMA ClearStep ==
  ASSUME IInv, lj_tab_clear
  PROVE  IInv' /\ Effect(Contents(t), Contents(t'))
<1>1. Cleared(t, t') /\ sid' = sid /\ Assigns(Keys, NULL)
  BY DEF lj_tab_clear, Cleared
<1>2. it_state' = "none" /\ it_key' = NULL /\ due' = {}
  BY DEF lj_tab_clear, NoTraversal
<1>3. SidOk /\ TabOk(sid, t) /\ Sized(t.hmask)
  BY DEF IInv
<1>4. TabOk(sid, t') /\ Contents(t') = {} /\ (t').hmask = t.hmask
  BY <1>1, <1>3, ClearSpec
<1>5. SidOk' /\ TabOk(sid', t') /\ Sized((t').hmask)
  BY <1>1, <1>3, <1>4 DEF SidOk
<1>6. Effect(Contents(t), Contents(t'))
  BY <1>1, <1>4 DEF Effect
<1>. QED
  BY <1>2, <1>5, <1>6 DEF IInv

LEMMA ReasizeStep ==
  ASSUME IInv, NEW n \in 0..MAX_ASIZE, lj_tab_reasize(n)
  PROVE  IInv' /\ Effect(Contents(t), Contents(t'))
<1>1. /\ n + 1 > t.asize /\ sid' = sid /\ AssignsNone
      /\ t' = resize(t, n + 1, IF t.hmask > 0 THEN fls(t.hmask) + 1 ELSE 0)
  BY DEF lj_tab_reasize
<1>2. it_state' = "none" /\ it_key' = NULL /\ due' = {}
  BY DEF lj_tab_reasize, NoTraversal
<1>3. SidOk /\ TabOk(sid, t) /\ Sized(t.hmask) /\ n \in Nat
  BY KeysAssumption DEF IInv
<1>4. Resized(sid, t, n + 1, t.hmask, t')
  BY <1>1, <1>3, ReasizeSpec
<1>5. SidOk' /\ TabOk(sid', t') /\ Sized((t').hmask) /\ Contents(t') = Contents(t)
  BY <1>1, <1>3, <1>4 DEF SidOk, Resized
<1>6. Effect(Contents(t), Contents(t'))
  BY <1>1, <1>5 DEF Effect
<1>. QED
  BY <1>2, <1>5, <1>6 DEF IInv

LEMMA RecycleStep ==
  ASSUME IInv, NEW s \in Strs, NEW id \in SIDS, Recycle(s, id)
  PROVE  IInv' /\ Effect(Contents(t), Contents(t'))
<1>1. /\ Get(t, s) = NULL /\ s # it_key /\ sid' = [sid EXCEPT ![s] = id]
      /\ t' = t /\ it_state' = it_state /\ it_key' = it_key /\ due' = due
      /\ AssignsNone
  BY DEF Recycle
<1>2. /\ SidOk /\ sid \in [Strs -> SIDS] /\ TabOk(sid, t) /\ Sized(t.hmask)
      /\ it_key \in Keys \cup {NULL} /\ t.hmask \in Nat
  BY DEF IInv, SidOk, TabOk
<1>3. sid' \in [Strs -> SIDS] /\ Recycled(sid, sid', s)
  BY <1>1, <1>2 DEF Recycled
<1>4. s \notin Contents(t)
  <2>1. s \in Keys /\ s # NULL
    BY KeysAssumption DEF Keys
  <2>. QED
    BY <1>1, <1>2, <2>1, GetSpec
<1>5. TabOk(sid', t)
  BY <1>2, <1>3, <1>4, RecycleOk
<1>6. Travels(sid, t, it_key, due) => Travels(sid', t, it_key, due)
  BY <1>1, <1>2, <1>3, RecycleTravels
<1>7. SidOk' /\ TabOk(sid', t') /\ Sized((t').hmask)
  BY <1>1, <1>2, <1>3, <1>5 DEF SidOk
<1>8. Effect(Contents(t), Contents(t'))
  BY <1>1 DEF Effect
<1>. QED
  BY <1>1, <1>6, <1>7, <1>8 DEF IInv

LEMMA StartStep ==
  ASSUME IInv, StartTraversal
  PROVE  IInv' /\ Effect(Contents(t), Contents(t'))
<1>1. /\ it_state' = "on" /\ it_key' = NULL /\ t' = t /\ sid' = sid
      /\ due' = {k \in Keys : Get(t, k) # NULL} /\ AssignsNone
  BY DEF StartTraversal
<1>2. SidOk /\ TabOk(sid, t) /\ Sized(t.hmask)
  BY DEF IInv
<1>3. due' = Contents(t)
  <2>1. \A k \in Keys : Get(t, k) # NULL <=> k \in Contents(t)
    BY <1>2, GetSpec, KeysAssumption
  <2>2. Contents(t) \in SUBSET Keys
    BY <1>2, ContentsKeys
  <2>. QED
    BY <1>1, <2>1, <2>2
<1>4. Travels(sid, t, NULL, Contents(t)) /\ Contents(t) \in SUBSET Keys
  BY <1>2, StartTravels, ContentsKeys
<1>5. SidOk' /\ TabOk(sid', t') /\ Sized((t').hmask)
  BY <1>1, <1>2 DEF SidOk
<1>6. Effect(Contents(t), Contents(t'))
  BY <1>1 DEF Effect
<1>. QED
  BY <1>1, <1>3, <1>4, <1>5, <1>6 DEF IInv

LEMMA NextStep ==
  ASSUME IInv, lj_tab_next
  PROVE  /\ IInv' /\ Effect(Contents(t), Contents(t'))
         /\ it_key' # NULL => it_key' \in due
         /\ it_state' = "done" => due = {}
<1>1. /\ SidOk /\ TabOk(sid, t) /\ Sized(t.hmask) /\ it_key \in Keys \cup {NULL}
      /\ due \subseteq Keys /\ Travels(sid, t, it_key, due)
  BY DEF IInv, lj_tab_next
<1>. DEFINE R == Rest(t, it_key)
            k == slot(t, Min(R)).key
<1>2. /\ keyindex(t, it_key) # {}
      /\ R = {} => due = {}
      /\ R # {} => k \in due \cap Keys /\ Travels(sid, t, k, due \ {k})
  BY <1>1, NextTravels DEF Advances
<1>3. /\ t' = t /\ sid' = sid /\ it_state = "on" /\ AssignsNone
      /\ R = {} => it_state' = "done" /\ it_key' = NULL /\ due' = due
      /\ R # {} => it_key' = k /\ due' = due \ {k} /\ it_state' = it_state
  BY <1>2 DEF lj_tab_next
<1>. HIDE DEF R, k
<1>4. SidOk' /\ TabOk(sid', t') /\ Sized((t').hmask)
  BY <1>1, <1>3 DEF SidOk
<1>5. Effect(Contents(t), Contents(t'))
  BY <1>3 DEF Effect
<1>. QED
  BY <1>1, <1>2, <1>3, <1>4, <1>5 DEF IInv

LEMMA IInvStep == IInv /\ [Next]_vars => IInv' /\ Effect(Contents(t), Contents(t'))
<1>. SUFFICES ASSUME IInv, [Next]_vars
              PROVE  IInv' /\ Effect(Contents(t), Contents(t'))
  OBVIOUS
<1>1. CASE \E k \in Keys : Set(k, k) \/ Set(k, NULL)
  BY <1>1, SetStep
<1>2. CASE lj_tab_clear
  BY <1>2, ClearStep
<1>3. CASE \E n \in 0..MAX_ASIZE : lj_tab_reasize(n)
  BY <1>3, ReasizeStep
<1>4. CASE \E s \in Strs, id \in SIDS : Recycle(s, id)
  BY <1>4, RecycleStep
<1>5. CASE StartTraversal
  BY <1>5, StartStep
<1>6. CASE lj_tab_next
  BY <1>6, NextStep
<1>7. CASE UNCHANGED vars
  <2>1. /\ t' = t /\ sid' = sid /\ it_state' = it_state /\ it_key' = it_key
        /\ due' = due /\ op' = op
    BY <1>7 DEF vars
  <2>. QED
    BY <2>1 DEF IInv, SidOk, Effect
<1>. QED
  BY <1>1, <1>2, <1>3, <1>4, <1>5, <1>6, <1>7 DEF Next

\* After any sequence of stores, clears, rehashes, and steps of a traversal the
\* hash part is sound, no chain is lost or joined by Brent's variation, no key
\* of the array part is in the hash part, and a traversal still stands where
\* the keys it owes are ahead of it.
THEOREM Invariance == Spec => []IInv
<1>1. IInv /\ [Next]_vars => IInv'
  BY IInvStep
<1>. QED
  BY <1>1, InitIInv, PTL DEF Spec

\* Every link of a node leads to a node of the same hash part, no node from
\* freetop up is lost to lj_tab_newkey, and rehashtab and newhpart never make
\* the hash part larger than the keys call for.
THEOREM TypeCorrect == Spec => []TypeOK
<1>. DEFINE OpOk == op \in (SUBSET Keys) \X (Keys \cup {NULL})
<1>1. Init => OpOk
  BY DEF Init
<1>2. OpOk /\ Effect(Contents(t), Contents(t')) => OpOk'
  BY DEF Effect, Assigns, AssignsNone
<1>3. IInv /\ OpOk => TypeOK
  <2>. SUFFICES ASSUME IInv, OpOk PROVE TypeOK
    OBVIOUS
  <2>1. /\ SidOk /\ TabOk(sid, t) /\ Sized(t.hmask)
        /\ it_state \in {"none", "on", "done"}
        /\ it_key \in Keys \cup {NULL} /\ due \subseteq Keys
    BY DEF IInv
  <2>2. /\ t.asize \in Nat /\ t.array \in [0..(t.asize - 1) -> Ints \cup {NULL}]
        /\ t.hmask \in Nat /\ t.node \in [0..t.hmask -> Fields(0..t.hmask)]
        /\ IF t.hmask = 0 THEN t.freetop = 0 ELSE FreeRule(t.node, t.hmask, t.freetop)
    BY <2>1 DEF TabOk, Sound, Keyed
  <2>3. t.array \in [0..(t.asize - 1) -> Keys \cup {NULL}]
    BY <2>2 DEF Keys
  <2>4. t.freetop \in 0..(t.hmask + 1)
    BY <2>2 DEF FreeRule
  <2>5. t.hmask > 0 => \A i \in t.freetop..t.hmask : t.node[i].key # NULL
    BY <2>2 DEF FreeRule
  <2>6. t.node \in [0..t.hmask -> [key : Keys \cup {NULL}, val : Keys \cup {NULL},
                                   next : 0..t.hmask \cup {NULL}]]
    BY <2>2 DEF Fields
  <2>7. \E b \in HBITS \cup 0..(1 + fls(Cardinality(Keys))) : t.hmask = 2^b - 1
    BY <2>1 DEF Sized
  <2>8. sid \in [Strs -> SIDS]
    BY <2>1 DEF SidOk
  <2>. QED
    BY <2>1, <2>2, <2>3, <2>4, <2>5, <2>6, <2>7, <2>8 DEF TypeOK
<1>. HIDE DEF OpOk
<1>4. IInv /\ OpOk /\ [Next]_vars => OpOk'
  BY <1>2, IInvStep
<1>. QED
  BY <1>1, <1>3, <1>4, Invariance, PTL DEF Spec

\* lj_tab_next visits each key that stays in the table once and ends after it
\* has visited them all, whatever the loop stores into fields that exist, nil
\* included: clearing a field leaves its dead key for the traversal to find.
THEOREM TraversalIsExact == Spec => TraversalExact
<1>. DEFINE Ahead == it_state = "on" /\ Rest(t, it_key) # {}
                       => slot(t, Min(Rest(t, it_key))).key \in due
            A == /\ Ahead
                 /\ it_key' # it_key /\ it_key' # NULL => it_key' \in due
                 /\ it_state' = "done" /\ it_state = "on" => due = {}
                 /\ it_state' # "invalid"
<1>1. IInv /\ IInv' /\ [Next]_vars => [A]_vars
  <2>. SUFFICES ASSUME IInv, IInv', Next PROVE A
    OBVIOUS
  <2>1. Ahead
    <3>. SUFFICES ASSUME it_state = "on", Rest(t, it_key) # {}
                  PROVE  slot(t, Min(Rest(t, it_key))).key \in due
      OBVIOUS
    <3>1. SidOk /\ TabOk(sid, t) /\ Travels(sid, t, it_key, due)
      BY DEF IInv
    <3>2. it_key \in Keys \cup {NULL} /\ due \subseteq Keys
      BY DEF IInv
    <3>. QED
      BY <3>1, <3>2, NextTravels DEF Advances
  <2>. HIDE DEF Ahead
  <2>2. it_state' # "invalid" /\ Ahead
    BY <2>1 DEF IInv
  <2>3. CASE lj_tab_next
    BY <2>2, <2>3, NextStep
  <2>4. ASSUME it_key' \in {it_key, NULL}, it_state' # "done" \/ it_state' = it_state
        PROVE  A
    <3>1. it_state' = "done" /\ it_state = "on" => FALSE
      BY <2>4
    <3>. QED
      BY <2>2, <2>4, <3>1
  <2>5. ASSUME NEW k \in Keys, NEW v, Set(k, v) PROVE A
    BY <2>4, <2>5 DEF Set, NoTraversal
  <2>6. CASE lj_tab_clear
    BY <2>4, <2>6 DEF lj_tab_clear, NoTraversal
  <2>7. ASSUME NEW n, lj_tab_reasize(n) PROVE A
    BY <2>4, <2>7 DEF lj_tab_reasize, NoTraversal
  <2>8. ASSUME NEW s, NEW id, Recycle(s, id) PROVE A
    BY <2>4, <2>8 DEF Recycle
  <2>9. CASE StartTraversal
    BY <2>4, <2>9 DEF StartTraversal
  <2>. HIDE DEF A
  <2>. QED
    BY <2>3, <2>5, <2>6, <2>7, <2>8, <2>9 DEF Next
<1>. QED
  BY <1>1, Invariance, PTL DEF Spec, TraversalExact
--------------------------------------------------------------------------------
(* The refinement. *)

MapOf(S) == [k \in Keys |-> IF k \in S THEN k ELSE NULL]
Map == [k \in Keys |-> Get(t, k)]

LEMMA MapContents == IInv => Map = MapOf(Contents(t))
<1>. SUFFICES ASSUME IInv PROVE Map = MapOf(Contents(t))
  OBVIOUS
<1>1. SidOk /\ TabOk(sid, t)
  BY DEF IInv
<1>2. \A k \in Keys : Get(t, k) = IF k \in Contents(t) THEN k ELSE NULL
  BY <1>1, GetSpec
<1>. QED
  BY <1>2 DEF Map, MapOf

\* The function from keys to values after a step of the table that assigns v
\* to the keys in ks.
Over(m, ks, v) == [k \in Keys |-> IF k \in ks THEN v ELSE m[k]]

\* A change of the contents is a step of the table, by the operation that the
\* history names.
LEMMA EffectStep ==
  ASSUME NEW S, NEW R, Effect(S, R)
  PROVE  \/ MapOf(R) = MapOf(S) /\ op' = op
         \/ MapOf(R) = Over(MapOf(S), {}, NULL) /\ AssignsNone
         \/ MapOf(R) = Over(MapOf(S), Keys, NULL) /\ Assigns(Keys, NULL)
         \/ \E k \in Keys, v \in Keys \cup {NULL} :
              /\ v \in {k, NULL}
              /\ MapOf(R) = Over(MapOf(S), {k}, v) /\ Assigns({k}, v)
<1>1. Over(MapOf(S), {}, NULL) = MapOf(S)
  BY DEF Over, MapOf
<1>2. Over(MapOf(S), Keys, NULL) = MapOf({})
  BY DEF Over, MapOf
<1>3. ASSUME NEW k \in Keys, NEW v \in {k, NULL}, R = Changed(S, k, v)
      PROVE  MapOf(R) = Over(MapOf(S), {k}, v)
  <2>1. k # NULL
    BY KeysAssumption
  <2>. QED
    BY <1>3, <2>1 DEF MapOf, Changed, Over
<1>. QED
  BY <1>1, <1>2, <1>3 DEF Effect

\* A table is a function from keys to values: a store changes the value of the
\* key it stores, to what it stores, and no other, lj_tab_clear changes all to
\* nil, and a resize, an eviction, a traversal or a new string changes none,
\* though each moves nodes, main positions or the place of the traversal.
THEOREM Refinement == Spec => IsTable
<1>1. Init => Promise!Init
  <2>. SUFFICES ASSUME Init PROVE Promise!Init
    OBVIOUS
  <2>1. PICK b \in HBITS : t = NewTab(0, b)
    BY DEF Init
  <2>2. SidOk
    BY DEF Init, SidOk
  <2>3. Contents(t) = {}
    BY <2>1, <2>2, NewTabSpec
  <2>4. Map = MapOf({})
    BY <2>3, InitIInv, MapContents
  <2>5. op = <<{}, NULL>>
    BY DEF Init
  <2>. QED
    BY <2>4, <2>5 DEF Promise!Init, Map, MapOf
<1>2. IInv /\ [Next]_vars => Effect(Contents(t), Contents(t'))
  BY IInvStep
<1>3. /\ Map = MapOf(Contents(t)) /\ (Map = MapOf(Contents(t)))'
      /\ Effect(Contents(t), Contents(t'))
      => [Promise!Next]_<<[k \in Keys |-> Get(t, k)], op>>
  <2>. SUFFICES ASSUME Map = MapOf(Contents(t)), Map' = MapOf(Contents(t')),
                       Effect(Contents(t), Contents(t')), ~ (Map' = Map /\ op' = op)
                PROVE  Promise!Next
    BY DEF Map
  <2>1. ASSUME NEW ks, NEW v, Map' = Over(Map, ks, v), Assigns(ks, v)
        PROVE  Promise!Assign(ks, v)
    BY <2>1 DEF Promise!Assign, Over, Assigns, Map
  <2>2. CASE Map' = Over(Map, {}, NULL) /\ AssignsNone
    BY <2>1, <2>2 DEF AssignsNone, Promise!Next, Promise!Other
  <2>3. CASE Map' = Over(Map, Keys, NULL) /\ Assigns(Keys, NULL)
    BY <2>1, <2>3 DEF Promise!Next, Promise!Clear
  <2>4. ASSUME NEW k \in Keys, NEW v \in {k, NULL},
               Map' = Over(Map, {k}, v), Assigns({k}, v)
        PROVE  Promise!Next
    <3>1. Promise!Assign({k}, v)
      BY <2>1, <2>4
    <3>2. Promise!Set(k)
      BY <3>1 DEF Promise!Set, ValueOf
    <3>. QED
      BY <3>2 DEF Promise!Next
  <2>5. \/ Map' = Over(Map, {}, NULL) /\ AssignsNone
        \/ Map' = Over(Map, Keys, NULL) /\ Assigns(Keys, NULL)
        \/ \E k \in Keys, v \in Keys \cup {NULL} :
             v \in {k, NULL} /\ Map' = Over(Map, {k}, v) /\ Assigns({k}, v)
    BY EffectStep
  <2>. QED
    BY <2>2, <2>3, <2>4, <2>5
<1>. QED
  BY <1>1, <1>2, <1>3, MapContents, Invariance, PTL DEF Spec, IsTable, Promise!Spec
--------------------------------------------------------------------------------
(* The length. *)

Border(full, n) == (n > 0 => n \in full) /\ n + 1 \notin full
\* Two integers that a border lies between.
Closes(full, r) ==
  /\ r[1] < r[2] /\ (r[1] > 0 => r[1] \in full) /\ r[2] \notin full
Brackets(full) == {r \in Nat \X Nat : Closes(full, r)}

\* A step of lj_tab_len's search.
Halved(full, r) ==
  LET mid == (r[1] + r[2]) \div 2 IN
  IF r[2] - r[1] <= 1 THEN r ELSE IF mid \in full THEN <<mid, r[2]>> ELSE <<r[1], mid>>

LEMMA Halves ==
  ASSUME NEW full, NEW r \in Brackets(full)
  PROVE  /\ Halved(full, r) \in Brackets(full)
         /\ \/ r[2] - r[1] = 1 /\ Halved(full, r) = r
            \/ Halved(full, r)[2] - Halved(full, r)[1] < r[2] - r[1]
<1>. DEFINE a == r[1]
            b == r[2]
            mid == (a + b) \div 2
            q == Halved(full, r)
<1>1. /\ r = <<a, b>> /\ a \in Nat /\ b \in Nat /\ a < b /\ (a > 0 => a \in full)
      /\ b \notin full
  BY DEF Brackets, Closes
<1>2. q = IF b - a <= 1 THEN r ELSE IF mid \in full THEN <<mid, b>> ELSE <<a, mid>>
  BY DEF Halved
<1>. HIDE DEF a, b, q
<1>3. CASE b - a <= 1
  BY <1>1, <1>2, <1>3 DEF a, b, q
<1>4. CASE ~ (b - a <= 1)
  <2>1. mid \in Nat /\ a < mid /\ mid < b
    BY <1>1, <1>4
  <2>. HIDE DEF mid
  <2>2. CASE mid \in full
    <3>1. q = <<mid, b>> /\ q[1] = mid /\ q[2] = b
      BY <1>2, <1>4, <2>2
    <3>2. q \in Nat \X Nat /\ Closes(full, q)
      BY <1>1, <2>1, <2>2, <3>1 DEF Closes
    <3>3. q[2] - q[1] < b - a
      BY <1>1, <2>1, <3>1
    <3>. QED
      BY <3>2, <3>3 DEF Brackets, a, b, q
  <2>3. CASE mid \notin full
    <3>1. q = <<a, mid>> /\ q[1] = a /\ q[2] = mid
      BY <1>2, <1>4, <2>3
    <3>2. q \in Nat \X Nat /\ Closes(full, q)
      BY <1>1, <2>1, <2>3, <3>1 DEF Closes
    <3>3. q[2] - q[1] < b - a
      BY <1>1, <2>1, <3>1
    <3>. QED
      BY <3>2, <3>3 DEF Brackets, a, b, q
  <2>. QED
    BY <2>2, <2>3
<1>. QED
  BY <1>3, <1>4

LEMMA BisectSpec ==
  ASSUME NEW full, NEW lo \in Nat, NEW hi \in Nat, Closes(full, <<lo, hi>>)
  PROVE  Border(full, Bisect(full, lo, hi))
<1>. DEFINE m == hi - lo
            x == <<lo, hi>>
            H == Brackets(full)
            half(r) == Halved(full, r)
            Body(e) == [j \in 0..m |-> IF j = 0 THEN x ELSE half(e[j - 1])]
            range == CHOOSE e : e = Body(e)
<1>1. Bisect(full, lo, hi) = range[m][1]
  BY DEF Bisect, Halved
<1>2. m \in Nat /\ x \in H /\ x[1] = lo /\ x[2] = hi
  BY DEF Closes, Brackets
<1>3. \A r \in H : half(r) \in H
  BY Halves
<1>. HIDE DEF H, half
<1>4. \E e : e = Body(e) /\ e \in [0..m -> H]
  <2>. DEFINE st == [z \in (1..m) \X H |-> half(z[2])]
  <2>1. st \in [(1..m) \X H -> H]
    BY <1>3
  <2>2. PICK e : Repeats(e, m, H, st, x)
    <3>. HIDE DEF st, m, x
    <3>. QED
      BY <1>2, <2>1, Repeated
  <2>. HIDE DEF m, x
  <2>3. e \in [0..m -> H] /\ e[0] = x /\ \A j \in 1..m : e[j] = st[<<j, e[j - 1]>>]
    BY <2>2 DEF Repeats
  <2>4. \A j \in 1..m : e[j] = half(e[j - 1])
    <3>. SUFFICES ASSUME NEW j \in 1..m PROVE e[j] = half(e[j - 1])
      OBVIOUS
    <3>1. j - 1 \in 0..m
      BY <1>2
    <3>2. e[j - 1] \in H
      BY <2>3, <3>1
    <3>. QED
      BY <2>3, <3>2
  <2>5. \A j \in 0..m : e[j] = IF j = 0 THEN x ELSE half(e[j - 1])
    <3>1. \A j \in 0..m : j # 0 => j \in 1..m
      BY <1>2
    <3>. QED
      BY <2>3, <2>4, <3>1
  <2>6. e = Body(e)
    BY <2>3, <2>5
  <2>. QED
    BY <2>3, <2>6
<1>5. range = Body(range)
  <2>. HIDE DEF Body
  <2>. QED
    BY <1>4
<1>. HIDE DEF range
<1>6. /\ range[0] = x
      /\ \A j \in 1..m : range[j] = half(range[j - 1])
  <2>. HIDE DEF m, x
  <2>1. \A j \in 0..m : range[j] = IF j = 0 THEN x ELSE half(range[j - 1])
    BY <1>5
  <2>2. 0 \in 0..m /\ \A j \in 1..m : j \in 0..m /\ j # 0
    BY <1>2
  <2>. QED
    BY <2>1, <2>2
<1>. DEFINE Narrow(j, r) == r \in H /\ (r[2] - r[1] = 1 \/ r[2] - r[1] <= m - j)
            T == {j \in Nat : j <= m => Narrow(j, range[j])}
<1>7. 0 \in T
  BY <1>2, <1>6
<1>8. ASSUME NEW j \in Nat, j \in T PROVE j + 1 \in T
  <2>. SUFFICES ASSUME j + 1 <= m PROVE Narrow(j + 1, range[j + 1])
    OBVIOUS
  <2>. HIDE DEF m, x
  <2>. DEFINE r == range[j]
              q == range[j + 1]
  <2>1. Narrow(j, r) /\ j + 1 \in 1..m /\ (j + 1) - 1 = j
    BY <1>2, <1>8
  <2>2. q = half(r)
    BY <1>6, <2>1
  <2>. HIDE DEF r, q
  <2>3. /\ q \in H
        /\ (r[2] - r[1] = 1 /\ q = r) \/ q[2] - q[1] < r[2] - r[1]
    BY <2>1, <2>2, Halves DEF H, half
  <2>4. r[1] \in Nat /\ r[2] \in Nat /\ q[1] \in Nat /\ q[2] \in Nat
    BY <2>1, <2>3 DEF H, Brackets
  <2>5. q[2] - q[1] = 1 \/ q[2] - q[1] <= m - (j + 1)
    BY <1>2, <2>1, <2>3, <2>4
  <2>. QED
    BY <2>3, <2>5 DEF q
<1>9. Narrow(m, range[m])
  <2>1. \A j \in Nat : j \in T
    <3>. HIDE DEF T
    <3>. QED
      BY <1>7, <1>8, SetInduction
  <2>. QED
    BY <1>2, <2>1
<1>. DEFINE r == range[m]
<1>10. Border(full, r[1])
  <2>1. r \in Brackets(full) /\ (r[2] - r[1] = 1 \/ r[2] - r[1] <= m - m)
    BY <1>9 DEF H
  <2>. HIDE DEF r, m
  <2>2. r[1] \in Nat /\ r[2] \in Nat /\ r[1] < r[2] /\ Closes(full, r)
    BY <2>1 DEF Brackets, Closes
  <2>3. r[2] = r[1] + 1
    BY <1>2, <2>1, <2>2
  <2>. QED
    BY <2>2, <2>3 DEF Closes, Border
<1>. QED
  BY <1>1, <1>10

\* The search widens the range until it has a border.
LEMMA WidenSpec ==
  ASSUME NEW full \in SUBSET Nat, IsFiniteSet(full), NEW lo \in Nat, lo > 0 => lo \in full
  PROVE  Border(full, Widen(full, lo, lo + 1))
<1>. DEFINE n == Max(full \cup {0})
            x == <<lo, lo + 1>>
            H == {r \in Nat \X Nat : r[1] < r[2] /\ (r[1] > 0 => r[1] \in full)}
            wide(r) == IF r[2] \in full THEN <<r[2], r[2] + r[2]>> ELSE r
            Body(e) == [j \in 0..n |-> IF j = 0 THEN x ELSE wide(e[j - 1])]
            range == CHOOSE e : e = Body(e)
<1>1. Widen(full, lo, lo + 1) = Bisect(full, range[n][1], range[n][2])
  BY DEF Widen
<1>2. n \in Nat /\ \A i \in full : i <= n
  <2>. DEFINE S == full \cup {0}
  <2>1. S \in SUBSET Nat /\ S # {} /\ IsFiniteSet(S)
    BY FS_AddElement
  <2>2. PICK b \in Nat : S \in SUBSET (0..b)
    <3>. HIDE DEF S
    <3>. QED
      BY <2>1, NatBounded
  <2>3. IsMax(S, Max(S))
    <3>. HIDE DEF S
    <3>. QED
      BY <2>1, <2>2, MaxNat
  <2>. QED
    BY <2>3, <2>1 DEF IsMax
<1>3. x \in H /\ x[1] = lo /\ x[2] = lo + 1
  OBVIOUS
<1>4. ASSUME NEW r \in H
      PROVE  /\ wide(r) \in H
             /\ IF r[2] \in full THEN wide(r)[2] > r[2] ELSE wide(r) = r
  <2>. DEFINE a == r[1]
              b == r[2]
  <2>1. r = <<a, b>> /\ a \in Nat /\ b \in Nat /\ a < b
    OBVIOUS
  <2>2. wide(r) = IF b \in full THEN <<b, b + b>> ELSE r
    OBVIOUS
  <2>. HIDE DEF a, b, wide
  <2>3. CASE b \in full
    <3>1. wide(r) = <<b, b + b>> /\ wide(r)[2] = b + b /\ wide(r)[1] = b /\ b + b \in Nat
      BY <2>1, <2>2, <2>3
    <3>2. wide(r) \in Nat \X Nat /\ b < b + b
      BY <2>1, <3>1
    <3>. QED
      BY <2>3, <3>1, <3>2 DEF b
  <2>4. CASE b \notin full
    BY <2>2, <2>4 DEF b
  <2>. QED
    BY <2>3, <2>4
<1>. HIDE DEF n, x, H, wide
<1>5. \E e : e = Body(e) /\ e \in [0..n -> H]
  <2>. DEFINE st == [z \in (1..n) \X H |-> wide(z[2])]
  <2>1. st \in [(1..n) \X H -> H]
    BY <1>4
  <2>2. PICK e : Repeats(e, n, H, st, x)
    <3>. HIDE DEF st
    <3>. QED
      BY <1>2, <1>3, <2>1, Repeated
  <2>3. e \in [0..n -> H] /\ e[0] = x /\ \A j \in 1..n : e[j] = st[<<j, e[j - 1]>>]
    BY <2>2 DEF Repeats
  <2>4. \A j \in 1..n : e[j] = wide(e[j - 1])
    <3>. SUFFICES ASSUME NEW j \in 1..n PROVE e[j] = wide(e[j - 1])
      OBVIOUS
    <3>1. j - 1 \in 0..n
      BY <1>2
    <3>2. e[j - 1] \in H
      BY <2>3, <3>1
    <3>. QED
      BY <2>3, <3>2
  <2>5. \A j \in 0..n : e[j] = IF j = 0 THEN x ELSE wide(e[j - 1])
    <3>1. \A j \in 0..n : j # 0 => j \in 1..n
      BY <1>2
    <3>. QED
      BY <2>3, <2>4, <3>1
  <2>6. e = Body(e)
    BY <2>3, <2>5
  <2>. QED
    BY <2>3, <2>6
<1>6. range = Body(range)
  <2>. HIDE DEF Body
  <2>. QED
    BY <1>5
<1>. HIDE DEF range
<1>7. /\ range[0] = x
      /\ \A j \in 1..n : range[j] = wide(range[j - 1])
  <2>1. \A j \in 0..n : range[j] = IF j = 0 THEN x ELSE wide(range[j - 1])
    BY <1>6
  <2>2. 0 \in 0..n /\ \A j \in 1..n : j \in 0..n /\ j # 0
    BY <1>2
  <2>. QED
    BY <2>1, <2>2
<1>. DEFINE Wide(j, r) == r \in H /\ (r[2] \notin full \/ r[2] > j)
            T == {j \in Nat : j <= n => Wide(j, range[j])}
<1>8. 0 \in T
  <2>1. x[2] > 0
    BY <1>3
  <2>. QED
    BY <1>3, <1>7, <2>1
<1>9. ASSUME NEW j \in Nat, j \in T PROVE j + 1 \in T
  <2>. SUFFICES ASSUME j + 1 <= n PROVE Wide(j + 1, range[j + 1])
    OBVIOUS
  <2>. DEFINE r == range[j]
              q == range[j + 1]
  <2>1. Wide(j, r) /\ j + 1 \in 1..n /\ (j + 1) - 1 = j
    BY <1>2, <1>9
  <2>2. q = wide(r)
    BY <1>7, <2>1
  <2>. HIDE DEF r, q
  <2>3. q \in H /\ IF r[2] \in full THEN q[2] > r[2] ELSE q = r
    BY <2>1, <2>2, <1>4
  <2>4. r[2] \in Nat /\ q[2] \in Nat
    BY <2>1, <2>3 DEF H
  <2>5. q[2] \notin full \/ q[2] > j + 1
    BY <2>1, <2>3, <2>4
  <2>. QED
    BY <2>3, <2>5 DEF q
<1>10. Wide(n, range[n])
  <2>1. \A j \in Nat : j \in T
    <3>. HIDE DEF T
    <3>. QED
      BY <1>8, <1>9, SetInduction
  <2>. QED
    BY <1>2, <2>1
<1>. DEFINE r == range[n]
            a == r[1]
            b == r[2]
<1>11. a \in Nat /\ b \in Nat /\ a < b /\ (a > 0 => a \in full) /\ (b \notin full \/ b > n)
  BY <1>10 DEF H
<1>. HIDE DEF r, a, b
<1>12. b \notin full
  BY <1>2, <1>11
<1>13. Closes(full, <<a, b>>)
  BY <1>11, <1>12 DEF Closes
<1>14. Border(full, Bisect(full, a, b))
  BY <1>11, <1>13, BisectSpec
<1>. QED
  BY <1>1, <1>14 DEF a, b, r
--------------------------------------------------------------------------------
LEMMA NonNilSpec ==
  ASSUME SidOk, NEW h, TabOk(sid, h)
  PROVE  /\ NonNil(h) = Contents(h) \cap Ints
         /\ NonNil(h) \in SUBSET Nat /\ IsFiniteSet(NonNil(h))
<1>1. \A k \in Ints : Get(h, k) # NULL <=> k \in Contents(h)
  BY GetSpec, KeysAssumption DEF Keys
<1>2. NonNil(h) = Contents(h) \cap Ints
  BY <1>1 DEF NonNil
<1>3. NonNil(h) \in SUBSET Keys
  BY <1>2 DEF Keys
<1>. QED
  BY <1>2, <1>3, KeysFinite, KeysAssumption

\* What the array part tells of the integers of its size.
LEMMA ArrayNonNil ==
  ASSUME SidOk, NEW h, TabOk(sid, h), NEW i \in 0..(h.asize - 1)
  PROVE  i \in NonNil(h) <=> h.array[i] # NULL
<1>1. h.array[i] # NULL => i \in ArrayKeys(h)
  BY DEF ArrayKeys
<1>2. \A k \in ArrayKeys(h) : k \in Ints /\ h.array[k] = k
  BY ContentsKeys
<1>3. ASSUME i \in Ints, h.array[i] = NULL PROVE i \notin Contents(h)
  <2>1. inarray(h, i)
    BY <1>3 DEF inarray, TabOk
  <2>2. i \notin LiveKeys(h.node)
    BY <2>1, ContentsKeys
  <2>3. i \notin ArrayKeys(h)
    BY <1>3 DEF ArrayKeys
  <2>. QED
    BY <2>2, <2>3 DEF Contents
<1>. QED
  BY <1>1, <1>2, <1>3, NonNilSpec DEF Contents

\* Without a hash part there is nothing behind the array part.
LEMMA NoneBehind ==
  ASSUME SidOk, NEW h, TabOk(sid, h), h.hmask = 0, NEW i \in Nat, i >= h.asize
  PROVE  i \notin NonNil(h)
<1>1. DOMAIN h.node = 0..0 /\ h.node[0] = NilNode /\ h.asize \in Nat
  BY DEF TabOk, Sound, Woven
<1>2. Live(h.node) = {}
  BY <1>1 DEF Live, NilNode
<1>3. Contents(h) = ArrayKeys(h)
  BY <1>2 DEF Contents, LiveKeys
<1>4. i \notin ArrayKeys(h)
  BY <1>1 DEF ArrayKeys
<1>. QED
  BY <1>3, <1>4, NonNilSpec

LEMMA LenSpec ==
  ASSUME SidOk, NEW h, TabOk(sid, h)
  PROVE  Border(NonNil(h), len(h))
<1>. DEFINE hi == IF h.asize > 0 THEN h.asize - 1 ELSE 0
            full == NonNil(h)
<1>1. h.asize \in Nat /\ h.hmask \in Nat /\ hi \in Nat /\ full \in SUBSET Nat /\ IsFiniteSet(full)
  BY NonNilSpec DEF TabOk
<1>2. /\ len(h) = IF hi > 0 /\ h.array[hi] = NULL THEN Bisect(full, 0, hi)
                  ELSE IF h.hmask > 0 THEN Widen(full, hi, hi + 1) ELSE hi
      /\ hi > 0 => hi \in 0..(h.asize - 1)
      /\ h.asize <= hi + 1
  BY <1>1 DEF len
<1>. HIDE DEF hi, full
<1>3. hi > 0 => (hi \in full <=> h.array[hi] # NULL)
  BY <1>2, ArrayNonNil DEF full
<1>4. CASE hi > 0 /\ h.array[hi] = NULL
  <2>1. Closes(full, <<0, hi>>)
    BY <1>1, <1>3, <1>4 DEF Closes
  <2>2. Border(full, Bisect(full, 0, hi))
    BY <1>1, <2>1, BisectSpec
  <2>. QED
    BY <1>2, <1>4, <2>2 DEF full
<1>5. CASE ~ (hi > 0 /\ h.array[hi] = NULL) /\ h.hmask > 0
  <2>1. Border(full, Widen(full, hi, hi + 1))
    BY <1>1, <1>3, <1>5, WidenSpec
  <2>. QED
    BY <1>2, <1>5, <2>1 DEF full
<1>6. CASE ~ (hi > 0 /\ h.array[hi] = NULL) /\ ~ (h.hmask > 0)
  <2>1. len(h) = hi /\ h.hmask = 0 /\ hi + 1 \in Nat /\ hi + 1 >= h.asize
    BY <1>1, <1>2, <1>6
  <2>2. hi + 1 \notin full
    BY <2>1, NoneBehind DEF full
  <2>. QED
    BY <1>3, <1>6, <2>1, <2>2 DEF Border, full
<1>. QED
  BY <1>4, <1>5, <1>6

LEMMA HintSpec ==
  ASSUME SidOk, NEW h, TabOk(sid, h), NEW i \in 0..h.asize
  PROVE  Border(NonNil(h), len_hint(h, i))
<1>1. h.asize \in Nat /\ h.hmask \in Nat /\ i \in Nat
  BY DEF TabOk
<1>2. CASE i + 1 < h.asize /\ h.array[i] # NULL /\ h.array[i + 1] = NULL
  <2>1. len_hint(h, i) = i
    BY <1>2 DEF len_hint
  <2>2. i \in 0..(h.asize - 1) /\ i + 1 \in 0..(h.asize - 1)
    BY <1>1, <1>2
  <2>3. i \in NonNil(h) /\ i + 1 \notin NonNil(h)
    BY <1>2, <2>2, ArrayNonNil
  <2>. QED
    BY <2>1, <2>3 DEF Border
<1>3. CASE ~ (i + 1 < h.asize) /\ i + 1 <= h.asize /\ h.hmask = 0 /\ h.array[i] # NULL
  <2>1. len_hint(h, i) = i
    BY <1>3 DEF len_hint
  <2>2. i \in 0..(h.asize - 1) /\ i + 1 \in Nat /\ i + 1 >= h.asize
    BY <1>1, <1>3
  <2>3. i \in NonNil(h)
    BY <1>3, <2>2, ArrayNonNil
  <2>4. i + 1 \notin NonNil(h)
    BY <1>3, <2>2, NoneBehind
  <2>. QED
    BY <2>1, <2>3, <2>4 DEF Border
<1>4. CASE len_hint(h, i) = len(h)
  BY <1>4, LenSpec
<1>5. \/ i + 1 < h.asize /\ h.array[i] # NULL /\ h.array[i + 1] = NULL
      \/ ~ (i + 1 < h.asize) /\ i + 1 <= h.asize /\ h.hmask = 0 /\ h.array[i] # NULL
      \/ len_hint(h, i) = len(h)
  BY DEF len_hint
<1>. QED
  BY <1>2, <1>3, <1>4, <1>5

\* What lj_tab_len returns, by its bisection of the array part or by
\* unbound_search in the hash part, and lj_tab_len_hint for any hint, is a
\* border: 0 or a number that is a key, whose successor is not a key.
THEOREM LengthIsBorder == Spec => []LenIsBorder
<1>1. IInv => LenIsBorder
  <2>. SUFFICES ASSUME IInv PROVE LenIsBorder
    OBVIOUS
  <2>1. SidOk /\ TabOk(sid, t)
    BY DEF IInv
  <2>2. \A i \in 0..t.asize : Border(NonNil(t), len_hint(t, i))
    BY <2>1, HintSpec
  <2>3. Border(NonNil(t), len(t))
    BY <2>1, LenSpec
  <2>4. \A n \in {len(t)} \cup {len_hint(t, i) : i \in 0..t.asize} : Border(NonNil(t), n)
    BY <2>2, <2>3
  <2>. QED
    BY <2>4 DEF LenIsBorder, Border
<1>. QED
  BY <1>1, Invariance, PTL
================================================================================
