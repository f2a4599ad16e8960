------------------------- MODULE SessionCacheProofs -------------------------
(***************************************************************************)
(* The session cache for any block, any masks, identifiers and sessions:   *)
(* its tree and its list always have the same entries, and it is a map of  *)
(* the most recently used sessions.                                        *)
(*                                                                         *)
(* The invariant names what the cache does not store: the sequence s of    *)
(* the entries in the order of the list, and ranks r of the nodes, with    *)
(* which the search tree is the one that inserting them in the order of    *)
(* their ranks gives.  So the tree is fixed by the keys and the ranks:     *)
(* each child is the highest in rank of what belongs below its parent on   *)
(* its side.  An insertion adds a node of the last rank; a removal takes   *)
(* out a node with one child at most, after which the neighbour of the     *)
(* removed key takes over its place and its rank.                          *)
(*                                                                         *)
(* The lemmas about one side of the tree are stated for an order q of the  *)
(* nodes, the keys or their negatives, so that they serve both sides.      *)
(***************************************************************************)
EXTENDS SessionCache, FiniteSets, WellFoundedInduction, FiniteSetTheorems, SequenceTheorems, TLAPS

(* A set of numbers has a least one.                                       *)
LEMMA LeastExists ==
  ASSUME NEW T, T \subseteq Nat, T # {}
  PROVE  \E m \in T : \A n \in T : m <= n
<1> DEFINE R == OpToRel(<, Nat)
<1>1. IsWellFoundedOn(R, Nat)
  BY NatLessThanWellFounded
<1>2. \A m, n \in Nat : <<m, n>> \in R <=> m < n
  BY DEF OpToRel
<1> HIDE DEF R
<1>3. PICK m \in T : \A n \in T : ~(<<n, m>> \in R)
  BY <1>1, WFMin, Zenon
<1>4. \A n \in T : n \in Nat /\ m \in Nat /\ ~(n < m)
  BY <1>2, <1>3
<1> QED BY <1>3, <1>4

(* What holds of 0 and passes to the next number holds up to N.            *)
LEMMA UpTo ==
  ASSUME NEW N \in Nat, NEW G, 0 \in G, \A n \in 0 .. N - 1 : n \in G => n + 1 \in G
  PROVE  \A n \in 0 .. N : n \in G
<1> DEFINE T == {n \in 0 .. N : n \notin G}
<1> SUFFICES ASSUME T # {} PROVE FALSE
  OBVIOUS
<1>1. PICK m \in T : \A n \in T : m <= n
  <2>1. T \subseteq Nat
    OBVIOUS
  <2> HIDE DEF T
  <2> QED BY <2>1, LeastExists
<1>2. m # 0 /\ m - 1 \in 0 .. N - 1
  BY <1>1
<1>3. m - 1 \in G
  BY <1>1, <1>2
<1>4. (m - 1) + 1 \in G
  BY <1>2, <1>3
<1> QED BY <1>1, <1>4

(* A loop: the values of a variable that each turn replaces.               *)
IsLoop(N, S, start, step) == N \in Nat /\ start \in S /\ step \in [S -> S]

(* A loop of N turns that starts in S and stays there has values.          *)
LEMMA LoopExists ==
  ASSUME NEW N, NEW S, NEW start, NEW step, IsLoop(N, S, start, step)
  PROVE  \E at \in [0 .. N -> S] :
           at[0] = start /\ \A n \in 1 .. N : at[n] = step[at[n - 1]]
<1> USE DEF IsLoop
<1> DEFINE Runs(k, at) == at \in [0 .. k -> S] /\ at[0] = start /\ \A n \in 1 .. k : at[n] = step[at[n - 1]]
           G == {k \in Nat : \E at : Runs(k, at)}
<1>1. 0 \in G
  <2>1. Runs(0, [n \in 0 .. 0 |-> start])
    OBVIOUS
  <2> HIDE DEF Runs
  <2> QED BY <2>1
<1>2. \A k \in 0 .. N - 1 : k \in G => k + 1 \in G
  <2> SUFFICES ASSUME NEW k \in 0 .. N - 1, k \in G PROVE k + 1 \in G
    OBVIOUS
  <2>1. PICK at : Runs(k, at)
    OBVIOUS
  <2> DEFINE more == [n \in 0 .. k + 1 |-> IF n = k + 1 THEN step[at[k]] ELSE at[n]]
  <2>2. at[k] \in S
    BY <2>1
  <2>3. more \in [0 .. k + 1 -> S]
    BY <2>1, <2>2
  <2>4. more[0] = start
    BY <2>1
  <2>5. \A n \in 1 .. k + 1 : more[n] = step[more[n - 1]]
    <3> TAKE n \in 1 .. k + 1
    <3>1. CASE n = k + 1
      BY <3>1
    <3>2. CASE n \in 1 .. k
      BY <3>2, <2>1
    <3> QED BY <3>1, <3>2
  <2>6. Runs(k + 1, more)
    BY <2>3, <2>4, <2>5
  <2> HIDE DEF Runs, more
  <2> QED BY <2>6
<1>3. N \in G
  <2> HIDE DEF G
  <2> QED BY <1>1, <1>2, UpTo
<1>4. PICK at : Runs(N, at)
  BY <1>3
<1> QED BY <1>4

-----------------------------------------------------------------------------
(* The order of the keys, seen from the other side.                        *)
Mirrored(q) == [b \in DOMAIN q |-> -q[b]]

(* The nodes N have places in the order q and ranks r, all different.      *)
Ranked(N, q, r) ==
  /\ NoAddress \notin N /\ N \subseteq DOMAIN q
  /\ \A a \in N : q[a] \in Int /\ r[a] \in Nat
  /\ \A a, b \in N : a # b => q[a] # q[b] /\ r[a] # r[b]

(* The nodes that the left subtree of a has to hold in the tree in which   *)
(* nodes were inserted in the order of r: those before a in order with no  *)
(* node ranked above a between.                                            *)
Lower(N, q, r, a) ==
  {b \in N : q[b] < q[a] /\ \A c \in N : q[b] <= q[c] /\ q[c] < q[a] => r[a] < r[c]}

(* p is the order q from the other side.                                   *)
Opposite(N, q, p) == \A b \in N : p[b] = -q[b]

(* x is the highest in rank of a set of nodes: the root of their tree.     *)
Highest(S, r, x) ==
  IF S = {} THEN x = NoAddress ELSE x \in S /\ \A c \in S : r[x] <= r[c]

(* The nodes are ranked on the other side as well.                         *)
LEMMA MirrorRanked ==
  ASSUME NEW N, NEW q, NEW r, Ranked(N, q, r)
  PROVE  Ranked(N, Mirrored(q), r) /\ Opposite(N, q, Mirrored(q)) /\ Opposite(N, Mirrored(q), q)
BY DEF Ranked, Mirrored, Opposite

(* A node with no child on one side has an ancestor next to it there.      *)
LEMMA NoChildNextTo ==
  ASSUME NEW N, NEW q, NEW r, Ranked(N, q, r),
         NEW y \in N, Lower(N, q, r, y) = {}, NEW b \in N, q[b] < q[y]
  PROVE  \E p \in N : q[b] <= q[p] /\ q[p] < q[y] /\ r[p] < r[y]
<1> USE DEF Ranked
<1> DEFINE T == {q[y] - q[c] : c \in {d \in N : q[d] < q[y]}}
<1>1. T \subseteq Nat /\ T # {}
  OBVIOUS
<1>2. PICK m \in T : \A n \in T : m <= n
  <2> HIDE DEF T
  <2> QED BY <1>1, LeastExists
<1>3. PICK p \in N : q[p] < q[y] /\ m = q[y] - q[p]
  OBVIOUS
<1>4. \A c \in N : q[c] < q[y] => q[c] <= q[p]
  <2> TAKE c \in N
  <2> HAVE q[c] < q[y]
  <2>1. m <= q[y] - q[c]
    BY <1>2
  <2> QED BY <2>1, <1>3
<1>5. PICK c \in N : q[p] <= q[c] /\ q[c] < q[y] /\ ~(r[y] < r[c])
  BY <1>3 DEF Lower
<1>6. c = p
  BY <1>3, <1>4, <1>5
<1> QED BY <1>3, <1>4, <1>5, <1>6

(* A node without a child on the upper side of q is taken out.             *)
LEMMA SpliceSame ==
  ASSUME NEW N, NEW q, NEW p, NEW r, Ranked(N, q, r), Ranked(N, p, r), Opposite(N, q, p),
         NEW y \in N, Lower(N, p, r, y) = {}, NEW z, Highest(Lower(N, q, r, y), r, z),
         NEW a \in N \ {y}, NEW x, Highest(Lower(N, q, r, a), r, x)
  PROVE  Highest(Lower(N \ {y}, q, r, a), r, IF x = y THEN z ELSE x)
<1> USE DEF Ranked, Opposite
<1>0. \A b \in N : q[y] < q[b] => \E s \in N : q[s] <= q[b] /\ q[y] < q[s] /\ r[s] < r[y]
  <2> TAKE b \in N
  <2> HAVE q[y] < q[b]
  <2>1. p[b] < p[y]
    OBVIOUS
  <2>2. PICK s \in N : p[b] <= p[s] /\ p[s] < p[y] /\ r[s] < r[y]
    BY <2>1, NoChildNextTo
  <2> QED BY <2>2
<1>1. Lower(N \ {y}, q, r, a) = Lower(N, q, r, a) \ {y}
  <2>1. ASSUME NEW b \in Lower(N \ {y}, q, r, a), b \notin Lower(N, q, r, a)
        PROVE  FALSE
    <3>1. b \in N /\ b # y /\ q[b] < q[a]
      BY <2>1 DEF Lower
    <3>2. q[b] <= q[y] /\ q[y] < q[a] /\ ~(r[a] < r[y])
      BY <2>1, <3>1 DEF Lower
    <3>3. PICK s \in N : q[s] <= q[a] /\ q[y] < q[s] /\ r[s] < r[y]
      BY <3>2, <1>0
    <3>4. s = a \/ r[a] < r[s]
      BY <2>1, <3>1, <3>2, <3>3 DEF Lower
    <3> QED BY <3>2, <3>3, <3>4
  <2>2. Lower(N, q, r, a) \ {y} \subseteq Lower(N \ {y}, q, r, a)
    BY DEF Lower
  <2>3. y \notin Lower(N \ {y}, q, r, a)
    BY DEF Lower
  <2> QED BY <2>1, <2>2, <2>3
<1>2. ASSUME Highest(Lower(N, q, r, a), r, y)
      PROVE  Lower(N, q, r, a) \ {y} = Lower(N, q, r, y)
  <2>1. y \in Lower(N, q, r, a) /\ \A c \in Lower(N, q, r, a) : r[y] <= r[c]
    BY <1>2 DEF Highest
  <2>2. q[y] < q[a] /\ r[a] < r[y] /\ \A c \in N : q[y] <= q[c] /\ q[c] < q[a] => r[a] < r[c]
    BY <2>1 DEF Lower
  <2>3. ASSUME NEW b \in Lower(N, q, r, a), b # y
        PROVE  b \in Lower(N, q, r, y)
    <3>1. b \in N /\ q[b] < q[a] /\ \A c \in N : q[b] <= q[c] /\ q[c] < q[a] => c \in Lower(N, q, r, a)
      BY DEF Lower
    <3>2. CASE q[y] < q[b]
      <4>1. PICK s \in N : q[s] <= q[b] /\ q[y] < q[s] /\ r[s] < r[y]
        BY <3>1, <3>2, <1>0
      <4>2. s \in Lower(N, q, r, a)
        <5>1. \A c \in N : q[s] <= q[c] /\ q[c] < q[a] => r[a] < r[c]
          BY <2>2, <4>1
        <5> QED BY <3>1, <4>1, <5>1 DEF Lower
      <4> QED BY <4>1, <4>2, <2>1
    <3>3. CASE q[b] < q[y]
      <4>1. \A c \in N : q[b] <= q[c] /\ q[c] < q[y] => r[y] < r[c]
        <5> TAKE c \in N
        <5> HAVE q[b] <= q[c] /\ q[c] < q[y]
        <5>1. c \in Lower(N, q, r, a)
          BY <3>1, <2>2
        <5> QED BY <5>1, <2>1
      <4> QED BY <3>1, <3>3, <4>1 DEF Lower
    <3> QED BY <2>3, <3>1, <3>2, <3>3
  <2>4. ASSUME NEW b \in Lower(N, q, r, y)
        PROVE  b \in Lower(N, q, r, a) /\ b # y
    <3>1. b \in N /\ q[b] < q[y] /\ \A c \in N : q[b] <= q[c] /\ q[c] < q[y] => r[y] < r[c]
      BY DEF Lower
    <3>2. \A c \in N : q[b] <= q[c] /\ q[c] < q[a] => r[a] < r[c]
      BY <3>1, <2>2
    <3> QED BY <3>1, <3>2, <2>2 DEF Lower
  <2> QED BY <2>3, <2>4
<1>3. CASE x = y
  BY <1>1, <1>2, <1>3
<1>4. CASE x # y
  BY <1>1, <1>4 DEF Highest
<1> QED BY <1>3, <1>4

(* The same on the side where it has no child.                             *)
LEMMA SpliceOther ==
  ASSUME NEW N, NEW q, NEW p, NEW r, Ranked(N, q, r), Ranked(N, p, r), Opposite(N, q, p),
         NEW y \in N, Lower(N, p, r, y) = {}, NEW z, Highest(Lower(N, q, r, y), r, z),
         NEW a \in N \ {y}, NEW x, Highest(Lower(N, p, r, a), r, x)
  PROVE  Highest(Lower(N \ {y}, p, r, a), r, IF x = y THEN z ELSE x)
<1> USE DEF Ranked, Opposite
<1>0. \A b \in N : p[b] < p[y] => \E s \in N : p[b] <= p[s] /\ p[s] < p[y] /\ r[s] < r[y]
  BY NoChildNextTo
<1>1. Lower(N \ {y}, p, r, a) = Lower(N, p, r, a) \ {y}
  <2>1. ASSUME NEW b \in Lower(N \ {y}, p, r, a), b \notin Lower(N, p, r, a)
        PROVE  FALSE
    <3>1. b \in N /\ b # y /\ p[b] < p[a]
      BY <2>1 DEF Lower
    <3>2. p[b] < p[y] /\ p[y] < p[a] /\ ~(r[a] < r[y])
      BY <2>1, <3>1 DEF Lower
    <3>3. PICK s \in N : p[b] <= p[s] /\ p[s] < p[y] /\ r[s] < r[y]
      BY <3>1, <3>2, <1>0
    <3>4. r[a] < r[s]
      BY <2>1, <3>1, <3>2, <3>3 DEF Lower
    <3> QED BY <3>1, <3>2, <3>3, <3>4
  <2>2. Lower(N, p, r, a) \ {y} \subseteq Lower(N \ {y}, p, r, a)
    BY DEF Lower
  <2>3. y \notin Lower(N \ {y}, p, r, a)
    BY DEF Lower
  <2> QED BY <2>1, <2>2, <2>3
<1>2. ASSUME Highest(Lower(N, p, r, a), r, y)
      PROVE  Lower(N, p, r, a) \ {y} = Lower(N, q, r, y)
  <2>1. y \in Lower(N, p, r, a) /\ \A c \in Lower(N, p, r, a) : r[y] <= r[c]
    BY <1>2 DEF Highest
  <2>2. p[y] < p[a] /\ r[a] < r[y] /\ \A c \in N : p[y] <= p[c] /\ p[c] < p[a] => r[a] < r[c]
    BY <2>1 DEF Lower
  <2>3. ASSUME NEW b \in Lower(N, p, r, a), b # y
        PROVE  b \in Lower(N, q, r, y)
    <3>1. b \in N /\ p[b] < p[a] /\ \A c \in N : p[b] <= p[c] /\ p[c] < p[a] => c \in Lower(N, p, r, a)
      BY DEF Lower
    <3>2. CASE p[b] < p[y]
      <4>1. PICK s \in N : p[b] <= p[s] /\ p[s] < p[y] /\ r[s] < r[y]
        BY <3>1, <3>2, <1>0
      <4>2. s \in Lower(N, p, r, a)
        BY <4>1, <3>1, <2>2
      <4> QED BY <4>1, <4>2, <2>1
    <3>3. CASE p[y] < p[b]
      <4>1. \A c \in N : p[y] < p[c] /\ p[c] <= p[b] => c \in Lower(N, p, r, a)
        BY <3>1, <2>2 DEF Lower
      <4>2. \A c \in N : q[b] <= q[c] /\ q[c] < q[y] => r[y] < r[c]
        <5> TAKE c \in N
        <5> HAVE q[b] <= q[c] /\ q[c] < q[y]
        <5>1. c \in Lower(N, p, r, a)
          BY <3>1, <4>1
        <5> QED BY <5>1, <2>1
      <4> QED BY <3>1, <3>3, <4>2 DEF Lower
    <3> QED BY <2>3, <3>1, <3>2, <3>3
  <2>4. ASSUME NEW b \in Lower(N, q, r, y)
        PROVE  b \in Lower(N, p, r, a) /\ b # y
    <3>1. b \in N /\ q[b] < q[y] /\ \A c \in N : q[b] <= q[c] /\ q[c] < q[y] => r[y] < r[c]
      BY DEF Lower
    <3>2. p[b] < p[a]
      BY <3>1, <2>2
    <3>3. \A c \in N : p[b] <= p[c] /\ p[c] < p[a] => r[a] < r[c]
      BY <3>1, <2>2
    <3> QED BY <3>1, <3>2, <3>3 DEF Lower
  <2> QED BY <2>3, <2>4
<1>3. CASE x = y
  BY <1>1, <1>2, <1>3
<1>4. CASE x # y
  BY <1>1, <1>4 DEF Highest
<1> QED BY <1>3, <1>4

(* Nothing lies above the highest node.                                    *)
LEMMA SpliceTop ==
  ASSUME NEW N, NEW q, NEW p, NEW r, Ranked(N, q, r), Ranked(N, p, r), Opposite(N, q, p),
         NEW y \in N, Lower(N, p, r, y) = {}, Highest(N, r, y),
         NEW z, Highest(Lower(N, q, r, y), r, z)
  PROVE  Highest(N \ {y}, r, z)
<1> USE DEF Ranked, Opposite
<1>1. \A c \in N : c # y => r[y] < r[c]
  BY DEF Highest
<1>2. \A b \in N : ~(p[b] < p[y])
  <2> TAKE b \in N
  <2> SUFFICES ASSUME p[b] < p[y] PROVE FALSE
    OBVIOUS
  <2>1. PICK s \in N : p[b] <= p[s] /\ p[s] < p[y] /\ r[s] < r[y]
    BY NoChildNextTo
  <2> QED BY <1>1, <2>1
<1>3. N \ {y} = Lower(N, q, r, y)
  <2>1. \A b \in N \ {y} : q[b] < q[y]
    BY <1>2
  <2> QED BY <1>1, <2>1 DEF Lower
<1> QED BY <1>3

(* The tree over N with the keys k: what its root and its links point to.  *)
Tops(rt, L, R, k, r, N) ==
  /\ Ranked(N, k, r)
  /\ Highest(N, r, rt)
  /\ \A a \in N : /\ Highest(Lower(N, k, r, a), r, L[a])
                  /\ Highest(Lower(N, Mirrored(k), r, a), r, R[a])

(* The links of a tree stay inside it.                                     *)
LEMMA LinksInside ==
  ASSUME NEW N, NEW k, NEW r, NEW rt, NEW L, NEW R, Tops(rt, L, R, k, r, N)
  PROVE  /\ rt \in N \cup {NoAddress}
         /\ \A a \in N : L[a] \in N \cup {NoAddress} /\ R[a] \in N \cup {NoAddress}
BY DEF Tops, Highest, Lower

(* Each node has one parent.                                               *)
LEMMA OneParentOrdered ==
  ASSUME NEW N, NEW q, NEW r, Ranked(N, q, r), NEW y \in N, NEW a \in N, NEW b \in N,
         Highest(Lower(N, q, r, a), r, y), Highest(Lower(N, q, r, b), r, y), q[a] < q[b]
  PROVE  FALSE
<1> USE DEF Ranked
<1>1. y \in Lower(N, q, r, a) /\ y \in Lower(N, q, r, b) /\ \A c \in Lower(N, q, r, b) : r[y] <= r[c]
  BY DEF Highest
<1>2. a \in Lower(N, q, r, b)
  BY <1>1 DEF Lower
<1>3. r[a] < r[y]
  BY <1>1 DEF Lower
<1> QED BY <1>1, <1>2, <1>3

(* Two nodes with the same child on one side are the same.                 *)
LEMMA OneParentSame ==
  ASSUME NEW N, NEW q, NEW r, Ranked(N, q, r), NEW y \in N, NEW a \in N, NEW b \in N,
         Highest(Lower(N, q, r, a), r, y), Highest(Lower(N, q, r, b), r, y)
  PROVE  a = b
<1>1. a = b \/ q[a] < q[b] \/ q[b] < q[a]
  BY DEF Ranked
<1> QED BY <1>1, OneParentOrdered

(* No node is the left child of one node and the right child of another.   *)
LEMMA OneParentOther ==
  ASSUME NEW N, NEW q, NEW p, NEW r, Ranked(N, q, r), Ranked(N, p, r), Opposite(N, q, p),
         NEW y \in N, NEW a \in N, NEW b \in N,
         Highest(Lower(N, q, r, a), r, y), Highest(Lower(N, p, r, b), r, y)
  PROVE  FALSE
<1> USE DEF Ranked, Opposite
<1>1. y \in Lower(N, q, r, a) /\ \A c \in Lower(N, q, r, a) : r[y] <= r[c]
  BY DEF Highest
<1>2. y \in Lower(N, p, r, b) /\ \A c \in Lower(N, p, r, b) : r[y] <= r[c]
  BY DEF Highest
<1>3. q[y] < q[a] /\ r[a] < r[y] /\ \A c \in N : q[y] <= q[c] /\ q[c] < q[a] => r[a] < r[c]
  BY <1>1 DEF Lower
<1>4. q[b] < q[y] /\ r[b] < r[y] /\ \A c \in N : q[b] < q[c] /\ q[c] <= q[y] => r[b] < r[c]
  <2>1. p[y] < p[b] /\ \A c \in N : p[y] <= p[c] /\ p[c] < p[b] => r[b] < r[c]
    BY <1>2 DEF Lower
  <2> QED BY <2>1
<1>5. CASE r[b] < r[a]
  <2>1. \A c \in N : p[a] <= p[c] /\ p[c] < p[b] => r[b] < r[c]
    BY <1>3, <1>4, <1>5
  <2>2. a \in Lower(N, p, r, b)
    BY <1>3, <1>4, <2>1 DEF Lower
  <2> QED BY <1>2, <1>3, <2>2
<1>6. CASE r[a] < r[b]
  <2>1. \A c \in N : q[b] <= q[c] /\ q[c] < q[a] => r[a] < r[c]
    BY <1>3, <1>4, <1>6
  <2>2. b \in Lower(N, q, r, a)
    BY <1>3, <1>4, <2>1 DEF Lower
  <2> QED BY <1>1, <1>4, <2>2
<1> QED BY <1>3, <1>4, <1>5, <1>6

(* Each node has one parent, and the root has none.                        *)
LEMMA OneParent ==
  ASSUME NEW N, NEW k, NEW r, NEW rt, NEW L, NEW R, Tops(rt, L, R, k, r, N), NEW y \in N
  PROVE  /\ \A a, b \in N : L[a] = y /\ L[b] = y => a = b
         /\ \A a, b \in N : R[a] = y /\ R[b] = y => a = b
         /\ \A a, b \in N : ~(L[a] = y /\ R[b] = y)
         /\ rt = y => \A a \in N : L[a] # y /\ R[a] # y
<1>1. Ranked(N, k, r) /\ Ranked(N, Mirrored(k), r) /\ Opposite(N, k, Mirrored(k))
  BY MirrorRanked DEF Tops
<1>2. \A a \in N : Highest(Lower(N, k, r, a), r, L[a]) /\ Highest(Lower(N, Mirrored(k), r, a), r, R[a])
  BY DEF Tops
<1>3. \A a, b \in N : L[a] = y /\ L[b] = y => a = b
  BY <1>1, <1>2, OneParentSame
<1>4. \A a, b \in N : R[a] = y /\ R[b] = y => a = b
  BY <1>1, <1>2, OneParentSame
<1>5. \A a, b \in N : ~(L[a] = y /\ R[b] = y)
  BY <1>1, <1>2, OneParentOther
<1>6. ASSUME rt = y, NEW a \in N PROVE L[a] # y /\ R[a] # y
  <2>1. r[y] <= r[a]
    BY <1>6 DEF Tops, Highest
  <2>2. \A q : y \in Lower(N, q, r, a) /\ Ranked(N, q, r) => r[a] < r[y]
    BY DEF Lower, Ranked
  <2>3. r[y] \in Nat /\ r[a] \in Nat
    BY <1>1 DEF Ranked
  <2>4. ~(y \in Lower(N, k, r, a)) /\ ~(y \in Lower(N, Mirrored(k), r, a))
    BY <2>1, <2>2, <2>3, <1>1
  <2>5. y # NoAddress
    BY <1>1 DEF Ranked
  <2> QED BY <2>4, <2>5, <1>2 DEF Highest
<1> QED BY <1>3, <1>4, <1>5, <1>6

(* A node with one child at most is taken out: its child takes its place.  *)
LEMMA SpliceTree ==
  ASSUME NEW N, NEW k, NEW r, NEW rt, NEW L, NEW R, Tops(rt, L, R, k, r, N),
         NEW y \in N, NEW z, (R[y] = NoAddress /\ z = L[y]) \/ (L[y] = NoAddress /\ z = R[y]),
         NEW L1, NEW R1,
         \A a \in N \ {y} : /\ L1[a] = IF L[a] = y THEN z ELSE L[a]
                            /\ R1[a] = IF R[a] = y THEN z ELSE R[a]
  PROVE  Tops(IF rt = y THEN z ELSE rt, L1, R1, k, r, N \ {y})
<1> DEFINE m == Mirrored(k)
<1>1. Ranked(N, k, r) /\ Ranked(N, m, r) /\ Opposite(N, k, m) /\ Opposite(N, m, k)
  BY MirrorRanked DEF Tops
<1> HIDE DEF m
<1>2. Highest(N, r, rt) /\ \A a \in N : Highest(Lower(N, k, r, a), r, L[a]) /\ Highest(Lower(N, m, r, a), r, R[a])
  BY DEF Tops, m
<1>3. y # NoAddress
  BY <1>1 DEF Ranked
<1>4. \A S, x : x # y /\ Highest(S, r, x) => Highest(S \ {y}, r, x)
  BY <1>3 DEF Highest
<1>5. Ranked(N \ {y}, k, r)
  BY <1>1 DEF Ranked
<1>6. CASE R[y] = NoAddress /\ z = L[y]
  <2>1. Lower(N, m, r, y) = {}
    BY <1>1, <1>2, <1>6 DEF Highest, Lower, Ranked
  <2>2. Highest(Lower(N, k, r, y), r, z)
    BY <1>2, <1>6
  <2>3. ASSUME NEW a \in N \ {y} PROVE Highest(Lower(N \ {y}, k, r, a), r, L1[a])
    <3>1. Highest(Lower(N, k, r, a), r, L[a])
      BY <1>2
    <3>2. Highest(Lower(N \ {y}, k, r, a), r, IF L[a] = y THEN z ELSE L[a])
      BY <1>1, <2>1, <2>2, <3>1, SpliceSame
    <3> QED BY <3>2
  <2>4. ASSUME NEW a \in N \ {y} PROVE Highest(Lower(N \ {y}, m, r, a), r, R1[a])
    <3>1. Highest(Lower(N, m, r, a), r, R[a])
      BY <1>2
    <3>2. Highest(Lower(N \ {y}, m, r, a), r, IF R[a] = y THEN z ELSE R[a])
      BY <1>1, <2>1, <2>2, <3>1, SpliceOther
    <3> QED BY <3>2
  <2>5. Highest(N \ {y}, r, IF rt = y THEN z ELSE rt)
    BY <1>1, <1>2, <1>4, <2>1, <2>2, SpliceTop
  <2> QED BY <1>5, <2>3, <2>4, <2>5 DEF Tops, m
<1>7. CASE L[y] = NoAddress /\ z = R[y]
  <2>1. Lower(N, k, r, y) = {}
    BY <1>2, <1>7, <1>1 DEF Highest, Lower, Ranked
  <2>2. Highest(Lower(N, m, r, y), r, z)
    BY <1>2, <1>7
  <2>3. ASSUME NEW a \in N \ {y} PROVE Highest(Lower(N \ {y}, k, r, a), r, L1[a])
    <3>1. Highest(Lower(N, k, r, a), r, L[a])
      BY <1>2
    <3>2. Highest(Lower(N \ {y}, k, r, a), r, IF L[a] = y THEN z ELSE L[a])
      BY <1>1, <2>1, <2>2, <3>1, SpliceOther
    <3> QED BY <3>2
  <2>4. ASSUME NEW a \in N \ {y} PROVE Highest(Lower(N \ {y}, m, r, a), r, R1[a])
    <3>1. Highest(Lower(N, m, r, a), r, R[a])
      BY <1>2
    <3>2. Highest(Lower(N \ {y}, m, r, a), r, IF R[a] = y THEN z ELSE R[a])
      BY <1>1, <2>1, <2>2, <3>1, SpliceSame
    <3> QED BY <3>2
  <2>5. Highest(N \ {y}, r, IF rt = y THEN z ELSE rt)
    BY <1>1, <1>2, <1>4, <2>1, <2>2, SpliceTop
  <2> QED BY <1>5, <2>3, <2>4, <2>5 DEF Tops, m
<1> QED BY <1>6, <1>7

-----------------------------------------------------------------------------
(* A node is replaced by one next to it in order.                          *)
LEMMA RelabelSide ==
  ASSUME NEW N, NEW q, NEW r, Ranked(N, q, r), NEW x \in N, NEW y, y \notin N, y # NoAddress, q[y] \in Int,
         \A c \in N \ {x} : (q[c] < q[x] <=> q[c] < q[y]) /\ (q[x] < q[c] <=> q[y] < q[c]),
         NEW s, s[y] = r[x], \A c \in N \ {x} : s[c] = r[c],
         NEW a \in N, NEW z, Highest(Lower(N, q, r, a), r, z)
  PROVE  Highest(Lower((N \ {x}) \cup {y}, q, s, IF a = x THEN y ELSE a), s, IF z = x THEN y ELSE z)
<1> USE DEF Ranked
<1> DEFINE To(b) == IF b = x THEN y ELSE b
           M == (N \ {x}) \cup {y}
<1>1. \A b \in N : To(b) \in M /\ s[To(b)] = r[b] /\ q[To(b)] \in Int
  OBVIOUS
<1>2. \A b, c \in N : (q[To(b)] < q[To(c)] <=> q[b] < q[c]) /\ (q[To(b)] <= q[To(c)] <=> q[b] <= q[c])
  OBVIOUS
<1>3. \A d \in M : \E b \in N : d = To(b)
  OBVIOUS
<1>4. \A b, c \in N : To(b) = To(c) => b = c
  OBVIOUS
<1> HIDE DEF To, M
<1>5. \A b \in N : To(b) \in Lower(M, q, s, To(a)) <=> b \in Lower(N, q, r, a)
  <2> TAKE b \in N
  <2>1. (\A d \in M : q[To(b)] <= q[d] /\ q[d] < q[To(a)] => s[To(a)] < s[d])
          <=> \A c \in N : q[b] <= q[c] /\ q[c] < q[a] => r[a] < r[c]
    BY <1>1, <1>2, <1>3
  <2> QED BY <2>1, <1>1, <1>2 DEF Lower
<1>6. Lower(M, q, s, To(a)) \subseteq M /\ Lower(N, q, r, a) \subseteq N
  BY DEF Lower
<1>7. CASE Lower(N, q, r, a) = {}
  <2>1. Lower(M, q, s, To(a)) = {}
    BY <1>3, <1>5, <1>6, <1>7
  <2>2. z = NoAddress /\ z # x
    BY <1>7 DEF Highest
  <2> QED BY <2>1, <2>2 DEF Highest, To, M
<1>8. CASE Lower(N, q, r, a) # {}
  <2>1. z \in Lower(N, q, r, a) /\ \A c \in Lower(N, q, r, a) : r[z] <= r[c]
    BY <1>8 DEF Highest
  <2>2. To(z) \in Lower(M, q, s, To(a))
    BY <2>1, <1>5, <1>6
  <2>3. \A d \in Lower(M, q, s, To(a)) : s[To(z)] <= s[d]
    BY <2>1, <1>1, <1>3, <1>5, <1>6
  <2> QED BY <2>2, <2>3 DEF Highest, To, M
<1> QED BY <1>7, <1>8

(* The fields of the nodes N when y has taken the place of x.               *)
TakesPlace(N, x, y, f, g) ==
  /\ \A a \in N \ {x} : g[a] = IF f[a] = x THEN y ELSE f[a]
  /\ g[y] = IF f[x] = x THEN y ELSE f[x]

TakesRank(N, x, y, r, s) == s[y] = r[x] /\ \A c \in N \ {x} : s[c] = r[c]

(* After y took the place of x, in order and in rank, the fields of the    *)
(* nodes are those of a tree again.                                        *)
LEMMA RelabelTree ==
  ASSUME NEW N, NEW k, NEW r, NEW rt, NEW L, NEW R, Tops(rt, L, R, k, r, N),
         NEW x \in N, NEW y, y \notin N, y # NoAddress, y \in DOMAIN k, k[y] \in Int,
         \A c \in N \ {x} : k[c] # k[y] /\ (k[c] < k[x] <=> k[c] < k[y]),
         NEW s, TakesRank(N, x, y, r, s), NEW L1, TakesPlace(N, x, y, L, L1), NEW R1, TakesPlace(N, x, y, R, R1)
  PROVE  Tops(IF rt = x THEN y ELSE rt, L1, R1, k, s, (N \ {x}) \cup {y})
<1> USE DEF TakesPlace, TakesRank
<1> DEFINE m == Mirrored(k)
           M == (N \ {x}) \cup {y}
<1>1. Ranked(N, k, r) /\ Ranked(N, m, r) /\ (\A b \in N : m[b] = -k[b]) /\ m[y] = -k[y]
  BY MirrorRanked DEF Tops, Mirrored, Opposite
<1> HIDE DEF m
<1>2. Highest(N, r, rt) /\ \A a \in N : Highest(Lower(N, k, r, a), r, L[a]) /\ Highest(Lower(N, m, r, a), r, R[a])
  BY DEF Tops, m
<1>3. \A c \in N \ {x} : (k[c] < k[x] <=> k[c] < k[y]) /\ (k[x] < k[c] <=> k[y] < k[c])
  BY <1>1 DEF Ranked
<1>4. \A c \in N \ {x} : (m[c] < m[x] <=> m[c] < m[y]) /\ (m[x] < m[c] <=> m[y] < m[c])
  BY <1>1, <1>3 DEF Ranked
<1>5. \A a \in N : LET b == IF a = x THEN y ELSE a IN
        /\ Highest(Lower(M, k, s, b), s, IF L[a] = x THEN y ELSE L[a])
        /\ Highest(Lower(M, m, s, b), s, IF R[a] = x THEN y ELSE R[a])
  <2> TAKE a \in N
  <2>1. Highest(Lower(M, k, s, IF a = x THEN y ELSE a), s, IF L[a] = x THEN y ELSE L[a])
    BY <1>1, <1>2, <1>3, RelabelSide
  <2>2. m[y] \in Int
    BY <1>1
  <2>3. Highest(Lower(M, m, s, IF a = x THEN y ELSE a), s, IF R[a] = x THEN y ELSE R[a])
    BY <1>1, <1>2, <1>4, <2>2, RelabelSide
  <2> QED BY <2>1, <2>3
<1>6. \A a \in M : Highest(Lower(M, k, s, a), s, L1[a]) /\ Highest(Lower(M, m, s, a), s, R1[a])
  BY <1>5
<1>7. Highest(M, s, IF rt = x THEN y ELSE rt)
  BY <1>1, <1>2 DEF Highest, Ranked
<1>8. Ranked(M, k, s)
  BY <1>1 DEF Ranked
<1> QED BY <1>6, <1>7, <1>8 DEF Tops, m

-----------------------------------------------------------------------------
(* A key belongs below a on the lower side of q: what lies between them is *)
(* below a too.                                                            *)
Belongs(N, q, r, a, key) ==
  key < q[a] /\ \A c \in N : key <= q[c] /\ q[c] < q[a] => r[a] < r[c]

(* It belongs at one free place only.                                      *)
LEMMA OnePlaceSame ==
  ASSUME NEW N, NEW q, NEW r, Ranked(N, q, r), NEW key \in Int,
         NEW a \in N, NEW b \in N, Belongs(N, q, r, a, key), Belongs(N, q, r, b, key),
         Lower(N, q, r, a) = {}, Lower(N, q, r, b) = {}
  PROVE  a = b
<1> USE DEF Ranked, Belongs
<1>1. ASSUME q[a] < q[b] PROVE FALSE
  <2>1. a \in Lower(N, q, r, b)
    BY <1>1 DEF Lower
  <2> QED BY <2>1
<1>2. ASSUME q[b] < q[a] PROVE FALSE
  <2>1. b \in Lower(N, q, r, a)
    BY <1>2 DEF Lower
  <2> QED BY <2>1
<1> QED BY <1>1, <1>2

(* The same for places on different sides.                                 *)
LEMMA OnePlaceOther ==
  ASSUME NEW N, NEW q, NEW p, NEW r, Ranked(N, q, r), Ranked(N, p, r), Opposite(N, q, p), NEW key \in Int,
         NEW a \in N, NEW b \in N, Belongs(N, q, r, a, key), Belongs(N, p, r, b, -key),
         Lower(N, q, r, a) = {}, Lower(N, p, r, b) = {}
  PROVE  FALSE
<1> USE DEF Ranked, Opposite
<1>1. key < q[a] /\ \A c \in N : key <= q[c] /\ q[c] < q[a] => r[a] < r[c]
  BY DEF Belongs
<1>2. -key < p[b] /\ \A c \in N : -key <= p[c] /\ p[c] < p[b] => r[b] < r[c]
  BY DEF Belongs
<1>3. q[b] < key /\ q[b] < q[a] /\ p[a] < p[b]
  BY <1>1, <1>2
<1>4. PICK c \in N : q[b] <= q[c] /\ q[c] < q[a] /\ ~(r[a] < r[c])
  BY <1>3 DEF Lower
<1>5. r[b] <= r[a]
  <2>1. q[c] < key
    BY <1>1, <1>4
  <2>2. c = b \/ r[b] < r[c]
    BY <1>2, <1>4, <2>1
  <2> QED BY <1>4, <2>2
<1>6. PICK d \in N : p[a] <= p[d] /\ p[d] < p[b] /\ ~(r[b] < r[d])
  BY <1>3 DEF Lower
<1>7. r[a] <= r[b]
  <2>1. p[d] < -key
    BY <1>2, <1>6
  <2>2. d = a \/ r[a] < r[d]
    BY <1>1, <1>6, <2>1
  <2> QED BY <1>6, <2>2
<1> QED BY <1>3, <1>5, <1>7

(* A new node, the last one in rank, is below the nodes it belongs to.     *)
Inserted(N, q, r, x, q1, r1) ==
  /\ Ranked(N, q, r) /\ x \notin N /\ q1[x] \in Int /\ r1[x] \in Nat
  /\ \A b \in N : q[b] # q1[x] /\ r[b] < r1[x] /\ q1[b] = q[b] /\ r1[b] = r[b]

(* What it adds to the nodes below another.                                *)
LEMMA LowerInserted ==
  ASSUME NEW N, NEW q, NEW r, NEW x, NEW q1, NEW r1, Inserted(N, q, r, x, q1, r1), NEW a \in N
  PROVE  Lower(N \cup {x}, q1, r1, a)
           = Lower(N, q, r, a) \cup (IF Belongs(N, q, r, a, q1[x]) THEN {x} ELSE {})
<1> DEFINE k1 == q1
           key == q1[x]
<1> USE DEF Ranked, Inserted
<1>1. \A b \in N : b \in Lower(N \cup {x}, k1, r1, a) <=> b \in Lower(N, q, r, a)
  BY DEF Lower
<1>2. x \in Lower(N \cup {x}, k1, r1, a) <=> Belongs(N, q, r, a, key)
  BY DEF Lower, Belongs
<1>3. Lower(N \cup {x}, k1, r1, a) \subseteq N \cup {x} /\ Lower(N, q, r, a) \subseteq N
  BY DEF Lower
<1> QED BY <1>1, <1>2, <1>3

(* Nothing is below the new node.                                          *)
LEMMA InsertedLowest ==
  ASSUME NEW N, NEW x, x \notin N, NEW m \in Nat, NEW k1, NEW r1, k1[x] \in Int,
         \A b \in N : k1[b] \in Int /\ r1[b] \in Nat /\ r1[b] < m, r1[x] = m
  PROVE  Lower(N \cup {x}, k1, r1, x) = {}
BY DEF Lower

(* x hangs in a free place where the key belongs.                          *)
Hung(N, k, r, rt, L, R, key, x, rt1, L1, R1) ==
  /\ L1[x] = NoAddress /\ R1[x] = NoAddress
  /\ \/ N = {} /\ rt1 = x
     \/ \E o \in N :
          /\ rt1 = rt
          /\ \/ /\ L[o] = NoAddress /\ Belongs(N, k, r, o, key) /\ L1[o] = x
                /\ \A b \in N : R1[b] = R[b] /\ (b # o => L1[b] = L[b])
             \/ /\ R[o] = NoAddress /\ Belongs(N, Mirrored(k), r, o, -key) /\ R1[o] = x
                /\ \A b \in N : L1[b] = L[b] /\ (b # o => R1[b] = R[b])

(* x has the key and the last rank m, the others stay what they are.       *)
Keyed(N, k, r, x, key, m, k1, r1) ==
  /\ N \cup {x} \subseteq DOMAIN k1 /\ k1[x] = key /\ r1[x] = m
  /\ \A b \in N : k1[b] = k[b] /\ r1[b] = r[b]

(* The tree with the node x hung where its key belongs is a tree.          *)
LEMMA InsertTree ==
  ASSUME NEW N, NEW k, NEW r, NEW rt, NEW L, NEW R, Tops(rt, L, R, k, r, N),
         NEW x, x \notin N, x # NoAddress, NEW key \in Int, NEW m \in Nat, \A b \in N : k[b] # key /\ r[b] < m,
         NEW k1, NEW r1, Keyed(N, k, r, x, key, m, k1, r1),
         NEW rt1, NEW L1, NEW R1, Hung(N, k, r, rt, L, R, key, x, rt1, L1, R1)
  PROVE  Tops(rt1, L1, R1, k1, r1, N \cup {x})
<1> USE DEF Hung, Keyed
<1> DEFINE p == Mirrored(k)
           p1 == Mirrored(k1)
           M == N \cup {x}
<1>1. Ranked(N, k, r) /\ Ranked(N, p, r) /\ Opposite(N, k, p) /\ Opposite(N, p, k)
  BY MirrorRanked DEF Tops
<1>2. Highest(N, r, rt) /\ \A a \in N : Highest(Lower(N, k, r, a), r, L[a]) /\ Highest(Lower(N, p, r, a), r, R[a])
  BY DEF Tops
<1>3. Ranked(M, k1, r1)
  BY <1>1 DEF Ranked
<1>4. p1[x] = -key /\ (\A b \in N : p1[b] = p[b]) /\ \A b \in N : p[b] # -key
  BY <1>1 DEF Mirrored, Ranked
<1> HIDE DEF p, p1
<1>5. \A a \in N : Lower(M, k1, r1, a) = Lower(N, k, r, a) \cup (IF Belongs(N, k, r, a, key) THEN {x} ELSE {})
  <2>1. Inserted(N, k, r, x, k1, r1)
    BY <1>1 DEF Inserted
  <2> QED BY <2>1, LowerInserted
<1>6. \A a \in N : Lower(M, p1, r1, a) = Lower(N, p, r, a) \cup (IF Belongs(N, p, r, a, -key) THEN {x} ELSE {})
  <2>1. Inserted(N, p, r, x, p1, r1)
    BY <1>1, <1>4 DEF Inserted
  <2> QED BY <1>4, <2>1, LowerInserted
<1>7. Lower(M, k1, r1, x) = {} /\ Lower(M, p1, r1, x) = {}
  <2>1. \A b \in N : k1[b] \in Int /\ p1[b] \in Int /\ r1[b] \in Nat /\ r1[b] < m
    BY <1>1, <1>4 DEF Ranked
  <2>2. p1[x] \in Int
    BY <1>4
  <2> QED BY <2>1, <2>2, InsertedLowest
<1>8. \A S, y : S \subseteq N /\ S # {} /\ Highest(S, r, y) => Highest(S, r1, y) /\ Highest(S \cup {x}, r1, y)
  <2> SUFFICES ASSUME NEW S, NEW y, S \subseteq N, S # {}, Highest(S, r, y)
               PROVE  Highest(S, r1, y) /\ Highest(S \cup {x}, r1, y)
    OBVIOUS
  <2>1. y \in S /\ \A c \in S : r[y] <= r[c]
    BY DEF Highest
  <2>2. \A b \in S : r[b] \in Nat /\ r[b] < m /\ r1[b] = r[b]
    BY <1>1 DEF Ranked
  <2> QED BY <2>1, <2>2 DEF Highest
<1>9. \A a \in N : Lower(N, k, r, a) \subseteq N /\ Lower(N, p, r, a) \subseteq N
  BY DEF Lower
<1>10. Highest({}, r1, NoAddress) /\ \A y : Highest({x}, r1, x)
  BY <1>3 DEF Highest, Ranked
<1>11. Highest(Lower(M, k1, r1, x), r1, L1[x]) /\ Highest(Lower(M, p1, r1, x), r1, R1[x])
  BY <1>7, <1>10
<1>12. \A S, y : S \subseteq N /\ S # {} /\ Highest(S, r, y) => y # NoAddress
  BY <1>1 DEF Highest, Ranked
<1>13. \A y : Highest({}, r, y) <=> y = NoAddress
  BY DEF Highest
<1>14. CASE N = {} /\ rt1 = x
  <2>1. Highest(M, r1, rt1)
    BY <1>10, <1>14
  <2> QED BY <1>3, <1>11, <1>14, <2>1 DEF Tops, p1
<1>15. ASSUME NEW o \in N, rt1 = rt PROVE Highest(M, r1, rt1)
  BY <1>2, <1>8, <1>15
<1>16. ASSUME NEW o \in N, rt1 = rt, L[o] = NoAddress, Belongs(N, k, r, o, key), L1[o] = x,
              \A b \in N : R1[b] = R[b] /\ (b # o => L1[b] = L[b])
       PROVE  Tops(rt1, L1, R1, k1, r1, M)
  <2>1. Lower(N, k, r, o) = {}
    BY <1>2, <1>9, <1>12, <1>16
  <2>2. Highest(Lower(M, k1, r1, o), r1, L1[o])
    BY <1>5, <1>10, <1>16, <2>1
  <2>3. ASSUME NEW a \in N, a # o PROVE Highest(Lower(M, k1, r1, a), r1, L1[a])
    <3>1. CASE Lower(N, k, r, a) = {}
      <4>1. ~Belongs(N, k, r, a, key)
        BY <1>1, <1>16, <2>1, <2>3, <3>1, OnePlaceSame
      <4>2. L1[a] = NoAddress
        BY <1>2, <1>13, <1>16, <2>3, <3>1
      <4> QED BY <1>5, <1>10, <3>1, <4>1, <4>2
    <3>2. CASE Lower(N, k, r, a) # {}
      <4> DEFINE S == Lower(N, k, r, a)
                 y == L[a]
      <4>1. S \subseteq N /\ S # {} /\ Highest(S, r, y)
        BY <1>2, <1>9, <3>2
      <4>2. Highest(S, r1, y) /\ Highest(S \cup {x}, r1, y)
        BY <1>8, <4>1
      <4>3. Lower(M, k1, r1, a) = S \/ Lower(M, k1, r1, a) = S \cup {x}
        BY <1>5
      <4>4. L1[a] = y
        BY <1>16, <2>3
      <4> QED BY <4>2, <4>3, <4>4
    <3> QED BY <3>1, <3>2
  <2>4. ASSUME NEW a \in N PROVE Highest(Lower(M, p1, r1, a), r1, R1[a])
    <3>1. CASE Lower(N, p, r, a) = {}
      <4>1. ~Belongs(N, p, r, a, -key)
        BY <1>1, <1>16, <2>1, <3>1, OnePlaceOther
      <4>2. R1[a] = NoAddress
        BY <1>2, <1>13, <1>16, <3>1
      <4> QED BY <1>6, <1>10, <3>1, <4>1, <4>2
    <3>2. CASE Lower(N, p, r, a) # {}
      <4> DEFINE S == Lower(N, p, r, a)
                 y == R[a]
      <4>1. S \subseteq N /\ S # {} /\ Highest(S, r, y)
        BY <1>2, <1>9, <3>2
      <4>2. Highest(S, r1, y) /\ Highest(S \cup {x}, r1, y)
        BY <1>8, <4>1
      <4>3. Lower(M, p1, r1, a) = S \/ Lower(M, p1, r1, a) = S \cup {x}
        BY <1>6
      <4>4. R1[a] = y
        BY <1>16
      <4> QED BY <4>2, <4>3, <4>4
    <3> QED BY <3>1, <3>2
  <2> QED BY <1>3, <1>11, <1>15, <1>16, <2>2, <2>3, <2>4 DEF Tops, p1
<1>17. ASSUME NEW o \in N, rt1 = rt, R[o] = NoAddress, Belongs(N, p, r, o, -key), R1[o] = x,
              \A b \in N : L1[b] = L[b] /\ (b # o => R1[b] = R[b])
       PROVE  Tops(rt1, L1, R1, k1, r1, M)
  <2>1. Lower(N, p, r, o) = {}
    BY <1>2, <1>9, <1>12, <1>17
  <2>2. Highest(Lower(M, p1, r1, o), r1, R1[o])
    BY <1>6, <1>10, <1>17, <2>1
  <2>0. -key \in Int
    OBVIOUS
  <2>3. ASSUME NEW a \in N, a # o PROVE Highest(Lower(M, p1, r1, a), r1, R1[a])
    <3>1. CASE Lower(N, p, r, a) = {}
      <4>1. ~Belongs(N, p, r, a, -key)
        BY <1>1, <1>17, <2>0, <2>1, <2>3, <3>1, OnePlaceSame
      <4>2. R1[a] = NoAddress
        BY <1>2, <1>13, <1>17, <2>3, <3>1
      <4> QED BY <1>6, <1>10, <3>1, <4>1, <4>2
    <3>2. CASE Lower(N, p, r, a) # {}
      <4> DEFINE S == Lower(N, p, r, a)
                 y == R[a]
      <4>1. S \subseteq N /\ S # {} /\ Highest(S, r, y)
        BY <1>2, <1>9, <3>2
      <4>2. Highest(S, r1, y) /\ Highest(S \cup {x}, r1, y)
        BY <1>8, <4>1
      <4>3. Lower(M, p1, r1, a) = S \/ Lower(M, p1, r1, a) = S \cup {x}
        BY <1>6
      <4>4. R1[a] = y
        BY <1>17, <2>3
      <4> QED BY <4>2, <4>3, <4>4
    <3> QED BY <3>1, <3>2
  <2>4. ASSUME NEW a \in N PROVE Highest(Lower(M, k1, r1, a), r1, L1[a])
    <3>1. CASE Lower(N, k, r, a) = {}
      <4>1. ~Belongs(N, k, r, a, key)
        BY <1>1, <1>17, <2>1, <3>1, OnePlaceOther
      <4>2. L1[a] = NoAddress
        BY <1>2, <1>13, <1>17, <3>1
      <4> QED BY <1>5, <1>10, <3>1, <4>1, <4>2
    <3>2. CASE Lower(N, k, r, a) # {}
      <4> DEFINE S == Lower(N, k, r, a)
                 y == L[a]
      <4>1. S \subseteq N /\ S # {} /\ Highest(S, r, y)
        BY <1>2, <1>9, <3>2
      <4>2. Highest(S, r1, y) /\ Highest(S \cup {x}, r1, y)
        BY <1>8, <4>1
      <4>3. Lower(M, k1, r1, a) = S \/ Lower(M, k1, r1, a) = S \cup {x}
        BY <1>5
      <4>4. L1[a] = y
        BY <1>17
      <4> QED BY <4>2, <4>3, <4>4
    <3> QED BY <3>1, <3>2
  <2> QED BY <1>3, <1>11, <1>15, <1>17, <2>2, <2>3, <2>4 DEF Tops, p1
<1> QED BY <1>14, <1>16, <1>17 DEF p

-----------------------------------------------------------------------------
(* The turns of a search: the next node is lower in rank, and the key      *)
(* belongs below it.                                                       *)
LEMMA DescendTop ==
  ASSUME NEW N, NEW q, NEW r, Ranked(N, q, r), NEW key \in Int, NEW y \in N, Highest(N, r, y)
  PROVE  key < q[y] => Belongs(N, q, r, y, key)
BY DEF Ranked, Belongs, Highest

(* A turn towards the side on which the search came down.                  *)
LEMMA DescendSame ==
  ASSUME NEW N, NEW q, NEW r, Ranked(N, q, r), NEW key \in Int,
         NEW a \in N, Belongs(N, q, r, a, key), NEW y, Highest(Lower(N, q, r, a), r, y)
  PROVE  /\ y = NoAddress => \A b \in N : q[b] # key
         /\ y # NoAddress => y \in N /\ r[a] < r[y] /\ (key < q[y] => Belongs(N, q, r, y, key))
<1> USE DEF Ranked
<1>0. key < q[a] /\ \A c \in N : key <= q[c] /\ q[c] < q[a] => r[a] < r[c]
  BY DEF Belongs
<1>1. ASSUME y = NoAddress, NEW b \in N, q[b] = key PROVE FALSE
  <2>1. b \in Lower(N, q, r, a)
    BY <1>0, <1>1 DEF Lower
  <2> QED BY <1>1, <2>1 DEF Highest, Lower
<1>2. ASSUME y # NoAddress
      PROVE  y \in N /\ r[a] < r[y] /\ (key < q[y] => Belongs(N, q, r, y, key))
  <2>1. y \in Lower(N, q, r, a) /\ \A c \in Lower(N, q, r, a) : r[y] <= r[c]
    BY <1>2 DEF Highest
  <2>2. y \in N /\ r[a] < r[y] /\ q[y] < q[a]
    BY <2>1 DEF Lower
  <2>3. ASSUME NEW c \in N, key <= q[c], q[c] < q[y] PROVE r[y] < r[c]
    <3>1. c \in Lower(N, q, r, a)
      BY <1>0, <2>2, <2>3 DEF Lower
    <3> QED BY <2>1, <2>2, <2>3, <3>1
  <2> QED BY <2>2, <2>3 DEF Belongs
<1> QED BY <1>1, <1>2

(* A turn towards the other side.                                          *)
LEMMA DescendOther ==
  ASSUME NEW N, NEW q, NEW p, NEW r, Ranked(N, q, r), Ranked(N, p, r), Opposite(N, q, p), NEW key \in Int,
         NEW a \in N, Belongs(N, q, r, a, key), NEW y, Highest(Lower(N, q, r, a), r, y),
         y # NoAddress, q[y] < key
  PROVE  Belongs(N, p, r, y, -key)
<1> USE DEF Ranked, Opposite
<1>0. key < q[a] /\ \A c \in N : key <= q[c] /\ q[c] < q[a] => r[a] < r[c]
  BY DEF Belongs
<1>1. y \in Lower(N, q, r, a) /\ \A c \in Lower(N, q, r, a) : r[y] <= r[c]
  BY DEF Highest
<1>2. y \in N /\ q[y] < q[a] /\ \A c \in N : q[y] <= q[c] /\ q[c] < q[a] => r[a] < r[c]
  BY <1>1 DEF Lower
<1>3. ASSUME NEW c \in N, -key <= p[c], p[c] < p[y] PROVE r[y] < r[c]
  <2>0. q[y] < q[c] /\ q[c] <= key
    BY <1>2, <1>3
  <2>1. c \in Lower(N, q, r, a)
    BY <1>0, <1>2, <2>0 DEF Lower
  <2> QED BY <1>1, <1>2, <2>0, <2>1
<1> QED BY <1>2, <1>3 DEF Belongs

(* The turns of find_replacement_node: y is below x, and what is between   *)
(* them is below y.                                                        *)
Beside(N, q, r, x, y) ==
  y \in Lower(N, q, r, x) /\ \A c \in N : q[y] < q[c] /\ q[c] < q[x] => r[y] < r[c]

(* The first turn of find_replacement_node: the child of x.                *)
LEMMA BesideFirst ==
  ASSUME NEW N, NEW q, NEW r, Ranked(N, q, r), NEW x \in N, NEW y, Highest(Lower(N, q, r, x), r, y),
         y # NoAddress
  PROVE  Beside(N, q, r, x, y)
<1> USE DEF Ranked
<1>1. y \in Lower(N, q, r, x) /\ \A c \in Lower(N, q, r, x) : r[y] <= r[c]
  BY DEF Highest
<1>2. ASSUME NEW c \in N, q[y] < q[c], q[c] < q[x] PROVE r[y] < r[c]
  <2>1. c \in Lower(N, q, r, x)
    BY <1>1, <1>2 DEF Lower
  <2>2. y \in N
    BY <1>1 DEF Lower
  <2> QED BY <1>1, <1>2, <2>1, <2>2
<1> QED BY <1>1, <1>2 DEF Beside

(* A turn of its loop.                                                     *)
LEMMA BesideNext ==
  ASSUME NEW N, NEW q, NEW p, NEW r, Ranked(N, q, r), Ranked(N, p, r), Opposite(N, q, p),
         NEW x \in N, NEW y, Beside(N, q, r, x, y), NEW z, Highest(Lower(N, p, r, y), r, z)
  PROVE  /\ z = NoAddress => \A c \in N : ~(q[y] < q[c] /\ q[c] < q[x])
         /\ z # NoAddress => Beside(N, q, r, x, z) /\ r[y] < r[z]
<1> USE DEF Ranked, Opposite
<1>1. /\ y \in N /\ q[y] < q[x] /\ \A c \in N : q[y] <= q[c] /\ q[c] < q[x] => r[x] < r[c]
      /\ \A c \in N : q[y] < q[c] /\ q[c] < q[x] => r[y] < r[c]
  BY DEF Beside, Lower
<1>2. \A c \in N : q[y] < q[c] /\ q[c] < q[x] => c \in Lower(N, p, r, y)
  BY <1>1 DEF Lower
<1>3. ASSUME z = NoAddress PROVE \A c \in N : ~(q[y] < q[c] /\ q[c] < q[x])
  <2>1. Lower(N, p, r, y) = {}
    BY <1>3 DEF Highest, Lower
  <2> QED BY <1>2, <2>1
<1>4. ASSUME z # NoAddress PROVE Beside(N, q, r, x, z) /\ r[y] < r[z]
  <2>1. z \in Lower(N, p, r, y) /\ \A c \in Lower(N, p, r, y) : r[z] <= r[c]
    BY <1>4 DEF Highest
  <2>2. z \in N /\ q[y] < q[z] /\ r[y] < r[z] /\ \A c \in N : q[y] < q[c] /\ q[c] <= q[z] => r[y] < r[c]
    <3>1. z \in N /\ p[z] < p[y] /\ \A c \in N : p[z] <= p[c] /\ p[c] < p[y] => r[y] < r[c]
      BY <2>1 DEF Lower
    <3> QED BY <1>1, <3>1
  <2>3. q[z] < q[x]
    <3>1. ~(q[x] <= q[z])
      BY <1>1, <2>2
    <3> QED BY <2>2, <3>1
  <2>4. z \in Lower(N, q, r, x)
    BY <1>1, <2>2, <2>3 DEF Lower
  <2>5. ASSUME NEW c \in N, q[z] < q[c], q[c] < q[x] PROVE r[z] < r[c]
    <3>1. c \in Lower(N, p, r, y)
      BY <1>1, <1>2, <2>2, <2>5
    <3> QED BY <2>1, <2>2, <2>5, <3>1
  <2> QED BY <2>2, <2>4, <2>5 DEF Beside
<1> QED BY <1>3, <1>4

-----------------------------------------------------------------------------
(* The types of the fields of the tree and of the links.                   *)
Nodes == Addresses \cup {NoAddress}
Sides == {"left", "right"}
Links == {RootLink} \cup (Sides \X Addresses)
Points == [node : Nodes, link : Links]
TreeType == [root : Nodes, left : [Addresses -> Nodes], right : [Addresses -> Nodes]]
(* The keys of the entries, as a function of their addresses.              *)
KeyOf == [a \in Addresses |-> store[a].key]

(* The block has a length, and its entries have keys that are numbers.     *)
SizesRight == store_len \in Nat /\ \A a \in Addresses : store[a].key \in Nat

(* The number of entries of a block.                                       *)
LEMMA SlotsNat ==
  ASSUME SizesRight
  PROVE  Slots \in Nat /\ Addresses \subseteq Nat /\ KeyOf \in [Addresses -> Int] /\ NoAddress \notin Addresses
<1>1. EntryLen \in Nat \ {0}
  BY CacheAssumption
<1>2. Slots \in Nat
  BY <1>1 DEF Slots, SizesRight
<1>3. \A n \in Nat : n * EntryLen \in Nat
  BY <1>1
<1>4. Addresses \subseteq Nat
  BY <1>2, <1>3 DEF Addresses
<1> QED BY <1>2, <1>4 DEF KeyOf, SizesRight, NoAddress

(* The fields of a tree have their types.                                  *)
LEMMA TreeSides ==
  ASSUME NEW t \in TreeType
  PROVE  /\ t["left"] = t.left /\ t["right"] = t.right
         /\ \A side \in Sides : t[side] \in [Addresses -> Nodes]
BY DEF TreeType, Sides

(* The cases of a link.                                                    *)
LEMMA LinkParts ==
  ASSUME NEW side \in Sides, NEW a
  PROVE  <<side, a>> # RootLink /\ <<side, a>>[1] = side /\ <<side, a>>[2] = a
BY DEF RootLink, Sides

(* set_link on each kind of link.                                          *)
LEMMA SetLinkRoot ==
  ASSUME NEW t \in TreeType, NEW x \in Nodes
  PROVE  /\ SetLink(t, RootLink, x) \in TreeType
         /\ SetLink(t, RootLink, x).root = x
         /\ SetLink(t, RootLink, x).left = t.left /\ SetLink(t, RootLink, x).right = t.right
BY DEF TreeType, SetLink

LEMMA SetLinkLeft ==
  ASSUME NEW t \in TreeType, NEW a \in Addresses, NEW x \in Nodes
  PROVE  LET u == SetLink(t, <<"left", a>>, x) IN
         u \in TreeType /\ u.root = t.root /\ u.left = [t.left EXCEPT ![a] = x] /\ u.right = t.right
BY DEF TreeType, SetLink, RootLink

LEMMA SetLinkRight ==
  ASSUME NEW t \in TreeType, NEW a \in Addresses, NEW x \in Nodes
  PROVE  LET u == SetLink(t, <<"right", a>>, x) IN
         u \in TreeType /\ u.root = t.root /\ u.left = t.left /\ u.right = [t.right EXCEPT ![a] = x]
BY DEF TreeType, SetLink, RootLink

(* The loop of find_node.                                                  *)
LEMMA NearerStep ==
  ASSUME SizesRight, NEW t \in TreeType, NEW key, NEW p \in Points
  PROVE  /\ Nearer(t, key, p) \in Points
         /\ p.node = NoAddress \/ KeyOf[p.node] = key => Nearer(t, key, p) = p
         /\ p.node # NoAddress /\ KeyOf[p.node] # key =>
              /\ p.node \in Addresses
              /\ key < KeyOf[p.node] => Nearer(t, key, p) = [node |-> t.left[p.node], link |-> <<"left", p.node>>]
              /\ ~(key < KeyOf[p.node]) => Nearer(t, key, p) = [node |-> t.right[p.node], link |-> <<"right", p.node>>]
<1>1. p.node \in Nodes /\ p.link \in Links
  BY DEF Points
<1>2. CASE p.node = NoAddress
  BY <1>2 DEF Nearer
<1>3. CASE p.node # NoAddress
  <2>1. p.node \in Addresses /\ KeyOf[p.node] = store[p.node].key
    BY <1>1, <1>3 DEF Nodes, KeyOf
  <2>2. CASE KeyOf[p.node] = key
    BY <2>1, <2>2 DEF Nearer
  <2>3. CASE KeyOf[p.node] # key /\ key < KeyOf[p.node]
    <3>1. Nearer(t, key, p) = [node |-> t.left[p.node], link |-> <<"left", p.node>>]
      BY <1>3, <2>1, <2>3, TreeSides DEF Nearer
    <3>2. t.left[p.node] \in Nodes /\ <<"left", p.node>> \in Links
      BY <2>1 DEF TreeType, Links, Sides
    <3> QED BY <1>3, <2>1, <2>3, <3>1, <3>2 DEF Points
  <2>4. CASE KeyOf[p.node] # key /\ ~(key < KeyOf[p.node])
    <3>1. Nearer(t, key, p) = [node |-> t.right[p.node], link |-> <<"right", p.node>>]
      BY <1>3, <2>1, <2>4, TreeSides DEF Nearer
    <3>2. t.right[p.node] \in Nodes /\ <<"right", p.node>> \in Links
      BY <2>1 DEF TreeType, Links, Sides
    <3> QED BY <1>3, <2>1, <2>4, <3>1, <3>2 DEF Points
  <2> QED BY <2>2, <2>3, <2>4
<1> QED BY <1>2, <1>3

(* The values of the loop of find_node.                                    *)
LEMMA FindTurns ==
  ASSUME SizesRight, NEW t \in TreeType, NEW key
  PROVE  \E at \in [0 .. Slots -> Points] :
           /\ at[0] = [node |-> t.root, link |-> RootLink]
           /\ \A n \in 1 .. Slots : at[n] = Nearer(t, key, at[n - 1])
           /\ FindNode(t, key) = at[Slots]
<1> DEFINE start == [node |-> t.root, link |-> RootLink]
           step == [p \in Points |-> Nearer(t, key, p)]
           Eq(f) == f = [n \in 0 .. Slots |-> IF n = 0 THEN start ELSE Nearer(t, key, f[n - 1])]
           chosen == CHOOSE f : Eq(f)
<1>1. start \in Points
  BY DEF Points, Links, TreeType
<1>2. step \in [Points -> Points]
  BY NearerStep
<1>3. Slots \in Nat
  BY SlotsNat
<1> HIDE DEF start
<1>4. PICK at \in [0 .. Slots -> Points] : at[0] = start /\ \A n \in 1 .. Slots : at[n] = step[at[n - 1]]
  <2>1. IsLoop(Slots, Points, start, step)
    BY <1>1, <1>2, <1>3 DEF IsLoop
  <2> HIDE DEF step
  <2> QED BY <2>1, LoopExists
<1>5. \A n \in 1 .. Slots : at[n] = Nearer(t, key, at[n - 1])
  <2> TAKE n \in 1 .. Slots
  <2>1. n - 1 \in 0 .. Slots
    BY <1>3
  <2>2. at[n - 1] \in Points
    BY <1>4, <2>1
  <2> QED BY <1>4, <2>2
<1> HIDE DEF step
<1>6. Eq(at)
  <2>1. \A n \in 0 .. Slots : at[n] = IF n = 0 THEN start ELSE Nearer(t, key, at[n - 1])
    <3> TAKE n \in 0 .. Slots
    <3>1. CASE n = 0
      BY <1>4, <3>1
    <3>2. CASE n # 0
      BY <1>3, <1>5, <3>2
    <3> QED BY <3>1, <3>2
  <2> QED BY <1>4, <2>1
<1>7. Eq(chosen)
  <2> HIDE DEF Eq
  <2> QED BY <1>6
<1>8. FindNode(t, key) = chosen[Slots]
  BY DEF FindNode, start
<1> HIDE DEF chosen
<1>9. chosen[0] = start /\ \A n \in 1 .. Slots : chosen[n] = Nearer(t, key, chosen[n - 1])
  BY <1>3, <1>7
<1>10. \A n \in 0 .. Slots : chosen[n] \in Points
  <2> DEFINE G == {n \in 0 .. Slots : chosen[n] \in Points}
  <2>1. 0 \in G
    BY <1>1, <1>3, <1>9
  <2>2. \A n \in 0 .. Slots - 1 : n \in G => n + 1 \in G
    <3> SUFFICES ASSUME NEW n \in 0 .. Slots - 1, n \in G PROVE n + 1 \in G
      OBVIOUS
    <3>1. n + 1 \in 1 .. Slots /\ n + 1 \in 0 .. Slots /\ (n + 1) - 1 = n
      BY <1>3
    <3>2. chosen[n + 1] = Nearer(t, key, chosen[n])
      BY <1>9, <3>1
    <3>3. chosen[n] \in Points
      OBVIOUS
    <3> QED BY <3>1, <3>2, <3>3, NearerStep
  <2> HIDE DEF G
  <2>3. \A n \in 0 .. Slots : n \in G
    BY <1>3, <2>1, <2>2, UpTo
  <2> QED BY <2>3 DEF G
<1>11. chosen \in [0 .. Slots -> Points]
  <2>1. chosen = [n \in 0 .. Slots |-> chosen[n]]
    BY <1>7
  <2> QED BY <1>10, <2>1
<1> QED BY <1>8, <1>9, <1>11 DEF start

-----------------------------------------------------------------------------
(* The nodes above a node: each turn of a search adds one.                 *)
Above(N, r, y) == {c \in N : r[c] < r[y]}

(* There are fewer nodes above a node than nodes.                          *)
LEMMA AboveGrows ==
  ASSUME NEW N, IsFiniteSet(N), NEW r, \A c \in N : r[c] \in Nat, NEW y \in N
  PROVE  /\ Cardinality(Above(N, r, y)) \in Nat /\ Cardinality(N) \in Nat
         /\ Cardinality(Above(N, r, y)) < Cardinality(N)
         /\ \A z \in N : r[y] < r[z] => Cardinality(Above(N, r, y)) + 1 <= Cardinality(Above(N, r, z))
<1> DEFINE A == Above(N, r, y)
<1>1. A \subseteq N /\ y \notin A
  BY DEF Above
<1>2. IsFiniteSet(A) /\ Cardinality(A) \in Nat /\ Cardinality(N) \in Nat
  BY <1>1, FS_Subset, FS_CardinalityType
<1>3. Cardinality(A \cup {y}) = Cardinality(A) + 1
  BY <1>1, <1>2, FS_AddElement
<1>4. Cardinality(A \cup {y}) <= Cardinality(N)
  BY <1>1, FS_Subset
<1>5. ASSUME NEW z \in N, r[y] < r[z]
      PROVE  Cardinality(A) + 1 <= Cardinality(Above(N, r, z))
  <2>1. A \cup {y} \subseteq Above(N, r, z)
    BY <1>5 DEF Above
  <2>2. IsFiniteSet(Above(N, r, z))
    <3>1. Above(N, r, z) \subseteq N
      BY DEF Above
    <3> QED BY <3>1, FS_Subset
  <2>3. Cardinality(A \cup {y}) <= Cardinality(Above(N, r, z))
    BY <2>1, <2>2, FS_Subset
  <2> QED BY <1>3, <2>3
<1>6. Cardinality(A) < Cardinality(N)
  BY <1>2, <1>3, <1>4
<1> QED BY <1>2, <1>5, <1>6

(* A tree over the entries N, ranked by r.                                 *)
CacheTree(t, N, r) ==
  /\ SizesRight
  /\ t \in TreeType /\ N \subseteq Addresses /\ IsFiniteSet(N) /\ Cardinality(N) <= Slots
  /\ Tops(t.root, t.left, t.right, KeyOf, r, N)

(* The facts about a tree of the cache that the searches need.             *)
LEMMA CacheTreeParts ==
  ASSUME NEW t, NEW N, NEW r, CacheTree(t, N, r)
  PROVE  /\ t \in TreeType /\ N \subseteq Addresses
         /\ Ranked(N, KeyOf, r) /\ Ranked(N, Mirrored(KeyOf), r)
         /\ Opposite(N, KeyOf, Mirrored(KeyOf)) /\ Opposite(N, Mirrored(KeyOf), KeyOf)
         /\ Highest(N, r, t.root)
         /\ \A a \in N : /\ Highest(Lower(N, KeyOf, r, a), r, t.left[a])
                         /\ Highest(Lower(N, Mirrored(KeyOf), r, a), r, t.right[a])
         /\ \A a \in N : KeyOf[a] \in Int /\ Mirrored(KeyOf)[a] = -KeyOf[a] /\ r[a] \in Nat
         /\ NoAddress \notin N
<1>1. Ranked(N, KeyOf, r)
  BY DEF CacheTree, Tops
<1>2. \A a \in N : KeyOf[a] \in Int /\ r[a] \in Nat
  BY <1>1 DEF Ranked
<1>3. \A a \in N : Mirrored(KeyOf)[a] = -KeyOf[a]
  BY <1>1, MirrorRanked DEF Opposite
<1>4. /\ Highest(N, r, t.root)
      /\ \A a \in N : /\ Highest(Lower(N, KeyOf, r, a), r, t.left[a])
                      /\ Highest(Lower(N, Mirrored(KeyOf), r, a), r, t.right[a])
  BY DEF CacheTree, Tops
<1>5. t \in TreeType /\ N \subseteq Addresses
  BY DEF CacheTree
<1>6. NoAddress \notin N
  BY <1>1 DEF Ranked
<1>7. Ranked(N, Mirrored(KeyOf), r) /\ Opposite(N, KeyOf, Mirrored(KeyOf)) /\ Opposite(N, Mirrored(KeyOf), KeyOf)
  BY <1>1, MirrorRanked
<1> QED BY <1>1, <1>2, <1>3, <1>4, <1>5, <1>6, <1>7

(* What is below a node has a later rank.                                  *)
LEMMA LowerRank ==
  ASSUME NEW N, NEW q, NEW r, Ranked(N, q, r), NEW a \in N, NEW z,
         Highest(Lower(N, q, r, a), r, z), z # NoAddress
  PROVE  z \in N /\ r[a] < r[z]
BY DEF Ranked, Lower, Highest

(* What a search for a key has reached: a node below which the key belongs.*)
Reached(t, N, r, key, p) ==
  \/ p.link = RootLink /\ p.node = t.root
  \/ \E a \in N : p.link = <<"left", a>> /\ p.node = t.left[a] /\ Belongs(N, KeyOf, r, a, key)
  \/ \E a \in N : p.link = <<"right", a>> /\ p.node = t.right[a] /\ Belongs(N, Mirrored(KeyOf), r, a, -key)

(* A node that a search reached is in the tree.                            *)
LEMMA ReachedNode ==
  ASSUME NEW t, NEW N, NEW r, CacheTree(t, N, r), NEW key \in Int, NEW p, Reached(t, N, r, key, p)
  PROVE  /\ p.node \in N \cup {NoAddress}
         /\ p.node = NoAddress => \A b \in N : KeyOf[b] # key
<1> DEFINE k == KeyOf
           m == Mirrored(KeyOf)
<1>1. /\ Ranked(N, k, r) /\ Ranked(N, m, r) /\ Highest(N, r, t.root)
      /\ \A a \in N : Highest(Lower(N, k, r, a), r, t.left[a]) /\ Highest(Lower(N, m, r, a), r, t.right[a])
      /\ NoAddress \notin N /\ \A a \in N : k[a] \in Int /\ m[a] = -k[a]
  BY CacheTreeParts
<1> HIDE DEF k, m
<1>2. CASE p.link = RootLink /\ p.node = t.root
  BY <1>1, <1>2 DEF Highest, k
<1>3. ASSUME NEW a \in N, p.node = t.left[a], Belongs(N, k, r, a, key)
      PROVE  p.node \in N \cup {NoAddress} /\ (p.node = NoAddress => \A b \in N : k[b] # key)
  <2>1. Highest(Lower(N, k, r, a), r, p.node)
    BY <1>1, <1>3
  <2> QED BY <1>1, <1>3, <2>1, DescendSame
<1>4. ASSUME NEW a \in N, p.node = t.right[a], Belongs(N, m, r, a, -key)
      PROVE  p.node \in N \cup {NoAddress} /\ (p.node = NoAddress => \A b \in N : k[b] # key)
  <2>1. Highest(Lower(N, m, r, a), r, p.node) /\ -key \in Int
    BY <1>1, <1>4
  <2>2. p.node \in N \cup {NoAddress} /\ (p.node = NoAddress => \A b \in N : m[b] # -key)
    BY <1>1, <1>4, <2>1, DescendSame
  <2> QED BY <1>1, <2>2
<1> QED BY <1>2, <1>3, <1>4 DEF Reached, k, m

(* The next turn of a search reaches the next node.                        *)
LEMMA ReachedNext ==
  ASSUME NEW t, NEW N, NEW r, CacheTree(t, N, r), NEW key \in Int, NEW p, Reached(t, N, r, key, p),
         p.node # NoAddress
  PROVE  /\ p.node \in N
         /\ key < KeyOf[p.node] => Belongs(N, KeyOf, r, p.node, key)
         /\ KeyOf[p.node] < key => Belongs(N, Mirrored(KeyOf), r, p.node, -key)
<1> DEFINE k == KeyOf
           m == Mirrored(KeyOf)
           y == p.node
<1>1. /\ Ranked(N, k, r) /\ Ranked(N, m, r) /\ Opposite(N, k, m) /\ Opposite(N, m, k) /\ Highest(N, r, t.root)
      /\ \A a \in N : Highest(Lower(N, k, r, a), r, t.left[a]) /\ Highest(Lower(N, m, r, a), r, t.right[a])
      /\ \A a \in N : k[a] \in Int /\ m[a] = -k[a]
  BY CacheTreeParts
<1>2. y \in N /\ -key \in Int
  BY ReachedNode
<1>3. m[y] = -k[y] /\ k[y] \in Int /\ m[y] \in Int
  BY <1>1, <1>2
<1>4. (k[y] < key <=> -key < m[y]) /\ (key < k[y] <=> m[y] < -key)
  BY <1>3
<1> HIDE DEF k, m
<1> SUFFICES (key < k[y] => Belongs(N, k, r, y, key)) /\ (k[y] < key => Belongs(N, m, r, y, -key))
  BY <1>2 DEF k, m
<1>5. CASE y = t.root
  BY <1>1, <1>2, <1>4, <1>5, DescendTop
<1>6. ASSUME NEW a \in N, y = t.left[a], Belongs(N, k, r, a, key)
      PROVE  (key < k[y] => Belongs(N, k, r, y, key)) /\ (k[y] < key => Belongs(N, m, r, y, -key))
  <2>1. Highest(Lower(N, k, r, a), r, y)
    BY <1>1, <1>6
  <2>2. key < k[y] => Belongs(N, k, r, y, key)
    BY <1>1, <1>6, <2>1, DescendSame
  <2>3. k[y] < key => Belongs(N, m, r, y, -key)
    BY <1>1, <1>6, <2>1, DescendOther
  <2> QED BY <2>2, <2>3
<1>7. ASSUME NEW a \in N, y = t.right[a], Belongs(N, m, r, a, -key)
      PROVE  (key < k[y] => Belongs(N, k, r, y, key)) /\ (k[y] < key => Belongs(N, m, r, y, -key))
  <2>1. Highest(Lower(N, m, r, a), r, y)
    BY <1>1, <1>7
  <2>2. k[y] < key => Belongs(N, m, r, y, -key)
    BY <1>1, <1>2, <1>4, <1>7, <2>1, DescendSame
  <2>3. m[y] < -key => Belongs(N, k, r, y, -(-key))
    BY <1>1, <1>2, <1>7, <2>1, DescendOther
  <2>4. -(-key) = key
    OBVIOUS
  <2> QED BY <1>4, <2>2, <2>3, <2>4
<1> QED BY <1>5, <1>6, <1>7 DEF Reached, k, m

(* Where a search ends: at the node with the key, or at the one free place *)
(* the key belongs at.                                                     *)
LEMMA FindEnds ==
  ASSUME NEW t, NEW N, NEW r, CacheTree(t, N, r), NEW key \in Int
  PROVE  /\ Reached(t, N, r, key, FindNode(t, key))
         /\ FindNode(t, key).node \in N \cup {NoAddress}
         /\ FindNode(t, key).node # NoAddress => KeyOf[FindNode(t, key).node] = key
         /\ FindNode(t, key).node = NoAddress => \A b \in N : KeyOf[b] # key
<1>1. SizesRight /\ t \in TreeType /\ Slots \in Nat /\ IsFiniteSet(N) /\ Cardinality(N) <= Slots
  BY SlotsNat DEF CacheTree
<1>2. PICK at \in [0 .. Slots -> Points] :
        /\ at[0] = [node |-> t.root, link |-> RootLink]
        /\ \A n \in 1 .. Slots : at[n] = Nearer(t, key, at[n - 1])
        /\ FindNode(t, key) = at[Slots]
  BY <1>1, FindTurns
<1> DEFINE Deep(n, y) == y = NoAddress \/ KeyOf[y] = key \/ n <= Cardinality(Above(N, r, y))
           G == {n \in 0 .. Slots : Reached(t, N, r, key, at[n]) /\ Deep(n, at[n].node)}
<1>3. \A y \in N : r[y] \in Nat /\ KeyOf[y] \in Int
  BY CacheTreeParts
<1>4. 0 \in G
  <2>1. Reached(t, N, r, key, at[0])
    BY <1>2 DEF Reached
  <2>2. at[0].node \in N \cup {NoAddress}
    BY <2>1, ReachedNode
  <2>3. Deep(0, at[0].node)
    BY <1>1, <1>3, <2>2, AboveGrows
  <2> QED BY <1>1, <2>1, <2>3
<1>5. \A n \in 0 .. Slots - 1 : n \in G => n + 1 \in G
  <2> SUFFICES ASSUME NEW n \in 0 .. Slots - 1, n \in G PROVE n + 1 \in G
    OBVIOUS
  <2>1. n + 1 \in 1 .. Slots /\ n + 1 \in 0 .. Slots /\ (n + 1) - 1 = n /\ n \in 0 .. Slots
    BY <1>1
  <2> DEFINE p == at[n]
             p1 == at[n + 1]
             y == p.node
  <2>2. p1 = Nearer(t, key, p) /\ p \in Points
    BY <1>2, <2>1
  <2>3. Reached(t, N, r, key, p) /\ Deep(n, y)
    OBVIOUS
  <2>4. ASSUME Reached(t, N, r, key, p1), Deep(n + 1, p1.node) PROVE n + 1 \in G
    BY <2>1, <2>4
  <2> HIDE DEF p, p1, G
  <2>5. CASE y = NoAddress \/ KeyOf[y] = key
    <3>1. p1 = p
      BY <1>1, <2>2, <2>5, NearerStep
    <3> QED BY <2>3, <2>4, <2>5, <3>1
  <2>6. CASE y # NoAddress /\ KeyOf[y] # key
    <3>1. y \in N /\ KeyOf[y] \in Int /\ n <= Cardinality(Above(N, r, y))
      BY <1>3, <2>3, <2>6, ReachedNext
    <3>2. \A z \in N : r[y] < r[z] => Deep(n + 1, z)
      <4>1. Cardinality(Above(N, r, y)) \in Nat
        BY <1>1, <1>3, <3>1, AboveGrows
      <4> TAKE z \in N
      <4> HAVE r[y] < r[z]
      <4>2. Cardinality(Above(N, r, y)) + 1 <= Cardinality(Above(N, r, z)) /\ Cardinality(Above(N, r, z)) \in Nat
        BY <1>1, <1>3, <3>1, AboveGrows
      <4> QED BY <3>1, <4>1, <4>2
    <3>3. CASE key < KeyOf[y]
      <4>1. p1 = [node |-> t.left[y], link |-> <<"left", y>>]
        BY <1>1, <2>2, <2>6, <3>3, NearerStep
      <4>2. Belongs(N, KeyOf, r, y, key)
        BY <2>3, <2>6, <3>3, ReachedNext
      <4>3. Reached(t, N, r, key, p1)
        BY <3>1, <4>1, <4>2 DEF Reached
      <4>4. t.left[y] # NoAddress => t.left[y] \in N /\ r[y] < r[t.left[y]]
        BY <3>1, CacheTreeParts, LowerRank
      <4> QED BY <2>4, <3>2, <4>1, <4>3, <4>4
    <3>4. CASE KeyOf[y] < key
      <4>1. p1 = [node |-> t.right[y], link |-> <<"right", y>>]
        BY <1>1, <2>2, <2>6, <3>1, <3>4, NearerStep
      <4>2. Belongs(N, Mirrored(KeyOf), r, y, -key)
        BY <2>3, <2>6, <3>4, ReachedNext
      <4>3. Reached(t, N, r, key, p1)
        BY <3>1, <4>1, <4>2 DEF Reached
      <4>4. t.right[y] # NoAddress => t.right[y] \in N /\ r[y] < r[t.right[y]]
        BY <3>1, CacheTreeParts, LowerRank
      <4> QED BY <2>4, <3>2, <4>1, <4>3, <4>4
    <3> QED BY <2>6, <3>1, <3>3, <3>4
  <2> QED BY <2>5, <2>6
<1>6. Slots \in G
  <2> HIDE DEF G
  <2>1. \A n \in 0 .. Slots : n \in G
    BY <1>1, <1>4, <1>5, UpTo
  <2> QED BY <1>1, <2>1
<1> DEFINE e == FindNode(t, key)
<1>7. Reached(t, N, r, key, e) /\ Deep(Slots, e.node)
  BY <1>2, <1>6
<1> HIDE DEF e
<1>8. e.node \in N \cup {NoAddress} /\ (e.node = NoAddress => \A b \in N : KeyOf[b] # key)
  BY <1>7, ReachedNode
<1>9. ASSUME e.node # NoAddress PROVE KeyOf[e.node] = key
  <2>1. e.node \in N
    BY <1>8, <1>9
  <2>2. Cardinality(Above(N, r, e.node)) < Cardinality(N)
        /\ Cardinality(Above(N, r, e.node)) \in Nat /\ Cardinality(N) \in Nat
    BY <1>1, <1>3, <2>1, AboveGrows
  <2> QED BY <1>1, <1>7, <1>9, <2>2
<1> QED BY <1>7, <1>8, <1>9 DEF e

-----------------------------------------------------------------------------
(* The loops of find_replacement_node.                                     *)
EntryPoints == [node : Addresses, link : Links]

(* A turn of the second loop of find_replacement_node.                     *)
LEMMA FurtherStep ==
  ASSUME NEW t \in TreeType, NEW side \in Sides, NEW p \in EntryPoints
  PROVE  /\ Further(t, side, p) \in EntryPoints
         /\ t[side][p.node] = NoAddress => Further(t, side, p) = p
         /\ t[side][p.node] # NoAddress =>
              /\ t[side][p.node] \in Addresses
              /\ Further(t, side, p) = [node |-> t[side][p.node], link |-> <<side, p.node>>]
<1>1. p.node \in Addresses /\ t[side][p.node] \in Nodes
  BY TreeSides DEF EntryPoints
<1>2. <<side, p.node>> \in Links
  BY <1>1 DEF Links
<1>3. CASE t[side][p.node] = NoAddress
  BY <1>3 DEF Further
<1>4. CASE t[side][p.node] # NoAddress
  BY <1>1, <1>2, <1>4 DEF Further, EntryPoints, Nodes
<1> QED BY <1>3, <1>4

(* The values of that loop.                                                *)
LEMMA FurthestTurns ==
  ASSUME SizesRight, NEW t \in TreeType, NEW side \in Sides, NEW place \in EntryPoints
  PROVE  \E at \in [0 .. Slots -> EntryPoints] :
           /\ at[0] = place
           /\ \A n \in 1 .. Slots : at[n] = Further(t, side, at[n - 1])
           /\ Furthest(t, side, place) = at[Slots]
<1> DEFINE step == [p \in EntryPoints |-> Further(t, side, p)]
           Eq(f) == f = [n \in 0 .. Slots |-> IF n = 0 THEN place ELSE Further(t, side, f[n - 1])]
           chosen == CHOOSE f : Eq(f)
<1>2. step \in [EntryPoints -> EntryPoints]
  BY FurtherStep
<1>3. Slots \in Nat
  BY SlotsNat
<1>4. PICK at \in [0 .. Slots -> EntryPoints] : at[0] = place /\ \A n \in 1 .. Slots : at[n] = step[at[n - 1]]
  <2>1. IsLoop(Slots, EntryPoints, place, step)
    BY <1>2, <1>3 DEF IsLoop
  <2> HIDE DEF step
  <2> QED BY <2>1, LoopExists
<1>5. \A n \in 1 .. Slots : at[n] = Further(t, side, at[n - 1])
  <2> TAKE n \in 1 .. Slots
  <2>1. n - 1 \in 0 .. Slots
    BY <1>3
  <2>2. at[n - 1] \in EntryPoints
    BY <1>4, <2>1
  <2> QED BY <1>4, <2>2
<1> HIDE DEF step
<1>6. Eq(at)
  <2>1. \A n \in 0 .. Slots : at[n] = IF n = 0 THEN place ELSE Further(t, side, at[n - 1])
    <3> TAKE n \in 0 .. Slots
    <3>1. CASE n = 0
      BY <1>4, <3>1
    <3>2. CASE n # 0
      BY <1>3, <1>5, <3>2
    <3> QED BY <3>1, <3>2
  <2> QED BY <1>4, <2>1
<1>7. Eq(chosen)
  <2> HIDE DEF Eq
  <2> QED BY <1>6
<1>8. Furthest(t, side, place) = chosen[Slots]
  BY DEF Furthest
<1> HIDE DEF chosen
<1>9. chosen[0] = place /\ \A n \in 1 .. Slots : chosen[n] = Further(t, side, chosen[n - 1])
  BY <1>3, <1>7
<1>10. \A n \in 0 .. Slots : chosen[n] \in EntryPoints
  <2> DEFINE G == {n \in 0 .. Slots : chosen[n] \in EntryPoints}
  <2>1. 0 \in G
    BY <1>3, <1>9
  <2>2. \A n \in 0 .. Slots - 1 : n \in G => n + 1 \in G
    <3> SUFFICES ASSUME NEW n \in 0 .. Slots - 1, n \in G PROVE n + 1 \in G
      OBVIOUS
    <3>1. n + 1 \in 1 .. Slots /\ n + 1 \in 0 .. Slots /\ (n + 1) - 1 = n
      BY <1>3
    <3>2. chosen[n + 1] = Further(t, side, chosen[n])
      BY <1>9, <3>1
    <3>3. chosen[n] \in EntryPoints
      OBVIOUS
    <3> QED BY <3>1, <3>2, <3>3, FurtherStep
  <2> HIDE DEF G
  <2>3. \A n \in 0 .. Slots : n \in G
    BY <1>3, <2>1, <2>2, UpTo
  <2> QED BY <2>3 DEF G
<1>11. chosen \in [0 .. Slots -> EntryPoints]
  <2>1. chosen = [n \in 0 .. Slots |-> chosen[n]]
    BY <1>7
  <2> QED BY <1>10, <2>1
<1> QED BY <1>8, <1>9, <1>11

(* Followed away from x, a side ends at the neighbour of x in order.       *)
LEMMA FurthestEnds ==
  ASSUME NEW t, NEW N, NEW r, CacheTree(t, N, r), NEW side \in Sides, NEW q, NEW p,
         Ranked(N, q, r), Ranked(N, p, r), Opposite(N, q, p),
         \A y \in N : Highest(Lower(N, p, r, y), r, t[side][y]),
         NEW x \in N, NEW place \in EntryPoints, Beside(N, q, r, x, place.node),
         NEW e, e = Furthest(t, side, place)
  PROVE  /\ e \in EntryPoints /\ Beside(N, q, r, x, e.node) /\ t[side][e.node] = NoAddress
         /\ \/ e = place
            \/ \E b \in N : b # x /\ e.link = <<side, b>> /\ t[side][b] = e.node
         /\ \A c \in N : ~(q[e.node] < q[c] /\ q[c] < q[x])
<1>1. SizesRight /\ t \in TreeType /\ Slots \in Nat /\ IsFiniteSet(N) /\ Cardinality(N) <= Slots
  BY SlotsNat DEF CacheTree
<1>2. PICK at \in [0 .. Slots -> EntryPoints] :
        /\ at[0] = place
        /\ \A n \in 1 .. Slots : at[n] = Further(t, side, at[n - 1])
        /\ e = at[Slots]
  BY <1>1, FurthestTurns
<1> DEFINE Deep(n, y) == t[side][y] = NoAddress \/ n <= Cardinality(Above(N, r, y))
           Linked(w) == w = place \/ \E b \in N : b # x /\ w.link = <<side, b>> /\ t[side][b] = w.node
           G == {n \in 0 .. Slots : Beside(N, q, r, x, at[n].node) /\ Linked(at[n]) /\ Deep(n, at[n].node)}
<1>3. \A y \in N : r[y] \in Nat
  BY CacheTreeParts
<1>4. \A y : Beside(N, q, r, x, y) => y \in N /\ y # x
  BY DEF Beside, Lower, Ranked
<1> HIDE DEF Linked
<1>5. 0 \in G
  <2>1. Deep(0, at[0].node)
    BY <1>1, <1>2, <1>3, <1>4, AboveGrows
  <2> QED BY <1>1, <1>2, <2>1 DEF Linked
<1>6. \A n \in 0 .. Slots - 1 : n \in G => n + 1 \in G
  <2> SUFFICES ASSUME NEW n \in 0 .. Slots - 1, n \in G PROVE n + 1 \in G
    OBVIOUS
  <2>1. n + 1 \in 1 .. Slots /\ n + 1 \in 0 .. Slots /\ (n + 1) - 1 = n /\ n \in 0 .. Slots
    BY <1>1
  <2> DEFINE w == at[n]
             w1 == at[n + 1]
             y == w.node
             z == t[side][y]
  <2>2. w1 = Further(t, side, w) /\ w \in EntryPoints
    BY <1>2, <2>1
  <2>3. Beside(N, q, r, x, y) /\ Linked(w) /\ Deep(n, y)
    OBVIOUS
  <2>4. ASSUME Beside(N, q, r, x, w1.node), Linked(w1), Deep(n + 1, w1.node) PROVE n + 1 \in G
    BY <2>1, <2>4
  <2> HIDE DEF w, w1, G
  <2>5. y \in N /\ y # x
    BY <1>4, <2>3
  <2>6. CASE z = NoAddress
    <3>1. w1 = w
      BY <1>1, <2>2, <2>6, FurtherStep
    <3> QED BY <2>3, <2>4, <2>6, <3>1
  <2>7. CASE z # NoAddress
    <3>1. w1 = [node |-> z, link |-> <<side, y>>]
      BY <1>1, <2>2, <2>7, FurtherStep
    <3>2. Highest(Lower(N, p, r, y), r, z)
      BY <2>5
    <3>3. Beside(N, q, r, x, z) /\ r[y] < r[z]
      BY <2>3, <2>7, <3>2, BesideNext
    <3>4. Linked(w1)
      BY <2>5, <3>1 DEF Linked
    <3>5. Cardinality(Above(N, r, y)) \in Nat /\ Cardinality(Above(N, r, z)) \in Nat
          /\ Cardinality(Above(N, r, y)) + 1 <= Cardinality(Above(N, r, z))
      BY <1>1, <1>3, <1>4, <2>5, <3>3, AboveGrows
    <3>6. n <= Cardinality(Above(N, r, y))
      BY <2>3, <2>7
    <3>7. Deep(n + 1, z)
      BY <3>5, <3>6
    <3> QED BY <2>4, <3>1, <3>3, <3>4, <3>7
  <2> QED BY <2>6, <2>7
<1>7. Slots \in G
  <2> HIDE DEF G
  <2>1. \A n \in 0 .. Slots : n \in G
    BY <1>1, <1>5, <1>6, UpTo
  <2> QED BY <1>1, <2>1
<1>8. Beside(N, q, r, x, e.node) /\ Linked(e) /\ Deep(Slots, e.node) /\ e \in EntryPoints
  BY <1>1, <1>2, <1>7
<1>9. e.node \in N
  BY <1>4, <1>8
<1>10. t[side][e.node] = NoAddress
  <2>1. Cardinality(Above(N, r, e.node)) < Cardinality(N)
        /\ Cardinality(Above(N, r, e.node)) \in Nat /\ Cardinality(N) \in Nat
    BY <1>1, <1>3, <1>9, AboveGrows
  <2> QED BY <1>1, <1>8, <2>1
<1>11. \A c \in N : ~(q[e.node] < q[c] /\ q[c] < q[x])
  <2>1. Highest(Lower(N, p, r, e.node), r, NoAddress)
    BY <1>9, <1>10
  <2> QED BY <1>8, <2>1, BesideNext
<1> QED BY <1>8, <1>10, <1>11 DEF Linked

-----------------------------------------------------------------------------
(* A link that points to a node.                                           *)
LinksTo(t, N, link, y) ==
  \/ link = RootLink /\ t.root = y
  \/ \E a \in N : link = <<"left", a>> /\ t.left[a] = y
  \/ \E a \in N : link = <<"right", a>> /\ t.right[a] = y

(* It is the only one, so that a change of it changes no other.            *)
LEMMA SetLinkTo ==
  ASSUME NEW t, NEW N, NEW r, CacheTree(t, N, r), NEW y \in N, NEW link, LinksTo(t, N, link, y),
         NEW z \in Nodes, NEW u, u = SetLink(t, link, z)
  PROVE  /\ u \in TreeType
         /\ u.root = IF t.root = y THEN z ELSE t.root
         /\ \A a \in N : /\ u.left[a] = IF t.left[a] = y THEN z ELSE t.left[a]
                         /\ u.right[a] = IF t.right[a] = y THEN z ELSE t.right[a]
<1>1. t \in TreeType /\ N \subseteq Addresses
  BY DEF CacheTree
<1>2. /\ \A a, b \in N : t.left[a] = y /\ t.left[b] = y => a = b
      /\ \A a, b \in N : t.right[a] = y /\ t.right[b] = y => a = b
      /\ \A a, b \in N : ~(t.left[a] = y /\ t.right[b] = y)
      /\ t.root = y => \A a \in N : t.left[a] # y /\ t.right[a] # y
  BY OneParent DEF CacheTree
<1>3. t.left \in [Addresses -> Nodes] /\ t.right \in [Addresses -> Nodes]
  BY <1>1 DEF TreeType
<1>4. CASE link = RootLink /\ t.root = y
  <2>1. u \in TreeType /\ u.root = z /\ u.left = t.left /\ u.right = t.right
    BY <1>1, <1>4, SetLinkRoot
  <2> QED BY <1>2, <1>4, <2>1
<1>5. ASSUME NEW b \in N, link = <<"left", b>>, t.left[b] = y
      PROVE  /\ u \in TreeType
             /\ u.root = IF t.root = y THEN z ELSE t.root
             /\ \A a \in N : /\ u.left[a] = IF t.left[a] = y THEN z ELSE t.left[a]
                             /\ u.right[a] = IF t.right[a] = y THEN z ELSE t.right[a]
  <2>1. u \in TreeType /\ u.root = t.root /\ u.left = [t.left EXCEPT ![b] = z] /\ u.right = t.right
    BY <1>1, <1>5, SetLinkLeft
  <2>2. \A a \in N : u.left[a] = IF a = b THEN z ELSE t.left[a]
    BY <1>1, <1>3, <2>1
  <2> QED BY <1>2, <1>5, <2>1, <2>2
<1>6. ASSUME NEW b \in N, link = <<"right", b>>, t.right[b] = y
      PROVE  /\ u \in TreeType
             /\ u.root = IF t.root = y THEN z ELSE t.root
             /\ \A a \in N : /\ u.left[a] = IF t.left[a] = y THEN z ELSE t.left[a]
                             /\ u.right[a] = IF t.right[a] = y THEN z ELSE t.right[a]
  <2>1. u \in TreeType /\ u.root = t.root /\ u.left = t.left /\ u.right = [t.right EXCEPT ![b] = z]
    BY <1>1, <1>6, SetLinkRight
  <2>2. \A a \in N : u.right[a] = IF a = b THEN z ELSE t.right[a]
    BY <1>1, <1>3, <2>1
  <2> QED BY <1>2, <1>6, <2>1, <2>2
<1> QED BY <1>4, <1>5, <1>6 DEF LinksTo

(* An entry is found under its key, by the link that points to it.         *)
LEMMA FindsEntry ==
  ASSUME NEW t, NEW N, NEW r, CacheTree(t, N, r), NEW x \in N
  PROVE  FindNode(t, KeyOf[x]).node = x /\ LinksTo(t, N, FindNode(t, KeyOf[x]).link, x)
<1> DEFINE e == FindNode(t, KeyOf[x])
<1>1. KeyOf[x] \in Int
  BY CacheTreeParts
<1>2. Reached(t, N, r, KeyOf[x], e) /\ e.node \in N /\ KeyOf[e.node] = KeyOf[x]
  BY <1>1, FindEnds
<1>3. e.node = x
  BY <1>2 DEF CacheTree, Tops, Ranked
<1> QED BY <1>2, <1>3 DEF Reached, LinksTo

(* A node of the tree with one child at most leaves it.                    *)
LEMMA SpliceOut ==
  ASSUME NEW t, NEW N, NEW r, CacheTree(t, N, r), NEW y \in N, NEW link, LinksTo(t, N, link, y),
         NEW z, (t.right[y] = NoAddress /\ z = t.left[y]) \/ (t.left[y] = NoAddress /\ z = t.right[y])
  PROVE  CacheTree(SetLink(t, link, z), N \ {y}, r)
<1> DEFINE u == SetLink(t, link, z)
<1>1. t \in TreeType /\ y \in Addresses
  BY DEF CacheTree
<1>2. z \in Nodes
  BY <1>1 DEF TreeType
<1>3. /\ u \in TreeType
      /\ u.root = IF t.root = y THEN z ELSE t.root
      /\ \A a \in N : /\ u.left[a] = IF t.left[a] = y THEN z ELSE t.left[a]
                      /\ u.right[a] = IF t.right[a] = y THEN z ELSE t.right[a]
  BY <1>2, SetLinkTo
<1> HIDE DEF u
<1>4. Tops(t.root, t.left, t.right, KeyOf, r, N)
  BY DEF CacheTree
<1>5. Tops(u.root, u.left, u.right, KeyOf, r, N \ {y})
  <2>1. \A a \in N \ {y} : /\ u.left[a] = IF t.left[a] = y THEN z ELSE t.left[a]
                           /\ u.right[a] = IF t.right[a] = y THEN z ELSE t.right[a]
    BY <1>3
  <2>2. Tops(IF t.root = y THEN z ELSE t.root, u.left, u.right, KeyOf, r, N \ {y})
    BY <1>4, <2>1, SpliceTree
  <2> QED BY <1>3, <2>2
<1>6. IsFiniteSet(N \ {y}) /\ Cardinality(N \ {y}) <= Slots
  <2>1. IsFiniteSet(N) /\ Cardinality(N) <= Slots /\ SizesRight
    BY DEF CacheTree
  <2>2. IsFiniteSet(N \ {y}) /\ Cardinality(N \ {y}) <= Cardinality(N)
    BY <2>1, FS_Subset
  <2>3. Cardinality(N) \in Nat /\ Cardinality(N \ {y}) \in Nat /\ Slots \in Nat
    BY <2>1, <2>2, FS_CardinalityType, SlotsNat
  <2> QED BY <2>1, <2>2, <2>3
<1> QED BY <1>3, <1>5, <1>6 DEF CacheTree, u

(* The neighbour that find_replacement_node finds.                         *)
LEMMA ReplacementFound ==
  ASSUME NEW t, NEW N, NEW r, CacheTree(t, N, r), NEW x \in N, NEW e, e = FindReplacementNode(t, x)
  PROVE  \/ e.node = NoAddress /\ t.left[x] = NoAddress /\ t.right[x] = NoAddress
         \/ /\ e.node \in N /\ e.node # x /\ LinksTo(t, N, e.link, e.node) /\ r[x] < r[e.node]
            /\ t.left[e.node] = NoAddress \/ t.right[e.node] = NoAddress
            /\ \A c \in N \ {x, e.node} : KeyOf[c] # KeyOf[e.node] /\ (KeyOf[c] < KeyOf[x] <=> KeyOf[c] < KeyOf[e.node])
<1> DEFINE k == KeyOf
           m == Mirrored(KeyOf)
<1>1. /\ Ranked(N, k, r) /\ Ranked(N, m, r) /\ Opposite(N, k, m) /\ Opposite(N, m, k)
      /\ \A a \in N : Highest(Lower(N, k, r, a), r, t.left[a]) /\ Highest(Lower(N, m, r, a), r, t.right[a])
      /\ NoAddress \notin N /\ \A a \in N : k[a] \in Int /\ m[a] = -k[a] /\ r[a] \in Nat
      /\ t \in TreeType /\ N \subseteq Addresses
  BY CacheTreeParts
<1>2. /\ t["left"] = t.left /\ t["right"] = t.right
      /\ t.left[x] \in Nodes /\ t.right[x] \in Nodes
      /\ <<"left", x>> \in Links /\ <<"right", x>> \in Links
      /\ "left" \in Sides /\ "right" \in Sides
  BY <1>1, TreeSides DEF TreeType, Links, Sides
<1>3. \A a, b \in N : a # b => k[a] # k[b]
  BY <1>1 DEF Ranked
<1> HIDE DEF k, m
<1>4. CASE t.left[x] # NoAddress
  <2> DEFINE place == [node |-> t.left[x], link |-> <<"left", x>>]
  <2>1. place \in EntryPoints
    BY <1>2, <1>4 DEF EntryPoints, Nodes
  <2>2. Beside(N, k, r, x, place.node)
    BY <1>1, <1>4, BesideFirst
  <2>3. e = Furthest(t, "right", place)
    BY <1>4 DEF FindReplacementNode
  <2> HIDE DEF place
  <2>4. \A y \in N : Highest(Lower(N, m, r, y), r, t["right"][y])
    BY <1>1, <1>2
  <2>5. /\ Beside(N, k, r, x, e.node) /\ t["right"][e.node] = NoAddress
        /\ \/ e = place
           \/ \E b \in N : b # x /\ e.link = <<"right", b>> /\ t["right"][b] = e.node
        /\ \A c \in N : ~(k[e.node] < k[c] /\ k[c] < k[x])
    BY <1>1, <1>2, <2>1, <2>2, <2>3, <2>4, FurthestEnds
  <2>6. e.node \in N /\ k[e.node] < k[x] /\ r[x] < r[e.node]
    BY <1>1, <2>5 DEF Beside, Lower
  <2>7. LinksTo(t, N, e.link, e.node)
    BY <1>2, <2>5 DEF LinksTo, place
  <2>8. \A c \in N \ {x, e.node} : k[c] # k[e.node] /\ (k[c] < k[x] <=> k[c] < k[e.node])
    BY <1>1, <1>3, <2>5, <2>6
  <2>9. e.node # x /\ t.right[e.node] = NoAddress
    BY <1>1, <1>2, <2>5, <2>6
  <2> QED BY <2>6, <2>7, <2>8, <2>9 DEF k
<1>5. CASE t.left[x] = NoAddress /\ t.right[x] # NoAddress
  <2> DEFINE place == [node |-> t.right[x], link |-> <<"right", x>>]
  <2>1. place \in EntryPoints
    BY <1>2, <1>5 DEF EntryPoints, Nodes
  <2>2. Beside(N, m, r, x, place.node)
    BY <1>1, <1>5, BesideFirst
  <2>3. e = Furthest(t, "left", place)
    BY <1>5 DEF FindReplacementNode
  <2> HIDE DEF place
  <2>4. \A y \in N : Highest(Lower(N, k, r, y), r, t["left"][y])
    BY <1>1, <1>2
  <2>5. /\ Beside(N, m, r, x, e.node) /\ t["left"][e.node] = NoAddress
        /\ \/ e = place
           \/ \E b \in N : b # x /\ e.link = <<"left", b>> /\ t["left"][b] = e.node
        /\ \A c \in N : ~(m[e.node] < m[c] /\ m[c] < m[x])
    BY <1>1, <1>2, <2>1, <2>2, <2>3, <2>4, FurthestEnds
  <2>6. e.node \in N /\ m[e.node] < m[x] /\ r[x] < r[e.node]
    BY <1>1, <2>5 DEF Beside, Lower
  <2>7. LinksTo(t, N, e.link, e.node)
    BY <1>2, <2>5 DEF LinksTo, place
  <2>8. \A c \in N \ {x, e.node} : k[c] # k[e.node] /\ (k[c] < k[x] <=> k[c] < k[e.node])
    BY <1>1, <1>3, <2>5, <2>6
  <2>9. e.node # x /\ t.left[e.node] = NoAddress
    BY <1>1, <1>2, <2>5, <2>6
  <2> QED BY <2>6, <2>7, <2>8, <2>9 DEF k
<1>6. CASE t.left[x] = NoAddress /\ t.right[x] = NoAddress
  BY <1>6 DEF FindReplacementNode
<1> QED BY <1>4, <1>5, <1>6

(* A tree with ranks below m.                                              *)
RankedBelow(t, N, m) == \E r : CacheTree(t, N, r) /\ \A a \in N : r[a] < m

(* remove_node leaves a tree over the other nodes.                         *)
LEMMA NodeRemoved ==
  ASSUME NEW t, NEW N, NEW r, CacheTree(t, N, r), NEW m \in Nat, \A a \in N : r[a] < m, NEW x \in N
  PROVE  RankedBelow(RemoveNode(t, x), N \ {x}, m)
<1> DEFINE above == FindNode(t, KeyOf[x]).link
           e == FindReplacementNode(t, x)
           y == e.node
           below == IF t.left[y] # NoAddress THEN t.left[y] ELSE t.right[y]
           t1 == SetLink(t, e.link, below)
           t2 == SetLink(t1, above, y)
           t3 == Adopt(t2, y, x)
<1>1. KeyOf[x] = store[x].key
  BY DEF CacheTree, KeyOf
<1>2. LinksTo(t, N, above, x)
  BY FindsEntry
<1>3. RemoveNode(t, x) = IF y = NoAddress THEN SetLink(t, above, NoAddress) ELSE t3
  BY <1>1 DEF RemoveNode
<1>4. \/ y = NoAddress /\ t.left[x] = NoAddress /\ t.right[x] = NoAddress
      \/ /\ y \in N /\ y # x /\ LinksTo(t, N, e.link, y) /\ r[x] < r[y]
         /\ t.left[y] = NoAddress \/ t.right[y] = NoAddress
         /\ \A c \in N \ {x, y} : KeyOf[c] # KeyOf[y] /\ (KeyOf[c] < KeyOf[x] <=> KeyOf[c] < KeyOf[y])
  BY ReplacementFound
<1> HIDE DEF above, e
<1>5. CASE y = NoAddress
  <2>1. t.left[x] = NoAddress /\ t.right[x] = NoAddress
    BY <1>4, <1>5, CacheTreeParts
  <2>2. CacheTree(SetLink(t, above, NoAddress), N \ {x}, r)
    BY <1>2, <2>1, SpliceOut
  <2> QED BY <1>3, <1>5, <2>2 DEF RankedBelow
<1>6. CASE y # NoAddress
  <2> DEFINE N1 == N \ {y}
             s == [c \in N |-> IF c = y THEN r[x] ELSE r[c]]
  <2>1. /\ y \in N /\ y # x /\ LinksTo(t, N, e.link, y) /\ r[x] < r[y]
        /\ t.left[y] = NoAddress \/ t.right[y] = NoAddress
        /\ \A c \in N \ {x, y} : KeyOf[c] # KeyOf[y] /\ (KeyOf[c] < KeyOf[x] <=> KeyOf[c] < KeyOf[y])
    BY <1>4, <1>6
  <2>2. (t.right[y] = NoAddress /\ below = t.left[y]) \/ (t.left[y] = NoAddress /\ below = t.right[y])
    BY <2>1
  <2> HIDE DEF below
  <2>3. CacheTree(t1, N1, r)
    BY <2>1, <2>2, SpliceOut
  <2>4. t \in TreeType /\ t1 \in TreeType /\ N \subseteq Addresses /\ x \in N1
    BY <2>1, <2>3 DEF CacheTree
  <2>5. /\ t1.root = IF t.root = y THEN below ELSE t.root
        /\ \A a \in N : /\ t1.left[a] = IF t.left[a] = y THEN below ELSE t.left[a]
                        /\ t1.right[a] = IF t.right[a] = y THEN below ELSE t.right[a]
    <3>1. below \in Nodes
      BY <2>1, <2>2, <2>4 DEF TreeType
    <3> QED BY <2>1, <3>1, SetLinkTo
  <2> HIDE DEF t1
  <2>6. LinksTo(t1, N1, above, x)
    <3>1. CASE above = RootLink /\ t.root = x
      BY <2>1, <2>5, <3>1 DEF LinksTo
    <3>2. ASSUME NEW a \in N, above = <<"left", a>>, t.left[a] = x PROVE LinksTo(t1, N1, above, x)
      <4>1. r[a] < r[x] /\ r[a] \in Nat /\ r[x] \in Nat /\ r[y] \in Nat
        BY <2>1, <3>2, CacheTreeParts, LowerRank
      <4>2. a # y
        BY <2>1, <4>1
      <4> QED BY <2>1, <2>5, <3>2, <4>2 DEF LinksTo
    <3>3. ASSUME NEW a \in N, above = <<"right", a>>, t.right[a] = x PROVE LinksTo(t1, N1, above, x)
      <4>1. r[a] < r[x] /\ r[a] \in Nat /\ r[x] \in Nat /\ r[y] \in Nat
        BY <2>1, <3>3, CacheTreeParts, LowerRank
      <4>2. a # y
        BY <2>1, <4>1
      <4> QED BY <2>1, <2>5, <3>3, <4>2 DEF LinksTo
    <3> QED BY <1>2, <3>1, <3>2, <3>3 DEF LinksTo
  <2>7. y \in Nodes /\ y \in Addresses /\ x \in Addresses
    BY <2>1, <2>4 DEF Nodes
  <2>8. /\ t2 \in TreeType
        /\ t2.root = IF t1.root = x THEN y ELSE t1.root
        /\ \A a \in N1 : /\ t2.left[a] = IF t1.left[a] = x THEN y ELSE t1.left[a]
                         /\ t2.right[a] = IF t1.right[a] = x THEN y ELSE t1.right[a]
    BY <2>3, <2>4, <2>6, <2>7, SetLinkTo
  <2> HIDE DEF t2
  <2>9. /\ t3 \in TreeType /\ t3.root = t2.root
        /\ \A a \in Addresses : /\ t3.left[a] = IF a = y THEN t2.left[x] ELSE t2.left[a]
                                /\ t3.right[a] = IF a = y THEN t2.right[x] ELSE t2.right[a]
    <3>1. t2.left[x] \in Nodes /\ t2.right[x] \in Nodes /\ t2.left \in [Addresses -> Nodes] /\ t2.right \in [Addresses -> Nodes]
      BY <2>7, <2>8 DEF TreeType
    <3>2. t3.root = t2.root /\ t3.left = [t2.left EXCEPT ![y] = t2.left[x]] /\ t3.right = [t2.right EXCEPT ![y] = t2.right[x]]
          /\ t3 \in TreeType
      BY <2>7, <2>8, <3>1 DEF TreeType, Adopt
    <3> QED BY <2>7, <3>1, <3>2
  <2> HIDE DEF t3
  <2>10. \A a \in N1 \ {x} : /\ t3.left[a] = IF t1.left[a] = x THEN y ELSE t1.left[a]
                             /\ t3.right[a] = IF t1.right[a] = x THEN y ELSE t1.right[a]
    BY <2>4, <2>8, <2>9
  <2>11. /\ t3.left[y] = IF t1.left[x] = x THEN y ELSE t1.left[x]
         /\ t3.right[y] = IF t1.right[x] = x THEN y ELSE t1.right[x]
    BY <2>4, <2>7, <2>8, <2>9
  <2>12. s[y] = r[x] /\ \A c \in N1 \ {x} : s[c] = r[c]
    BY <2>1
  <2>13. Tops(t1.root, t1.left, t1.right, KeyOf, r, N1)
    BY <2>3 DEF CacheTree
  <2>14. y \notin N1 /\ y # NoAddress /\ y \in DOMAIN KeyOf /\ KeyOf[y] \in Int
    BY <1>6, <2>1, <2>7, CacheTreeParts DEF KeyOf
  <2>15. \A c \in N1 \ {x} : KeyOf[c] # KeyOf[y] /\ (KeyOf[c] < KeyOf[x] <=> KeyOf[c] < KeyOf[y])
    BY <2>1
  <2> HIDE DEF s
  <2>16. Tops(IF t1.root = x THEN y ELSE t1.root, t3.left, t3.right, KeyOf, s, (N1 \ {x}) \cup {y})
    <3> DEFINE rt == t1.root
               L == t1.left
               R == t1.right
               L1 == t3.left
               R1 == t3.right
    <3>1. Tops(rt, L, R, KeyOf, r, N1)
      BY <2>13
    <3>2. TakesPlace(N1, x, y, L, L1) /\ TakesPlace(N1, x, y, R, R1) /\ TakesRank(N1, x, y, r, s)
      BY <2>10, <2>11, <2>12 DEF TakesPlace, TakesRank
    <3> HIDE DEF rt, L, R, L1, R1, N1
    <3>3. Tops(IF rt = x THEN y ELSE rt, L1, R1, KeyOf, s, (N1 \ {x}) \cup {y})
      BY <2>4, <2>14, <2>15, <3>1, <3>2, RelabelTree
    <3> QED BY <3>3 DEF rt, L1, R1
  <2>17. (N1 \ {x}) \cup {y} = N \ {x}
    BY <2>1
  <2>18. Tops(t3.root, t3.left, t3.right, KeyOf, s, N \ {x})
    BY <2>8, <2>9, <2>16, <2>17
  <2>19. IsFiniteSet(N \ {x}) /\ Cardinality(N \ {x}) <= Slots
    <3>1. IsFiniteSet(N) /\ Cardinality(N) <= Slots /\ SizesRight
      BY DEF CacheTree
    <3>2. IsFiniteSet(N \ {x}) /\ Cardinality(N \ {x}) <= Cardinality(N)
      BY <3>1, FS_Subset
    <3>3. Cardinality(N) \in Nat /\ Cardinality(N \ {x}) \in Nat /\ Slots \in Nat
      BY <3>1, <3>2, FS_CardinalityType, SlotsNat
    <3> QED BY <3>1, <3>2, <3>3
  <2>20. CacheTree(t3, N \ {x}, s)
    BY <2>4, <2>9, <2>18, <2>19 DEF CacheTree
  <2>21. \A a \in N \ {x} : s[a] < m
    BY <2>1 DEF s
  <2> QED BY <1>3, <1>6, <2>20, <2>21 DEF RankedBelow
<1> QED BY <1>5, <1>6

-----------------------------------------------------------------------------
(* insert_node for a key that is not there.                                *)
LEMMA InsertNodeIs ==
  ASSUME NEW t \in TreeType, NEW key, NEW x \in Addresses, NEW link, link = FindNode(t, key).link,
         NEW l, l = SetLink(t, link, x), l \in TreeType
  PROVE  /\ InsertNode(t, key, x) \in TreeType
         /\ InsertNode(t, key, x).root = l.root
         /\ InsertNode(t, key, x).left = [l.left EXCEPT ![x] = NoAddress]
         /\ InsertNode(t, key, x).right = [l.right EXCEPT ![x] = NoAddress]
<1>1. InsertNode(t, key, x) = [l EXCEPT !.left[x] = NoAddress, !.right[x] = NoAddress]
  BY DEF InsertNode
<1>2. NoAddress \in Nodes
  BY DEF Nodes
<1>3. l.left \in [Addresses -> Nodes] /\ l.right \in [Addresses -> Nodes] /\ l = [root |-> l.root, left |-> l.left, right |-> l.right]
  BY DEF TreeType
<1> DEFINE v == [root |-> l.root, left |-> [l.left EXCEPT ![x] = NoAddress], right |-> [l.right EXCEPT ![x] = NoAddress]]
<1>4. [l EXCEPT !.left[x] = NoAddress, !.right[x] = NoAddress] = v
  <2>1. PICK rt, L, R : l = [root |-> rt, left |-> L, right |-> R]
    BY <1>3
  <2>2. rt = l.root /\ L = l.left /\ R = l.right
    BY <2>1
  <2> DEFINE w == [l EXCEPT !.left = [l.left EXCEPT ![x] = NoAddress]]
  <2>3. w = [root |-> rt, left |-> [L EXCEPT ![x] = NoAddress], right |-> R]
    BY <2>1
  <2>4. [l EXCEPT !.left[x] = NoAddress, !.right[x] = NoAddress]
          = [w EXCEPT !.right = [w.right EXCEPT ![x] = NoAddress]]
    OBVIOUS
  <2> HIDE DEF w
  <2>5. [w EXCEPT !.right = [w.right EXCEPT ![x] = NoAddress]]
          = [root |-> rt, left |-> [L EXCEPT ![x] = NoAddress], right |-> [R EXCEPT ![x] = NoAddress]]
    BY <2>3
  <2> QED BY <2>2, <2>4, <2>5
<1>5. v \in TreeType
  BY <1>2, <1>3 DEF TreeType
<1> QED BY <1>1, <1>4, <1>5

(* A tree over N, with ranks below m.                                      *)
IsTree(u, k, N, m) == \E r : Tops(u.root, u.left, u.right, k, r, N) /\ \A a \in N : r[a] < m

(* It leaves a tree with the new node in it.                               *)
LEMMA NodeInserted ==
  ASSUME NEW t, NEW N, NEW r, CacheTree(t, N, r), NEW m \in Nat, \A a \in N : r[a] < m,
         NEW x \in Addresses, x \notin N, NEW key \in Int, \A b \in N : KeyOf[b] # key,
         NEW u, u = InsertNode(t, key, x)
  PROVE  u \in TreeType /\ IsTree(u, [KeyOf EXCEPT ![x] = key], N \cup {x}, m + 1)
<1> DEFINE k1 == [KeyOf EXCEPT ![x] = key]
           e == FindNode(t, key)
           l == SetLink(t, e.link, x)
           s == [c \in N \cup {x} |-> IF c = x THEN m ELSE r[c]]
<1>1. /\ t \in TreeType /\ N \subseteq Addresses /\ Highest(N, r, t.root)
      /\ \A a \in N : KeyOf[a] \in Int /\ Mirrored(KeyOf)[a] = -KeyOf[a] /\ r[a] \in Nat
  BY CacheTreeParts
<1>2. /\ x # NoAddress /\ x \in Nodes /\ DOMAIN KeyOf = Addresses /\ KeyOf \in [Addresses -> Int]
  BY SlotsNat DEF CacheTree, Nodes
<1>3. Tops(t.root, t.left, t.right, KeyOf, r, N)
  BY DEF CacheTree
<1>4. Reached(t, N, r, key, e) /\ e.node = NoAddress
  BY FindEnds
<1>5. /\ \A b \in N : k1[b] = KeyOf[b] /\ s[b] = r[b]
      /\ k1[x] = key /\ s[x] = m /\ N \cup {x} \subseteq DOMAIN k1
  BY <1>1, <1>2
<1>6. \A a \in N \cup {x} : s[a] < m + 1
  BY <1>1
<1> DEFINE Fits(rt1, L1, R1) ==
     \/ N = {} /\ rt1 = x
     \/ \E o \in N :
          /\ rt1 = t.root
          /\ \/ /\ t.left[o] = NoAddress /\ Belongs(N, KeyOf, r, o, key) /\ L1[o] = x
                /\ \A b \in N : R1[b] = t.right[b] /\ (b # o => L1[b] = t.left[b])
             \/ /\ t.right[o] = NoAddress /\ Belongs(N, Mirrored(KeyOf), r, o, -key) /\ R1[o] = x
                /\ \A b \in N : L1[b] = t.left[b] /\ (b # o => R1[b] = t.right[b])
<1>7. ASSUME l \in TreeType, Fits(l.root, l.left, l.right)
      PROVE  u \in TreeType /\ Tops(u.root, u.left, u.right, k1, s, N \cup {x})
  <2>1. /\ u \in TreeType /\ u.root = l.root
        /\ u.left = [l.left EXCEPT ![x] = NoAddress] /\ u.right = [l.right EXCEPT ![x] = NoAddress]
    BY <1>1, <1>7, InsertNodeIs
  <2>2. /\ u.left[x] = NoAddress /\ u.right[x] = NoAddress
        /\ \A b \in N : u.left[b] = l.left[b] /\ u.right[b] = l.right[b]
    BY <1>1, <1>7, <2>1 DEF TreeType
  <2> DEFINE rt1 == u.root
             L1 == u.left
             R1 == u.right
  <2>3. Fits(rt1, L1, R1)
    BY <1>7, <2>1, <2>2
  <2>4. L1[x] = NoAddress /\ R1[x] = NoAddress
    BY <2>2
  <2> HIDE DEF rt1, L1, R1, s
  <2>5. Tops(rt1, L1, R1, k1, s, N \cup {x})
    <3> DEFINE rt == t.root
               L == t.left
               R == t.right
    <3>1. Tops(rt, L, R, KeyOf, r, N)
      BY <1>3
    <3>2. Hung(N, KeyOf, r, rt, L, R, key, x, rt1, L1, R1)
      BY <2>3, <2>4 DEF Hung
    <3>3. Keyed(N, KeyOf, r, x, key, m, k1, s)
      BY <1>5 DEF Keyed
    <3>4. \A b \in N : KeyOf[b] # key /\ r[b] < m
      OBVIOUS
    <3> HIDE DEF rt, L, R
    <3> QED BY <1>2, <3>1, <3>2, <3>3, <3>4, InsertTree
  <2> QED BY <2>1, <2>5 DEF rt1, L1, R1
<1> HIDE DEF s
<1>8. ASSUME e.link = RootLink, e.node = t.root
      PROVE  u \in TreeType /\ Tops(u.root, u.left, u.right, k1, s, N \cup {x})
  <2>1. N = {}
    BY <1>1, <1>3, <1>4, <1>8, CacheTreeParts DEF Highest
  <2>2. l \in TreeType /\ l.root = x
    BY <1>1, <1>2, <1>8, SetLinkRoot
  <2> QED BY <1>6, <1>7, <2>1, <2>2
<1>9. ASSUME NEW a \in N, e.link = <<"left", a>>, e.node = t.left[a], Belongs(N, KeyOf, r, a, key)
      PROVE  u \in TreeType /\ Tops(u.root, u.left, u.right, k1, s, N \cup {x})
  <2>1. l \in TreeType /\ l.root = t.root /\ l.left = [t.left EXCEPT ![a] = x] /\ l.right = t.right
    BY <1>1, <1>2, <1>9, SetLinkLeft
  <2>2. l.left[a] = x /\ (\A b \in N : l.right[b] = t.right[b] /\ (b # a => l.left[b] = t.left[b]))
    BY <1>1, <2>1 DEF TreeType
  <2>3. Fits(l.root, l.left, l.right)
    BY <1>4, <1>9, <2>1, <2>2
  <2> QED BY <1>7, <2>1, <2>3
<1>10. ASSUME NEW a \in N, e.link = <<"right", a>>, e.node = t.right[a], Belongs(N, Mirrored(KeyOf), r, a, -key)
      PROVE  u \in TreeType /\ Tops(u.root, u.left, u.right, k1, s, N \cup {x})
  <2>1. l \in TreeType /\ l.root = t.root /\ l.left = t.left /\ l.right = [t.right EXCEPT ![a] = x]
    BY <1>1, <1>2, <1>10, SetLinkRight
  <2>2. l.right[a] = x /\ (\A b \in N : l.left[b] = t.left[b] /\ (b # a => l.right[b] = t.right[b]))
    BY <1>1, <2>1 DEF TreeType
  <2>3. Fits(l.root, l.left, l.right)
    BY <1>4, <1>10, <2>1, <2>2
  <2> QED BY <1>7, <2>1, <2>3
<1>11. u \in TreeType /\ Tops(u.root, u.left, u.right, k1, s, N \cup {x})
  <2> HIDE DEF e, l
  <2>1. (e.link = RootLink /\ e.node = t.root)
        \/ (\E a \in N : e.link = <<"left", a>> /\ e.node = t.left[a] /\ Belongs(N, KeyOf, r, a, key))
        \/ (\E a \in N : e.link = <<"right", a>> /\ e.node = t.right[a] /\ Belongs(N, Mirrored(KeyOf), r, a, -key))
    BY <1>4 DEF Reached
  <2> QED BY <1>8, <1>9, <1>10, <2>1
<1> HIDE DEF k1
<1>12. IsTree(u, k1, N \cup {x}, m + 1)
  BY <1>6, <1>11 DEF IsTree
<1> QED BY <1>11, <1>12 DEF k1

(* Every child is found from its parent.                                   *)
LEMMA ChildFound ==
  ASSUME NEW t, NEW N, NEW r, CacheTree(t, N, r), NEW a \in N, NEW b \in {t.left[a], t.right[a]}, b # NoAddress
  PROVE  b \in N /\ FindNode(t, KeyOf[b]).link \in {<<"left", a>>, <<"right", a>>}
<1>1. Tops(t.root, t.left, t.right, KeyOf, r, N)
  BY DEF CacheTree
<1>2. b \in N
  BY <1>1, LinksInside
<1> DEFINE e == FindNode(t, KeyOf[b])
           L == t.left
           R == t.right
           rt == t.root
<1>3. LinksTo(t, N, e.link, b)
  BY <1>2, FindsEntry
<1>4. /\ \A c \in N : L[c] = b /\ L[a] = b => c = a
      /\ \A c \in N : R[c] = b /\ R[a] = b => c = a
      /\ \A c \in N : ~(L[a] = b /\ R[c] = b) /\ ~(L[c] = b /\ R[a] = b)
      /\ rt = b => L[a] # b /\ R[a] # b
  <2>1. Tops(rt, L, R, KeyOf, r, N)
    BY <1>1
  <2> HIDE DEF L, R, rt
  <2>2. /\ \A c, d \in N : L[c] = b /\ L[d] = b => c = d
        /\ \A c, d \in N : R[c] = b /\ R[d] = b => c = d
        /\ \A c, d \in N : ~(L[c] = b /\ R[d] = b)
        /\ rt = b => \A c \in N : L[c] # b /\ R[c] # b
    BY <1>2, <2>1, OneParent
  <2> QED BY <2>2
<1>5. L[a] = b \/ R[a] = b
  OBVIOUS
<1> HIDE DEF e
<1>6. e.link \in {<<"left", a>>, <<"right", a>>}
  BY <1>3, <1>4, <1>5 DEF LinksTo
<1> QED BY <1>2, <1>6 DEF e

-----------------------------------------------------------------------------
(* A list of n entries, in the order from its head.                        *)
Listed(n, s) ==
  /\ n \in Nat /\ s \in [1 .. n -> Int]
  /\ \A i \in 1 .. n : s[i] # NoAddress
  /\ \A i, j \in 1 .. n : s[i] = s[j] => i = j

(* A function from 1 .. n is a sequence of length n.                       *)
LEMMA IsSeq ==
  ASSUME NEW n \in Nat, NEW S, NEW s \in [1 .. n -> S]
  PROVE  s \in Seq(S) /\ Len(s) = n /\ DOMAIN s = 1 .. n
<1>1. s \in Seq(S)
  BY SeqDef
<1>2. DOMAIN s = 1 .. n /\ Len(s) \in Nat /\ DOMAIN s = 1 .. Len(s)
  BY <1>1, LenProperties
<1>3. Len(s) = n
  <2>1. \A k \in Nat : 1 .. k = 1 .. n => k = n
    <3> TAKE k \in Nat
    <3> HAVE 1 .. k = 1 .. n
    <3>1. ~(k < n)
      <4>1. k < n => n \in 1 .. n /\ n \notin 1 .. k
        OBVIOUS
      <4> QED BY <4>1
    <3>2. ~(n < k)
      <4>1. n < k => k \in 1 .. k /\ k \notin 1 .. n
        OBVIOUS
      <4> QED BY <4>1
    <3> QED BY <3>1, <3>2
  <2> QED BY <1>2, <2>1
<1> QED BY <1>1, <1>2, <1>3

(* Followed from its first entry, the list is s.                           *)
LEMMA FollowIs ==
  ASSUME Slots \in Nat, NEW n, NEW s, Listed(n, s), n <= Slots,
         NEW x, x = IF n = 0 THEN NoAddress ELSE s[1],
         NEW step, \A i \in 1 .. n : step[s[i]] = IF i = n THEN NoAddress ELSE s[i + 1]
  PROVE  Follow(x, step) = s
<1> DEFINE longer == [trail \in Seq(Int) |->
                        LET y == IF trail = <<>> THEN x ELSE step[trail[Len(trail)]]
                        IN  IF y = NoAddress THEN trail ELSE Append(trail, y)]
           Eq(f) == f = [k \in 0 .. Slots |-> IF k = 0 THEN <<>> ELSE longer[f[k - 1]]]
           chosen == CHOOSE f : Eq(f)
           Most(k) == IF k <= n THEN k ELSE n
           Start(k) == [i \in 1 .. k |-> s[i]]
           at == [k \in 0 .. Slots |-> Start(Most(k))]
<1>1. n \in Nat /\ s \in [1 .. n -> Int] /\ \A i \in 1 .. n : s[i] # NoAddress
  BY DEF Listed
<1>2. \A k \in 0 .. n : Start(k) \in [1 .. k -> Int] /\ Start(k) \in Seq(Int) /\ Len(Start(k)) = k
  <2> TAKE k \in 0 .. n
  <2>1. Start(k) \in [1 .. k -> Int]
    BY <1>1
  <2> HIDE DEF Start
  <2> QED BY <1>1, <2>1, IsSeq
<1>3. Start(0) = <<>>
  <2>1. Start(0) \in Seq(Int) /\ Len(Start(0)) = 0
    BY <1>1, <1>2
  <2> HIDE DEF Start
  <2> QED BY <2>1, EmptySeq
<1>4. \A k \in 0 .. n : longer[Start(k)] = Start(Most(k + 1))
  <2> TAKE k \in 0 .. n
  <2> DEFINE y == IF Start(k) = <<>> THEN x ELSE step[Start(k)[Len(Start(k))]]
  <2>1. longer[Start(k)] = IF y = NoAddress THEN Start(k) ELSE Append(Start(k), y)
    BY <1>2
  <2>2. y = IF k = n THEN NoAddress ELSE s[k + 1]
    <3>1. CASE k = 0
      BY <1>3, <3>1
    <3>2. CASE k # 0
      <4>1. Start(k) # <<>> /\ Len(Start(k)) = k
        BY <1>2, <3>2, EmptySeq
      <4>2. Start(k)[k] = s[k] /\ k \in 1 .. n
        BY <1>1, <3>2
      <4> QED BY <4>1, <4>2
    <3> QED BY <3>1, <3>2
  <2> HIDE DEF y
  <2>3. CASE k = n
    <3>1. Most(k + 1) = k /\ y = NoAddress
      BY <1>1, <2>2, <2>3
    <3> HIDE DEF Start, Most, longer
    <3> QED BY <2>1, <3>1
  <2>4. CASE k # n
    <3>1. y = s[k + 1] /\ y # NoAddress /\ k + 1 \in 1 .. n /\ Most(k + 1) = k + 1 /\ y \in Int
      BY <1>1, <2>2, <2>4
    <3>2. Append(Start(k), y) = Start(k + 1)
      <4>1. /\ Append(Start(k), y) \in Seq(Int) /\ Len(Append(Start(k), y)) = k + 1
            /\ \A i \in 1 .. k + 1 : Append(Start(k), y)[i] = IF i <= k THEN Start(k)[i] ELSE y
        <5>1. Start(k) \in Seq(Int) /\ Len(Start(k)) = k
          BY <1>2
        <5> HIDE DEF Start
        <5> QED BY <3>1, <5>1
      <4>2. Start(k + 1) \in Seq(Int) /\ Len(Start(k + 1)) = k + 1
        BY <1>1, <1>2, <3>1
      <4>3. \A i \in 1 .. k + 1 : Append(Start(k), y)[i] = Start(k + 1)[i]
        BY <1>1, <3>1, <4>1
      <4> HIDE DEF Start
      <4> QED BY <4>1, <4>2, <4>3, SeqEqual
    <3> QED BY <2>1, <3>1, <3>2
  <2> QED BY <2>3, <2>4
<1> HIDE DEF Start, longer
<1>5. Eq(at)
  <2>1. \A k \in 0 .. Slots : at[k] = IF k = 0 THEN <<>> ELSE longer[at[k - 1]]
    <3> TAKE k \in 0 .. Slots
    <3>1. CASE k = 0
      BY <1>1, <1>3, <3>1
    <3>2. CASE k # 0
      <4>1. k - 1 \in 0 .. Slots /\ Most(k - 1) \in 0 .. n /\ Most(Most(k - 1) + 1) = Most(k)
        BY <1>1, <3>2
      <4>2. at[k - 1] = Start(Most(k - 1)) /\ at[k] = Start(Most(k))
        BY <4>1
      <4>3. longer[Start(Most(k - 1))] = Start(Most(Most(k - 1) + 1))
        BY <1>4, <4>1
      <4> HIDE DEF at, Most
      <4> QED BY <3>2, <4>1, <4>2, <4>3
    <3> QED BY <3>1, <3>2
  <2> QED BY <2>1
<1>6. Eq(chosen)
  <2> HIDE DEF Eq
  <2> QED BY <1>5
<1>7. Follow(x, step) = chosen[Slots]
  BY DEF Follow, longer
<1> HIDE DEF chosen
<1> DEFINE G == {k \in 0 .. Slots : chosen[k] = Start(Most(k))}
<1>8. 0 \in G
  BY <1>1, <1>3, <1>6
<1>9. \A k \in 0 .. Slots - 1 : k \in G => k + 1 \in G
  <2> SUFFICES ASSUME NEW k \in 0 .. Slots - 1, k \in G PROVE k + 1 \in G
    OBVIOUS
  <2>1. k + 1 \in 0 .. Slots /\ k + 1 # 0 /\ (k + 1) - 1 = k
    OBVIOUS
  <2>2. chosen[k + 1] = longer[chosen[k]]
    BY <1>6, <2>1
  <2>3. Most(k) \in 0 .. n /\ Most(Most(k) + 1) = Most(k + 1)
    BY <1>1
  <2>4. longer[Start(Most(k))] = Start(Most(Most(k) + 1))
    BY <1>4, <2>3
  <2>5. chosen[k] = Start(Most(k))
    OBVIOUS
  <2>6. chosen[k + 1] = Start(Most(k + 1))
    <3> HIDE DEF Most
    <3> QED BY <2>2, <2>3, <2>4, <2>5
  <2> QED BY <2>1, <2>6
<1>10. chosen[Slots] = Start(Most(Slots))
  <2> HIDE DEF G
  <2>1. \A k \in 0 .. Slots : k \in G
    BY <1>8, <1>9, UpTo
  <2>2. Slots \in G
    BY <2>1
  <2> QED BY <2>2 DEF G
<1>11. Most(Slots) = n
  BY <1>1
<1>12. Start(n) = s
  BY <1>1 DEF Start
<1> QED BY <1>7, <1>10, <1>11, <1>12

-----------------------------------------------------------------------------
(* The type of the list.                                                   *)
ListType == [head : Nodes, tail : Nodes, prev : [Addresses -> Nodes], next : [Addresses -> Nodes]]

(* The list threads the entries s.                                         *)
Threads(n, s, l) ==
  /\ l \in ListType /\ Listed(n, s) /\ s \in [1 .. n -> Addresses]
  /\ l.head = IF n = 0 THEN NoAddress ELSE s[1]
  /\ l.tail = IF n = 0 THEN NoAddress ELSE s[n]
  /\ \A i \in 1 .. n : /\ l.next[s[i]] = IF i = n THEN NoAddress ELSE s[i + 1]
                       /\ l.prev[s[i]] = IF i = 1 THEN NoAddress ELSE s[i - 1]

(* The changes of one field of the list.                                   *)
LEMMA SetNext ==
  ASSUME NEW l \in ListType, NEW a \in Addresses, NEW z \in Nodes, NEW u, u = [l EXCEPT !.next[a] = z]
  PROVE  /\ u \in ListType /\ u.head = l.head /\ u.tail = l.tail /\ u.prev = l.prev
         /\ u.next = [l.next EXCEPT ![a] = z]
BY DEF ListType

LEMMA SetPrev ==
  ASSUME NEW l \in ListType, NEW a \in Addresses, NEW z \in Nodes, NEW u, u = [l EXCEPT !.prev[a] = z]
  PROVE  /\ u \in ListType /\ u.head = l.head /\ u.tail = l.tail /\ u.next = l.next
         /\ u.prev = [l.prev EXCEPT ![a] = z]
BY DEF ListType

LEMMA SetHead ==
  ASSUME NEW l \in ListType, NEW z \in Nodes, NEW u, u = [l EXCEPT !.head = z]
  PROVE  u \in ListType /\ u.head = z /\ u.tail = l.tail /\ u.prev = l.prev /\ u.next = l.next
BY DEF ListType

LEMMA SetTail ==
  ASSUME NEW l \in ListType, NEW z \in Nodes, NEW u, u = [l EXCEPT !.tail = z]
  PROVE  u \in ListType /\ u.head = l.head /\ u.tail = z /\ u.prev = l.prev /\ u.next = l.next
BY DEF ListType

(* The fields of a list that threads s.                                    *)
LEMMA ThreadsParts ==
  ASSUME SizesRight, NEW n, NEW s, NEW l, Threads(n, s, l)
  PROVE  /\ n \in Nat /\ l \in ListType /\ s \in [1 .. n -> Addresses]
         /\ \A i \in 1 .. n : s[i] \in Addresses /\ s[i] \in Nodes /\ s[i] # NoAddress
         /\ \A i, j \in 1 .. n : s[i] = s[j] => i = j
         /\ l.prev \in [Addresses -> Nodes] /\ l.next \in [Addresses -> Nodes]
         /\ NoAddress \in Nodes
BY DEF Threads, Listed, Nodes, ListType

(* A list without its last entry, and with a new first one, is a list.     *)
LEMMA StillListed ==
  ASSUME SizesRight, NEW n \in Nat, NEW s \in [1 .. n -> Addresses], \A i, j \in 1 .. n : s[i] = s[j] => i = j
  PROVE  Listed(n, s)
<1>1. Addresses \subseteq Nat /\ NoAddress \notin Addresses
  BY SlotsNat
<1>2. \A i \in 1 .. n : s[i] \in Addresses
  OBVIOUS
<1>3. s \in [1 .. n -> Int]
  <2>1. s = [i \in 1 .. n |-> s[i]]
    OBVIOUS
  <2>2. \A a \in Addresses : a \in Int
    BY <1>1
  <2>3. \A i \in 1 .. n : s[i] \in Int
    BY <1>2, <2>2
  <2> QED BY <2>1, <2>3
<1> QED BY <1>1, <1>2, <1>3 DEF Listed

(* s without its last entry.                                               *)
Shortened(n, s) == [i \in 1 .. n - 1 |-> s[i]]

(* s with a new first entry.                                               *)
Pushed(n, s, x) == [i \in 1 .. n + 1 |-> IF i = 1 THEN x ELSE s[i - 1]]

(* lru_save drops the last entry of the list.                              *)
LEMMA TailDropped ==
  ASSUME SizesRight, NEW n, NEW s, NEW l, Threads(n, s, l), n # 0
  PROVE  Threads(n - 1, Shortened(n, s), DropTail(l))
<1> USE DEF Shortened
<1> DEFINE s1 == Shortened(n, s)
           t == l.prev[l.tail]
           u == DropTail(l)
<1>1. /\ n \in Nat /\ l \in ListType /\ s \in [1 .. n -> Addresses]
      /\ \A i \in 1 .. n : s[i] \in Addresses /\ s[i] \in Nodes /\ s[i] # NoAddress
      /\ \A i, j \in 1 .. n : s[i] = s[j] => i = j
      /\ l.prev \in [Addresses -> Nodes] /\ l.next \in [Addresses -> Nodes] /\ NoAddress \in Nodes
  BY ThreadsParts
<1>2. /\ l.head = s[1] /\ l.tail = s[n] /\ t = IF n = 1 THEN NoAddress ELSE s[n - 1]
      /\ \A i \in 1 .. n : /\ l.next[s[i]] = IF i = n THEN NoAddress ELSE s[i + 1]
                           /\ l.prev[s[i]] = IF i = 1 THEN NoAddress ELSE s[i - 1]
  BY <1>1 DEF Threads
<1>3. n - 1 \in Nat /\ s1 \in [1 .. n - 1 -> Addresses] /\ \A i, j \in 1 .. n - 1 : s1[i] = s1[j] => i = j
  BY <1>1
<1>4. Listed(n - 1, s1)
  BY <1>3, StillListed
<1> HIDE DEF t
<1> SUFFICES Threads(n - 1, s1, u)
  OBVIOUS
<1>5. CASE n = 1
  <2> DEFINE c == [l EXCEPT !.tail = NoAddress]
  <2>1. u = [c EXCEPT !.head = NoAddress]
    BY <1>2, <1>5 DEF DropTail, t
  <2> HIDE DEF u
  <2>2. c \in ListType /\ c.tail = NoAddress
    BY <1>1 DEF ListType
  <2> HIDE DEF c
  <2>3. u \in ListType /\ u.head = NoAddress /\ u.tail = NoAddress
    BY <1>1, <2>1, <2>2, SetHead
  <2> QED BY <1>3, <1>4, <1>5, <2>3 DEF Threads
<1>6. CASE n # 1
  <2> DEFINE c == [l EXCEPT !.tail = t]
  <2>1. t = s[n - 1] /\ n - 1 \in 1 .. n /\ t \in Addresses /\ t \in Nodes /\ t # NoAddress
    BY <1>1, <1>2, <1>6
  <2>2. c \in ListType /\ c.tail = t /\ c.head = l.head /\ c.prev = l.prev /\ c.next = l.next
    BY <1>1, <2>1 DEF ListType
  <2>3. u = [c EXCEPT !.next[t] = NoAddress]
    BY <2>1 DEF DropTail, t
  <2> HIDE DEF c, u
  <2>4. /\ u \in ListType /\ u.head = l.head /\ u.tail = t /\ u.prev = l.prev
        /\ u.next = [l.next EXCEPT ![t] = NoAddress]
    BY <1>1, <2>1, <2>2, <2>3, SetNext
  <2>5. \A i \in 1 .. n - 1 : /\ u.next[s1[i]] = IF i = n - 1 THEN NoAddress ELSE s1[i + 1]
                              /\ u.prev[s1[i]] = IF i = 1 THEN NoAddress ELSE s1[i - 1]
    <3> TAKE i \in 1 .. n - 1
    <3>1. i \in 1 .. n /\ i # n /\ s1[i] = s[i] /\ (i # 1 => s1[i - 1] = s[i - 1]) /\ (i # n - 1 => s1[i + 1] = s[i + 1])
      BY <1>1
    <3>2. s[i] \in Addresses /\ (s[i] = t <=> i = n - 1)
      BY <1>1, <2>1, <3>1
    <3>3. u.next[s[i]] = IF s[i] = t THEN NoAddress ELSE l.next[s[i]]
      BY <1>1, <2>4, <3>2
    <3> QED BY <1>2, <2>4, <3>1, <3>2, <3>3
  <2>6. u.head = s1[1] /\ u.tail = s1[n - 1] /\ n - 1 # 0
    BY <1>1, <1>2, <1>6, <2>1, <2>4
  <2> HIDE DEF s1
  <2> QED BY <1>3, <1>4, <2>4, <2>5, <2>6 DEF Threads
<1> QED BY <1>5, <1>6

(* It links a new entry at the head.                                       *)
LEMMA HeadPushed ==
  ASSUME SizesRight, NEW n, NEW s, NEW l, Threads(n, s, l), NEW x \in Addresses, \A i \in 1 .. n : s[i] # x
  PROVE  Threads(n + 1, Pushed(n, s, x), PushHead(l, x))
<1> USE DEF Pushed
<1> DEFINE s1 == Pushed(n, s, x)
           h == l.head
           c == IF h = NoAddress THEN [l EXCEPT !.tail = x] ELSE [l EXCEPT !.prev[h] = x]
           c1 == [c EXCEPT !.prev[x] = NoAddress]
           c2 == [c1 EXCEPT !.next[x] = h]
           u == PushHead(l, x)
<1>1. /\ n \in Nat /\ l \in ListType /\ s \in [1 .. n -> Addresses]
      /\ \A i \in 1 .. n : s[i] \in Addresses /\ s[i] \in Nodes /\ s[i] # NoAddress
      /\ \A i, j \in 1 .. n : s[i] = s[j] => i = j
      /\ l.prev \in [Addresses -> Nodes] /\ l.next \in [Addresses -> Nodes] /\ NoAddress \in Nodes
  BY ThreadsParts
<1>2. /\ h = IF n = 0 THEN NoAddress ELSE s[1]
      /\ l.tail = IF n = 0 THEN NoAddress ELSE s[n]
      /\ \A i \in 1 .. n : /\ l.next[s[i]] = IF i = n THEN NoAddress ELSE s[i + 1]
                           /\ l.prev[s[i]] = IF i = 1 THEN NoAddress ELSE s[i - 1]
  BY DEF Threads
<1>3. x \in Nodes /\ x # NoAddress /\ h \in Nodes
  BY <1>1, <1>2, SlotsNat DEF Nodes
<1>4. n + 1 \in Nat /\ s1 \in [1 .. n + 1 -> Addresses] /\ \A i, j \in 1 .. n + 1 : s1[i] = s1[j] => i = j
  BY <1>1
<1>5. Listed(n + 1, s1)
  BY <1>4, StillListed
<1> SUFFICES Threads(n + 1, s1, u)
  OBVIOUS
<1>6. u = [c2 EXCEPT !.head = x]
  BY DEF PushHead
<1>7. /\ c \in ListType /\ c.head = h /\ c.next = l.next
      /\ c.tail = IF n = 0 THEN x ELSE s[n]
      /\ c.prev = IF n = 0 THEN l.prev ELSE [l.prev EXCEPT ![s[1]] = x]
  <2>1. CASE n = 0
    <3>1. c = [l EXCEPT !.tail = x]
      BY <1>2, <2>1
    <3> HIDE DEF c
    <3> QED BY <1>1, <1>3, <2>1, <3>1, SetTail
  <2>2. CASE n # 0
    <3>1. h = s[1] /\ h \in Addresses /\ h # NoAddress /\ l.tail = s[n]
      BY <1>1, <1>2, <2>2
    <3>2. c = [l EXCEPT !.prev[h] = x]
      BY <3>1
    <3> HIDE DEF c
    <3> QED BY <1>1, <1>3, <2>2, <3>1, <3>2, SetPrev
  <2> QED BY <2>1, <2>2
<1> HIDE DEF c
<1>8. c1 \in ListType /\ c1.head = h /\ c1.tail = c.tail /\ c1.next = l.next /\ c1.prev = [c.prev EXCEPT ![x] = NoAddress]
  <2>1. c1 = [c EXCEPT !.prev[x] = NoAddress]
    OBVIOUS
  <2> HIDE DEF c1
  <2>2. c \in ListType /\ NoAddress \in Nodes
    BY <1>1, <1>7
  <2>3. /\ c1 \in ListType /\ c1.head = c.head /\ c1.tail = c.tail /\ c1.next = c.next
        /\ c1.prev = [c.prev EXCEPT ![x] = NoAddress]
    BY <2>1, <2>2 DEF ListType
  <2> QED BY <1>7, <2>3
<1> HIDE DEF c1
<1>9. c2 \in ListType /\ c2.tail = c.tail /\ c2.next = [l.next EXCEPT ![x] = h] /\ c2.prev = c1.prev
  <2>1. c2 = [c1 EXCEPT !.next[x] = h]
    OBVIOUS
  <2> HIDE DEF c2
  <2>2. c1 \in ListType /\ h \in Nodes
    BY <1>3, <1>8
  <2>3. /\ c2 \in ListType /\ c2.tail = c1.tail /\ c2.prev = c1.prev
        /\ c2.next = [c1.next EXCEPT ![x] = h]
    BY <2>1, <2>2 DEF ListType
  <2> QED BY <1>8, <2>3
<1> HIDE DEF c2, u
<1>10. /\ u \in ListType /\ u.head = x /\ u.tail = c.tail
       /\ u.next = [l.next EXCEPT ![x] = h] /\ u.prev = [c.prev EXCEPT ![x] = NoAddress]
  BY <1>3, <1>6, <1>8, <1>9, SetHead
<1>11. \A i \in 1 .. n + 1 : /\ u.next[s1[i]] = IF i = n + 1 THEN NoAddress ELSE s1[i + 1]
                             /\ u.prev[s1[i]] = IF i = 1 THEN NoAddress ELSE s1[i - 1]
  <2> TAKE i \in 1 .. n + 1
  <2>1. CASE i = 1
    <3>1. s1[i] = x /\ u.prev[x] = NoAddress /\ u.next[x] = h
      BY <1>1, <1>7, <1>10, <2>1 DEF ListType
    <3>2. h = IF n = 0 THEN NoAddress ELSE s1[2]
      BY <1>1, <1>2
    <3> QED BY <1>1, <2>1, <3>1, <3>2
  <2>2. CASE i # 1
    <3>1. i - 1 \in 1 .. n /\ s1[i] = s[i - 1] /\ s[i - 1] # x /\ n # 0
      BY <1>1, <2>2
    <3>2. u.next[s1[i]] = IF i = n + 1 THEN NoAddress ELSE s1[i + 1]
      BY <1>1, <1>2, <1>10, <3>1
    <3>3. u.prev[s1[i]] = c.prev[s[i - 1]]
      BY <1>1, <1>7, <1>10, <3>1 DEF ListType
    <3>4. c.prev[s[i - 1]] = IF i = 2 THEN x ELSE l.prev[s[i - 1]]
      BY <1>1, <1>7, <3>1
    <3>5. i # 2 => l.prev[s[i - 1]] = s[i - 2] /\ s1[i - 1] = s[i - 2]
      BY <1>1, <1>2, <3>1
    <3>6. s1[1] = x
      BY <1>1
    <3> QED BY <2>2, <3>2, <3>3, <3>4, <3>5, <3>6
  <2> QED BY <2>1, <2>2
<1>12. u.head = s1[1] /\ u.tail = s1[n + 1] /\ n + 1 # 0
  BY <1>1, <1>7, <1>10
<1> HIDE DEF s1
<1> QED BY <1>4, <1>5, <1>10, <1>11, <1>12 DEF Threads

(* The entries s, with the one at place i moved to the front.               *)
Fronted(n, s, i) == [j \in 1 .. n |-> IF j = 1 THEN s[i] ELSE IF j <= i THEN s[j - 1] ELSE s[j]]

(* s lists n members of S, each once.                                      *)
OneToOne(n, S, s) == n \in Nat /\ s \in [1 .. n -> S] /\ \A j, k \in 1 .. n : s[j] = s[k] => j = k

(* f is s with the member at place i at the front.                         *)
IsFronted(n, S, s, i, f) ==
  /\ f \in [1 .. n -> S] /\ f[1] = s[i]
  /\ \A j \in 2 .. i : f[j] = s[j - 1]
  /\ \A j \in i + 1 .. n : f[j] = s[j]
  /\ \A j, k \in 1 .. n : f[j] = f[k] => j = k
  /\ \A j \in 1 .. n : (\E k \in 1 .. n : f[j] = s[k]) /\ (\E k \in 1 .. n : s[j] = f[k])

(* What moving it to the front keeps.                                      *)
LEMMA FrontedParts ==
  ASSUME NEW n, NEW S, NEW s, OneToOne(n, S, s), NEW i \in 1 .. n
  PROVE  IsFronted(n, S, s, i, Fronted(n, s, i))
<1> DEFINE f == Fronted(n, s, i)
<1> USE DEF OneToOne
<1>1. \A j \in 1 .. n : f[j] = IF j = 1 THEN s[i] ELSE IF j <= i THEN s[j - 1] ELSE s[j]
  BY DEF Fronted
<1>2. f \in [1 .. n -> S]
  BY DEF Fronted
<1> HIDE DEF f
<1>3. f[1] = s[i] /\ (\A j \in 2 .. i : f[j] = s[j - 1]) /\ (\A j \in i + 1 .. n : f[j] = s[j])
  BY <1>1
<1>4. \A j, k \in 1 .. n : f[j] = f[k] => j = k
  BY <1>1
<1>5. \A j \in 1 .. n : \E k \in 1 .. n : f[j] = s[k]
  BY <1>1
<1>6. \A k \in 1 .. n : \E j \in 1 .. n : s[k] = f[j]
  <2> TAKE k \in 1 .. n
  <2>1. CASE k = i
    BY <1>3, <2>1
  <2>2. CASE k < i
    <3>1. k + 1 \in 2 .. i /\ k + 1 \in 1 .. n /\ (k + 1) - 1 = k
      BY <2>2
    <3> QED BY <1>3, <3>1
  <2>3. CASE k > i
    BY <1>3, <2>3
  <2> QED BY <2>1, <2>2, <2>3
<1>7. IsFronted(n, S, s, i, f)
  BY <1>2, <1>3, <1>4, <1>5, <1>6 DEF IsFronted
<1> QED BY <1>7 DEF f

(* lru_load moves an entry from its place in the list to the head.         *)
LEMMA MovedToHead ==
  ASSUME SizesRight, NEW n, NEW s, NEW l, Threads(n, s, l), NEW i \in 1 .. n
  PROVE  Threads(n, Fronted(n, s, i), MoveToHead(l, s[i]))
<1> DEFINE f == Fronted(n, s, i)
           x == s[i]
           p == l.prev[x]
           nx == l.next[x]
           h == l.head
           c == [l EXCEPT !.next[p] = nx]
           c1 == IF nx = NoAddress THEN [c EXCEPT !.tail = p] ELSE [c EXCEPT !.prev[nx] = p]
           c2 == [c1 EXCEPT !.prev[h] = x]
           c3 == [c2 EXCEPT !.next[x] = h]
           c4 == [c3 EXCEPT !.prev[x] = NoAddress]
           u == MoveToHead(l, x)
<1>1. /\ n \in Nat /\ l \in ListType /\ s \in [1 .. n -> Addresses]
      /\ \A j \in 1 .. n : s[j] \in Addresses /\ s[j] \in Nodes /\ s[j] # NoAddress
      /\ \A j, k \in 1 .. n : s[j] = s[k] => j = k
      /\ l.prev \in [Addresses -> Nodes] /\ l.next \in [Addresses -> Nodes] /\ NoAddress \in Nodes
  BY ThreadsParts
<1>2. /\ h = s[1] /\ l.tail = s[n]
      /\ \A j \in 1 .. n : /\ l.next[s[j]] = IF j = n THEN NoAddress ELSE s[j + 1]
                           /\ l.prev[s[j]] = IF j = 1 THEN NoAddress ELSE s[j - 1]
  BY <1>1 DEF Threads
<1>3. /\ f \in [1 .. n -> Addresses] /\ f[1] = s[i]
      /\ \A j \in 2 .. i : f[j] = s[j - 1]
      /\ \A j \in i + 1 .. n : f[j] = s[j]
      /\ \A j, k \in 1 .. n : f[j] = f[k] => j = k
  <2>1. OneToOne(n, Addresses, s)
    BY <1>1 DEF OneToOne
  <2>2. IsFronted(n, Addresses, s, i, f)
    BY <2>1, FrontedParts
  <2> HIDE DEF f
  <2> QED BY <2>2 DEF IsFronted
<1> HIDE DEF f
<1>4. Listed(n, f)
  BY <1>1, <1>3, StillListed
<1>5. CASE i = 1
  <2>1. u = l
    BY <1>2, <1>5 DEF MoveToHead
  <2>2. \A j \in 1 .. n : f[j] = s[j]
    BY <1>1, <1>3, <1>5
  <2>3. f = s
    BY <1>1, <1>3, <2>2
  <2> QED BY <2>1, <2>3 DEF f
<1>6. CASE i # 1
  <2>1. /\ n # 0 /\ n # 1 /\ x \in Addresses /\ x \in Nodes /\ x # h /\ h \in Addresses /\ h \in Nodes
        /\ i - 1 \in 1 .. n /\ p = s[i - 1] /\ p \in Addresses /\ p \in Nodes
        /\ nx = (IF i = n THEN NoAddress ELSE s[i + 1])
        /\ nx \in Nodes /\ (nx = NoAddress <=> i = n)
    <3>1. x \in Addresses /\ x \in Nodes /\ x # h /\ h \in Addresses /\ h \in Nodes
      BY <1>1, <1>2, <1>6
    <3>2. n # 0 /\ n # 1 /\ i - 1 \in 1 .. n
      BY <1>1, <1>6
    <3>3. p = s[i - 1]
      BY <1>2, <1>6
    <3>4. nx = IF i = n THEN NoAddress ELSE s[i + 1]
      BY <1>2
    <3>5. i # n => i + 1 \in 1 .. n
      BY <1>1
    <3> HIDE DEF x, p, nx
    <3> QED BY <1>1, <3>1, <3>2, <3>3, <3>4, <3>5
  <2>2. u = [c4 EXCEPT !.head = x]
    <3>1. x # l.head
      BY <2>1
    <3> QED BY <3>1 DEF MoveToHead
  <2> HIDE DEF u, x, p, nx
  <2>3. /\ c \in ListType /\ c.head = h /\ c.tail = l.tail /\ c.prev = l.prev /\ c.next = [l.next EXCEPT ![p] = nx]
    BY <1>1, <2>1 DEF ListType
  <2> HIDE DEF c
  <2>4. /\ c1 \in ListType /\ c1.head = h /\ c1.next = c.next
        /\ c1.tail = IF i = n THEN p ELSE l.tail
        /\ c1.prev = IF i = n THEN l.prev ELSE [l.prev EXCEPT ![nx] = p]
    <3>1. CASE i = n
      <4>1. c1 = [c EXCEPT !.tail = p]
        BY <2>1, <3>1
      <4> HIDE DEF c1
      <4>2. c1 \in ListType /\ c1.head = c.head /\ c1.next = c.next /\ c1.tail = p /\ c1.prev = c.prev
        BY <2>1, <2>3, <4>1 DEF ListType
      <4> QED BY <2>3, <3>1, <4>2
    <3>2. CASE i # n
      <4>1. c1 = [c EXCEPT !.prev[nx] = p] /\ nx \in Addresses
        BY <1>1, <2>1, <3>2 DEF Nodes
      <4> HIDE DEF c1
      <4>2. c1 \in ListType /\ c1.head = c.head /\ c1.next = c.next /\ c1.tail = c.tail
            /\ c1.prev = [c.prev EXCEPT ![nx] = p]
        BY <2>1, <2>3, <4>1 DEF ListType
      <4> QED BY <2>3, <3>2, <4>2
    <3> QED BY <3>1, <3>2
  <2> HIDE DEF c1
  <2>5. c2 \in ListType /\ c2.head = c1.head /\ c2.tail = c1.tail /\ c2.next = c1.next /\ c2.prev = [c1.prev EXCEPT ![h] = x]
    BY <2>1, <2>4 DEF ListType
  <2> HIDE DEF c2
  <2>6. c3 \in ListType /\ c3.head = c2.head /\ c3.tail = c2.tail /\ c3.prev = c2.prev /\ c3.next = [c2.next EXCEPT ![x] = h]
    BY <2>1, <2>5 DEF ListType
  <2> HIDE DEF c3
  <2>7. c4 \in ListType /\ c4.head = c3.head /\ c4.tail = c3.tail /\ c4.next = c3.next
        /\ c4.prev = [c3.prev EXCEPT ![x] = NoAddress]
    BY <1>1, <2>1, <2>6 DEF ListType
  <2> HIDE DEF c4
  <2>8. u \in ListType /\ u.head = x /\ u.tail = c4.tail /\ u.next = c4.next /\ u.prev = c4.prev
    BY <2>1, <2>2, <2>7 DEF ListType
  <2>9. \A a \in Addresses : u.next[a] = IF a = x THEN h ELSE IF a = p THEN nx ELSE l.next[a]
    <3>1. u.next = [c1.next EXCEPT ![x] = h] /\ c1.next = [l.next EXCEPT ![p] = nx]
      BY <2>3, <2>4, <2>5, <2>6, <2>7, <2>8
    <3> QED BY <1>1, <3>1
  <2>10. \A a \in Addresses : u.prev[a] = IF a = x THEN NoAddress ELSE IF a = h THEN x
                                           ELSE IF i # n /\ a = nx THEN p ELSE l.prev[a]
    <3>1. u.prev = [[c1.prev EXCEPT ![h] = x] EXCEPT ![x] = NoAddress]
      BY <2>5, <2>6, <2>7, <2>8
    <3>2. \A a \in Addresses : c1.prev[a] = IF i # n /\ a = nx THEN p ELSE l.prev[a]
      BY <1>1, <2>4
    <3>3. c1.prev \in [Addresses -> Nodes]
      BY <2>4 DEF ListType
    <3> QED BY <3>1, <3>2, <3>3
  <2>11. u.tail = IF i = n THEN p ELSE l.tail
    BY <2>4, <2>5, <2>6, <2>7, <2>8
  <2>12. \A j \in 1 .. n : u.next[f[j]] = IF j = n THEN NoAddress ELSE f[j + 1]
    <3> TAKE j \in 1 .. n
    <3>1. CASE j = 1
      <4>1. f[j] = x /\ u.next[x] = h /\ f[2] = s[1]
        BY <1>3, <1>6, <2>1, <2>9, <3>1 DEF x
      <4> QED BY <1>2, <2>1, <3>1, <4>1
    <3>2. CASE j \in 2 .. i /\ j # i
      <4>1. j - 1 \in 1 .. n /\ f[j] = s[j - 1] /\ f[j + 1] = s[j] /\ j # n /\ j - 1 # i /\ j - 1 # i - 1 /\ (j - 1) + 1 = j
        BY <1>1, <1>3, <3>2
      <4>2. s[j - 1] # x /\ s[j - 1] # p
        BY <1>1, <2>1, <4>1 DEF x
      <4>3. l.next[s[j - 1]] = s[j]
        BY <1>2, <4>1
      <4> QED BY <1>1, <2>9, <4>1, <4>2, <4>3
    <3>3. CASE j = i
      <4>1. f[j] = p /\ p # x
        BY <1>1, <1>3, <1>6, <2>1, <3>3 DEF x
      <4>2. u.next[p] = nx
        BY <2>1, <2>9, <4>1
      <4>3. i # n => f[i + 1] = s[i + 1]
        BY <1>1, <1>3
      <4> QED BY <2>1, <3>3, <4>1, <4>2, <4>3
    <3>4. CASE j \in i + 1 .. n
      <4>1. f[j] = s[j] /\ s[j] # x /\ s[j] # p
        BY <1>1, <1>3, <2>1, <3>4 DEF x
      <4>2. j # n => f[j + 1] = s[j + 1]
        BY <1>1, <1>3, <3>4
      <4> QED BY <1>1, <1>2, <2>9, <4>1, <4>2
    <3>5. j = 1 \/ (j \in 2 .. i /\ j # i) \/ j = i \/ j \in i + 1 .. n
      BY <1>1
    <3> QED BY <3>1, <3>2, <3>3, <3>4, <3>5
  <2>13. \A j \in 1 .. n : u.prev[f[j]] = IF j = 1 THEN NoAddress ELSE f[j - 1]
    <3> TAKE j \in 1 .. n
    <3>1. CASE j = 1
      <4>1. f[j] = x
        BY <1>3, <3>1 DEF x
      <4> QED BY <2>1, <2>10, <3>1, <4>1
    <3>2. CASE j = 2
      <4>1. f[j] = h /\ f[1] = x
        BY <1>1, <1>2, <1>3, <1>6, <3>2 DEF x
      <4> QED BY <2>1, <2>10, <3>2, <4>1
    <3>3. CASE j \in 3 .. i
      <4>1. /\ j - 1 \in 1 .. n /\ f[j] = s[j - 1] /\ f[j - 1] = s[(j - 1) - 1] /\ j - 1 # i /\ j - 1 # 1
            /\ (i # n => i + 1 \in 1 .. n /\ j - 1 # i + 1)
        BY <1>1, <1>3, <3>3
      <4>2. s[j - 1] # x /\ s[j - 1] # h /\ ~(i # n /\ s[j - 1] = nx)
        BY <1>1, <1>2, <2>1, <4>1 DEF x
      <4>3. l.prev[s[j - 1]] = s[(j - 1) - 1]
        BY <1>2, <4>1
      <4> QED BY <1>1, <2>10, <3>3, <4>1, <4>2, <4>3
    <3>4. CASE j = i + 1
      <4>1. f[j] = nx /\ i # n /\ nx # x /\ nx # h /\ nx \in Addresses
        BY <1>1, <1>2, <1>3, <2>1, <3>4 DEF x
      <4>2. f[j - 1] = p
        BY <1>1, <1>3, <1>6, <2>1, <3>4
      <4> QED BY <2>10, <3>4, <4>1, <4>2
    <3>5. CASE j \in i + 2 .. n
      <4>1. f[j] = s[j] /\ f[j - 1] = s[j - 1] /\ j # 1 /\ j # i /\ (i # n => i + 1 \in 1 .. n /\ j # i + 1)
        BY <1>1, <1>3, <3>5
      <4>2. s[j] # x /\ s[j] # h /\ ~(i # n /\ s[j] = nx)
        BY <1>1, <1>2, <2>1, <4>1 DEF x
      <4> QED BY <1>1, <1>2, <2>10, <4>1, <4>2
    <3>6. j = 1 \/ j = 2 \/ j \in 3 .. i \/ j = i + 1 \/ j \in i + 2 .. n
      BY <1>1
    <3> QED BY <3>1, <3>2, <3>3, <3>4, <3>5, <3>6
  <2>14. u.head = f[1] /\ u.tail = f[n]
    <3>1. i = n => f[n] = p
      BY <1>1, <1>3, <1>6, <2>1
    <3>2. i # n => f[n] = s[n]
      BY <1>1, <1>3
    <3> QED BY <1>2, <1>3, <2>8, <2>11, <3>1, <3>2 DEF x
  <2>15. Threads(n, f, u)
    BY <1>1, <1>3, <1>4, <2>1, <2>8, <2>12, <2>13, <2>14 DEF Threads
  <2> QED BY <2>15 DEF f, u, x
<1> QED BY <1>5, <1>6

-----------------------------------------------------------------------------
(* Arithmetic of the entries of a block.                                   *)
LEMMA DivBounds ==
  ASSUME NEW L \in Nat, NEW E \in Nat \ {0}
  PROVE  L \div E \in Nat /\ (L \div E) * E <= L /\ L < (L \div E) * E + E
OBVIOUS

(* Multiples of a length keep their order.                                 *)
LEMMA TimesOrder ==
  ASSUME NEW E \in Nat \ {0}, NEW j \in Nat, NEW k \in Nat
  PROVE  /\ j * E \in Nat /\ (j + 1) * E = j * E + E
         /\ j < k => j * E + E <= k * E
         /\ j * E = k * E => j = k
         /\ j * E < k * E <=> j < k
<1>1. j * E \in Nat /\ (j + 1) * E = j * E + E
  OBVIOUS
<1>2. ASSUME NEW a \in Nat, NEW b \in Nat, a < b PROVE a * E + E <= b * E
  <2>1. PICK d \in Nat : b = (a + 1) + d
    <3>1. b - (a + 1) \in Nat /\ b = (a + 1) + (b - (a + 1))
      BY <1>2
    <3> QED BY <3>1
  <2>2. b * E = a * E + E + d * E /\ d * E \in Nat /\ a * E \in Nat
    BY <2>1
  <2> QED BY <2>2
<1>3. j < k => j * E + E <= k * E
  BY <1>2
<1>4. k < j => k * E + E <= j * E
  BY <1>2
<1>5. k * E \in Nat /\ j * E \in Nat
  OBVIOUS
<1>6. j < k \/ j = k \/ k < j
  OBVIOUS
<1> QED BY <1>1, <1>3, <1>4, <1>5, <1>6

(* The block is used from its start, an entry at a time.                    *)
LEMMA Allocation ==
  ASSUME SizesRight, NEW n \in 0 .. Slots, store_ptr = n * EntryLen
  PROVE  /\ store_len >= EntryLen => Slots # 0 /\ (Full <=> n = Slots)
         /\ n < Slots => /\ store_ptr \in Addresses /\ store_ptr \notin InUse
                         /\ {a \in Addresses : a < store_ptr + EntryLen} = InUse \cup {store_ptr}
                         /\ store_ptr + EntryLen = (n + 1) * EntryLen
<1> DEFINE E == EntryLen
<1>1. E \in Nat \ {0} /\ store_len \in Nat /\ Slots \in Nat /\ n \in Nat
  BY CacheAssumption, SlotsNat DEF SizesRight
<1>2. Slots * E <= store_len /\ store_len < Slots * E + E
  BY <1>1, DivBounds DEF Slots
<1>3. ASSUME store_len >= E PROVE Slots # 0
  BY <1>1, <1>2, <1>3
<1>4. Full <=> n = Slots
  <2>1. n < Slots => n * E + E <= Slots * E
    BY <1>1, TimesOrder
  <2>2. Full <=> n * E > store_len - E
    BY DEF Full
  <2>3. n * E \in Nat /\ Slots * E \in Nat
    BY <1>1, TimesOrder
  <2>4. n < Slots \/ n = Slots
    BY <1>1
  <2> HIDE DEF E
  <2>5. CASE n = Slots
    BY <1>1, <1>2, <2>2, <2>3, <2>5
  <2>6. CASE n < Slots
    BY <1>1, <1>2, <2>1, <2>2, <2>3, <2>6
  <2> QED BY <2>4, <2>5, <2>6
<1>5. ASSUME n < Slots
      PROVE  /\ store_ptr \in Addresses /\ store_ptr \notin InUse
             /\ {a \in Addresses : a < store_ptr + E} = InUse \cup {store_ptr}
             /\ store_ptr + E = (n + 1) * E
  <2>1. store_ptr + E = (n + 1) * E /\ store_ptr \in Nat
    BY <1>1, TimesOrder
  <2>2. store_ptr \in Addresses
    BY <1>1, <1>5 DEF Addresses
  <2>3. store_ptr \notin InUse
    BY <2>1 DEF InUse
  <2>4. \A a \in Addresses : a < store_ptr + E <=> a < store_ptr \/ a = store_ptr
    <3> TAKE a \in Addresses
    <3>1. PICK k \in 0 .. Slots - 1 : a = k * E
      BY DEF Addresses
    <3>2. k \in Nat /\ n + 1 \in Nat
      BY <1>1
    <3>3. (k * E < (n + 1) * E <=> k < n + 1) /\ (k * E < n * E <=> k < n) /\ (k * E = n * E => k = n)
      BY <1>1, <3>2, TimesOrder
    <3>4. k < n + 1 <=> k < n \/ k = n
      BY <1>1, <3>2
    <3> HIDE DEF E
    <3> QED BY <2>1, <3>1, <3>3, <3>4 DEF E
  <2>5. {a \in Addresses : a < store_ptr + E} = InUse \cup {store_ptr}
    BY <2>2, <2>4 DEF InUse
  <2> QED BY <2>1, <2>2, <2>3, <2>5
<1> QED BY <1>3, <1>4, <1>5

-----------------------------------------------------------------------------
(* The contents of the block.                                              *)
Entries == [key : Nat, secret : SavedSecrets \cup {0}, on : BOOLEAN]

(* The list threads s, of n entries; the tree has them all, ranked by r in *)
(* the order in which a tree grown from its root would have met them.      *)
Held(n, s, r, m) ==
  /\ store_len \in Nat /\ store \in [Addresses -> Entries]
  /\ n \in 0 .. Slots /\ store_ptr = n * EntryLen
  /\ Threads(n, s, List) /\ InUse = {s[i] : i \in 1 .. n}
  /\ m \in Nat /\ CacheTree(Tree, InUse, r) /\ \A a \in InUse : r[a] < m

(* The same, for some ranks.                                               *)
HeldBy(n, s, m) == \E r : Held(n, s, r, m)

(* The inductive invariant of the cache.                                   *)
CacheInv == index_key \in Masks /\ \E n, s, m : HeldBy(n, s, m)

(* The parts of the invariant under the names the lemmas use.              *)
LEMMA HeldParts ==
  ASSUME NEW n, NEW s, NEW r, NEW m, Held(n, s, r, m)
  PROVE  /\ SizesRight /\ Slots \in Nat /\ n \in Nat /\ n <= Slots
         /\ s \in [1 .. n -> Addresses] /\ (\A i \in 1 .. n : s[i] \in InUse)
         /\ (\A i, j \in 1 .. n : s[i] = s[j] => i = j)
         /\ (\A a \in InUse : a \in Addresses /\ store[a].key \in Nat /\ KeyOf[a] = store[a].key)
         /\ Tree.root = root /\ Tree.left = left /\ Tree.right = right
         /\ List.head = head /\ List.tail = tail /\ List.prev = prev /\ List.next = next
<1>1. SizesRight
  BY DEF Held, SizesRight, Entries
<1>2. Slots \in Nat /\ n \in Nat /\ n <= Slots
  BY <1>1, SlotsNat DEF Held
<1>3. s \in [1 .. n -> Addresses] /\ (\A i, j \in 1 .. n : s[i] = s[j] => i = j)
  BY DEF Held, Threads, Listed
<1>4. \A i \in 1 .. n : s[i] \in InUse
  BY DEF Held
<1>5. \A a \in InUse : a \in Addresses /\ store[a].key \in Nat /\ KeyOf[a] = store[a].key
  BY <1>1 DEF InUse, SizesRight, KeyOf
<1> QED BY <1>1, <1>2, <1>3, <1>4, <1>5 DEF Tree, List

(* TreeIndexesEntries, from the invariant.                                 *)
LEMMA TreeFinds ==
  ASSUME NEW n, NEW s, NEW r, NEW m, Held(n, s, r, m)
  PROVE  TreeIndexesEntries
<1>1. /\ \A a \in InUse : a \in Addresses /\ store[a].key \in Nat /\ KeyOf[a] = store[a].key
      /\ Tree.root = root /\ Tree.left = left /\ Tree.right = right
  BY HeldParts
<1>2. CacheTree(Tree, InUse, r)
  BY DEF Held
<1>3. \A a \in InUse : FindNode(Tree, store[a].key).node = a
  <2> TAKE a \in InUse
  <2>1. FindNode(Tree, KeyOf[a]).node = a
    BY <1>2, FindsEntry
  <2> QED BY <1>1, <2>1
<1>4. \A a \in InUse : \A b \in {left[a], right[a]} \ {NoAddress} :
        FindNode(Tree, store[b].key).link \in {<<"left", a>>, <<"right", a>>}
  <2> TAKE a \in InUse
  <2> TAKE b \in {left[a], right[a]} \ {NoAddress}
  <2>1. b \in {Tree.left[a], Tree.right[a]} /\ b # NoAddress
    BY <1>1
  <2>2. b \in InUse /\ FindNode(Tree, KeyOf[b]).link \in {<<"left", a>>, <<"right", a>>}
    BY <1>2, <2>1, ChildFound
  <2> QED BY <1>1, <2>2
<1>5. \A key \in MaskedIds \ {store[a].key : a \in InUse} : FindNode(Tree, key).node = NoAddress
  <2> TAKE key \in MaskedIds \ {store[a].key : a \in InUse}
  <2>1. key \in Int
    BY CacheAssumption DEF MaskedIds, Ids
  <2>2. FindNode(Tree, key).node \in InUse \cup {NoAddress}
        /\ (FindNode(Tree, key).node # NoAddress => KeyOf[FindNode(Tree, key).node] = key)
    BY <1>2, <2>1, FindEnds
  <2> QED BY <1>1, <2>2
<1> QED BY <1>3, <1>4, <1>5 DEF TreeIndexesEntries

(* ListHoldsEntries, from the invariant; the list from its head is s.      *)
LEMMA ListFollowed ==
  ASSUME NEW n, NEW s, NEW r, NEW m, Held(n, s, r, m)
  PROVE  ListHoldsEntries /\ Follow(head, next) = s
<1> DEFINE back == [i \in 1 .. n |-> s[n + 1 - i]]
<1>1. /\ SizesRight /\ Slots \in Nat /\ n \in Nat /\ n <= Slots
      /\ s \in [1 .. n -> Addresses] /\ (\A i \in 1 .. n : s[i] \in InUse)
      /\ (\A i, j \in 1 .. n : s[i] = s[j] => i = j)
      /\ List.head = head /\ List.tail = tail /\ List.prev = prev /\ List.next = next
  BY HeldParts
<1>2. /\ Listed(n, s) /\ InUse = {s[i] : i \in 1 .. n}
      /\ head = (IF n = 0 THEN NoAddress ELSE s[1])
      /\ tail = (IF n = 0 THEN NoAddress ELSE s[n])
      /\ \A i \in 1 .. n : /\ next[s[i]] = IF i = n THEN NoAddress ELSE s[i + 1]
                           /\ prev[s[i]] = IF i = 1 THEN NoAddress ELSE s[i - 1]
  BY <1>1 DEF Held, Threads
<1>3. Follow(head, next) = s
  BY <1>1, <1>2, FollowIs
<1>4. Follow(tail, prev) = back
  <2>1. back \in [1 .. n -> Addresses] /\ (\A i \in 1 .. n : back[i] = s[n + 1 - i] /\ n + 1 - i \in 1 .. n)
    BY <1>1
  <2>2. \A i, j \in 1 .. n : back[i] = back[j] => i = j
    BY <1>1, <2>1
  <2>3. tail = IF n = 0 THEN NoAddress ELSE back[1]
    BY <1>1, <1>2, <2>1
  <2>4. \A i \in 1 .. n : prev[back[i]] = IF i = n THEN NoAddress ELSE back[i + 1]
    <3> TAKE i \in 1 .. n
    <3>1. prev[back[i]] = IF n + 1 - i = 1 THEN NoAddress ELSE s[(n + 1 - i) - 1]
      BY <1>2, <2>1
    <3>2. i # n => i + 1 \in 1 .. n /\ back[i + 1] = s[n + 1 - (i + 1)] /\ (n + 1 - i) - 1 = n + 1 - (i + 1)
      BY <1>1, <2>1
    <3>3. n + 1 - i = 1 <=> i = n
      BY <1>1
    <3> QED BY <3>1, <3>2, <3>3
  <2> HIDE DEF back
  <2>5. Listed(n, back)
    BY <1>1, <2>1, <2>2, StillListed
  <2> QED BY <1>1, <2>3, <2>4, <2>5, FollowIs
<1>5. s \in Seq(Addresses) /\ Len(s) = n /\ DOMAIN s = 1 .. n /\ Len(back) = n
  <2>1. back \in [1 .. n -> Addresses]
    BY <1>1
  <2> HIDE DEF back
  <2> QED BY <1>1, <2>1, IsSeq
<1>6. \A i \in 1 .. n : back[n + 1 - i] = s[i]
  <2> TAKE i \in 1 .. n
  <2>1. n + 1 - i \in 1 .. n /\ n + 1 - (n + 1 - i) = i
    BY <1>1
  <2> QED BY <1>1, <2>1
<1>7. InUse # {} => next[tail] = NoAddress /\ prev[head] = NoAddress
  BY <1>1, <1>2
<1> HIDE DEF back
<1>8. ListHoldsEntries
  <2>1. {s[i] : i \in DOMAIN s} = InUse
    BY <1>2, <1>5
  <2>2. \A i, j \in DOMAIN s : s[i] = s[j] => i = j
    BY <1>1, <1>5
  <2>3. Len(back) = Len(s) /\ \A i \in DOMAIN s : back[Len(s) + 1 - i] = s[i]
    BY <1>5, <1>6
  <2> DEFINE there == Follow(head, next)
             rev == Follow(tail, prev)
  <2>4. there = s /\ rev = back
    BY <1>3, <1>4
  <2>5. ListHoldsEntries <=>
          /\ {there[i] : i \in DOMAIN there} = InUse
          /\ \A i, j \in DOMAIN there : there[i] = there[j] => i = j
          /\ Len(rev) = Len(there)
          /\ \A i \in DOMAIN there : rev[Len(there) + 1 - i] = there[i]
          /\ InUse # {} => next[tail] = NoAddress /\ prev[head] = NoAddress
    BY DEF ListHoldsEntries
  <2> HIDE DEF there, rev
  <2> QED BY <1>7, <2>1, <2>2, <2>3, <2>4, <2>5
<1> QED BY <1>3, <1>8

(* The entries in the order of the list.                                   *)
LEMMA RecentEntries ==
  ASSUME NEW n, NEW s, NEW r, NEW m, Held(n, s, r, m)
  PROVE  Recent = [i \in 1 .. n |-> store[s[i]]]
<1>1. n \in Nat /\ s \in [1 .. n -> Addresses]
  BY HeldParts
<1>2. Follow(head, next) = s
  BY ListFollowed
<1>3. DOMAIN s = 1 .. n
  BY <1>1
<1> QED BY <1>2, <1>3 DEF Recent

-----------------------------------------------------------------------------
(* s lists the members of T.                                               *)
Covers(n, S, s, T) == n \in Nat /\ s \in [1 .. n -> S] /\ T = {s[i] : i \in 1 .. n}

(* A set listed by n numbers has at most n members.                        *)
LEMMA CoversCount ==
  ASSUME NEW n, NEW S, NEW s, NEW T, Covers(n, S, s, T)
  PROVE  IsFiniteSet(T) /\ Cardinality(T) <= n
<1> USE DEF Covers
<1>1. IsFiniteSet(1 .. n) /\ Cardinality(1 .. n) = n
  BY FS_Interval
<1>2. s \in Surjection(1 .. n, T)
  <2>1. s \in [1 .. n -> T]
    <3>1. s = [i \in 1 .. n |-> s[i]]
      OBVIOUS
    <3>2. \A i \in 1 .. n : s[i] \in T
      OBVIOUS
    <3> QED BY <3>1, <3>2
  <2>2. \A b \in T : \E i \in 1 .. n : s[i] = b
    OBVIOUS
  <2> QED BY <2>1, <2>2 DEF Surjection
<1> QED BY <1>1, <1>2, FS_Surjection

(* The block keeps its length.                                             *)
SameBlock == store_len' = store_len

(* Then the number of entries and the types stay.                          *)
LEMMA SameTypes ==
  ASSUME SameBlock
  PROVE  /\ Slots' = Slots /\ Addresses' = Addresses /\ Nodes' = Nodes
         /\ TreeType' = TreeType /\ ListType' = ListType
<1>1. Slots' = Slots /\ Addresses' = Addresses
  BY DEF SameBlock, Slots, Addresses
<1>2. Nodes' = Nodes
  BY <1>1 DEF Nodes
<1> QED BY <1>1, <1>2 DEF TreeType, ListType

(* The new list, from its fields.                                          *)
LEMMA ListBecomes ==
  ASSUME SameBlock, NEW n, NEW s, NEW l, Threads(n, s, l), BecomesList(l)
  PROVE  Threads(n, s, List)'
<1>1. Addresses' = Addresses /\ ListType' = ListType
  BY SameTypes
<1>2. l \in ListType
  BY DEF Threads
<1>3. List' = [head |-> l.head, tail |-> l.tail, prev |-> l.prev, next |-> l.next]
  BY DEF List, BecomesList
<1>4. List' = l
  BY <1>2, <1>3 DEF ListType
<1>5. Listed(n, s)'
  BY DEF Threads, Listed
<1> QED BY <1>1, <1>4, <1>5 DEF Threads

(* The new tree, from its fields.                                          *)
LEMMA TreeBecomes ==
  ASSUME SameBlock, NEW t, t \in TreeType, BecomesTree(t)
  PROVE  /\ Tree' \in TreeType' /\ Tree'.root = t.root /\ Tree'.left = t.left /\ Tree'.right = t.right
<1>1. TreeType' = TreeType
  BY SameTypes
<1>2. Tree' = [root |-> t.root, left |-> t.left, right |-> t.right]
  BY DEF Tree, BecomesTree
<1>3. Tree' = t
  BY <1>2 DEF TreeType
<1> QED BY <1>1, <1>3

(* Of a step that writes an entry x and links it, the state in new terms.  *)
Entering(t, N, r, m, k, s, l, x, key, secret) ==
  /\ SameBlock /\ store_len \in Nat /\ store \in [Addresses -> Entries]
  /\ CacheTree(t, N, r) /\ m \in Nat /\ \A a \in N : r[a] < m
  /\ Threads(k, s, l) /\ Covers(k, Addresses, s, N) /\ k < Slots /\ store_ptr' = (k + 1) * EntryLen
  /\ x \in Addresses /\ x \notin N /\ InUse' = N \cup {x}
  /\ key \in Nat /\ \A b \in N : KeyOf[b] # key
  /\ secret \in SavedSecrets /\ Enter(key, secret, x, t, l)

(* After it the invariant holds, with x at the front.                      *)
LEMMA Entered ==
  ASSUME NEW t, NEW N, NEW r, NEW m, NEW k, NEW s, NEW l, NEW x, NEW key, NEW secret,
         Entering(t, N, r, m, k, s, l, x, key, secret)
  PROVE  /\ store' = [store EXCEPT ![x] = [key |-> key, secret |-> secret, on |-> TRUE]]
         /\ HeldBy(k + 1, Pushed(k, s, x), m + 1)'
<1> USE DEF Pushed, Entering
<1> DEFINE s1 == Pushed(k, s, x)
           e == [key |-> key, secret |-> secret, on |-> TRUE]
           u == InsertNode(t, key, x)
           k1 == [KeyOf EXCEPT ![x] = key]
<1>1. SizesRight
  BY DEF SizesRight, Entries
<1>2. /\ Slots' = Slots /\ Addresses' = Addresses /\ Slots \in Nat
  BY <1>1, SameTypes, SlotsNat
<1>3. /\ k \in Nat /\ s \in [1 .. k -> Addresses] /\ N = {s[i] : i \in 1 .. k}
      /\ \A i \in 1 .. k : s[i] # x
  BY DEF Covers
<1>4. store' = [store EXCEPT ![x] = e] /\ BecomesTree(u) /\ BecomesList(PushHead(l, x))
  BY DEF Enter
<1>5. e \in Entries
  BY DEF Entries
<1>6. store' \in [Addresses' -> Entries']
  <2>1. Entries' = Entries
    BY DEF Entries
  <2> HIDE DEF e
  <2> QED BY <1>2, <1>4, <1>5, <2>1
<1>7. SizesRight'
  <2>1. \A a \in Addresses : store'[a] = IF a = x THEN e ELSE store[a]
    BY <1>4
  <2>2. \A a \in Addresses : store'[a].key \in Nat
    BY <1>1, <2>1 DEF SizesRight
  <2> QED BY <1>2, <2>2 DEF SizesRight, SameBlock
<1>8. KeyOf' = k1
  <2>1. KeyOf' = [a \in Addresses |-> store'[a].key] /\ KeyOf = [a \in Addresses |-> store[a].key]
    BY <1>2 DEF KeyOf
  <2> QED BY <1>4, <2>1
<1>9. Threads(k + 1, s1, PushHead(l, x))
  BY <1>1, <1>3, HeadPushed
<1> HIDE DEF s1
<1>10. Threads(k + 1, s1, List)'
  BY <1>4, <1>9, ListBecomes
<1>11. InUse' = {s1[i] : i \in 1 .. k + 1}
  <2>1. \A i \in 1 .. k + 1 : s1[i] = IF i = 1 THEN x ELSE s[i - 1]
    BY DEF s1
  <2>2. \A a : a \in N \cup {x} => \E i \in 1 .. k + 1 : a = s1[i]
    <3> TAKE a
    <3>1. CASE a = x
      <4>1. 1 \in 1 .. k + 1 /\ s1[1] = x
        BY <1>3, <2>1
      <4> QED BY <3>1, <4>1
    <3>2. ASSUME a \in N PROVE \E i \in 1 .. k + 1 : a = s1[i]
      <4>1. PICK i \in 1 .. k : a = s[i]
        BY <1>3, <3>2
      <4>2. i + 1 \in 1 .. k + 1 /\ i + 1 # 1 /\ (i + 1) - 1 = i
        BY <1>3
      <4> QED BY <2>1, <4>1, <4>2
    <3> QED BY <3>1, <3>2
  <2>3. \A i \in 1 .. k + 1 : s1[i] \in N \cup {x}
    BY <1>3, <2>1
  <2> QED BY <2>2, <2>3
<1>12. IsFiniteSet(InUse') /\ Cardinality(InUse') <= Slots'
  <2>1. s1 \in [1 .. k + 1 -> Addresses] /\ k + 1 \in Nat
    BY <1>3 DEF s1
  <2>2. IsFiniteSet(InUse') /\ Cardinality(InUse') <= k + 1
    <3>1. Covers(k + 1, Addresses, s1, InUse')
      BY <1>11, <2>1 DEF Covers
    <3> QED BY <3>1, CoversCount
  <2>3. Cardinality(InUse') \in Nat
    BY <2>2, FS_CardinalityType
  <2> QED BY <1>2, <1>3, <2>2, <2>3
<1>13. u \in TreeType /\ IsTree(u, k1, N \cup {x}, m + 1)
  <2>1. u = InsertNode(t, key, x) /\ key \in Int
    OBVIOUS
  <2> HIDE DEF u
  <2> QED BY <2>1, NodeInserted
<1> HIDE DEF u, k1
<1>14. PICK r1 : Tops(u.root, u.left, u.right, k1, r1, N \cup {x}) /\ \A a \in N \cup {x} : r1[a] < m + 1
  BY <1>13 DEF IsTree
<1>15. Tree' \in TreeType' /\ Tree'.root = u.root /\ Tree'.left = u.left /\ Tree'.right = u.right
  BY <1>4, <1>13, TreeBecomes
<1>16. InUse' \subseteq Addresses'
  BY DEF InUse
<1>17. Tops(Tree'.root, Tree'.left, Tree'.right, KeyOf', r1, InUse')
  BY <1>8, <1>14, <1>15
<1>18. CacheTree(Tree, InUse, r1)'
  BY <1>7, <1>12, <1>15, <1>16, <1>17 DEF CacheTree
<1>19. k + 1 \in 0 .. Slots' /\ store_len' \in Nat
  BY <1>2, <1>3 DEF SameBlock
<1>20. Held(k + 1, s1, r1, m + 1)'
  <2>1. m + 1 \in Nat /\ \A a \in InUse' : r1[a] < m + 1
    BY <1>14
  <2> HIDE DEF s1
  <2> QED BY <1>6, <1>10, <1>11, <1>18, <1>19, <2>1 DEF Held
<1>21. HeldBy(k + 1, s1, m + 1)'
  BY <1>20 DEF HeldBy
<1> QED BY <1>4, <1>21 DEF s1

-----------------------------------------------------------------------------
(* A key that no entry has.                                                *)
Fresh(key) == key \in Nat /\ FindNode(Tree, key).node = NoAddress

(* A search that ends in NoAddress shows that.                             *)
LEMMA FreshKey ==
  ASSUME NEW n, NEW s, NEW r, NEW m, Held(n, s, r, m), NEW key, Fresh(key)
  PROVE  \A b \in InUse : KeyOf[b] # key
BY FindEnds DEF Held, Fresh

(* A save while the block has room.                                        *)
LEMMA Allocates ==
  ASSUME NEW n, NEW s, NEW r, NEW m, Held(n, s, r, m), SameBlock, store_len >= EntryLen,
         NEW key, Fresh(key), NEW secret \in SavedSecrets, SaveAllocating(key, secret),
         NEW x, x = store_ptr
  PROVE  /\ n # Slots /\ Slots # 0
         /\ x \in Addresses /\ (\A i \in 1 .. n : s[i] # x)
         /\ store' = [store EXCEPT ![x] = [key |-> key, secret |-> secret, on |-> TRUE]]
         /\ HeldBy(n + 1, Pushed(n, s, x), m + 1)'
<1>1. /\ SizesRight /\ Slots \in Nat /\ n \in Nat /\ n <= Slots
      /\ s \in [1 .. n -> Addresses] /\ (\A i \in 1 .. n : s[i] \in InUse)
  BY HeldParts
<1>2. ~Full /\ Enter(key, secret, store_ptr, Tree, List) /\ store_ptr' = store_ptr + EntryLen
  BY DEF SaveAllocating
<1>3. n \in 0 .. Slots /\ store_ptr = n * EntryLen
  BY DEF Held
<1>4. n # Slots /\ Slots # 0 /\ n < Slots
  BY <1>1, <1>2, <1>3, Allocation
<1>5. /\ store_ptr \in Addresses /\ store_ptr \notin InUse
      /\ {a \in Addresses : a < store_ptr + EntryLen} = InUse \cup {store_ptr}
      /\ store_ptr + EntryLen = (n + 1) * EntryLen
  BY <1>1, <1>3, <1>4, Allocation
<1>6. InUse' = InUse \cup {store_ptr} /\ store_ptr' = (n + 1) * EntryLen
  BY <1>2, <1>5, SameTypes DEF InUse
<1>7. \A b \in InUse : KeyOf[b] # key
  BY FreshKey
<1>8. /\ store_len \in Nat /\ store \in [Addresses -> Entries] /\ Threads(n, s, List)
      /\ InUse = {s[i] : i \in 1 .. n} /\ m \in Nat /\ CacheTree(Tree, InUse, r) /\ \A a \in InUse : r[a] < m
  BY DEF Held
<1>9. key \in Nat
  BY DEF Fresh
<1> DEFINE t == Tree
           l == List
           N == InUse
<1>10. /\ x \in Addresses /\ x \notin N /\ InUse' = N \cup {x} /\ Enter(key, secret, x, t, l)
       /\ Threads(n, s, l) /\ CacheTree(t, N, r) /\ (\A a \in N : r[a] < m) /\ (\A a \in N : KeyOf[a] # key)
  BY <1>2, <1>5, <1>6, <1>7, <1>8
<1>11. /\ store' = [store EXCEPT ![x] = [key |-> key, secret |-> secret, on |-> TRUE]]
       /\ HeldBy(n + 1, Pushed(n, s, x), m + 1)'
  <2>1. Covers(n, Addresses, s, N)
    BY <1>1, <1>8 DEF Covers
  <2>2. m \in Nat /\ store_len \in Nat /\ store \in [Addresses -> Entries]
    BY <1>8
  <2>3. store_ptr' = (n + 1) * EntryLen
    BY <1>6
  <2> HIDE DEF t, l, N
  <2>4. Entering(t, N, r, m, n, s, l, x, key, secret)
    BY <1>4, <1>9, <1>10, <2>1, <2>2, <2>3 DEF Entering
  <2> QED BY <2>4, Entered
<1> QED BY <1>1, <1>4, <1>5, <1>11

(* A save when it has none: the last entry is evicted, and written anew.   *)
LEMMA Evicts ==
  ASSUME NEW n, NEW s, NEW r, NEW m, Held(n, s, r, m), SameBlock, store_len >= EntryLen,
         NEW key, Fresh(key), NEW secret \in SavedSecrets, SaveEvicting(key, secret)
  PROVE  /\ n = Slots /\ n # 0
         /\ store' = [store EXCEPT ![s[n]] = [key |-> key, secret |-> secret, on |-> TRUE]]
         /\ HeldBy(n, Pushed(n - 1, Shortened(n, s), s[n]), m + 1)'
<1> DEFINE x == s[n]
           s0 == Shortened(n, s)
           N == InUse \ {x}
           t == RemoveNode(Tree, x)
           l == DropTail(List)
<1>1. /\ SizesRight /\ Slots \in Nat /\ n \in Nat /\ n <= Slots
      /\ s \in [1 .. n -> Addresses] /\ (\A i \in 1 .. n : s[i] \in InUse)
      /\ (\A i, j \in 1 .. n : s[i] = s[j] => i = j) /\ List.tail = tail
  BY HeldParts
<1>2. /\ store_len \in Nat /\ store \in [Addresses -> Entries] /\ Threads(n, s, List)
      /\ n \in 0 .. Slots /\ store_ptr = n * EntryLen
      /\ InUse = {s[i] : i \in 1 .. n} /\ m \in Nat /\ CacheTree(Tree, InUse, r) /\ \A a \in InUse : r[a] < m
  BY DEF Held
<1>3. Full /\ Enter(key, secret, tail, RemoveNode(Tree, tail), l) /\ store_ptr' = store_ptr
  BY DEF SaveEvicting
<1>4. n = Slots /\ n # 0
  BY <1>1, <1>2, <1>3, Allocation
<1>5. tail = x /\ x \in Addresses /\ x \in InUse
  BY <1>1, <1>2, <1>4 DEF Threads
<1>6. Enter(key, secret, x, t, l)
  BY <1>3, <1>5
<1>7. Threads(n - 1, s0, l)
  BY <1>1, <1>2, <1>4, TailDropped
<1>8. N = {s0[i] : i \in 1 .. n - 1}
  <2>1. \A i \in 1 .. n - 1 : s0[i] = s[i] /\ i \in 1 .. n /\ s[i] # x
    BY <1>1, <1>4 DEF Shortened
  <2>2. \A a \in N : \E i \in 1 .. n - 1 : a = s0[i]
    <3> TAKE a \in N
    <3>1. PICK i \in 1 .. n : a = s[i]
      BY <1>2
    <3>2. i # n
      BY <3>1
    <3> QED BY <1>1, <2>1, <3>1, <3>2
  <2>3. \A i \in 1 .. n - 1 : s0[i] \in N
    BY <1>1, <2>1
  <2> HIDE DEF N, s0
  <2> QED BY <2>2, <2>3
<1>9. PICK r0 : CacheTree(t, N, r0) /\ \A a \in N : r0[a] < m
  <2>1. RankedBelow(t, N, m)
    BY <1>2, <1>5, NodeRemoved
  <2> QED BY <2>1 DEF RankedBelow
<1>10. \A b \in N : KeyOf[b] # key
  BY FreshKey
<1>11. InUse' = N \cup {x}
  <2>1. InUse' = InUse
    BY <1>3, SameTypes DEF InUse
  <2> QED BY <1>5, <2>1
<1>12. key \in Nat /\ n - 1 < Slots /\ (n - 1) + 1 = n /\ store_ptr' = n * EntryLen
  BY <1>1, <1>2, <1>3 DEF Fresh
<1>13. x \notin N
  OBVIOUS
<1> HIDE DEF x, s0, N, t, l
<1> DEFINE k == n - 1
<1>14. Threads(k, s0, l) /\ Covers(k, Addresses, s0, N) /\ k < Slots /\ store_ptr' = (k + 1) * EntryLen
  <2>1. k \in Nat /\ s0 \in [1 .. k -> Addresses]
    BY <1>1, <1>7, ThreadsParts
  <2> QED BY <1>7, <1>8, <1>12, <2>1 DEF Covers
<1>15. k + 1 = n
  BY <1>12
<1> HIDE DEF k
<1>16. /\ store' = [store EXCEPT ![x] = [key |-> key, secret |-> secret, on |-> TRUE]]
       /\ HeldBy(k + 1, Pushed(k, s0, x), m + 1)'
  <2>1. Entering(t, N, r0, m, k, s0, l, x, key, secret)
    BY <1>2, <1>5, <1>6, <1>9, <1>10, <1>11, <1>12, <1>13, <1>14 DEF Entering
  <2> QED BY <2>1, Entered
<1>17. HeldBy(n, Pushed(k, s0, x), m + 1)'
  BY <1>15, <1>16
<1> QED BY <1>4, <1>16, <1>17 DEF x, s0, k

-----------------------------------------------------------------------------
(* A step that leaves the tree, the keys and the entries in use as they are.*)
LEMMA HeldStays ==
  ASSUME NEW n, NEW s, NEW r, NEW m, Held(n, s, r, m), SameBlock, store_ptr' = store_ptr, Tree' = Tree,
         store' \in [Addresses -> Entries], \A a \in Addresses : store'[a].key = store[a].key,
         NEW s1, Threads(n, s1, List)', {s1[i] : i \in 1 .. n} = {s[i] : i \in 1 .. n}
  PROVE  HeldBy(n, s1, m)'
<1>1. /\ store_len \in Nat /\ n \in 0 .. Slots /\ store_ptr = n * EntryLen /\ InUse = {s[i] : i \in 1 .. n}
      /\ m \in Nat /\ CacheTree(Tree, InUse, r) /\ \A a \in InUse : r[a] < m
  BY DEF Held
<1>2. Slots' = Slots /\ Addresses' = Addresses /\ TreeType' = TreeType /\ Entries' = Entries
  BY SameTypes DEF Entries
<1>3. InUse' = InUse
  BY <1>2 DEF InUse
<1>4. SizesRight'
  <2>1. \A a \in Addresses : store[a].key \in Nat
    BY <1>1 DEF CacheTree, SizesRight
  <2> QED BY <1>1, <1>2, <2>1 DEF SizesRight, SameBlock
<1>5. KeyOf' = KeyOf
  BY <1>2 DEF KeyOf
<1>6. CacheTree(Tree, InUse, r)'
  <2>1. /\ Tree \in TreeType /\ InUse \subseteq Addresses /\ IsFiniteSet(InUse) /\ Cardinality(InUse) <= Slots
        /\ Tops(Tree.root, Tree.left, Tree.right, KeyOf, r, InUse)
    BY <1>1 DEF CacheTree
  <2>2. Tops(Tree'.root, Tree'.left, Tree'.right, KeyOf', r, InUse')
    BY <1>3, <1>5, <2>1
  <2> QED BY <1>2, <1>3, <1>4, <2>1, <2>2 DEF CacheTree
<1>7. Held(n, s1, r, m)'
  <2>1. InUse' = {s1[i] : i \in 1 .. n}
    BY <1>1, <1>3
  <2>2. n \in 0 .. Slots' /\ store_len' \in Nat /\ store_ptr' = n * EntryLen /\ store' \in [Addresses' -> Entries']
    BY <1>1, <1>2 DEF SameBlock
  <2>3. m \in Nat /\ \A a \in InUse' : r[a] < m
    BY <1>1, <1>3
  <2> QED BY <1>6, <2>1, <2>2, <2>3 DEF Held
<1> QED BY <1>7 DEF HeldBy

(* The list is the same when its fields are.                               *)
LEMMA ListStays ==
  ASSUME NEW n, NEW s, NEW r, NEW m, Held(n, s, r, m), SameBlock, UNCHANGED list
  PROVE  Threads(n, s, List)'
<1>1. Threads(n, s, List)
  BY DEF Held
<1>2. BecomesList(List)
  BY DEF BecomesList, List, list
<1> QED BY <1>1, <1>2, ListBecomes

(* What a step does to the entries n, s.                                   *)
Idles(n, s, m) == loaded' = NotFound /\ store' = store /\ HeldBy(n, s, m)'

(* The step writes an entry.                                               *)
Written(x, key, secret) == store' = [store EXCEPT ![x] = [key |-> key, secret |-> secret, on |-> TRUE]]

(* A save that evicts the last entry.                                      *)
Replaces(n, s, m, key, secret) ==
  /\ n = Slots /\ n # 0 /\ loaded' = NotFound
  /\ Written(s[n], key, secret) /\ HeldBy(n, Pushed(n - 1, Shortened(n, s), s[n]), m + 1)'

(* A save in a new place.                                                  *)
Adds(n, s, m, key, secret) ==
  \E x \in Addresses :
    /\ n # Slots /\ Slots # 0 /\ loaded' = NotFound /\ \A i \in 1 .. n : s[i] # x
    /\ Written(x, key, secret) /\ HeldBy(n + 1, Pushed(n, s, x), m + 1)'

(* A load of the entry at place i.                                         *)
Loads(n, s, m, i) ==
  /\ store[s[i]].on /\ loaded' = store[s[i]].secret
  /\ store' = store /\ HeldBy(n, Fronted(n, s, i), m)'

(* The forgetting of the entry at place i.                                 *)
Forgets(n, s, m, i) ==
  loaded' = NotFound /\ store' = [store EXCEPT ![s[i]].on = FALSE] /\ HeldBy(n, s, m)'

(* What a step does.                                                       *)
StepsOf(n, s, m) ==
  \/ Idles(n, s, m)
  \/ \E key \in MaskedIds, secret \in SavedSecrets :
       /\ \A i \in 1 .. n : store[s[i]].key # key
       /\ Replaces(n, s, m, key, secret) \/ Adds(n, s, m, key, secret)
  \/ \E i \in 1 .. n : Loads(n, s, m, i) \/ Forgets(n, s, m, i)

(* A step that changes nothing but the masks does nothing to the entries.  *)
LEMMA IdleStep ==
  ASSUME NEW n, NEW s, NEW m, HeldBy(n, s, m), loaded' = NotFound,
         UNCHANGED <<store, list, tree, store_len, store_ptr>>
  PROVE  SameBlock /\ Idles(n, s, m)
<1>1. SameBlock /\ store' = store /\ Tree' = Tree
  BY DEF SameBlock, Tree, tree
<1>2. PICK r : Held(n, s, r, m)
  BY DEF HeldBy
<1>3. Threads(n, s, List)'
  BY <1>1, <1>2, ListStays
<1>4. store' \in [Addresses -> Entries]
  BY <1>1, <1>2 DEF Held
<1>5. HeldBy(n, s, m)'
  BY <1>1, <1>2, <1>3, <1>4, HeldStays
<1> QED BY <1>1, <1>5 DEF Idles

(* What lru_save does.                                                     *)
LEMMA SaveStep ==
  ASSUME NEW n, NEW s, NEW m, HeldBy(n, s, m), index_key \in Masks, NEW id \in Sessions, lru_save(id)
  PROVE  SameBlock /\ index_key' \in Masks /\ StepsOf(n, s, m)
<1>1. SameBlock /\ loaded' = NotFound
  BY DEF lru_save, SameBlock
<1>2. CASE UNCHANGED <<store, list, tree, store_len, store_ptr, index_key>>
  BY <1>1, <1>2, IdleStep DEF StepsOf
<1>3. ASSUME store_len >= EntryLen, NEW k \in Masks, IndexKeyDrawn(k),
             IF FindNode(Tree, k[id.id]).node # NoAddress
             THEN UNCHANGED <<store, list, tree, store_ptr>>
             ELSE SaveEvicting(k[id.id], id.secret) \/ SaveAllocating(k[id.id], id.secret)
      PROVE  index_key' \in Masks /\ StepsOf(n, s, m)
  <2> DEFINE key == k[id.id]
             secret == id.secret
  <2>1. index_key' \in Masks
    BY <1>3 DEF IndexKeyDrawn
  <2>2. CASE UNCHANGED <<store, list, tree, store_ptr>>
    <3>1. UNCHANGED <<store, list, tree, store_len, store_ptr>>
      BY <1>1, <2>2 DEF SameBlock
    <3> QED BY <1>1, <2>1, <3>1, IdleStep DEF StepsOf
  <2>3. CASE FindNode(Tree, key).node = NoAddress /\ (SaveEvicting(key, secret) \/ SaveAllocating(key, secret))
    <3>1. key \in Nat /\ key \in MaskedIds /\ secret \in SavedSecrets
      <4>1. \A q \in Masks : q[id.id] \in Nat
        BY CacheAssumption
      <4> QED BY <1>3, <4>1 DEF MaskedIds, Ids, SavedSecrets
    <3> HIDE DEF key, secret
    <3>2. PICK r : Held(n, s, r, m)
      BY DEF HeldBy
    <3>3. Fresh(key)
      BY <2>3, <3>1 DEF Fresh
    <3>4. \A i \in 1 .. n : store[s[i]].key # key
      <4>1. \A b \in InUse : KeyOf[b] # key /\ KeyOf[b] = store[b].key
        BY <3>2, <3>3, FreshKey, HeldParts
      <4>2. \A i \in 1 .. n : s[i] \in InUse
        BY <3>2, HeldParts
      <4> QED BY <4>1, <4>2
    <3>5. CASE SaveEvicting(key, secret)
      <4>1. Replaces(n, s, m, key, secret)
        BY <1>1, <1>3, <3>1, <3>2, <3>3, <3>5, Evicts DEF Replaces, Written
      <4> QED BY <2>1, <3>1, <3>4, <4>1 DEF StepsOf
    <3>6. CASE SaveAllocating(key, secret)
      <4>1. PICK x : x = store_ptr
        OBVIOUS
      <4>2. /\ n # Slots /\ Slots # 0 /\ x \in Addresses /\ (\A i \in 1 .. n : s[i] # x)
            /\ Written(x, key, secret) /\ HeldBy(n + 1, Pushed(n, s, x), m + 1)'
        BY <1>1, <1>3, <3>1, <3>2, <3>3, <3>6, <4>1, Allocates DEF Written
      <4>3. Adds(n, s, m, key, secret)
        BY <1>1, <4>2 DEF Adds
      <4> QED BY <2>1, <3>1, <3>4, <4>3 DEF StepsOf
    <3> QED BY <2>3, <3>5, <3>6
  <2> QED BY <1>3, <2>2, <2>3
<1>4. \/ UNCHANGED <<store, list, tree, store_len, store_ptr, index_key>>
      \/ /\ store_len >= EntryLen
         /\ \E k \in Masks :
              /\ IndexKeyDrawn(k)
              /\ IF FindNode(Tree, k[id.id]).node # NoAddress
                 THEN UNCHANGED <<store, list, tree, store_ptr>>
                 ELSE SaveEvicting(k[id.id], id.secret) \/ SaveAllocating(k[id.id], id.secret)
  BY DEF lru_save
<1> QED BY <1>1, <1>2, <1>3, <1>4

(* An entry that the tree finds has a place in the list.                   *)
LEMMA LookedUp ==
  ASSUME NEW n, NEW s, NEW m, HeldBy(n, s, m), index_key \in Masks, NEW id \in Ids,
         NEW x, x = FindNode(Tree, index_key[id]).node, x # NoAddress
  PROVE  \E i \in 1 .. n : x = s[i]
<1>1. PICK r : Held(n, s, r, m)
  BY DEF HeldBy
<1>2. index_key[id] \in Int
  BY CacheAssumption DEF Ids
<1>3. CacheTree(Tree, InUse, r) /\ InUse = {s[i] : i \in 1 .. n}
  BY <1>1 DEF Held
<1>4. x \in InUse
  BY <1>2, <1>3, FindEnds
<1> QED BY <1>3, <1>4

(* What lru_load does.                                                     *)
LEMMA LoadStep ==
  ASSUME NEW n, NEW s, NEW m, HeldBy(n, s, m), index_key \in Masks, NEW id \in Ids, lru_load(id)
  PROVE  SameBlock /\ index_key' \in Masks /\ StepsOf(n, s, m)
<1>1. PICK x : x = FindNode(Tree, index_key[id]).node
  OBVIOUS
<1>2. /\ IF init_done /\ x # NoAddress /\ store[x].on
         THEN loaded' = store[x].secret /\ BecomesList(MoveToHead(List, x))
         ELSE loaded' = NotFound /\ UNCHANGED list
      /\ UNCHANGED <<store, tree, store_len, store_ptr, init_done, index_key>>
  BY <1>1 DEF lru_load
<1>3. SameBlock /\ index_key' \in Masks /\ store' = store /\ store_ptr' = store_ptr /\ Tree' = Tree
  BY <1>2 DEF SameBlock, Tree, tree
<1>4. CASE loaded' = NotFound /\ UNCHANGED list
  <2>1. UNCHANGED <<store, list, tree, store_len, store_ptr>>
    BY <1>2, <1>4
  <2> QED BY <1>3, <1>4, <2>1, IdleStep DEF StepsOf
<1>5. ASSUME x # NoAddress, store[x].on, loaded' = store[x].secret, BecomesList(MoveToHead(List, x))
      PROVE  StepsOf(n, s, m)
  <2>1. PICK i \in 1 .. n : x = s[i]
    BY <1>1, <1>5, LookedUp
  <2>2. PICK r : Held(n, s, r, m)
    BY DEF HeldBy
  <2>3. SizesRight /\ Threads(n, s, List) /\ n \in Nat /\ s \in [1 .. n -> Addresses]
        /\ (\A a, b \in 1 .. n : s[a] = s[b] => a = b) /\ store \in [Addresses -> Entries]
    BY <2>2, HeldParts DEF Held
  <2>4. Threads(n, Fronted(n, s, i), MoveToHead(List, s[i]))
    BY <2>3, MovedToHead
  <2> DEFINE l == MoveToHead(List, s[i])
             f == Fronted(n, s, i)
  <2>5. Threads(n, f, l) /\ BecomesList(l)
    BY <1>5, <2>1, <2>4
  <2> HIDE DEF l
  <2>6. {f[j] : j \in 1 .. n} = {s[j] : j \in 1 .. n}
    <3>1. OneToOne(n, Addresses, s)
      BY <2>3 DEF OneToOne
    <3>2. IsFronted(n, Addresses, s, i, f)
      BY <3>1, FrontedParts
    <3> HIDE DEF f
    <3>3. \A j \in 1 .. n : (\E k \in 1 .. n : f[j] = s[k]) /\ (\E k \in 1 .. n : s[j] = f[k])
      BY <3>2 DEF IsFronted
    <3> QED BY <3>3
  <2> HIDE DEF f
  <2>7. Threads(n, f, List)'
    BY <1>3, <2>5, ListBecomes
  <2>8. HeldBy(n, f, m)'
    BY <1>3, <2>2, <2>3, <2>6, <2>7, HeldStays
  <2>9. Loads(n, s, m, i)
    BY <1>3, <1>5, <2>1, <2>8 DEF Loads, f
  <2> QED BY <2>9 DEF StepsOf
<1> QED BY <1>2, <1>3, <1>4, <1>5

(* What br_ssl_session_cache_lru_forget does.                              *)
LEMMA ForgetStep ==
  ASSUME NEW n, NEW s, NEW m, HeldBy(n, s, m), index_key \in Masks, NEW id \in Ids, lru_forget(id)
  PROVE  SameBlock /\ index_key' \in Masks /\ StepsOf(n, s, m)
<1>1. PICK x : x = FindNode(Tree, index_key[id]).node
  OBVIOUS
<1>2. /\ store' = IF init_done /\ x # NoAddress THEN [store EXCEPT ![x].on = FALSE] ELSE store
      /\ loaded' = NotFound
      /\ UNCHANGED <<list, tree, store_len, store_ptr, init_done, index_key>>
  BY <1>1 DEF lru_forget
<1>3. SameBlock /\ index_key' \in Masks /\ store_ptr' = store_ptr /\ Tree' = Tree
  BY <1>2 DEF SameBlock, Tree, tree
<1>4. CASE store' = store
  <2>1. UNCHANGED <<store, list, tree, store_len, store_ptr>>
    BY <1>2, <1>4
  <2> QED BY <1>2, <1>3, <2>1, IdleStep DEF StepsOf
<1>5. ASSUME x # NoAddress, store' = [store EXCEPT ![x].on = FALSE]
      PROVE  StepsOf(n, s, m)
  <2>1. PICK i \in 1 .. n : x = s[i]
    BY <1>1, <1>5, LookedUp
  <2>2. PICK r : Held(n, s, r, m)
    BY DEF HeldBy
  <2>3. s[i] \in Addresses /\ store \in [Addresses -> Entries]
    BY <2>2, HeldParts DEF Held
  <2>4. store' \in [Addresses -> Entries] /\ \A a \in Addresses : store'[a].key = store[a].key
    BY <1>5, <2>1, <2>3 DEF Entries
  <2>5. Threads(n, s, List)'
    BY <1>2, <1>3, <2>2, ListStays
  <2>6. HeldBy(n, s, m)'
    BY <1>3, <2>2, <2>4, <2>5, HeldStays
  <2>7. Forgets(n, s, m, i)
    BY <1>2, <1>5, <2>1, <2>6 DEF Forgets
  <2> QED BY <2>7 DEF StepsOf
<1> QED BY <1>2, <1>3, <1>4, <1>5

-----------------------------------------------------------------------------
(* The invariant holds after br_ssl_session_cache_lru_init.                *)
LEMMA CacheInvInit == CacheInit => CacheInv
<1> SUFFICES ASSUME CacheInit PROVE CacheInv
  OBVIOUS
<1> USE DEF CacheInit
<1> DEFINE s == [i \in 1 .. 0 |-> 0]
           r == [a \in {} |-> 0]
<1>1. store_len \in Nat /\ index_key \in Masks
  BY CacheAssumption
<1>2. store \in [Addresses -> Entries]
  BY DEF Entries, EmptyEntry
<1>3. SizesRight
  BY <1>1 DEF SizesRight, EmptyEntry
<1>4. Slots \in Nat /\ NoAddress \in Nodes /\ Addresses \subseteq Nat /\ 0 \in 0 .. Slots
  BY <1>3, SlotsNat DEF Nodes
<1>5. 0 * EntryLen = 0
  BY CacheAssumption
<1>6. InUse = {} /\ {s[i] : i \in 1 .. 0} = {}
  <2>1. \A a \in Addresses : a \in Nat
    BY <1>4
  <2>2. \A a \in Addresses : ~(a < store_ptr)
    BY <2>1
  <2>3. InUse = {}
    BY <2>2 DEF InUse
  <2> QED BY <2>3
<1>7. Threads(0, s, List)
  <2>1. List \in ListType
    BY <1>4 DEF List, ListType
  <2>2. Listed(0, s) /\ s \in [1 .. 0 -> Addresses]
    BY DEF Listed
  <2>3. List.head = NoAddress /\ List.tail = NoAddress
    BY DEF List
  <2> QED BY <2>1, <2>2, <2>3 DEF Threads
<1>8. CacheTree(Tree, InUse, r)
  <2>1. Tree \in TreeType /\ Tree.root = NoAddress
    BY <1>4 DEF Tree, TreeType
  <2>2. IsFiniteSet({}) /\ Cardinality({}) = 0
    BY FS_EmptySet
  <2>3. Tops(Tree.root, Tree.left, Tree.right, KeyOf, r, {})
    BY <2>1 DEF Tops, Ranked, Highest
  <2> QED BY <1>3, <1>4, <1>6, <2>1, <2>2, <2>3 DEF CacheTree
<1>9. Held(0, s, r, 0)
  BY <1>1, <1>2, <1>4, <1>5, <1>6, <1>7, <1>8 DEF Held
<1>10. HeldBy(0, s, 0)
  <2> HIDE DEF s, r
  <2> QED BY <1>9 DEF HeldBy
<1> HIDE DEF s
<1> QED BY <1>1, <1>10 DEF CacheInv

(* Every action is one of those steps.                                     *)
LEMMA StepTaken ==
  ASSUME NEW n, NEW s, NEW m, HeldBy(n, s, m), index_key \in Masks, CacheNext
  PROVE  SameBlock /\ index_key' \in Masks /\ StepsOf(n, s, m)
<1>1. ASSUME NEW id \in Sessions, lru_save(id) PROVE SameBlock /\ index_key' \in Masks /\ StepsOf(n, s, m)
  BY <1>1, SaveStep
<1>2. ASSUME NEW id \in Ids, lru_load(id) PROVE SameBlock /\ index_key' \in Masks /\ StepsOf(n, s, m)
  BY <1>2, LoadStep
<1>3. ASSUME NEW id \in Forgotten, lru_forget(id) PROVE SameBlock /\ index_key' \in Masks /\ StepsOf(n, s, m)
  <2>1. id \in Ids
    BY CacheAssumption DEF Ids
  <2> QED BY <1>3, <2>1, ForgetStep
<1> QED BY <1>1, <1>2, <1>3 DEF CacheNext

(* The invariant is kept by every step.                                    *)
LEMMA CacheInvNext ==
  ASSUME CacheInv, [CacheNext]_cacheVars
  PROVE  CacheInv'
<1>1. PICK n, s, m : HeldBy(n, s, m)
  BY DEF CacheInv
<1>2. index_key \in Masks
  BY DEF CacheInv
<1>3. CASE CacheNext
  <2>1. SameBlock /\ index_key' \in Masks /\ StepsOf(n, s, m)
    BY <1>1, <1>2, <1>3, StepTaken
  <2>2. \E n1, s1, m1 : HeldBy(n1, s1, m1)'
    <3>1. CASE Idles(n, s, m)
      BY <3>1 DEF Idles
    <3>2. ASSUME NEW key, NEW secret, Replaces(n, s, m, key, secret)
          PROVE  \E n1, s1, m1 : HeldBy(n1, s1, m1)'
      BY <3>2 DEF Replaces
    <3>3. ASSUME NEW key, NEW secret, Adds(n, s, m, key, secret)
          PROVE  \E n1, s1, m1 : HeldBy(n1, s1, m1)'
      BY <3>3 DEF Adds
    <3>4. ASSUME NEW i \in 1 .. n, Loads(n, s, m, i) \/ Forgets(n, s, m, i)
          PROVE  \E n1, s1, m1 : HeldBy(n1, s1, m1)'
      BY <3>4 DEF Loads, Forgets
    <3> QED BY <2>1, <3>1, <3>2, <3>3, <3>4 DEF StepsOf
  <2> QED BY <2>1, <2>2 DEF CacheInv
<1>4. CASE UNCHANGED cacheVars
  <2>1. UNCHANGED <<store, list, tree, store_len, store_ptr, index_key, loaded>>
    BY <1>4 DEF cacheVars
  <2>2. PICK r : Held(n, s, r, m)
    BY <1>1 DEF HeldBy
  <2>3. SameBlock /\ Tree' = Tree
    BY <2>1 DEF SameBlock, Tree, tree
  <2>4. Threads(n, s, List)' /\ store \in [Addresses -> Entries]
    BY <2>1, <2>2, <2>3, ListStays DEF Held
  <2>5. HeldBy(n, s, m)'
    BY <2>1, <2>2, <2>3, <2>4, HeldStays
  <2> QED BY <1>2, <2>1, <2>5 DEF CacheInv
<1> QED BY <1>3, <1>4

(* For any size of the block and any sequence of saves, loads and forgets: *)
(* lru_save, with the eviction that reuses the oldest entry, and lru_load, *)
(* which moves an entry to the head, leave every entry in the tree under   *)
(* its key and in the list once, and nothing else in either (ssl_lru.c).   *)
THEOREM EntriesAlwaysLinked == CacheSpec => []EntriesLinked
<1>1. CacheInit => CacheInv
  BY CacheInvInit
<1>2. CacheInv /\ [CacheNext]_cacheVars => CacheInv'
  BY CacheInvNext
<1>3. CacheInv => EntriesLinked
  BY TreeFinds, ListFollowed DEF CacheInv, HeldBy, EntriesLinked
<1> QED BY <1>1, <1>2, <1>3, PTL DEF CacheSpec

-----------------------------------------------------------------------------
(* Sequences as functions: a new first member, one member less.            *)
LEMMA SeqPushed ==
  ASSUME NEW n \in Nat, NEW S, NEW f \in [1 .. n -> S], NEW e \in S
  PROVE  <<e>> \o f = [i \in 1 .. n + 1 |-> IF i = 1 THEN e ELSE f[i - 1]]
<1> DEFINE g == [i \in 1 .. n + 1 |-> IF i = 1 THEN e ELSE f[i - 1]]
<1>1. f \in Seq(S) /\ Len(f) = n
  BY IsSeq
<1>2. <<e>> \in Seq(S) /\ Len(<<e>>) = 1 /\ <<e>>[1] = e
  OBVIOUS
<1>3. /\ <<e>> \o f \in Seq(S) /\ Len(<<e>> \o f) = 1 + n
      /\ \A i \in 1 .. 1 + n : (<<e>> \o f)[i] = IF i <= 1 THEN <<e>>[i] ELSE f[i - 1]
  BY <1>1, <1>2, ConcatProperties
<1>4. g \in [1 .. n + 1 -> S] /\ n + 1 \in Nat
  OBVIOUS
<1>5. \A i \in 1 .. n + 1 : g[i] = IF i = 1 THEN e ELSE f[i - 1]
  OBVIOUS
<1> HIDE DEF g
<1>6. g \in Seq(S) /\ Len(g) = n + 1
  BY <1>4, IsSeq
<1>7. \A i \in 1 .. n + 1 : (<<e>> \o f)[i] = g[i]
  BY <1>2, <1>3, <1>5
<1>8. <<e>> \o f = g
  BY <1>3, <1>6, <1>7, SeqEqual
<1> QED BY <1>8 DEF g

(* s without the member at place i, cut out or skipped.                    *)
Cut(f, i) == SubSeq(f, 1, i - 1) \o SubSeq(f, i + 1, Len(f))
Skipping(n, f, i) == [j \in 1 .. n - 1 |-> IF j < i THEN f[j] ELSE f[j + 1]]

(* They are the same.                                                      *)
LEMMA SeqLess ==
  ASSUME NEW n \in Nat, NEW S, NEW f \in [1 .. n -> S], NEW i \in 1 .. n
  PROVE  Cut(f, i) = Skipping(n, f, i)
<1> DEFINE g == [j \in 1 .. n - 1 |-> IF j < i THEN f[j] ELSE f[j + 1]]
           a == SubSeq(f, 1, i - 1)
           b == SubSeq(f, i + 1, n)
<1>1. Len(f) = n
  BY IsSeq
<1>2. a \in Seq(S) /\ Len(a) = i - 1 /\ \A j \in 1 .. i - 1 : a[j] = f[j]
  <2>1. \A j \in 1 .. i - 1 : f[j] \in S
    OBVIOUS
  <2>2. /\ a \in Seq(S) /\ Len(a) = (IF 1 <= i - 1 THEN (i - 1) - 1 + 1 ELSE 0)
        /\ \A j \in 1 .. (i - 1) - 1 + 1 : a[j] = f[1 + j - 1]
    BY <2>1, SubSeqProperties
  <2> HIDE DEF a
  <2> QED BY <2>2
<1>3. b \in Seq(S) /\ Len(b) = n - i /\ \A j \in 1 .. n - i : b[j] = f[i + j]
  <2>1. \A j \in i + 1 .. n : f[j] \in S
    OBVIOUS
  <2>2. /\ b \in Seq(S) /\ Len(b) = (IF i + 1 <= n THEN n - (i + 1) + 1 ELSE 0)
        /\ \A j \in 1 .. n - (i + 1) + 1 : b[j] = f[(i + 1) + j - 1]
    BY <2>1, SubSeqProperties
  <2> HIDE DEF b
  <2> QED BY <2>2
<1> HIDE DEF a, b
<1>4. /\ a \o b \in Seq(S) /\ Len(a \o b) = Len(a) + Len(b)
      /\ \A j \in 1 .. Len(a) + Len(b) : (a \o b)[j] = IF j <= Len(a) THEN a[j] ELSE b[j - Len(a)]
  BY <1>2, <1>3, ConcatProperties
<1>5. g \in [1 .. n - 1 -> S] /\ n - 1 \in Nat
  OBVIOUS
<1>6. \A j \in 1 .. n - 1 : g[j] = IF j < i THEN f[j] ELSE f[j + 1]
  OBVIOUS
<1> HIDE DEF g
<1>7. g \in Seq(S) /\ Len(g) = n - 1
  BY <1>5, IsSeq
<1>8. \A j \in 1 .. n - 1 : (a \o b)[j] = g[j]
  <2> TAKE j \in 1 .. n - 1
  <2>1. Len(a) + Len(b) = n - 1 /\ Len(a) = i - 1
    BY <1>2, <1>3
  <2>2. CASE j < i
    BY <1>2, <1>4, <1>6, <2>1, <2>2
  <2>3. CASE ~(j < i)
    <3>1. (a \o b)[j] = b[j - (i - 1)]
      BY <1>4, <2>1, <2>3
    <3>2. j - (i - 1) \in 1 .. n - i /\ i + (j - (i - 1)) = j + 1
      BY <2>3
    <3> QED BY <1>3, <1>6, <2>3, <3>1, <3>2
  <2> QED BY <2>2, <2>3
<1>9. a \o b = g
  <2> DEFINE w == a \o b
  <2>1. Len(a) + Len(b) = n - 1
    BY <1>2, <1>3
  <2>2. w \in Seq(S) /\ Len(w) = n - 1 /\ \A j \in 1 .. n - 1 : w[j] = g[j]
    BY <1>4, <1>8, <2>1
  <2> HIDE DEF w
  <2>3. w = g
    BY <1>7, <2>2, SeqEqual
  <2> QED BY <2>3 DEF w
<1> QED BY <1>1, <1>9 DEF a, b, g, Cut, Skipping

-----------------------------------------------------------------------------
(* The entries of the abstract map are those that the list threads.        *)
RecentIs == \A n, s, m : HeldBy(n, s, m) => Recent = [i \in 1 .. n |-> store[s[i]]]

(* That follows from the invariant.                                        *)
LEMMA RecentAlways == RecentIs
BY RecentEntries DEF RecentIs, HeldBy

(* Every step of the cache is a step of the map.                           *)
LEMMA MapStep ==
  ASSUME RecentIs, RecentIs', NEW n, NEW s, NEW m, HeldBy(n, s, m), SameBlock, StepsOf(n, s, m)
  PROVE  Lru!LruNext(MaskedIds, SavedSecrets)
<1> DEFINE f == [i \in 1 .. n |-> store[s[i]]]
<1>1. PICK r : Held(n, s, r, m)
  BY DEF HeldBy
<1>2. /\ n \in Nat /\ s \in [1 .. n -> Addresses] /\ (\A i \in 1 .. n : s[i] \in Addresses)
      /\ (\A i, j \in 1 .. n : s[i] = s[j] => i = j)
      /\ store \in [Addresses -> Entries] /\ Slots' = Slots /\ Slots \in Nat /\ n <= Slots
  BY <1>1, HeldParts, SameTypes DEF Held
<1>3. Recent = f
  BY DEF RecentIs
<1>4. f \in [1 .. n -> Entries] /\ \A i \in 1 .. n : f[i] = store[s[i]]
  BY <1>2
<1> HIDE DEF f
<1>5. f \in Seq(Entries) /\ Len(f) = n /\ DOMAIN f = 1 .. n
  BY <1>2, <1>4, IsSeq
<1>6. \A n1, s1, m1 : HeldBy(n1, s1, m1)' => Recent' = [i \in 1 .. n1 |-> store'[s1[i]]]
  BY DEF RecentIs
<1>7. CASE Idles(n, s, m)
  <2>1. Recent' = [i \in 1 .. n |-> store[s[i]]] /\ loaded' = NotFound
    BY <1>6, <1>7 DEF Idles
  <2>2. Recent' = Recent
    BY <1>3, <2>1 DEF f
  <2> QED BY <1>2, <2>1, <2>2 DEF Lru!LruNext, Lru!Nothing, Lru!NotFound, NotFound
<1>8. ASSUME NEW i \in 1 .. n, Loads(n, s, m, i) PROVE Lru!LruNext(MaskedIds, SavedSecrets)
  <2>1. Recent' = [j \in 1 .. n |-> store[Fronted(n, s, i)[j]]] /\ loaded' = f[i].secret /\ f[i].on
    BY <1>4, <1>6, <1>8 DEF Loads
  <2> DEFINE g == [j \in 1 .. n - 1 |-> IF j < i THEN f[j] ELSE f[j + 1]]
             h == [j \in 1 .. (n - 1) + 1 |-> IF j = 1 THEN f[i] ELSE g[j - 1]]
  <2>2. Lru!Without(i) = g
    <3>1. Cut(f, i) = Skipping(n, f, i)
      BY <1>2, <1>4, SeqLess
    <3>2. Lru!Without(i) = Cut(f, i)
      BY <1>3 DEF Lru!Without, Cut
    <3> QED BY <3>1, <3>2 DEF Skipping
  <2>3. g \in [1 .. n - 1 -> Entries] /\ f[i] \in Entries /\ n - 1 \in Nat
    BY <1>2, <1>4
  <2>4. <<f[i]>> \o g = h
    <3> HIDE DEF g
    <3> QED BY <2>3, SeqPushed
  <2>5. Recent' = h
    <3>1. (n - 1) + 1 = n
      BY <1>2
    <3>2. \A j \in 1 .. n : store[Fronted(n, s, i)[j]] = h[j]
      <4> TAKE j \in 1 .. n
      <4>1. Fronted(n, s, i)[j] = IF j = 1 THEN s[i] ELSE IF j <= i THEN s[j - 1] ELSE s[j]
        BY DEF Fronted
      <4>2. CASE j = 1
        BY <1>4, <3>1, <4>1, <4>2
      <4>3. CASE j # 1
        <5>1. j - 1 \in 1 .. n - 1 /\ h[j] = g[j - 1] /\ (j - 1) + 1 = j /\ (j - 1 < i <=> j <= i)
          BY <1>2, <3>1, <4>3
        <5>2. g[j - 1] = IF j <= i THEN f[j - 1] ELSE f[j]
          BY <5>1
        <5> QED BY <1>2, <1>4, <4>1, <4>3, <5>1, <5>2
      <4> QED BY <4>2, <4>3
    <3> DEFINE fr == Fronted(n, s, i)
    <3>3. Recent' = [j \in 1 .. n |-> store[fr[j]]] /\ (\A j \in 1 .. n : store[fr[j]] = h[j])
      BY <2>1, <3>2
    <3>4. h = [j \in 1 .. n |-> h[j]]
      BY <3>1
    <3> HIDE DEF h, fr
    <3> QED BY <3>3, <3>4
  <2> HIDE DEF g, h
  <2>6. Lru!Load(i)
    BY <1>3, <2>1, <2>2, <2>4, <2>5 DEF Lru!Load
  <2>7. i \in DOMAIN Recent
    BY <1>3, <1>5
  <2> QED BY <1>2, <2>6, <2>7 DEF Lru!LruNext
<1>9. ASSUME NEW i \in 1 .. n, Forgets(n, s, m, i) PROVE Lru!LruNext(MaskedIds, SavedSecrets)
  <2>1. /\ Recent' = [j \in 1 .. n |-> store'[s[j]]] /\ loaded' = NotFound
        /\ store' = [store EXCEPT ![s[i]].on = FALSE]
    BY <1>6, <1>9 DEF Forgets
  <2>2. \A j \in 1 .. n : store'[s[j]] = IF j = i THEN [f[i] EXCEPT !.on = FALSE] ELSE f[j]
    BY <1>2, <1>4, <2>1
  <2>3. Recent' = [f EXCEPT ![i] = [f[i] EXCEPT !.on = FALSE]]
    BY <1>4, <2>1, <2>2
  <2>4. Lru!Forget(i)
    BY <1>3, <2>1, <2>3 DEF Lru!Forget, Lru!NotFound, NotFound
  <2>5. i \in DOMAIN Recent
    BY <1>3, <1>5
  <2> QED BY <1>2, <2>4, <2>5 DEF Lru!LruNext
<1>10. ASSUME NEW key \in MaskedIds, NEW secret \in SavedSecrets, \A i \in 1 .. n : store[s[i]].key # key,
              Replaces(n, s, m, key, secret) \/ Adds(n, s, m, key, secret)
       PROVE  Lru!LruNext(MaskedIds, SavedSecrets)
  <2> DEFINE e == [key |-> key, secret |-> secret, on |-> TRUE]
             absent == MaskedIds \ {Recent[i].key : i \in DOMAIN Recent}
             kept == IF Len(Recent) = Slots THEN Lru!Without(Slots) ELSE Recent
  <2>1. key \in absent
    BY <1>3, <1>4, <1>5, <1>10
  <2>2. e \in Entries
    <3>1. key \in Nat
      BY CacheAssumption DEF MaskedIds, Ids
    <3> QED BY <3>1 DEF Entries
  <2>3. ASSUME loaded' = NotFound, Slots > 0, Recent' = <<e>> \o kept
        PROVE  Lru!LruNext(MaskedIds, SavedSecrets)
    <3>1. Lru!Save(MaskedIds, SavedSecrets)
      <4>1. Recent' \in {<<x>> \o kept : x \in [key : absent, secret : SavedSecrets, on : {TRUE}]}
        <5>1. e \in [key : absent, secret : SavedSecrets, on : {TRUE}]
          <6> HIDE DEF absent
          <6> QED BY <2>1
        <5>2. Recent' = <<e>> \o kept
          BY <2>3
        <5> DEFINE new == [key : absent, secret : SavedSecrets, on : {TRUE}]
        <5> HIDE DEF kept, e, new
        <5> QED BY <5>1, <5>2 DEF new
      <4>2. loaded' = NotFound /\ Slots > 0
        BY <2>3
      <4> QED BY <4>1, <4>2 DEF Lru!Save, Lru!NotFound, NotFound
    <3> QED BY <1>2, <3>1 DEF Lru!LruNext
  <2>4. CASE Replaces(n, s, m, key, secret)
    <3> DEFINE g == [j \in 1 .. n - 1 |-> f[j]]
               s1 == Pushed(n - 1, Shortened(n, s), s[n])
               h == [j \in 1 .. (n - 1) + 1 |-> IF j = 1 THEN e ELSE g[j - 1]]
    <3>1. n = Slots /\ n # 0 /\ loaded' = NotFound /\ store' = [store EXCEPT ![s[n]] = e] /\ HeldBy(n, s1, m + 1)'
      BY <2>4 DEF Replaces, Written
    <3>2. n \in 1 .. n /\ n - 1 \in Nat /\ (n - 1) + 1 = n
      BY <1>2, <3>1
    <3>3. kept = g
      <4>1. Lru!Without(n) = [j \in 1 .. n - 1 |-> IF j < n THEN f[j] ELSE f[j + 1]]
        <5>1. Cut(f, n) = Skipping(n, f, n)
          BY <1>2, <1>4, <3>2, SeqLess
        <5>2. Lru!Without(n) = Cut(f, n)
          BY <1>3 DEF Lru!Without, Cut
        <5> QED BY <5>1, <5>2 DEF Skipping
      <4>2. \A j \in 1 .. n - 1 : j < n
        BY <1>2
      <4>3. Lru!Without(n) = g
        BY <4>1, <4>2
      <4> QED BY <1>3, <1>5, <3>1, <4>3
    <3>4. <<e>> \o g = h
      <4>1. g \in [1 .. n - 1 -> Entries]
        BY <1>2, <1>4
      <4> HIDE DEF g, e
      <4> QED BY <2>2, <3>2, <4>1, SeqPushed
    <3>5. Recent' = h
      <4>1. Recent' = [j \in 1 .. n |-> store'[s1[j]]]
        BY <1>6, <3>1
      <4>2. \A j \in 1 .. n : store'[s1[j]] = h[j]
        <5> TAKE j \in 1 .. n
        <5>1. s1[j] = IF j = 1 THEN s[n] ELSE Shortened(n, s)[j - 1]
          BY <3>2 DEF Pushed
        <5>2. j # 1 => /\ j - 1 \in 1 .. n - 1 /\ j - 1 \in 1 .. n /\ j - 1 # n
                       /\ Shortened(n, s)[j - 1] = s[j - 1] /\ g[j - 1] = f[j - 1]
          BY <1>2 DEF Shortened
        <5>3. h[j] = IF j = 1 THEN e ELSE g[j - 1]
          BY <3>2
        <5>4. \A k \in 1 .. n : store'[s[k]] = IF k = n THEN e ELSE f[k]
          <6> HIDE DEF e
          <6> QED BY <1>2, <1>4, <3>1, <3>2
        <5> HIDE DEF e, g, h, s1
        <5> QED BY <3>2, <5>1, <5>2, <5>3, <5>4
      <4>3. h = [j \in 1 .. n |-> h[j]]
        BY <3>2
      <4> HIDE DEF h, s1
      <4> QED BY <4>1, <4>2, <4>3
    <3> HIDE DEF e, g, h, kept
    <3> QED BY <1>2, <2>3, <3>1, <3>3, <3>4, <3>5
  <2>5. CASE Adds(n, s, m, key, secret)
    <3>1. PICK x \in Addresses :
            /\ n # Slots /\ Slots # 0 /\ loaded' = NotFound /\ \A i \in 1 .. n : s[i] # x
            /\ store' = [store EXCEPT ![x] = e] /\ HeldBy(n + 1, Pushed(n, s, x), m + 1)'
      BY <2>5 DEF Adds, Written
    <3> DEFINE s1 == Pushed(n, s, x)
               h == [j \in 1 .. n + 1 |-> IF j = 1 THEN e ELSE f[j - 1]]
    <3>2. kept = f
      BY <1>3, <1>5, <3>1
    <3>3. <<e>> \o f = h
      <4> HIDE DEF e
      <4> QED BY <1>2, <1>4, <2>2, SeqPushed
    <3>4. Recent' = h
      <4>1. Recent' = [j \in 1 .. n + 1 |-> store'[s1[j]]]
        BY <1>6, <3>1
      <4>2. \A j \in 1 .. n + 1 : store'[s1[j]] = h[j]
        <5> TAKE j \in 1 .. n + 1
        <5>1. s1[j] = IF j = 1 THEN x ELSE s[j - 1]
          BY DEF Pushed
        <5>2. h[j] = IF j = 1 THEN e ELSE f[j - 1]
          OBVIOUS
        <5>3. store'[x] = e /\ \A k \in 1 .. n : store'[s[k]] = f[k]
          <6> HIDE DEF e
          <6> QED BY <1>2, <1>4, <3>1
        <5>4. j # 1 => j - 1 \in 1 .. n
          BY <1>2
        <5> HIDE DEF e, h, s1
        <5> QED BY <5>1, <5>2, <5>3, <5>4
      <4> HIDE DEF s1
      <4> QED BY <4>1, <4>2
    <3> HIDE DEF e, h, kept
    <3> QED BY <1>2, <2>3, <3>1, <3>2, <3>3, <3>4
  <2> QED BY <1>10, <2>4, <2>5
<1> QED BY <1>7, <1>8, <1>9, <1>10 DEF StepsOf

(* lru_save, lru_load and br_ssl_session_cache_lru_forget of ssl_lru.c     *)
(* start from an empty map of the most recently used sessions, and each    *)
(* call is one operation of that map, or none.                             *)
THEOREM CacheImplementsLruMap == CacheSpec => ImplementsLruMap
<1>1. CacheInit => CacheInv
  BY CacheInvInit
<1>2. CacheInv /\ [CacheNext]_cacheVars => CacheInv'
  BY CacheInvNext
<1>3. RecentIs
  BY RecentAlways
<1>4. CacheInit => Lru!LruInit
  <2> SUFFICES ASSUME CacheInit PROVE Lru!LruInit
    OBVIOUS
  <2>1. PICK n, s, m : HeldBy(n, s, m)
    BY <1>1 DEF CacheInv
  <2>2. PICK r : Held(n, s, r, m)
    BY <2>1 DEF HeldBy
  <2>3. Slots \in Nat /\ n \in Nat
    BY <2>2, HeldParts
  <2>4. n = 0
    <3>1. store_ptr = n * EntryLen /\ store_ptr = 0
      BY <2>2 DEF Held, CacheInit
    <3>2. n * EntryLen = 0 * EntryLen
      BY <3>1, CacheAssumption
    <3> QED BY <2>3, <3>2, CacheAssumption, TimesOrder
  <2>5. Recent = [i \in 1 .. 0 |-> store[s[i]]]
    BY <1>3, <2>1, <2>4 DEF RecentIs
  <2> DEFINE g == [i \in 1 .. 0 |-> store[s[i]]]
  <2>6. g \in [1 .. 0 -> {}]
    OBVIOUS
  <2> HIDE DEF g
  <2>7. g \in Seq({}) /\ Len(g) = 0
    BY <2>6, IsSeq
  <2>8. g = <<>>
    BY <2>7, EmptySeq
  <2> QED BY <2>3, <2>5, <2>8 DEF Lru!LruInit, Lru!NotFound, NotFound, CacheInit, g
<1>5. CacheInv /\ RecentIs /\ RecentIs' /\ [CacheNext]_cacheVars
        => [UNCHANGED cacheVars \/ Lru!LruNext(MaskedIds, SavedSecrets)]_(Lru!lruMap)
  <2> SUFFICES ASSUME CacheInv, RecentIs, RecentIs', [CacheNext]_cacheVars
               PROVE  UNCHANGED cacheVars \/ Lru!LruNext(MaskedIds, SavedSecrets)
    OBVIOUS
  <2>1. PICK n, s, m : HeldBy(n, s, m)
    BY DEF CacheInv
  <2>2. CASE CacheNext
    <3>1. SameBlock /\ StepsOf(n, s, m)
      BY <2>1, <2>2, StepTaken DEF CacheInv
    <3> QED BY <2>1, <3>1, MapStep
  <2> QED BY <2>2
<1> QED BY <1>1, <1>2, <1>3, <1>4, <1>5, PTL DEF CacheSpec, ImplementsLruMap

=============================================================================
