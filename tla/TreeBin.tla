------------------------------ MODULE TreeBin -------------------------------
(***************************************************************************)
(* The bins of large free chunks in src/src/malloc.c.  Each bin is a trie  *)
(* over the bits of the chunk sizes; a node stands for all the chunks of   *)
(* one size, linked in a ring that starts at the chunk that is in the trie *)
(* itself.  A node may sit anywhere on the path that the bits of its size  *)
(* spell, so a search compares the sizes of the nodes it passes.           *)
(*                                                                         *)
(* All bins together are one function: from the place of a node, its bin   *)
(* and the path of left (0) and right (1) turns that leads to it, to the   *)
(* node.  Sizes are in units of MALLOC_ALIGNMENT.                          *)
(***************************************************************************)
EXTENDS Integers, Sequences, FiniteSets, TLC

CONSTANTS
  TREEBIN_SHIFT,   \* the smallest large size is 2^TREEBIN_SHIFT units
  NTREEBINS,
  SIZE_BITS        \* how many bits a size has

ASSUME TreeBinAssumption ==
  {TREEBIN_SHIFT, NTREEBINS, SIZE_BITS} \subseteq Nat \ {0}

MIN_LARGE_SIZE == 2 ^ TREEBIN_SHIFT

bit(n, k) == (n \div 2 ^ k) % 2

(* The position of the highest bit that is set in n > 0. *)
high_bit(n) == CHOOSE k \in 0 .. n : 2 ^ k <= n /\ n < 2 ^ (k + 1)

(* Two bins for every power of two; the last one holds whatever is larger. *)
compute_tree_index(S) ==
  LET K == high_bit(S) - TREEBIN_SHIFT
      I == 2 * K + bit(S, K + TREEBIN_SHIFT - 1)
  IN  IF I < NTREEBINS - 1 THEN I ELSE NTREEBINS - 1

(* The bits that steer the way through bin I: those below the two that the   *)
(* bin's index stands for, or all of them in the last bin.                   *)
tree_bits(S, I) ==
  LET n == IF I = NTREEBINS - 1 THEN SIZE_BITS
           ELSE I \div 2 + TREEBIN_SHIFT - 1
  IN  [k \in 1 .. n |-> bit(S, n - k)]

NoTree == [k \in {} |-> 0]

Children(T, at)    == {c \in {0, 1} : <<at[1], Append(at[2], c)>> \in DOMAIN T}
Child(at, c)       == <<at[1], Append(at[2], c)>>
Subtree(T, at)     == {k \in DOMAIN T : /\ k[1] = at[1]
                                        /\ Len(k[2]) >= Len(at[2])
                                        /\ SubSeq(k[2], 1, Len(at[2])) = at[2]}

(* The nodes from the root of bin I along the bits of S. *)
PathNodes(T, S, I) ==
  {k \in DOMAIN T : k[1] = I /\ k[2] = SubSeq(tree_bits(S, I), 1, Len(k[2]))}

(* The way down from a node that takes turn(children) at each node. *)
Descent(T, at, turn(_)) ==
  {k \in Subtree(T, at) :
     \A n \in Len(at[2]) .. Len(k[2]) - 1 :
       LET on == <<k[1], SubSeq(k[2], 1, n)>> IN k[2][n + 1] = turn(Children(T, on))}

leftmost_child(C)  == IF 0 \in C THEN 0 ELSE 1
rightmost_child(C) == IF 1 \in C THEN 1 ELSE 0

Deepest(K)  == CHOOSE k \in K : \A j \in K : Len(j[2]) <= Len(k[2])
Smallest(T, K) == CHOOSE k \in K : \A j \in K : T[k].size <= T[j].size

(* A new size goes to the end of the way its bits spell; a chunk of a size   *)
(* that is there already goes right behind the head of that size's ring.     *)
insert_large_chunk(T, X, S) ==
  LET I    == compute_tree_index(S)
      way  == PathNodes(T, S, I)
      same == {k \in way : T[k].size = S}
      at   == IF way = {} THEN <<I, <<>>>>
              ELSE Child(Deepest(way), tree_bits(S, I)[Len(Deepest(way)[2]) + 1])
  IN  IF same # {}
      THEN LET k == CHOOSE k \in same : TRUE IN
           [T EXCEPT ![k].ring = <<Head(@), X>> \o Tail(@)]
      ELSE (at :> [size |-> S, ring |-> <<X>>]) @@ T

(* Mutated form: the right child takes the place, not a leaf.               *)
unlink_large_chunk_child(T, X) ==
  LET at   == CHOOSE k \in DOMAIN T : \E i \in 1 .. Len(T[k].ring) : T[k].ring[i] = X
      C    == Children(T, at)
      kid  == IF C = {} THEN at ELSE Child(at, rightmost_child(C))
  IN  IF Len(T[at].ring) > 1
      THEN [T EXCEPT ![at].ring = SelectSeq(@, LAMBDA c : c # X)]
      ELSE [k \in DOMAIN T \ {kid} |-> IF k = at THEN T[kid] ELSE T[k]]

(* A chunk that shares its size leaves its ring, whose last takes its place  *)
(* in the trie if it was the head.  The last chunk of its size is replaced   *)
(* by the leaf on the rightmost way down from it.                            *)
unlink_large_chunk(T, X) ==
  LET at   == CHOOSE k \in DOMAIN T : \E i \in 1 .. Len(T[k].ring) : T[k].ring[i] = X
      ring == T[at].ring
      leaf == Deepest(Descent(T, at, rightmost_child))
  IN  IF Len(ring) > 1
      THEN [T EXCEPT ![at].ring =
              IF X = Head(@) THEN <<@[Len(@)]>> \o SubSeq(@, 2, Len(@) - 1)
              ELSE SelectSeq(@, LAMBDA c : c # X)]
      ELSE [k \in DOMAIN T \ {leaf} |-> IF k = at THEN T[leaf] ELSE T[k]]

(* The search of tmalloc_large: among the nodes along the bits of nb, then   *)
(* down the leftmost way of the deepest right subtree that was passed by, or *)
(* of the next bin that is not empty when this bin has nothing to offer.     *)
best_large(T, nb) ==
  LET I     == compute_tree_index(nb)
      bits  == tree_bits(nb, I)
      way   == PathNodes(T, nb, I)
      exact == {k \in way : T[k].size = nb}
      found == {k \in way : T[k].size >= nb}
      right == {Child(k, 1) : k \in {k \in way : /\ 1 \in Children(T, k)
                                                 /\ bits[Len(k[2]) + 1] = 0}}
      bins  == {k[1] : k \in {k \in DOMAIN T : k[1] > I}}
      t     == IF right # {} THEN {Deepest(right)}
               ELSE IF found # {} \/ bins = {} THEN {}
               ELSE {<<CHOOSE i \in bins : \A j \in bins : i <= j, <<>>>>}
      down  == UNION {Descent(T, k, leftmost_child) : k \in t}
      fit   == found \cup {k \in down : T[k].size >= nb}
  IN  IF exact # {} THEN exact
      ELSE IF fit = {} THEN {} ELSE {Smallest(T, fit)}

(* The search of tmalloc_small, for a size below all that are in the bins:   *)
(* down the leftmost way of the first bin that is not empty.                 *)
best_small(T) ==
  LET bins == {k[1] : k \in DOMAIN T}
      I    == CHOOSE i \in bins : \A j \in bins : i <= j
  IN  Smallest(T, Descent(T, <<I, <<>>>>, leftmost_child))

(* The head of the ring at a place is what a search hands out. *)
head_of(T, at) == Head(T[at].ring)

Chunks(T) == UNION {{T[k].ring[i] : i \in 1 .. Len(T[k].ring)} : k \in DOMAIN T}
=============================================================================
