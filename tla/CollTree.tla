------------------------------ MODULE CollTree ------------------------------
(***************************************************************************)
(* The trees of src/src/collectives.c as operators: the k-ary tree over an *)
(* active set with any root (shmem_internal_build_kary_tree) and the tree  *)
(* over all PEs that shmem_internal_collectives_init builds.               *)
(***************************************************************************)
EXTENDS Integers, FiniteSets

(* Integer division in C truncates towards zero. *)
trunc_div(a, b) == IF a < 0 THEN -((-a) \div b) ELSE a \div b

-----------------------------------------------------------------------------
(* k-ary tree: indices count from the root, my_id 0 is the root itself.     *)

my_id(start, stride, size, root, me) ==
  (((me - start) \div stride) + size - root) % size

kary_parent(radix, start, stride, size, root, me) ==
  start + ((trunc_div(my_id(start, stride, size, root, me) - 1, radix) + root) % size) * stride

kary_children(radix, start, stride, size, root, me) ==
  LET ids == {radix * my_id(start, stride, size, root, me) + i : i \in 1 .. radix}
  IN  {start + ((root + t) % size) * stride : t \in {t \in ids : t < size}}

-----------------------------------------------------------------------------
(* Tree over all PEs: on the level of stride i (a power of the radix) a PE  *)
(* that is a multiple of tmp_radix * i is the parent of the next            *)
(* tmp_radix - 1 multiples of i.                                            *)

Levels(n, radix) ==
  LET power[i \in 1 .. n] == i = 1 \/ (i % radix = 0 /\ power[i \div radix])
  IN  {i \in 1 .. n : power[i]}

(* Mutated form: the last level is not widened by one. *)
tmp_radix_narrow(n, radix, i) == IF n \div i < radix THEN n \div i ELSE radix

tmp_radix(n, radix, i) == IF n \div i < radix THEN (n \div i) + 1 ELSE radix

my_root(n, radix, i, me) ==
  LET width == tmp_radix(n, radix, i) * i IN (me \div width) * width

(* The levels on which me is a root: the loop breaks at the first other one. *)
own_levels(n, radix, me) ==
  {i \in Levels(n, radix) :
     \A k \in Levels(n, radix) : k <= i => my_root(n, radix, k, me) = me}

full_children(n, radix, me) ==
  {c \in 0 .. n - 1 :
     \E i \in own_levels(n, radix, me) :
       \E j \in 1 .. tmp_radix(n, radix, i) - 1 : c = me + i * j}

full_parent(n, radix, me) ==
  LET others == Levels(n, radix) \ own_levels(n, radix, me)
  IN  IF others = {} THEN me
      ELSE my_root(n, radix, CHOOSE i \in others : \A k \in others : i <= k, me)

-----------------------------------------------------------------------------
(* Reference: parent and children describe one rooted tree over all nodes. *)

(* Climbing from me to its parent as often as there are nodes. *)
Climb(nodes, parent, me) ==
  LET up[k \in 0 .. Cardinality(nodes)] == IF k = 0 THEN me ELSE parent[up[k - 1]]
  IN  up[Cardinality(nodes)]

IsTree(nodes, root, parent, children) ==
  /\ parent[root] = root
  /\ \A p \in nodes : /\ parent[p] \in nodes
                      /\ children[p] = {c \in nodes \ {root} : parent[c] = p}
                      /\ Climb(nodes, parent, p) = root
=============================================================================
