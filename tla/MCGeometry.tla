----------------------------- MODULE MCGeometry -----------------------------
(* The arithmetic on PE numbers, one case per state: every team of a small  *)
(* job with a PE number, an xrange or a triplet to apply to it; every set   *)
(* of PEs that may share a node; every tree over a small active set.  And   *)
(* the allocator's bins of large chunks, into and out of which chunks of    *)
(* given sizes are moved in any order.                                      *)
EXTENDS TeamGeometry, CollTree, TreeBin

CONSTANTS NumPEs, MaxStride,       \* bounds of the teams and nodes
          MaxTreePEs, MaxRadix,    \* bounds of the trees
          ChunkSizes, MaxInBins    \* chunks, and how many are in bins at a time

ASSUME GeometryAssumption ==
  {NumPEs, MaxStride, MaxTreePEs, MaxRadix} \subseteq Nat

MCChunkSizes == <<4, 5, 6, 6, 7, 8, 9, 11, 12, 13, 14, 15, 16, 22>>

Teams ==
  {team \in [start : 0 .. NumPEs - 1, stride : 1 .. MaxStride, size : 1 .. NumPEs] :
     team_pe(team, team.size - 1) < NumPEs}

VARIABLES
  what,           \* "team", "node", "tree" or "bins"
  team, other,    \* two teams; for a tree, team is the active set
  arg,            \* a number to apply to the team; for a tree, the root
  node,           \* the PEs of a node
  radix,
  tree            \* the bins

TeamCase ==
  /\ what = "team" /\ node = {} /\ radix = 0
  /\ team \in Teams /\ other \in Teams
  /\ arg \in 0 .. NumPEs

NodeCase ==
  /\ what = "node" /\ node \in (SUBSET (0 .. NumPEs - 1)) \ {{}}
  /\ team = Team(0, 1, 1) /\ other = team /\ arg = 0 /\ radix = 0

TreeCase ==
  /\ what = "tree" /\ node = {}
  /\ team \in [start : {0, 3}, stride : {1, 2}, size : 2 .. MaxTreePEs]
  /\ other = team
  /\ arg \in 0 .. team.size - 1
  /\ radix \in 2 .. MaxRadix

BinsCase ==
  /\ what = "bins" /\ node = {} /\ radix = 0 /\ arg = 0
  /\ team = Team(0, 1, 1) /\ other = team

Init == (TeamCase \/ NodeCase \/ TreeCase \/ BinsCase) /\ tree = NoTree

vars == <<what, team, other, arg, node, radix, tree>>

Insert(x) ==
  /\ what = "bins" /\ x \notin Chunks(tree)
  /\ Cardinality(Chunks(tree)) < MaxInBins
  /\ tree' = insert_large_chunk(tree, x, ChunkSizes[x])
  /\ UNCHANGED <<what, team, other, arg, node, radix>>

Unlink(x) ==
  /\ what = "bins" /\ x \in Chunks(tree)
  /\ tree' = unlink_large_chunk(tree, x)
  /\ UNCHANGED <<what, team, other, arg, node, radix>>

Next == (\E x \in DOMAIN ChunkSizes : Insert(x) \/ Unlink(x)) \/ UNCHANGED vars

Spec == Init /\ [][Next]_vars

(* For every active set, radix and root, what each PE computes on its own   *)
(* in build_kary_tree adds up to one tree rooted at PE_root: each PE is in  *)
(* exactly its parent's list of children, and all paths lead to the root.   *)
KaryIsTree ==
  what = "tree" =>
    LET members == MembersOf(team)
        parent   == [p \in members |->
                       kary_parent(radix, team.start, team.stride, team.size, arg, p)]
        children == [p \in members |->
                       kary_children(radix, team.start, team.stride, team.size, arg, p)]
    IN  IsTree(members, team_pe(team, arg), parent, children)

(* For every number of PEs and radix, the tree that collectives_init builds *)
(* over all PEs is one tree rooted at PE 0.                                 *)
FullIsTree ==
  what = "tree" =>
    LET members == 0 .. team.size - 1
        parent   == [p \in members |-> full_parent(team.size, radix, p)]
        children == [p \in members |-> full_children(team.size, radix, p)]
    IN  IsTree(members, 0, parent, children)

(* Both constructions give one tree that all its PEs agree on: a broadcast, *)
(* reduction or barrier along it reaches each of them once.                 *)
TreesSpan == KaryIsTree /\ FullIsTree

(* A PE number that is one of the source team is translated to the number   *)
(* the same PE has in the destination team, or to -1 if it is no member.    *)
TranslateIsRelative ==
  what = "team" /\ arg < team.size =>
    LET pe == translate_pe(team, arg, other)
    IN  IF team_pe(team, arg) \in MembersOf(other)
        THEN pe \in 0 .. other.size - 1 /\ team_pe(other, pe) = team_pe(team, arg)
        ELSE pe = -1

(* The coordinates of team's PE number i in a grid of width xrange. *)
Xrange == IF arg > team.size THEN team.size ELSE arg
X(i) == i % Xrange
Y(i) == i \div Xrange

(* split_2d deals the PEs of any parent team into rows and columns: none of *)
(* its split_strided calls is refused, each PE is in one x-axis and one     *)
(* y-axis team, and its numbers there are its coordinates.                  *)
GridIsCartesian ==
  what = "team" /\ arg > 0 =>
    LET xs == xteams(team, arg)
        ys == yteams(team, arg)
    IN  /\ \A i \in DOMAIN xs :
             ~ split_refused(team, i * Xrange, team.stride, xs[i].size, NumPEs)
        /\ \A i \in DOMAIN ys :
             ~ split_refused(team, i, Xrange * team.stride, ys[i].size, NumPEs)
        /\ \A i \in 0 .. team.size - 1 :
             LET pe == team_pe(team, i)
             IN  /\ {k \in DOMAIN xs : pe \in MembersOf(xs[k])} = {Y(i)}
                 /\ {k \in DOMAIN ys : pe \in MembersOf(ys[k])} = {X(i)}
                 /\ pe_in_active_set(pe, xs[Y(i)].start, xs[Y(i)].stride, xs[Y(i)].size) = X(i)
                 /\ pe_in_active_set(pe, ys[X(i)].start, ys[X(i)].stride, ys[X(i)].size) = Y(i)

(* The numbers of a PE in different teams fit together: translated from     *)
(* team to team, and as coordinates in the grid of a 2D split.              *)
TeamNumbering == TranslateIsRelative /\ GridIsCartesian

(* Wherever the PEs of a node are evenly spaced, each of them takes the     *)
(* same team for SHMEM_TEAM_SHARED: the one of all the PEs of the node.     *)
SharedTeamIsNode ==
  what = "node" /\ (\E t \in Teams : MembersOf(t) = node) =>
    \A me \in node : MembersOf(shared_team(node, NumPEs, me)) = node

(* do_check_tree: every node is in the bin of its size, on the way its bits  *)
(* spell, below a node; one node for one size; every chunk is in one ring    *)
(* and has the size of its node.                                             *)
TreeWellFormed ==
  /\ \A k \in DOMAIN tree :
       /\ k \in PathNodes(tree, tree[k].size, compute_tree_index(tree[k].size))
       /\ k[2] # <<>> => <<k[1], SubSeq(k[2], 1, Len(k[2]) - 1)>> \in DOMAIN tree
       /\ tree[k].ring # <<>>
       /\ \A i \in 1 .. Len(tree[k].ring) :
            /\ ChunkSizes[tree[k].ring[i]] = tree[k].size
            /\ \A j \in 1 .. i - 1 : tree[k].ring[j] # tree[k].ring[i]
  /\ \A k, j \in DOMAIN tree : tree[k].size = tree[j].size => k = j

(* Both searches hand out a chunk of the least size that fits, as the        *)
(* comments of tmalloc_large and tmalloc_small promise ("best fitting"), and *)
(* find one whenever there is one.                                           *)
SearchIsBestFit ==
  LET sizes == {tree[k].size : k \in DOMAIN tree} IN
  /\ \A nb \in MIN_LARGE_SIZE .. 2 ^ (TREEBIN_SHIFT + 3) :
       {tree[k].size : k \in best_large(tree, nb)} =
         {s \in sizes : s >= nb /\ \A r \in sizes : r >= nb => s <= r}
  /\ sizes # {} => \A s \in sizes : tree[best_small(tree)].size <= s

(* However chunks go in and out, with equal sizes and nodes that have       *)
(* children, the tries stay well-formed and a search finds the best fit.    *)
BinsGiveBestFit == TreeWellFormed /\ SearchIsBestFit
=============================================================================
