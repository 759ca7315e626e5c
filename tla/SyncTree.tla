------------------------------ MODULE SyncTree ------------------------------
(***************************************************************************)
(* shmem_internal_sync_tree: callins are summed up the tree, one word per  *)
(* PE, and acknowledgements go down it.  An inner PE counts its children's *)
(* callins and its parent's acknowledgement in the same pSync word.        *)
(***************************************************************************)
EXTENDS CollNet, CollTree

(* The tree over all PEs if the active set is all PEs, else a k-ary tree. *)
parent(p) ==
  IF PE_size = num_pes THEN full_parent(num_pes, tree_radix, p)
  ELSE kary_parent(tree_radix, PE_start, PE_stride, PE_size, 0, p)

children(p) ==
  IF PE_size = num_pes THEN full_children(num_pes, tree_radix, p)
  ELSE kary_children(tree_radix, PE_start, PE_stride, PE_size, 0, p)

num_children(p) == Cardinality(children(p))

(* Where a call of p starts. *)
tree_start(p) == IF children(p) = {} THEN "leaf_send" ELSE "callins"

(* Root: all children have called in; clear the word. *)
root_callins(p) ==
  /\ pc[p] = "callins"
  /\ parent(p) = p
  /\ psync[p][0] = num_children(p)
  /\ net' = net \cup {put(p, 0, 0, p)}
  /\ Goto(p, "clear")
  /\ UNCHANGED <<job, psync, entered, left>>

(* Middle: all children have called in; call in at the parent. *)
middle_callins(p) ==
  /\ pc[p] = "callins"
  /\ parent(p) # p
  /\ psync[p][0] = num_children(p)
  /\ net' = net \cup {atomic_sum(p, 0, 1, parent(p))}
  /\ Goto(p, "middle_ack")
  /\ UNCHANGED <<job, psync, entered, left>>

(* Mutated form: any value other than zero is taken for the acknowledgement. *)
middle_ack_nonzero(p) ==
  /\ pc[p] = "middle_ack"
  /\ psync[p][0] # 0
  /\ net' = net \cup {put(p, 0, 0, p)}
  /\ Goto(p, "clear")
  /\ UNCHANGED <<job, psync, entered, left>>

(* Middle: the parent's acknowledgement is one more on top of the callins. *)
middle_ack(p) ==
  /\ pc[p] = "middle_ack"
  /\ psync[p][0] = num_children(p) + 1
  /\ net' = net \cup {put(p, 0, 0, p)}
  /\ Goto(p, "clear")
  /\ UNCHANGED <<job, psync, entered, left>>

leaf_send(p) ==
  /\ pc[p] = "leaf_send"
  /\ net' = net \cup {atomic_sum(p, 0, 1, parent(p))}
  /\ Goto(p, "leaf_ack")
  /\ UNCHANGED <<job, psync, entered, left>>

leaf_ack(p) ==
  /\ pc[p] = "leaf_ack"
  /\ psync[p][0] # 0
  /\ net' = net \cup {put(p, 0, 0, p)}
  /\ Goto(p, "clear")
  /\ UNCHANGED <<job, psync, entered, left>>

(* The own word is clear again: acknowledge the children, if any, and leave. *)
acks(p) ==
  /\ pc[p] = "clear"
  /\ psync[p][0] = 0
  /\ net' = net \cup {atomic_sum(p, 0, 1, c) : c \in children(p)}
  /\ leave(p)
  /\ UNCHANGED <<job, psync, entered>>

sync_tree(p) ==
  \/ root_callins(p) \/ middle_callins(p) \/ middle_ack(p)
  \/ leaf_send(p) \/ leaf_ack(p) \/ acks(p)

tree_labels == {"callins", "middle_ack", "leaf_send", "leaf_ack", "clear"}
=============================================================================
