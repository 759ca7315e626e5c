----------------------------- MODULE SyncLinear -----------------------------
(***************************************************************************)
(* shmem_internal_sync_linear: everybody adds one to the root's pSync, the *)
(* root waits for PE_size - 1 and then puts one into everybody's pSync.    *)
(***************************************************************************)
EXTENDS CollNet

Root == PE_start

(* Where a call of p starts. *)
linear_start(p) == IF p = Root THEN "root_wait" ELSE "send"

(* The root has heard from everybody and clears its own word. *)
root_wait(p) ==
  /\ pc[p] = "root_wait"
  /\ psync[p][0] = PE_size - 1
  /\ net' = net \cup {put(p, 0, 0, p)}
  /\ Goto(p, "root_clear")
  /\ UNCHANGED <<job, psync, entered, left>>

(* Once the word is clear the acknowledgements go out.  They are issued one *)
(* by one, but each of them may already be delivered late, and the root     *)
(* does nothing else meanwhile: one step issues them all.                   *)
root_acks(p) ==
  /\ pc[p] = "root_clear"
  /\ psync[p][0] = 0
  /\ net' = net \cup {put(p, 0, 1, PE(i)) : i \in 1 .. PE_size - 1}
  /\ leave(p)
  /\ UNCHANGED <<job, psync, entered>>

send(p) ==
  /\ pc[p] = "send"
  /\ net' = net \cup {atomic_sum(p, 0, 1, Root)}
  /\ Goto(p, "ack_wait")
  /\ UNCHANGED <<job, psync, entered, left>>

ack_wait(p) ==
  /\ pc[p] = "ack_wait"
  /\ psync[p][0] # 0
  /\ net' = net \cup {put(p, 0, 0, p)}
  /\ Goto(p, "ack_clear")
  /\ UNCHANGED <<job, psync, entered, left>>

(* Mutated form: the call returns while the clear is still on its way. *)
ack_clear_early(p) ==
  /\ pc[p] = "ack_clear"
  /\ leave(p)
  /\ UNCHANGED <<job, psync, net, entered>>

ack_clear(p) ==
  /\ pc[p] = "ack_clear"
  /\ psync[p][0] = 0
  /\ leave(p)
  /\ UNCHANGED <<job, psync, net, entered>>

sync_linear(p) ==
  \/ root_wait(p) \/ root_acks(p)
  \/ send(p) \/ ack_wait(p) \/ ack_clear(p)

linear_labels == {"root_wait", "root_clear", "send", "ack_wait", "ack_clear"}
=============================================================================
