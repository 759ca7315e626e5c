----------------------------- MODULE SyncDissem -----------------------------
(***************************************************************************)
(* shmem_internal_sync_dissem: in round i a PE adds one to slot i of the   *)
(* PE 2^i further on, waits for its own slot i, and takes one off again    *)
(* with another atomic, which it does not wait for until the quiet at the  *)
(* end of the call.                                                        *)
(***************************************************************************)
EXTENDS CollNet

VARIABLE iter                  \* the round each PE is in

distance(p) == shl[iter[p]]

(* The PE that p updates in its current round. *)
to(p) == PE((((p - PE_start) \div PE_stride) + distance(p)) % PE_size)

signal(p) ==
  /\ pc[p] = "signal"
  /\ distance(p) < PE_size
  /\ net' = net \cup {atomic_sum(p, iter[p], 1, to(p))}
  /\ Goto(p, "wait")
  /\ UNCHANGED <<job, psync, entered, left, iter>>

(* Mutated form: the peer's update is not taken off again. *)
wait_no_decrement(p) ==
  /\ pc[p] = "wait"
  /\ psync[p][iter[p]] # 0
  /\ iter' = [iter EXCEPT ![p] = @ + 1]
  /\ Goto(p, "signal")
  /\ UNCHANGED <<job, psync, net, entered, left>>

(* The peer's update is in: take it off again and start the next round. *)
wait(p) ==
  /\ pc[p] = "wait"
  /\ psync[p][iter[p]] # 0
  /\ net' = net \cup {atomic_sum(p, iter[p], -1, p)}
  /\ iter' = [iter EXCEPT ![p] = @ + 1]
  /\ Goto(p, "signal")
  /\ UNCHANGED <<job, psync, entered, left>>

(* All rounds are done: quiet, then return. *)
finish(p) ==
  /\ pc[p] = "signal"
  /\ distance(p) >= PE_size
  /\ quiet(p)
  /\ leave(p)
  /\ iter' = [iter EXCEPT ![p] = 0]
  /\ UNCHANGED <<job, psync, net, entered>>

sync_dissem(p) == signal(p) \/ wait(p) \/ finish(p)

dissem_labels == {"signal", "wait"}
=============================================================================
