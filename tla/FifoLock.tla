------------------------------ MODULE FifoLock ------------------------------
(***************************************************************************)
(* What shmem_set_lock, shmem_test_lock and shmem_clear_lock promise       *)
(* together: a lock whose waiters are served in the order in which they    *)
(* joined.  This is the abstract specification; ShmemLock implements it.   *)
(***************************************************************************)
EXTENDS Sequences

CONSTANT PEs                 \* the processing elements that use the lock

VARIABLES
  queue,                     \* the owner, then the waiters in arrival order
  phase                      \* what the lock owes each PE

fifoVars == <<queue, phase>>

FifoInit ==
  /\ queue = <<>>
  /\ phase = [p \in PEs |-> "out"]

(* A PE joins the queue; it owns the lock at once if nobody was queued. *)
Join(p) ==
  /\ phase[p] = "out"
  /\ queue' = Append(queue, p)
  /\ phase' = [phase EXCEPT ![p] = IF queue = <<>> THEN "owner" ELSE "waiting"]

(* The PE at the front of the queue learns that it owns the lock. *)
Enter(p) ==
  /\ phase[p] = "waiting"
  /\ Head(queue) = p
  /\ phase' = [phase EXCEPT ![p] = "owner"]
  /\ UNCHANGED queue

(* The owner gives the lock up. *)
Leave(p) ==
  /\ phase[p] = "owner"
  /\ Head(queue) = p
  /\ queue' = Tail(queue)
  /\ phase' = [phase EXCEPT ![p] = "out"]

FifoNext == \E p \in PEs : Join(p) \/ Enter(p) \/ Leave(p)

FifoFairness ==
  \A p \in PEs : WF_fifoVars(Enter(p)) /\ WF_fifoVars(Leave(p))

FifoSpec == FifoInit /\ [][FifoNext]_fifoVars /\ FifoFairness
=============================================================================
