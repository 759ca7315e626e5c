----------------------------- MODULE BarrierAbs -----------------------------
(***************************************************************************)
(* What shmem_barrier and shmem_sync promise the PEs of an active set that *)
(* call them again and again: nobody leaves a call before everybody has    *)
(* entered it, and everybody leaves it once everybody has entered it.  The *)
(* active set, the PEs that the counters are kept for, is part of the job. *)
(***************************************************************************)
EXTENDS Naturals

CONSTANT Job                 \* the PEs of the job

VARIABLES entered, left      \* calls each PE has entered, and has left

barrierVars == <<entered, left>>

ActiveSet == DOMAIN entered

BarrierInit ==
  /\ ActiveSet \subseteq Job
  /\ entered = [p \in ActiveSet |-> 0]
  /\ left = [p \in ActiveSet |-> 0]

EnterCall(p) ==
  /\ p \in ActiveSet
  /\ entered[p] = left[p]
  /\ entered' = [entered EXCEPT ![p] = @ + 1]
  /\ UNCHANGED left

LeaveCall(p) ==
  /\ p \in ActiveSet
  /\ entered[p] = left[p] + 1
  /\ \A q \in ActiveSet : entered[q] >= entered[p]
  /\ left' = [left EXCEPT ![p] = @ + 1]
  /\ UNCHANGED entered

BarrierNext == \E p \in Job : EnterCall(p) \/ LeaveCall(p)

BarrierFairness == \A p \in Job : WF_barrierVars(LeaveCall(p))

BarrierSpec == BarrierInit /\ [][BarrierNext]_barrierVars /\ BarrierFairness
=============================================================================
