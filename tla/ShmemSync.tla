----------------------------- MODULE ShmemSync ------------------------------
(***************************************************************************)
(* shmem_barrier and shmem_sync over an active set: the PEs of the set     *)
(* make one call after the other on the same pSync array, and              *)
(* shmem_internal_sync passes each call to one of the three algorithms.    *)
(***************************************************************************)
EXTENDS SyncLinear, SyncTree, SyncDissem

vars == <<netVars, iter>>

AllPEs == UNION {0 .. j.num_pes - 1 : j \in Jobs}

(* The switch on shmem_internal_barrier_type. *)
algorithm ==
  IF job.barrier_type = "auto"
  THEN IF PE_size < COLL_CROSSOVER THEN "linear" ELSE "tree"
  ELSE job.barrier_type

(* Where a call of shmem_internal_sync starts: it has nothing to do for a    *)
(* set of one PE.                                                            *)
start(p) ==
  IF PE_size = 1 THEN "alone"
  ELSE CASE algorithm = "linear" -> linear_start(p)
         [] algorithm = "tree"   -> tree_start(p)
         [] algorithm = "dissem" -> "signal"

Init == NetInit /\ iter = [p \in PEs |-> 0]

(* What the client does: puts of its own, and the calls. *)
put_data(p)     == p \in PEs /\ UserPut(p) /\ UNCHANGED iter
barrier(p)      == p \in PEs /\ enter(p, start(p)) /\ UNCHANGED iter

alone(p) ==
  /\ pc[p] = "alone"
  /\ leave(p)
  /\ UNCHANGED <<job, psync, net, entered>>

(* One step of p inside a call. *)
sync(p) ==
  /\ p \in PEs
  /\ \/ (alone(p) \/ sync_linear(p) \/ sync_tree(p)) /\ UNCHANGED iter
     \/ sync_dissem(p)

(* What the network does. *)
deliver(p)      == p \in PEs /\ Deliver(p) /\ UNCHANGED iter
deliver_data(p) == p \in PEs /\ DeliverData(p) /\ UNCHANGED iter

Next ==
  \/ \E p \in AllPEs : \/ put_data(p) \/ barrier(p) \/ sync(p)
                       \/ deliver(p) \/ deliver_data(p)
  \/ Finished /\ UNCHANGED iter

(* A PE inside a call keeps polling, and the network delivers what it was    *)
(* given; a PE need not make its next call.                                  *)
Fairness ==
  \A p \in AllPEs :
    WF_vars(sync(p)) /\ WF_vars(deliver(p)) /\ WF_vars(deliver_data(p))

Spec == Init /\ [][Next]_vars /\ Fairness

-----------------------------------------------------------------------------
(* Every variable has its type: PEs are at program points of the algorithm   *)
(* in use, and only pSync words of members are written.                      *)
TypeOK ==
  /\ job \in Jobs
  /\ NetTypeOK
  /\ pc \in [PEs -> {"out"} \cup
                (IF PE_size = 1 THEN {"alone"}
                 ELSE CASE algorithm = "linear" -> linear_labels
                        [] algorithm = "tree"   -> tree_labels
                        [] algorithm = "dissem" -> dissem_labels)]
  /\ iter \in [PEs -> 0 .. NumSlots]

(* A barrier completes the puts that precede it (shmem_internal_barrier is   *)
(* quiet and then sync): when any PE has left a shmem_barrier, no put that   *)
(* any PE issued before it is on its way.                                    *)
BarrierCompletesPuts ==
  \A m \in net : m.kind = "data" =>
    \A p \in PEs : \A r \in m.call + 1 .. left[p] : Calls[r] # "barrier"

(* When all PEs have made the same number of calls and nobody is inside one, *)
(* every pSync word holds SHMEM_SYNC_VALUE again and nothing is on its way   *)
(* to one: the client may hand the array to any other collective.            *)
PSyncRestored ==
  (\A p, q \in PEs : pc[p] = "out" /\ left[p] = left[q]) =>
    /\ \A p \in PEs, s \in Slots : psync[p][s] = 0
    /\ \A m \in net : m.kind = "data"

(* The words that are counted in never run over.  In a tree no child of the  *)
(* next call and no second acknowledgement is counted on top of this call's. *)
(* A dissemination slot holds at most two: collectives.c:395-398 asserts it  *)
(* below three, since "there's no path for two updates to arrive before the  *)
(* decrement"; nor is it ever decremented below zero.                        *)
WordsBounded ==
  TypeOK /\ \A p \in PEs :
    /\ algorithm = "linear" =>
         psync[p][0] \in 0 .. (IF p = Root THEN PE_size - 1 ELSE 1)
    /\ algorithm = "tree" /\ PE_size > 1 =>
         psync[p][0] \in 0 .. num_children(p) + (IF parent(p) = p THEN 0 ELSE 1)
    /\ algorithm = "dissem" => \A s \in Slots : psync[p][s] \in 0 .. 2

(* Whatever the algorithm, the calls implement the abstract barrier: nobody  *)
(* leaves a call before all have entered it, and then everybody does.        *)
Barrier == INSTANCE BarrierAbs WITH Job <- AllPEs
IsBarrier == Barrier!BarrierSpec
=============================================================================
