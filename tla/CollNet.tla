------------------------------ MODULE CollNet ------------------------------
(***************************************************************************)
(* What the barrier algorithms of src/src/collectives.c share: the active  *)
(* set, the pSync words on every PE, the puts and atomics that are on      *)
(* their way, and the entry of shmem_barrier and shmem_sync.               *)
(*                                                                         *)
(* A put or an atomic that returns nothing is only issued by the call that *)
(* makes it.  It reaches its target some time later, in any order with     *)
(* respect to the others, also those of the same PE: no algorithm here     *)
(* calls fence.  quiet waits until nothing the PE issued is on its way.    *)
(***************************************************************************)
EXTENDS Integers, Sequences

CONSTANTS
  Jobs,             \* what the PEs may be set up to do, see below
  COLL_CROSSOVER,   \* active sets from this size on use the tree by default
  tree_radix,
  NumSlots          \* words of pSync: one for every round of the
                    \* dissemination barrier

(* 1 << i, as the dissemination barrier doubles its distance. *)
shl[i \in Nat] == IF i = 0 THEN 1 ELSE 2 * shl[i - 1]

(* A job: shmem_internal_barrier_type, an active set among the job's PEs,    *)
(* and the calls ("barrier" or "sync") that each of its members makes.       *)
ASSUME JobsAssumption ==
  \A j \in Jobs :
    /\ j.barrier_type \in {"auto", "linear", "tree", "dissem"}
    /\ j.PE_start \in Nat /\ j.PE_stride \in Nat \ {0} /\ j.PE_size \in Nat \ {0}
    /\ j.num_pes \in Nat
    /\ j.PE_start + (j.PE_size - 1) * j.PE_stride < j.num_pes
    /\ shl[NumSlots] >= j.PE_size
    /\ j.calls \in Seq({"barrier", "sync"})

ASSUME RadixAssumption ==
  tree_radix \in Nat \ {0, 1} /\ COLL_CROSSOVER \in Nat /\ NumSlots \in Nat \ {0}

VARIABLES
  job,       \* the job at hand; it never changes
  psync,     \* pSync[slot] on each PE
  net,       \* operations issued and not yet complete
  pc,        \* where each PE is
  entered,   \* how many calls each PE has entered
  left       \* how many calls each PE has left

netVars == <<job, psync, net, pc, entered, left>>

PE_start  == job.PE_start
PE_stride == job.PE_stride
PE_size   == job.PE_size
num_pes   == job.num_pes
Calls     == job.calls

PE(i) == PE_start + i * PE_stride

PEs == {PE(i) : i \in 0 .. PE_size - 1}

Slots == 0 .. NumSlots - 1

(* Operations carry the number of their call, so that each is told apart. *)
put(p, slot, v, dst) ==
  [kind |-> "put", src |-> p, dst |-> dst, slot |-> slot, val |-> v,
   call |-> entered[p]]

atomic_sum(p, slot, v, dst) ==
  [kind |-> "sum", src |-> p, dst |-> dst, slot |-> slot, val |-> v,
   call |-> entered[p]]

(* A put of the client's own data, outside the collective calls. *)
data_put(p) ==
  [kind |-> "data", src |-> p, dst |-> p, slot |-> 0, val |-> 0,
   call |-> left[p]]

quiet(p) == \A m \in net : m.src # p

Goto(p, l) == pc' = [pc EXCEPT ![p] = l]

NetInit ==
  /\ job \in Jobs
  /\ psync = [p \in PEs |-> [s \in Slots |-> 0]]
  /\ net = {}
  /\ pc = [p \in PEs |-> "out"]
  /\ entered = [p \in PEs |-> 0]
  /\ left = [p \in PEs |-> 0]

(* The network completes one operation on the pSync words of p. *)
Deliver(p) ==
  \E m \in net :
    /\ m.dst = p /\ m.kind \in {"put", "sum"}
    /\ net' = net \ {m}
    /\ psync' = [psync EXCEPT ![p][m.slot] = IF m.kind = "put" THEN m.val ELSE @ + m.val]
    /\ UNCHANGED <<job, pc, entered, left>>

(* The network completes a put of client data that p issued. *)
DeliverData(p) ==
  \E m \in net :
    /\ m.src = p /\ m.kind = "data"
    /\ net' = net \ {m}
    /\ UNCHANGED <<job, psync, pc, entered, left>>

(* Between two calls a PE may put data. *)
UserPut(p) ==
  /\ pc[p] = "out"
  /\ left[p] < Len(Calls)
  /\ net' = net \cup {data_put(p)}
  /\ UNCHANGED <<job, psync, pc, entered, left>>

(* Mutated form: shmem_barrier without its quiet. *)
enter_no_quiet(p, l) ==
  /\ pc[p] = "out"
  /\ left[p] < Len(Calls)
  /\ entered' = [entered EXCEPT ![p] = @ + 1]
  /\ Goto(p, l)
  /\ UNCHANGED <<job, psync, net, left>>

(* shmem_barrier is quiet, then sync; shmem_sync does not quiet. *)
enter(p, l) ==
  /\ pc[p] = "out"
  /\ left[p] < Len(Calls)
  /\ Calls[left[p] + 1] = "barrier" => quiet(p)
  /\ entered' = [entered EXCEPT ![p] = @ + 1]
  /\ Goto(p, l)
  /\ UNCHANGED <<job, psync, net, left>>

(* The return from the call. *)
leave(p) ==
  /\ left' = [left EXCEPT ![p] = @ + 1]
  /\ Goto(p, "out")

(* The job ends when every PE has made its calls. *)
Finished ==
  /\ \A p \in PEs : pc[p] = "out" /\ left[p] = Len(Calls)
  /\ net = {}
  /\ UNCHANGED netVars

-----------------------------------------------------------------------------
(* Types common to the algorithms, which add their own program points. *)
NetTypeOK ==
  /\ psync \in [PEs -> [Slots -> Int]]
  /\ \A m \in net :
       /\ m.kind \in {"put", "sum", "data"}
       /\ m.src \in PEs /\ m.dst \in PEs /\ m.slot \in Slots
  /\ entered \in [PEs -> 0 .. Len(Calls)]
  /\ left \in [PEs -> 0 .. Len(Calls)]
=============================================================================
