----------------------------- MODULE SyncProofs -----------------------------
(***************************************************************************)
(* The barriers of src/src/collectives.c (linear, tree and dissemination)  *)
(* for any active set, any tree_radix and any sequence of calls on one     *)
(* pSync array: that nobody leaves before everybody has entered, that a    *)
(* barrier completes the puts before it, that pSync is restored, and that  *)
(* its words stay within their bounds.                                     *)
(*                                                                         *)
(* The linear and the tree algorithm share one invariant: along each edge  *)
(* of the tree, child and parent are in the same call, or the parent is    *)
(* one call ahead and its acknowledgement is on the way; the words count   *)
(* what has arrived.  For dissemination it is a count per round: signals   *)
(* sent less signals taken less those in flight is what the word holds;    *)
(* and what a PE knows of the PEs behind it doubles with every round.      *)
(***************************************************************************)
EXTENDS ShmemSync, CollTreeProofs

(* The labels of the algorithm in use. *)
Labels ==
  {"out"} \cup (IF PE_size = 1 THEN {"alone"}
               ELSE CASE algorithm = "linear" -> linear_labels
                      [] algorithm = "tree"   -> tree_labels
                      [] algorithm = "dissem" -> dissem_labels)

(* Transfers in flight: stores to and additions on a pSync word, and user data. *)
Msgs == [kind : {"put", "sum", "data"}, src : PEs, dst : PEs, slot : Slots,
         val : Int, call : Nat]

(* Types, and how the counts of calls entered and left go with the label. *)
CallInv ==
  /\ job \in Jobs
  /\ psync \in [PEs -> [Slots -> Int]]
  /\ net \subseteq Msgs
  /\ pc \in [PEs -> Labels]
  /\ entered \in [PEs -> 0 .. Len(Calls)]
  /\ left \in [PEs -> 0 .. Len(Calls)]
  /\ iter \in [PEs -> Nat]
  /\ \A p \in PEs : entered[p] = IF pc[p] = "out" THEN left[p] ELSE left[p] + 1

(* The barrier itself: nobody has left a call that somebody has yet to enter. *)
SafeInv == \A p, q \in PEs : left[p] <= entered[q]

(* User data still in flight was put after the last barrier its sender has  *)
(* entered: shmem_barrier starts with a quiet, shmem_sync does not.         *)
DataInv ==
  \A m \in net : m.kind = "data" =>
    \A r \in m.call + 1 .. entered[m.src] : Calls[r] # "barrier"

-----------------------------------------------------------------------------
(* The linear and the tree algorithm, whose PEs are nodes of a tree: the    *)
(* linear one is the tree whose PEs all hang from the root.                 *)
Treelike == PE_size > 1 /\ algorithm \in {"linear", "tree"}

par(p)  == IF algorithm = "linear" THEN Root ELSE parent(p)
kids(p) == IF algorithm = "linear" THEN (IF p = Root THEN PEs \ {Root} ELSE {})
           ELSE children(p)

(* A PE before its call-in, between call-in and acknowledgement, and after it. *)
Before == {"out", "root_wait", "send", "callins", "leaf_send"}
Waits  == {"ack_wait", "middle_ack", "leaf_ack"}
Clears == {"root_clear", "ack_clear", "clear"}

(* The transfers on the edge from q to its parent: the call-in up, the      *)
(* acknowledgement down; and the store by which p resets its own word.      *)
call_of(q) ==
  [kind |-> "sum", src |-> q, dst |-> par(q), slot |-> 0, val |-> 1, call |-> entered[q]]
ack_of(q) ==
  [kind |-> IF algorithm = "linear" THEN "put" ELSE "sum", src |-> par(q), dst |-> q,
   slot |-> 0, val |-> 1, call |-> left[par(q)]]
clr_of(p) ==
  [kind |-> "put", src |-> p, dst |-> p, slot |-> 0, val |-> 0, call |-> entered[p]]

(* A waiting PE is in the same call as its parent until the parent has      *)
(* acknowledged and left.                                                   *)
CalledIn(q) == pc[q] \in Waits /\ left[q] = left[par(q)]
Released(q) == pc[q] \in Waits /\ left[q] = left[par(q)] - 1

(* The children whose call-in has arrived. *)
In(p) == {c \in kids(p) : CalledIn(c) /\ call_of(c) \notin net}

(* Which PEs can be at which label. *)
Label(p) ==
  /\ pc[p] \in {"root_wait", "root_clear"} => p = Root
  /\ pc[p] \in {"send", "ack_clear", "leaf_send"} \cup Waits => p # Root
  /\ pc[p] \in {"callins", "middle_ack"} => kids(p) # {}
  /\ pc[p] \in {"leaf_send", "leaf_ack"} => kids(p) = {}

(* The one way a PE and its parent can stand to each other: in the same     *)
(* call, or the parent one call ahead with its acknowledgement on the way.  *)
Edge(p) ==
  \/ pc[p] \in Before /\ left[p] = left[par(p)]
  \/ CalledIn(p)
  \/ Released(p)
  \/ pc[p] \in Clears /\ left[p] = left[par(p)] - 1

(* What is in flight was sent for the call its sender or receiver is in. *)
Flight(m) ==
  \/ m.src # Root /\ m = call_of(m.src) /\ CalledIn(m.src)
  \/ m.dst # Root /\ m = ack_of(m.dst) /\ Released(m.dst)
  \/ m = clr_of(m.src) /\ pc[m.src] \in Clears

(* The pSync word counts what has arrived: call-ins before, all of them and *)
(* the acknowledgement after, and zero once the reset has landed.           *)
Word(p) ==
  /\ pc[p] \in Before => psync[p][0] = Cardinality(In(p))
  /\ pc[p] \in Waits =>
       /\ In(p) = kids(p)
       /\ psync[p][0] = Cardinality(kids(p)) +
            (IF Released(p) /\ ack_of(p) \notin net THEN 1 ELSE 0)
  /\ pc[p] \in Clears =>
       /\ In(p) = kids(p)
       /\ psync[p][0] = IF clr_of(p) \in net
                        THEN Cardinality(kids(p)) + (IF p = Root THEN 0 ELSE 1)
                        ELSE 0
  /\ \A s \in Slots \ {0} : psync[p][s] = 0

(* The invariant of the linear and the tree barrier. *)
LabelInv  == \A p \in PEs : Label(p)
EdgeInv   == \A p \in PEs \ {Root} : Edge(p)
FlightInv == \A m \in net : m.kind # "data" => Flight(m)
WordInv   == \A p \in PEs : Word(p)

TreeInv == LabelInv /\ EdgeInv /\ FlightInv /\ WordInv /\ iter = [p \in PEs |-> 0]

-----------------------------------------------------------------------------
(* The dissemination algorithm, whose PEs form a ring. *)
Dissem == PE_size > 1 /\ algorithm = "dissem"

(* The PE's place in the ring, and those at a distance on either side. *)
rank(p) == (p - PE_start) \div PE_stride
ahead(p, d) == PE((rank(p) + d) % PE_size)
back(p, d)  == PE((rank(p) + PE_size - d) % PE_size)

(* The rounds of the loop: the powers of two below PE_size. *)
Rounds == {i \in Slots : shl[i] < PE_size}

(* The call of which p has sent its latest signal of round i, and the call  *)
(* of which it has taken (awaited and subtracted) the one it receives.      *)
Sent(p, i)  == IF pc[p] # "out" /\ (iter[p] > i \/ (iter[p] = i /\ pc[p] = "wait"))
               THEN entered[p] ELSE left[p]
Taken(p, i) == IF pc[p] # "out" /\ iter[p] > i THEN entered[p] ELSE left[p]

(* The addition that signals round i, and the one that takes the signal. *)
sig_of(p, i) ==
  [kind |-> "sum", src |-> p, dst |-> ahead(p, shl[i]), slot |-> i, val |-> 1,
   call |-> entered[p]]
dec_of(p, i) ==
  [kind |-> "sum", src |-> p, dst |-> p, slot |-> i, val |-> -1, call |-> entered[p]]

(* Where a PE can be in the loop. *)
Round(p) ==
  /\ pc[p] = "out" => iter[p] = 0
  /\ pc[p] = "wait" => iter[p] \in Rounds
  /\ \A i \in 0 .. iter[p] - 1 : i \in Rounds

(* What is in flight is of the call its sender is in. *)
Signal(m) ==
  /\ m.slot \in Rounds
  /\ pc[m.src] # "out"
  /\ \/ m = sig_of(m.src, m.slot) /\ Sent(m.src, m.slot) = entered[m.src]
     \/ m = dec_of(m.src, m.slot) /\ Taken(m.src, m.slot) = entered[m.src]

(* A condition counted. *)
One(b) == IF b THEN 1 ELSE 0

(* The signals of round i that have arrived and are not taken. *)
Due(p, i) ==
  Sent(back(p, shl[i]), i) - Taken(p, i) - One(sig_of(back(p, shl[i]), i) \in net)

(* A pSync word holds these, and those whose subtraction is in flight. *)
Slot(p, i) == Due(p, i) >= 0 /\ psync[p][i] = Due(p, i) + One(dec_of(p, i) \in net)

(* After round i a PE knows that 2^i PEs behind it are in its call: what a  *)
(* signal proves doubles from round to round.                               *)
Know(p) ==
  pc[p] # "out" =>
    \A d \in 0 .. PE_size - 1 : d < shl[iter[p]] => entered[back(p, d)] >= entered[p]

(* The invariant of the dissemination barrier. *)
RoundInv  == \A p \in PEs : Round(p)
SignalInv == \A m \in net : m.kind # "data" => Signal(m)
SlotInv   == \A p \in PEs : /\ \A i \in Rounds : Slot(p, i)
                            /\ \A i \in Slots \ Rounds : psync[p][i] = 0
KnowInv   == \A p \in PEs : Know(p)

DissemInv == RoundInv /\ SignalInv /\ SlotInv /\ KnowInv
-----------------------------------------------------------------------------
(* A PE alone has nothing to wait for. *)
SoloInv ==
  /\ iter = [p \in PEs |-> 0]
  /\ psync = [p \in PEs |-> [s \in Slots |-> 0]]
  /\ \A m \in net : m.kind = "data"

(* The inductive invariant. *)
SyncInv ==
  /\ CallInv /\ SafeInv /\ DataInv
  /\ PE_size = 1 => SoloInv
  /\ Treelike => TreeInv
  /\ Dissem => DissemInv

-----------------------------------------------------------------------------
(* The job never changes, and with it the active set and its tree. *)
LEMMA JobSame ==
  ASSUME job' = job
  PROVE  /\ PEs' = PEs /\ Root' = Root /\ PE_size' = PE_size /\ algorithm' = algorithm
         /\ Calls' = Calls /\ Labels' = Labels /\ Rounds' = Rounds
         /\ (Treelike' <=> Treelike) /\ (Dissem' <=> Dissem) /\ Msgs' = Msgs
         /\ \A p : par(p)' = par(p) /\ kids(p)' = kids(p)
         /\ \A p, d : ahead(p, d)' = ahead(p, d) /\ back(p, d)' = back(p, d)
<1>1. PEs' = PEs /\ Root' = Root /\ PE_size' = PE_size /\ algorithm' = algorithm
      /\ Calls' = Calls
  BY DEF PEs, PE, PE_start, PE_stride, PE_size, Root, algorithm, Calls
<1>2. Labels' = Labels
  BY <1>1 DEF Labels
<1>3. Rounds' = Rounds /\ (Treelike' <=> Treelike) /\ (Dissem' <=> Dissem) /\ Msgs' = Msgs
  BY <1>1 DEF Rounds, Treelike, Dissem, Msgs
<1>4. \A p : par(p)' = par(p)
  BY <1>1 DEF par, parent, PE_size, num_pes, PE_start, PE_stride
<1>5. \A p : kids(p)' = kids(p)
  BY <1>1 DEF kids, children, PE_size, num_pes, PE_start, PE_stride
<1>6. \A p, d : ahead(p, d)' = ahead(p, d) /\ back(p, d)' = back(p, d)
  BY DEF ahead, back, rank, PE, PE_size, PE_start, PE_stride
<1> QED
  BY <1>1, <1>2, <1>3, <1>4, <1>5, <1>6

(* What a job is, and its active set. *)
LEMMA JobFacts ==
  ASSUME job \in Jobs
  PROVE  /\ PE_start \in Nat /\ PE_stride \in Nat \ {0} /\ PE_size \in Nat \ {0}
         /\ num_pes \in Nat /\ PE_start + (PE_size - 1) * PE_stride < num_pes
         /\ shl[NumSlots] >= PE_size
         /\ algorithm \in {"linear", "tree", "dissem"}
         /\ Calls \in Seq({"barrier", "sync"}) /\ Len(Calls) \in Nat
         /\ PEs \subseteq Nat /\ Root \in PEs /\ \A p \in PEs \ {Root} : Root < p
         /\ IsFiniteSet(PEs) /\ Cardinality(PEs) = PE_size
         /\ 0 \in Slots /\ Slots \subseteq Nat
         /\ PEs \subseteq AllPEs
<1>1. /\ PE_start \in Nat /\ PE_stride \in Nat \ {0} /\ PE_size \in Nat \ {0}
      /\ num_pes \in Nat /\ PE_start + (PE_size - 1) * PE_stride < num_pes
      /\ shl[NumSlots] >= PE_size
      /\ job.barrier_type \in {"auto", "linear", "tree", "dissem"}
      /\ Calls \in Seq({"barrier", "sync"}) /\ Len(Calls) \in Nat
  BY JobsAssumption DEF PE_start, PE_stride, PE_size, num_pes, Calls
<1>2. algorithm \in {"linear", "tree", "dissem"}
  BY <1>1 DEF algorithm
<1>3. ASSUME NEW i \in 0 .. PE_size - 1
      PROVE  PE(i) \in Nat /\ PE(i) < num_pes /\ (i = 0 => PE(i) = Root)
             /\ (i # 0 => Root < PE(i))
  <2>1. i * PE_stride \in Nat /\ i * PE_stride <= (PE_size - 1) * PE_stride
        /\ (i # 0 => i * PE_stride > 0)
    BY <1>1
  <2>2. (PE_size - 1) * PE_stride \in Nat
    BY <1>1
  <2> QED
    BY <1>1, <2>1, <2>2 DEF PE, Root
<1>4. PEs \subseteq Nat /\ Root \in PEs /\ \A p \in PEs \ {Root} : Root < p
  <2>1. 0 \in 0 .. PE_size - 1
    BY <1>1
  <2> QED
    BY <1>3, <2>1 DEF PEs
<1>5. IsFiniteSet(PEs) /\ Cardinality(PEs) = PE_size
  <2>1. PEs = {PE_start + i * PE_stride : i \in 0 .. PE_size - 1}
    BY DEF PEs, PE
  <2> QED
    BY <1>1, <2>1, MembersCount
<1>6. 0 \in Slots /\ Slots \subseteq Nat
  BY RadixAssumption DEF Slots
<1>7. PEs \subseteq AllPEs
  <2>1. PEs \subseteq 0 .. job.num_pes - 1
    BY <1>1, <1>3 DEF PEs, num_pes
  <2> QED
    BY <2>1 DEF AllPEs
<1> QED
  BY <1>1, <1>2, <1>4, <1>5, <1>6, <1>7

(* The tree that the linear and the tree barrier run along. *)
LEMMA TreeFacts ==
  ASSUME job \in Jobs, Treelike
  PROVE  /\ par(Root) = Root
         /\ \A p \in PEs \ {Root} : par(p) \in PEs /\ par(p) < p
         /\ \A p \in PEs : kids(p) = {c \in PEs \ {Root} : par(c) = p}
         /\ kids(Root) # {}
<1>0. /\ PE_start \in Nat /\ PE_stride \in Nat \ {0} /\ PE_size \in Nat \ {0}
      /\ num_pes \in Nat /\ PE_start + (PE_size - 1) * PE_stride < num_pes
      /\ PEs \subseteq Nat /\ Root \in PEs /\ \A p \in PEs \ {Root} : Root < p
      /\ IsFiniteSet(PEs) /\ Cardinality(PEs) = PE_size
      /\ tree_radix \in Nat \ {0, 1}
  BY JobFacts, RadixAssumption
<1>1. PICK c1 \in PEs \ {Root} : c1 = PE(1)
  <2>1. 1 \in 0 .. PE_size - 1 /\ PE(1) = PE_start + PE_stride
    BY <1>0 DEF Treelike, PE
  <2> QED
    BY <1>0, <2>1 DEF PEs, Root
<1>2. \A p \in PEs : p < c1 => p = Root
  <2> TAKE p \in PEs
  <2>1. PICK i \in 0 .. PE_size - 1 : p = PE_start + i * PE_stride
    BY DEF PEs, PE
  <2>2. c1 = PE_start + 1 * PE_stride
    BY <1>1 DEF PE
  <2>3. i >= 1 => i * PE_stride >= 1 * PE_stride
    BY <1>0
  <2>4. i = 0 => p = PE_start
    BY <1>0, <2>1
  <2> QED
    BY <1>0, <2>1, <2>2, <2>3, <2>4 DEF Root
<1>3. CASE algorithm = "linear"
  BY <1>0, <1>1, <1>3 DEF par, kids
<1>4. CASE algorithm = "tree" /\ PE_size # num_pes
  <2> DEFINE nd(i) == nth(PE_start, PE_stride, PE_size, 0, i)
             up(i) == IF i = 0 THEN 0 ELSE (i - 1) \div tree_radix
  <2>1. \A p : /\ par(p) = kary_parent(tree_radix, PE_start, PE_stride, PE_size, 0, p)
              /\ kids(p) = kary_children(tree_radix, PE_start, PE_stride, PE_size, 0, p)
    BY <1>4 DEF par, kids, parent, children
  <2>2. PEs = {PE_start + i * PE_stride : i \in 0 .. PE_size - 1}
    BY DEF PEs, PE
  <2>3. 0 \in 0 .. PE_size - 1 /\ Root = PE_start + 0 * PE_stride
    BY <1>0 DEF Root
  <2>4. IsTree(PEs, Root,
               [p \in PEs |-> kary_parent(tree_radix, PE_start, PE_stride, PE_size, 0, p)],
               [p \in PEs |-> kary_children(tree_radix, PE_start, PE_stride, PE_size, 0, p)])
    <3> DEFINE M == {PE_start + i * PE_stride : i \in 0 .. PE_size - 1}
    <3>1. KaryIsRooted(tree_radix, PE_start, PE_stride, PE_size, 0)
      BY <1>0, <2>3, KaryTreesSpan
    <3>2. IsTree(M, PE_start + 0 * PE_stride,
               [p \in M |-> kary_parent(tree_radix, PE_start, PE_stride, PE_size, 0, p)],
               [p \in M |-> kary_children(tree_radix, PE_start, PE_stride, PE_size, 0, p)])
      BY <3>1 DEF KaryIsRooted
    <3> HIDE DEF M
    <3> QED
      BY <2>2, <2>3, <3>2 DEF M
  <2>5. /\ par(Root) = Root
        /\ \A p \in PEs : /\ par(p) \in PEs
                          /\ kids(p) = {c \in PEs \ {Root} : par(c) = p}
    BY <1>0, <2>1, <2>4 DEF IsTree
  <2>6. ASSUME NEW p \in PEs \ {Root} PROVE par(p) < p
    <3>1. PICK k \in 0 .. PE_size - 1 : p = PE_start + k * PE_stride
      BY <2>2
    <3>2. (0 + k) % PE_size = k
      BY <1>0
    <3>3. p = nd(k)
      BY <3>1, <3>2 DEF nth
    <3>4. k # 0
      BY <2>3, <3>1
    <3>5. up(k) \in 0 .. PE_size - 1 /\ up(k) < k /\ par(p) = nd(up(k))
      BY <1>0, <2>1, <2>3, <3>3, <3>4, KaryParent
    <3> HIDE DEF up
    <3>6. (0 + up(k)) % PE_size = up(k)
      BY <1>0, <3>5
    <3>7. par(p) = PE_start + up(k) * PE_stride
      BY <3>5, <3>6 DEF nth
    <3>8. up(k) * PE_stride < k * PE_stride
      BY <1>0, <3>5
    <3> QED
      BY <1>0, <3>1, <3>5, <3>7, <3>8
  <2>7. par(c1) = Root
    BY <1>2, <2>5, <2>6
  <2> QED
    BY <1>0, <2>5, <2>6, <2>7
<1>5. CASE algorithm = "tree" /\ PE_size = num_pes
  <2>1. PE_stride = 1 /\ PE_start = 0
    <3>1. PE_size >= 2
      BY <1>0 DEF Treelike
    <3>2. PE_stride >= 2 => (PE_size - 1) * PE_stride >= (PE_size - 1) * 2
      BY <1>0
    <3>3. PE_stride = 1
      BY <1>0, <1>5, <3>1, <3>2
    <3> QED
      BY <1>0, <1>5, <3>3
  <2>2. PEs = 0 .. PE_size - 1 /\ Root = 0
    <3>1. \A i \in 0 .. PE_size - 1 : PE(i) = i
      BY <1>0, <2>1 DEF PE
    <3> QED
      BY <2>1, <3>1 DEF PEs, Root
  <2>3. \A p : /\ par(p) = full_parent(PE_size, tree_radix, p)
              /\ kids(p) = full_children(PE_size, tree_radix, p)
    BY <1>5 DEF par, kids, parent, children
  <2>4. IsTree(PEs, Root, [p \in PEs |-> full_parent(PE_size, tree_radix, p)],
                          [p \in PEs |-> full_children(PE_size, tree_radix, p)])
    BY <1>0, <2>2, FullTreeSpans
  <2>5. /\ par(Root) = Root
        /\ \A p \in PEs : /\ par(p) \in PEs
                          /\ kids(p) = {c \in PEs \ {Root} : par(c) = p}
    BY <1>0, <2>3, <2>4 DEF IsTree
  <2>6. ASSUME NEW p \in PEs \ {Root} PROVE par(p) < p
    <3>1. p \in 1 .. PE_size - 1
      BY <1>0, <2>2
    <3> QED
      BY <1>0, <2>3, <3>1, ParentHasChild
  <2>7. par(c1) = Root
    BY <1>2, <2>5, <2>6
  <2> QED
    BY <1>0, <2>5, <2>6, <2>7
<1> QED
  BY <1>3, <1>4, <1>5 DEF Treelike

-----------------------------------------------------------------------------
(* Steps of the linear and the tree barrier. *)

TreeState == CallInv /\ SafeInv /\ Treelike /\ TreeInv

(* What is used of the tree and of the types in every step. *)
LEMMA TreeStateFacts ==
  ASSUME TreeState
  PROVE  /\ Root \in PEs /\ PEs \subseteq Nat
         /\ \A p \in PEs \ {Root} : par(p) \in PEs /\ par(p) < p
         /\ \A p \in PEs : /\ kids(p) = {c \in PEs \ {Root} : par(c) = p}
                           /\ kids(p) \subseteq PEs \ {Root}
                           /\ IsFiniteSet(kids(p)) /\ Cardinality(kids(p)) \in Nat
                           /\ IsFiniteSet(In(p)) /\ Cardinality(In(p)) \in Nat
                           /\ Cardinality(In(p)) = Cardinality(kids(p)) => In(p) = kids(p)
         /\ kids(Root) # {} /\ Cardinality(kids(Root)) # 0
         /\ \A p \in PEs : /\ pc[p] \in Before \cup Waits \cup Clears
                           /\ left[p] \in Nat /\ entered[p] \in Nat
                           /\ psync[p] \in [Slots -> Int]
         /\ 0 \in Slots
         /\ \A m \in net : m \in Msgs
<1> USE DEF TreeState
<1>1. job \in Jobs
  BY DEF CallInv
<1>2. /\ Root \in PEs /\ PEs \subseteq Nat /\ IsFiniteSet(PEs) /\ 0 \in Slots
      /\ Len(Calls) \in Nat /\ PE_size \in Nat
  BY <1>1, JobFacts
<1>3. /\ \A p \in PEs \ {Root} : par(p) \in PEs /\ par(p) < p
      /\ \A p \in PEs : kids(p) = {c \in PEs \ {Root} : par(c) = p}
      /\ kids(Root) # {}
  BY <1>1, TreeFacts
<1>4. ASSUME NEW p \in PEs
      PROVE  /\ kids(p) \subseteq PEs \ {Root}
             /\ IsFiniteSet(kids(p)) /\ Cardinality(kids(p)) \in Nat
             /\ IsFiniteSet(In(p)) /\ Cardinality(In(p)) \in Nat
             /\ Cardinality(In(p)) = Cardinality(kids(p)) => In(p) = kids(p)
  <2>1. kids(p) \subseteq PEs \ {Root} /\ kids(p) \in SUBSET PEs
    BY <1>3
  <2>2. IsFiniteSet(kids(p))
    BY <1>2, <2>1, FS_Subset
  <2>3. In(p) \in SUBSET kids(p)
    BY DEF In
  <2> QED
    BY <2>1, <2>2, <2>3, FS_Subset, FS_CardinalityType
<1>5. Cardinality(kids(Root)) # 0
  BY <1>2, <1>3, <1>4, FS_EmptySet
<1>6. Labels \subseteq Before \cup Waits \cup Clears
  <2>1. PE_size # 1
    BY <1>2 DEF Treelike
  <2>2. CASE algorithm = "linear"
    BY <2>1, <2>2 DEF Labels, linear_labels, Before, Waits, Clears
  <2>3. CASE algorithm = "tree"
    BY <2>1, <2>3 DEF Labels, tree_labels, Before, Waits, Clears
  <2> QED
    BY <2>2, <2>3 DEF Treelike
<1>7. \A p \in PEs : /\ pc[p] \in Before \cup Waits \cup Clears
                    /\ left[p] \in Nat /\ entered[p] \in Nat
                    /\ psync[p] \in [Slots -> Int]
  BY <1>2, <1>6 DEF CallInv
<1>8. \A m \in net : m \in Msgs
  BY DEF CallInv
<1> QED
  BY <1>2, <1>3, <1>4, <1>5, <1>7, <1>8

(* The three classes of program points. *)
LEMMA Points ==
  Before \cap Waits = {} /\ Before \cap Clears = {} /\ Waits \cap Clears = {}
  BY DEF Before, Waits, Clears

(* Messages along the tree are told apart by their fields. *)
LEMMA Distinct ==
  ASSUME TreeState
  PROVE  /\ \A p, q \in PEs : call_of(p) = call_of(q) => p = q
         /\ \A p, q \in PEs : ack_of(p) = ack_of(q) => p = q
         /\ \A p, q \in PEs : clr_of(p) = clr_of(q) => p = q
         /\ \A p, q \in PEs : call_of(p) # clr_of(q) /\ ack_of(p) # clr_of(q)
         /\ \A p, q \in PEs \ {Root} : call_of(p) # ack_of(q)
         /\ \A p \in PEs : /\ call_of(p).kind # "data" /\ ack_of(p).kind # "data"
                           /\ clr_of(p).kind # "data"
<1>1. \A p, q \in PEs \ {Root} : call_of(p) # ack_of(q)
  <2> SUFFICES ASSUME NEW p \in PEs \ {Root}, NEW q \in PEs \ {Root}, call_of(p) = ack_of(q)
               PROVE  FALSE
    OBVIOUS
  <2>1. call_of(p).src = ack_of(q).src /\ call_of(p).dst = ack_of(q).dst
    OBVIOUS
  <2>2. p = par(q) /\ par(p) = q
    BY <2>1 DEF call_of, ack_of
  <2> QED
    BY <2>2, TreeStateFacts
<1>2. \A p, q \in PEs : call_of(p) = call_of(q) => p = q
  <2> SUFFICES ASSUME NEW p, NEW q, call_of(p) = call_of(q) PROVE p = q
    OBVIOUS
  <2>1. call_of(p).src = call_of(q).src
    OBVIOUS
  <2> QED
    BY <2>1 DEF call_of
<1>3. \A p, q \in PEs : ack_of(p) = ack_of(q) => p = q
  <2> SUFFICES ASSUME NEW p, NEW q, ack_of(p) = ack_of(q) PROVE p = q
    OBVIOUS
  <2>1. ack_of(p).dst = ack_of(q).dst
    OBVIOUS
  <2> QED
    BY <2>1 DEF ack_of
<1>4. \A p, q \in PEs : clr_of(p) = clr_of(q) => p = q
  <2> SUFFICES ASSUME NEW p, NEW q, clr_of(p) = clr_of(q) PROVE p = q
    OBVIOUS
  <2>1. clr_of(p).dst = clr_of(q).dst
    OBVIOUS
  <2> QED
    BY <2>1 DEF clr_of
<1>5. \A p, q \in PEs : call_of(p) # clr_of(q) /\ ack_of(p) # clr_of(q)
  <2> SUFFICES ASSUME NEW p, NEW q PROVE call_of(p) # clr_of(q) /\ ack_of(p) # clr_of(q)
    OBVIOUS
  <2>1. call_of(p).val # clr_of(q).val /\ ack_of(p).val # clr_of(q).val
    BY DEF call_of, ack_of, clr_of
  <2> QED
    BY <2>1
<1>6. \A p \in PEs : call_of(p).kind # "data" /\ ack_of(p).kind # "data" /\ clr_of(p).kind # "data"
  BY DEF call_of, ack_of, clr_of
<1> QED
  BY <1>1, <1>2, <1>3, <1>4, <1>5, <1>6

(* A PE enters its next call. *)
LEMMA TreeEnter ==
  ASSUME TreeState, NEW p \in PEs, pc[p] = "out", NEW l \in Before,
         pc' = [pc EXCEPT ![p] = l], entered' = [entered EXCEPT ![p] = @ + 1],
         UNCHANGED <<job, psync, net, left, iter>>,
         Label(p)'
  PROVE  TreeInv'
<1> USE DEF TreeState, TreeInv
<1>1. /\ PEs' = PEs /\ Root' = Root
      /\ \A q : par(q)' = par(q) /\ kids(q)' = kids(q)
  BY JobSame
<1>2. pc \in [PEs -> Labels] /\ entered \in [PEs -> 0 .. Len(Calls)]
  BY DEF CallInv
<1>3. /\ pc'[p] = l /\ \A q \in PEs \ {p} : pc'[q] = pc[q] /\ entered'[q] = entered[q]
      /\ pc[p] \in Before
  BY <1>2 DEF Before
<1>4. \A q \in PEs : /\ (CalledIn(q)' <=> CalledIn(q)) /\ (Released(q)' <=> Released(q))
                    /\ ack_of(q)' = ack_of(q)
                    /\ (q # p => /\ call_of(q)' = call_of(q) /\ clr_of(q)' = clr_of(q)
                                 /\ pc'[q] = pc[q])
  <2> TAKE q \in PEs
  <2>1. (CalledIn(q)' <=> CalledIn(q)) /\ (Released(q)' <=> Released(q))
    BY <1>1, <1>3, Points DEF CalledIn, Released
  <2>2. ack_of(q)' = ack_of(q)
    <3>1. algorithm' = algorithm
      BY JobSame
    <3> QED
      BY <1>1, <3>1 DEF ack_of
  <2>3. q # p => call_of(q)' = call_of(q) /\ clr_of(q)' = clr_of(q)
    BY <1>1, <1>3 DEF call_of, clr_of
  <2> QED
    BY <1>3, <2>1, <2>2, <2>3
<1>5. ~ CalledIn(p) /\ ~ Released(p) /\ pc[p] \notin Clears /\ pc[p] \notin Waits
      /\ l \notin Clears /\ l \notin Waits
  BY <1>3, Points DEF CalledIn, Released
<1>6. ASSUME NEW q \in PEs PROVE In(q)' = In(q)
  <2>1. kids(q) \subseteq PEs
    BY TreeStateFacts
  <2> QED
    BY <1>1, <1>4, <1>5, <2>1 DEF In
<1>7. ASSUME NEW q \in PEs PROVE Word(q)'
  <2>1. Word(q) /\ In(q)' = In(q) /\ kids(q)' = kids(q) /\ Slots' = Slots
    BY <1>1, <1>6 DEF WordInv, Slots
  <2>2. CASE q = p
    BY <1>3, <1>5, <2>1, <2>2 DEF Word
  <2>3. CASE q # p
    BY <1>1, <1>4, <2>1, <2>3 DEF Word
  <2> QED
    BY <2>2, <2>3
<1>8. ASSUME NEW q \in PEs \ {Root} PROVE Edge(q)'
  <2>1. Edge(q)
    BY DEF EdgeInv
  <2> QED
    BY <1>1, <1>3, <1>4, <1>5, <2>1 DEF Edge
<1>9. ASSUME NEW m \in net, m.kind # "data" PROVE Flight(m)'
  <2>1. Flight(m) /\ m.src \in PEs /\ m.dst \in PEs
    BY <1>9, TreeStateFacts DEF FlightInv, Msgs
  <2> QED
    BY <1>1, <1>4, <1>5, <2>1 DEF Flight
<1>10. ASSUME NEW q \in PEs PROVE Label(q)'
  <2>1. Label(q)
    BY DEF LabelInv
  <2> QED
    BY <1>1, <1>3, <2>1 DEF Label
<1>11. (iter = [q \in PEs |-> 0])'
  BY <1>1
<1> QED
  BY <1>1, <1>7, <1>8, <1>9, <1>10, <1>11 DEF LabelInv, EdgeInv, FlightInv, WordInv

(* Messages are what they are while nobody enters or leaves. *)
LEMMA SameMessages ==
  ASSUME job' = job, entered' = entered, left' = left
  PROVE  \A q : call_of(q)' = call_of(q) /\ ack_of(q)' = ack_of(q) /\ clr_of(q)' = clr_of(q)
  BY JobSame DEF call_of, ack_of, clr_of

(* A PE whose children have all called in calls in at its parent. *)
LEMMA TreeCallIn ==
  ASSUME TreeState, NEW p \in PEs \ {Root}, pc[p] \in Before, NEW l \in Waits,
         psync[p][0] = Cardinality(kids(p)) \/ kids(p) = {},
         pc' = [pc EXCEPT ![p] = l], net' = net \cup {call_of(p)},
         UNCHANGED <<job, psync, entered, left, iter>>,
         Label(p)'
  PROVE  TreeInv'
<1> USE DEF TreeState, TreeInv
<1>1. /\ PEs' = PEs /\ Root' = Root /\ Slots' = Slots
      /\ \A q : par(q)' = par(q) /\ kids(q)' = kids(q)
  BY JobSame DEF Slots
<1>2. pc \in [PEs -> Labels]
  BY DEF CallInv
<1>3. pc'[p] = l /\ \A q \in PEs \ {p} : pc'[q] = pc[q]
  BY <1>2
<1>4. /\ pc[p] \notin Clears /\ pc[p] \notin Waits /\ l \notin Clears /\ l \notin Before
      /\ left[p] = left[par(p)] /\ In(p) = kids(p) /\ ~ CalledIn(p) /\ ~ Released(p)
  <2>1. pc[p] \notin Clears /\ pc[p] \notin Waits /\ l \notin Clears /\ l \notin Before
        /\ ~ CalledIn(p) /\ ~ Released(p)
    BY Points DEF CalledIn, Released
  <2>2. left[p] = left[par(p)]
    BY <2>1 DEF EdgeInv, Edge
  <2>3. In(p) = kids(p)
    <3>1. CASE kids(p) = {}
      BY <3>1 DEF In
    <3>2. CASE psync[p][0] = Cardinality(kids(p))
      BY <3>2, TreeStateFacts DEF WordInv, Word
    <3> QED
      BY <3>1, <3>2
  <2> QED
    BY <2>1, <2>2, <2>3
<1>5. /\ \A q : /\ call_of(q)' = call_of(q) /\ ack_of(q)' = ack_of(q) /\ clr_of(q)' = clr_of(q)
  BY SameMessages
<1>6. \A q \in PEs : /\ (q # p => (CalledIn(q)' <=> CalledIn(q)))
                    /\ (q # p => (Released(q)' <=> Released(q)))
                    /\ CalledIn(p)' /\ ~ Released(p)'
  <2>1. left[p] \in Nat
    BY TreeStateFacts
  <2> QED
    BY <1>1, <1>3, <1>4, <2>1 DEF CalledIn, Released
<1>7. ASSUME NEW q \in PEs
      PROVE  /\ (q # p => (call_of(q) \in net' <=> call_of(q) \in net))
             /\ (q # Root => (ack_of(q) \in net' <=> ack_of(q) \in net))
             /\ (clr_of(q) \in net' <=> clr_of(q) \in net)
  BY Distinct
<1>8. ASSUME NEW q \in PEs PROVE In(q)' = In(q)
  <2>1. kids(q) \subseteq PEs
    BY TreeStateFacts
  <2> QED
    BY <1>1, <1>4, <1>5, <1>6, <1>7, <2>1 DEF In
<1>9. ASSUME NEW q \in PEs PROVE Word(q)'
  <2>1. Word(q) /\ In(q)' = In(q) /\ kids(q)' = kids(q)
    BY <1>1, <1>8 DEF WordInv
  <2>2. CASE q = p
    <3>1. Cardinality(kids(p)) \in Nat /\ Cardinality(kids(p)) + 0 = Cardinality(kids(p))
      BY TreeStateFacts
    <3>2. psync[p][0] = Cardinality(kids(p)) /\ \A s \in Slots \ {0} : psync[p][s] = 0
      BY <1>4, <2>1, <2>2 DEF Word
    <3> QED
      BY <1>1, <1>3, <1>4, <1>6, <2>1, <2>2, <3>1, <3>2 DEF Word
  <2>3. CASE q # p
    <3>1. pc[q] \in Waits => q # Root
      BY DEF LabelInv, Label
    <3> QED
      BY <1>1, <1>3, <1>5, <1>6, <1>7, <2>1, <2>3, <3>1 DEF Word
  <2> QED
    BY <2>2, <2>3
<1>10. ASSUME NEW q \in PEs \ {Root} PROVE Edge(q)'
  <2>1. Edge(q)
    BY DEF EdgeInv
  <2>2. CASE q = p
    BY <1>6, <2>2 DEF Edge
  <2>3. CASE q # p
    BY <1>1, <1>3, <1>6, <2>1, <2>3 DEF Edge
  <2> QED
    BY <2>2, <2>3
<1>11. ASSUME NEW m \in net', m.kind # "data" PROVE Flight(m)'
  <2>1. CASE m = call_of(p)
    <3>1. m.src = p
      BY <2>1 DEF call_of
    <3> QED
      BY <1>1, <1>5, <1>6, <2>1, <3>1 DEF Flight
  <2>2. CASE m \in net
    <3>1. Flight(m) /\ m.src \in PEs /\ m.dst \in PEs
      BY <1>11, <2>2, TreeStateFacts DEF FlightInv, Msgs
    <3>2. pc[m.src] \in Clears => m.src # p
      BY <1>4
    <3> QED
      BY <1>1, <1>3, <1>4, <1>5, <1>6, <3>1, <3>2 DEF Flight
  <2> QED
    BY <2>1, <2>2
<1>12. ASSUME NEW q \in PEs PROVE Label(q)'
  <2>1. Label(q)
    BY DEF LabelInv
  <2> QED
    BY <1>1, <1>3, <2>1 DEF Label
<1>13. (iter = [q \in PEs |-> 0])'
  BY <1>1
<1> QED
  BY <1>1, <1>9, <1>10, <1>11, <1>12, <1>13 DEF LabelInv, EdgeInv, FlightInv, WordInv

(* The root has heard from its children, or another PE from its parent: it clears *)
(* its word.                                                                      *)
LEMMA TreeClear ==
  ASSUME TreeState, NEW p \in PEs, NEW l \in Clears,
         \/ p = Root /\ pc[p] \in Before /\ psync[p][0] = Cardinality(kids(p))
         \/ p # Root /\ pc[p] \in Waits /\ psync[p][0] # Cardinality(kids(p)),
         pc' = [pc EXCEPT ![p] = l], net' = net \cup {clr_of(p)},
         UNCHANGED <<job, psync, entered, left, iter>>,
         Label(p)'
  PROVE  TreeInv'
<1> USE DEF TreeState, TreeInv
<1>1. /\ PEs' = PEs /\ Root' = Root /\ Slots' = Slots
      /\ \A q : par(q)' = par(q) /\ kids(q)' = kids(q)
  BY JobSame DEF Slots
<1>2. pc \in [PEs -> Labels]
  BY DEF CallInv
<1>3. pc'[p] = l /\ \A q \in PEs \ {p} : pc'[q] = pc[q]
  BY <1>2
<1>4. /\ pc[p] \notin Clears /\ l \notin Waits /\ l \notin Before
      /\ In(p) = kids(p) /\ ~ CalledIn(p)
      /\ (p = Root => psync[p][0] = Cardinality(kids(p)) + 0)
      /\ (p # Root => /\ psync[p][0] = Cardinality(kids(p)) + 1
                      /\ left[p] = left[par(p)] - 1 /\ ack_of(p) \notin net)
  <2>1. pc[p] \notin Clears /\ l \notin Waits /\ l \notin Before
    BY Points
  <2>2. CASE p = Root
    <3>1. pc[p] \in Before /\ pc[p] \notin Waits
      BY <2>2, Points
    <3>2. In(p) = kids(p)
      BY <2>2, <3>1, TreeStateFacts DEF WordInv, Word
    <3>3. psync[p][0] = Cardinality(kids(p)) + 0
      BY <2>2, TreeStateFacts
    <3> QED
      BY <2>1, <2>2, <3>1, <3>2, <3>3 DEF CalledIn
  <2>3. CASE p # Root
    <3>1. pc[p] \in Waits
      BY <2>3
    <3>2. In(p) = kids(p)
          /\ psync[p][0] = Cardinality(kids(p)) +
                (IF Released(p) /\ ack_of(p) \notin net THEN 1 ELSE 0)
      BY <3>1 DEF WordInv, Word
    <3>3. Cardinality(kids(p)) + 0 = Cardinality(kids(p))
      BY TreeStateFacts
    <3>4. Released(p) /\ ack_of(p) \notin net
      BY <2>3, <3>2, <3>3
    <3>5. left[p] = left[par(p)] - 1 /\ left[par(p)] \in Nat
      BY <2>3, <3>4, TreeStateFacts DEF Released
    <3>6. left[p] # left[par(p)]
      BY <3>5
    <3> QED
      BY <2>1, <2>3, <3>2, <3>4, <3>5, <3>6 DEF CalledIn
  <2> QED
    BY <2>2, <2>3
<1>5. /\ \A q : /\ call_of(q)' = call_of(q) /\ ack_of(q)' = ack_of(q) /\ clr_of(q)' = clr_of(q)
  BY SameMessages
<1>6. \A q \in PEs : /\ (CalledIn(q)' <=> CalledIn(q))
                    /\ (q # p => (Released(q)' <=> Released(q)))
                    /\ ~ Released(p)'
  BY <1>1, <1>3, <1>4 DEF CalledIn, Released
<1>7. ASSUME NEW q \in PEs
      PROVE  /\ (call_of(q) \in net' <=> call_of(q) \in net)
             /\ (ack_of(q) \in net' <=> ack_of(q) \in net)
             /\ (q # p => (clr_of(q) \in net' <=> clr_of(q) \in net))
  BY Distinct
<1>8. ASSUME NEW q \in PEs PROVE In(q)' = In(q)
  <2>1. kids(q) \subseteq PEs
    BY TreeStateFacts
  <2> QED
    BY <1>1, <1>5, <1>6, <1>7, <2>1 DEF In
<1>9. ASSUME NEW q \in PEs PROVE Word(q)'
  <2>1. Word(q) /\ In(q)' = In(q) /\ kids(q)' = kids(q)
    BY <1>1, <1>8 DEF WordInv
  <2>2. CASE q = p
    <3>1. \A s \in Slots \ {0} : psync[p][s] = 0
      BY <2>1, <2>2 DEF Word
    <3>2. clr_of(p)' \in net'
      BY <1>5
    <3> QED
      BY <1>1, <1>3, <1>4, <2>1, <2>2, <3>1, <3>2 DEF Word
  <2>3. CASE q # p
    BY <1>1, <1>3, <1>5, <1>6, <1>7, <2>1, <2>3 DEF Word
  <2> QED
    BY <2>2, <2>3
<1>10. ASSUME NEW q \in PEs \ {Root} PROVE Edge(q)'
  <2>1. Edge(q)
    BY DEF EdgeInv
  <2>2. CASE q = p
    BY <1>1, <1>3, <1>4, <2>2 DEF Edge
  <2>3. CASE q # p
    BY <1>1, <1>3, <1>6, <2>1, <2>3 DEF Edge
  <2> QED
    BY <2>2, <2>3
<1>11. ASSUME NEW m \in net', m.kind # "data" PROVE Flight(m)'
  <2>1. CASE m = clr_of(p)
    <3>1. m.src = p
      BY <2>1 DEF clr_of
    <3> QED
      BY <1>3, <1>5, <2>1, <3>1 DEF Flight
  <2>2. CASE m \in net
    <3>1. Flight(m) /\ m.src \in PEs /\ m.dst \in PEs
      BY <1>11, <2>2, TreeStateFacts DEF FlightInv, Msgs
    <3>2. m.dst # Root /\ m = ack_of(m.dst) => m.dst # p
      BY <1>4, <2>2
    <3> QED
      BY <1>1, <1>3, <1>4, <1>5, <1>6, <3>1, <3>2 DEF Flight
  <2> QED
    BY <2>1, <2>2
<1>12. ASSUME NEW q \in PEs PROVE Label(q)'
  <2>1. Label(q)
    BY DEF LabelInv
  <2> QED
    BY <1>1, <1>3, <2>1 DEF Label
<1>13. (iter = [q \in PEs |-> 0])'
  BY <1>1
<1> QED
  BY <1>1, <1>9, <1>10, <1>11, <1>12, <1>13 DEF LabelInv, EdgeInv, FlightInv, WordInv

(* A PE whose word is clear again acknowledges its children and leaves. *)
LEMMA TreeRelease ==
  ASSUME TreeState, NEW p \in PEs, pc[p] \in Clears, psync[p][0] = 0,
         pc' = [pc EXCEPT ![p] = "out"], left' = [left EXCEPT ![p] = @ + 1],
         net' = net \cup {[kind |-> IF algorithm = "linear" THEN "put" ELSE "sum",
                           src |-> p, dst |-> c, slot |-> 0, val |-> 1,
                           call |-> entered[p]] : c \in kids(p)},
         UNCHANGED <<job, psync, entered, iter>>
  PROVE  TreeInv' /\ (p # Root => left[par(p)] = left[p] + 1)
         /\ entered[p] = left[p] + 1 /\ In(p) = kids(p)
<1> USE DEF TreeState, TreeInv
<1> DEFINE ack(c) == [kind |-> IF algorithm = "linear" THEN "put" ELSE "sum",
                      src |-> p, dst |-> c, slot |-> 0, val |-> 1, call |-> entered[p]]
<1>1. /\ PEs' = PEs /\ Root' = Root /\ Slots' = Slots /\ algorithm' = algorithm
      /\ \A q : par(q)' = par(q) /\ kids(q)' = kids(q)
  BY JobSame DEF Slots
<1>2. pc \in [PEs -> Labels] /\ left \in [PEs -> 0 .. Len(Calls)]
  BY DEF CallInv
<1>3. /\ pc'[p] = "out" /\ left'[p] = left[p] + 1
      /\ \A q \in PEs \ {p} : pc'[q] = pc[q] /\ left'[q] = left[q]
  BY <1>2
<1>4. pc[p] # "out" /\ pc[p] \notin Before /\ pc[p] \notin Waits
      /\ "out" \in Before /\ "out" \notin Waits /\ "out" \notin Clears
  BY Points DEF Before, Waits, Clears
<1>5. entered[p] = left[p] + 1 /\ left[p] \in Nat
  BY <1>4, TreeStateFacts DEF CallInv
<1>6. In(p) = kids(p)
  BY DEF WordInv, Word
<1>7. clr_of(p) \notin net
  <2>1. Cardinality(kids(p)) \in Nat /\ Cardinality(kids(Root)) # 0
    BY TreeStateFacts
  <2>2. Cardinality(kids(p)) + (IF p = Root THEN 0 ELSE 1) # 0
    BY <2>1
  <2> QED
    BY <2>2 DEF WordInv, Word
<1>8. p # Root => left[p] = left[par(p)] - 1 /\ par(p) \in PEs /\ par(p) # p
  <2>1. p # Root => par(p) \in PEs /\ par(p) < p /\ p \in Nat
    BY TreeStateFacts
  <2> QED
    BY <1>4, <2>1 DEF EdgeInv, Edge, CalledIn, Released
<1>9. p # Root => left[par(p)] = left[p] + 1
  BY <1>5, <1>8, TreeStateFacts
<1>10. ASSUME NEW c \in kids(p)
       PROVE  /\ c \in PEs \ {Root} /\ par(c) = p /\ c # p
              /\ CalledIn(c) /\ ~ Released(c) /\ pc[c] \in Waits /\ call_of(c) \notin net
              /\ ~ CalledIn(c)' /\ Released(c)' /\ ack_of(c)' = ack(c) /\ ack(c) \in net'
  <2>1. c \in PEs \ {Root} /\ par(c) = p /\ c # p
    BY TreeStateFacts
  <2>2. CalledIn(c) /\ call_of(c) \notin net
    BY <1>6 DEF In
  <2>3. left[c] = left[p] /\ pc[c] \in Waits
    BY <2>1, <2>2 DEF CalledIn
  <2>4. left'[c] = left'[p] - 1 /\ left'[c] # left'[p] /\ pc'[c] \in Waits
        /\ left[c] # left[p] - 1
    BY <1>3, <1>5, <2>1, <2>3
  <2>5. ~ CalledIn(c)' /\ Released(c)' /\ ~ Released(c)
    BY <1>1, <2>1, <2>4 DEF CalledIn, Released
  <2>6. ack_of(c)' = ack(c)
    BY <1>1, <1>3, <1>5, <2>1 DEF ack_of
  <2> QED
    BY <2>1, <2>2, <2>3, <2>5, <2>6
<1>11. ~ CalledIn(p) /\ ~ Released(p) /\ ~ CalledIn(p)' /\ ~ Released(p)'
  BY <1>3, <1>4 DEF CalledIn, Released
<1>12. ASSUME NEW q \in PEs, q # p, q \notin kids(p)
       PROVE  /\ (CalledIn(q)' <=> CalledIn(q)) /\ (Released(q)' <=> Released(q))
              /\ (q # Root => ack_of(q)' = ack_of(q) /\ (ack_of(q) \in net' <=> ack_of(q) \in net))
  <2>1. q # Root => par(q) # p /\ par(q) \in PEs
    BY <1>12, TreeStateFacts
  <2>2. q = Root => pc[q] \notin Waits
    BY DEF LabelInv, Label
  <2>3. ack_of(q).dst = q /\ \A c : ack(c).dst = c
    BY DEF ack_of
  <2>4. ack_of(q) \in net' <=> ack_of(q) \in net
    BY <1>12, <2>3
  <2> QED
    BY <1>1, <1>3, <1>12, <2>1, <2>2, <2>4 DEF CalledIn, Released, ack_of
<1>13. ASSUME NEW q \in PEs
       PROVE  /\ call_of(q)' = call_of(q) /\ clr_of(q)' = clr_of(q)
              /\ (q # Root => (call_of(q) \in net' <=> call_of(q) \in net))
              /\ (clr_of(q) \in net' <=> clr_of(q) \in net)
  <2>1. call_of(q)' = call_of(q) /\ clr_of(q)' = clr_of(q)
    BY <1>1 DEF call_of, clr_of
  <2>2. \A c \in kids(p) : clr_of(q) # ack(c)
    <3>1. clr_of(q).val = 0 /\ \A c : ack(c).val = 1
      BY DEF clr_of
    <3> QED
      BY <3>1
  <2>3. ASSUME q # Root, NEW c \in kids(p) PROVE call_of(q) # ack(c)
    <3>1. call_of(q).src = q /\ call_of(q).dst = par(q) /\ ack(c).src = p /\ ack(c).dst = c
      BY DEF call_of
    <3>2. par(q) < q /\ par(c) < c /\ par(c) = p /\ c \in Nat /\ q \in Nat /\ p \in Nat
      BY <1>10, <2>3, TreeStateFacts
    <3> QED
      BY <3>1, <3>2
  <2> QED
    BY <2>1, <2>2, <2>3
<1> HIDE DEF ack
<1>14. In(p)' = {}
  BY <1>1, <1>10 DEF In
<1>15. ASSUME NEW q \in PEs, q # p PROVE In(q)' = In(q)
  <2>1. kids(q) \subseteq PEs \ {Root} /\ \A c \in kids(q) : c \notin kids(p)
    BY <1>15, TreeStateFacts
  <2>2. \A c \in kids(q) : (CalledIn(c)' <=> CalledIn(c))
    BY <1>11, <1>12, <2>1
  <2> QED
    BY <1>1, <1>13, <2>1, <2>2 DEF In
<1>16. ASSUME NEW q \in PEs PROVE Word(q)'
  <2>1. Word(q) /\ kids(q)' = kids(q)
    BY <1>1 DEF WordInv
  <2>2. CASE q = p
    <3>1. Cardinality(In(p)') = 0
      BY <1>14, FS_EmptySet
    <3>2. \A s \in Slots \ {0} : psync[p][s] = 0
      BY <2>1, <2>2 DEF Word
    <3> QED
      BY <1>1, <1>3, <1>4, <2>2, <3>1, <3>2 DEF Word
  <2>3. CASE q \in kids(p)
    <3>1. pc'[q] \in Waits /\ pc'[q] \notin Before /\ pc'[q] \notin Clears /\ q # p
      BY <1>3, <1>10, <2>3, Points
    <3>2. In(q)' = In(q)
      BY <1>15, <3>1
    <3>3. In(q) = kids(q) /\ psync[q][0] = Cardinality(kids(q)) + 0
          /\ \A s \in Slots \ {0} : psync[q][s] = 0
      BY <1>10, <2>1, <2>3 DEF Word
    <3>4. ack_of(q)' \in net'
      BY <1>10, <2>3
    <3> QED
      BY <1>1, <2>1, <3>1, <3>2, <3>3, <3>4 DEF Word
  <2>4. CASE q # p /\ q \notin kids(p)
    <3>1. pc[q] \in Waits => q # Root
      BY DEF LabelInv, Label
    <3>2. In(q)' = In(q) /\ pc'[q] = pc[q] /\ (Released(q)' <=> Released(q))
          /\ (pc[q] \in Waits => (ack_of(q)' \in net' <=> ack_of(q) \in net))
          /\ (clr_of(q)' \in net' <=> clr_of(q) \in net)
      BY <1>3, <1>12, <1>13, <1>15, <2>4, <3>1
    <3> QED
      BY <1>1, <2>1, <3>2 DEF Word
  <2> QED
    BY <2>2, <2>3, <2>4
<1>17. ASSUME NEW q \in PEs \ {Root} PROVE Edge(q)'
  <2>1. Edge(q) /\ par(q) \in PEs
    BY TreeStateFacts DEF EdgeInv
  <2>2. CASE q = p
    BY <1>1, <1>3, <1>4, <1>8, <1>9, <2>2 DEF Edge
  <2>3. CASE q \in kids(p)
    BY <1>10, <2>3 DEF Edge
  <2>4. CASE q # p /\ q \notin kids(p)
    <3>1. par(q) # p
      BY <2>4, TreeStateFacts
    <3> QED
      BY <1>1, <1>3, <1>12, <2>1, <2>4, <3>1 DEF Edge
  <2> QED
    BY <2>2, <2>3, <2>4
<1>18. ASSUME NEW m \in net', m.kind # "data" PROVE Flight(m)'
  <2>1. CASE m \notin net
    <3>1. PICK c \in kids(p) : m = ack(c)
      BY <2>1 DEF ack
    <3>2. m.dst = c /\ c # Root
      BY <1>10, <3>1 DEF ack
    <3> QED
      BY <1>1, <1>10, <3>1, <3>2 DEF Flight
  <2>2. CASE m \in net
    <3>1. Flight(m) /\ m.src \in PEs /\ m.dst \in PEs
      BY <1>18, <2>2, TreeStateFacts DEF FlightInv, Msgs
    <3>2. CASE m.src # Root /\ m = call_of(m.src) /\ CalledIn(m.src)
      <4>1. m.src # p /\ m.src \notin kids(p)
        BY <1>10, <1>11, <2>2, <3>2
      <4> QED
        BY <1>1, <1>12, <1>13, <3>1, <3>2, <4>1 DEF Flight
    <3>3. CASE m.dst # Root /\ m = ack_of(m.dst) /\ Released(m.dst)
      <4>1. m.dst # p /\ m.dst \notin kids(p)
        BY <1>10, <1>11, <3>3
      <4> QED
        BY <1>1, <1>12, <3>1, <3>3, <4>1 DEF Flight
    <3>4. CASE m = clr_of(m.src) /\ pc[m.src] \in Clears
      <4>1. m.src # p
        BY <1>7, <2>2, <3>4
      <4> QED
        BY <1>3, <1>13, <3>1, <3>4, <4>1 DEF Flight
    <3> QED
      BY <3>1, <3>2, <3>3, <3>4 DEF Flight
  <2> QED
    BY <2>1, <2>2
<1>19. ASSUME NEW q \in PEs PROVE Label(q)'
  <2>1. Label(q)
    BY DEF LabelInv
  <2> QED
    BY <1>1, <1>3, <1>4, <2>1 DEF Label
<1>20. (iter = [q \in PEs |-> 0])'
  BY <1>1
<1> QED
  BY <1>1, <1>5, <1>6, <1>9, <1>16, <1>17, <1>18, <1>19, <1>20
     DEF LabelInv, EdgeInv, FlightInv, WordInv

(* Only pSync words and messages change: the rest of the invariant stays. *)
LEMMA TreeQuietStep ==
  ASSUME TreeState, UNCHANGED <<job, pc, entered, left, iter>>,
         \A m \in net' : m.kind # "data" => m \in net
  PROVE  /\ LabelInv' /\ EdgeInv' /\ FlightInv' /\ (iter = [p \in PEs |-> 0])'
         /\ \A p : /\ (CalledIn(p)' <=> CalledIn(p)) /\ (Released(p)' <=> Released(p))
                   /\ call_of(p)' = call_of(p) /\ ack_of(p)' = ack_of(p)
                   /\ clr_of(p)' = clr_of(p)
<1> USE DEF TreeState, TreeInv
<1>1. /\ PEs' = PEs /\ Root' = Root /\ \A q : par(q)' = par(q) /\ kids(q)' = kids(q)
  BY JobSame
<1>2. \A q : /\ call_of(q)' = call_of(q) /\ ack_of(q)' = ack_of(q) /\ clr_of(q)' = clr_of(q)
  BY SameMessages
<1>3. \A q : (CalledIn(q)' <=> CalledIn(q)) /\ (Released(q)' <=> Released(q))
  BY <1>1 DEF CalledIn, Released
<1>4. LabelInv'
  BY <1>1 DEF LabelInv, Label
<1>5. EdgeInv'
  BY <1>1, <1>3 DEF EdgeInv, Edge
<1>6. ASSUME NEW m \in net', m.kind # "data" PROVE Flight(m)'
  <2>1. Flight(m)
    BY <1>6 DEF FlightInv
  <2> QED
    BY <1>1, <1>2, <1>3, <2>1 DEF Flight
<1>7. (iter = [p \in PEs |-> 0])'
  BY <1>1
<1> QED
  BY <1>2, <1>3, <1>4, <1>5, <1>6, <1>7 DEF FlightInv

(* Puts of client data are none of the barrier's messages. *)
LEMMA TreeData ==
  ASSUME TreeState, UNCHANGED <<job, psync, pc, entered, left, iter>>,
         \A m : m.kind # "data" => (m \in net' <=> m \in net)
  PROVE  TreeInv'
<1>1. /\ LabelInv' /\ EdgeInv' /\ FlightInv' /\ (iter = [p \in PEs |-> 0])'
      /\ \A p : /\ (CalledIn(p)' <=> CalledIn(p)) /\ (Released(p)' <=> Released(p))
                /\ call_of(p)' = call_of(p) /\ ack_of(p)' = ack_of(p)
                /\ clr_of(p)' = clr_of(p)
  BY TreeQuietStep
<1>2. PEs' = PEs /\ Root' = Root /\ Slots' = Slots /\ \A q : kids(q)' = kids(q)
  BY JobSame DEF Slots
<1>3. \A p \in PEs : /\ (call_of(p) \in net' <=> call_of(p) \in net)
                    /\ (ack_of(p) \in net' <=> ack_of(p) \in net)
                    /\ (clr_of(p) \in net' <=> clr_of(p) \in net)
  BY Distinct
<1>4. ASSUME NEW p \in PEs PROVE In(p)' = In(p)
  <2>1. kids(p) \subseteq PEs
    BY TreeStateFacts
  <2> QED
    BY <1>1, <1>2, <1>3, <2>1 DEF In
<1>5. ASSUME NEW p \in PEs PROVE Word(p)'
  <2>1. Word(p)
    BY DEF TreeState, TreeInv, WordInv
  <2> QED
    BY <1>1, <1>2, <1>3, <1>4, <2>1 DEF Word
<1> QED
  BY <1>1, <1>2, <1>5 DEF TreeInv, WordInv

(* An operation arrives: a callin is counted, an acknowledgement is counted on top *)
(* or put, a clear clears.                                                         *)
LEMMA TreeDeliver ==
  ASSUME TreeState, NEW m \in net, m.kind \in {"put", "sum"}, net' = net \ {m},
         psync' = [psync EXCEPT ![m.dst][m.slot] = IF m.kind = "put" THEN m.val ELSE @ + m.val],
         UNCHANGED <<job, pc, entered, left, iter>>
  PROVE  TreeInv'
<1>1. /\ LabelInv' /\ EdgeInv' /\ FlightInv' /\ (iter = [p \in PEs |-> 0])'
      /\ \A p : /\ (CalledIn(p)' <=> CalledIn(p)) /\ (Released(p)' <=> Released(p))
                /\ call_of(p)' = call_of(p) /\ ack_of(p)' = ack_of(p)
                /\ clr_of(p)' = clr_of(p)
  BY TreeQuietStep
<1>2. PEs' = PEs /\ Root' = Root /\ Slots' = Slots /\ \A q : kids(q)' = kids(q)
  BY JobSame DEF Slots
<1>3. Flight(m) /\ m.src \in PEs /\ m.dst \in PEs /\ m.slot \in Slots /\ m.val \in Int
  BY TreeStateFacts DEF TreeState, TreeInv, FlightInv, Msgs
<1>4. /\ psync \in [PEs -> [Slots -> Int]] /\ psync' \in [PEs -> [Slots -> Int]]
      /\ \A p \in PEs \ {m.dst} : psync'[p] = psync[p]
      /\ \A s \in Slots \ {m.slot} : psync'[m.dst][s] = psync[m.dst][s]
      /\ psync'[m.dst][m.slot] = IF m.kind = "put" THEN m.val ELSE psync[m.dst][m.slot] + m.val
  BY <1>3 DEF TreeState, CallInv
<1>5. \A p \in PEs : kids(p) \subseteq PEs \ {Root}
  BY TreeStateFacts
<1>6. \A p \in PEs : Word(p) /\ Label(p) /\ (p # Root => Edge(p))
  BY DEF TreeState, TreeInv, WordInv, LabelInv, EdgeInv
<1>7. CASE m.src # Root /\ m = call_of(m.src) /\ CalledIn(m.src)
  <2> PICK q \in PEs \ {Root} : q = m.src
    BY <1>3, <1>7
  <2> PICK r \in PEs : r = par(q)
    BY TreeStateFacts
  <2>1. m.dst = r /\ m.slot = 0 /\ m.val = 1 /\ m.kind = "sum"
    <3>1. call_of(q).dst = r /\ call_of(q).slot = 0 /\ call_of(q).val = 1 /\ call_of(q).kind = "sum"
      BY DEF call_of
    <3> QED
      BY <1>7, <3>1
  <2>2. q \in kids(r) /\ r \in PEs /\ q \in PEs \ {Root}
    BY <1>3, <1>7, TreeStateFacts
  <2>3. \A p \in PEs : /\ (p # q => (call_of(p) \in net' <=> call_of(p) \in net))
                      /\ (p # Root => (ack_of(p) \in net' <=> ack_of(p) \in net))
                      /\ (clr_of(p) \in net' <=> clr_of(p) \in net)
    <3>1. m = call_of(q)
      BY <1>7
    <3> QED
      BY <2>2, <3>1, Distinct
  <2>4. q \notin In(r) /\ CalledIn(q) /\ call_of(q) \notin net'
    BY <1>7 DEF In
  <2>5. pc[r] \in Before /\ pc[r] \notin Waits /\ pc[r] \notin Clears
    <3>1. pc[r] \in Before \cup Waits \cup Clears
      BY <2>2, TreeStateFacts
    <3> QED
      BY <1>6, <2>2, <2>4, <3>1, Points DEF Word
  <2>6. In(r)' = In(r) \cup {q}
    BY <1>1, <1>2, <1>5, <2>2, <2>3, <2>4 DEF In
  <2>7. Cardinality(In(r)') = Cardinality(In(r)) + 1
    <3>1. IsFiniteSet(In(r))
      BY <2>2, TreeStateFacts
    <3>2. Cardinality(In(r) \cup {q}) = Cardinality(In(r)) + 1
      BY <2>4, <3>1, FS_AddElement
    <3> HIDE DEF In
    <3> QED
      BY <2>6, <3>2
  <2>8. Word(r)'
    BY <1>2, <1>4, <1>6, <2>1, <2>2, <2>5, <2>7 DEF Word
  <2>9. ASSUME NEW p \in PEs, p # r PROVE Word(p)'
    <3>1. q \notin kids(p)
      BY <2>2, <2>9, TreeStateFacts
    <3>2. In(p)' = In(p)
      BY <1>1, <1>2, <1>5, <2>3, <3>1 DEF In
    <3>3. pc[p] \in Waits => p # Root
      BY <1>6 DEF Label
    <3>4. psync'[p] = psync[p] /\ Word(p)
      BY <1>4, <1>6, <2>1, <2>9
    <3> QED
      BY <1>1, <1>2, <2>3, <3>2, <3>3, <3>4 DEF Word
  <2> QED
    BY <1>1, <1>2, <2>8, <2>9 DEF TreeInv, WordInv
<1>8. CASE m.dst # Root /\ m = ack_of(m.dst) /\ Released(m.dst)
  <2> DEFINE q == m.dst
  <2>1. q \in PEs \ {Root} /\ m.slot = 0 /\ m.val = 1
        /\ m.kind = (IF algorithm = "linear" THEN "put" ELSE "sum")
    <3>1. ack_of(q).slot = 0 /\ ack_of(q).val = 1
          /\ ack_of(q).kind = (IF algorithm = "linear" THEN "put" ELSE "sum")
      BY DEF ack_of
    <3> QED
      BY <1>3, <1>8, <3>1
  <2>2. m = ack_of(q) /\ Released(q)
    BY <1>8
  <2>3. m.dst = q
    OBVIOUS
  <2> HIDE DEF q
  <2>4. \A p \in PEs : /\ (p # Root => (call_of(p) \in net' <=> call_of(p) \in net))
                      /\ (p # q => (ack_of(p) \in net' <=> ack_of(p) \in net))
                      /\ (clr_of(p) \in net' <=> clr_of(p) \in net)
    BY <2>1, <2>2, Distinct
  <2>5. ASSUME NEW p \in PEs PROVE In(p)' = In(p)
    BY <1>1, <1>2, <1>5, <2>4 DEF In
  <2>6. pc[q] \in Waits /\ pc[q] \notin Before /\ pc[q] \notin Clears
    BY <2>2, Points DEF Released
  <2>7. In(q) = kids(q) /\ psync[q][0] = Cardinality(kids(q)) + 0 /\ ack_of(q) \notin net'
        /\ \A s \in Slots \ {0} : psync[q][s] = 0
    BY <1>6, <2>1, <2>2, <2>6 DEF Word
  <2>8. psync'[q][0] = Cardinality(kids(q)) + 1
    <3>1. Cardinality(kids(q)) \in Nat
      BY <2>1, TreeStateFacts
    <3>2. algorithm = "linear" => kids(q) = {} /\ Cardinality(kids(q)) = 0
      BY <2>1, FS_EmptySet DEF kids
    <3> QED
      BY <1>4, <2>1, <2>3, <2>7, <3>1, <3>2
  <2>9. Word(q)'
    <3>1. In(q)' = kids(q)' /\ Released(q)' /\ ack_of(q)' \notin net'
      BY <1>1, <1>2, <2>1, <2>2, <2>5, <2>7
    <3> QED
      BY <1>2, <1>4, <2>1, <2>3, <2>6, <2>7, <2>8, <3>1 DEF Word
  <2>10. ASSUME NEW p \in PEs, p # q PROVE Word(p)'
    <3>1. psync'[p] = psync[p] /\ Word(p)
      BY <1>4, <1>6, <2>3, <2>10
    <3> QED
      BY <1>1, <1>2, <2>4, <2>5, <2>10, <3>1 DEF Word
  <2> QED
    BY <1>1, <1>2, <2>9, <2>10 DEF TreeInv, WordInv
<1>9. CASE m = clr_of(m.src) /\ pc[m.src] \in Clears
  <2> DEFINE q == m.src
  <2>1. q \in PEs /\ m.dst = q /\ m.slot = 0 /\ m.val = 0 /\ m.kind = "put"
    <3>1. clr_of(q).slot = 0 /\ clr_of(q).val = 0 /\ clr_of(q).kind = "put" /\ clr_of(q).dst = q
      BY DEF clr_of
    <3> QED
      BY <1>3, <1>9, <3>1
  <2>2. m = clr_of(q) /\ pc[q] \in Clears /\ pc[q] \notin Before /\ pc[q] \notin Waits
    BY <1>9, Points
  <2> HIDE DEF q
  <2>3. \A p \in PEs : /\ (call_of(p) \in net' <=> call_of(p) \in net)
                      /\ (ack_of(p) \in net' <=> ack_of(p) \in net)
                      /\ (p # q => (clr_of(p) \in net' <=> clr_of(p) \in net))
    BY <2>1, <2>2, Distinct
  <2>4. ASSUME NEW p \in PEs PROVE In(p)' = In(p)
    BY <1>1, <1>2, <1>5, <2>3 DEF In
  <2>5. Word(q)'
    <3>1. clr_of(q)' \notin net'
      BY <1>1, <2>2
    <3> QED
      BY <1>2, <1>4, <1>6, <2>1, <2>2, <2>4, <3>1 DEF Word
  <2>6. ASSUME NEW p \in PEs, p # q PROVE Word(p)'
    <3>1. psync'[p] = psync[p] /\ Word(p)
      BY <1>4, <1>6, <2>1, <2>6
    <3> QED
      BY <1>1, <1>2, <2>3, <2>4, <2>6, <3>1 DEF Word
  <2> QED
    BY <1>1, <1>2, <2>5, <2>6 DEF TreeInv, WordInv
<1> QED
  BY <1>3, <1>7, <1>8, <1>9 DEF Flight

(* Once the root has heard from its children, everybody has called in. *)
LEMMA AllCalledIn ==
  ASSUME TreeState, pc[Root] \in Clears
  PROVE  \A q \in PEs \ {Root} : pc[q] \in Waits /\ left[q] = left[Root]
<1> DEFINE good(q) == pc[q] \in Waits /\ left[q] = left[Root]
           Bad == {q \in PEs \ {Root} : ~ good(q)}
<1>1. /\ Root \in PEs /\ PEs \subseteq Nat
      /\ \A q \in PEs \ {Root} : par(q) \in PEs /\ par(q) < q /\ q \in kids(par(q))
  BY TreeStateFacts
<1>2. SUFFICES ASSUME Bad # {} PROVE FALSE
  OBVIOUS
<1>3. PICK q \in Bad : \A x \in Bad : q <= x
  BY <1>1, <1>2, LeastNumber
<1>4. par(q) = Root \/ good(par(q))
  <2>1. q \in PEs \ {Root} /\ q \in Nat /\ par(q) \in PEs /\ par(q) \in Nat /\ par(q) < q
    BY <1>1
  <2>2. par(q) \notin Bad
    BY <1>3, <2>1
  <2> QED
    BY <2>1, <2>2
<1>5. pc[par(q)] \in Waits \cup Clears /\ left[par(q)] = left[Root]
  BY <1>4
<1>6. q \in In(par(q))
  <2>1. Word(par(q))
    BY <1>1 DEF TreeState, TreeInv, WordInv
  <2> QED
    BY <1>1, <1>5, <2>1 DEF Word
<1> QED
  BY <1>5, <1>6 DEF In, CalledIn

(* So nobody leaves a call before everybody has entered it: another PE than the    *)
(* root leaves after its parent, the root when everybody has called in.            *)
LEMMA TreeSafe ==
  ASSUME TreeState, NEW p \in PEs, pc[p] \in Clears,
         p # Root => left[par(p)] = left[p] + 1, entered[p] = left[p] + 1
  PROVE  \A q \in PEs : left[p] + 1 <= entered[q]
<1>1. CASE p # Root
  <2>1. par(p) \in PEs
    BY <1>1, TreeStateFacts
  <2> QED
    BY <1>1, <2>1 DEF TreeState, SafeInv
<1>2. CASE p = Root
  <2>1. \A q \in PEs \ {Root} : pc[q] \in Waits /\ left[q] = left[Root]
    BY <1>2, AllCalledIn
  <2>2. \A q \in PEs : entered[q] = IF pc[q] = "out" THEN left[q] ELSE left[q] + 1
    BY DEF TreeState, CallInv
  <2>3. "out" \notin Waits
    BY DEF Waits
  <2>4. \A q \in PEs : left[q] \in Nat
    BY TreeStateFacts
  <2> QED
    BY <1>2, <2>1, <2>2, <2>3, <2>4
<1> QED
  BY <1>1, <1>2

-----------------------------------------------------------------------------
(* What the steps of all three algorithms are to the calls: a step inside the call, *)
(* which issues no data, or the return from it once everybody has entered it.       *)

Issues ==
  net' \subseteq Msgs /\ \A m \in net' : m.kind = "data" => m \in net

(* p goes on within its call. *)
Moves(p) ==
  /\ pc[p] # "out"
  /\ \E l \in Labels \ {"out"} : pc' = [pc EXCEPT ![p] = l]
  /\ UNCHANGED <<job, psync, entered, left>>
  /\ Issues

(* p leaves its call, which everybody has entered. *)
Leaves(p) ==
  /\ pc[p] # "out"
  /\ \A q \in PEs : left[p] + 1 <= entered[q]
  /\ leave(p)
  /\ UNCHANGED <<job, psync, entered>>
  /\ Issues

(* The steps of the linear barrier. *)
LEMMA LinearStep ==
  ASSUME TreeState, algorithm = "linear", NEW p \in PEs, sync_linear(p), UNCHANGED iter
  PROVE  TreeInv' /\ (Moves(p) \/ Leaves(p))
<1> USE DEF Goto, leave
<1>1. /\ Root \in PEs /\ 0 \in Slots /\ Slots \subseteq Nat /\ PE_size \in Nat \ {0, 1}
      /\ IsFiniteSet(PEs) /\ Cardinality(PEs) = PE_size
  BY JobFacts DEF TreeState, CallInv, Treelike
<1>2. /\ Labels = {"out"} \cup linear_labels
      /\ \A q : par(q) = Root /\ kids(q) = IF q = Root THEN PEs \ {Root} ELSE {}
  BY <1>1 DEF Labels, par, kids
<1>3. Cardinality(kids(Root)) = PE_size - 1 /\ Cardinality({}) = 0
  BY <1>1, <1>2, FS_RemoveElement, FS_EmptySet
<1>4. /\ entered[p] \in Nat /\ Label(p) /\ pc \in [PEs -> Labels]
      /\ PEs' = PEs /\ Root' = Root /\ kids(p)' = kids(p)
  <2>1. UNCHANGED job
    BY DEF sync_linear, root_wait, root_acks, send, ack_wait, ack_clear
  <2> QED
    BY <2>1, JobSame, TreeStateFacts DEF TreeState, CallInv, TreeInv, LabelInv
<1>5. CallInv
  BY DEF TreeState
<1>6. \A v \in {0, 1}, q \in PEs : put(p, 0, v, q) \in Msgs /\ put(p, 0, v, q).kind # "data"
  BY <1>1, <1>4 DEF put, Msgs
<1>7. atomic_sum(p, 0, 1, Root) \in Msgs /\ atomic_sum(p, 0, 1, Root).kind # "data"
  BY <1>1, <1>4 DEF atomic_sum, Msgs
<1>8. CASE root_wait(p)
  <2>1. p = Root
    BY <1>4, <1>8 DEF root_wait, Label
  <2>2. put(p, 0, 0, p) = clr_of(p)
    BY DEF put, clr_of
  <2>3. Label(p)'
    BY <1>4, <1>8, <2>1 DEF Label, root_wait, Waits
  <2>4. TreeInv'
    <3>1. "root_clear" \in Clears /\ pc[p] \in Before /\ psync[p][0] = Cardinality(kids(p))
      BY <1>3, <1>8, <2>1 DEF Clears, Before, root_wait
    <3> QED
      BY <1>8, <2>1, <2>2, <2>3, <3>1, TreeClear DEF root_wait
  <2>5. Issues
    BY <1>5, <1>6, <1>8 DEF Issues, CallInv, root_wait
  <2> QED
    BY <1>2, <1>8, <2>4, <2>5 DEF Moves, root_wait, linear_labels
<1>9. CASE root_acks(p)
  <2>1. p = Root
    BY <1>4, <1>9 DEF root_acks, Label
  <2>2. {put(p, 0, 1, PE(i)) : i \in 1 .. PE_size - 1} = {put(p, 0, 1, c) : c \in kids(p)}
    <3>1. PEs = {PE(i) : i \in 0 .. PE_size - 1}
      BY DEF PEs
    <3>2. PE(0) = Root /\ \A i \in 1 .. PE_size - 1 : PE(i) # Root
      <4>1. PE_start \in Nat /\ PE_stride \in Nat \ {0}
        BY <1>5, JobFacts DEF CallInv
      <4>2. \A i \in 1 .. PE_size - 1 : i * PE_stride # 0 /\ i * PE_stride \in Nat
        BY <1>1, <4>1
      <4> QED
        BY <4>1, <4>2 DEF PE, Root
    <3>3. kids(p) = {PE(i) : i \in 1 .. PE_size - 1}
      BY <1>1, <1>2, <2>1, <3>1, <3>2
    <3> QED
      BY <3>3
  <2>4. pc[p] \in Clears
    BY <1>9 DEF Clears, root_acks
  <2>5. TreeInv' /\ (p # Root => left[par(p)] = left[p] + 1) /\ entered[p] = left[p] + 1
    <3>1. net' = net \cup {[kind |-> IF algorithm = "linear" THEN "put" ELSE "sum",
                            src |-> p, dst |-> c, slot |-> 0, val |-> 1,
                            call |-> entered[p]] : c \in kids(p)}
      BY <1>9, <2>2 DEF root_acks, put
    <3> QED
      BY <1>9, <2>4, <3>1, TreeRelease DEF root_acks
  <2>6. Issues
    <3>1. kids(p) \subseteq PEs
      BY <1>2
    <3> QED
      BY <1>5, <1>6, <1>9, <2>2, <3>1 DEF Issues, CallInv, root_acks
  <2> QED
    BY <1>9, <2>4, <2>5, <2>6, TreeSafe DEF Leaves, root_acks
<1>10. CASE send(p)
  <2>1. p \in PEs \ {Root}
    BY <1>4, <1>10 DEF send, Label
  <2>2. atomic_sum(p, 0, 1, Root) = call_of(p)
    BY <1>2 DEF atomic_sum, call_of
  <2>3. Label(p)'
    BY <1>4, <1>10, <2>1 DEF Label, send, Waits
  <2>4. TreeInv'
    <3>1. "ack_wait" \in Waits /\ pc[p] \in Before /\ kids(p) = {}
      BY <1>2, <1>10, <2>1 DEF Waits, Before, send
    <3> QED
      BY <1>10, <2>1, <2>2, <2>3, <3>1, TreeCallIn DEF send
  <2>5. Issues
    BY <1>5, <1>7, <1>10 DEF Issues, CallInv, send
  <2> QED
    BY <1>2, <1>10, <2>4, <2>5 DEF Moves, send, linear_labels
<1>11. CASE ack_wait(p)
  <2>1. p # Root
    BY <1>4, <1>11 DEF ack_wait, Label, Waits
  <2>2. put(p, 0, 0, p) = clr_of(p)
    BY DEF put, clr_of
  <2>3. Label(p)'
    BY <1>4, <1>11, <2>1 DEF Label, ack_wait, Waits
  <2>4. TreeInv'
    <3>1. "ack_clear" \in Clears /\ pc[p] \in Waits /\ psync[p][0] # Cardinality(kids(p))
      BY <1>2, <1>3, <1>11, <2>1 DEF Clears, Waits, ack_wait
    <3> QED
      BY <1>11, <2>1, <2>2, <2>3, <3>1, TreeClear DEF ack_wait
  <2>5. Issues
    BY <1>5, <1>6, <1>11 DEF Issues, CallInv, ack_wait
  <2> QED
    BY <1>2, <1>11, <2>4, <2>5 DEF Moves, ack_wait, linear_labels
<1>12. CASE ack_clear(p)
  <2>1. p # Root /\ kids(p) = {}
    BY <1>2, <1>4, <1>12 DEF ack_clear, Label
  <2>2. net' = net \cup {[kind |-> IF algorithm = "linear" THEN "put" ELSE "sum",
                           src |-> p, dst |-> c, slot |-> 0, val |-> 1,
                           call |-> entered[p]] : c \in kids(p)}
    BY <1>12, <2>1 DEF ack_clear
  <2>3. pc[p] \in Clears
    BY <1>12 DEF Clears, ack_clear
  <2>4. TreeInv' /\ (p # Root => left[par(p)] = left[p] + 1) /\ entered[p] = left[p] + 1
    BY <1>12, <2>2, <2>3, TreeRelease DEF ack_clear
  <2>5. Issues
    BY <1>5, <1>12 DEF Issues, ack_clear, CallInv
  <2> QED
    BY <1>12, <2>3, <2>4, <2>5, TreeSafe DEF Leaves, ack_clear
<1> QED
  BY <1>8, <1>9, <1>10, <1>11, <1>12 DEF sync_linear

(* The steps of the tree barrier. *)
LEMMA TreeStep ==
  ASSUME TreeState, algorithm = "tree", NEW p \in PEs, sync_tree(p), UNCHANGED iter
  PROVE  TreeInv' /\ (Moves(p) \/ Leaves(p))
<1> USE DEF Goto, leave
<1>1. Root \in PEs /\ 0 \in Slots /\ Slots \subseteq Nat /\ PE_size \in Nat \ {0, 1}
  BY JobFacts DEF TreeState, CallInv, Treelike
<1>2. /\ Labels = {"out"} \cup tree_labels
      /\ \A q : par(q) = parent(q) /\ kids(q) = children(q)
  BY <1>1 DEF Labels, par, kids
<1>3. parent(p) = p <=> p = Root
  <2>1. par(Root) = Root /\ (p # Root => par(p) < p) /\ p \in Nat
    BY TreeFacts, TreeStateFacts DEF TreeState, CallInv
  <2> QED
    BY <1>2, <2>1
<1>4. /\ entered[p] \in Nat /\ Label(p) /\ pc \in [PEs -> Labels]
      /\ PEs' = PEs /\ Root' = Root /\ kids(p)' = kids(p)
  <2>1. UNCHANGED job
    BY DEF sync_tree, root_callins, middle_callins, middle_ack, leaf_send, leaf_ack, acks
  <2> QED
    BY <2>1, JobSame, TreeStateFacts DEF TreeState, CallInv, TreeInv, LabelInv
<1>5. CallInv
  BY DEF TreeState
<1>6. /\ put(p, 0, 0, p) = clr_of(p) /\ clr_of(p) \in Msgs /\ clr_of(p).kind # "data"
      /\ atomic_sum(p, 0, 1, parent(p)) = call_of(p)
      /\ p # Root => call_of(p) \in Msgs /\ call_of(p).kind # "data"
  <2>1. p # Root => par(p) \in PEs
    BY TreeStateFacts
  <2> QED
    BY <1>1, <1>2, <1>4, <2>1 DEF put, clr_of, atomic_sum, call_of, Msgs
<1>7. \A q \in PEs : atomic_sum(p, 0, 1, q) \in Msgs /\ atomic_sum(p, 0, 1, q).kind # "data"
  BY <1>1, <1>4 DEF atomic_sum, Msgs
<1>8. Cardinality(kids(p)) \in Nat /\ num_children(p) = Cardinality(kids(p))
      /\ (kids(p) = {} => Cardinality(kids(p)) = 0)
  BY <1>2, TreeStateFacts, FS_EmptySet DEF num_children
<1>9. CASE root_callins(p)
  <2>1. p = Root /\ kids(p) # {}
    BY <1>3, <1>4, <1>9 DEF root_callins, Label
  <2>2. Label(p)'
    BY <1>4, <1>9, <2>1 DEF Label, root_callins, Waits
  <2>3. "clear" \in Clears /\ pc[p] \in Before /\ psync[p][0] = Cardinality(kids(p))
    BY <1>8, <1>9 DEF Clears, Before, root_callins
  <2>4. TreeInv'
    BY <1>6, <1>9, <2>1, <2>2, <2>3, TreeClear DEF root_callins
  <2>5. Issues
    BY <1>5, <1>6, <1>9 DEF Issues, CallInv, root_callins
  <2> QED
    BY <1>2, <1>9, <2>4, <2>5 DEF Moves, root_callins, tree_labels
<1>10. CASE middle_callins(p)
  <2>1. p \in PEs \ {Root} /\ kids(p) # {}
    BY <1>3, <1>4, <1>10 DEF middle_callins, Label
  <2>2. Label(p)'
    BY <1>4, <1>10, <2>1 DEF Label, middle_callins, Waits
  <2>3. "middle_ack" \in Waits /\ pc[p] \in Before /\ psync[p][0] = Cardinality(kids(p))
    BY <1>8, <1>10 DEF Waits, Before, middle_callins
  <2>4. TreeInv'
    BY <1>6, <1>10, <2>1, <2>2, <2>3, TreeCallIn DEF middle_callins
  <2>5. Issues
    BY <1>5, <1>6, <1>10, <2>1 DEF Issues, CallInv, middle_callins
  <2> QED
    BY <1>2, <1>10, <2>4, <2>5 DEF Moves, middle_callins, tree_labels
<1>11. CASE middle_ack(p)
  <2>1. p # Root /\ pc[p] \in Waits
    BY <1>4, <1>11 DEF middle_ack, Label, Waits
  <2>2. Label(p)'
    BY <1>4, <1>11, <2>1 DEF Label, middle_ack, Waits
  <2>3. "clear" \in Clears /\ psync[p][0] # Cardinality(kids(p))
    BY <1>8, <1>11 DEF Clears, middle_ack
  <2>4. TreeInv'
    BY <1>6, <1>11, <2>1, <2>2, <2>3, TreeClear DEF middle_ack
  <2>5. Issues
    BY <1>5, <1>6, <1>11 DEF Issues, CallInv, middle_ack
  <2> QED
    BY <1>2, <1>11, <2>4, <2>5 DEF Moves, middle_ack, tree_labels
<1>12. CASE leaf_send(p)
  <2>1. p \in PEs \ {Root} /\ kids(p) = {}
    BY <1>4, <1>12 DEF leaf_send, Label
  <2>2. Label(p)'
    BY <1>4, <1>12, <2>1 DEF Label, leaf_send, Waits
  <2>3. "leaf_ack" \in Waits /\ pc[p] \in Before
    BY <1>12 DEF Waits, Before, leaf_send
  <2>4. TreeInv'
    BY <1>6, <1>12, <2>1, <2>2, <2>3, TreeCallIn DEF leaf_send
  <2>5. Issues
    BY <1>5, <1>6, <1>12, <2>1 DEF Issues, CallInv, leaf_send
  <2> QED
    BY <1>2, <1>12, <2>4, <2>5 DEF Moves, leaf_send, tree_labels
<1>13. CASE leaf_ack(p)
  <2>1. p # Root /\ pc[p] \in Waits /\ kids(p) = {}
    BY <1>4, <1>13 DEF leaf_ack, Label, Waits
  <2>2. Label(p)'
    BY <1>4, <1>13, <2>1 DEF Label, leaf_ack, Waits
  <2>3. "clear" \in Clears /\ psync[p][0] # Cardinality(kids(p))
    BY <1>8, <1>13, <2>1 DEF Clears, leaf_ack
  <2>4. TreeInv'
    BY <1>6, <1>13, <2>1, <2>2, <2>3, TreeClear DEF leaf_ack
  <2>5. Issues
    BY <1>5, <1>6, <1>13 DEF Issues, CallInv, leaf_ack
  <2> QED
    BY <1>2, <1>13, <2>4, <2>5 DEF Moves, leaf_ack, tree_labels
<1>14. CASE acks(p)
  <2>1. pc[p] \in Clears
    BY <1>14 DEF Clears, acks
  <2>2. net' = net \cup {[kind |-> IF algorithm = "linear" THEN "put" ELSE "sum",
                           src |-> p, dst |-> c, slot |-> 0, val |-> 1,
                           call |-> entered[p]] : c \in kids(p)}
    BY <1>2, <1>14 DEF acks, atomic_sum
  <2>3. TreeInv' /\ (p # Root => left[par(p)] = left[p] + 1) /\ entered[p] = left[p] + 1
    BY <1>14, <2>1, <2>2, TreeRelease DEF acks
  <2>4. Issues
    <3>1. children(p) \subseteq PEs
      BY <1>2, TreeStateFacts
    <3> QED
      BY <1>5, <1>7, <1>14, <3>1 DEF Issues, CallInv, acks
  <2> QED
    BY <1>14, <2>1, <2>3, <2>4, TreeSafe DEF Leaves, acks
<1> QED
  BY <1>9, <1>10, <1>11, <1>12, <1>13, <1>14 DEF sync_tree

-----------------------------------------------------------------------------
(* What every step does to the calls and to the client's data. *)

Called == CallInv /\ SafeInv /\ DataInv

(* The numbers of calls are numbers. *)
LEMMA CallNumbers ==
  ASSUME CallInv
  PROVE  /\ Len(Calls) \in Nat
         /\ \A p \in PEs : /\ entered[p] \in Nat /\ left[p] \in Nat
                           /\ entered[p] <= Len(Calls) /\ left[p] <= Len(Calls)
                           /\ left[p] <= entered[p]
                           /\ (pc[p] = "out" => entered[p] = left[p])
                           /\ (pc[p] # "out" => entered[p] = left[p] + 1)
<1>1. Len(Calls) \in Nat
  BY JobFacts DEF CallInv
<1> QED
  BY <1>1 DEF CallInv

(* A step inside a call. *)
LEMMA MovesCalled ==
  ASSUME Called, NEW p \in PEs, Moves(p), iter' \in [PEs -> Nat]
  PROVE  Called'
<1> USE DEF Called
<1>1. UNCHANGED <<job, psync, entered, left>> /\ Issues
  BY DEF Moves
<1>2. /\ PEs' = PEs /\ Calls' = Calls /\ Labels' = Labels /\ Msgs' = Msgs /\ Slots' = Slots
  BY <1>1, JobSame DEF Slots
<1>3. PICK l \in Labels \ {"out"} : pc' = [pc EXCEPT ![p] = l]
  BY DEF Moves
<1>4. pc[p] # "out"
  BY DEF Moves
<1>5. CallInv'
  <2>1. pc' \in [PEs -> Labels]
    BY <1>3 DEF CallInv
  <2>2. \A q \in PEs : pc'[q] = "out" <=> pc[q] = "out"
    BY <1>3, <1>4 DEF CallInv
  <2> QED
    BY <1>1, <1>2, <2>1, <2>2 DEF CallInv, Issues
<1>6. SafeInv'
  BY <1>1, <1>2 DEF SafeInv
<1>7. DataInv'
  BY <1>1, <1>2 DEF DataInv, Issues
<1> QED
  BY <1>5, <1>6, <1>7

(* The return from a call. *)
LEMMA LeavesCalled ==
  ASSUME Called, NEW p \in PEs, Leaves(p), iter' \in [PEs -> Nat]
  PROVE  Called'
<1> USE DEF Called
<1>1. /\ UNCHANGED <<job, psync, entered>> /\ Issues /\ pc[p] # "out"
      /\ pc' = [pc EXCEPT ![p] = "out"] /\ left' = [left EXCEPT ![p] = @ + 1]
      /\ \A q \in PEs : left[p] + 1 <= entered[q]
  BY DEF Leaves, leave, Goto
<1>2. /\ PEs' = PEs /\ Calls' = Calls /\ Labels' = Labels /\ Msgs' = Msgs /\ Slots' = Slots
  BY <1>1, JobSame DEF Slots
<1>3. entered[p] = left[p] + 1 /\ entered[p] \in 0 .. Len(Calls)
  BY <1>1, CallNumbers DEF CallInv
<1>4. /\ pc'[p] = "out" /\ left'[p] = left[p] + 1
      /\ \A q \in PEs \ {p} : pc'[q] = pc[q] /\ left'[q] = left[q]
  BY <1>1 DEF CallInv
<1>5. CallInv'
  <2>1. "out" \in Labels
    BY DEF Labels
  <2>2. pc' \in [PEs -> Labels] /\ left' \in [PEs -> 0 .. Len(Calls)]
    BY <1>1, <1>3, <2>1 DEF CallInv
  <2>3. \A q \in PEs : entered[q] = IF pc'[q] = "out" THEN left'[q] ELSE left'[q] + 1
    BY <1>3, <1>4 DEF CallInv
  <2> QED
    BY <1>1, <1>2, <2>2, <2>3 DEF CallInv, Issues
<1>6. SafeInv'
  BY <1>1, <1>2, <1>4 DEF SafeInv
<1>7. DataInv'
  BY <1>1, <1>2 DEF DataInv, Issues
<1> QED
  BY <1>5, <1>6, <1>7

(* A call starts at a program point of its algorithm. *)
LEMMA StartLabel ==
  ASSUME job \in Jobs, NEW p \in PEs
  PROVE  start(p) \in Labels \ {"out"}
<1>1. algorithm \in {"linear", "tree", "dissem"}
  BY JobFacts
<1>2. linear_start(p) \in linear_labels \ {"out"} /\ tree_start(p) \in tree_labels \ {"out"}
      /\ "signal" \in dissem_labels \ {"out"}
  BY DEF linear_start, linear_labels, tree_start, tree_labels, dissem_labels
<1>3. CASE PE_size = 1
  BY <1>3 DEF start, Labels
<1>4. CASE PE_size # 1
  BY <1>1, <1>2, <1>4 DEF start, Labels
<1> QED
  BY <1>3, <1>4

(* A PE enters its next call: if that is a barrier, none of its puts is on its way. *)
LEMMA EnterCalled ==
  ASSUME Called, NEW p \in PEs, barrier(p)
  PROVE  Called'
<1> USE DEF Called
<1>1. /\ UNCHANGED <<job, psync, net, left, iter>> /\ pc[p] = "out"
      /\ pc' = [pc EXCEPT ![p] = start(p)] /\ entered' = [entered EXCEPT ![p] = @ + 1]
      /\ left[p] < Len(Calls)
      /\ (Calls[left[p] + 1] = "barrier" => quiet(p))
  BY DEF barrier, enter, Goto
<1>2. /\ PEs' = PEs /\ Calls' = Calls /\ Labels' = Labels /\ Msgs' = Msgs /\ Slots' = Slots
  BY <1>1, JobSame DEF Slots
<1>3. entered[p] = left[p] /\ left[p] \in Nat /\ Len(Calls) \in Nat
  BY <1>1, CallNumbers
<1>4. start(p) \in Labels \ {"out"}
  BY StartLabel DEF CallInv
<1>5. /\ pc'[p] # "out" /\ entered'[p] = left[p] + 1
      /\ \A q \in PEs \ {p} : pc'[q] = pc[q] /\ entered'[q] = entered[q]
  BY <1>1, <1>3, <1>4 DEF CallInv
<1>6. CallInv'
  <2>1. pc' \in [PEs -> Labels] /\ entered' \in [PEs -> 0 .. Len(Calls)]
    <3>1. entered[p] + 1 \in 0 .. Len(Calls)
      BY <1>1, <1>3
    <3> QED
      BY <1>1, <1>4, <3>1 DEF CallInv
  <2>2. \A q \in PEs : entered'[q] = IF pc'[q] = "out" THEN left[q] ELSE left[q] + 1
    BY <1>5 DEF CallInv
  <2> QED
    BY <1>1, <1>2, <2>1, <2>2 DEF CallInv
<1>7. SafeInv'
  <2>1. \A q \in PEs : entered[q] \in Nat /\ left[q] \in Nat /\ entered'[q] \in Nat
                       /\ entered[q] <= entered'[q]
    BY <1>3, <1>5, CallNumbers
  <2> QED
    BY <1>1, <1>2, <2>1 DEF SafeInv
<1>8. DataInv'
  <2> SUFFICES ASSUME NEW m \in net, m.kind = "data",
                      NEW r \in m.call + 1 .. entered'[m.src], Calls[r] = "barrier"
               PROVE  FALSE
    BY <1>1, <1>2 DEF DataInv
  <2>1. m.src \in PEs /\ m.call \in Nat
    BY DEF CallInv, Msgs
  <2>2. r \notin m.call + 1 .. entered[m.src]
    BY DEF DataInv
  <2>3. m.src = p /\ r = left[p] + 1
    BY <1>3, <1>5, <2>1, <2>2
  <2> QED
    BY <1>1, <2>3 DEF quiet
<1> QED
  BY <1>6, <1>7, <1>8

(* The network completes an operation, or the client puts data. *)
LEMMA NetCalled ==
  ASSUME Called, UNCHANGED <<job, pc, entered, left, iter>>,
         psync' \in [PEs -> [Slots -> Int]], net' \subseteq Msgs,
         \A m \in net' : m.kind = "data" => m \in net \/ m.call = entered[m.src]
  PROVE  Called'
<1> USE DEF Called
<1>1. /\ PEs' = PEs /\ Calls' = Calls /\ Labels' = Labels /\ Msgs' = Msgs /\ Slots' = Slots
  BY JobSame DEF Slots
<1>2. CallInv'
  BY <1>1 DEF CallInv
<1>3. SafeInv'
  BY <1>1 DEF SafeInv
<1>4. DataInv'
  <2> SUFFICES ASSUME NEW m \in net', m.kind = "data",
                      NEW r \in m.call + 1 .. entered[m.src]
               PROVE  Calls[r] # "barrier"
    BY <1>1 DEF DataInv
  <2>1. m.src \in PEs /\ m.call \in Nat /\ entered[m.src] \in Nat
    BY CallNumbers DEF Msgs
  <2>2. m \in net
    BY <2>1
  <2> QED
    BY <2>2 DEF DataInv
<1> QED
  BY <1>2, <1>3, <1>4

-----------------------------------------------------------------------------
(* The distances of the dissemination barrier: shl doubles. *)

LEMMA ShlIs ==
  /\ shl \in [Nat -> Nat \ {0}] /\ shl[0] = 1
  /\ \A i \in Nat : shl[i + 1] = 2 * shl[i]
<1> DEFINE ok(f, m) == /\ f \in [0 .. m -> Nat \ {0}] /\ f[0] = 1
                       /\ \A i \in 1 .. m : f[i] = 2 * f[i - 1]
           Bad == {m \in Nat : ~ \E f : ok(f, m)}
<1>1. Bad = {}
  <2> SUFFICES ASSUME Bad # {} PROVE FALSE
    OBVIOUS
  <2>1. PICK m \in Bad : \A y \in Bad : m <= y
    <3> HIDE DEF Bad
    <3>1. Bad \subseteq Nat
      BY DEF Bad
    <3> QED
      BY <3>1, LeastNumber
  <2>2. m \in Nat
    OBVIOUS
  <2>3. CASE m = 0
    <3>1. ok([i \in 0 .. 0 |-> 1], 0)
      OBVIOUS
    <3> QED
      BY <2>3, <3>1
  <2>4. CASE m # 0
    <3>1. m - 1 \in Nat /\ m - 1 \notin Bad
      <4> HIDE DEF Bad
      <4>1. m - 1 \in Nat /\ ~ (m <= m - 1)
        BY <2>2, <2>4
      <4> QED
        BY <2>1, <4>1
    <3>2. PICK f : ok(f, m - 1)
      BY <3>1
    <3> DEFINE g == [i \in 0 .. m |-> IF i < m THEN f[i] ELSE 2 * f[m - 1]]
    <3>3. ok(g, m)
      BY <2>2, <2>4, <3>2
    <3> QED
      BY <3>3
  <2> QED
    BY <2>3, <2>4
<1>2. ASSUME NEW m \in Nat, NEW n \in Nat, NEW f, ok(f, m), NEW g, ok(g, n), NEW k \in Nat,
             k <= m, k <= n
      PROVE  f[k] = g[k]
  <2> DEFINE Differ == {i \in Nat : i <= k /\ f[i] # g[i]}
  <2> SUFFICES ASSUME Differ # {} PROVE FALSE
    <3>1. k \notin Differ => f[k] = g[k]
      OBVIOUS
    <3> HIDE DEF Differ, ok
    <3> QED
      BY <3>1
  <2>1. PICK i \in Differ : \A y \in Differ : i <= y
    <3> HIDE DEF Differ
    <3>1. Differ \subseteq Nat
      BY DEF Differ
    <3> QED
      BY <3>1, LeastNumber
  <2>2. i # 0
    BY <1>2
  <2>3. i - 1 \in Nat /\ i - 1 <= k /\ i - 1 \notin Differ /\ i \in 1 .. m /\ i \in 1 .. n
    <3>1. i \in Nat /\ i <= k
      OBVIOUS
    <3>2. i - 1 \in Nat /\ i - 1 <= k /\ ~ (i <= i - 1) /\ i \in 1 .. m /\ i \in 1 .. n
      BY <1>2, <2>2, <3>1
    <3> HIDE DEF Differ
    <3> QED
      BY <2>1, <3>2
  <2> QED
    BY <1>2, <2>3
<1> DEFINE pick(i) == CHOOSE f : ok(f, i)
           F == [i \in Nat |-> pick(i)[i]]
<1>3. \A m \in Nat : ok(pick(m), m)
  <2> TAKE m \in Nat
  <2>1. \E f : ok(f, m)
    BY <1>1
  <2> HIDE DEF ok
  <2> QED
    BY <2>1
<1> HIDE DEF pick
<1>4. F = [i \in Nat |-> IF i = 0 THEN 1 ELSE 2 * F[i - 1]]
  <2> SUFFICES ASSUME NEW i \in Nat PROVE F[i] = IF i = 0 THEN 1 ELSE 2 * F[i - 1]
    OBVIOUS
  <2>1. CASE i = 0
    BY <1>3, <2>1
  <2>2. CASE i # 0
    <3>1. i - 1 \in Nat /\ i - 1 <= i
      BY <2>2
    <3>2. pick(i)[i - 1] = pick(i - 1)[i - 1]
      <4>1. ok(pick(i), i) /\ ok(pick(i - 1), i - 1)
        BY <1>3, <3>1
      <4> HIDE DEF ok
      <4> QED
        BY <1>2, <3>1, <4>1
    <3>3. pick(i)[i] = 2 * pick(i)[i - 1]
      BY <1>3, <2>2
    <3> QED
      BY <2>2, <3>1, <3>2, <3>3
  <2> QED
    BY <2>1, <2>2
<1>5. shl = [i \in Nat |-> IF i = 0 THEN 1 ELSE 2 * shl[i - 1]]
  <2> HIDE DEF F
  <2> QED
    BY <1>4 DEF shl
<1>6. shl[0] = 1 /\ \A i \in Nat : shl[i + 1] = 2 * shl[i]
  BY <1>5
<1>7. shl \in [Nat -> Nat \ {0}]
  <2> DEFINE Wrong == {i \in Nat : shl[i] \notin Nat \ {0}}
  <2> SUFFICES ASSUME Wrong # {} PROVE FALSE
    BY <1>5
  <2>1. PICK i \in Wrong : \A y \in Wrong : i <= y
    <3> HIDE DEF Wrong
    <3>1. Wrong \subseteq Nat
      BY DEF Wrong
    <3> QED
      BY <3>1, LeastNumber
  <2>2. i \in Nat /\ i # 0
    BY <1>6
  <2>3. i - 1 \in Nat /\ i - 1 \notin Wrong
    <3>1. i - 1 \in Nat /\ ~ (i <= i - 1)
      BY <2>2
    <3> HIDE DEF Wrong
    <3> QED
      BY <2>1, <3>1
  <2>4. shl[i] = 2 * shl[i - 1]
    BY <1>6, <2>2, <2>3
  <2> QED
    BY <2>3, <2>4
<1> QED
  BY <1>6, <1>7

(* It grows, so that the rounds are the slots below some slot. *)
LEMMA ShlGrows ==
  ASSUME NEW i \in Nat, NEW k \in Nat, i < k
  PROVE  shl[i] < shl[k]
<1> DEFINE Bad == {j \in Nat : i < j /\ ~ (shl[i] < shl[j])}
<1> SUFFICES ASSUME Bad # {} PROVE FALSE
  OBVIOUS
<1>1. PICK j \in Bad : \A y \in Bad : j <= y
  <2> HIDE DEF Bad
  <2>1. Bad \subseteq Nat
    BY DEF Bad
  <2> QED
    BY <2>1, LeastNumber
<1>2. j - 1 \in Nat /\ j - 1 \notin Bad /\ i < j /\ j \in Nat
  <2>1. j \in Nat /\ i < j
    OBVIOUS
  <2>2. j - 1 \in Nat /\ ~ (j <= j - 1)
    BY <2>1
  <2> HIDE DEF Bad
  <2> QED
    BY <1>1, <2>1, <2>2
<1>3. shl[j] = 2 * shl[j - 1] /\ shl[j - 1] \in Nat \ {0} /\ shl[i] \in Nat \ {0}
      /\ shl[j] \in Nat \ {0}
  <2>1. shl[(j - 1) + 1] = 2 * shl[j - 1] /\ (j - 1) + 1 = j
    BY <1>2, ShlIs
  <2> QED
    BY <1>2, <2>1, ShlIs
<1>4. j - 1 = i \/ shl[i] < shl[j - 1]
  BY <1>2
<1> QED
  BY <1>2, <1>3, <1>4

-----------------------------------------------------------------------------
(* The ring of the dissemination barrier. *)

(* PEs and their ranks in the active set. *)
LEMMA RankIs ==
  ASSUME job \in Jobs
  PROVE  /\ \A i \in 0 .. PE_size - 1 : PE(i) \in PEs /\ rank(PE(i)) = i
         /\ \A p \in PEs : rank(p) \in 0 .. PE_size - 1 /\ PE(rank(p)) = p
<1>1. PE_start \in Nat /\ PE_stride \in Nat \ {0} /\ PE_size \in Nat \ {0}
  BY JobFacts
<1>2. ASSUME NEW i \in 0 .. PE_size - 1 PROVE PE(i) \in PEs /\ rank(PE(i)) = i
  <2>1. PE(i) - PE_start = i * PE_stride + 0
    BY <1>1 DEF PE
  <2>2. 0 \in 0 .. PE_stride - 1 /\ i \in Nat
    BY <1>1
  <2>3. (i * PE_stride + 0) \div PE_stride = i
    BY <1>1, <2>2, DivideIs
  <2> QED
    BY <2>1, <2>3 DEF rank, PEs
<1> QED
  BY <1>2 DEF PEs

(* Going ahead and back along the ring. *)
LEMMA Ring ==
  ASSUME job \in Jobs
  PROVE  /\ \A p \in PEs, d \in 0 .. PE_size - 1 :
              /\ ahead(p, d) \in PEs /\ back(p, d) \in PEs
              /\ back(ahead(p, d), d) = p /\ ahead(back(p, d), d) = p
         /\ \A p \in PEs : back(p, 0) = p
         /\ \A p \in PEs, d, e \in 0 .. PE_size - 1 :
              d + e < PE_size => back(back(p, d), e) = back(p, d + e)
         /\ \A p, q \in PEs : \E d \in 0 .. PE_size - 1 : back(p, d) = q
<1> DEFINE n == PE_size
           fwd(a, d) == IF a + d < n THEN a + d ELSE a + d - n
           bwd(a, d) == IF a < d THEN a + n - d ELSE a - d
<1>1. n \in Nat \ {0}
  BY JobFacts
<1>2. \A a, d \in 0 .. n - 1 : (a + d) % n = fwd(a, d)
  <2> TAKE a, d \in 0 .. n - 1
  <2>1. d \in 0 .. n
    BY <1>1
  <2> HIDE DEF n
  <2> QED
    BY <1>1, <2>1, Wrap
<1>3. \A a, d \in 0 .. n - 1 : (a + n - d) % n = bwd(a, d)
  <2> TAKE a, d \in 0 .. n - 1
  <2>1. n - d \in 0 .. n /\ a + (n - d) = a + n - d
    BY <1>1
  <2>2. (a + (n - d)) % n = IF a + (n - d) < n THEN a + (n - d) ELSE a + (n - d) - n
    BY <1>1, <2>1, Wrap
  <2> QED
    BY <1>1, <2>1, <2>2
<1>4. \A i \in 0 .. n - 1 : PE(i) \in PEs /\ rank(PE(i)) = i
  BY RankIs
<1>5. \A p \in PEs : rank(p) \in 0 .. n - 1 /\ PE(rank(p)) = p
  BY RankIs
<1>6. \A p \in PEs, d \in 0 .. n - 1 :
        ahead(p, d) = PE(fwd(rank(p), d)) /\ back(p, d) = PE(bwd(rank(p), d))
  BY <1>2, <1>3, <1>5 DEF ahead, back
<1>7. \A a, d \in 0 .. n - 1 : /\ fwd(a, d) \in 0 .. n - 1 /\ bwd(a, d) \in 0 .. n - 1
                              /\ bwd(fwd(a, d), d) = a /\ fwd(bwd(a, d), d) = a
                              /\ bwd(a, 0) = a
  BY <1>1
<1>8. \A a, d, e \in 0 .. n - 1 : d + e < n => bwd(bwd(a, d), e) = bwd(a, d + e)
  BY <1>1
<1>9. \A a, b \in 0 .. n - 1 : \E d \in 0 .. n - 1 : bwd(a, d) = b
  <2> TAKE a, b \in 0 .. n - 1
  <2>1. bwd(a, bwd(a, b)) = b /\ bwd(a, b) \in 0 .. n - 1
    BY <1>1
  <2> QED
    BY <2>1
<1> HIDE DEF n, fwd, bwd
<1>10. ASSUME NEW p \in PEs, NEW d \in 0 .. n - 1
       PROVE  /\ ahead(p, d) \in PEs /\ rank(ahead(p, d)) = fwd(rank(p), d)
              /\ back(p, d) \in PEs /\ rank(back(p, d)) = bwd(rank(p), d)
  BY <1>4, <1>5, <1>6, <1>7
<1>11. ASSUME NEW p \in PEs, NEW d \in 0 .. n - 1
       PROVE  back(ahead(p, d), d) = p /\ ahead(back(p, d), d) = p
  BY <1>5, <1>6, <1>7, <1>10
<1>12. 0 \in 0 .. n - 1
  BY <1>1
<1>13. ASSUME NEW p \in PEs PROVE back(p, 0) = p
  BY <1>5, <1>6, <1>7, <1>12
<1>14. ASSUME NEW p \in PEs, NEW d \in 0 .. n - 1, NEW e \in 0 .. n - 1, d + e < n
       PROVE  back(back(p, d), e) = back(p, d + e)
  <2>1. d + e \in 0 .. n - 1
    BY <1>1, <1>14
  <2>2. back(back(p, d), e) = PE(bwd(bwd(rank(p), d), e))
    BY <1>6, <1>10
  <2>3. back(p, d + e) = PE(bwd(rank(p), d + e))
    BY <1>6, <2>1
  <2> QED
    BY <1>5, <1>8, <1>14, <2>2, <2>3
<1>15. ASSUME NEW p \in PEs, NEW q \in PEs PROVE \E d \in 0 .. n - 1 : back(p, d) = q
  <2>1. PICK d \in 0 .. n - 1 : bwd(rank(p), d) = rank(q)
    BY <1>5, <1>9
  <2> QED
    BY <1>5, <1>6, <2>1
<1> QED
  BY <1>10, <1>11, <1>13, <1>14, <1>15 DEF n

-----------------------------------------------------------------------------
(* Steps of the dissemination barrier. *)

DissemState == CallInv /\ SafeInv /\ Dissem /\ DissemInv

(* What is used of the ring and of the types in every step. *)
LEMMA DissemFacts ==
  ASSUME DissemState
  PROVE  /\ Rounds \subseteq Slots /\ Slots \subseteq Nat /\ PEs # {}
         /\ \A i \in Rounds : shl[i] \in 0 .. PE_size - 1 /\ shl[i] # 0
         /\ \A i \in Nat : shl[i] \in Nat /\ (shl[i] < PE_size => i \in Rounds)
         /\ \A i \in Rounds, p \in PEs :
              /\ ahead(p, shl[i]) \in PEs /\ back(p, shl[i]) \in PEs
              /\ back(ahead(p, shl[i]), shl[i]) = p /\ ahead(back(p, shl[i]), shl[i]) = p
         /\ PE_size \in Nat
         /\ \A p \in PEs : /\ pc[p] \in {"out", "signal", "wait"}
                           /\ left[p] \in Nat /\ entered[p] \in Nat /\ iter[p] \in Nat
                           /\ (pc[p] = "out" => entered[p] = left[p])
                           /\ (pc[p] # "out" => entered[p] = left[p] + 1)
                           /\ \A i \in Nat : Sent(p, i) \in Nat /\ Taken(p, i) \in Nat
         /\ \A m \in net : m \in Msgs
<1> USE DEF DissemState
<1>1. job \in Jobs
  BY DEF CallInv
<1>2. PE_size \in Nat \ {0} /\ NumSlots \in Nat \ {0} /\ Slots \subseteq Nat /\ Root \in PEs
      /\ shl[NumSlots] >= PE_size
  BY <1>1, JobFacts, RadixAssumption
<1>3. \A i \in Nat : shl[i] \in Nat \ {0}
  BY ShlIs
<1>4. ASSUME NEW i \in Nat, shl[i] < PE_size PROVE i \in Rounds
  <2>1. i < NumSlots
    <3>1. shl[i] < shl[NumSlots]
      BY <1>2, <1>3, <1>4
    <3>2. NumSlots < i => shl[NumSlots] < shl[i]
      BY <1>2, ShlGrows
    <3> QED
      BY <1>2, <1>3, <3>1, <3>2
  <2>2. i \in Slots
    BY <1>2, <2>1 DEF Slots
  <2> QED
    BY <1>4, <2>2 DEF Rounds
<1>5. \A i \in Rounds : shl[i] \in 0 .. PE_size - 1 /\ shl[i] # 0 /\ i \in Nat
  BY <1>2, <1>3 DEF Rounds
<1>6. \A i \in Rounds, p \in PEs :
        /\ ahead(p, shl[i]) \in PEs /\ back(p, shl[i]) \in PEs
        /\ back(ahead(p, shl[i]), shl[i]) = p /\ ahead(back(p, shl[i]), shl[i]) = p
  BY <1>1, <1>5, Ring
<1>7. Labels = {"out", "signal", "wait"}
  BY DEF Dissem, Labels, dissem_labels
<1>8. ASSUME NEW p \in PEs
      PROVE  /\ pc[p] \in {"out", "signal", "wait"}
             /\ left[p] \in Nat /\ entered[p] \in Nat /\ iter[p] \in Nat
             /\ (pc[p] = "out" => entered[p] = left[p])
             /\ (pc[p] # "out" => entered[p] = left[p] + 1)
             /\ \A i \in Nat : Sent(p, i) \in Nat /\ Taken(p, i) \in Nat
  <2>1. pc[p] \in {"out", "signal", "wait"} /\ iter[p] \in Nat
    BY <1>7 DEF CallInv
  <2>2. left[p] \in Nat /\ entered[p] \in Nat
             /\ (pc[p] = "out" => entered[p] = left[p])
             /\ (pc[p] # "out" => entered[p] = left[p] + 1)
    BY CallNumbers
  <2> QED
    BY <2>1, <2>2 DEF Sent, Taken
<1>9. \A m \in net : m \in Msgs
  BY DEF CallInv
<1>10. Rounds \subseteq Slots
  BY DEF Rounds
<1> QED
  BY <1>2, <1>3, <1>4, <1>5, <1>6, <1>8, <1>9, <1>10

(* Signals and decrements are told apart by their fields. *)
LEMMA SignalsDiffer ==
  /\ \A p, q, i, j : sig_of(p, i) = sig_of(q, j) => p = q /\ i = j
  /\ \A p, q, i, j : dec_of(p, i) = dec_of(q, j) => p = q /\ i = j
  /\ \A p, q, i, j : sig_of(p, i) # dec_of(q, j)
  /\ \A p, i : /\ sig_of(p, i).kind # "data" /\ dec_of(p, i).kind # "data"
               /\ sig_of(p, i).src = p /\ dec_of(p, i).src = p
               /\ sig_of(p, i).slot = i /\ dec_of(p, i).slot = i
<1>1. \A p, i : /\ sig_of(p, i).kind # "data" /\ dec_of(p, i).kind # "data"
               /\ sig_of(p, i).src = p /\ dec_of(p, i).src = p
               /\ sig_of(p, i).slot = i /\ dec_of(p, i).slot = i
               /\ sig_of(p, i).val = 1 /\ dec_of(p, i).val = -1
  BY DEF sig_of, dec_of
<1> QED
  BY <1>1

(* What a slot is due depends on its two PEs alone. *)
LEMMA SlotStep ==
  ASSUME NEW p \in PEs, NEW i \in Rounds, Slot(p, i), NEW q, q = back(p, shl[i]),
         UNCHANGED <<job, psync>>,
         Sent(q, i)' = Sent(q, i), Taken(p, i)' = Taken(p, i),
         sig_of(q, i)' \in net' <=> sig_of(q, i) \in net,
         dec_of(p, i)' \in net' <=> dec_of(p, i) \in net
  PROVE  Slot(p, i)'
<1>1. back(p, shl[i])' = q
  BY JobSame
<1> QED
  BY <1>1 DEF Slot, Due, One

(* A PE signals the PE ahead of it. *)
LEMMA DissemSignal ==
  ASSUME DissemState, NEW p \in PEs, signal(p)
  PROVE  DissemInv' /\ Moves(p)
<1> USE DEF DissemState, DissemInv
<1>0. PICK k \in Nat : k = iter[p]
  BY DissemFacts
<1>1. /\ UNCHANGED <<job, psync, entered, left, iter>> /\ pc[p] = "signal"
      /\ pc' = [pc EXCEPT ![p] = "wait"] /\ shl[k] < PE_size
      /\ net' = net \cup {atomic_sum(p, k, 1, to(p))}
  BY <1>0 DEF signal, Goto, distance
<1>2. /\ PEs' = PEs /\ Rounds' = Rounds /\ Slots' = Slots /\ PE_size' = PE_size
      /\ \A q, d : ahead(q, d)' = ahead(q, d) /\ back(q, d)' = back(q, d)
  BY <1>1, JobSame DEF Slots
<1>3. k \in Rounds /\ k \in Nat /\ ahead(p, shl[k]) \in PEs /\ entered[p] = left[p] + 1
      /\ left[p] \in Nat
  BY <1>1, DissemFacts
<1>4. atomic_sum(p, k, 1, to(p)) = sig_of(p, k)
  BY <1>0 DEF atomic_sum, sig_of, to, distance, ahead, rank
<1>5. pc'[p] = "wait" /\ \A q \in PEs \ {p} : pc'[q] = pc[q]
  BY <1>1 DEF CallInv
<1>6. \A q \in PEs, i \in Nat : /\ Taken(q, i)' = Taken(q, i)
                               /\ (q # p \/ i # k => Sent(q, i)' = Sent(q, i))
  BY <1>0, <1>1, <1>5 DEF Taken, Sent
<1>7. Sent(p, k) = left[p] /\ Sent(p, k)' = left[p] + 1
  BY <1>0, <1>1, <1>3, <1>5 DEF Sent
<1>8. \A q, i : sig_of(q, i)' = sig_of(q, i) /\ dec_of(q, i)' = dec_of(q, i)
  BY <1>1, <1>2 DEF sig_of, dec_of
<1>9. sig_of(p, k) \notin net
  <2> SUFFICES ASSUME sig_of(p, k) \in net PROVE FALSE
    OBVIOUS
  <2>1. Signal(sig_of(p, k)) /\ sig_of(p, k).src = p /\ sig_of(p, k).slot = k
    BY SignalsDiffer DEF SignalInv
  <2>2. Sent(p, k) = entered[p]
    BY <2>1, SignalsDiffer DEF Signal
  <2> QED
    BY <1>3, <1>7, <2>2
<1>10. \A q, i : /\ (q # p \/ i # k => (sig_of(q, i) \in net' <=> sig_of(q, i) \in net))
                /\ (dec_of(q, i) \in net' <=> dec_of(q, i) \in net)
  BY <1>1, <1>4, SignalsDiffer
<1>11. RoundInv'
  BY <1>0, <1>1, <1>2, <1>3, <1>5 DEF RoundInv, Round
<1>12. ASSUME NEW m \in net', m.kind # "data" PROVE Signal(m)'
  <2>1. CASE m = sig_of(p, k)
    <3>1. m.src = p /\ m.slot = k
      BY <2>1, SignalsDiffer
    <3> QED
      BY <1>1, <1>2, <1>3, <1>5, <1>7, <1>8, <2>1, <3>1 DEF Signal
  <2>2. CASE m \in net
    <3>1. Signal(m) /\ m.src \in PEs /\ m.slot \in Nat
      BY <1>12, <2>2, DissemFacts DEF SignalInv, Msgs
    <3>2. Sent(m.src, m.slot)' = Sent(m.src, m.slot) \/ (m.src = p /\ m.slot = k)
      BY <1>6, <3>1
    <3>3. pc'[m.src] # "out"
      BY <1>5, <3>1 DEF Signal
    <3> QED
      BY <1>1, <1>2, <1>3, <1>6, <1>7, <1>8, <3>1, <3>2, <3>3 DEF Signal
  <2> QED
    BY <1>1, <1>4, <2>1, <2>2
<1>13. ASSUME NEW q \in PEs, NEW i \in Rounds PROVE Slot(q, i)'
  <2>1. PICK r \in PEs : r = back(q, shl[i])
    BY DissemFacts
  <2>2. Slot(q, i) /\ i \in Nat
    BY DissemFacts DEF SlotInv
  <2>3. CASE r # p \/ i # k
    BY <1>1, <1>6, <1>8, <1>10, <2>1, <2>2, <2>3, SlotStep
  <2>4. CASE r = p /\ i = k
    <3>1. /\ Due(q, i) = Sent(p, k) - Taken(q, k) - 0
          /\ Due(q, i)' = Sent(p, k)' - Taken(q, k)' - 1
      BY <1>1, <1>2, <1>4, <1>8, <1>9, <2>1, <2>4 DEF Due, One
    <3>2. Taken(q, k) \in Nat
      BY <1>3, DissemFacts
    <3>3. Due(q, i)' = Due(q, i)
      BY <1>3, <1>6, <1>7, <3>1, <3>2
    <3> QED
      BY <1>1, <1>8, <1>10, <2>2, <3>3 DEF Slot, One
  <2> QED
    BY <2>3, <2>4
<1>14. ASSUME NEW q \in PEs PROVE Know(q)'
  <2>1. Know(q) /\ (pc'[q] # "out" <=> pc[q] # "out")
    BY <1>1, <1>5 DEF KnowInv
  <2> QED
    BY <1>1, <1>2, <2>1 DEF Know
<1>15. DissemInv'
  BY <1>1, <1>2, <1>11, <1>12, <1>13, <1>14 DEF SignalInv, SlotInv, KnowInv
<1>16. Moves(p)
  <2>1. "wait" \in Labels \ {"out"}
    BY DEF Labels, Dissem, dissem_labels
  <2>2. sig_of(p, k) \in Msgs /\ sig_of(p, k).kind # "data"
    <3>1. k \in Slots /\ entered[p] \in Nat
      BY <1>3, DissemFacts
    <3> QED
      BY <1>3, <3>1 DEF sig_of, Msgs
  <2> QED
    BY <1>1, <1>4, <2>1, <2>2 DEF Moves, Issues, CallInv
<1> QED
  BY <1>15, <1>16

(* A PE whose slot is not zero has heard from the PE behind it, and through it from  *)
(* twice as many PEs as before; it takes the signal off again.                       *)
LEMMA DissemWait ==
  ASSUME DissemState, NEW p \in PEs, wait(p)
  PROVE  DissemInv' /\ Moves(p) /\ iter' \in [PEs -> Nat]
<1> USE DEF DissemState, DissemInv
<1>0. PICK k \in Nat : k = iter[p]
  BY DissemFacts
<1>1. /\ UNCHANGED <<job, psync, entered, left>> /\ pc[p] = "wait"
      /\ pc' = [pc EXCEPT ![p] = "signal"] /\ iter' = [iter EXCEPT ![p] = @ + 1]
      /\ psync[p][k] # 0 /\ net' = net \cup {atomic_sum(p, k, -1, p)}
  BY <1>0 DEF wait, Goto
<1>2. /\ PEs' = PEs /\ Rounds' = Rounds /\ Slots' = Slots /\ PE_size' = PE_size
      /\ \A q, d : ahead(q, d)' = ahead(q, d) /\ back(q, d)' = back(q, d)
  BY <1>1, JobSame DEF Slots
<1>3. k \in Rounds /\ entered[p] = left[p] + 1 /\ left[p] \in Nat
  <2>1. Round(p)
    BY DEF RoundInv
  <2> QED
    BY <1>0, <1>1, <2>1, DissemFacts DEF Round
<1>4. atomic_sum(p, k, -1, p) = dec_of(p, k)
  BY DEF atomic_sum, dec_of
<1>5. /\ pc'[p] = "signal" /\ iter'[p] = k + 1 /\ iter' \in [PEs -> Nat]
      /\ \A q \in PEs \ {p} : pc'[q] = pc[q] /\ iter'[q] = iter[q]
  BY <1>0, <1>1 DEF CallInv
<1>6. \A q \in PEs, i \in Nat : /\ Sent(q, i)' = Sent(q, i)
                               /\ (q # p \/ i # k => Taken(q, i)' = Taken(q, i))
  BY <1>0, <1>1, <1>5 DEF Taken, Sent
<1>7. Taken(p, k) = left[p] /\ Taken(p, k)' = left[p] + 1
  BY <1>0, <1>1, <1>3, <1>5 DEF Taken
<1>8. \A q, i : sig_of(q, i)' = sig_of(q, i) /\ dec_of(q, i)' = dec_of(q, i)
  BY <1>1, <1>2 DEF sig_of, dec_of
<1>9. dec_of(p, k) \notin net
  <2> SUFFICES ASSUME dec_of(p, k) \in net PROVE FALSE
    OBVIOUS
  <2>1. Signal(dec_of(p, k)) /\ dec_of(p, k).src = p /\ dec_of(p, k).slot = k
    BY SignalsDiffer DEF SignalInv
  <2>2. Taken(p, k) = entered[p]
    BY <2>1, SignalsDiffer DEF Signal
  <2> QED
    BY <1>3, <1>7, <2>2
<1>10. \A q, i : /\ (q # p \/ i # k => (dec_of(q, i) \in net' <=> dec_of(q, i) \in net))
                /\ (sig_of(q, i) \in net' <=> sig_of(q, i) \in net)
  BY <1>1, <1>4, SignalsDiffer
<1>11. PICK b \in PEs : b = back(p, shl[k])
  BY <1>3, DissemFacts
<1>12. psync[p][k] = Due(p, k) /\ Due(p, k) \in Nat \ {0} /\ Sent(b, k) >= entered[p]
  <2>1. Slot(p, k)
    BY <1>3 DEF SlotInv
  <2>2. Sent(b, k) \in Nat
    BY DissemFacts
  <2>3. Due(p, k) = Sent(b, k) - left[p] - One(sig_of(b, k) \in net)
        /\ One(sig_of(b, k) \in net) \in {0, 1}
    BY <1>7, <1>11 DEF Due, One
  <2>4. psync[p][k] = Due(p, k) + 0 /\ Due(p, k) >= 0
    BY <1>9, <2>1 DEF Slot, One
  <2>5. Due(p, k) \in Int
    BY <1>3, <2>2, <2>3
  <2>6. psync[p][k] = Due(p, k) /\ Due(p, k) \in Nat \ {0}
    BY <1>1, <2>4, <2>5
  <2>7. Sent(b, k) >= left[p] + 1
    BY <1>3, <2>2, <2>3, <2>6
  <2> QED
    BY <1>3, <2>6, <2>7
<1>13. RoundInv'
  <2> SUFFICES ASSUME NEW q \in PEs PROVE Round(q)'
    BY <1>2 DEF RoundInv
  <2>1. Round(q)
    BY DEF RoundInv
  <2>2. CASE q = p
    <3>1. \A i \in 0 .. (k + 1) - 1 : i = k \/ i \in 0 .. k - 1
      OBVIOUS
    <3> QED
      BY <1>0, <1>2, <1>3, <1>5, <2>1, <2>2, <3>1 DEF Round
  <2>3. CASE q # p
    BY <1>2, <1>5, <2>1, <2>3 DEF Round
  <2> QED
    BY <2>2, <2>3
<1>14. ASSUME NEW m \in net', m.kind # "data" PROVE Signal(m)'
  <2>1. CASE m = dec_of(p, k)
    <3>1. m.src = p /\ m.slot = k
      BY <2>1, SignalsDiffer
    <3> QED
      BY <1>1, <1>2, <1>3, <1>5, <1>7, <1>8, <2>1, <3>1 DEF Signal
  <2>2. CASE m \in net
    <3>1. Signal(m) /\ m.src \in PEs /\ m.slot \in Nat
      BY <1>14, <2>2, DissemFacts DEF SignalInv, Msgs
    <3>2. Taken(m.src, m.slot)' = Taken(m.src, m.slot) \/ (m.src = p /\ m.slot = k)
      BY <1>6, <3>1
    <3>3. pc'[m.src] # "out"
      BY <1>5, <3>1 DEF Signal
    <3> QED
      BY <1>1, <1>2, <1>3, <1>6, <1>7, <1>8, <3>1, <3>2, <3>3 DEF Signal
  <2> QED
    BY <1>1, <1>4, <2>1, <2>2
<1>15. ASSUME NEW q \in PEs, NEW i \in Rounds PROVE Slot(q, i)'
  <2>1. PICK r \in PEs : r = back(q, shl[i])
    BY DissemFacts
  <2>2. Slot(q, i) /\ i \in Nat
    BY DissemFacts DEF SlotInv
  <2>3. CASE q # p \/ i # k
    BY <1>1, <1>6, <1>8, <1>10, <2>1, <2>2, <2>3, SlotStep
  <2>4. CASE q = p /\ i = k
    <3>1. /\ Due(p, k) = Sent(b, k) - Taken(p, k) - One(sig_of(b, k) \in net)
          /\ Due(p, k)' = Sent(b, k)' - Taken(p, k)' - One(sig_of(b, k)' \in net')
          /\ One(sig_of(b, k) \in net) \in {0, 1}
          /\ One(sig_of(b, k) \in net) = One(sig_of(b, k)' \in net')
      BY <1>2, <1>8, <1>10, <1>11 DEF Due, One
    <3>2. Sent(b, k) \in Nat /\ Sent(b, k)' = Sent(b, k)
      BY <1>6, DissemFacts
    <3>3. Due(p, k)' = Due(p, k) - 1
      BY <1>3, <1>7, <3>1, <3>2
    <3>4. dec_of(p, k)' \in net'
      BY <1>1, <1>4, <1>8
    <3> QED
      BY <1>1, <1>12, <2>4, <3>3, <3>4 DEF Slot, One
  <2> QED
    BY <2>3, <2>4
<1>16. Know(p)'
  <2> SUFFICES ASSUME NEW d \in 0 .. PE_size - 1, d < shl[k + 1]
               PROVE  entered[back(p, d)] >= entered[p]
    BY <1>1, <1>2, <1>5 DEF Know
  <2>1. shl[k + 1] = 2 * shl[k] /\ shl[k] \in 0 .. PE_size - 1 /\ PE_size \in Nat
    BY <1>3, ShlIs, DissemFacts
  <2>2. CASE d < shl[k]
    BY <1>0, <1>1, <2>2 DEF KnowInv, Know
  <2>3. CASE ~ (d < shl[k])
    <3>1. PICK e \in 0 .. PE_size - 1 : d = shl[k] + e /\ e < shl[k]
      <4>1. d - shl[k] \in 0 .. PE_size - 1 /\ d = shl[k] + (d - shl[k]) /\ d - shl[k] < shl[k]
        BY <2>1, <2>3
      <4> QED
        BY <4>1
    <3>2. back(p, d) = back(b, e) /\ back(b, e) \in PEs
      <4>1. job \in Jobs /\ shl[k] + e < PE_size
        BY <2>1, <3>1 DEF CallInv
      <4>2. \A x, y \in 0 .. PE_size - 1 : x + y < PE_size => back(back(p, x), y) = back(p, x + y)
        BY <4>1, Ring
      <4>3. back(back(p, shl[k]), e) = back(p, shl[k] + e)
        BY <2>1, <4>1, <4>2
      <4>4. back(b, e) \in PEs
        BY <4>1, Ring
      <4> QED
        BY <1>11, <3>1, <4>3, <4>4
    <3>3. entered[back(b, e)] \in Nat /\ entered[b] \in Nat /\ entered[p] \in Nat
      BY <3>2, DissemFacts
    <3>4. CASE pc[b] # "out" /\ iter[b] >= k /\ entered[b] >= entered[p]
      <4>1. shl[k] <= shl[iter[b]] /\ shl[iter[b]] \in Nat /\ shl[k] \in Nat
        <5>1. iter[b] \in Nat
          BY DissemFacts
        <5>2. k < iter[b] => shl[k] < shl[iter[b]]
          BY <5>1, ShlGrows
        <5>3. shl[k] \in Nat /\ shl[iter[b]] \in Nat
          BY <5>1, ShlIs
        <5> QED
          BY <3>4, <5>1, <5>2, <5>3
      <4>2. e < shl[iter[b]]
        BY <3>1, <4>1
      <4>3. entered[back(b, e)] >= entered[b]
        BY <3>4, <4>2 DEF KnowInv, Know
      <4> QED
        BY <3>2, <3>3, <3>4, <4>3
    <3>5. CASE left[b] >= entered[p]
      <4>1. left[b] <= entered[back(b, e)] /\ left[b] \in Nat
        BY <3>2, DissemFacts DEF SafeInv
      <4> QED
        BY <3>2, <3>3, <3>5, <4>1
    <3>6. \/ pc[b] # "out" /\ iter[b] >= k /\ entered[b] >= entered[p]
          \/ left[b] >= entered[p]
      <4>1. iter[b] \in Nat
        BY DissemFacts
      <4> QED
        BY <1>12, <4>1 DEF Sent
    <3> QED
      BY <3>4, <3>5, <3>6
  <2> QED
    BY <2>2, <2>3
<1>17. ASSUME NEW q \in PEs, q # p PROVE Know(q)'
  <2>1. Know(q) /\ pc'[q] = pc[q] /\ iter'[q] = iter[q]
    BY <1>5, <1>17 DEF KnowInv
  <2> QED
    BY <1>1, <1>2, <2>1 DEF Know
<1>18. DissemInv'
  BY <1>1, <1>2, <1>13, <1>14, <1>15, <1>16, <1>17 DEF SignalInv, SlotInv, KnowInv
<1>19. Moves(p)
  <2>1. "signal" \in Labels \ {"out"}
    BY DEF Labels, Dissem, dissem_labels
  <2>2. dec_of(p, k) \in Msgs /\ dec_of(p, k).kind # "data"
    <3>1. k \in Slots /\ entered[p] \in Nat
      BY <1>3, DissemFacts
    <3> QED
      BY <1>3, <3>1 DEF dec_of, Msgs
  <2> QED
    BY <1>1, <1>4, <2>1, <2>2 DEF Moves, Issues, CallInv
<1> QED
  BY <1>5, <1>18, <1>19

(* After the last round a PE has heard from everybody; it leaves once its own        *)
(* operations are complete.                                                          *)
LEMMA DissemFinish ==
  ASSUME DissemState, NEW p \in PEs, finish(p)
  PROVE  DissemInv' /\ Leaves(p) /\ iter' \in [PEs -> Nat]
<1> USE DEF DissemState, DissemInv
<1>1. /\ UNCHANGED <<job, psync, net, entered>> /\ pc[p] = "signal" /\ quiet(p)
      /\ pc' = [pc EXCEPT ![p] = "out"] /\ iter' = [iter EXCEPT ![p] = 0]
      /\ left' = [left EXCEPT ![p] = @ + 1] /\ shl[iter[p]] >= PE_size
  BY DEF finish, leave, Goto, distance
<1>2. /\ PEs' = PEs /\ Rounds' = Rounds /\ Slots' = Slots /\ PE_size' = PE_size
      /\ \A q, d : ahead(q, d)' = ahead(q, d) /\ back(q, d)' = back(q, d)
  BY <1>1, JobSame DEF Slots
<1>3. /\ entered[p] = left[p] + 1 /\ left[p] \in Nat /\ iter[p] \in Nat
      /\ shl[iter[p]] \in Nat /\ PE_size \in Nat
  BY <1>1, DissemFacts
<1>4. ASSUME NEW i \in Rounds PROVE i < iter[p]
  <2>1. i \in Nat /\ shl[i] \in Nat /\ shl[i] < PE_size
    <3>1. i \in Nat /\ shl[i] \in 0 .. PE_size - 1
      BY DissemFacts
    <3> QED
      BY <1>3, <3>1
  <2>2. iter[p] < i => shl[iter[p]] < shl[i]
    BY <1>3, <2>1, ShlGrows
  <2> QED
    BY <1>1, <1>3, <2>1, <2>2
<1>5. /\ pc'[p] = "out" /\ iter'[p] = 0 /\ left'[p] = left[p] + 1 /\ iter' \in [PEs -> Nat]
      /\ \A q \in PEs \ {p} : pc'[q] = pc[q] /\ iter'[q] = iter[q] /\ left'[q] = left[q]
  BY <1>1 DEF CallInv
<1>6. \A q \in PEs, i \in Rounds : Sent(q, i)' = Sent(q, i) /\ Taken(q, i)' = Taken(q, i)
  <2> TAKE q \in PEs, i \in Rounds
  <2>1. CASE q = p
    BY <1>1, <1>3, <1>4, <1>5, <2>1 DEF Sent, Taken
  <2>2. CASE q # p
    BY <1>1, <1>5, <2>2 DEF Sent, Taken
  <2> QED
    BY <2>1, <2>2
<1>7. \A q, i : sig_of(q, i)' = sig_of(q, i) /\ dec_of(q, i)' = dec_of(q, i)
  BY <1>1, <1>2 DEF sig_of, dec_of
<1>8. RoundInv'
  <2> SUFFICES ASSUME NEW q \in PEs PROVE Round(q)'
    BY <1>2 DEF RoundInv
  <2>1. Round(q)
    BY DEF RoundInv
  <2> QED
    BY <1>2, <1>5, <2>1 DEF Round
<1>9. ASSUME NEW m \in net, m.kind # "data" PROVE Signal(m)'
  <2>1. Signal(m) /\ m.src \in PEs /\ m.src # p
    BY <1>1, <1>9, DissemFacts DEF SignalInv, Msgs, quiet
  <2>2. m.slot \in Rounds
    BY <2>1 DEF Signal
  <2> QED
    BY <1>1, <1>2, <1>5, <1>6, <1>7, <2>1, <2>2 DEF Signal
<1>10. ASSUME NEW q \in PEs, NEW i \in Rounds PROVE Slot(q, i)'
  <2>1. PICK r \in PEs : r = back(q, shl[i])
    BY DissemFacts
  <2>2. Slot(q, i)
    BY DEF SlotInv
  <2> QED
    BY <1>1, <1>6, <1>7, <2>1, <2>2, SlotStep
<1>11. ASSUME NEW q \in PEs PROVE Know(q)'
  <2>1. Know(q)
    BY DEF KnowInv
  <2> QED
    BY <1>1, <1>2, <1>5, <2>1 DEF Know
<1>12. DissemInv'
  BY <1>1, <1>2, <1>8, <1>9, <1>10, <1>11 DEF SignalInv, SlotInv, KnowInv
<1>13. \A q \in PEs : left[p] + 1 <= entered[q]
  <2> TAKE q \in PEs
  <2>1. PICK d \in 0 .. PE_size - 1 : back(p, d) = q
    BY Ring DEF CallInv
  <2>2. d < shl[iter[p]]
    BY <1>1, <1>3
  <2>3. entered[q] >= entered[p]
    BY <1>1, <2>1, <2>2 DEF KnowInv, Know
  <2>4. entered[q] \in Nat
    BY DissemFacts
  <2> QED
    BY <1>3, <2>3, <2>4
<1>14. Leaves(p)
  BY <1>1, <1>13 DEF Leaves, leave, Goto, Issues, CallInv
<1> QED
  BY <1>5, <1>12, <1>14

(* A PE enters its next call: nothing of its last one is on its way. *)
LEMMA DissemEnter ==
  ASSUME DissemState, NEW p \in PEs, pc[p] = "out",
         pc' = [pc EXCEPT ![p] = "signal"], entered' = [entered EXCEPT ![p] = @ + 1],
         UNCHANGED <<job, psync, net, left, iter>>
  PROVE  DissemInv'
<1> USE DEF DissemState, DissemInv
<1>1. /\ PEs' = PEs /\ Rounds' = Rounds /\ Slots' = Slots /\ PE_size' = PE_size
      /\ \A q, d : ahead(q, d)' = ahead(q, d) /\ back(q, d)' = back(q, d)
  BY JobSame DEF Slots
<1>2. /\ entered[p] = left[p] /\ left[p] \in Nat /\ iter[p] = 0 /\ PE_size \in Nat
  BY DissemFacts DEF RoundInv, Round
<1>3. /\ pc'[p] = "signal" /\ entered'[p] = left[p] + 1
      /\ \A q \in PEs \ {p} : pc'[q] = pc[q] /\ entered'[q] = entered[q]
  BY <1>2 DEF CallInv
<1>4. \A q \in PEs, i \in Nat : Sent(q, i)' = Sent(q, i) /\ Taken(q, i)' = Taken(q, i)
  <2> TAKE q \in PEs, i \in Nat
  <2>1. CASE q = p
    BY <1>2, <1>3, <2>1 DEF Sent, Taken
  <2>2. CASE q # p
    BY <1>3, <2>2 DEF Sent, Taken
  <2> QED
    BY <2>1, <2>2
<1>5. \A m \in net : m.kind # "data" => m.src # p
  BY DEF SignalInv, Signal
<1>6. \A q, i : /\ sig_of(q, i)'.src = q /\ sig_of(q, i)'.kind # "data"
                /\ dec_of(q, i)'.src = q /\ dec_of(q, i)'.kind # "data"
  BY DEF sig_of, dec_of
<1>7. \A q \in PEs : \A i :
        /\ (sig_of(q, i)' \in net' <=> sig_of(q, i) \in net)
        /\ (dec_of(q, i)' \in net' <=> dec_of(q, i) \in net)
        /\ (q # p => sig_of(q, i)' = sig_of(q, i) /\ dec_of(q, i)' = dec_of(q, i))
  <2> TAKE q \in PEs
  <2> TAKE i
  <2>1. CASE q = p
    BY <1>5, <1>6, <2>1, SignalsDiffer
  <2>2. CASE q # p
    BY <1>1, <1>3, <2>2 DEF sig_of, dec_of
  <2> QED
    BY <2>1, <2>2
<1>8. RoundInv'
  <2> SUFFICES ASSUME NEW q \in PEs PROVE Round(q)'
    BY <1>1 DEF RoundInv
  <2>1. Round(q)
    BY DEF RoundInv
  <2> QED
    BY <1>1, <1>3, <2>1 DEF Round
<1>9. ASSUME NEW m \in net, m.kind # "data" PROVE Signal(m)'
  <2>1. Signal(m) /\ m.src \in PEs /\ m.src # p /\ m.slot \in Nat
    BY <1>5, <1>9, DissemFacts DEF SignalInv, Msgs
  <2> QED
    BY <1>1, <1>3, <1>4, <1>7, <2>1 DEF Signal
<1>10. ASSUME NEW q \in PEs, NEW i \in Rounds PROVE Slot(q, i)'
  <2>1. PICK r \in PEs : r = back(q, shl[i])
    BY DissemFacts
  <2>2. Slot(q, i) /\ i \in Nat
    BY DissemFacts DEF SlotInv
  <2> QED
    BY <1>4, <1>7, <2>1, <2>2, SlotStep
<1>11. \A q \in PEs : entered'[q] \in Nat /\ entered[q] \in Nat /\ entered'[q] >= entered[q]
  BY <1>2, <1>3, DissemFacts
<1>12. Know(p)'
  <2> SUFFICES ASSUME NEW d \in 0 .. PE_size - 1, d < shl[0]
               PROVE  entered'[back(p, d)] >= entered'[p]
    BY <1>1, <1>2 DEF Know
  <2>1. d = 0
    BY <1>2, ShlIs
  <2>2. back(p, 0) = p
    BY Ring DEF CallInv
  <2> QED
    BY <1>11, <2>1, <2>2
<1>13. ASSUME NEW q \in PEs, q # p PROVE Know(q)'
  <2>1. Know(q) /\ pc'[q] = pc[q] /\ entered'[q] = entered[q]
    BY <1>3, <1>13 DEF KnowInv
  <2>2. \A d \in 0 .. PE_size - 1 : back(q, d) \in PEs
    BY Ring DEF CallInv
  <2>3. ASSUME pc[q] # "out", NEW d \in 0 .. PE_size - 1, d < shl[iter[q]]
        PROVE  entered'[back(q, d)] >= entered'[q]
    <3>1. entered[back(q, d)] >= entered[q] /\ back(q, d) \in PEs
      BY <2>1, <2>2, <2>3 DEF Know
    <3> QED
      BY <1>11, <2>1, <3>1
  <2> QED
    BY <1>1, <2>1, <2>3 DEF Know
<1> QED
  BY <1>1, <1>8, <1>9, <1>10, <1>12, <1>13 DEF SignalInv, SlotInv, KnowInv

(* Only pSync words and messages change: rounds and knowledge stay. *)
LEMMA DissemQuietStep ==
  ASSUME DissemState, UNCHANGED <<job, pc, entered, left, iter>>,
         \A m \in net' : m.kind # "data" => m \in net
  PROVE  /\ RoundInv' /\ SignalInv' /\ KnowInv'
         /\ PEs' = PEs /\ Rounds' = Rounds /\ Slots' = Slots
         /\ \A q, d : back(q, d)' = back(q, d)
         /\ \A q, i : /\ sig_of(q, i)' = sig_of(q, i) /\ dec_of(q, i)' = dec_of(q, i)
                      /\ Sent(q, i)' = Sent(q, i) /\ Taken(q, i)' = Taken(q, i)
<1> USE DEF DissemState, DissemInv
<1>1. /\ PEs' = PEs /\ Rounds' = Rounds /\ Slots' = Slots /\ PE_size' = PE_size
      /\ \A q, d : ahead(q, d)' = ahead(q, d) /\ back(q, d)' = back(q, d)
  BY JobSame DEF Slots
<1>2. \A q, i : /\ sig_of(q, i)' = sig_of(q, i) /\ dec_of(q, i)' = dec_of(q, i)
                /\ Sent(q, i)' = Sent(q, i) /\ Taken(q, i)' = Taken(q, i)
  BY <1>1 DEF sig_of, dec_of, Sent, Taken
<1>3. RoundInv'
  BY <1>1 DEF RoundInv, Round
<1>4. SignalInv'
  BY <1>1, <1>2 DEF SignalInv, Signal
<1>5. KnowInv'
  BY <1>1 DEF KnowInv, Know
<1> QED
  BY <1>1, <1>2, <1>3, <1>4, <1>5

(* Puts of client data are none of the barrier's messages. *)
LEMMA DissemData ==
  ASSUME DissemState, UNCHANGED <<job, psync, pc, entered, left, iter>>,
         \A m : m.kind # "data" => (m \in net' <=> m \in net)
  PROVE  DissemInv'
<1>1. /\ RoundInv' /\ SignalInv' /\ KnowInv'
      /\ PEs' = PEs /\ Rounds' = Rounds /\ Slots' = Slots
      /\ \A q, i : /\ sig_of(q, i)' = sig_of(q, i) /\ dec_of(q, i)' = dec_of(q, i)
                   /\ Sent(q, i)' = Sent(q, i) /\ Taken(q, i)' = Taken(q, i)
  BY DissemQuietStep
<1>2. \A q, i : /\ (sig_of(q, i) \in net' <=> sig_of(q, i) \in net)
                /\ (dec_of(q, i) \in net' <=> dec_of(q, i) \in net)
  BY SignalsDiffer
<1>3. ASSUME NEW p \in PEs, NEW i \in Rounds PROVE Slot(p, i)'
  <2>1. PICK r \in PEs : r = back(p, shl[i])
    BY DissemFacts
  <2>2. Slot(p, i)
    BY DEF DissemState, DissemInv, SlotInv
  <2> QED
    BY <1>1, <1>2, <2>1, <2>2, SlotStep
<1>4. SlotInv'
  BY <1>1, <1>3 DEF SlotInv, DissemState, DissemInv
<1> QED
  BY <1>1, <1>4 DEF DissemInv

(* An atomic arrives: a signal or a decrement. *)
LEMMA DissemDeliver ==
  ASSUME DissemState, NEW m \in net, m.kind \in {"put", "sum"}, net' = net \ {m},
         psync' = [psync EXCEPT ![m.dst][m.slot] = IF m.kind = "put" THEN m.val ELSE @ + m.val],
         UNCHANGED <<job, pc, entered, left, iter>>
  PROVE  DissemInv'
<1>1. /\ RoundInv' /\ SignalInv' /\ KnowInv'
      /\ PEs' = PEs /\ Rounds' = Rounds /\ Slots' = Slots
      /\ \A q, d : back(q, d)' = back(q, d)
      /\ \A q, i : /\ sig_of(q, i)' = sig_of(q, i) /\ dec_of(q, i)' = dec_of(q, i)
                   /\ Sent(q, i)' = Sent(q, i) /\ Taken(q, i)' = Taken(q, i)
  BY DissemQuietStep
<1>2. Signal(m) /\ m.src \in PEs /\ m.dst \in PEs /\ m.slot \in Slots /\ m.val \in Int
  BY DissemFacts DEF DissemState, DissemInv, SignalInv, Msgs
<1>3. PICK s \in PEs : s = m.src
  BY <1>2
<1>4. PICK k \in Rounds : k = m.slot
  BY <1>2 DEF Signal
<1>5. PICK r \in PEs : r = m.dst
  BY <1>2
<1>6. PICK v \in {1, -1} :
        /\ m.val = v
        /\ \/ v = 1 /\ m = sig_of(s, k) /\ r = ahead(s, shl[k])
           \/ v = -1 /\ m = dec_of(s, k) /\ r = s
  <2>1. sig_of(s, k).val = 1 /\ sig_of(s, k).dst = ahead(s, shl[k])
        /\ dec_of(s, k).val = -1 /\ dec_of(s, k).dst = s
    BY DEF sig_of, dec_of
  <2> QED
    BY <1>2, <1>3, <1>4, <1>5, <2>1 DEF Signal
<1>7. m.kind = "sum"
  <2>1. sig_of(s, k).kind = "sum" /\ dec_of(s, k).kind = "sum"
    BY DEF sig_of, dec_of
  <2> QED
    BY <1>6, <2>1
<1>8. /\ psync \in [PEs -> [Slots -> Int]]
      /\ \A p \in PEs \ {r} : psync'[p] = psync[p]
      /\ \A i \in Slots \ {k} : psync'[r][i] = psync[r][i]
      /\ psync'[r][k] = psync[r][k] + v
  BY <1>2, <1>4, <1>5, <1>6, <1>7 DEF DissemState, CallInv
<1>9. ASSUME NEW p \in PEs, NEW i \in Rounds PROVE Slot(p, i)'
  <2>1. PICK b \in PEs : b = back(p, shl[i])
    BY DissemFacts
  <2>2. Slot(p, i) /\ i \in Slots /\ i \in Nat
    BY DissemFacts DEF DissemState, DissemInv, SlotInv
  <2>3. /\ Due(p, i) = Sent(b, i) - Taken(p, i) - One(sig_of(b, i) \in net)
        /\ Due(p, i)' = Sent(b, i) - Taken(p, i) - One(sig_of(b, i) \in net')
        /\ One(sig_of(b, i) \in net) \in {0, 1} /\ One(sig_of(b, i) \in net') \in {0, 1}
        /\ Sent(b, i) \in Nat /\ Taken(p, i) \in Nat
    BY <1>1, <2>1, <2>2, DissemFacts DEF Due, One
  <2>4. psync[p][i] \in Int /\ One(dec_of(p, i) \in net) \in {0, 1}
        /\ One(dec_of(p, i) \in net') \in {0, 1}
    BY <1>8, <2>2 DEF One
  <2>5. CASE p = r /\ i = k
    <3>1. CASE v = 1
      <4>1. m = sig_of(b, i)
        BY <1>6, <2>1, <2>5, <3>1, DissemFacts
      <4>2. sig_of(b, i) \notin net' /\ sig_of(b, i) \in net
            /\ (dec_of(p, i) \in net' <=> dec_of(p, i) \in net)
        BY <4>1, SignalsDiffer
      <4>3. Due(p, i)' = Due(p, i) + 1 /\ Due(p, i) \in Int
        BY <2>3, <4>2 DEF One
      <4>4. One(dec_of(p, i)' \in net') = One(dec_of(p, i) \in net)
        BY <1>1, <4>2 DEF One
      <4> QED
        BY <1>8, <2>2, <2>4, <2>5, <3>1, <4>3, <4>4 DEF Slot
    <3>2. CASE v = -1
      <4>1. m = dec_of(p, i)
        BY <1>6, <2>5, <3>2
      <4>2. dec_of(p, i) \notin net' /\ dec_of(p, i) \in net
            /\ (sig_of(b, i) \in net' <=> sig_of(b, i) \in net)
        BY <4>1, SignalsDiffer
      <4>3. Due(p, i)' = Due(p, i) /\ Due(p, i) \in Int
        BY <2>3, <4>2 DEF One
      <4>4. One(dec_of(p, i)' \in net') = 0 /\ One(dec_of(p, i) \in net) = 1
        BY <1>1, <4>2 DEF One
      <4> QED
        BY <1>8, <2>2, <2>4, <2>5, <3>2, <4>3, <4>4 DEF Slot
    <3> QED
      BY <3>1, <3>2
  <2>6. CASE p # r \/ i # k
    <3>1. psync'[p][i] = psync[p][i]
      BY <1>8, <2>2, <2>6
    <3>2. m # sig_of(b, i) /\ m # dec_of(p, i)
      <4>1. m = sig_of(b, i) => b = s /\ i = k /\ r = ahead(b, shl[i])
        BY <1>6, SignalsDiffer
      <4>2. m = dec_of(p, i) => p = s /\ i = k /\ r = p
        BY <1>6, SignalsDiffer
      <4>3. ahead(b, shl[i]) = p
        BY <2>1, DissemFacts
      <4> QED
        BY <2>6, <4>1, <4>2, <4>3
    <3>3. Due(p, i)' = Due(p, i)
      BY <2>3, <3>2 DEF One
    <3>4. One(dec_of(p, i)' \in net') = One(dec_of(p, i) \in net)
      BY <1>1, <3>2 DEF One
    <3> QED
      BY <2>2, <3>1, <3>3, <3>4 DEF Slot
  <2> QED
    BY <2>5, <2>6
<1>10. ASSUME NEW p \in PEs, NEW i \in Slots \ Rounds PROVE psync'[p][i] = 0
  <2>1. psync[p][i] = 0
    BY DEF DissemState, DissemInv, SlotInv
  <2> QED
    BY <1>8, <2>1
<1> QED
  BY <1>1, <1>9, <1>10 DEF DissemInv, SlotInv

-----------------------------------------------------------------------------
(* The invariant of all calls. *)

(* A call of shmem_internal_sync runs one of the algorithms, or none. *)
LEMMA Modes ==
  ASSUME job \in Jobs
  PROVE  PE_size = 1 \/ Treelike \/ Dissem
  BY JobFacts DEF Treelike, Dissem

(* The invariant holds at the start. *)
LEMMA SyncInit ==
  ASSUME Init
  PROVE  SyncInv
<1>1. /\ job \in Jobs /\ psync = [p \in PEs |-> [s \in Slots |-> 0]] /\ net = {}
      /\ pc = [p \in PEs |-> "out"] /\ entered = [p \in PEs |-> 0]
      /\ left = [p \in PEs |-> 0] /\ iter = [p \in PEs |-> 0]
  BY DEF Init, NetInit
<1>2. 0 \in 0 .. Len(Calls) /\ PE_size \in Nat \ {0}
  BY <1>1, JobFacts
<1>3. \A p \in PEs : pc[p] = "out" /\ entered[p] = 0 /\ left[p] = 0 /\ iter[p] = 0
                     /\ \A s \in Slots : psync[p][s] = 0
  BY <1>1
<1>4. CallInv
  <2>1. "out" \in Labels
    BY DEF Labels
  <2> QED
    BY <1>1, <1>2, <2>1 DEF CallInv
<1>5. SafeInv
  BY <1>3 DEF SafeInv
<1>6. DataInv
  BY <1>1 DEF DataInv
<1>7. PE_size = 1 => SoloInv
  BY <1>1 DEF SoloInv
<1>8. ASSUME Treelike PROVE TreeInv
  <2>1. "out" \in Before /\ "out" \notin Waits /\ "out" \notin Clears
    BY DEF Before, Waits, Clears
  <2>2. \A p \in PEs \ {Root} : par(p) \in PEs
    BY <1>1, <1>8, TreeFacts
  <2>3. LabelInv
    BY <1>3, <2>1 DEF LabelInv, Label
  <2>4. EdgeInv
    BY <1>3, <2>1, <2>2 DEF EdgeInv, Edge
  <2>5. FlightInv
    BY <1>1 DEF FlightInv
  <2>6. ASSUME NEW p \in PEs PROVE Word(p)
    <3>1. kids(p) \subseteq PEs
      BY <1>1, <1>8, TreeFacts
    <3>2. In(p) = {}
      BY <1>3, <2>1, <3>1 DEF In, CalledIn
    <3>3. Cardinality(In(p)) = 0
      BY <3>2, FS_EmptySet
    <3>4. 0 \in Slots
      BY <1>1, JobFacts
    <3> QED
      BY <1>3, <2>1, <3>3, <3>4 DEF Word
  <2> QED
    BY <1>1, <2>3, <2>4, <2>5, <2>6 DEF TreeInv, WordInv
<1>9. ASSUME Dissem PROVE DissemInv
  <2>1. RoundInv
    BY <1>3 DEF RoundInv, Round
  <2>2. SignalInv
    BY <1>1 DEF SignalInv
  <2>3. KnowInv
    BY <1>3 DEF KnowInv, Know
  <2>4. ASSUME NEW p \in PEs, NEW i \in Rounds PROVE Slot(p, i)
    <3>1. back(p, shl[i]) \in PEs
      <4>1. shl[i] \in 0 .. PE_size - 1
        <5>1. i \in Nat /\ shl[i] < PE_size
          BY <1>1, JobFacts DEF Rounds
        <5> QED
          BY <1>2, <5>1, ShlIs
      <4> QED
        BY <1>1, <4>1, Ring
    <3>2. Sent(back(p, shl[i]), i) = 0 /\ Taken(p, i) = 0
      BY <1>3, <3>1 DEF Sent, Taken
    <3>3. Due(p, i) = 0 - 0 - 0
      BY <1>1, <3>2 DEF Due, One
    <3>4. psync[p][i] = 0
      BY <1>3 DEF Rounds
    <3> QED
      BY <1>1, <3>3, <3>4 DEF Slot, One
  <2>5. SlotInv
    BY <1>3, <2>4 DEF SlotInv
  <2> QED
    BY <2>1, <2>2, <2>3, <2>5 DEF DissemInv
<1> QED
  BY <1>4, <1>5, <1>6, <1>7, <1>8, <1>9 DEF SyncInv

(* The PEs are at program points of their algorithm. *)
LEMMA PcIs ==
  ASSUME CallInv, NEW p \in PEs
  PROVE  /\ PE_size = 1 => pc[p] \in {"out", "alone"}
         /\ Treelike => pc[p] \in {"out"} \cup (IF algorithm = "linear" THEN linear_labels
                                                ELSE tree_labels)
         /\ Dissem => pc[p] \in {"out"} \cup dissem_labels
<1>1. pc[p] \in Labels /\ PE_size \in Nat
  BY JobFacts DEF CallInv
<1> QED
  BY <1>1 DEF Labels, Treelike, Dissem

(* A step inside a call. *)
LEMMA SyncStep ==
  ASSUME SyncInv, NEW p, sync(p)
  PROVE  SyncInv' /\ p \in PEs /\ (Moves(p) \/ Leaves(p))
<1> USE DEF SyncInv
<1>1. p \in PEs /\ job \in Jobs /\ Called /\ iter \in [PEs -> Nat]
  BY DEF sync, Called, CallInv
<1>2. CASE PE_size = 1
  <2>1. pc[p] \in {"out", "alone"}
    BY <1>1, <1>2, PcIs
  <2>2. alone(p) /\ UNCHANGED iter
    BY <2>1 DEF sync, sync_linear, sync_tree, sync_dissem, root_wait, root_acks, send,
                ack_wait, ack_clear, root_callins, middle_callins, middle_ack, leaf_send,
                leaf_ack, acks, signal, wait, finish
  <2>3. /\ UNCHANGED <<job, psync, net, entered, iter>> /\ pc[p] # "out" /\ leave(p)
    BY <2>2 DEF alone
  <2>4. PEs = {p}
    <3>1. 0 .. PE_size - 1 = {0}
      BY <1>2
    <3> QED
      BY <1>1, <3>1 DEF PEs
  <2>5. left[p] + 1 <= entered[p]
    BY <1>1, <2>3, CallNumbers
  <2>6. Leaves(p)
    BY <2>3, <2>4, <2>5 DEF Leaves, Issues, CallInv
  <2>7. Called'
    BY <1>1, <2>3, <2>6, LeavesCalled
  <2>8. /\ PEs' = PEs /\ Slots' = Slots /\ PE_size' = 1 /\ ~ Treelike' /\ ~ Dissem'
    BY <1>2, <2>3, JobSame DEF Treelike, Dissem, Slots
  <2>9. SoloInv'
    BY <1>2, <2>3, <2>8 DEF SoloInv
  <2> QED
    BY <1>1, <2>6, <2>7, <2>8, <2>9 DEF Called
<1>3. CASE Treelike
  <2>1. TreeState
    BY <1>3 DEF TreeState
  <2>2. PE_size # 1 /\ ~ Dissem
    BY <1>1, <1>3, JobFacts DEF Treelike, Dissem
  <2>3. TreeInv' /\ (Moves(p) \/ Leaves(p)) /\ UNCHANGED iter
    <3>1. CASE algorithm = "linear"
      <4>1. pc[p] \in {"out"} \cup linear_labels
        BY <1>1, <1>3, <3>1, PcIs
      <4>2. sync_linear(p) /\ UNCHANGED iter
        BY <4>1 DEF sync, alone, sync_tree, sync_dissem, linear_labels,
                root_callins, middle_callins, middle_ack, leaf_send,
                leaf_ack, acks, signal, wait, finish
      <4> QED
        BY <1>1, <2>1, <3>1, <4>2, LinearStep
    <3>2. CASE algorithm = "tree"
      <4>1. pc[p] \in {"out"} \cup tree_labels
        BY <1>1, <1>3, <3>2, PcIs
      <4>2. sync_tree(p) /\ UNCHANGED iter
        BY <4>1 DEF sync, alone, sync_linear, sync_dissem, tree_labels, root_wait, root_acks,
                send, ack_wait, ack_clear, signal, wait, finish
      <4> QED
        BY <1>1, <2>1, <3>2, <4>2, TreeStep
    <3> QED
      BY <1>3, <3>1, <3>2 DEF Treelike
  <2>4. UNCHANGED job
    BY <2>3 DEF Moves, Leaves
  <2>5. PE_size' # 1 /\ ~ Dissem'
    BY <2>2, <2>4, JobSame
  <2>6. Called'
    BY <1>1, <2>3, MovesCalled, LeavesCalled
  <2> QED
    BY <1>1, <2>3, <2>5, <2>6 DEF Called
<1>4. CASE Dissem
  <2>1. DissemState
    BY <1>4 DEF DissemState
  <2>2. PE_size # 1 /\ ~ Treelike
    BY <1>1, <1>4, JobFacts DEF Treelike, Dissem
  <2>3. pc[p] \in {"out"} \cup dissem_labels
    BY <1>1, <1>4, PcIs
  <2>4. sync_dissem(p)
    BY <2>3 DEF sync, alone, sync_linear, sync_tree, dissem_labels, root_wait, root_acks,
                send, ack_wait, ack_clear, root_callins, middle_callins, middle_ack, leaf_send,
                leaf_ack, acks
  <2>5. DissemInv' /\ (Moves(p) \/ Leaves(p)) /\ iter' \in [PEs -> Nat]
    <3>1. CASE signal(p)
      BY <1>1, <2>1, <3>1, DissemSignal DEF signal
    <3>2. CASE wait(p)
      BY <1>1, <2>1, <3>2, DissemWait
    <3>3. CASE finish(p)
      BY <1>1, <2>1, <3>3, DissemFinish
    <3> QED
      BY <2>4, <3>1, <3>2, <3>3 DEF sync_dissem
  <2>6. UNCHANGED job
    BY <2>5 DEF Moves, Leaves
  <2>7. PE_size' # 1 /\ ~ Treelike'
    BY <2>2, <2>6, JobSame
  <2>8. Called'
    BY <1>1, <2>5, MovesCalled, LeavesCalled
  <2> QED
    BY <1>1, <2>5, <2>7, <2>8 DEF Called
<1> QED
  BY <1>1, <1>2, <1>3, <1>4, Modes

(* The entry of a call. *)
LEMMA BarrierStep ==
  ASSUME SyncInv, NEW p, barrier(p)
  PROVE  SyncInv' /\ p \in PEs
<1> USE DEF SyncInv
<1>1. p \in PEs /\ job \in Jobs /\ Called
  BY DEF barrier, Called, CallInv
<1>2. /\ UNCHANGED <<job, psync, net, left, iter>> /\ pc[p] = "out"
      /\ pc' = [pc EXCEPT ![p] = start(p)] /\ entered' = [entered EXCEPT ![p] = @ + 1]
  BY DEF barrier, enter, Goto
<1>3. Called'
  BY <1>1, EnterCalled
<1>4. /\ PEs' = PEs /\ Root' = Root /\ Slots' = Slots /\ PE_size' = PE_size
      /\ (Treelike' <=> Treelike) /\ (Dissem' <=> Dissem)
  BY <1>2, JobSame DEF Slots
<1>5. PE_size = 1 => SoloInv'
  BY <1>2, <1>4 DEF SoloInv
<1>6. ASSUME Treelike PROVE TreeInv'
  <2>1. TreeState
    BY <1>6 DEF TreeState
  <2>2. /\ kids(Root) # {} /\ kids(p)' = kids(p)
    BY <1>1, <1>2, <1>6, TreeFacts, JobSame
  <2>3. pc'[p] = start(p) /\ PE_size # 1
    BY <1>1, <1>2, <1>6, JobFacts DEF CallInv, Treelike
  <2>4. CASE algorithm = "linear"
    <3>1. start(p) = IF p = Root THEN "root_wait" ELSE "send"
      BY <2>3, <2>4 DEF start, linear_start
    <3>2. start(p) \in Before /\ Label(p)'
      BY <1>4, <2>3, <3>1 DEF Before, Label, Waits
    <3> QED
      BY <1>1, <1>2, <2>1, <3>2, TreeEnter
  <2>5. CASE algorithm = "tree"
    <3>1. start(p) = IF kids(p) = {} THEN "leaf_send" ELSE "callins"
      BY <2>3, <2>5 DEF start, tree_start, kids
    <3>2. start(p) \in Before /\ Label(p)'
      BY <1>4, <2>2, <2>3, <3>1 DEF Before, Label, Waits
    <3> QED
      BY <1>1, <1>2, <2>1, <3>2, TreeEnter
  <2> QED
    BY <1>6, <2>4, <2>5 DEF Treelike
<1>7. ASSUME Dissem PROVE DissemInv'
  <2>1. DissemState
    BY <1>7 DEF DissemState
  <2>2. start(p) = "signal"
    BY <1>1, <1>7, JobFacts DEF Dissem, start
  <2> QED
    BY <1>1, <1>2, <2>1, <2>2, DissemEnter
<1> QED
  BY <1>1, <1>3, <1>4, <1>5, <1>6, <1>7 DEF Called

(* Only client data is put or arrives. *)
LEMMA DataStep ==
  ASSUME SyncInv, UNCHANGED <<job, psync, pc, entered, left, iter>>, net' \subseteq Msgs,
         \A m : m.kind # "data" => (m \in net' <=> m \in net),
         \A m \in net' : m.kind = "data" => m \in net \/ m.call = entered[m.src]
  PROVE  SyncInv'
<1> USE DEF SyncInv
<1>1. Called'
  BY NetCalled DEF Called, CallInv
<1>2. /\ PEs' = PEs /\ Slots' = Slots /\ PE_size' = PE_size
      /\ (Treelike' <=> Treelike) /\ (Dissem' <=> Dissem)
  BY JobSame DEF Slots
<1>3. PE_size = 1 => SoloInv'
  BY <1>2 DEF SoloInv
<1>4. Treelike => TreeInv'
  BY TreeData DEF TreeState
<1>5. Dissem => DissemInv'
  BY DissemData DEF DissemState
<1> QED
  BY <1>1, <1>2, <1>3, <1>4, <1>5 DEF Called

(* A user's put adds data of the current call. *)
LEMMA PutStep ==
  ASSUME SyncInv, NEW p, put_data(p)
  PROVE  SyncInv'
<1>1. /\ p \in PEs /\ CallInv /\ job \in Jobs /\ pc[p] = "out" /\ net' = net \cup {data_put(p)}
      /\ UNCHANGED <<job, psync, pc, entered, left, iter>>
  BY DEF put_data, UserPut, SyncInv, CallInv
<1>2. left[p] = entered[p] /\ left[p] \in Nat /\ 0 \in Slots
  BY <1>1, CallNumbers, JobFacts
<1>3. data_put(p) \in Msgs /\ data_put(p).kind = "data" /\ data_put(p).call = entered[p]
      /\ data_put(p).src = p
  BY <1>1, <1>2 DEF data_put, Msgs
<1>4. net' \subseteq Msgs
  BY <1>1, <1>3 DEF CallInv
<1> QED
  BY <1>1, <1>3, <1>4, DataStep

(* The arrival of data only takes it from the net. *)
LEMMA DeliverDataStep ==
  ASSUME SyncInv, NEW p, deliver_data(p)
  PROVE  SyncInv'
<1>1. PICK m \in net : m.kind = "data" /\ net' = net \ {m}
  BY DEF deliver_data, DeliverData
<1>2. UNCHANGED <<job, psync, pc, entered, left, iter>> /\ net' \subseteq Msgs
  BY <1>1 DEF deliver_data, DeliverData, SyncInv, CallInv
<1> QED
  BY <1>1, <1>2, DataStep

(* An operation on a pSync word arrives. *)
LEMMA DeliverStep ==
  ASSUME SyncInv, NEW p, deliver(p)
  PROVE  SyncInv'
<1> USE DEF SyncInv
<1>1. PICK m \in net :
        /\ m.dst = p /\ m.kind \in {"put", "sum"} /\ net' = net \ {m}
        /\ psync' = [psync EXCEPT ![p][m.slot] = IF m.kind = "put" THEN m.val ELSE @ + m.val]
        /\ UNCHANGED <<job, pc, entered, left, iter>>
  BY DEF deliver, Deliver
<1>2. m \in Msgs /\ m.dst \in PEs /\ m.slot \in Slots /\ m.val \in Int /\ job \in Jobs
  BY DEF CallInv, Msgs
<1>3. psync' \in [PEs -> [Slots -> Int]]
  <2>1. (IF m.kind = "put" THEN m.val ELSE psync[p][m.slot] + m.val) \in Int
    BY <1>1, <1>2 DEF CallInv
  <2> QED
    BY <1>1, <1>2, <2>1 DEF CallInv
<1>4. Called'
  BY <1>1, <1>3, NetCalled DEF Called, CallInv
<1>5. /\ PE_size' = PE_size /\ (Treelike' <=> Treelike) /\ (Dissem' <=> Dissem)
  BY <1>1, JobSame
<1>6. PE_size # 1
  BY <1>1 DEF SoloInv
<1>7. Treelike => TreeInv'
  BY <1>1, TreeDeliver DEF TreeState
<1>8. Dissem => DissemInv'
  BY <1>1, DissemDeliver DEF DissemState
<1> QED
  BY <1>4, <1>5, <1>6, <1>7, <1>8 DEF Called

(* Every step keeps the invariant. *)
LEMMA SyncNext ==
  ASSUME SyncInv, [Next]_vars
  PROVE  SyncInv'
<1>1. CASE UNCHANGED vars
  <2>1. UNCHANGED <<job, psync, pc, entered, left, iter, net>>
    BY <1>1 DEF vars, netVars
  <2>2. net' \subseteq Msgs
    BY <2>1 DEF SyncInv, CallInv
  <2> QED
    BY <2>1, <2>2, DataStep
<1>2. CASE Finished /\ UNCHANGED iter
  <2>1. UNCHANGED vars
    BY <1>2 DEF Finished, vars, netVars
  <2> QED
    BY <1>1, <2>1
<1>3. CASE \E p \in AllPEs : \/ put_data(p) \/ barrier(p) \/ sync(p)
                             \/ deliver(p) \/ deliver_data(p)
  BY <1>3, PutStep, BarrierStep, SyncStep, DeliverStep, DeliverDataStep
<1> QED
  BY <1>1, <1>2, <1>3 DEF Next

(* Every call keeps the invariant, whatever the algorithm and the active set. *)
THEOREM SyncInvariant == Spec => []SyncInv
<1>1. Init => SyncInv
  BY SyncInit
<1>2. SyncInv /\ [Next]_vars => SyncInv'
  BY SyncNext
<1> QED
  BY <1>1, <1>2, PTL DEF Spec

-----------------------------------------------------------------------------
(* What the calls promise. *)

(* A put that precedes a shmem_barrier is complete when anybody leaves it. *)
THEOREM BarriersCompletePuts == Spec => []BarrierCompletesPuts
<1>1. SyncInv => BarrierCompletesPuts
  <2> SUFFICES ASSUME SyncInv, NEW m \in net, m.kind = "data", NEW p \in PEs,
                      NEW r \in m.call + 1 .. left[p]
               PROVE  Calls[r] # "barrier"
    BY DEF BarrierCompletesPuts
  <2>1. CallInv /\ m.src \in PEs /\ m.call \in Nat
    BY DEF SyncInv, CallInv, Msgs
  <2>2. left[p] <= entered[m.src] /\ left[p] \in Nat /\ entered[m.src] \in Nat
    BY <2>1, CallNumbers DEF SyncInv, SafeInv
  <2>3. r \in m.call + 1 .. entered[m.src]
    BY <2>1, <2>2
  <2> QED
    BY <2>3 DEF SyncInv, DataInv
<1> QED
  BY <1>1, SyncInvariant, PTL

(* When all PEs have made the same calls and are in none, the pSync array holds   *)
(* SHMEM_SYNC_VALUE everywhere and nothing is on its way to it.                   *)
THEOREM PSyncIsRestored == Spec => []PSyncRestored
<1>1. SyncInv => PSyncRestored
  <2> SUFFICES ASSUME SyncInv, \A p, q \in PEs : pc[p] = "out" /\ left[p] = left[q]
               PROVE  /\ \A p \in PEs, s \in Slots : psync[p][s] = 0
                      /\ \A m \in net : m.kind = "data"
    BY DEF PSyncRestored
  <2>1. CallInv /\ job \in Jobs /\ \A m \in net : m.src \in PEs /\ m.dst \in PEs
    BY DEF SyncInv, CallInv, Msgs
  <2>2. CASE PE_size = 1
    BY <2>2 DEF SyncInv, SoloInv
  <2>3. CASE Treelike
    <3>1. TreeState
      BY <2>3 DEF SyncInv, TreeState
    <3>2. "out" \in Before /\ "out" \notin Waits /\ "out" \notin Clears
      BY DEF Before, Waits, Clears
    <3>3. \A m \in net : m.kind = "data"
      BY <2>1, <3>1, <3>2 DEF TreeState, TreeInv, FlightInv, Flight, CalledIn, Released
    <3>4. ASSUME NEW p \in PEs, NEW s \in Slots PROVE psync[p][s] = 0
      <4>1. kids(p) \subseteq PEs
        BY <3>1, TreeStateFacts
      <4>2. In(p) = {}
        BY <3>2, <4>1 DEF In, CalledIn
      <4>3. Cardinality(In(p)) = 0
        BY <4>2, FS_EmptySet
      <4> QED
        BY <3>1, <3>2, <4>3 DEF TreeState, TreeInv, WordInv, Word
    <3> QED
      BY <3>3, <3>4
  <2>4. CASE Dissem
    <3>1. DissemState
      BY <2>4 DEF SyncInv, DissemState
    <3>2. \A m \in net : m.kind = "data"
      BY <2>1, <3>1 DEF DissemState, DissemInv, SignalInv, Signal
    <3>3. ASSUME NEW p \in PEs, NEW s \in Rounds PROVE psync[p][s] = 0
      <4>1. PICK b \in PEs : b = back(p, shl[s])
        BY <3>1, DissemFacts
      <4>2. Sent(b, s) = left[p] /\ Taken(p, s) = left[p] /\ left[p] \in Nat
        BY <2>1, CallNumbers DEF Sent, Taken
      <4>3. sig_of(b, s) \notin net /\ dec_of(p, s) \notin net
        BY <3>2, SignalsDiffer
      <4>4. Due(p, s) = left[p] - left[p] - 0
        BY <4>1, <4>2, <4>3 DEF Due, One
      <4>5. psync[p][s] = Due(p, s) + 0
        BY <3>1, <4>3 DEF DissemState, DissemInv, SlotInv, Slot, One
      <4> QED
        BY <4>2, <4>4, <4>5
    <3> QED
      BY <3>1, <3>2, <3>3 DEF DissemState, DissemInv, SlotInv
  <2> QED
    BY <2>1, <2>2, <2>3, <2>4, Modes
<1> QED
  BY <1>1, SyncInvariant, PTL

(* The word of a PE in a tree: never more than its children and its parent. *)
LEMMA TreeWords ==
  ASSUME TreeState, NEW p \in PEs
  PROVE  psync[p][0] \in 0 .. Cardinality(kids(p)) + (IF p = Root THEN 0 ELSE 1)
<1>1. Cardinality(kids(p)) \in Nat /\ Cardinality(In(p)) \in Nat
  BY TreeStateFacts
<1>2. Cardinality(In(p)) <= Cardinality(kids(p))
  <2>1. IsFiniteSet(kids(p)) /\ In(p) \in SUBSET kids(p)
    BY TreeStateFacts DEF In
  <2> QED
    BY <2>1, FS_Subset
<1>3. pc[p] \in Before \cup Waits \cup Clears /\ (pc[p] \in Waits => p # Root)
  BY TreeStateFacts DEF TreeState, TreeInv, LabelInv, Label
<1>4. Word(p)
  BY DEF TreeState, TreeInv, WordInv
<1>5. CASE pc[p] \in Before
  BY <1>1, <1>2, <1>4, <1>5 DEF Word
<1>6. CASE pc[p] \in Waits
  BY <1>1, <1>3, <1>4, <1>6 DEF Word
<1>7. CASE pc[p] \in Clears
  BY <1>1, <1>4, <1>7 DEF Word
<1> QED
  BY <1>3, <1>5, <1>6, <1>7

(* A slot of the dissemination barrier never holds more than two. *)
LEMMA DissemWords ==
  ASSUME DissemState, NEW p \in PEs, NEW i \in Slots
  PROVE  psync[p][i] \in 0 .. 2
<1>1. CASE i \notin Rounds
  BY <1>1 DEF DissemState, DissemInv, SlotInv
<1>2. CASE i \in Rounds
  <2>1. PICK b \in PEs : b = back(p, shl[i])
    BY <1>2, DissemFacts
  <2>2. i \in Nat /\ Slot(p, i)
    BY <1>2, DissemFacts DEF DissemState, DissemInv, SlotInv
  <2>3. /\ entered[b] \in Nat /\ left[b] \in Nat /\ entered[p] \in Nat /\ left[p] \in Nat
        /\ entered[b] <= left[b] + 1 /\ left[b] <= entered[p] /\ entered[p] <= left[p] + 1
    <3>1. \A q \in PEs : entered[q] \in Nat /\ left[q] \in Nat
                         /\ (pc[q] = "out" => entered[q] = left[q])
                         /\ (pc[q] # "out" => entered[q] = left[q] + 1)
      BY DissemFacts
    <3> QED
      BY <3>1 DEF DissemState, SafeInv
  <2>4. /\ Sent(b, i) \in {entered[b], left[b]} /\ Taken(p, i) \in {entered[p], left[p]}
        /\ Sent(b, i) <= entered[b] /\ Taken(p, i) >= left[p]
    <3>1. left[b] <= entered[b] /\ left[p] <= entered[p]
      BY CallNumbers DEF DissemState
    <3> QED
      BY <2>3, <3>1 DEF Sent, Taken
  <2>5. Due(p, i) \in {Sent(b, i) - Taken(p, i) - 0, Sent(b, i) - Taken(p, i) - 1}
    BY <2>1 DEF Due, One
  <2>6. Due(p, i) >= 0 /\ Due(p, i) <= Sent(b, i) - Taken(p, i) /\ Due(p, i) \in Int
    BY <2>2, <2>3, <2>4, <2>5 DEF Slot
  <2>7. CASE dec_of(p, i) \in net
    <3>1. Taken(p, i) = entered[p]
      <4>1. Signal(dec_of(p, i)) /\ dec_of(p, i).src = p /\ dec_of(p, i).slot = i
        BY <2>7, SignalsDiffer DEF DissemState, DissemInv, SignalInv
      <4> QED
        BY <4>1, SignalsDiffer DEF Signal
    <3>2. psync[p][i] = Due(p, i) + 1
      BY <2>2, <2>7 DEF Slot, One
    <3> QED
      BY <2>3, <2>4, <2>6, <3>1, <3>2
  <2>8. CASE dec_of(p, i) \notin net
    <3>1. psync[p][i] = Due(p, i) + 0
      BY <2>2, <2>8 DEF Slot, One
    <3> QED
      BY <2>3, <2>4, <2>6, <3>1
  <2> QED
    BY <2>7, <2>8
<1> QED
  BY <1>1, <1>2

(* No pSync word runs over: no child of the next call is counted on top of this      *)
(* call's, and the assertion of the dissemination barrier on its slots holds.        *)
THEOREM WordsAreBounded == Spec => []WordsBounded
<1>1. ASSUME SyncInv PROVE WordsBounded
  <2> USE <1>1
  <2>1. CallInv /\ job \in Jobs
    BY DEF SyncInv, CallInv
  <2>2. /\ Root \in PEs /\ PE_size \in Nat \ {0} /\ 0 \in Slots /\ Slots \subseteq Nat
        /\ IsFiniteSet(PEs) /\ Cardinality(PEs) = PE_size /\ NumSlots \in Nat
        /\ algorithm \in {"linear", "tree", "dissem"}
    BY <2>1, JobFacts, RadixAssumption
  <2>3. PE_size = 1 \/ Treelike \/ Dissem
    BY <2>1, Modes
  <2>4. iter \in [PEs -> 0 .. NumSlots]
    <3>1. CASE PE_size = 1
      BY <2>2, <3>1 DEF SyncInv, SoloInv
    <3>2. CASE Treelike
      BY <2>2, <3>2 DEF SyncInv, TreeInv
    <3>3. CASE Dissem
      <4>1. ASSUME NEW p \in PEs PROVE iter[p] \in 0 .. NumSlots
        <5>1. iter[p] \in Nat /\ \A i \in 0 .. iter[p] - 1 : i \in Rounds
          BY <2>1, <3>3 DEF CallInv, SyncInv, DissemInv, RoundInv, Round
        <5>2. iter[p] # 0 => iter[p] - 1 \in 0 .. NumSlots - 1
          BY <5>1 DEF Rounds, Slots
        <5> QED
          BY <2>2, <5>1, <5>2
      <4> QED
        BY <2>1, <4>1 DEF CallInv
    <3> QED
      BY <2>3, <3>1, <3>2, <3>3
  <2>5. TypeOK
    <3>1. pc \in [PEs -> Labels]
      BY <2>1 DEF CallInv
    <3>2. NetTypeOK
      BY <2>1 DEF CallInv, NetTypeOK, Msgs
    <3> QED
      BY <2>1, <2>4, <3>1, <3>2 DEF TypeOK, Labels
  <2>6. ASSUME NEW p \in PEs, algorithm = "linear"
        PROVE  psync[p][0] \in 0 .. (IF p = Root THEN PE_size - 1 ELSE 1)
    <3>1. CASE PE_size = 1
      BY <2>2, <3>1 DEF SyncInv, SoloInv
    <3>2. CASE PE_size # 1
      <4>1. TreeState
        BY <2>2, <2>6, <3>2 DEF SyncInv, TreeState, Treelike
      <4>2. kids(Root) = PEs \ {Root} /\ (p # Root => kids(p) = {})
        BY <2>6 DEF kids
      <4>3. Cardinality(kids(Root)) = PE_size - 1 /\ Cardinality({}) = 0
        BY <2>2, <4>2, FS_RemoveElement, FS_EmptySet
      <4>4. psync[p][0] \in 0 .. Cardinality(kids(p)) + (IF p = Root THEN 0 ELSE 1)
        BY <4>1, TreeWords
      <4>5. CASE p = Root
        <5>1. Cardinality(kids(p)) + 0 = PE_size - 1
          BY <2>2, <4>3, <4>5
        <5> QED
          BY <4>4, <4>5, <5>1
      <4>6. CASE p # Root
        <5>1. Cardinality(kids(p)) + 1 = 1
          BY <4>2, <4>3, <4>6
        <5> QED
          BY <4>4, <4>6, <5>1
      <4> QED
        BY <4>5, <4>6
    <3> QED
      BY <3>1, <3>2
  <2>7. ASSUME NEW p \in PEs, algorithm = "tree", PE_size > 1
        PROVE  psync[p][0] \in 0 .. num_children(p) + (IF parent(p) = p THEN 0 ELSE 1)
    <3>1. TreeState
      BY <2>2, <2>7 DEF SyncInv, TreeState, Treelike
    <3>2. par(p) = parent(p) /\ kids(p) = children(p)
      BY <2>7 DEF par, kids
    <3>3. parent(p) = p <=> p = Root
      <4>1. par(Root) = Root /\ (p # Root => par(p) < p) /\ p \in Nat
        BY <2>1, <3>1, TreeFacts, TreeStateFacts DEF TreeState
      <4> QED
        BY <3>2, <4>1
    <3>4. psync[p][0] \in 0 .. Cardinality(kids(p)) + (IF p = Root THEN 0 ELSE 1)
      BY <3>1, TreeWords
    <3> QED
      BY <3>2, <3>3, <3>4 DEF num_children
  <2>8. ASSUME NEW p \in PEs, algorithm = "dissem", NEW s \in Slots
        PROVE  psync[p][s] \in 0 .. 2
    <3>1. CASE PE_size = 1
      BY <2>2, <3>1 DEF SyncInv, SoloInv
    <3>2. CASE PE_size # 1
      <4>1. DissemState
        BY <2>2, <2>8, <3>2 DEF SyncInv, DissemState, Dissem
      <4> QED
        BY <4>1, DissemWords
    <3> QED
      BY <3>1, <3>2
  <2> QED
    BY <2>5, <2>6, <2>7, <2>8 DEF WordsBounded
<1> QED
  BY <1>1, SyncInvariant, PTL

(* Linear, tree or dissemination, the calls are those of the abstract barrier: each  *)
(* step is a PE's entry of its next call, its return from a call that everybody has  *)
(* entered, or none of these.                                                        *)
THEOREM CallsAreBarriers ==
  Spec => Barrier!BarrierInit /\ [][Barrier!BarrierNext]_<<entered, left>>
<1>1. Init => Barrier!BarrierInit
  <2> SUFFICES ASSUME Init PROVE Barrier!BarrierInit
    OBVIOUS
  <2>1. job \in Jobs /\ entered = [p \in PEs |-> 0] /\ left = [p \in PEs |-> 0]
    BY DEF Init, NetInit
  <2>2. PEs \subseteq AllPEs /\ DOMAIN entered = PEs
    BY <2>1, JobFacts
  <2> QED
    BY <2>1, <2>2 DEF Barrier!BarrierInit, Barrier!ActiveSet
<1>2. SyncInv /\ [Next]_vars => [Barrier!BarrierNext]_<<entered, left>>
  <2> SUFFICES ASSUME SyncInv, [Next]_vars
               PROVE  Barrier!BarrierNext \/ UNCHANGED <<entered, left>>
    OBVIOUS
  <2>1. CallInv /\ DOMAIN entered = PEs /\ PEs \subseteq AllPEs
    BY JobFacts DEF SyncInv, CallInv
  <2>2. CASE UNCHANGED vars
    BY <2>2 DEF vars, netVars
  <2>3. CASE Finished
    BY <2>3 DEF Finished, netVars
  <2>4. ASSUME NEW p \in AllPEs,
               put_data(p) \/ barrier(p) \/ sync(p) \/ deliver(p) \/ deliver_data(p)
        PROVE  Barrier!BarrierNext \/ UNCHANGED <<entered, left>>
    <3>1. CASE put_data(p) \/ deliver(p) \/ deliver_data(p)
      BY <3>1 DEF put_data, deliver, deliver_data, UserPut, Deliver, DeliverData
    <3>2. CASE barrier(p)
      <4>1. p \in PEs /\ pc[p] = "out" /\ entered' = [entered EXCEPT ![p] = @ + 1]
            /\ UNCHANGED left
        BY <3>2 DEF barrier, enter
      <4>2. entered[p] = left[p]
        BY <2>1, <4>1, CallNumbers
      <4>3. Barrier!EnterCall(p)
        BY <2>1, <4>1, <4>2 DEF Barrier!EnterCall, Barrier!ActiveSet
      <4> QED
        BY <4>3 DEF Barrier!BarrierNext
    <3>3. CASE sync(p)
      <4>1. p \in PEs /\ (Moves(p) \/ Leaves(p))
        BY <3>3, SyncStep
      <4>2. CASE Moves(p)
        BY <4>2 DEF Moves
      <4>3. CASE Leaves(p)
        <5>1. entered[p] = left[p] + 1
          BY <2>1, <4>1, <4>3, CallNumbers DEF Leaves
        <5>2. \A q \in PEs : entered[q] >= entered[p]
          <6>1. \A q \in PEs : left[p] + 1 <= entered[q] /\ entered[q] \in Nat
            BY <2>1, <4>3, CallNumbers DEF Leaves
          <6> QED
            BY <5>1, <6>1
        <5>3. Barrier!LeaveCall(p)
          BY <2>1, <4>1, <4>3, <5>1, <5>2 DEF Barrier!LeaveCall, Barrier!ActiveSet, Leaves, leave
        <5> QED
          BY <5>3 DEF Barrier!BarrierNext
      <4> QED
        BY <4>1, <4>2, <4>3
    <3> QED
      BY <2>4, <3>1, <3>2, <3>3
  <2> QED
    BY <2>2, <2>3, <2>4 DEF Next
<1> QED
  BY <1>1, <1>2, SyncInvariant, PTL DEF Spec
=============================================================================
