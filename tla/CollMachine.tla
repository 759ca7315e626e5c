----------------------------- MODULE CollMachine -----------------------------
(***************************************************************************)
(* What the data collectives of src/src/collectives.c are made of.  Which  *)
(* calls a PE makes inside a collective depends on its place in the active *)
(* set alone; only its waits depend on the others.  So an algorithm is     *)
(* given, for each PE, as the sequence of its calls (module Collectives),  *)
(* and the actions here say what each kind of call does.                   *)
(*                                                                         *)
(* Puts and atomics are on their way when the call that issues them        *)
(* returns and arrive in any order, except that fence keeps those to one   *)
(* PE before it ahead of those after it.  put_nb is always followed by     *)
(* put_wait, so its source is read when it is issued; put_nbi may read its *)
(* source as late as it arrives.  barrier and sync are the abstract        *)
(* barrier that ShmemSync is shown to implement.                           *)
(***************************************************************************)
EXTENDS Integers, Sequences, SequencesExt, CollTree

CONSTANTS
  Jobs,        \* active sets and the calls their members make, see below
  MaxElems,    \* elements in a buffer
  NumSlots     \* words in a pSync array

ASSUME MachineAssumption == MaxElems \in Nat \ {0} /\ NumSlots \in Nat \ {0}

VARIABLES
  job,      \* the job at hand; it never changes
  mem,      \* the buffers of each PE
  psync,    \* psync[p][c]: the pSync array of call c on PE p
  net,      \* operations on their way
  epoch,    \* fences of each PE so far
  offset,   \* my_offset of collect_linear
  arrived,  \* barriers each PE has arrived at
  call,     \* calls each PE has entered
  prog      \* what each PE still has to do in its call; <<>> when outside

vars == <<job, mem, psync, net, epoch, offset, arrived, call, prog>>

PE_start  == job.PE_start
PE_stride == job.PE_stride
PE_size   == job.PE_size
num_pes   == job.num_pes

PE(i)   == PE_start + i * PE_stride
PEs     == {PE(i) : i \in 0 .. PE_size - 1}
rank(p) == (p - PE_start) \div PE_stride

Elems == 0 .. MaxElems - 1
Slots == 0 .. NumSlots - 1
CallNumbers == 1 .. Len(job.calls)

(* Each call has a target of its own; the source and temporaries are reused. *)
source    == <<"source", 0>>
current   == <<"current", 0>>
tmp       == <<"tmp", 0>>
target(c) == <<"target", c>>
Buffers   == {source, current, tmp} \cup {target(c) : c \in CallNumbers}

(* An element holds the set of the contributions it was made from: element e *)
(* that PE i supplies to call c.  Reducing one in twice leaves Twice behind. *)
Twice == <<-1, -1, -1>>
contribution(i, c, e) == <<i, c, e>>
op(x, y) == x \cup y \cup (IF x \cap y = {} THEN {} ELSE {Twice})

-----------------------------------------------------------------------------
(* The calls an algorithm is made of.  A block is n elements copied from      *)
(* offset off of one buffer to offset at of another.                          *)
Block(to, at, from, off, n) ==
  [to |-> to, at |-> at, from |-> from, off |-> off, n |-> n]

Put_nb(dsts, b)       == <<[op |-> "put_nb", dsts |-> dsts, b |-> b]>>
Put_nbi(dsts, b)      == <<[op |-> "put_nbi", dsts |-> dsts, b |-> b]>>
Atomicv(dst, b)       == <<[op |-> "atomicv", dsts |-> {dst}, b |-> b]>>
Put_scalar(dsts, s, v) == <<[op |-> "put_scalar", dsts |-> dsts, slot |-> s, val |-> v]>>
Atomic(dst, s, v)     == <<[op |-> "atomic", dsts |-> {dst}, slot |-> s, val |-> v]>>
Put_length(dst, len)  == <<[op |-> "put_length", dsts |-> {dst}, len |-> len]>>
Get_offset            == <<[op |-> "get_offset"]>>
Fence                 == <<[op |-> "fence"]>>
Quiet                 == <<[op |-> "quiet"]>>
WaitUntil(s, cmp, v)  == <<[op |-> "wait", slot |-> s, cmp |-> cmp, val |-> v]>>
Memcpy(b)             == <<[op |-> "memcpy", b |-> b]>>
Reduce_local(b)       == <<[op |-> "reduce", b |-> b]>>
Reset(slots)          == <<[op |-> "reset", slots |-> slots]>>
Sync                  == IF PE_size = 1 THEN <<>> ELSE <<[op |-> "arrive"], [op |-> "depart"]>>
Barrier               == Quiet \o Sync

(* pSync is cleared by a put to oneself, and one waits until it is there. *)
Clear(p, s) == Put_scalar({p}, s, 0) \o WaitUntil(s, "eq", 0)

-----------------------------------------------------------------------------
MachineInit ==
  /\ job \in Jobs
  /\ mem = [p \in PEs |-> [b \in Buffers |-> [e \in Elems |-> {}]]]
  /\ psync = [p \in PEs |-> [c \in CallNumbers |-> [s \in Slots |-> 0]]]
  /\ net = {}
  /\ epoch = [p \in PEs |-> 0]
  /\ offset = [p \in PEs |-> 0]
  /\ arrived = [p \in PEs |-> 0]
  /\ call = [p \in PEs |-> 0]
  /\ prog = [p \in PEs |-> <<>>]

At(p, k) == p \in PEs /\ prog[p] # <<>> /\ Head(prog[p]).op = k
ins(p)   == Head(prog[p])

(* On to the next call.  A fence is done together with the call before it:   *)
(* it only orders what its own PE issues later, so nobody can tell.          *)
fence(p) == Len(prog[p]) > 1 /\ prog[p][2].op = "fence"
Step(p) ==
  /\ prog' = [prog EXCEPT ![p] = IF fence(p) THEN Tail(Tail(@)) ELSE Tail(@)]
  /\ epoch' = [epoch EXCEPT ![p] = IF fence(p) THEN @ + 1 ELSE @]

read(p, b) == [e \in 0 .. b.n - 1 |-> mem[p][b.from][b.off + e]]

(* m with the values v put at, or reduced into, offset at of buffer to. *)
written(m, to, at, v) ==
  [m EXCEPT ![to] = [e \in Elems |-> IF e - at \in DOMAIN v THEN v[e - at] ELSE @[e]]]
reduced(m, to, at, v) ==
  [m EXCEPT ![to] = [e \in Elems |-> IF e - at \in DOMAIN v THEN op(@[e], v[e - at]) ELSE @[e]]]

(* A message is told apart by its sender's call and by how far that is. *)
issue(p, what) ==
  net' = net \cup
    {[src |-> p, dst |-> d, epoch |-> epoch[p], id |-> <<call[p], Len(prog[p])>>,
      what |-> what] : d \in ins(p).dsts}

(* A put of no elements is none. *)
issue_data(p, what) == IF ins(p).b.n = 0 THEN net' = net ELSE issue(p, what)

put_nb(p) ==
  /\ At(p, "put_nb") /\ Step(p)
  /\ issue_data(p, [kind |-> "put", to |-> ins(p).b.to, at |-> ins(p).b.at, val |-> read(p, ins(p).b)])
  /\ UNCHANGED <<job, mem, psync, offset, arrived, call>>

put_nbi(p) ==
  /\ At(p, "put_nbi") /\ Step(p)
  /\ issue_data(p, [kind |-> "nbi", b |-> [ins(p).b EXCEPT !.at = @ + offset[p]]])
  /\ UNCHANGED <<job, mem, psync, offset, arrived, call>>

atomicv(p) ==
  /\ At(p, "atomicv") /\ Step(p)
  /\ issue(p, [kind |-> "atomicv", to |-> ins(p).b.to, at |-> ins(p).b.at, val |-> read(p, ins(p).b)])
  /\ UNCHANGED <<job, mem, psync, offset, arrived, call>>

put_scalar(p) ==
  /\ At(p, "put_scalar") /\ Step(p)
  /\ issue(p, [kind |-> "words", words |-> (ins(p).slot :> ins(p).val)])
  /\ UNCHANGED <<job, mem, psync, offset, arrived, call>>

atomic(p) ==
  /\ At(p, "atomic") /\ Step(p)
  /\ issue(p, [kind |-> "sum", slot |-> ins(p).slot, val |-> ins(p).val])
  /\ UNCHANGED <<job, mem, psync, offset, arrived, call>>

(* collect_linear: one put of the length so far and of a flag behind it. *)
put_length(p) ==
  /\ At(p, "put_length") /\ Step(p)
  /\ issue(p, [kind |-> "words", words |-> (0 :> offset[p] + ins(p).len) @@ (1 :> 1)])
  /\ UNCHANGED <<job, mem, psync, offset, arrived, call>>

get_offset(p) ==
  /\ At(p, "get_offset") /\ Step(p)
  /\ offset' = [offset EXCEPT ![p] = psync[p][call[p]][0]]
  /\ UNCHANGED <<job, mem, psync, net, arrived, call>>

quiet(p) ==
  /\ At(p, "quiet") /\ Step(p)
  /\ \A m \in net : m.src # p
  /\ UNCHANGED <<job, mem, psync, net, offset, arrived, call>>

holds(x, cmp, v) == CASE cmp = "eq" -> x = v [] cmp = "ne" -> x # v [] cmp = "ge" -> x >= v

wait_until(p) ==
  /\ At(p, "wait") /\ Step(p)
  /\ holds(psync[p][call[p]][ins(p).slot], ins(p).cmp, ins(p).val)
  /\ UNCHANGED <<job, mem, psync, net, offset, arrived, call>>

memcpy(p) ==
  /\ At(p, "memcpy") /\ Step(p)
  /\ mem' = [mem EXCEPT ![p] = written(@, ins(p).b.to, ins(p).b.at, read(p, ins(p).b))]
  /\ UNCHANGED <<job, psync, net, offset, arrived, call>>

reduce_local(p) ==
  /\ At(p, "reduce") /\ Step(p)
  /\ mem' = [mem EXCEPT ![p] = reduced(@, ins(p).b.to, ins(p).b.at, read(p, ins(p).b))]
  /\ UNCHANGED <<job, psync, net, offset, arrived, call>>

reset(p) ==
  /\ At(p, "reset") /\ Step(p)
  /\ psync' = [psync EXCEPT ![p][call[p]] = [s \in Slots |-> IF s \in ins(p).slots THEN 0 ELSE @[s]]]
  /\ UNCHANGED <<job, mem, net, offset, arrived, call>>

arrive(p) ==
  /\ At(p, "arrive") /\ Step(p)
  /\ arrived' = [arrived EXCEPT ![p] = @ + 1]
  /\ UNCHANGED <<job, mem, psync, net, offset, call>>

depart(p) ==
  /\ At(p, "depart") /\ Step(p)
  /\ \A q \in PEs : arrived[q] >= arrived[p]
  /\ UNCHANGED <<job, mem, psync, net, offset, arrived, call>>

-----------------------------------------------------------------------------
(* The network completes an operation, unless one that a fence put before it *)
(* is still on its way to the same PE.                                       *)
Ready(m) == \A n \in net : n.src = m.src /\ n.dst = m.dst => n.epoch >= m.epoch

Deliver(p) ==
  \E m \in net :
    /\ m.dst = p /\ Ready(m)
    /\ net' = net \ {m}
    /\ mem' = CASE m.what.kind = "put" ->
                     [mem EXCEPT ![p] = written(@, m.what.to, m.what.at, m.what.val)]
                [] m.what.kind = "nbi" ->
                     [mem EXCEPT ![p] = written(@, m.what.b.to, m.what.b.at, read(m.src, m.what.b))]
                [] m.what.kind = "atomicv" ->
                     [mem EXCEPT ![p] = reduced(@, m.what.to, m.what.at, m.what.val)]
                [] OTHER -> mem
    /\ psync' = CASE m.what.kind = "words" -> [psync EXCEPT ![p][m.id[1]] = m.what.words @@ @]
                  [] m.what.kind = "sum"   -> [psync EXCEPT ![p][m.id[1]][m.what.slot] = @ + m.what.val]
                  [] OTHER -> psync
    /\ UNCHANGED <<job, epoch, offset, arrived, call, prog>>

(* One call inside a collective. *)
Execute(p) ==
  \/ put_nb(p) \/ put_nbi(p) \/ atomicv(p) \/ put_scalar(p) \/ atomic(p)
  \/ put_length(p) \/ get_offset(p) \/ quiet(p) \/ wait_until(p)
  \/ memcpy(p) \/ reduce_local(p) \/ reset(p) \/ arrive(p) \/ depart(p)
=============================================================================
