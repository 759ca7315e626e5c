--------------------------- MODULE CollectiveCalls ---------------------------
(***************************************************************************)
(* The members of an active set make the same collective calls, one after  *)
(* the other, with a pSync array and a target for each call but one source *)
(* buffer, which is written again as soon as a call has returned.          *)
(***************************************************************************)
EXTENDS Collectives

(* A call: what to do and with which algorithm, the lengths that the PEs     *)
(* pass (equal but for collect), whether target and source are one buffer.   *)
ASSUME JobsAssumption ==
  \A j \in Jobs :
    /\ j.PE_start \in Nat /\ j.PE_stride \in Nat \ {0} /\ j.PE_size \in Nat \ {0}
    /\ j.PE_start + (j.PE_size - 1) * j.PE_stride < j.num_pes
    /\ \A c \in DOMAIN j.calls : Len(j.calls[c].lens) = j.PE_size

AllPEs == 0 .. Max({j.num_pes : j \in Jobs}) - 1

program(p, c, k) ==
  CASE c.op = "bcast" ->
         bcast(p, target(k), source, c.lens[1], c.root, 0, TRUE, c.type)
    [] c.op = "reduce" ->
         op_to_all(p, target(k), IF c.inplace THEN target(k) ELSE source, c.lens[1],
                   c.type, c.bcast_type, c.atomic)
    [] c.op = "collect"   -> collect_linear(p, target(k), source, c.lens)
    [] c.op = "fcollect"  -> fcollect(p, target(k), source, c.lens[1], c.type, c.bcast_type)
    [] c.op = "alltoall"  -> alltoall(p, target(k), source, c.lens[1])
    [] c.op = "alltoalls" -> alltoalls(p, target(k), source, c.dst, c.sst, c.lens[1])

Init == MachineInit

(* The client fills its input and calls. *)
enter(p) ==
  /\ p \in PEs /\ prog[p] = <<>> /\ call[p] < Len(job.calls)
  /\ LET k == call[p] + 1
     IN  /\ call' = [call EXCEPT ![p] = k]
         /\ mem' = [mem EXCEPT ![p][IF job.calls[k].inplace THEN target(k) ELSE source] =
                      [e \in Elems |-> {contribution(rank(p), k, e)}]]
         /\ prog' = [prog EXCEPT ![p] = program(p, job.calls[k], k)]
  /\ offset' = [offset EXCEPT ![p] = 0]
  /\ UNCHANGED <<job, psync, net, epoch, arrived>>

Returned(p, k) == call[p] > k \/ (call[p] = k /\ prog[p] = <<>>)

Finished ==
  /\ \A p \in PEs : Returned(p, Len(job.calls))
  /\ net = {}
  /\ UNCHANGED vars

Next ==
  \/ \E p \in AllPEs : enter(p) \/ Execute(p) \/ Deliver(p)
  \/ Finished

Fairness ==
  \A p \in AllPEs : WF_vars(enter(p)) /\ WF_vars(Execute(p)) /\ WF_vars(Deliver(p))

Spec == Init /\ [][Next]_vars /\ Fairness

-----------------------------------------------------------------------------
Sum(lens, n) == FoldLeft(LAMBDA a, b : a + b, 0, SubSeq(lens, 1, n))

(* What element e of the target of call k is made of on PE number i; {} when *)
(* the call does not define it.                                              *)
Expected(c, k, i, e) ==
  LET n == c.lens[1]
      all == 0 .. PE_size - 1
  IN CASE c.op = "bcast" ->
            IF i # c.root /\ e < n THEN {contribution(c.root, k, e)} ELSE {}
       [] c.op = "reduce" ->
            IF e < n THEN {contribution(j, k, e) : j \in all} ELSE {}
       [] c.op = "collect" ->
            {contribution(j, k, e - Sum(c.lens, j)) :
               j \in {j \in all : e >= Sum(c.lens, j) /\ e < Sum(c.lens, j + 1)}}
       [] c.op = "fcollect" ->
            {contribution(j, k, e - j * n) : j \in {j \in all : e \div n = j}}
       [] c.op = "alltoall" ->
            {contribution(j, k, i * n + (e - j * n)) : j \in {j \in all : e \div n = j}}
       [] c.op = "alltoalls" ->
            {contribution(x[1], k, (i * n + x[2]) * c.sst) :
               x \in {x \in all \X (0 .. n - 1) : e = (x[1] * n + x[2]) * c.dst}}

(* A collective that has returned has its whole result, and nothing that is  *)
(* still on its way, nor the next use of the source, changes it any more.    *)
ResultIsComplete ==
  \A p \in PEs, k \in CallNumbers :
    Returned(p, k) =>
      \A e \in Elems :
        LET x == Expected(job.calls[k], k, rank(p), e)
        IN  x # {} => mem[p][target(k)][e] = x

(* Once all PEs have returned from a call, its pSync array holds             *)
(* SHMEM_SYNC_VALUE everywhere, and nothing that could change it is on its   *)
(* way any more: the array can be used again after a barrier.  What can be   *)
(* on its way is the put of zero by which the root of bcast_tree, when it    *)
(* waits for no acknowledgement, clears a word that is zero already.         *)
PSyncRestored ==
  \A k \in CallNumbers :
    (\A p \in PEs : Returned(p, k)) =>
      /\ \A p \in PEs, s \in Slots : psync[p][k][s] = 0
      /\ \A m \in net : m.id[1] = k => /\ m.what.kind # "sum"
                                       /\ m.what.kind = "words" => \A s \in DOMAIN m.what.words :
                                                                      m.what.words[s] = 0
=============================================================================
