-------------------------- MODULE TransportProofs ---------------------------
(***************************************************************************)
(* Proofs about the transports of MCTransports, for every value of its     *)
(* constants: the wait (WaitUntil, as W) and UCX (Ucx, as U), then         *)
(* Portals 4 (Portals4, as P), then the contexts of the OFI transport      *)
(* (OfiContexts, as O).                                                    *)
(* Each part starts with its inductive invariant.                          *)
(***************************************************************************)
EXTENDS MCTransports, Sequences, FiniteSetTheorems, WellFoundedInduction, TLAPS

-----------------------------------------------------------------------------
(***************************************************************************)
(* The wait (WaitUntil, as W): the threshold SHMEM_WAIT_UNTIL_BLOCK sleeps *)
(* on is at most one ahead of the counter, so an update that is counted    *)
(* after the value was tested wakes it.                                    *)
(*                                                                         *)
(* UCX (Ucx, as U): the inductive invariant UcxInv says what the pc of a   *)
(* call implies about the operations it has posted (UcxCompletes,          *)
(* UcxNumbers), that a signal is posted only after its data is complete    *)
(* (UcxSignals), and that the compare and swap loop of a masked swap       *)
(* compares with the value it merged its bits into (UcxSwapCalls,          *)
(* UcxValues).  Steps are grouped by what they may do to the list of       *)
(* operations: append one (UcxPostsInv), none (UcxGoesOnInv), complete or  *)
(* land one.                                                               *)
(***************************************************************************)

(* target is at most one ahead of the counter while the call relies on it. *)
WaitInv ==
  /\ cntr \in Nat /\ uncounted \in Nat /\ target \in Nat
  /\ pc \in {"retest", "blocked"} => target <= cntr + 1
  /\ W!NoLostWakeup

(* Nobody waits yet. *)
LEMMA WaitInit == W!Init => WaitInv
  BY DEF W!Init, WaitInv, W!NoLostWakeup

(* Every step of a wait, or of an update, keeps the invariant. *)
LEMMA WaitNext == WaitInv /\ W!Next => WaitInv'
<1> SUFFICES ASSUME WaitInv, W!Next PROVE WaitInv'
  OBVIOUS
<1> USE DEF WaitInv, W!NoLostWakeup, W!Local, W!Goto, W!net, W!input, W!NextElem
<1>1. ASSUME NEW v \in W!Idx, W!Deliver(v) PROVE WaitInv'
  BY <1>1 DEF W!Deliver
<1>2. CASE W!CountIt
  BY <1>2 DEF W!CountIt
<1>3. CASE W!Enter
  BY <1>3 DEF W!Enter
<1>4. CASE W!wait_until_all
  BY <1>4 DEF W!wait_until_all
<1>5. CASE W!SHMEM_WAIT_UNTIL_POLL
  BY <1>5 DEF W!SHMEM_WAIT_UNTIL_POLL
<1>6. CASE W!SHMEM_WAIT_UNTIL_BLOCK
  BY <1>6 DEF W!SHMEM_WAIT_UNTIL_BLOCK, W!AfterGet
<1>7. CASE W!wait_until_any
  BY <1>7 DEF W!wait_until_any
<1>8. CASE W!Finished
  BY <1>8 DEF W!Finished, W!vars
<1> QED
  BY <1>1, <1>2, <1>3, <1>4, <1>5, <1>6, <1>7, <1>8 DEF W!Next

(* The waits stay out of the other transports' way. *)
WaitIndInv == transport = "wait" => WaitInv

(* However remote updates, their counting and the steps of the wait interleave, *)
(* SHMEM_WAIT_UNTIL_BLOCK does not sleep through the update it waits for: it     *)
(* reads the counter before it tests the variable for the last time.             *)
THEOREM WaitNeverSleepsThrough == Spec => []NoLostWakeup
<1>1. Init => WaitIndInv
  BY WaitInit DEF Init, WaitIndInv
<1>2. WaitIndInv /\ [Next]_vars => WaitIndInv'
  <2> SUFFICES ASSUME WaitIndInv, [Next]_vars, transport' = "wait" PROVE WaitInv'
    BY DEF WaitIndInv
  <2>1. CASE Next
    BY <2>1, WaitNext DEF Next, WaitIndInv
  <2>2. CASE UNCHANGED vars
    BY <2>2 DEF vars, waitOnly, WaitIndInv, WaitInv, W!NoLostWakeup
  <2> QED
    BY <2>1, <2>2
<1>3. WaitIndInv => NoLostWakeup
  BY DEF WaitIndInv, NoLostWakeup, WaitInv
<1> QED
  BY <1>1, <1>2, <1>3, PTL DEF Spec
-----------------------------------------------------------------------------
(* The UCX transport.  Its state, in types. *)

UcxWords == [masked : Threads \X Nat, other : Nat]
UcxArgs  == {"none"} \cup [cond : UcxWords, value : UcxWords]
UcxOps   == [by : Threads, num : Nat,
             kind : {"put_scalar", "put_nb", "put_nbi", "fetch", "nbi", "atomic", "cswap", "signal"},
             epoch : Nat, arg : UcxArgs, val : UcxWords,
             st : {"posted", "landed", "done"}, buf : BOOLEAN, req : {"none", "held", "freed"}]

UcxPoints ==
  U!Calls \cup {"idle", "scalar_check", "put_posted", "put_wait", "complete", "probe", "release",
                "mswap_read", "mswap_swap", "mswap_complete", "mswap_check", "signal_fence", "signal"}

UcxTypes ==
  /\ ops \in Seq(UcxOps) /\ epoch \in Nat /\ word \in UcxWords /\ remote \in Nat
  /\ pc \in [Threads -> UcxPoints] /\ cur \in [Threads -> Nat]
  /\ call \in [Threads -> [name : U!Calls \cup {"none"}, num : Nat, read : UcxWords]]

(* What a call must have finished before it returns. *)
UcxSettled(n) ==
  /\ ops[n].kind = "put_scalar" => ~ ops[n].buf
  /\ ops[n].kind \in {"fetch", "cswap"} => ops[n].st = "done"
  /\ ops[n].req # "held"

(* Where the thread is that still has to finish operation n. *)
UcxAt(l, n) ==
  \/ l = "scalar_check" /\ ops[n].kind = "put_scalar" /\ ops[n].req = "none"
  \/ l = "put_posted" /\ ops[n].kind = "put_nb"
  \/ l \in {"complete", "mswap_read"} /\ ops[n].kind = "fetch"
  \/ l = "mswap_complete" /\ ops[n].kind = "cswap"
  \/ l \in {"probe", "release"} /\ ops[n].kind \in {"nbi", "signal"}

UcxCompletes ==
  \A n \in DOMAIN ops :
    \/ UcxSettled(n)
    \/ /\ cur[ops[n].by] = n /\ ops[n].num = call[ops[n].by].num
       /\ UcxAt(pc[ops[n].by], n)

(* Calls are numbered, and a thread that waits for an operation has one. *)
UcxNumbers ==
  /\ \A n \in DOMAIN ops : ops[n].num <= call[ops[n].by].num /\ ops[n].epoch <= epoch
  /\ \A t \in Threads :
       pc[t] \in {"scalar_check", "put_posted", "complete", "probe", "release",
                  "mswap_read", "mswap_complete", "mswap_check"}
       => /\ cur[t] \in DOMAIN ops /\ ops[cur[t]].by = t
          /\ pc[t] \in {"complete", "mswap_read"} => ops[cur[t]].kind = "fetch"

(* The operations of one call: those before its signal have landed, or the   *)
(* worker has been told to keep them before it.                              *)
UcxSignals ==
  /\ \A t \in Threads : pc[t] = "signal" =>
       \A n \in DOMAIN ops : ops[n].by = t /\ ops[n].num = call[t].num =>
         U!Landed(n) \/ ops[n].epoch < epoch
  /\ \A n \in DOMAIN ops :
       ops[n].kind = "signal" /\ ops[n].num = call[ops[n].by].num
       => pc[ops[n].by] \in {"release", "idle"}
  /\ \A n, m \in DOMAIN ops :
       ops[m].kind = "signal" /\ n # m /\ ops[n].by = ops[m].by /\ ops[n].num = ops[m].num
       => U!Landed(n) \/ ops[n].epoch < ops[m].epoch

(* The masked swaps: the compare-and-swaps that found the word as read. *)
UcxSwapped(n) == ops[n].kind = "cswap" /\ U!Landed(n) /\ ops[n].val = ops[n].arg.cond
UcxFirst == <<MainThread, 0>>

UcxSwapCalls ==
  /\ \A n \in DOMAIN ops : ops[n].kind = "cswap" =>
       /\ ops[n].num > 0
       /\ ops[n].arg \in [cond : UcxWords, value : UcxWords]
       /\ ops[n].arg.value.masked = <<ops[n].by, ops[n].num>>
       /\ ops[n].arg.value.other = ops[n].arg.cond.other
  /\ \A t \in Threads :
       /\ pc[t] \in {"mswap", "mswap_read", "mswap_swap", "mswap_complete", "mswap_check"} =>
            /\ call[t].num > 0
            /\ \A n \in DOMAIN ops :
                 UcxSwapped(n) /\ ops[n].by = t /\ ops[n].num = call[t].num =>
                   pc[t] \in {"mswap_complete", "mswap_check"} /\ n = cur[t]
       /\ pc[t] \in {"mswap_complete", "mswap_check"} =>
            /\ ops[cur[t]].kind = "cswap" /\ ops[cur[t]].num = call[t].num
            /\ ops[cur[t]].arg.cond = call[t].read

(* Each value of the word is returned by at most one swap, and not while it  *)
(* is there.                                                                 *)
UcxValues ==
  /\ word.other = remote
  /\ \/ word.masked = UcxFirst
     \/ \E n \in DOMAIN ops : UcxSwapped(n) /\ word.masked = <<ops[n].by, ops[n].num>>
  /\ \A n \in DOMAIN ops : UcxSwapped(n) =>
       /\ ops[n].val.masked # word.masked
       /\ \/ ops[n].val.masked = UcxFirst
          \/ \E m \in DOMAIN ops :
               UcxSwapped(m) /\ ops[n].val.masked = <<ops[m].by, ops[m].num>>
  /\ \A n, m \in DOMAIN ops : UcxSwapped(n) /\ UcxSwapped(m) /\ n # m =>
       ops[n].val.masked # ops[m].val.masked
  /\ \A a \in swapped : \E n \in DOMAIN ops :
       UcxSwapped(n) /\ a = <<ops[n].by, ops[n].num, ops[n].val.masked>>

UcxInv == /\ UcxTypes /\ UcxCompletes /\ UcxNumbers /\ UcxSignals /\ U!SignalAfterData
          /\ UcxSwapCalls /\ UcxValues

UcxIndInv == transport = "ucx" => UcxInv

(* The transport starts with no operation. *)
LEMMA UcxInit == U!Init => UcxInv
<1> SUFFICES ASSUME U!Init PROVE UcxInv
  OBVIOUS
<1> USE DEF U!Init
<1>1. U!InitialWord \in UcxWords /\ U!InitialWord.masked = UcxFirst /\ U!InitialWord.other = 0
  BY TransportsAssumption DEF U!InitialWord, U!Mine, UcxWords, UcxFirst
<1>2. UcxTypes
  <2>1. ops \in Seq(UcxOps)
    OBVIOUS
  <2>2. call \in [Threads -> [name : U!Calls \cup {"none"}, num : Nat, read : UcxWords]]
    BY <1>1
  <2>3. pc \in [Threads -> UcxPoints] /\ cur \in [Threads -> Nat]
    BY DEF UcxPoints
  <2> QED
    BY <1>1, <2>1, <2>2, <2>3 DEF UcxTypes
<1>3. UcxValues
  BY <1>1 DEF UcxValues
<1> QED
  BY <1>2, <1>3 DEF UcxInv, UcxCompletes, UcxNumbers, UcxSignals, U!SignalAfterData, UcxSwapCalls

(* A step that lands no operation keeps what the masked swaps have returned. *)
LEMMA UcxValuesKept ==
  ASSUME UcxValues, UNCHANGED <<word, remote>>,
         DOMAIN ops \subseteq DOMAIN ops',
         \A n \in DOMAIN ops :
           /\ ops'[n].by = ops[n].by /\ ops'[n].num = ops[n].num /\ ops'[n].val = ops[n].val
           /\ UcxSwapped(n)' <=> UcxSwapped(n),
         \A n \in DOMAIN ops' : UcxSwapped(n)' => n \in DOMAIN ops,
         \A a \in swapped' : a \notin swapped =>
           \E n \in DOMAIN ops :
             UcxSwapped(n) /\ a = <<ops[n].by, ops[n].num, ops[n].val.masked>>
  PROVE  UcxValues'
<1>1. word'.other = remote'
  BY DEF UcxValues
<1>2. \/ word'.masked = UcxFirst
      \/ \E n \in DOMAIN ops' : UcxSwapped(n)' /\ word'.masked = <<ops'[n].by, ops'[n].num>>
  BY DEF UcxValues
<1>3. ASSUME NEW n \in DOMAIN ops', UcxSwapped(n)'
      PROVE  /\ ops'[n].val.masked # word'.masked
             /\ \/ ops'[n].val.masked = UcxFirst
                \/ \E m \in DOMAIN ops' :
                     UcxSwapped(m)' /\ ops'[n].val.masked = <<ops'[m].by, ops'[m].num>>
  <2>1. n \in DOMAIN ops /\ UcxSwapped(n) /\ ops'[n].val = ops[n].val
    BY <1>3
  <2>2. ops[n].val.masked # word.masked
    BY <2>1 DEF UcxValues
  <2>3. \/ ops[n].val.masked = UcxFirst
        \/ \E m \in DOMAIN ops : UcxSwapped(m) /\ ops[n].val.masked = <<ops[m].by, ops[m].num>>
    BY <2>1 DEF UcxValues
  <2> QED
    BY <2>1, <2>2, <2>3
<1>4. ASSUME NEW n \in DOMAIN ops', NEW m \in DOMAIN ops', UcxSwapped(n)', UcxSwapped(m)', n # m
      PROVE  ops'[n].val.masked # ops'[m].val.masked
  BY <1>4 DEF UcxValues
<1>5. ASSUME NEW a \in swapped'
      PROVE  \E n \in DOMAIN ops' :
               UcxSwapped(n)' /\ a = <<ops'[n].by, ops'[n].num, ops'[n].val.masked>>
  <2>1. PICK n \in DOMAIN ops : UcxSwapped(n) /\ a = <<ops[n].by, ops[n].num, ops[n].val.masked>>
    BY DEF UcxValues
  <2> QED
    BY <2>1
<1> QED
  BY <1>1, <1>2, <1>3, <1>4, <1>5 DEF UcxValues, UcxFirst

(* A step of thread t that gives operation r to UCX. *)
UcxPosts(t, r, l) ==
  /\ r.by = t /\ r.num = call[t].num /\ r.epoch = epoch /\ r.st = "posted"
  /\ ops' = Append(ops, r)
  /\ cur' = [cur EXCEPT ![t] = Len(ops) + 1]
  /\ pc' = [pc EXCEPT ![t] = l]
  /\ UNCHANGED <<epoch, word, remote, call, swapped>>

(* It finds nothing unfinished behind it and leads to where r is finished. *)
UcxPostsInTurn(t, r, l) ==
  /\ pc[t] \notin {"idle", "release", "scalar_check", "put_posted", "complete", "probe",
                   "mswap_read", "mswap_complete", "mswap_check"}
  /\ l \notin {"mswap", "mswap_swap", "mswap_check", "signal"}
  /\ r.kind = "signal" => pc[t] = "signal" /\ l \in {"release", "idle"}
  /\ r.kind = "cswap" <=> l = "mswap_complete"
  /\ r.kind = "fetch" <=> l \in {"complete", "mswap_read"}
  /\ l = "mswap_read" => pc[t] = "mswap"
  /\ l = "mswap_complete" => pc[t] = "mswap_swap" /\ r.arg = [cond |-> call[t].read, value |-> U!mswap_new(t)]
  /\ \/ /\ r.kind = "put_scalar" => ~ r.buf
        /\ r.kind \notin {"fetch", "cswap"}
        /\ r.req # "held"
     \/ l = "scalar_check" /\ r.kind = "put_scalar" /\ r.req = "none"
     \/ l = "put_posted" /\ r.kind = "put_nb"
     \/ l \in {"complete", "mswap_read"} /\ r.kind = "fetch"
     \/ l = "mswap_complete" /\ r.kind = "cswap"
     \/ l \in {"probe", "release"} /\ r.kind \in {"nbi", "signal"}

(* Posting keeps the invariant. *)
LEMMA UcxPostsInv ==
  ASSUME UcxInv, NEW t \in Threads, NEW r \in UcxOps, NEW l \in UcxPoints,
         UcxPosts(t, r, l), UcxPostsInTurn(t, r, l)
  PROVE  UcxInv'
<1>0. PICK N \in Nat : N = Len(ops)
  BY DEF UcxInv, UcxTypes
<1>1. /\ N \in Nat /\ DOMAIN ops = 1 .. N /\ DOMAIN ops' = 1 .. N + 1
      /\ ops' \in Seq(UcxOps)
      /\ ops'[N + 1] = r /\ \A n \in 1 .. N : ops'[n] = ops[n] /\ ops[n] \in UcxOps
  BY <1>0 DEF UcxInv, UcxTypes, UcxPosts
<1>2. /\ \A u \in Threads \ {t} : pc'[u] = pc[u] /\ cur'[u] = cur[u]
      /\ pc'[t] = l /\ cur'[t] = N + 1
      /\ epoch' = epoch /\ word' = word /\ remote' = remote /\ call' = call /\ swapped' = swapped
  BY <1>0 DEF UcxInv, UcxTypes, UcxPosts
<1>3. UcxTypes'
  BY <1>1, <1>2 DEF UcxInv, UcxTypes, UcxPosts
<1>4. UcxCompletes'
  <2> SUFFICES ASSUME NEW n \in DOMAIN ops', ~ UcxSettled(n)'
               PROVE  /\ cur'[ops'[n].by] = n /\ ops'[n].num = call'[ops'[n].by].num
                      /\ UcxAt(pc[ops[n].by], n)'
    BY DEF UcxCompletes
  <2>1. CASE n = N + 1
    BY <1>1, <1>2, <2>1 DEF UcxPosts, UcxPostsInTurn, UcxSettled, UcxAt
  <2>2. CASE n \in DOMAIN ops
    <3>1. ~ UcxSettled(n) /\ ops[n].by \in Threads
      BY <1>1, <2>2 DEF UcxSettled, UcxOps
    <3>2. ops[n].by # t
      BY <2>2, <3>1 DEF UcxInv, UcxCompletes, UcxAt, UcxPostsInTurn
    <3> QED
      BY <1>1, <1>2, <2>2, <3>1, <3>2 DEF UcxInv, UcxCompletes, UcxAt
  <2> QED
    BY <1>1, <2>1, <2>2
<1>5. UcxNumbers'
  <2>1. ASSUME NEW n \in DOMAIN ops'
        PROVE  ops'[n].num <= call'[ops'[n].by].num /\ ops'[n].epoch <= epoch'
    <3>1. CASE n = N + 1
      BY <1>1, <1>2, <3>1 DEF UcxInv, UcxTypes, UcxPosts
    <3>2. CASE n \in 1 .. N
      BY <1>1, <1>2, <3>2 DEF UcxInv, UcxNumbers
    <3> QED
      BY <1>1, <3>1, <3>2
  <2>2. ASSUME NEW u \in Threads,
               pc'[u] \in {"scalar_check", "put_posted", "complete", "probe", "release",
                           "mswap_read", "mswap_complete", "mswap_check"}
        PROVE  /\ cur'[u] \in DOMAIN ops' /\ ops'[cur'[u]].by = u
               /\ pc'[u] \in {"complete", "mswap_read"} => ops'[cur'[u]].kind = "fetch"
    <3>1. CASE u = t
      BY <1>1, <1>2, <3>1 DEF UcxPosts, UcxPostsInTurn
    <3>2. CASE u # t
      BY <1>1, <1>2, <2>2, <3>2 DEF UcxInv, UcxNumbers
    <3> QED
      BY <3>1, <3>2
  <2> QED
    BY <2>1, <2>2 DEF UcxNumbers
<1>6. \A n \in 1 .. N : U!Landed(n)' <=> U!Landed(n)
  BY <1>1 DEF U!Landed
<1>7. ~ U!Landed(N + 1)'
  BY <1>1 DEF U!Landed, UcxPosts
<1>8. \A n \in 1 .. N : ops[n].by = t /\ ops[n].num = call[t].num => ops[n].kind # "signal"
  BY <1>1 DEF UcxInv, UcxSignals, UcxPostsInTurn
<1>9. UcxSignals'
  <2>1. ASSUME NEW u \in Threads, pc'[u] = "signal",
               NEW n \in DOMAIN ops', ops'[n].by = u, ops'[n].num = call'[u].num
        PROVE  U!Landed(n)' \/ ops'[n].epoch < epoch'
    <3>1. u # t
      BY <1>2, <2>1 DEF UcxPostsInTurn
    <3>2. n \in 1 .. N
      BY <1>1, <2>1, <3>1 DEF UcxPosts
    <3> QED
      BY <1>1, <1>2, <1>6, <2>1, <3>1, <3>2 DEF UcxInv, UcxSignals
  <2>2. ASSUME NEW n \in DOMAIN ops',
               ops'[n].kind = "signal", ops'[n].num = call'[ops'[n].by].num
        PROVE  pc'[ops'[n].by] \in {"release", "idle"}
    <3>1. CASE n = N + 1
      BY <1>1, <1>2, <2>2, <3>1 DEF UcxPosts, UcxPostsInTurn
    <3>2. CASE n \in 1 .. N
      <4>1. ops[n].by \in Threads /\ ops[n].by # t
        BY <1>1, <1>2, <1>8, <2>2, <3>2 DEF UcxOps
      <4> QED
        BY <1>1, <1>2, <2>2, <3>2, <4>1 DEF UcxInv, UcxSignals
    <3> QED
      BY <1>1, <3>1, <3>2
  <2>3. ASSUME NEW n \in DOMAIN ops', NEW m \in DOMAIN ops', ops'[m].kind = "signal", n # m,
               ops'[n].by = ops'[m].by, ops'[n].num = ops'[m].num
        PROVE  U!Landed(n)' \/ ops'[n].epoch < ops'[m].epoch
    <3>1. CASE m = N + 1
      BY <1>1, <1>2, <1>6, <2>3, <3>1 DEF UcxPosts, UcxPostsInTurn, UcxInv, UcxSignals
    <3>2. CASE m \in 1 .. N /\ n \in 1 .. N
      BY <1>1, <1>6, <2>3, <3>2 DEF UcxInv, UcxSignals
    <3>3. CASE m \in 1 .. N /\ n = N + 1
      BY <1>1, <1>8, <2>3, <3>3 DEF UcxPosts
    <3> QED
      BY <1>1, <3>1, <3>2, <3>3
  <2> QED
    BY <2>1, <2>2, <2>3 DEF UcxSignals
<1>10. U!SignalAfterData'
  <2> SUFFICES ASSUME NEW n \in DOMAIN ops', NEW m \in DOMAIN ops',
                      ops'[m].kind = "signal", U!Landed(m)',
                      ops'[n].by = ops'[m].by, ops'[n].num = ops'[m].num
               PROVE  U!Landed(n)'
    BY DEF U!SignalAfterData
  <2>1. m \in 1 .. N
    BY <1>1, <1>7
  <2>2. n \in 1 .. N
    BY <1>1, <1>8, <2>1 DEF UcxPosts
  <2> QED
    BY <1>1, <1>6, <2>1, <2>2 DEF UcxInv, U!SignalAfterData
<1>11. /\ \A n \in 1 .. N : UcxSwapped(n)' <=> UcxSwapped(n)
       /\ ~ UcxSwapped(N + 1)'
  BY <1>1, <1>6, <1>7 DEF UcxSwapped
<1>12. UcxSwapCalls'
  <2>1. ASSUME NEW n \in DOMAIN ops', ops'[n].kind = "cswap"
        PROVE  /\ ops'[n].num > 0
               /\ ops'[n].arg \in [cond : UcxWords, value : UcxWords]
               /\ ops'[n].arg.value.masked = <<ops'[n].by, ops'[n].num>>
               /\ ops'[n].arg.value.other = ops'[n].arg.cond.other
    <3>1. CASE n = N + 1
      <4>1. pc[t] = "mswap_swap" /\ r.arg = [cond |-> call[t].read, value |-> U!mswap_new(t)]
        BY <1>1, <2>1, <3>1 DEF UcxPostsInTurn
      <4>2. call[t].read \in UcxWords /\ call[t].num \in Nat
        BY DEF UcxInv, UcxTypes
      <4>3. call[t].num > 0
        BY <4>1 DEF UcxInv, UcxSwapCalls
      <4>4. /\ U!mswap_new(t) \in UcxWords /\ U!mswap_new(t).masked = <<t, call[t].num>>
            /\ U!mswap_new(t).other = call[t].read.other
        BY <4>2 DEF UcxWords, U!mswap_new, U!Mine
      <4> QED
        BY <1>1, <3>1, <4>1, <4>2, <4>3, <4>4 DEF UcxPosts
    <3>2. CASE n \in 1 .. N
      BY <1>1, <2>1, <3>2 DEF UcxInv, UcxSwapCalls
    <3> QED
      BY <1>1, <3>1, <3>2
  <2>2. ASSUME NEW u \in Threads,
               pc'[u] \in {"mswap", "mswap_read", "mswap_swap", "mswap_complete", "mswap_check"}
        PROVE  /\ call'[u].num > 0
               /\ \A n \in DOMAIN ops' :
                    UcxSwapped(n)' /\ ops'[n].by = u /\ ops'[n].num = call'[u].num =>
                      pc'[u] \in {"mswap_complete", "mswap_check"} /\ n = cur'[u]
    <3>1. CASE u = t
      <4>1. pc[t] \in {"mswap", "mswap_swap"}
        BY <1>2, <2>2, <3>1 DEF UcxPostsInTurn
      <4> QED
        BY <1>1, <1>2, <1>11, <3>1, <4>1 DEF UcxInv, UcxSwapCalls
    <3>2. CASE u # t
      BY <1>1, <1>2, <1>11, <2>2, <3>2 DEF UcxInv, UcxSwapCalls
    <3> QED
      BY <3>1, <3>2
  <2>3. ASSUME NEW u \in Threads, pc'[u] \in {"mswap_complete", "mswap_check"}
        PROVE  /\ ops'[cur'[u]].kind = "cswap" /\ ops'[cur'[u]].num = call'[u].num
               /\ ops'[cur'[u]].arg.cond = call'[u].read
    <3>1. CASE u = t
      BY <1>1, <1>2, <2>3, <3>1 DEF UcxPosts, UcxPostsInTurn
    <3>2. CASE u # t
      <4>1. cur[u] \in 1 .. N
        BY <1>1, <1>2, <2>3, <3>2 DEF UcxInv, UcxNumbers
      <4> QED
        BY <1>1, <1>2, <2>3, <3>2, <4>1 DEF UcxInv, UcxSwapCalls
    <3> QED
      BY <3>1, <3>2
  <2> QED
    BY <2>1, <2>2, <2>3 DEF UcxSwapCalls
<1>13. UcxValues'
  BY <1>1, <1>2, <1>11, UcxValuesKept DEF UcxInv
<1> QED
  BY <1>3, <1>4, <1>5, <1>9, <1>10, <1>12, <1>13 DEF UcxInv

(* A step that gives UCX no new operation: it makes progress, or frees a     *)
(* request, or neither.                                                      *)
UcxKeptOps ==
  /\ ops' \in Seq(UcxOps) /\ Len(ops') = Len(ops)
  /\ \A n \in DOMAIN ops :
       /\ ops'[n].by = ops[n].by /\ ops'[n].num = ops[n].num /\ ops'[n].kind = ops[n].kind
       /\ ops'[n].epoch = ops[n].epoch /\ ops'[n].arg = ops[n].arg /\ ops'[n].val = ops[n].val
       /\ ops'[n].st # "posted" <=> ops[n].st # "posted"
       /\ ops[n].kind = "put_scalar" => (ops'[n].req = "none" <=> ops[n].req = "none")
       /\ UcxSettled(n) => UcxSettled(n)'

UcxLeavesOps == UNCHANGED ops
UcxProgresses == ops' = U!Completed
UcxFrees(n) == ops' = U!Freed(n)
UcxFinishes(n) == ops' = [U!Completed EXCEPT ![n].req = "freed"]

(* A function on 1 .. n is a sequence. *)
LEMMA FunctionIsSequence ==
  ASSUME NEW S, NEW n \in Nat, NEW f \in [1 .. n -> S]
  PROVE  f \in Seq(S) /\ Len(f) = n
  OBVIOUS

(* Each of these keeps what there is to know of an operation. *)
LEMMA UcxKeeps ==
  ASSUME UcxTypes,
         \/ UcxLeavesOps \/ UcxProgresses
         \/ \E n \in Nat : UcxFrees(n)
         \/ \E n \in DOMAIN ops : UcxFinishes(n) /\ U!Landed(n) /\ ops[n].kind # "put_scalar"
  PROVE  UcxKeptOps
<1>0. PICK N \in Nat : N = Len(ops)
  BY DEF UcxTypes
<1>1. DOMAIN ops = 1 .. N /\ \A n \in 1 .. N : ops[n] \in UcxOps
  BY <1>0 DEF UcxTypes
<1> DEFINE C == U!Completed
<1>2. /\ DOMAIN C = 1 .. N
      /\ \A n \in 1 .. N : C[n] = IF U!Landed(n) THEN [ops[n] EXCEPT !.st = "done", !.buf = FALSE]
                                  ELSE ops[n]
  BY <1>1 DEF U!Completed
<1> HIDE DEF C
<1>3. \A n \in 1 .. N :
        /\ C[n] \in UcxOps
        /\ C[n].by = ops[n].by /\ C[n].num = ops[n].num /\ C[n].kind = ops[n].kind
        /\ C[n].epoch = ops[n].epoch /\ C[n].arg = ops[n].arg /\ C[n].val = ops[n].val
        /\ C[n].req = ops[n].req
        /\ C[n].st # "posted" <=> ops[n].st # "posted"
        /\ ops[n].st = "done" => C[n].st = "done"
        /\ ~ ops[n].buf => ~ C[n].buf
  <2> TAKE n \in 1 .. N
  <2>1. CASE U!Landed(n)
    <3>1. C[n] = [ops[n] EXCEPT !.st = "done", !.buf = FALSE] /\ ops[n] \in UcxOps
      BY <1>1, <1>2, <2>1
    <3> QED
      BY <2>1, <3>1 DEF U!Landed, UcxOps
  <2>2. CASE ~ U!Landed(n)
    BY <1>1, <1>2, <2>2
  <2> QED
    BY <2>1, <2>2
<1>4. C \in Seq(UcxOps) /\ Len(C) = N
  <2>1. C \in [1 .. N -> UcxOps]
    BY <1>1, <1>3 DEF C, U!Completed
  <2> QED
    BY <2>1, FunctionIsSequence
<1>5. CASE UcxLeavesOps
  BY <1>0, <1>1, <1>5 DEF UcxLeavesOps, UcxKeptOps, UcxTypes, UcxSettled
<1>6. CASE UcxProgresses
  BY <1>0, <1>1, <1>3, <1>4, <1>6 DEF C, UcxProgresses, UcxKeptOps, UcxSettled
<1>7. ASSUME NEW m \in Nat, UcxFrees(m) PROVE UcxKeptOps
  <2>1. /\ DOMAIN ops' = 1 .. N
        /\ \A n \in 1 .. N :
             ops'[n] = IF n = m THEN [ops[n] EXCEPT !.req = IF @ = "held" THEN "freed" ELSE @]
                       ELSE ops[n]
    BY <1>1, <1>7 DEF UcxFrees, U!Freed
  <2>2. \A n \in 1 .. N :
        /\ ops'[n] \in UcxOps
        /\ ops'[n].by = ops[n].by /\ ops'[n].num = ops[n].num /\ ops'[n].kind = ops[n].kind
        /\ ops'[n].epoch = ops[n].epoch /\ ops'[n].arg = ops[n].arg /\ ops'[n].val = ops[n].val
        /\ ops'[n].st = ops[n].st /\ ops'[n].buf = ops[n].buf
        /\ ops[n].kind = "put_scalar" => (ops'[n].req = "none" <=> ops[n].req = "none")
        /\ ops[n].req # "held" => ops'[n].req # "held"
    BY <1>1, <2>1 DEF UcxOps
  <2>3. ops' \in Seq(UcxOps) /\ Len(ops') = N
    <3>1. ops' \in [1 .. N -> UcxOps]
      BY <1>1, <1>7, <2>2 DEF UcxFrees, U!Freed
    <3> QED
      BY <3>1, FunctionIsSequence
  <2> QED
    BY <1>0, <1>1, <2>2, <2>3 DEF UcxKeptOps, UcxSettled
<1>8. ASSUME NEW m \in DOMAIN ops, UcxFinishes(m), U!Landed(m), ops[m].kind # "put_scalar" PROVE UcxKeptOps
  <2>1. /\ DOMAIN ops' = 1 .. N
        /\ \A n \in 1 .. N : ops'[n] = IF n = m THEN [C[n] EXCEPT !.req = "freed"] ELSE C[n]
    BY <1>1, <1>2, <1>8 DEF C, UcxFinishes
  <2>2. \A n \in 1 .. N :
        /\ ops'[n] \in UcxOps
        /\ ops'[n].by = ops[n].by /\ ops'[n].num = ops[n].num /\ ops'[n].kind = ops[n].kind
        /\ ops'[n].epoch = ops[n].epoch /\ ops'[n].arg = ops[n].arg /\ ops'[n].val = ops[n].val
        /\ ops'[n].st = C[n].st /\ ops'[n].buf = C[n].buf
        /\ ops[n].kind = "put_scalar" => (ops'[n].req = "none" <=> ops[n].req = "none")
        /\ ops[n].req # "held" => ops'[n].req # "held"
    BY <1>1, <1>3, <1>8, <2>1 DEF UcxOps
  <2>3. ops' \in Seq(UcxOps) /\ Len(ops') = N
    <3>1. ops' \in [1 .. N -> UcxOps]
      BY <1>1, <1>2, <1>8, <2>2 DEF UcxFinishes, C, U!Completed
    <3> QED
      BY <3>1, FunctionIsSequence
  <2> QED
    BY <1>0, <1>1, <1>3, <2>2, <2>3 DEF UcxKeptOps, UcxSettled
<1> QED
  BY <1>5, <1>6, <1>7, <1>8

(* A step of thread t to l that gives UCX no new operation. *)
UcxGoesOn(t, l) ==
  /\ UcxKeptOps /\ cur' = cur /\ pc' = [pc EXCEPT ![t] = l]
  /\ UNCHANGED <<word, remote>> /\ epoch' \in Nat /\ epoch' >= epoch
  /\ \/ UNCHANGED call
     \/ pc[t] = "mswap_read" /\ call' = [call EXCEPT ![t].read = ops[cur[t]].val]
  /\ \/ UNCHANGED swapped
     \/ /\ pc[t] = "mswap_check" /\ U!mswap_done(t)
        /\ swapped' = swapped \cup {<<t, call[t].num, ops[cur[t]].val.masked>>}

(* It leaves nothing of its own unfinished, unless it stays where it is. *)
UcxGoesOnInTurn(t, l) ==
  \/ l = pc[t]
  \/ pc[t] = "probe" /\ l = "release"
  \/ /\ \A n \in DOMAIN ops : ops[n].by = t => UcxSettled(n)'
     /\ pc[t] # "idle" /\ (pc[t] = "release" => l = "idle")
     /\ l \notin {"scalar_check", "put_posted", "complete", "mswap_read", "mswap_complete",
                  "probe", "release"}
     /\ l = "signal" => \A n \in DOMAIN ops : U!Landed(n) \/ ops[n].epoch < epoch'
     /\ l = "mswap" => pc[t] = "mswap_check" /\ ~ U!mswap_done(t)
     /\ l = "mswap_swap" => pc[t] = "mswap_read"
     /\ l = "mswap_check" => pc[t] = "mswap_complete"

(* Such a step keeps the invariant. *)
LEMMA UcxGoesOnInv ==
  ASSUME UcxInv, NEW t \in Threads, NEW l \in UcxPoints, UcxGoesOn(t, l), UcxGoesOnInTurn(t, l)
  PROVE  UcxInv'
<1>0. PICK N \in Nat : N = Len(ops)
  BY DEF UcxInv, UcxTypes
<1>1. /\ DOMAIN ops = 1 .. N /\ DOMAIN ops' = 1 .. N
      /\ \A n \in 1 .. N :
           /\ ops[n] \in UcxOps /\ ops'[n] \in UcxOps
           /\ ops'[n].by = ops[n].by /\ ops'[n].num = ops[n].num /\ ops'[n].kind = ops[n].kind
           /\ ops'[n].epoch = ops[n].epoch /\ ops'[n].arg = ops[n].arg /\ ops'[n].val = ops[n].val
           /\ ops'[n].st # "posted" <=> ops[n].st # "posted"
           /\ ops[n].kind = "put_scalar" => (ops'[n].req = "none" <=> ops[n].req = "none")
           /\ UcxSettled(n) => UcxSettled(n)'
           /\ ops[n].by \in Threads
  <2>1. ops \in Seq(UcxOps) /\ ops' \in Seq(UcxOps) /\ Len(ops') = N
    BY <1>0 DEF UcxInv, UcxTypes, UcxGoesOn, UcxKeptOps
  <2>2. /\ DOMAIN ops = 1 .. N /\ DOMAIN ops' = 1 .. N
        /\ \A n \in 1 .. N : ops[n] \in UcxOps /\ ops'[n] \in UcxOps
    BY <1>0, <2>1
  <2>3. \A n \in 1 .. N : ops[n].by \in Threads
    BY <2>2 DEF UcxOps
  <2> QED
    BY <2>2, <2>3 DEF UcxGoesOn, UcxKeptOps
<1>2. /\ \A u \in Threads \ {t} : pc'[u] = pc[u] /\ call'[u] = call[u]
      /\ \A u \in Threads : call'[u].num = call[u].num /\ cur'[u] = cur[u]
      /\ \A u \in Threads : pc[u] # "mswap_read" => call'[u].read = call[u].read
      /\ pc'[t] = l /\ UNCHANGED <<word, remote>> /\ epoch \in Nat /\ epoch' \in Nat /\ epoch <= epoch'
  <2>1. CASE UNCHANGED call
    BY <2>1 DEF UcxInv, UcxTypes, UcxGoesOn
  <2>2. CASE pc[t] = "mswap_read" /\ call' = [call EXCEPT ![t].read = ops[cur[t]].val]
    BY <2>2 DEF UcxInv, UcxTypes, UcxGoesOn
  <2> QED
    BY <2>1, <2>2 DEF UcxGoesOn
<1>3. UcxTypes'
  <2>1. call' \in [Threads -> [name : U!Calls \cup {"none"}, num : Nat, read : UcxWords]]
    <3>1. CASE pc[t] = "mswap_read"
      <4>1. ops[cur[t]].val \in UcxWords
        BY <1>1, <3>1 DEF UcxInv, UcxNumbers, UcxOps
      <4> QED
        BY <4>1 DEF UcxInv, UcxTypes, UcxGoesOn
    <3>2. CASE pc[t] # "mswap_read"
      BY <3>2 DEF UcxInv, UcxTypes, UcxGoesOn
    <3> QED
      BY <3>1, <3>2
  <2> QED
    BY <2>1 DEF UcxInv, UcxTypes, UcxGoesOn, UcxKeptOps
<1>4. UcxCompletes'
  <2> SUFFICES ASSUME NEW n \in DOMAIN ops', ~ UcxSettled(n)'
               PROVE  /\ cur'[ops'[n].by] = n /\ ops'[n].num = call'[ops'[n].by].num
                      /\ UcxAt(pc[ops[n].by], n)'
    BY DEF UcxCompletes
  <2>1. /\ cur[ops[n].by] = n /\ ops[n].num = call[ops[n].by].num
        /\ UcxAt(pc[ops[n].by], n)
    BY <1>1 DEF UcxInv, UcxCompletes
  <2>2. pc'[ops[n].by] = pc[ops[n].by] \/ (pc[ops[n].by] = "probe" /\ pc'[ops[n].by] = "release")
    BY <1>1, <1>2 DEF UcxGoesOnInTurn
  <2> QED
    BY <1>1, <1>2, <2>1, <2>2 DEF UcxAt
<1>5. UcxNumbers'
  <2>1. \A n \in DOMAIN ops' : ops'[n].num <= call'[ops'[n].by].num /\ ops'[n].epoch <= epoch'
    BY <1>1, <1>2 DEF UcxInv, UcxNumbers, UcxOps
  <2>2. ASSUME NEW u \in Threads,
               pc'[u] \in {"scalar_check", "put_posted", "complete", "probe", "release",
                           "mswap_read", "mswap_complete", "mswap_check"}
        PROVE  /\ cur'[u] \in DOMAIN ops' /\ ops'[cur'[u]].by = u
               /\ pc'[u] \in {"complete", "mswap_read"} => ops'[cur'[u]].kind = "fetch"
    <3>1. /\ pc[u] \in {"scalar_check", "put_posted", "complete", "probe", "release",
                        "mswap_read", "mswap_complete", "mswap_check"}
          /\ pc'[u] \in {"complete", "mswap_read"} => pc[u] = pc'[u]
      BY <1>2, <2>2 DEF UcxGoesOnInTurn
    <3> QED
      BY <1>1, <1>2, <3>1 DEF UcxInv, UcxNumbers
  <2> QED
    BY <2>1, <2>2 DEF UcxNumbers
<1>6. \A n \in 1 .. N : U!Landed(n)' <=> U!Landed(n)
  BY <1>1 DEF U!Landed
<1>7. UcxSignals'
  <2>1. ASSUME NEW u \in Threads, pc'[u] = "signal",
               NEW n \in DOMAIN ops', ops'[n].by = u, ops'[n].num = call'[u].num
        PROVE  U!Landed(n)' \/ ops'[n].epoch < epoch'
    <3>1. CASE pc[u] = "signal"
      BY <1>1, <1>2, <1>6, <2>1, <3>1 DEF UcxInv, UcxSignals, UcxOps
    <3>2. CASE pc[u] # "signal"
      BY <1>1, <1>2, <1>6, <2>1, <3>2 DEF UcxGoesOnInTurn
    <3> QED
      BY <3>1, <3>2
  <2>2. ASSUME NEW n \in DOMAIN ops',
               ops'[n].kind = "signal", ops'[n].num = call'[ops'[n].by].num
        PROVE  pc'[ops'[n].by] \in {"release", "idle"}
    <3>1. pc[ops[n].by] \in {"release", "idle"}
      BY <1>1, <1>2, <2>2 DEF UcxInv, UcxSignals
    <3> QED
      BY <1>1, <1>2, <3>1 DEF UcxGoesOnInTurn
  <2>3. ASSUME NEW n \in DOMAIN ops', NEW m \in DOMAIN ops', ops'[m].kind = "signal", n # m,
               ops'[n].by = ops'[m].by, ops'[n].num = ops'[m].num
        PROVE  U!Landed(n)' \/ ops'[n].epoch < ops'[m].epoch
    BY <1>1, <1>6, <2>3 DEF UcxInv, UcxSignals
  <2> QED
    BY <2>1, <2>2, <2>3 DEF UcxSignals
<1>8. U!SignalAfterData'
  BY <1>1, <1>6 DEF UcxInv, U!SignalAfterData
<1>9. \A n \in 1 .. N : UcxSwapped(n)' <=> UcxSwapped(n)
  BY <1>1, <1>6 DEF UcxSwapped
<1>10. UcxSwapCalls'
  <2>1. ASSUME NEW n \in DOMAIN ops', ops'[n].kind = "cswap"
        PROVE  /\ ops'[n].num > 0
               /\ ops'[n].arg \in [cond : UcxWords, value : UcxWords]
               /\ ops'[n].arg.value.masked = <<ops'[n].by, ops'[n].num>>
               /\ ops'[n].arg.value.other = ops'[n].arg.cond.other
    BY <1>1, <2>1 DEF UcxInv, UcxSwapCalls
  <2>2. ASSUME NEW u \in Threads,
               pc'[u] \in {"mswap", "mswap_read", "mswap_swap", "mswap_complete", "mswap_check"}
        PROVE  /\ call'[u].num > 0
               /\ \A n \in DOMAIN ops' :
                    UcxSwapped(n)' /\ ops'[n].by = u /\ ops'[n].num = call'[u].num =>
                      pc'[u] \in {"mswap_complete", "mswap_check"} /\ n = cur'[u]
    <3>1. pc[u] \in {"mswap", "mswap_read", "mswap_swap", "mswap_complete", "mswap_check"}
      BY <1>2, <2>2 DEF UcxGoesOnInTurn
    <3>2. /\ call[u].num > 0
          /\ \A n \in DOMAIN ops :
               UcxSwapped(n) /\ ops[n].by = u /\ ops[n].num = call[u].num =>
                 pc[u] \in {"mswap_complete", "mswap_check"} /\ n = cur[u]
      BY <3>1 DEF UcxInv, UcxSwapCalls
    <3>3. CASE pc'[u] = pc[u]
      BY <1>1, <1>2, <1>9, <3>2, <3>3
    <3>4. CASE pc'[u] # pc[u]
      <4>1. u = t
        BY <1>2, <3>4
      <4>2. CASE pc[t] = "mswap_check"
        <5>1. ~ UcxSwapped(cur[t])
          <6>1. pc'[t] = "mswap" /\ ~ U!mswap_done(t)
            BY <1>2, <2>2, <3>4, <4>1, <4>2 DEF UcxGoesOnInTurn
          <6> QED
            BY <4>2, <6>1 DEF U!mswap_done, UcxSwapped, UcxInv, UcxSwapCalls
        <5> QED
          BY <1>1, <1>2, <1>9, <3>2, <4>1, <5>1
      <4>3. CASE pc[t] # "mswap_check"
        <5>1. \/ pc[t] = "mswap_read" /\ pc'[t] = "mswap_swap"
              \/ pc[t] = "mswap_complete" /\ pc'[t] = "mswap_check"
          BY <1>2, <2>2, <3>4, <4>1, <4>3 DEF UcxGoesOnInTurn
        <5> QED
          BY <1>1, <1>2, <1>9, <3>2, <4>1, <5>1
      <4> QED
        BY <4>2, <4>3
    <3> QED
      BY <3>3, <3>4
  <2>3. ASSUME NEW u \in Threads, pc'[u] \in {"mswap_complete", "mswap_check"}
        PROVE  /\ ops'[cur'[u]].kind = "cswap" /\ ops'[cur'[u]].num = call'[u].num
               /\ ops'[cur'[u]].arg.cond = call'[u].read
    <3>1. pc[u] \in {"mswap_complete", "mswap_check"}
      BY <1>2, <2>3 DEF UcxGoesOnInTurn
    <3>2. cur[u] \in 1 .. N
      BY <1>1, <3>1 DEF UcxInv, UcxNumbers
    <3> QED
      BY <1>1, <1>2, <3>1, <3>2 DEF UcxInv, UcxSwapCalls
  <2> QED
    BY <2>1, <2>2, <2>3 DEF UcxSwapCalls
<1>11. UcxValues'
  <2>1. ASSUME NEW a \in swapped', a \notin swapped
        PROVE  \E n \in DOMAIN ops :
                 UcxSwapped(n) /\ a = <<ops[n].by, ops[n].num, ops[n].val.masked>>
    <3>1. /\ pc[t] = "mswap_check" /\ ops[cur[t]].val = call[t].read
          /\ a = <<t, call[t].num, ops[cur[t]].val.masked>>
      BY <2>1 DEF UcxGoesOn, U!mswap_done
    <3>2. /\ cur[t] \in 1 .. N /\ ops[cur[t]].by = t /\ ops[cur[t]].num = call[t].num
          /\ ops[cur[t]].kind = "cswap" /\ ops[cur[t]].arg.cond = call[t].read
      BY <1>1, <3>1 DEF UcxInv, UcxNumbers, UcxSwapCalls
    <3>3. U!Landed(cur[t])
      <4>1. UcxSettled(cur[t])
        BY <1>1, <3>1, <3>2 DEF UcxInv, UcxCompletes, UcxAt
      <4> QED
        BY <3>2, <4>1 DEF UcxSettled, U!Landed
    <3> QED
      BY <1>1, <3>1, <3>2, <3>3 DEF UcxSwapped
  <2> QED
    BY <1>1, <1>2, <1>9, <2>1, UcxValuesKept DEF UcxInv
<1> QED
  BY <1>3, <1>4, <1>5, <1>7, <1>8, <1>10, <1>11 DEF UcxInv

(* A call begins, with a number of its own. *)
LEMMA UcxCallInv ==
  ASSUME UcxInv, NEW t \in Threads, NEW c \in U!Calls, U!Call(t, c)
  PROVE  UcxInv'
<1>1. /\ \A u \in Threads \ {t} : pc'[u] = pc[u] /\ call'[u] = call[u]
      /\ pc[t] = "idle" /\ pc'[t] = c /\ call'[t].num = call[t].num + 1
      /\ \A u \in Threads : call[u].num \in Nat /\ call'[u].num \in Nat
      /\ UNCHANGED <<ops, cur, epoch, word, remote, swapped>>
  BY DEF UcxInv, UcxTypes, U!Call, U!Goto, U!Steady
<1>2. \A n \in DOMAIN ops : /\ ops[n] \in UcxOps /\ ops[n].by \in Threads /\ ops[n].num \in Nat
                            /\ ops[n].num <= call[ops[n].by].num
  <2>1. \A n \in DOMAIN ops : ops[n] \in UcxOps
    BY DEF UcxInv, UcxTypes
  <2> QED
    BY <2>1 DEF UcxInv, UcxNumbers, UcxOps
<1>3. UcxTypes'
  <2>1. U!InitialWord \in UcxWords
    BY TransportsAssumption DEF U!InitialWord, U!Mine, UcxWords
  <2>2. call' \in [Threads -> [name : U!Calls \cup {"none"}, num : Nat, read : UcxWords]]
    BY <2>1 DEF UcxInv, UcxTypes, U!Call
  <2>3. pc' \in [Threads -> UcxPoints]
    BY DEF UcxInv, UcxTypes, UcxPoints, U!Call, U!Goto
  <2> QED
    BY <1>1, <2>2, <2>3 DEF UcxInv, UcxTypes
<1>4. UcxCompletes'
  <2> SUFFICES ASSUME NEW n \in DOMAIN ops, ~ UcxSettled(n)
               PROVE  /\ cur'[ops[n].by] = n /\ ops[n].num = call'[ops[n].by].num
                      /\ UcxAt(pc[ops[n].by], n)'
    BY <1>1 DEF UcxCompletes, UcxSettled
  <2>1. ops[n].by # t
    BY <1>1 DEF UcxInv, UcxCompletes, UcxAt
  <2> QED
    BY <1>1, <1>2, <2>1 DEF UcxInv, UcxCompletes, UcxAt
<1>5. UcxNumbers'
  <2>1. \A n \in DOMAIN ops : ops[n].num <= call'[ops[n].by].num /\ ops[n].epoch <= epoch
    <3> TAKE n \in DOMAIN ops
    <3>1. CASE ops[n].by = t
      BY <1>1, <1>2, <3>1 DEF UcxInv, UcxNumbers
    <3>2. CASE ops[n].by # t
      BY <1>1, <1>2, <3>2 DEF UcxInv, UcxNumbers
    <3> QED
      BY <3>1, <3>2
  <2> QED
    BY <1>1, <2>1 DEF UcxInv, UcxNumbers, U!Calls
<1>6. \A n \in DOMAIN ops : ops[n].num = call'[ops[n].by].num => ops[n].by # t
  BY <1>1, <1>2
<1>7. \A n \in DOMAIN ops : /\ U!Landed(n)' <=> U!Landed(n)
                            /\ UcxSwapped(n)' <=> UcxSwapped(n)
  BY <1>1 DEF U!Landed, UcxSwapped
<1>8. UcxSignals'
  BY <1>1, <1>2, <1>6, <1>7 DEF UcxInv, UcxSignals, U!Calls
<1>9. U!SignalAfterData'
  BY <1>1, <1>7 DEF UcxInv, U!SignalAfterData
<1>10. UcxSwapCalls'
  <2>1. ASSUME NEW u \in Threads,
               pc'[u] \in {"mswap", "mswap_read", "mswap_swap", "mswap_complete", "mswap_check"}
        PROVE  /\ call'[u].num > 0
               /\ \A n \in DOMAIN ops :
                    UcxSwapped(n) /\ ops[n].by = u /\ ops[n].num = call'[u].num =>
                      pc'[u] \in {"mswap_complete", "mswap_check"} /\ n = cur'[u]
    <3>1. CASE u = t
      BY <1>1, <1>6, <3>1
    <3>2. CASE u # t
      BY <1>1, <2>1, <3>2 DEF UcxInv, UcxSwapCalls
    <3> QED
      BY <3>1, <3>2
  <2>2. ASSUME NEW u \in Threads, pc'[u] \in {"mswap_complete", "mswap_check"}
        PROVE  /\ ops[cur'[u]].kind = "cswap" /\ ops[cur'[u]].num = call'[u].num
               /\ ops[cur'[u]].arg.cond = call'[u].read
    <3>1. u # t
      BY <1>1, <2>2 DEF U!Calls
    <3> QED
      BY <1>1, <2>2, <3>1 DEF UcxInv, UcxSwapCalls
  <2>3. \A n \in DOMAIN ops : ops[n].kind = "cswap" =>
          /\ ops[n].num > 0
          /\ ops[n].arg \in [cond : UcxWords, value : UcxWords]
          /\ ops[n].arg.value.masked = <<ops[n].by, ops[n].num>>
          /\ ops[n].arg.value.other = ops[n].arg.cond.other
    BY DEF UcxInv, UcxSwapCalls
  <2> QED
    BY <1>1, <1>7, <2>1, <2>2, <2>3 DEF UcxSwapCalls
<1>11. UcxValues'
  BY <1>1, <1>7, UcxValuesKept DEF UcxInv
<1> QED
  BY <1>3, <1>4, <1>5, <1>8, <1>9, <1>10, <1>11 DEF UcxInv

(* The other PE changes the half of the word that no masked swap writes. *)
LEMMA UcxRemoteInv ==
  ASSUME UcxInv, U!RemoteUpdate
  PROVE  UcxInv'
<1>1. /\ UNCHANGED <<ops, epoch, pc, call, cur, swapped>>
      /\ remote' = remote + 1 /\ word' = [word EXCEPT !.other = @ + 1]
      /\ word'.masked = word.masked /\ word'.other = word.other + 1 /\ word' \in UcxWords
      /\ remote \in Nat
  <2>1. word \in UcxWords /\ remote \in Nat
    BY DEF UcxInv, UcxTypes
  <2>2. /\ UNCHANGED <<ops, epoch, pc, call, cur, swapped>>
        /\ remote' = remote + 1 /\ word' = [word EXCEPT !.other = @ + 1]
    BY DEF U!RemoteUpdate
  <2> QED
    BY <2>1, <2>2 DEF UcxWords
<1>2. \A n \in DOMAIN ops : /\ U!Landed(n)' <=> U!Landed(n)
                            /\ UcxSwapped(n)' <=> UcxSwapped(n)
  BY <1>1 DEF U!Landed, UcxSwapped
<1>3. UcxTypes'
  BY <1>1 DEF UcxInv, UcxTypes
<1>4. UcxCompletes' /\ UcxNumbers'
  BY <1>1 DEF UcxInv, UcxCompletes, UcxSettled, UcxAt, UcxNumbers
<1>5. UcxSignals' /\ U!SignalAfterData'
  BY <1>1, <1>2 DEF UcxInv, UcxSignals, U!SignalAfterData
<1>6. UcxSwapCalls'
  BY <1>1, <1>2 DEF UcxInv, UcxSwapCalls
<1>7. UcxValues'
  BY <1>1, <1>2 DEF UcxInv, UcxValues, UcxFirst
<1> QED
  BY <1>3, <1>4, <1>5, <1>6, <1>7 DEF UcxInv

(* An operation takes effect.  A compare-and-swap that finds the word as it  *)
(* was read puts a value there that was never there before.                  *)
LEMMA UcxLandInv ==
  ASSUME UcxInv, NEW k \in DOMAIN ops, U!Land(k)
  PROVE  UcxInv'
<1>0. PICK N \in Nat : N = Len(ops)
  BY DEF UcxInv, UcxTypes
<1>1. /\ DOMAIN ops = 1 .. N /\ k \in 1 .. N
      /\ \A n \in 1 .. N : ops[n] \in UcxOps
  BY <1>0 DEF UcxInv, UcxTypes
<1>2. /\ UNCHANGED <<epoch, remote, pc, call, cur, swapped>>
      /\ ops[k].st = "posted" /\ word \in UcxWords
      /\ word' = IF ops[k].kind = "cswap" /\ word = ops[k].arg.cond
                 THEN ops[k].arg.value ELSE word
  BY DEF U!Land, U!Landed, UcxInv, UcxTypes
<1>3. /\ ops' \in [1 .. N -> UcxOps]
      /\ \A n \in 1 .. N : n # k => ops'[n] = ops[n]
      /\ ops'[k] = [ops[k] EXCEPT !.st = "landed", !.val = word]
  <2> DEFINE r == [ops[k] EXCEPT !.st = "landed", !.val = word]
  <2>1. r \in UcxOps
    BY <1>1, <1>2 DEF UcxOps
  <2>2. ops \in [1 .. N -> UcxOps]
    BY <1>0, <1>1 DEF UcxInv, UcxTypes
  <2>3. ops' = [ops EXCEPT ![k] = r]
    BY <1>1, <2>2 DEF U!Land
  <2> QED
    BY <1>1, <2>1, <2>2, <2>3
<1>4. /\ DOMAIN ops' = 1 .. N /\ ops' \in Seq(UcxOps)
      /\ \A n \in 1 .. N :
           /\ ops[n].by \in Threads /\ ops[n].num \in Nat
           /\ ops'[n].by = ops[n].by /\ ops'[n].num = ops[n].num /\ ops'[n].kind = ops[n].kind
           /\ ops'[n].epoch = ops[n].epoch /\ ops'[n].arg = ops[n].arg
           /\ ops'[n].buf = ops[n].buf /\ ops'[n].req = ops[n].req
           /\ U!Landed(n)' <=> (U!Landed(n) \/ n = k)
           /\ n # k => ops'[n].val = ops[n].val /\ ops'[n].st = ops[n].st
      /\ ops'[k].val = word /\ ~ U!Landed(k)
  <2>1. DOMAIN ops' = 1 .. N /\ ops' \in Seq(UcxOps)
    BY <1>3, FunctionIsSequence
  <2>2. \A n \in 1 .. N : ops[n].by \in Threads /\ ops[n].num \in Nat
    BY <1>1 DEF UcxOps
  <2>3. ops[k] \in UcxOps
    BY <1>1
  <2>4. /\ ops'[k].by = ops[k].by /\ ops'[k].num = ops[k].num /\ ops'[k].kind = ops[k].kind
        /\ ops'[k].epoch = ops[k].epoch /\ ops'[k].arg = ops[k].arg
        /\ ops'[k].buf = ops[k].buf /\ ops'[k].req = ops[k].req
        /\ ops'[k].val = word /\ ops'[k].st = "landed"
    BY <1>3, <2>3 DEF UcxOps
  <2> QED
    BY <1>1, <1>2, <1>3, <2>1, <2>2, <2>4 DEF U!Landed
<1>5. /\ \A n \in 1 .. N : n # k => (UcxSwapped(n)' <=> UcxSwapped(n))
      /\ ~ UcxSwapped(k)
      /\ UcxSwapped(k)' <=> ops[k].kind = "cswap" /\ word = ops[k].arg.cond
  BY <1>1, <1>4 DEF UcxSwapped
<1>6. UcxCompletes'
  <2> SUFFICES ASSUME NEW n \in 1 .. N, ~ UcxSettled(n)'
               PROVE  /\ cur[ops[n].by] = n /\ ops[n].num = call[ops[n].by].num
                      /\ UcxAt(pc[ops[n].by], n)'
    BY <1>2, <1>4 DEF UcxCompletes
  <2>1. ~ UcxSettled(n)
    BY <1>1, <1>2, <1>4 DEF UcxSettled
  <2> QED
    BY <1>1, <1>2, <1>4, <2>1 DEF UcxInv, UcxCompletes, UcxAt
<1>7. UcxNumbers'
  BY <1>1, <1>2, <1>4 DEF UcxInv, UcxNumbers
<1>8. UcxSignals'
  <2>1. ASSUME NEW u \in Threads, pc[u] = "signal",
               NEW n \in 1 .. N, ops[n].by = u, ops[n].num = call[u].num
        PROVE  U!Landed(n)' \/ ops[n].epoch < epoch
    BY <1>1, <1>4, <2>1 DEF UcxInv, UcxSignals
  <2>2. ASSUME NEW n \in 1 .. N, ops[n].kind = "signal", ops[n].num = call[ops[n].by].num
        PROVE  pc[ops[n].by] \in {"release", "idle"}
    BY <1>1, <2>2 DEF UcxInv, UcxSignals
  <2>3. ASSUME NEW n \in 1 .. N, NEW m \in 1 .. N, ops[m].kind = "signal", n # m,
               ops[n].by = ops[m].by, ops[n].num = ops[m].num
        PROVE  U!Landed(n)' \/ ops[n].epoch < ops[m].epoch
    BY <1>1, <1>4, <2>3 DEF UcxInv, UcxSignals
  <2> QED
    BY <1>2, <1>4, <2>1, <2>2, <2>3 DEF UcxSignals
<1>9. U!SignalAfterData'
  <2> SUFFICES ASSUME NEW n \in 1 .. N, NEW m \in 1 .. N, n # m,
                      ops[m].kind = "signal", U!Landed(m)',
                      ops[n].by = ops[m].by, ops[n].num = ops[m].num
               PROVE  U!Landed(n)'
    BY <1>4 DEF U!SignalAfterData
  <2>1. CASE m # k
    BY <1>1, <1>4, <2>1 DEF UcxInv, U!SignalAfterData
  <2>2. CASE m = k
    <3>1. U!Landed(n) \/ ops[n].epoch < ops[k].epoch
      BY <1>1, <2>2 DEF UcxInv, UcxSignals
    <3>2. ops[n].epoch < ops[k].epoch => U!Landed(n)
      BY <1>1 DEF U!Land, U!Earlier
    <3> QED
      BY <1>4, <3>1, <3>2
  <2> QED
    BY <2>1, <2>2
<1>10. ops[k].kind = "cswap" =>
         /\ pc[ops[k].by] = "mswap_complete" /\ cur[ops[k].by] = k
         /\ ops[k].num = call[ops[k].by].num
  BY <1>1, <1>2 DEF UcxInv, UcxCompletes, UcxSettled, UcxAt
<1>11. UcxSwapCalls'
  <2>1. ASSUME NEW n \in 1 .. N, ops[n].kind = "cswap"
        PROVE  /\ ops[n].num > 0
               /\ ops[n].arg \in [cond : UcxWords, value : UcxWords]
               /\ ops[n].arg.value.masked = <<ops[n].by, ops[n].num>>
               /\ ops[n].arg.value.other = ops[n].arg.cond.other
    BY <1>1, <2>1 DEF UcxInv, UcxSwapCalls
  <2>2. ASSUME NEW u \in Threads,
               pc[u] \in {"mswap", "mswap_read", "mswap_swap", "mswap_complete", "mswap_check"}
        PROVE  /\ call[u].num > 0
               /\ \A n \in 1 .. N :
                    UcxSwapped(n)' /\ ops[n].by = u /\ ops[n].num = call[u].num =>
                      pc[u] \in {"mswap_complete", "mswap_check"} /\ n = cur[u]
    <3>1. call[u].num > 0
      BY <2>2 DEF UcxInv, UcxSwapCalls
    <3>2. ASSUME NEW n \in 1 .. N, UcxSwapped(n)', ops[n].by = u, ops[n].num = call[u].num
          PROVE  pc[u] \in {"mswap_complete", "mswap_check"} /\ n = cur[u]
      <4>1. CASE n = k
        BY <1>5, <1>10, <3>2, <4>1
      <4>2. CASE n # k
        BY <1>1, <1>5, <2>2, <3>2, <4>2 DEF UcxInv, UcxSwapCalls
      <4> QED
        BY <4>1, <4>2
    <3> QED
      BY <3>1, <3>2
  <2>3. ASSUME NEW u \in Threads, pc[u] \in {"mswap_complete", "mswap_check"}
        PROVE  /\ cur[u] \in 1 .. N
               /\ ops[cur[u]].kind = "cswap" /\ ops[cur[u]].num = call[u].num
               /\ ops[cur[u]].arg.cond = call[u].read
    BY <1>1, <2>3 DEF UcxInv, UcxSwapCalls, UcxNumbers
  <2> QED
    BY <1>2, <1>4, <2>1, <2>2, <2>3 DEF UcxSwapCalls
<1>12. UcxTypes' /\ UcxValues'
  <2>1. CASE ~ (ops[k].kind = "cswap" /\ word = ops[k].arg.cond)
    <3>1. word' = word /\ \A n \in 1 .. N : UcxSwapped(n)' <=> UcxSwapped(n)
      BY <1>2, <1>5, <2>1
    <3>2. \A n \in 1 .. N : UcxSwapped(n) => ops'[n].val = ops[n].val
      BY <1>4, <1>5
    <3>3. UcxTypes'
      BY <1>2, <1>4, <3>1 DEF UcxInv, UcxTypes
    <3>4. UcxValues'
      <4>1. \/ word.masked = UcxFirst
            \/ \E n \in 1 .. N : UcxSwapped(n)' /\ word.masked = <<ops'[n].by, ops'[n].num>>
        BY <1>1, <1>4, <3>1 DEF UcxInv, UcxValues
      <4>2. ASSUME NEW n \in 1 .. N, UcxSwapped(n)'
            PROVE  /\ ops'[n].val.masked # word.masked
                   /\ \/ ops'[n].val.masked = UcxFirst
                      \/ \E m \in 1 .. N :
                           UcxSwapped(m)' /\ ops'[n].val.masked = <<ops'[m].by, ops'[m].num>>
        <5>1. UcxSwapped(n) /\ ops'[n].val = ops[n].val
          BY <3>1, <3>2, <4>2
        <5>2. /\ ops[n].val.masked # word.masked
              /\ \/ ops[n].val.masked = UcxFirst
                 \/ \E m \in 1 .. N :
                      UcxSwapped(m) /\ ops[n].val.masked = <<ops[m].by, ops[m].num>>
          BY <1>1, <5>1 DEF UcxInv, UcxValues
        <5> QED
          BY <1>4, <3>1, <5>1, <5>2
      <4>3. ASSUME NEW n \in 1 .. N, NEW m \in 1 .. N, UcxSwapped(n)', UcxSwapped(m)', n # m
            PROVE  ops'[n].val.masked # ops'[m].val.masked
        BY <1>1, <3>1, <3>2, <4>3 DEF UcxInv, UcxValues
      <4>4. ASSUME NEW a \in swapped
            PROVE  \E n \in 1 .. N :
                     UcxSwapped(n)' /\ a = <<ops'[n].by, ops'[n].num, ops'[n].val.masked>>
        <5>1. PICK n \in 1 .. N : UcxSwapped(n) /\ a = <<ops[n].by, ops[n].num, ops[n].val.masked>>
          BY <1>1 DEF UcxInv, UcxValues
        <5> QED
          BY <1>4, <3>1, <3>2, <5>1
      <4>5. /\ DOMAIN ops' = 1 .. N /\ swapped' = swapped /\ word' = word
            /\ word'.other = remote'
        BY <1>2, <1>4, <3>1 DEF UcxInv, UcxValues
      <4> QED
        BY <4>1, <4>2, <4>3, <4>4, <4>5 DEF UcxValues, UcxFirst
    <3> QED
      BY <3>3, <3>4
  <2>2. CASE ops[k].kind = "cswap" /\ word = ops[k].arg.cond
    <3>1. /\ word' = ops[k].arg.value /\ word' \in UcxWords
          /\ word'.masked = <<ops[k].by, ops[k].num>> /\ word'.other = word.other
          /\ ops[k].num > 0 /\ ops[k].by \in Threads
      BY <1>1, <1>2, <1>4, <2>2 DEF UcxInv, UcxSwapCalls
    <3>2. UcxSwapped(k)' /\ ops'[k].val = word
      BY <1>4, <1>5, <2>2
    <3>3. ASSUME NEW n \in 1 .. N, UcxSwapped(n)
          PROVE  ops[n].by # ops[k].by \/ ops[n].num # ops[k].num
      BY <1>1, <1>4, <1>5, <1>10, <2>2, <3>3 DEF UcxInv, UcxSwapCalls
    <3>4. word'.masked # UcxFirst /\ word'.masked # word.masked
      <4>1. <<ops[k].by, ops[k].num>> # <<MainThread, 0>>
        BY <1>4, <3>1
      <4>2. ASSUME NEW n \in 1 .. N, UcxSwapped(n)
            PROVE  <<ops[k].by, ops[k].num>> # <<ops[n].by, ops[n].num>>
        BY <3>3, <4>2
      <4> QED
        BY <1>1, <3>1, <4>1, <4>2 DEF UcxInv, UcxValues, UcxFirst
    <3>5. ASSUME NEW n \in 1 .. N, UcxSwapped(n)
          PROVE  /\ ops'[n].val = ops[n].val /\ UcxSwapped(n)'
                 /\ ops[n].val.masked # word'.masked /\ ops[n].val.masked # word.masked
                 /\ \/ ops[n].val.masked = UcxFirst
                    \/ \E m \in 1 .. N :
                         UcxSwapped(m)' /\ ops[n].val.masked = <<ops'[m].by, ops'[m].num>>
      <4>1. ops'[n].val = ops[n].val /\ UcxSwapped(n)'
        BY <1>4, <1>5, <3>5
      <4>2. /\ ops[n].val.masked # word.masked
            /\ \/ ops[n].val.masked = UcxFirst
               \/ \E m \in 1 .. N :
                    UcxSwapped(m) /\ ops[n].val.masked = <<ops[m].by, ops[m].num>>
        BY <1>1, <3>5 DEF UcxInv, UcxValues
      <4>3. CASE ops[n].val.masked = UcxFirst
        BY <3>4, <4>1, <4>2, <4>3
      <4>4. ASSUME NEW m \in 1 .. N, UcxSwapped(m), ops[n].val.masked = <<ops[m].by, ops[m].num>>
            PROVE  /\ ops[n].val.masked # word'.masked
                   /\ UcxSwapped(m)' /\ ops[n].val.masked = <<ops'[m].by, ops'[m].num>>
        <5>1. <<ops[m].by, ops[m].num>> # <<ops[k].by, ops[k].num>>
          BY <3>3, <4>4
        <5> QED
          BY <1>4, <1>5, <3>1, <4>4, <5>1
      <4> QED
        BY <4>1, <4>2, <4>3, <4>4
    <3>6. ASSUME NEW n \in 1 .. N, UcxSwapped(n)', n # k
          PROVE  UcxSwapped(n)
      BY <1>5, <3>6
    <3>7. UcxTypes'
      BY <1>2, <1>4, <3>1 DEF UcxInv, UcxTypes
    <3>8. \E n \in 1 .. N : UcxSwapped(n)' /\ word'.masked = <<ops'[n].by, ops'[n].num>>
      BY <1>1, <1>4, <3>1, <3>2
    <3>9. \/ word.masked = UcxFirst
          \/ \E m \in 1 .. N : UcxSwapped(m)' /\ word.masked = <<ops'[m].by, ops'[m].num>>
      BY <1>1, <1>4, <3>5 DEF UcxInv, UcxValues
    <3>10. ASSUME NEW n \in 1 .. N, UcxSwapped(n)'
           PROVE  /\ ops'[n].val.masked # word'.masked
                  /\ \/ ops'[n].val.masked = UcxFirst
                     \/ \E m \in 1 .. N :
                          UcxSwapped(m)' /\ ops'[n].val.masked = <<ops'[m].by, ops'[m].num>>
      <4>1. CASE n = k
        BY <3>2, <3>4, <3>9, <4>1
      <4>2. CASE n # k
        BY <3>5, <3>6, <3>10, <4>2
      <4> QED
        BY <4>1, <4>2
    <3>11. ASSUME NEW n \in 1 .. N, NEW m \in 1 .. N, UcxSwapped(n)', UcxSwapped(m)', n # m
           PROVE  ops'[n].val.masked # ops'[m].val.masked
      <4>1. CASE n = k
        BY <3>2, <3>5, <3>6, <3>11, <4>1
      <4>2. CASE m = k
        BY <3>2, <3>5, <3>6, <3>11, <4>2
      <4>3. CASE n # k /\ m # k
        BY <1>1, <3>5, <3>6, <3>11, <4>3 DEF UcxInv, UcxValues
      <4> QED
        BY <4>1, <4>2, <4>3
    <3>12. ASSUME NEW a \in swapped
           PROVE  \E n \in 1 .. N :
                    UcxSwapped(n)' /\ a = <<ops'[n].by, ops'[n].num, ops'[n].val.masked>>
      <4>1. PICK n \in 1 .. N : UcxSwapped(n) /\ a = <<ops[n].by, ops[n].num, ops[n].val.masked>>
        BY <1>1 DEF UcxInv, UcxValues
      <4> QED
        BY <1>4, <3>5, <4>1
    <3>13. DOMAIN ops' = 1 .. N /\ swapped' = swapped /\ word'.other = remote'
      BY <1>2, <1>4, <3>1 DEF UcxInv, UcxValues
    <3>14. UcxValues'
      BY <3>8, <3>10, <3>11, <3>12, <3>13 DEF UcxValues, UcxFirst
    <3> QED
      BY <3>7, <3>14
  <2> QED
    BY <2>1, <2>2
<1> QED
  BY <1>6, <1>7, <1>8, <1>9, <1>11, <1>12 DEF UcxInv

(* The operation that Post makes. *)
UcxOp(t, kind, arg, buf, rq) ==
  [by |-> t, num |-> call[t].num, kind |-> kind, epoch |-> epoch, arg |-> arg,
   val |-> U!InitialWord, st |-> "posted", buf |-> buf, req |-> rq]

(* The record of an operation that is posted is well formed. *)
LEMMA UcxOpPosted ==
  ASSUME UcxInv, NEW t \in Threads, NEW l \in UcxPoints,
         NEW kind \in {"put_scalar", "put_nb", "put_nbi", "fetch", "nbi", "atomic", "cswap", "signal"},
         NEW arg \in UcxArgs, NEW buf \in BOOLEAN, NEW rq \in {"none", "held"},
         ops' = Append(ops, UcxOp(t, kind, arg, buf, rq)),
         U!Issued(t), U!Goto(t, l), UNCHANGED call, U!Steady,
         UcxPostsInTurn(t, UcxOp(t, kind, arg, buf, rq), l)
  PROVE  UcxInv'
<1>1. U!InitialWord \in UcxWords
  BY TransportsAssumption DEF U!InitialWord, U!Mine, UcxWords
<1>2. UcxOp(t, kind, arg, buf, rq) \in UcxOps
  BY <1>1 DEF UcxInv, UcxTypes, UcxOp, UcxOps
<1>3. UcxPosts(t, UcxOp(t, kind, arg, buf, rq), l)
  BY DEF UcxPosts, UcxOp, U!Issued, U!Goto, U!Steady
<1> QED
  BY <1>2, <1>3, UcxPostsInv

(* The calls that give UCX an operation. *)
LEMMA UcxIssueInv ==
  ASSUME UcxInv, NEW t \in Threads,
         \/ pc[t] = "put_scalar" /\ U!shmem_transport_put_scalar(t)
         \/ pc[t] = "put_nb" /\ U!shmem_transport_put_nb(t)
         \/ U!shmem_transport_put_nbi(t)
         \/ U!shmem_transport_get(t) \/ U!shmem_transport_swap(t) \/ U!shmem_transport_cswap(t)
         \/ U!shmem_transport_fetch_atomic(t) \/ U!shmem_transport_atomic_fetch(t)
         \/ U!shmem_transport_swap_nbi(t) \/ U!shmem_transport_cswap_nbi(t)
         \/ U!shmem_transport_fetch_atomic_nbi(t) \/ U!shmem_transport_atomic_set(t)
         \/ U!shmem_transport_atomic(t)
         \/ pc[t] \in {"mswap", "mswap_swap"} /\ U!shmem_transport_mswap(t)
         \/ pc[t] \in {"put_signal", "signal"} /\ U!shmem_transport_put_signal_nbi(t)
  PROVE  UcxInv'
<1> USE DEF UcxPostsInTurn, UcxPoints, UcxArgs
<1>0. ASSUME NEW l \in UcxPoints, U!Blocking(t, "fetch", "none", l),
             \/ /\ pc[t] \in {"get", "swap", "cswap", "fetch_atomic", "atomic_fetch"}
                /\ l = "complete"
             \/ pc[t] = "mswap" /\ l = "mswap_read"
      PROVE  UcxInv'
  <2>1. /\ ops' = Append(ops, UcxOp(t, "fetch", "none", TRUE, "held"))
        /\ U!Issued(t) /\ U!Goto(t, l) /\ UNCHANGED call /\ U!Steady
    BY <1>0 DEF U!Blocking, U!Post, UcxOp
  <2>2. UcxPostsInTurn(t, UcxOp(t, "fetch", "none", TRUE, "held"), l)
    BY <1>0 DEF UcxOp
  <2> QED
    BY <2>1, <2>2, UcxOpPosted
<1>1. ASSUME NEW l \in UcxPoints, U!Nonblocking(t, l),
             \/ pc[t] \in {"swap_nbi", "cswap_nbi", "fetch_atomic_nbi"} /\ l = "probe"
             \/ pc[t] = "atomic_set" /\ l = "release"
      PROVE  UcxInv'
  <2>1. /\ ops' = Append(ops, UcxOp(t, "nbi", "none", TRUE, "held"))
        /\ U!Issued(t) /\ U!Goto(t, l) /\ UNCHANGED call /\ U!Steady
    BY <1>1 DEF U!Nonblocking, U!Post, UcxOp
  <2>2. UcxPostsInTurn(t, UcxOp(t, "nbi", "none", TRUE, "held"), l)
    BY <1>1 DEF UcxOp
  <2> QED
    BY <2>1, <2>2, UcxOpPosted
<1>2. CASE pc[t] = "put_scalar" /\ U!shmem_transport_put_scalar(t)
  <2>1. PICK b \in BOOLEAN : ops' = Append(ops, UcxOp(t, "put_scalar", "none", b, "none"))
    BY <1>2 DEF U!shmem_transport_put_scalar, U!Post, UcxOp
  <2>2. U!Issued(t) /\ U!Goto(t, "scalar_check") /\ UNCHANGED call /\ U!Steady
    BY <1>2 DEF U!shmem_transport_put_scalar
  <2>3. UcxPostsInTurn(t, UcxOp(t, "put_scalar", "none", b, "none"), "scalar_check")
    BY <1>2 DEF UcxOp
  <2> QED
    BY <2>1, <2>2, <2>3, UcxOpPosted
<1>3. CASE pc[t] = "put_nb" /\ U!shmem_transport_put_nb(t)
  <2>1. PICK b \in BOOLEAN, rq \in {"none", "held"} :
          ops' = Append(ops, UcxOp(t, "put_nb", "none", b, rq))
    BY <1>3 DEF U!shmem_transport_put_nb, U!Post, UcxOp
  <2>2. U!Issued(t) /\ U!Goto(t, "put_posted") /\ UNCHANGED call /\ U!Steady
    BY <1>3 DEF U!shmem_transport_put_nb
  <2>3. UcxPostsInTurn(t, UcxOp(t, "put_nb", "none", b, rq), "put_posted")
    BY <1>3 DEF UcxOp
  <2> QED
    BY <2>1, <2>2, <2>3, UcxOpPosted
<1>4. CASE U!shmem_transport_put_nbi(t)
  <2>1. PICK b \in BOOLEAN : ops' = Append(ops, UcxOp(t, "put_nbi", "none", b, "none"))
    BY <1>4 DEF U!shmem_transport_put_nbi, U!Post, UcxOp
  <2>2. U!Issued(t) /\ U!Goto(t, "idle") /\ UNCHANGED call /\ U!Steady /\ pc[t] = "put_nbi"
    BY <1>4 DEF U!shmem_transport_put_nbi, U!Return
  <2>3. UcxPostsInTurn(t, UcxOp(t, "put_nbi", "none", b, "none"), "idle")
    BY <2>2 DEF UcxOp
  <2> QED
    BY <2>1, <2>2, <2>3, UcxOpPosted
<1>5. CASE \/ U!shmem_transport_get(t) \/ U!shmem_transport_swap(t) \/ U!shmem_transport_cswap(t)
           \/ U!shmem_transport_fetch_atomic(t) \/ U!shmem_transport_atomic_fetch(t)
  BY <1>0, <1>5 DEF U!shmem_transport_get, U!shmem_transport_swap, U!shmem_transport_cswap,
                    U!shmem_transport_fetch_atomic, U!shmem_transport_atomic_fetch
<1>6. CASE \/ U!shmem_transport_swap_nbi(t) \/ U!shmem_transport_cswap_nbi(t)
           \/ U!shmem_transport_fetch_atomic_nbi(t) \/ U!shmem_transport_atomic_set(t)
  BY <1>1, <1>6 DEF U!shmem_transport_swap_nbi, U!shmem_transport_cswap_nbi,
                    U!shmem_transport_fetch_atomic_nbi, U!shmem_transport_atomic_set
<1>7. CASE U!shmem_transport_atomic(t)
  <2>1. /\ ops' = Append(ops, UcxOp(t, "atomic", "none", FALSE, "none"))
        /\ U!Issued(t) /\ U!Goto(t, "idle") /\ UNCHANGED call /\ U!Steady /\ pc[t] = "atomic"
    BY <1>7 DEF U!shmem_transport_atomic, U!Post, UcxOp, U!Return
  <2>2. UcxPostsInTurn(t, UcxOp(t, "atomic", "none", FALSE, "none"), "idle")
    BY <2>1 DEF UcxOp
  <2> QED
    BY <2>1, <2>2, UcxOpPosted
<1>8. CASE pc[t] = "mswap" /\ U!shmem_transport_mswap(t)
  BY <1>0, <1>8 DEF U!shmem_transport_mswap
<1>9. CASE pc[t] = "mswap_swap" /\ U!shmem_transport_mswap(t)
  <2> DEFINE arg == [cond |-> call[t].read, value |-> U!mswap_new(t)]
  <2>1. arg \in UcxArgs
    <3>1. call[t].read \in UcxWords /\ call[t].num \in Nat
      BY DEF UcxInv, UcxTypes
    <3>2. U!mswap_new(t) \in UcxWords
      BY <3>1 DEF UcxWords, U!mswap_new, U!Mine
    <3> QED
      BY <3>1, <3>2
  <2>2. /\ ops' = Append(ops, UcxOp(t, "cswap", arg, TRUE, "held"))
        /\ U!Issued(t) /\ U!Goto(t, "mswap_complete") /\ UNCHANGED call /\ U!Steady
    BY <1>9 DEF U!shmem_transport_mswap, U!Blocking, U!Post, UcxOp
  <2>3. UcxPostsInTurn(t, UcxOp(t, "cswap", arg, TRUE, "held"), "mswap_complete")
    BY <1>9 DEF UcxOp
  <2> HIDE DEF arg
  <2> QED
    BY <2>1, <2>2, <2>3, UcxOpPosted
<1>10. CASE pc[t] = "put_signal" /\ U!shmem_transport_put_signal_nbi(t)
  <2>1. PICK b \in BOOLEAN : ops' = Append(ops, UcxOp(t, "put_nbi", "none", b, "none"))
    BY <1>10 DEF U!shmem_transport_put_signal_nbi, U!Post, UcxOp
  <2>2. U!Issued(t) /\ U!Goto(t, "signal_fence") /\ UNCHANGED call /\ U!Steady
    BY <1>10 DEF U!shmem_transport_put_signal_nbi
  <2>3. UcxPostsInTurn(t, UcxOp(t, "put_nbi", "none", b, "none"), "signal_fence")
    BY <1>10 DEF UcxOp
  <2> QED
    BY <2>1, <2>2, <2>3, UcxOpPosted
<1>11. CASE pc[t] = "signal" /\ U!shmem_transport_put_signal_nbi(t)
  <2>1. U!Issued(t) /\ UNCHANGED call /\ U!Steady
    BY <1>11 DEF U!shmem_transport_put_signal_nbi
  <2>2. \/ ops' = Append(ops, UcxOp(t, "signal", "none", TRUE, "held")) /\ U!Goto(t, "release")
        \/ ops' = Append(ops, UcxOp(t, "signal", "none", FALSE, "none")) /\ U!Goto(t, "idle")
    BY <1>11 DEF U!shmem_transport_put_signal_nbi, U!Post, UcxOp
  <2>3. /\ UcxPostsInTurn(t, UcxOp(t, "signal", "none", TRUE, "held"), "release")
        /\ UcxPostsInTurn(t, UcxOp(t, "signal", "none", FALSE, "none"), "idle")
    BY <1>11 DEF UcxOp
  <2> QED
    BY <2>1, <2>2, <2>3, UcxOpPosted
<1> QED
  BY <1>2, <1>3, <1>4, <1>5, <1>6, <1>7, <1>8, <1>9, <1>10, <1>11

(* What a thread has not finished is its last operation. *)
LEMMA UcxUnfinished ==
  ASSUME UcxInv, NEW t \in Threads, NEW n \in DOMAIN ops, ops[n].by = t, ~ UcxSettled(n)
  PROVE  n = cur[t] /\ UcxAt(pc[t], n)
  BY DEF UcxInv, UcxCompletes

(* After progress, an operation that had landed is complete, ... *)
LEMMA UcxProgressed ==
  ASSUME UcxTypes, NEW n \in DOMAIN ops, U!Landed(n), UcxProgresses
  PROVE  /\ ops'[n].kind = ops[n].kind /\ ops'[n].st = "done" /\ ~ ops'[n].buf
         /\ ops'[n].req = ops[n].req
<1>1. ops[n] \in UcxOps
  BY DEF UcxTypes
<1>2. ops'[n] = [ops[n] EXCEPT !.st = "done", !.buf = FALSE]
  BY DEF U!Completed, UcxProgresses
<1> QED
  BY <1>1, <1>2 DEF UcxOps

(* ... and complete_op also frees its request. *)
LEMMA UcxFinished ==
  ASSUME UcxTypes, NEW n \in DOMAIN ops, U!Landed(n), UcxFinishes(n)
  PROVE  /\ ops'[n].kind = ops[n].kind /\ ops'[n].st = "done" /\ ~ ops'[n].buf
         /\ ops'[n].req = "freed"
<1>1. ops[n] \in UcxOps
  BY DEF UcxTypes
<1>2. U!Completed[n] = [ops[n] EXCEPT !.st = "done", !.buf = FALSE] /\ n \in DOMAIN U!Completed
  BY DEF U!Completed
<1>3. ops'[n] = [U!Completed[n] EXCEPT !.req = "freed"]
  BY <1>2 DEF UcxFinishes
<1> QED
  BY <1>1, <1>2, <1>3 DEF UcxOps

(* complete_op, in whichever call. *)
LEMMA UcxCompleteOpInv ==
  ASSUME UcxInv, NEW t \in Threads, NEW l \in UcxPoints,
         \/ pc[t] = "complete" /\ l = "idle"
         \/ pc[t] = "mswap_read" /\ l = "mswap_swap"
         \/ pc[t] = "mswap_complete" /\ l = "mswap_check",
         U!shmem_transport_ucx_complete_op(t, l),
         UNCHANGED cur, U!Steady,
         \/ UNCHANGED call
         \/ pc[t] = "mswap_read" /\ call' = [call EXCEPT ![t].read = ops[cur[t]].val]
  PROVE  UcxInv'
<1>1. cur[t] \in DOMAIN ops /\ ops[cur[t]].kind \in {"fetch", "cswap"} /\ UcxTypes
  BY DEF UcxInv, UcxNumbers, UcxSwapCalls
<1>2. UNCHANGED <<word, remote, swapped>> /\ epoch' = epoch /\ epoch \in Nat
  BY DEF U!Steady, UcxInv, UcxTypes
<1>3. CASE U!Landed(cur[t])
  <2>1. UcxFinishes(cur[t]) /\ pc' = [pc EXCEPT ![t] = l]
    BY <1>3 DEF U!shmem_transport_ucx_complete_op, UcxFinishes, U!Goto
  <2>2. UcxKeptOps
    BY <1>1, <1>3, <2>1, UcxKeeps
  <2>3. UcxGoesOn(t, l)
    BY <1>2, <2>1, <2>2 DEF UcxGoesOn
  <2>4. ASSUME NEW n \in DOMAIN ops, ops[n].by = t PROVE UcxSettled(n)'
    <3>1. CASE n = cur[t]
      BY <1>1, <1>3, <2>1, <3>1, UcxFinished DEF UcxSettled
    <3>2. CASE n # cur[t]
      BY <2>2, <2>4, <3>2, UcxUnfinished DEF UcxKeptOps
    <3> QED
      BY <3>1, <3>2
  <2>5. UcxGoesOnInTurn(t, l)
    BY <2>4 DEF UcxGoesOnInTurn
  <2> QED
    BY <2>3, <2>5, UcxGoesOnInv
<1>4. CASE ~ U!Landed(cur[t])
  <2>1. UcxProgresses /\ pc' = pc
    BY <1>4 DEF U!shmem_transport_ucx_complete_op, U!shmem_transport_probe, UcxProgresses
  <2>2. UcxKeptOps
    BY <1>1, <2>1, UcxKeeps
  <2>3. pc[t] \in UcxPoints /\ pc' = [pc EXCEPT ![t] = pc[t]]
    BY <2>1 DEF UcxInv, UcxTypes
  <2>4. UcxGoesOn(t, pc[t]) /\ UcxGoesOnInTurn(t, pc[t])
    BY <1>2, <2>2, <2>3 DEF UcxGoesOn, UcxGoesOnInTurn
  <2> QED
    BY <2>3, <2>4, UcxGoesOnInv
<1> QED
  BY <1>3, <1>4

(* A thread that has nothing unfinished makes progress, or not. *)
LEMMA UcxFreeStepInv ==
  ASSUME UcxInv, NEW t \in Threads, NEW l \in UcxPoints, U!Goto(t, l),
         UNCHANGED <<call, cur, word, remote>>, epoch' \in Nat, epoch' >= epoch,
         UcxLeavesOps \/ UcxProgresses,
         \/ pc[t] \in {"put_wait", "fence", "quiet"} /\ l \in {"idle", pc[t]} /\ UNCHANGED swapped
         \/ /\ pc[t] = "signal_fence" /\ l = "signal" /\ UNCHANGED swapped
            /\ \A n \in DOMAIN ops : U!Landed(n) \/ ops[n].epoch < epoch'
         \/ /\ pc[t] = "mswap_check" /\ U!mswap_done(t) /\ l = "idle"
            /\ swapped' = swapped \cup {<<t, call[t].num, ops[cur[t]].val.masked>>}
         \/ /\ pc[t] = "mswap_check" /\ ~ U!mswap_done(t) /\ l = "mswap" /\ UNCHANGED swapped
  PROVE  UcxInv'
<1>1. UcxKeptOps
  BY UcxKeeps DEF UcxInv
<1>2. UcxGoesOn(t, l)
  BY <1>1 DEF UcxGoesOn, U!Goto
<1>3. ASSUME NEW n \in DOMAIN ops, ops[n].by = t PROVE UcxSettled(n)'
  <2>1. UcxSettled(n)
    BY <1>3, UcxUnfinished DEF UcxAt
  <2> QED
    BY <1>1, <2>1 DEF UcxKeptOps
<1>4. UcxGoesOnInTurn(t, l)
  BY <1>3 DEF UcxGoesOnInTurn
<1> QED
  BY <1>2, <1>4, UcxGoesOnInv

(* The steps of a call after its operation is posted. *)
LEMMA UcxFollowUpInv ==
  ASSUME UcxInv, NEW t \in Threads,
         \/ pc[t] = "scalar_check" /\ U!shmem_transport_put_scalar(t)
         \/ pc[t] = "put_posted" /\ U!shmem_transport_put_nb(t)
         \/ U!shmem_transport_put_wait(t) \/ U!InPlace(t) \/ U!ProbeAndRelease(t)
         \/ pc[t] \in {"mswap_read", "mswap_complete", "mswap_check"} /\ U!shmem_transport_mswap(t)
         \/ pc[t] = "signal_fence" /\ U!shmem_transport_put_signal_nbi(t)
         \/ U!Fence(t) \/ U!Quiet(t)
  PROVE  UcxInv'
<1>0. UcxTypes /\ epoch \in Nat /\ pc[t] \in UcxPoints
  BY DEF UcxInv, UcxTypes
<1> USE DEF UcxPoints
<1>1. CASE pc[t] = "scalar_check" /\ U!shmem_transport_put_scalar(t)
  <2>1. /\ pc' = [pc EXCEPT ![t] = "idle"] /\ UNCHANGED <<call, cur, word, remote, swapped, epoch>>
        /\ \/ ops[cur[t]].buf /\ U!AllLanded /\ UcxProgresses
           \/ ~ ops[cur[t]].buf /\ UcxLeavesOps
    BY <1>1 DEF U!shmem_transport_put_scalar, U!Return, U!Goto, U!ScalarNeedsQuiet,
                U!shmem_transport_quiet, U!quiet_nothing, U!shmem_transport_probe, U!Steady,
                UcxProgresses, UcxLeavesOps
  <2>2. UcxKeptOps
    BY <1>0, <2>1, UcxKeeps
  <2>3. UcxGoesOn(t, "idle")
    BY <1>0, <2>1, <2>2 DEF UcxGoesOn
  <2>4. ASSUME NEW n \in DOMAIN ops, ops[n].by = t, ~ UcxSettled(n)' PROVE FALSE
    <3>1. ~ UcxSettled(n)
      BY <2>2, <2>4 DEF UcxKeptOps
    <3>2. n = cur[t] /\ ops[n].kind = "put_scalar" /\ ops[n].req = "none"
      BY <1>1, <2>4, <3>1, UcxUnfinished DEF UcxAt
    <3>3. ops[cur[t]].buf
      BY <3>1, <3>2 DEF UcxSettled
    <3>4. UcxProgresses /\ U!Landed(n)
      BY <2>1, <3>3 DEF U!AllLanded
    <3> QED
      BY <1>0, <2>4, <3>2, <3>4, UcxProgressed DEF UcxSettled
  <2>5. UcxGoesOnInTurn(t, "idle")
    BY <1>1, <2>4 DEF UcxGoesOnInTurn
  <2> QED
    BY <2>3, <2>5, UcxGoesOnInv
<1>2. CASE pc[t] = "put_posted" /\ U!shmem_transport_put_nb(t)
  <2>1. /\ pc' = [pc EXCEPT ![t] = "put_wait"]
        /\ UNCHANGED <<call, cur, word, remote, swapped, epoch>>
        /\ \/ ops[cur[t]].req = "none" /\ UcxLeavesOps
           \/ UcxFrees(cur[t])
    BY <1>2 DEF U!shmem_transport_put_nb, U!Goto, U!shmem_transport_ucx_post_cb_op, U!Steady,
                UcxFrees, UcxLeavesOps
  <2>2. cur[t] \in Nat
    BY DEF UcxInv, UcxTypes
  <2>3. UcxKeptOps
    BY <1>0, <2>1, <2>2, UcxKeeps
  <2>4. UcxGoesOn(t, "put_wait")
    BY <1>0, <2>1, <2>3 DEF UcxGoesOn
  <2>5. ASSUME NEW n \in DOMAIN ops, ops[n].by = t, ~ UcxSettled(n)' PROVE FALSE
    <3>1. ~ UcxSettled(n)
      BY <2>3, <2>5 DEF UcxKeptOps
    <3>2. n = cur[t] /\ ops[n].kind = "put_nb" /\ ops'[n].kind = "put_nb"
      BY <1>2, <2>3, <2>5, <3>1, UcxUnfinished DEF UcxAt, UcxKeptOps
    <3>3. ops[n].req = "held" /\ UcxFrees(n) /\ ops[n] \in UcxOps
      BY <1>0, <2>1, <3>1, <3>2 DEF UcxSettled, UcxTypes
    <3>4. ops'[n].req = "freed"
      BY <1>0, <3>3 DEF UcxFrees, U!Freed, UcxTypes, UcxOps
    <3> QED
      BY <2>5, <3>2, <3>4 DEF UcxSettled
  <2>6. UcxGoesOnInTurn(t, "put_wait")
    BY <1>2, <2>5 DEF UcxGoesOnInTurn
  <2> QED
    BY <2>4, <2>6, UcxGoesOnInv
<1>3. CASE U!shmem_transport_put_wait(t)
  <2>1. /\ pc[t] = "put_wait" /\ UNCHANGED <<call, cur, word, remote, swapped>> /\ epoch' = epoch
        /\ UcxLeavesOps \/ UcxProgresses
        /\ pc' = pc \/ U!Goto(t, "idle")
    BY <1>3 DEF U!shmem_transport_put_wait, U!Return, U!Steady, U!shmem_transport_probe,
                UcxLeavesOps, UcxProgresses
  <2>2. U!Goto(t, "put_wait") \/ U!Goto(t, "idle")
    BY <2>1 DEF U!Goto, UcxInv, UcxTypes
  <2> QED
    BY <1>0, <2>1, <2>2, UcxFreeStepInv
<1>4. CASE U!InPlace(t)
  BY <1>4, UcxCompleteOpInv DEF U!InPlace
<1>5. CASE pc[t] = "probe" /\ U!ProbeAndRelease(t)
  <2>1. /\ pc' = [pc EXCEPT ![t] = "release"] /\ UcxProgresses
        /\ UNCHANGED <<call, cur, word, remote, swapped, epoch>>
    BY <1>5 DEF U!ProbeAndRelease, U!Goto, U!Steady, U!shmem_transport_probe, UcxProgresses
  <2>2. UcxKeptOps
    BY <1>0, <2>1, UcxKeeps
  <2>3. UcxGoesOn(t, "release") /\ UcxGoesOnInTurn(t, "release")
    BY <1>0, <1>5, <2>1, <2>2 DEF UcxGoesOn, UcxGoesOnInTurn
  <2> QED
    BY <2>3, UcxGoesOnInv
<1>6. CASE pc[t] = "release" /\ U!ProbeAndRelease(t)
  <2>1. /\ pc' = [pc EXCEPT ![t] = "idle"] /\ UcxFrees(cur[t])
        /\ UNCHANGED <<call, cur, word, remote, swapped, epoch>>
    BY <1>6 DEF U!ProbeAndRelease, U!Return, U!Goto, U!Steady, U!shmem_transport_ucx_release_op,
                UcxFrees
  <2>2. cur[t] \in Nat
    BY DEF UcxInv, UcxTypes
  <2>3. UcxKeptOps
    BY <1>0, <2>1, <2>2, UcxKeeps
  <2>4. UcxGoesOn(t, "idle")
    BY <1>0, <2>1, <2>3 DEF UcxGoesOn
  <2>5. ASSUME NEW n \in DOMAIN ops, ops[n].by = t, ~ UcxSettled(n)' PROVE FALSE
    <3>1. ~ UcxSettled(n)
      BY <2>3, <2>5 DEF UcxKeptOps
    <3>2. n = cur[t] /\ ops[n].kind \in {"nbi", "signal"} /\ ops'[n].kind = ops[n].kind
      BY <1>6, <2>3, <2>5, <3>1, UcxUnfinished DEF UcxAt, UcxKeptOps
    <3>3. ops[n].req = "held" /\ UcxFrees(n) /\ ops[n] \in UcxOps
      BY <1>0, <2>1, <3>1, <3>2 DEF UcxSettled, UcxTypes
    <3>4. ops'[n].req = "freed"
      BY <1>0, <3>3 DEF UcxFrees, U!Freed, UcxTypes, UcxOps
    <3> QED
      BY <2>5, <3>2, <3>4 DEF UcxSettled
  <2>6. UcxGoesOnInTurn(t, "idle")
    BY <1>6, <2>5 DEF UcxGoesOnInTurn
  <2> QED
    BY <2>4, <2>6, UcxGoesOnInv
<1>7. CASE pc[t] = "mswap_read" /\ U!shmem_transport_mswap(t)
  BY <1>7, UcxCompleteOpInv DEF U!shmem_transport_mswap
<1>8. CASE pc[t] = "mswap_complete" /\ U!shmem_transport_mswap(t)
  BY <1>8, UcxCompleteOpInv DEF U!shmem_transport_mswap
<1>9. CASE pc[t] = "mswap_check" /\ U!shmem_transport_mswap(t)
  <2>1. /\ UNCHANGED <<call, cur, word, remote>> /\ epoch' = epoch /\ UcxProgresses
        /\ \/ /\ U!mswap_done(t) /\ U!Goto(t, "idle")
              /\ swapped' = swapped \cup {<<t, call[t].num, ops[cur[t]].val.masked>>}
           \/ ~ U!mswap_done(t) /\ U!Goto(t, "mswap") /\ UNCHANGED swapped
    BY <1>9 DEF U!shmem_transport_mswap, U!Return, U!shmem_transport_probe, UcxProgresses
  <2> QED
    BY <1>0, <1>9, <2>1, UcxFreeStepInv DEF U!Calls
<1>10. ASSUME U!shmem_transport_fence(t)
       PROVE  /\ UcxLeavesOps \/ UcxProgresses
              /\ epoch' \in Nat /\ epoch' >= epoch
              /\ \A n \in DOMAIN ops : U!Landed(n) \/ ops[n].epoch < epoch'
  <2>1. \A n \in DOMAIN ops : ops[n].epoch \in Nat /\ ops[n].epoch <= epoch
    <3>1. \A n \in DOMAIN ops : ops[n] \in UcxOps
      BY <1>0 DEF UcxTypes
    <3> QED
      BY <3>1 DEF UcxInv, UcxNumbers, UcxOps
  <2> QED
    BY <1>0, <1>10, <2>1 DEF U!shmem_transport_fence, U!AllLanded, U!shmem_transport_probe,
                             UcxLeavesOps, UcxProgresses
<1>11. CASE pc[t] = "signal_fence" /\ U!shmem_transport_put_signal_nbi(t)
  <2>1. /\ U!shmem_transport_fence(t) /\ U!Goto(t, "signal")
        /\ UNCHANGED <<call, cur, word, remote, swapped>>
    BY <1>11 DEF U!shmem_transport_put_signal_nbi
  <2> QED
    BY <1>10, <1>11, <2>1, UcxFreeStepInv
<1>12. CASE U!Fence(t)
  <2>1. /\ U!shmem_transport_fence(t) /\ U!Goto(t, "idle") /\ pc[t] = "fence"
        /\ UNCHANGED <<call, cur, word, remote, swapped>>
    BY <1>12 DEF U!Fence, U!Return
  <2> QED
    BY <1>10, <2>1, UcxFreeStepInv
<1>13. CASE U!Quiet(t)
  <2>1. /\ U!Goto(t, "idle") /\ pc[t] = "quiet" /\ UcxProgresses
        /\ UNCHANGED <<call, cur, word, remote, swapped>> /\ epoch' = epoch
    BY <1>13 DEF U!Quiet, U!Return, U!shmem_transport_quiet, U!Steady, U!shmem_transport_probe,
                 UcxProgresses
  <2> QED
    BY <1>0, <2>1, UcxFreeStepInv
<1> QED
  BY <1>1, <1>2, <1>3, <1>4, <1>5, <1>6, <1>7, <1>8, <1>9, <1>11, <1>12, <1>13
     DEF U!ProbeAndRelease

(* Steps outside the calls: the progress thread and the shutdown. *)
LEMMA UcxProgressInv ==
  ASSUME UcxInv,
         \/ U!shmem_transport_ucx_progress_thread_func \/ U!StopProgress
         \/ U!shmem_transport_fini \/ U!Finished
  PROVE  UcxInv'
<1>1. /\ UcxLeavesOps \/ UcxProgresses
      /\ UNCHANGED <<pc, call, cur, epoch, word, remote, swapped>>
  BY DEF U!shmem_transport_ucx_progress_thread_func, U!StopProgress, U!shmem_transport_fini,
         U!Finished, U!shmem_transport_probe, U!Unmoved, U!vars, UcxLeavesOps, UcxProgresses
<1>2. UcxKeptOps
  BY <1>1, UcxKeeps DEF UcxInv
<1>3. /\ MainThread \in Threads /\ pc[MainThread] \in UcxPoints /\ epoch \in Nat
      /\ pc' = [pc EXCEPT ![MainThread] = pc[MainThread]]
  BY <1>1, TransportsAssumption DEF UcxInv, UcxTypes
<1>4. epoch' \in Nat /\ epoch' >= epoch
  BY <1>1, <1>3
<1>5. UcxGoesOn(MainThread, pc[MainThread])
  BY <1>1, <1>2, <1>3, <1>4 DEF UcxGoesOn
<1>6. UcxGoesOnInTurn(MainThread, pc[MainThread])
  BY DEF UcxGoesOnInTurn
<1> QED
  BY <1>3, <1>5, <1>6, UcxGoesOnInv

(* Every step keeps the invariant. *)
LEMMA UcxNext == UcxInv /\ U!Next => UcxInv'
<1> SUFFICES ASSUME UcxInv, U!Next PROVE UcxInv'
  OBVIOUS
<1>1. ASSUME NEW t \in Threads, U!Step(t) PROVE UcxInv'
  <2>1. CASE \E c \in U!Calls : U!Call(t, c)
    BY <2>1, UcxCallInv
  <2>2. CASE U!shmem_transport_put_scalar(t)
    <3>1. pc[t] \in {"put_scalar", "scalar_check"}
      BY <2>2 DEF U!shmem_transport_put_scalar
    <3> QED
      BY <2>2, <3>1, UcxIssueInv, UcxFollowUpInv
  <2>3. CASE U!shmem_transport_put_nb(t)
    <3>1. pc[t] \in {"put_nb", "put_posted"}
      BY <2>3 DEF U!shmem_transport_put_nb
    <3> QED
      BY <2>3, <3>1, UcxIssueInv, UcxFollowUpInv
  <2>4. CASE U!shmem_transport_mswap(t)
    <3>1. pc[t] \in {"mswap", "mswap_read", "mswap_swap", "mswap_complete", "mswap_check"}
      BY <2>4 DEF U!shmem_transport_mswap
    <3> QED
      BY <2>4, <3>1, UcxIssueInv, UcxFollowUpInv
  <2>5. CASE U!shmem_transport_put_signal_nbi(t)
    <3>1. pc[t] \in {"put_signal", "signal_fence", "signal"}
      BY <2>5 DEF U!shmem_transport_put_signal_nbi
    <3> QED
      BY <2>5, <3>1, UcxIssueInv, UcxFollowUpInv
  <2> QED
    BY <1>1, <2>1, <2>2, <2>3, <2>4, <2>5, UcxIssueInv, UcxFollowUpInv DEF U!Step
<1>2. ASSUME NEW k \in DOMAIN ops, U!Land(k) PROVE UcxInv'
  BY <1>2, UcxLandInv
<1> QED
  BY <1>1, <1>2, UcxRemoteInv, UcxProgressInv DEF U!Next

(* The invariant holds in every state of the UCX build. *)
LEMMA UcxInvariant == Spec => []UcxIndInv
<1>1. Init => UcxIndInv
  BY UcxInit DEF Init, UcxIndInv
<1>2. UcxIndInv /\ [Next]_vars => UcxIndInv'
  <2> SUFFICES ASSUME UcxIndInv, [Next]_vars, transport' = "ucx" PROVE UcxInv'
    BY DEF UcxIndInv
  <2>1. CASE Next
    BY <2>1, UcxNext DEF Next, UcxIndInv
  <2>2. CASE UNCHANGED vars
    <3>1. UNCHANGED <<ops, epoch, word, remote, pc, call, cur, swapped>> /\ UcxInv
      BY <2>2 DEF vars, ucxOnly, UcxIndInv
    <3>2. \A n \in DOMAIN ops : /\ UcxSettled(n)' <=> UcxSettled(n)
                                /\ U!Landed(n)' <=> U!Landed(n)
                                /\ UcxSwapped(n)' <=> UcxSwapped(n)
                                /\ UcxAt(pc[ops[n].by], n)' <=> UcxAt(pc[ops[n].by], n)
      BY <3>1 DEF UcxSettled, U!Landed, UcxSwapped, UcxAt
    <3>3. UcxTypes' /\ UcxNumbers' /\ UcxCompletes'
      BY <3>1, <3>2 DEF UcxInv, UcxTypes, UcxNumbers, UcxCompletes
    <3>4. UcxSignals' /\ U!SignalAfterData'
      BY <3>1, <3>2 DEF UcxInv, UcxSignals, U!SignalAfterData
    <3>5. UcxSwapCalls' /\ UcxValues'
      BY <3>1, <3>2, UcxValuesKept DEF UcxInv, UcxSwapCalls
    <3> QED
      BY <3>3, <3>4, <3>5 DEF UcxInv
  <2> QED
    BY <2>1, <2>2
<1> QED
  BY <1>1, <1>2, PTL DEF Spec

(* For any number of threads, calls and updates by other PEs: the masked swap *)
(* that shmem_transport_mswap makes of a read and a compare-and-swap, retried *)
(* until the word is as it was read, is atomic.                               *)
THEOREM UcxMaskedSwapIsAtomic == Spec => []MaskedSwapIsAtomic
<1>1. UcxIndInv => MaskedSwapIsAtomic
  <2> SUFFICES ASSUME UcxInv PROVE U!MaskedSwapIsAtomic
    BY DEF UcxIndInv, MaskedSwapIsAtomic
  <2>1. ASSUME NEW a \in swapped, NEW b \in swapped, a # b PROVE a[3] # b[3]
    <3>1. PICK n \in DOMAIN ops : UcxSwapped(n) /\ a = <<ops[n].by, ops[n].num, ops[n].val.masked>>
      BY DEF UcxInv, UcxValues
    <3>2. PICK m \in DOMAIN ops : UcxSwapped(m) /\ b = <<ops[m].by, ops[m].num, ops[m].val.masked>>
      BY DEF UcxInv, UcxValues
    <3>3. n # m
      BY <2>1, <3>1, <3>2
    <3>4. ops[n].val.masked # ops[m].val.masked
      BY <3>1, <3>2, <3>3 DEF UcxInv, UcxValues
    <3> QED
      BY <3>1, <3>2, <3>4
  <2>2. ASSUME NEW a \in swapped PROVE a[3] # word.masked
    <3>1. PICK n \in DOMAIN ops : UcxSwapped(n) /\ a = <<ops[n].by, ops[n].num, ops[n].val.masked>>
      BY DEF UcxInv, UcxValues
    <3> QED
      BY <3>1 DEF UcxInv, UcxValues
  <2>3. word.other = remote
    BY DEF UcxInv, UcxValues
  <2> QED
    BY <2>1, <2>2, <2>3 DEF U!MaskedSwapIsAtomic
<1> QED
  BY <1>1, UcxInvariant, PTL

(* When a call of the UCX transport returns, put_scalar's source is no longer *)
(* used, the result of a get, a fetching atomic or a masked swap is there,    *)
(* and no request is held; and who sees the signal of a put_signal sees its   *)
(* data, with either kind of fence.                                           *)
UcxPromises == U!BlockingIsComplete /\ U!RequestsFreed /\ U!SignalAfterData

(* The UCX transport keeps these promises (transport_ucx.h:171-260, 430-740). *)
THEOREM UcxKeepsPromises == Spec => [](transport = "ucx" => UcxPromises)
<1>1. UcxIndInv => (transport = "ucx" => UcxPromises)
  <2> SUFFICES ASSUME UcxInv PROVE UcxPromises
    BY DEF UcxIndInv
  <2>1. ASSUME NEW n \in DOMAIN ops, U!Returned(n) PROVE UcxSettled(n)
    <3>1. ops[n] \in UcxOps
      BY DEF UcxInv, UcxTypes
    <3>2. /\ ops[n].by \in Threads /\ ops[n].num \in Nat
          /\ call[ops[n].by].num \in Nat
      BY <3>1 DEF UcxInv, UcxTypes, UcxOps
    <3> QED
      BY <2>1, <3>2 DEF U!Returned, UcxInv, UcxCompletes, UcxAt
  <2> QED
    BY <2>1 DEF UcxPromises, U!BlockingIsComplete, U!RequestsFreed, UcxSettled, UcxInv
<1> QED
  BY <1>1, UcxInvariant, PTL

(* The progress thread is out of the worker before the worker is destroyed. *)
UcxJoined ==
  transport = "ucx" =>
    /\ worker \in {"up", "destroyed"}
    /\ worker = "destroyed" => prog \in {"none", "exited"}

(* However the last round of the progress thread and shmem_transport_fini     *)
(* interleave, the thread never enters a worker that has been destroyed.      *)
THEOREM UcxProgressIsSafe == Spec => []ProgressOnLiveWorker
<1>1. Init => UcxJoined
  BY DEF Init, U!Init, UcxJoined
<1>2. UcxJoined /\ [Next]_vars => UcxJoined'
  <2> SUFFICES ASSUME UcxJoined, [Next]_vars, transport' = "ucx"
               PROVE  /\ worker' \in {"up", "destroyed"}
                      /\ worker' = "destroyed" => prog' \in {"none", "exited"}
    BY DEF UcxJoined
  <2>1. CASE UNCHANGED vars
    BY <2>1 DEF vars, ucxOnly, UcxJoined
  <2>2. CASE Next
    <3>1. transport = "ucx" /\ U!Next
      BY <2>2 DEF Next
    <3>2. ASSUME NEW t \in Threads, U!Step(t) PROVE UNCHANGED <<prog, worker>>
      BY <3>2 DEF U!Step, U!Call, U!shmem_transport_put_scalar, U!shmem_transport_put_nb,
           U!shmem_transport_put_wait, U!shmem_transport_put_nbi, U!shmem_transport_get,
           U!shmem_transport_swap, U!shmem_transport_cswap, U!shmem_transport_fetch_atomic,
           U!shmem_transport_atomic_fetch, U!InPlace, U!shmem_transport_swap_nbi,
           U!shmem_transport_cswap_nbi, U!shmem_transport_fetch_atomic_nbi,
           U!shmem_transport_atomic_set, U!ProbeAndRelease, U!shmem_transport_atomic,
           U!shmem_transport_mswap, U!shmem_transport_put_signal_nbi, U!Fence, U!Quiet,
           U!Blocking, U!Nonblocking, U!shmem_transport_quiet, U!quiet_nothing, U!Steady,
           U!finiVars
    <3>3. ASSUME NEW k \in DOMAIN ops, U!Land(k) PROVE UNCHANGED <<prog, worker>>
      BY <3>3 DEF U!Land, U!finiVars
    <3>4. CASE U!RemoteUpdate \/ U!StopProgress \/ U!Finished
      BY <3>1, <3>4 DEF U!RemoteUpdate, U!finiVars, U!StopProgress, U!Finished, U!vars, UcxJoined
    <3>5. CASE U!shmem_transport_ucx_progress_thread_func
      BY <3>1, <3>5 DEF U!shmem_transport_ucx_progress_thread_func, UcxJoined
    <3>6. CASE U!shmem_transport_fini
      BY <3>6 DEF U!shmem_transport_fini, U!Joined
    <3> QED
      BY <3>1, <3>2, <3>3, <3>4, <3>5, <3>6 DEF U!Next, UcxJoined
  <2> QED
    BY <2>1, <2>2
<1>3. UcxJoined => ProgressOnLiveWorker
  BY DEF UcxJoined, ProgressOnLiveWorker, U!ProgressOnLiveWorker
<1> QED
  BY <1>1, <1>2, <1>3, PTL DEF Spec

-----------------------------------------------------------------------------
(***************************************************************************)
(* The Portals 4 transport (Portals4, as P in MCTransports),               *)
(* for any number of operations, event slots, fragments and counters.      *)
(*                                                                         *)
(* The inductive invariant PtlInv has a part for each resource.  PtlSlots: *)
(* slots that are out are events in the queue and events to come.          *)
(* PtlFrags: so are the references of fragments, and completion counts     *)
(* those put_wait waits for.  PtlCounts: a counter falls short of what is  *)
(* pending by what is in flight, and the three waits of a quiet empty its  *)
(* context one counter after the other.  PtlSource: where the program may  *)
(* be while a source is still to be read.  PtlFence: what is in flight     *)
(* behind a fence is a short message that the network keeps in order.      *)
(* PtlTable: who has which entry of the portal table.                      *)
(*                                                                         *)
(* Steps are grouped by what they do to the operations in flight: issue    *)
(* one (PtlIssues, PtlPosts), none (PtlMoves), change one (PtlReplaces);   *)
(* the ones that leave events and fragments alone are PtlCalm.             *)
(***************************************************************************)

(* The inductive invariant.                                                *)

Ctxs == {"default", "user"}
PtlOps ==
  [num : Nat, ctx : Ctxs, md : {"volatile", "put", "get", "event"}, frag : Nat,
   sent : BOOLEAN, delivered : BOOLEAN, blocking : BOOLEAN, after : Nat]
PtlFrag == [type : {"bounce", "long"}, reference : Nat, free : BOOLEAN]
PtlReqs ==
  [kind : {"none", "bounce", "long", "atomicv", "user", "signal"}, ctx : Ctxs, left : Int,
   frag : Nat, then : {"user", "signal", "fence_quiet", "destroy", "fini"}]
Quiets == {"quiet_get", "quiet_event", "quiet_put"}
PtlPoints ==
  {"user", "slot", "issue", "put_wait", "get_wait", "fence", "fence_quiet", "fenced", "signal",
   "destroy", "fini", "down", "crashed", "torn"} \cup Quiets

PtlTypes ==
  /\ build \in Builds /\ ctxs \subseteq Ctxs
  /\ event_slots \in Int /\ completion \in Int /\ issued \in Nat
  /\ eq \in Seq(P!Frags)
  /\ frags \in [P!Frags -> PtlFrag]
  /\ pending \in [P!Counters -> Nat] /\ ct \in [P!Counters -> Nat]
  /\ long_pending \in BOOLEAN
  /\ flight \subseteq PtlOps /\ IsFiniteSet(flight)
  /\ fenced \in [Ctxs -> Nat]
  /\ pc \in PtlPoints /\ req \in PtlReqs

(* Where the program is, and with what. *)
Sending == pc \in {"slot", "issue"}
PtlControl ==
  /\ Sending =>
       /\ req.kind \in {"bounce", "long", "atomicv"} /\ req.ctx = "default" /\ req.left >= 1
       /\ req.then = "user"
       /\ IF req.kind = "atomicv"
          THEN /\ req.frag \in P!Frags /\ req.left <= build.fragments
               /\ issued + req.left <= build.ops + build.fragments - 1
          ELSE req.frag = 0 /\ req.left = 1 /\ issued < build.ops
  /\ pc = "put_wait" => req.then = "user"
  /\ pc \in Quiets =>
       /\ req.then \in {"user", "fence_quiet", "destroy", "fini"}
       /\ req.then = "fence_quiet" => req.kind \in {"user", "signal"}
       /\ req.then = "destroy" => req.ctx = "user"
  /\ pc = "fence_quiet" => req.kind \in {"user", "signal"}
  /\ pc \in {"fence", "fenced"} => req.then \in {"user", "signal"}
  /\ pc = "destroy" => req.ctx = "user"

(* The operations in the network. *)
OpSound(o) ==
  /\ o.num <= issued /\ 0 < o.num /\ o.after < o.num /\ o.after <= fenced[o.ctx]
  /\ o.delivered => o.sent
  /\ o.md \in {"volatile", "get"} => o.sent
  /\ o.md = "event" => o.ctx = "default" /\ o.frag \in P!Frags
  /\ o.blocking => o.md = "event" \/ (o.md = "put" /\ o.ctx = "user")
PtlFlight ==
  /\ \A o \in flight : OpSound(o)
  /\ \A o, p \in flight : o.num = p.num => o = p
  /\ \A c \in Ctxs : fenced[c] <= issued

(* Event slots: Unsent is what will still put an event into the queue. *)
Unsent == {o \in flight : o.md = "event" /\ ~ o.sent}
PtlSlots ==
  /\ build.slots - event_slots =
       Len(eq) + Cardinality(Unsent) + (IF pc = "issue" THEN 1 ELSE 0)
  /\ event_slots > 0 \/ build.slots = 0
  /\ Len(eq) + Cardinality(Unsent) <= issued

(* Fragments, and what put_wait counts. *)
UnsentOf(f)  == {o \in Unsent : o.frag = f}
EventsOf(f)  == {n \in 1 .. Len(eq) : eq[n] = f}
Waited       == {o \in Unsent : o.blocking}
LongEvents   == {n \in 1 .. Len(eq) : frags[eq[n]].type = "long"}
InUse        == {f \in P!Frags : ~ frags[f].free}
Holds(f)     == Sending /\ req.frag = f
FragSound(f) ==
  /\ frags[f].reference = Cardinality(EventsOf(f)) + Cardinality(UnsentOf(f))
  /\ frags[f].free <=> frags[f].reference = 0 /\ ~ Holds(f)
  /\ frags[f].type = "bounce" => frags[f].reference <= 1
PtlFrags ==
  /\ \A f \in P!Frags : FragSound(f)
  /\ \A o \in Unsent : frags[o.frag].type = IF o.blocking THEN "long" ELSE "bounce"
  /\ completion = Cardinality(LongEvents) + Cardinality(Waited)
  /\ Cardinality(InUse) <= issued + (IF Sending /\ req.frag # 0 THEN 1 ELSE 0)
  /\ Sending /\ req.kind = "atomicv" =>
       /\ frags[req.frag].type = "long"
       /\ req.left = build.fragments => frags[req.frag].reference = 0

(* The counters, and how far a quiet has got. *)
CountedBy(k) == {o \in flight : P!CounterOf(o) = k}
PtlCounts ==
  /\ \A k \in P!Counters : pending[k] = ct[k] + Cardinality(CountedBy(k)) /\ pending[k] <= issued
  /\ covered = {}
  /\ pc \in {"quiet_event", "quiet_put"} => CountedBy(<<req.ctx, "get">>) = {}
  /\ pc = "quiet_put" => CountedBy(<<"event", "put">>) = {}
  /\ pc \in {"destroy", "fence_quiet"} => \A o \in flight : o.ctx # req.ctx

PtlSource ==
  \A o \in flight : o.blocking /\ ~ o.sent =>
    \/ o.md = "event" /\ pc \in {"slot", "issue", "put_wait", "torn"} /\ req.ctx = "default"
    \/ /\ o.md = "put" /\ req.ctx = "user" /\ req.then = "user"
       /\ pc \in Quiets \cup {"put_wait"}

(* What a fence has followed, and what it may follow when it leaves out    *)
(* the quiet.                                                              *)
PtlFence ==
  /\ \A o \in flight : o.md # "get" /\ o.num <= fenced[o.ctx] => build.ordering /\ o.md = "volatile"
  /\ build.ordering /\ ~ long_pending => \A o \in flight : o.md \in {"volatile", "get"}
  /\ pc = "fenced" => \A o \in flight :
       o.ctx = req.ctx /\ o.md # "get" => build.ordering /\ o.md = "volatile"
  /\ P!FenceOrders
  /\ build.contexts = "none" => /\ ctxs \subseteq {"default"} /\ req.ctx = "default"
                                /\ \A o \in flight : o.ctx = "default"

(* The portal table. *)
PtlTable ==
  /\ pt_state \in [P!PTs -> {"free", "allocated", "reserved"}]
  /\ P!PtDisjoint

(* The cases in which the counts and the order are kept; in the others the *)
(* code fails.  No context is created while operations are under way,      *)
(* which would reset their count (transport_portals4.c:309);               *)
Early == build.contexts # "late"
(* and there is only the default one where the fence relies on the order   *)
(* of the network, since all share one flag (transport_portals4.h:306).    *)
Ordered == Early /\ (build.ordering => build.contexts = "none")

PtlInv ==
  /\ PtlTypes /\ PtlControl /\ PtlFlight /\ PtlSlots /\ PtlFrags
  /\ Early => PtlCounts /\ PtlSource
  /\ Ordered => PtlFence
  /\ PtlTable

PtlIndInv == transport = "portals4" => PtlInv
-----------------------------------------------------------------------------
(* Lemmas on the operators.                                                *)

(* What a build is made of. *)
LEMMA PtlBuild ==
  ASSUME build \in Builds
  PROVE  /\ build.slots \in Nat /\ build.fragments \in Nat /\ build.fragments >= 1
         /\ build.ordering \in BOOLEAN /\ build.rva \in BOOLEAN
         /\ build.ops \in Nat /\ build.cts \in Nat
  BY TransportsAssumption

Smaller == OpToRel(<, Nat)
(* Min is the minimum. *)
LEMMA PtlMinIsLeast ==
  ASSUME NEW S, S \subseteq Nat, S # {}
  PROVE  P!Min(S) \in S /\ \A y \in S : P!Min(S) <= y
<1>0. IsWellFoundedOn(Smaller, Nat)
  BY NatLessThanWellFounded DEF Smaller
<1>1. \A m, n \in Nat : m < n => <<m, n>> \in Smaller
  BY DEF Smaller, OpToRel
<1>2. PICK x \in S : \A y \in S : <<y, x>> \notin Smaller
  BY <1>0, WFMin
<1>3. ASSUME NEW y \in S PROVE x <= y
  <2>1. x \in Nat /\ y \in Nat /\ ~ (y < x)
    BY <1>1, <1>2
  <2> QED
    BY <2>1
<1> QED
  BY <1>3 DEF P!Min

(* The greater of 0 and another number. *)
LEMMA PtlMaxWithZero ==
  ASSUME NEW n \in Int
  PROVE  P!Max({0, n}) = IF n > 0 THEN n ELSE 0
<1>1. \E x \in {0, n} : \A y \in {0, n} : x >= y
  OBVIOUS
<1> QED
  BY <1>1 DEF P!Max

(* The cardinality of the instance is the library's. *)
LEMMA PtlCardinalityIs == \A S : P!Cardinality(S) = Cardinality(S)
  BY DEF P!Cardinality, Cardinality

(* Taking the head of a sequence shifts the indices. *)
LEMMA ShiftedIndices ==
  ASSUME NEW L \in Nat, NEW S, S \subseteq 1 .. L
  PROVE  /\ IsFiniteSet(S) /\ Cardinality(S) \in Nat
         /\ Cardinality({n \in 1 .. L - 1 : n + 1 \in S})
              = IF 1 \in S THEN Cardinality(S) - 1 ELSE Cardinality(S)
<1> DEFINE T == {n \in 1 .. L - 1 : n + 1 \in S}
           g == [n \in T |-> n + 1]
<1>0. IsFiniteSet(1 .. L)
  BY FS_Interval, 1 \in Int, L \in Int
<1>1. IsFiniteSet(S) /\ Cardinality(S) \in Nat
  BY <1>0, FS_Subset, FS_CardinalityType
<1>2. IsFiniteSet(T)
  BY <1>0, FS_Subset, T \subseteq 1 .. L
<1>3. IsFiniteSet(S \ {1}) /\ Cardinality(S \ {1}) = IF 1 \in S THEN Cardinality(S) - 1 ELSE Cardinality(S)
  BY <1>1, FS_RemoveElement
<1>4. g \in Bijection(T, S \ {1})
  <2>1. g \in [T -> S \ {1}]
    OBVIOUS
  <2>2. \A a, b \in T : g[a] = g[b] => a = b
    OBVIOUS
  <2>3. ASSUME NEW s \in S \ {1} PROVE \E a \in T : g[a] = s
    <3>1. s - 1 \in T /\ g[s - 1] = s
      OBVIOUS
    <3> QED
      BY <3>1
  <2> QED
    BY <2>1, <2>2, <2>3 DEF Bijection, Injection, Surjection, IsInjective
<1>5. ExistsBijection(T, S \ {1})
  BY <1>4 DEF ExistsBijection
<1>6. Cardinality(S \ {1}) = Cardinality(T)
  BY <1>2, <1>5, FS_Bijection
<1> QED
  BY <1>1, <1>3, <1>6

(* A number more, or the same, at the end of a sequence. *)
LEMMA GrownSet ==
  ASSUME NEW S, NEW x, IsFiniteSet(S), x \notin S
  PROVE  /\ IsFiniteSet(S \cup {x}) /\ Cardinality(S) \in Nat
         /\ Cardinality(S \cup {x}) = Cardinality(S) + 1
  BY FS_AddElement, FS_CardinalityType

(* One less. *)
LEMMA ShrunkSet ==
  ASSUME NEW S, NEW x, IsFiniteSet(S), x \in S
  PROVE  /\ IsFiniteSet(S \ {x}) /\ Cardinality(S) \in Nat /\ Cardinality(S) >= 1
         /\ Cardinality(S \ {x}) = Cardinality(S) - 1
<1>1. Cardinality(S) \in Nat /\ Cardinality(S) # 0
  BY FS_CardinalityType, FS_EmptySet
<1> QED
  BY <1>1, FS_RemoveElement

(* Every set the invariant counts is finite. *)
LEMMA PtlFinite ==
  ASSUME PtlTypes
  PROVE  /\ IsFiniteSet(Unsent) /\ Cardinality(Unsent) \in Nat
         /\ \A f : IsFiniteSet(UnsentOf(f)) /\ Cardinality(UnsentOf(f)) \in Nat
         /\ \A f : IsFiniteSet(EventsOf(f)) /\ Cardinality(EventsOf(f)) \in Nat
         /\ IsFiniteSet(Waited) /\ Cardinality(Waited) \in Nat
         /\ IsFiniteSet(LongEvents) /\ Cardinality(LongEvents) \in Nat
         /\ IsFiniteSet(InUse) /\ Cardinality(InUse) \in Nat
         /\ \A k : IsFiniteSet(CountedBy(k)) /\ Cardinality(CountedBy(k)) \in Nat
<1>1. IsFiniteSet(Unsent)
  BY FS_Subset, Unsent \subseteq flight DEF PtlTypes, Unsent
<1>2. IsFiniteSet(Waited)
  BY <1>1, FS_Subset, Waited \subseteq Unsent DEF Waited
<1>3. \A f : IsFiniteSet(UnsentOf(f))
  <2> SUFFICES ASSUME NEW f PROVE IsFiniteSet(UnsentOf(f))
    OBVIOUS
  <2> QED
    BY <1>1, FS_Subset, UnsentOf(f) \subseteq Unsent DEF UnsentOf
<1>4. \A k : IsFiniteSet(CountedBy(k))
  <2> SUFFICES ASSUME NEW k PROVE IsFiniteSet(CountedBy(k))
    OBVIOUS
  <2> QED
    BY FS_Subset, CountedBy(k) \subseteq flight DEF PtlTypes, CountedBy
<1>5. Len(eq) \in Nat
  BY DEF PtlTypes
<1>6. \A f : IsFiniteSet(EventsOf(f))
  <2> SUFFICES ASSUME NEW f PROVE IsFiniteSet(EventsOf(f))
    OBVIOUS
  <2> QED
    BY <1>5, ShiftedIndices, EventsOf(f) \subseteq 1 .. Len(eq) DEF EventsOf
<1>7. IsFiniteSet(LongEvents)
  BY <1>5, ShiftedIndices, LongEvents \subseteq 1 .. Len(eq) DEF LongEvents
<1>8. IsFiniteSet(InUse)
  <2>1. build.ops * build.fragments + 1 \in Int
    BY PtlBuild DEF PtlTypes
  <2>2. IsFiniteSet(P!Frags)
    BY <2>1, FS_Interval DEF P!Frags
  <2> QED
    BY <2>2, FS_Subset, InUse \subseteq P!Frags DEF InUse
<1> QED
  BY <1>1, <1>2, <1>3, <1>4, <1>6, <1>7, <1>8, FS_CardinalityType

(* There is a free fragment: fewer are in use than there can be. *)
LEMMA PtlFreeFrag ==
  ASSUME PtlTypes, PtlFrags, ~ Sending \/ req.frag = 0, issued < build.ops
  PROVE  P!FreeFrag \in P!Frags /\ frags[P!FreeFrag].free
<1>0. build.ops \in Nat /\ build.fragments \in Nat /\ build.fragments >= 1
  BY PtlBuild DEF PtlTypes
<1>1. build.ops <= build.ops * build.fragments /\ build.ops * build.fragments \in Nat
  BY <1>0
<1> DEFINE Free == {f \in P!Frags : frags[f].free}
<1>2. ASSUME Free = {} PROVE FALSE
  <2>1. InUse = P!Frags
    BY <1>2 DEF InUse
  <2>2. Cardinality(InUse) = build.ops * build.fragments + 1
    <3>1. build.ops * build.fragments + 1 \in Int /\ ~ (1 > build.ops * build.fragments + 1)
      BY <1>1
    <3> QED
      BY <2>1, <3>1, FS_Interval DEF P!Frags
  <2>3. Cardinality(InUse) <= issued
    BY DEF PtlFrags, PtlTypes
  <2> QED
    BY <1>0, <1>1, <2>2, <2>3 DEF PtlTypes
<1>3. Free \subseteq Nat
  BY <1>1 DEF P!Frags
<1>4. P!Min(Free) \in Free
  BY <1>2, <1>3, PtlMinIsLeast
<1> QED
  BY <1>4 DEF P!FreeFrag
-----------------------------------------------------------------------------
(* What happens to the operations in flight: one is added, replaced or     *)
(* removed.                                                                *)

PtlAdds(o) ==
  /\ o \in PtlOps /\ flight' = flight \cup {o}
  /\ o.num = issued + 1 /\ issued' = issued + 1
  /\ o.after = fenced[o.ctx]
  /\ ~ o.delivered /\ (o.sent <=> o.md \in {"volatile", "get"})
  /\ o.md = "event" => o.ctx = "default" /\ o.frag \in P!Frags
  /\ o.blocking => o.md = "event" \/ (o.md = "put" /\ o.ctx = "user")

PtlReplaces(o, q) ==
  /\ o \in flight /\ q \in PtlOps /\ flight' = (flight \ {o}) \cup {q}
  /\ q.num = o.num /\ q.ctx = o.ctx /\ q.md = o.md /\ q.frag = o.frag
  /\ q.blocking = o.blocking /\ q.after = o.after
  /\ (o.sent => q.sent) /\ (q.delivered => q.sent)

(* P!Issue adds one. *)
LEMMA PtlIssueAdds ==
  ASSUME PtlTypes, NEW c \in Ctxs, NEW md \in {"volatile", "put", "get", "event"},
         NEW f \in Nat, NEW b \in BOOLEAN, P!Issue(c, md, f, b),
         md = "event" => c = "default" /\ f \in P!Frags,
         b => md = "event" \/ (md = "put" /\ c = "user")
  PROVE  \E o : PtlAdds(o) /\ o.ctx = c /\ o.md = md /\ o.frag = f /\ o.blocking = b
<1> DEFINE r == [num |-> issued + 1, ctx |-> c, md |-> md, frag |-> f,
                 sent |-> md \in {"volatile", "get"}, delivered |-> FALSE,
                 blocking |-> b, after |-> fenced[c]]
<1>1. PICK o : o = r
  OBVIOUS
<1>2. o \in PtlOps
  <2>1. issued + 1 \in Nat /\ fenced[c] \in Nat /\ (md \in {"volatile", "get"}) \in BOOLEAN
    BY DEF PtlTypes
  <2> QED
    BY <1>1, <2>1 DEF PtlOps
<1>3. /\ o.num = issued + 1 /\ o.ctx = c /\ o.md = md /\ o.frag = f /\ o.blocking = b
      /\ o.after = fenced[c] /\ o.delivered = FALSE
  BY <1>1
<1>4. o.sent <=> md \in {"volatile", "get"}
  BY <1>1
<1>5. flight' = flight \cup {o} /\ issued' = issued + 1
  BY <1>1 DEF P!Issue
<1> QED
  BY <1>2, <1>3, <1>4, <1>5 DEF PtlAdds

(* The operations are still of their type, and the new one is new. *)
LEMMA PtlAddsTypes ==
  ASSUME PtlTypes, PtlFlight, NEW o, PtlAdds(o)
  PROVE  /\ o \notin flight /\ flight' \subseteq PtlOps /\ IsFiniteSet(flight')
         /\ issued' \in Nat
<1>1. o \notin flight
  BY DEF PtlTypes, PtlFlight, OpSound, PtlAdds
<1>2. IsFiniteSet(flight')
  BY FS_AddElement DEF PtlTypes, PtlAdds
<1> QED
  BY <1>1, <1>2 DEF PtlTypes, PtlAdds

(* It is sound. *)
LEMMA PtlAddsFlight ==
  ASSUME PtlTypes, PtlFlight, NEW o, PtlAdds(o), UNCHANGED <<build, fenced>>
  PROVE  PtlFlight'
<1>1. P!Frags' = P!Frags
  BY DEF P!Frags
<1>2. fenced[o.ctx] \in Nat /\ fenced[o.ctx] <= issued /\ issued \in Nat
  BY DEF PtlTypes, PtlFlight, PtlAdds, PtlOps
<1>3. OpSound(o)'
  BY <1>1, <1>2 DEF PtlAdds, OpSound
<1>4. ASSUME NEW x \in flight PROVE OpSound(x)'
  <2>1. x \in PtlOps /\ OpSound(x) /\ x.num <= issued
    BY DEF PtlTypes, PtlFlight, OpSound
  <2>2. x.num <= issued'
    BY <2>1 DEF PtlAdds, PtlTypes, PtlOps
  <2> QED
    BY <1>1, <2>1, <2>2 DEF OpSound
<1>5. \A x \in flight : x.num # o.num
  BY DEF PtlTypes, PtlFlight, OpSound, PtlAdds, PtlOps
<1>6. \A c \in Ctxs : fenced'[c] <= issued'
  BY DEF PtlTypes, PtlFlight, PtlAdds
<1> QED
  BY <1>3, <1>4, <1>5, <1>6 DEF PtlFlight, PtlAdds

(* It will send an event, or not. *)
LEMMA PtlAddsUnsent ==
  ASSUME PtlTypes, PtlFlight, NEW o, PtlAdds(o)
  PROVE  /\ o.md # "event" => Unsent' = Unsent
         /\ o.md = "event" => Unsent' = Unsent \cup {o} /\ o \notin Unsent
<1>1. o \notin flight
  BY PtlAddsTypes
<1>2. CASE o.md # "event"
  BY <1>2 DEF Unsent, PtlAdds
<1>3. CASE o.md = "event"
  BY <1>1, <1>3 DEF Unsent, PtlAdds
<1> QED
  BY <1>2, <1>3

(* It is counted by its counter. *)
LEMMA PtlAddsCounted ==
  ASSUME PtlTypes, PtlFlight, NEW o, PtlAdds(o), NEW k
  PROVE  Cardinality(CountedBy(k))' =
           Cardinality(CountedBy(k)) + (IF P!CounterOf(o) = k THEN 1 ELSE 0)
<1>1. o \notin flight
  BY PtlAddsTypes
<1>2. IsFiniteSet(CountedBy(k)) /\ Cardinality(CountedBy(k)) \in Nat
  BY PtlFinite
<1>3. CASE P!CounterOf(o) = k
  <2>1. CountedBy(k)' = CountedBy(k) \cup {o} /\ o \notin CountedBy(k)
    BY <1>1, <1>3 DEF CountedBy, PtlAdds, P!CounterOf
  <2> QED
    BY <1>2, <1>3, <2>1, GrownSet
<1>4. CASE P!CounterOf(o) # k
  <2>1. CountedBy(k)' = CountedBy(k)
    BY <1>4 DEF CountedBy, PtlAdds, P!CounterOf
  <2> QED
    BY <1>2, <1>4, <2>1
<1> QED
  BY <1>3, <1>4

(* A replaced operation keeps its number: all stay of their type and sound. *)
LEMMA PtlReplacesFlight ==
  ASSUME PtlTypes, PtlFlight, NEW o, NEW q, PtlReplaces(o, q), UNCHANGED <<build, fenced, issued>>
  PROVE  PtlFlight' /\ flight' \subseteq PtlOps /\ IsFiniteSet(flight')
<1>1. P!Frags' = P!Frags
  BY DEF P!Frags
<1>2. IsFiniteSet(flight')
  BY FS_AddElement, FS_RemoveElement DEF PtlTypes, PtlReplaces
<1>3. OpSound(o)
  BY DEF PtlFlight, PtlReplaces
<1>4. OpSound(q)'
  BY <1>1, <1>3 DEF PtlReplaces, OpSound
<1>5. ASSUME NEW x \in flight PROVE OpSound(x)'
  BY <1>1 DEF PtlFlight, OpSound
<1>6. flight' \subseteq PtlOps
  BY DEF PtlTypes, PtlReplaces
<1>7. \A x, y \in flight' : x.num = y.num => x = y
  BY DEF PtlFlight, PtlReplaces
<1>8. \A c \in Ctxs : fenced'[c] <= issued'
  BY DEF PtlFlight
<1> QED
  BY <1>2, <1>4, <1>5, <1>6, <1>7, <1>8 DEF PtlFlight, PtlReplaces

(* It is counted by the same counter. *)
LEMMA PtlReplacesCounted ==
  ASSUME PtlTypes, PtlFlight, NEW o, NEW q, PtlReplaces(o, q), NEW k
  PROVE  Cardinality(CountedBy(k))' = Cardinality(CountedBy(k))
<1>1. P!CounterOf(o) = P!CounterOf(q)
  BY DEF PtlReplaces, P!CounterOf
<1>2. q \in flight => q = o
  BY DEF PtlReplaces, PtlFlight
<1>3. IsFiniteSet(CountedBy(k)) /\ Cardinality(CountedBy(k)) \in Nat
  BY PtlFinite
<1>4. CASE P!CounterOf(o) = k
  <2>1. CountedBy(k)' = (CountedBy(k) \ {o}) \cup {q} /\ o \in CountedBy(k)
    BY <1>1, <1>4 DEF CountedBy, PtlReplaces, P!CounterOf
  <2>2. IsFiniteSet(CountedBy(k) \ {o}) /\ Cardinality(CountedBy(k) \ {o}) = Cardinality(CountedBy(k)) - 1
    BY <1>3, <2>1, ShrunkSet
  <2>3. q \notin CountedBy(k) \ {o}
    BY <1>2 DEF CountedBy
  <2>4. Cardinality((CountedBy(k) \ {o}) \cup {q}) = Cardinality(CountedBy(k) \ {o}) + 1
    BY <2>2, <2>3, GrownSet
  <2> QED
    BY <1>3, <2>1, <2>2, <2>4
<1>5. CASE P!CounterOf(o) # k
  <2>1. CountedBy(k)' = CountedBy(k)
    BY <1>1, <1>5 DEF CountedBy, PtlReplaces, P!CounterOf
  <2> QED
    BY <2>1
<1> QED
  BY <1>4, <1>5
-----------------------------------------------------------------------------
(* Steps that leave events and fragments alone.                            *)

PtlCalm ==
  /\ UNCHANGED <<build, event_slots, eq, frags, completion>>
  /\ Unsent' = Unsent /\ issued' \in Nat /\ issued' >= issued
  /\ \/ UNCHANGED <<pc, req>>
     \/ ~ Sending /\ ~ Sending'
     \/ ~ Sending /\ pc' = "slot" /\ req'.frag = 0 /\ req'.kind # "atomicv"

(* They keep what the invariant says of these. *)
LEMMA PtlCalmKeeps ==
  ASSUME PtlTypes, PtlControl, PtlSlots, PtlFrags, PtlCalm
  PROVE  PtlSlots' /\ PtlFrags'
<1>0. P!Frags' = P!Frags /\ 0 \notin P!Frags /\ issued \in Nat
  BY DEF P!Frags, PtlCalm, PtlTypes
<1>1. (pc' = "issue") = (pc = "issue")
  BY DEF PtlCalm, Sending
<1>2. PtlSlots'
  <2>1. Cardinality(Unsent) \in Nat /\ Len(eq) \in Nat
    BY PtlFinite DEF PtlTypes
  <2> QED
    BY <1>0, <1>1, <2>1 DEF PtlSlots, PtlCalm
<1>3. ASSUME NEW f \in P!Frags PROVE Holds(f)' = Holds(f)
  BY <1>0 DEF PtlCalm, Holds, Sending
<1>4. ASSUME NEW f \in P!Frags PROVE FragSound(f)'
  <2>1. UnsentOf(f)' = UnsentOf(f) /\ EventsOf(f)' = EventsOf(f)
    BY DEF UnsentOf, EventsOf, PtlCalm
  <2>2. FragSound(f)
    BY DEF PtlFrags
  <2> QED
    BY <1>3, <2>1, <2>2 DEF FragSound, PtlCalm
<1>5. Waited' = Waited /\ LongEvents' = LongEvents /\ InUse' = InUse
  BY <1>0 DEF Waited, LongEvents, InUse, PtlCalm
<1>6. \A o \in Unsent' : frags'[o.frag].type = IF o.blocking THEN "long" ELSE "bounce"
  BY DEF PtlFrags, PtlCalm
<1>7. completion' = Cardinality(LongEvents') + Cardinality(Waited')
  BY <1>5 DEF PtlFrags, PtlCalm
<1>8. Cardinality(InUse') <= issued' + (IF Sending' /\ req'.frag # 0 THEN 1 ELSE 0)
  <2>1. Cardinality(InUse) <= issued + (IF Sending /\ req.frag # 0 THEN 1 ELSE 0)
    BY DEF PtlFrags
  <2>2. (Sending' /\ req'.frag # 0) = (Sending /\ req.frag # 0)
    BY DEF PtlCalm, Sending
  <2>3. Cardinality(InUse) \in Nat
    BY PtlFinite
  <2> QED
    BY <1>0, <1>5, <2>1, <2>2, <2>3 DEF PtlCalm
<1>9. Sending' /\ req'.kind = "atomicv" =>
       /\ frags'[req'.frag].type = "long"
       /\ req'.left = build'.fragments => frags'[req'.frag].reference = 0
  BY DEF PtlFrags, PtlCalm, Sending
<1> QED
  BY <1>0, <1>2, <1>4, <1>6, <1>7, <1>8, <1>9 DEF PtlFrags

(* Most steps leave the portal table alone. *)
LEMMA PtlTableKept ==
  ASSUME PtlTable, UNCHANGED <<build, pt_state, cts>>
  PROVE  PtlTable'
<1>1. P!PtDisjoint'
  BY DEF PtlTable, P!PtDisjoint, P!SegmentPTs, P!PTs, P!FreePTs, P!UsedPTs
<1> QED
  BY <1>1 DEF PtlTable, P!PTs

(* An operation is issued, ... *)
PtlIssues(o) ==
  /\ PtlAdds(o) /\ o.ctx \in ctxs \cup {req.ctx}
  /\ pending' = [pending EXCEPT ![P!CounterOf(o)] = @ + 1]
  /\ UNCHANGED <<build, ctxs, event_slots, eq, ct, fenced, covered, pt_state, cts>>
  /\ (long_pending' = long_pending /\ o.md \in {"volatile", "get"}) \/ long_pending' = build.ordering
  /\ pc' \in {"user", "slot", "put_wait", "fence"}
  /\ req' \in PtlReqs /\ req'.ctx \in {"default", o.ctx, req.ctx}

(* ... on another descriptor than the one with events. *)
PtlPosts(o) ==
  /\ PtlIssues(o) /\ o.md # "event"
  /\ UNCHANGED <<frags, completion>>
  /\ pc \in {"user", "signal"} /\ pc' \in {"user", "put_wait", "fence"}
  /\ pc' = "put_wait" => req'.then = "user"
  /\ pc' = "fence" => req'.then \in {"user", "signal"}
  /\ o.blocking => o.md = "put" /\ o.ctx = "user" /\ pc' = "put_wait"
                   /\ req'.ctx = "user" /\ req'.then = "user"

(* The types of what it changes. *)
LEMMA PtlIssuesTypes ==
  ASSUME PtlInv, NEW o, PtlIssues(o), frags' \in [P!Frags -> PtlFrag], completion' \in Int
  PROVE  PtlTypes' /\ PtlFlight'
<1> USE DEF PtlInv
<1>1. PtlAdds(o) /\ UNCHANGED <<build, fenced>>
  BY DEF PtlIssues
<1>2. PtlFlight'
  BY <1>1, PtlAddsFlight
<1>3. flight' \subseteq PtlOps /\ IsFiniteSet(flight') /\ issued' \in Nat
  BY <1>1, PtlAddsTypes
<1>4. P!Counters' = P!Counters /\ P!Frags' = P!Frags
  BY DEF P!Counters, P!Frags, PtlIssues
<1>5. P!CounterOf(o) \in P!Counters
  BY <1>1 DEF PtlAdds, PtlOps, Ctxs, P!CounterOf, P!Counters, P!Default, P!User, P!Event
<1>6. pending' \in [P!Counters -> Nat]
  BY <1>5 DEF PtlTypes, PtlIssues
<1>7. long_pending' \in BOOLEAN
  BY PtlBuild DEF PtlTypes, PtlIssues
<1>8. PtlTypes'
  BY <1>3, <1>4, <1>6, <1>7 DEF PtlTypes, PtlIssues, PtlPoints
<1> QED
  BY <1>2, <1>8

(* It is counted. *)
LEMMA PtlIssuesCounts ==
  ASSUME PtlInv, NEW o, PtlIssues(o), Early
  PROVE  PtlCounts'
<1> USE DEF PtlInv
<1>1. PtlAdds(o) /\ o \in PtlOps
  BY DEF PtlIssues, PtlAdds
<1>2. ASSUME NEW k \in P!Counters'
      PROVE  pending'[k] = ct'[k] + Cardinality(CountedBy(k)') /\ pending'[k] <= issued'
  <2>1. k \in P!Counters /\ pending[k] \in Nat /\ ct[k] \in Nat /\ issued \in Nat
    BY DEF PtlTypes, P!Counters
  <2>2. pending[k] = ct[k] + Cardinality(CountedBy(k)) /\ pending[k] <= issued
    BY <2>1 DEF PtlCounts
  <2>3. Cardinality(CountedBy(k))' = Cardinality(CountedBy(k)) + (IF P!CounterOf(o) = k THEN 1 ELSE 0)
    BY <1>1, PtlAddsCounted
  <2>4. Cardinality(CountedBy(k)) \in Nat
    BY PtlFinite
  <2>5. pending'[k] = pending[k] + (IF P!CounterOf(o) = k THEN 1 ELSE 0)
    BY <2>1 DEF PtlIssues, PtlTypes
  <2>6. ct' = ct /\ issued' = issued + 1
    BY DEF PtlIssues, PtlAdds
  <2> QED
    BY <2>1, <2>2, <2>3, <2>4, <2>5, <2>6
<1> QED
  BY <1>2 DEF PtlCounts, PtlIssues

(* Nothing overtakes it. *)
LEMMA PtlIssuesFence ==
  ASSUME PtlInv, NEW o, PtlIssues(o), Ordered
  PROVE  PtlFence'
<1> USE DEF PtlInv
<1>1. PtlAdds(o) /\ o \in PtlOps /\ flight' = flight \cup {o} /\ o.num > fenced[o.ctx]
  BY DEF PtlIssues, PtlAdds, PtlOps, PtlFlight, PtlTypes
<1>2. \A x \in flight' : x.md # "get" /\ x.num <= fenced'[x.ctx] => build'.ordering /\ x.md = "volatile"
  <2> SUFFICES ASSUME NEW x \in flight', x.md # "get", x.num <= fenced'[x.ctx]
               PROVE  build'.ordering /\ x.md = "volatile"
    OBVIOUS
  <2>1. CASE x = o
    BY <1>1, <2>1 DEF PtlIssues, PtlFlight, PtlTypes, PtlOps
  <2>2. CASE x \in flight
    BY <2>2 DEF PtlFence, PtlIssues
  <2> QED
    BY <1>1, <2>1, <2>2
<1>3. build'.ordering /\ ~ long_pending' => \A x \in flight' : x.md \in {"volatile", "get"}
  <2> SUFFICES ASSUME build.ordering, ~ long_pending'
               PROVE  \A x \in flight' : x.md \in {"volatile", "get"}
    BY DEF PtlIssues
  <2>1. long_pending' = long_pending /\ o.md \in {"volatile", "get"}
    BY DEF PtlIssues
  <2>2. ~ long_pending
    BY <2>1
  <2>3. \A x \in flight : x.md \in {"volatile", "get"}
    BY <2>2 DEF PtlFence
  <2> QED
    BY <1>1, <2>1, <2>3
<1>4. P!FenceOrders'
  <2> SUFFICES ASSUME NEW x \in flight', NEW y \in flight', x.ctx = y.ctx,
                      "get" \notin {x.md, y.md}, y.num <= x.after, x.delivered
               PROVE  y.delivered
    BY DEF P!FenceOrders
  <2>1. x \in flight
    BY <1>1 DEF PtlAdds
  <2>2. y \in flight
    <3>1. x.after <= fenced[x.ctx] /\ x.after \in Nat /\ fenced[x.ctx] \in Nat /\ x.ctx \in Ctxs
      BY <2>1 DEF PtlFlight, OpSound, PtlTypes, PtlOps
    <3>2. y.num \in Nat /\ (y = o => y.num > fenced[x.ctx])
      BY <1>1 DEF PtlTypes, PtlOps
    <3> QED
      BY <1>1, <3>1, <3>2
  <2> QED
    BY <2>1, <2>2 DEF PtlFence, P!FenceOrders
<1>5. build'.contexts = "none" => /\ ctxs' \subseteq {"default"} /\ req'.ctx = "default"
                                  /\ \A x \in flight' : x.ctx = "default"
  BY <1>1 DEF PtlFence, PtlIssues
<1> QED
  BY <1>2, <1>3, <1>4, <1>5 DEF PtlFence, PtlIssues

(* A call that posts it keeps the invariant. *)
LEMMA PtlPostsInv ==
  ASSUME PtlInv, NEW o, PtlPosts(o)
  PROVE  PtlInv'
<1>0. /\ PtlTypes /\ PtlControl /\ PtlFlight /\ PtlSlots /\ PtlFrags /\ PtlIssues(o)
      /\ (Early' <=> Early) /\ (Ordered' <=> Ordered)
  BY DEF PtlInv, Early, Ordered, PtlPosts, PtlIssues
<1>1. Unsent' = Unsent /\ issued' \in Nat /\ issued' >= issued
  BY <1>0, PtlAddsUnsent, PtlAddsTypes DEF PtlPosts, PtlIssues, PtlAdds, PtlTypes
<1>2. PtlCalm
  BY <1>1 DEF PtlCalm, PtlPosts, PtlIssues, Sending
<1>3. PtlSlots' /\ PtlFrags'
  BY <1>0, <1>2, PtlCalmKeeps
<1>4. PtlTable'
  BY PtlTableKept DEF PtlInv, PtlPosts, PtlIssues
<1>5. PtlTypes' /\ PtlFlight'
  BY <1>0, PtlIssuesTypes DEF PtlPosts, PtlTypes
<1>6. PtlControl'
  BY DEF PtlControl, PtlPosts, Sending, Quiets
<1>7. Early => PtlSource'
  <2> SUFFICES ASSUME Early PROVE PtlSource'
    OBVIOUS
  <2>1. \A x \in flight : ~ (x.blocking /\ ~ x.sent)
    BY DEF PtlInv, PtlSource, PtlPosts, Quiets
  <2> QED
    BY <2>1 DEF PtlSource, PtlPosts, PtlIssues, PtlAdds
<1> QED
  BY <1>0, <1>3, <1>4, <1>5, <1>6, <1>7, PtlIssuesCounts, PtlIssuesFence DEF PtlInv

(* The requests that calls set up. *)
LEMMA PtlNoReq ==
  /\ P!NoReq \in PtlReqs /\ P!NoReq.kind = "none" /\ P!NoReq.ctx = "default"
  /\ P!NoReq.frag = 0 /\ P!NoReq.left = 0 /\ P!NoReq.then = "user"
  BY DEF P!NoReq, PtlReqs, Ctxs, P!Default

CtxReq(c) == [P!NoReq EXCEPT !.ctx = c]
ThenReq(c, th) == [P!NoReq EXCEPT !.ctx = c, !.then = th]
SlotReq(k, c, n) == [P!NoReq EXCEPT !.kind = k, !.ctx = c, !.left = n]
Thens == {"user", "signal", "fence_quiet", "destroy", "fini"}

(* Of a wait. *)
LEMMA PtlCtxReq ==
  ASSUME NEW c \in Ctxs, NEW r, r = CtxReq(c)
  PROVE  r \in PtlReqs /\ r.kind = "none" /\ r.ctx = c /\ r.then = "user"
  BY DEF CtxReq, P!NoReq, PtlReqs, P!Default

(* Of a call that goes on elsewhere. *)
LEMMA PtlThenReq ==
  ASSUME NEW c \in Ctxs, NEW th \in Thens, NEW r, r = ThenReq(c, th)
  PROVE  r \in PtlReqs /\ r.kind = "none" /\ r.ctx = c /\ r.then = th
<1>1. PICK s : s = CtxReq(c)
  OBVIOUS
<1>2. s \in PtlReqs /\ s.kind = "none" /\ s.ctx = c
  BY <1>1, PtlCtxReq
<1>3. r = [s EXCEPT !.then = th]
  BY <1>1 DEF CtxReq, ThenReq
<1> QED
  BY <1>2, <1>3 DEF PtlReqs, Thens

(* Of an operation that needs an event slot. *)
LEMMA PtlSlotReq ==
  ASSUME NEW c \in Ctxs, NEW k \in {"bounce", "long", "atomicv"}, NEW n \in Nat,
         NEW r, r = SlotReq(k, c, n)
  PROVE  /\ r \in PtlReqs /\ r.kind = k /\ r.ctx = c /\ r.left = n /\ r.frag = 0
         /\ r.then = "user"
<1>1. PICK s : s = [P!NoReq EXCEPT !.kind = k]
  OBVIOUS
<1>2. s \in PtlReqs /\ s.kind = k /\ s.frag = 0 /\ s.then = "user"
  BY <1>1 DEF P!NoReq, PtlReqs, P!Default, Ctxs
<1>3. PICK t : t = [s EXCEPT !.ctx = c]
  OBVIOUS
<1>4. t \in PtlReqs /\ t.kind = k /\ t.frag = 0 /\ t.ctx = c /\ t.then = "user"
  BY <1>2, <1>3 DEF PtlReqs
<1>5. r = [t EXCEPT !.left = n] /\ n \in Int
  BY <1>1, <1>3 DEF SlotReq
<1>6. r \in PtlReqs
  BY <1>4, <1>5 DEF PtlReqs
<1>7. r.kind = k /\ r.ctx = c /\ r.left = n /\ r.frag = 0 /\ r.then = "user"
  BY <1>4, <1>5 DEF PtlReqs
<1> QED
  BY <1>6, <1>7

(* The operations on the descriptors without events. *)
LEMMA PtlIssued ==
  ASSUME PtlInv, NEW c \in Ctxs, NEW md \in {"volatile", "put", "get"}, NEW b \in BOOLEAN,
         b => md = "put" /\ c = "user", NEW d, d = IF md = "get" THEN "get" ELSE "put",
         P!Issue(c, md, 0, b), P!Pend(<<c, d>>)
  PROVE  \E o : /\ PtlAdds(o) /\ o.md = md /\ o.ctx = c /\ o.blocking = b
                /\ pending' = [pending EXCEPT ![P!CounterOf(o)] = @ + 1]
<1>1. PICK o : PtlAdds(o) /\ o.ctx = c /\ o.md = md /\ o.frag = 0 /\ o.blocking = b
  BY PtlIssueAdds DEF PtlInv
<1>2. P!CounterOf(o) = <<c, d>>
  BY <1>1 DEF P!CounterOf
<1> QED
  BY <1>1, <1>2 DEF P!Pend

(* put_scalar, and the calls that are like it. *)
LEMMA put_scalar_Inv ==
  ASSUME PtlInv, NEW c \in ctxs, P!shmem_transport_put_scalar(c)
  PROVE  PtlInv'
<1>1. c \in Ctxs
  BY DEF PtlInv, PtlTypes
<1>2. PICK o : /\ PtlAdds(o) /\ o.md = "volatile" /\ o.ctx = c /\ o.blocking = FALSE
               /\ pending' = [pending EXCEPT ![P!CounterOf(o)] = @ + 1]
  BY <1>1, PtlIssued DEF P!shmem_transport_put_scalar, P!put_volatile
<1>3. PtlPosts(o)
  <2>1. req \in PtlReqs /\ pc = "user" /\ pc' = "user" /\ req' = req
    BY DEF PtlInv, PtlTypes, P!shmem_transport_put_scalar, P!MayIssue
  <2> QED
    BY <1>2, <2>1 DEF PtlPosts, PtlIssues, P!shmem_transport_put_scalar, P!history, P!ptVars
<1> QED
  BY <1>3, PtlPostsInv

(* put_nbi with a long source, as itself, as put_nb of a context without   *)
(* bounce buffers and in put_signal.                                       *)
LEMMA put_nbi_long_Inv ==
  ASSUME PtlInv, NEW c \in ctxs, NEW b \in BOOLEAN, NEW th \in {"user", "signal"},
         NEW l \in {"user", "put_wait", "fence"}, P!put_nbi_long(c, b, th, l), pc = "user",
         l = "put_wait" => th = "user", b => c = "user" /\ l = "put_wait"
  PROVE  PtlInv'
<1>1. c \in Ctxs
  BY DEF PtlInv, PtlTypes
<1>2. PICK o : /\ PtlAdds(o) /\ o.md = "put" /\ o.ctx = c /\ o.blocking = b
               /\ pending' = [pending EXCEPT ![P!CounterOf(o)] = @ + 1]
  <2>1. P!Issue(c, "put", 0, b) /\ P!Pend(<<c, "put">>)
    BY DEF P!put_nbi_long
  <2> QED
    BY <1>1, <2>1, PtlIssued
<1>3. req' \in PtlReqs /\ req'.ctx = c /\ req'.then = th
  <2>1. req' = ThenReq(c, th)
    BY DEF P!put_nbi_long, ThenReq
  <2>2. th \in Thens
    BY DEF Thens
  <2> QED
    BY <1>1, <2>1, <2>2, PtlThenReq
<1>4. PtlPosts(o)
  BY <1>2, <1>3 DEF PtlPosts, PtlIssues, P!put_nbi_long, P!history, P!ptVars
<1> QED
  BY <1>4, PtlPostsInv

(* Gets and fetching atomics. *)
LEMMA get_Inv ==
  ASSUME PtlInv, NEW c \in ctxs, P!shmem_transport_get(c)
  PROVE  PtlInv'
<1>1. c \in Ctxs
  BY DEF PtlInv, PtlTypes
<1>2. PICK o : /\ PtlAdds(o) /\ o.md = "get" /\ o.ctx = c /\ o.blocking = FALSE
               /\ pending' = [pending EXCEPT ![P!CounterOf(o)] = @ + 1]
  <2>1. P!Issue(c, "get", 0, FALSE) /\ P!Pend(<<c, "get">>)
    BY DEF P!shmem_transport_get
  <2> QED
    BY <1>1, <2>1, PtlIssued
<1>3. PtlPosts(o)
  <2>1. req \in PtlReqs /\ pc = "user" /\ pc' = "user" /\ req' = req
    BY DEF PtlInv, PtlTypes, P!shmem_transport_get, P!MayIssue
  <2> QED
    BY <1>2, <2>1 DEF PtlPosts, PtlIssues, P!shmem_transport_get, P!history, P!ptVars
<1> QED
  BY <1>3, PtlPostsInv

(* The first part of put_signal_nbi. *)
LEMMA put_signal_nbi_Inv ==
  ASSUME PtlInv, NEW c \in ctxs, P!shmem_transport_put_signal_nbi(c)
  PROVE  PtlInv'
<1>0. pc = "user" /\ c \in Ctxs
  BY DEF P!shmem_transport_put_signal_nbi, P!MayIssue, PtlInv, PtlTypes
<1>1. CASE P!put_nbi_long(c, FALSE, "signal", "fence")
  BY <1>0, <1>1, put_nbi_long_Inv
<1>2. CASE /\ P!put_volatile(c)
           /\ pc' = "fence" /\ req' = [P!NoReq EXCEPT !.ctx = c, !.then = "signal"]
           /\ UNCHANGED <<build, ctxs, event_slots, eq, frags, completion, ct, long_pending,
                          P!history, P!ptVars>>
  <2>1. P!Issue(c, "volatile", 0, FALSE) /\ P!Pend(<<c, "put">>)
    BY <1>2 DEF P!put_volatile
  <2>2. PICK o : /\ PtlAdds(o) /\ o.md = "volatile" /\ o.ctx = c /\ o.blocking = FALSE
                 /\ pending' = [pending EXCEPT ![P!CounterOf(o)] = @ + 1]
    BY <1>0, <2>1, PtlIssued
  <2>3. req' \in PtlReqs /\ req'.ctx = c /\ req'.then = "signal"
    <3>1. req' = ThenReq(c, "signal")
      BY <1>2 DEF ThenReq
    <3>2. "signal" \in Thens
      BY DEF Thens
    <3> QED
      BY <1>0, <3>1, <3>2, PtlThenReq
  <2>4. PtlPosts(o)
    BY <1>0, <1>2, <2>2, <2>3 DEF PtlPosts, PtlIssues, P!history, P!ptVars
  <2> QED
    BY <2>4, PtlPostsInv
<1> QED
  BY <1>1, <1>2 DEF P!shmem_transport_put_signal_nbi

(* And its last. *)
LEMMA Signal_Inv ==
  ASSUME PtlInv, P!Signal
  PROVE  PtlInv'
<1>0. pc = "signal" /\ req.ctx \in Ctxs
  BY DEF P!Signal, PtlInv, PtlTypes, PtlReqs
<1>1. P!Issue(req.ctx, "volatile", 0, FALSE) /\ P!Pend(<<req.ctx, "put">>)
  BY DEF P!Signal, P!put_volatile
<1>2. PICK o : /\ PtlAdds(o) /\ o.md = "volatile" /\ o.ctx = req.ctx /\ o.blocking = FALSE
               /\ pending' = [pending EXCEPT ![P!CounterOf(o)] = @ + 1]
  BY <1>0, <1>1, PtlIssued
<1>3. PtlPosts(o)
  BY <1>0, <1>2, PtlNoReq DEF PtlPosts, PtlIssues, P!Signal, P!history, P!ptVars
<1> QED
  BY <1>3, PtlPostsInv
-----------------------------------------------------------------------------
(* Steps that neither issue nor complete anything.                         *)

PtlMoves ==
  /\ UNCHANGED <<build, event_slots, eq, frags, completion, pending, ct, flight, issued,
                 pt_state, cts>>
  /\ ctxs' \subseteq ctxs /\ long_pending' \in BOOLEAN
  /\ pc' \in PtlPoints /\ req' \in PtlReqs
  /\ req'.ctx \in ctxs \cup {"default", req.ctx}
  /\ \/ UNCHANGED <<pc, req>>
     \/ ~ Sending /\ ~ Sending'
     \/ ~ Sending /\ pc' = "slot" /\ req'.frag = 0 /\ req'.kind # "atomicv"

(* What they keep. *)
LEMMA PtlMovesKeeps ==
  ASSUME PtlInv, PtlMoves, fenced' \in [Ctxs -> Nat], fenced' = fenced \/ PtlFlight'
  PROVE  PtlTypes' /\ PtlFlight' /\ PtlSlots' /\ PtlFrags' /\ PtlTable'
<1> USE DEF PtlInv
<1>1. P!Frags' = P!Frags /\ P!Counters' = P!Counters
  BY DEF PtlMoves, P!Frags, P!Counters
<1>2. PtlTypes'
  BY <1>1 DEF PtlTypes, PtlMoves
<1>3. PtlFlight'
  <2>1. CASE fenced' = fenced
    BY <1>1, <2>1 DEF PtlFlight, OpSound, PtlMoves
  <2> QED
    BY <2>1
<1>4. PtlCalm
  BY DEF PtlCalm, PtlMoves, Unsent, PtlTypes
<1>5. PtlSlots' /\ PtlFrags'
  BY <1>4, PtlCalmKeeps
<1>6. PtlTable'
  BY PtlTableKept DEF PtlMoves
<1> QED
  BY <1>2, <1>3, <1>5, <1>6

(* What has been counted stays so, ... *)
LEMMA PtlMovesCounts ==
  ASSUME PtlCounts, PtlMoves, covered' = {},
         pc' \in {"quiet_event", "quiet_put"} => CountedBy(<<req'.ctx, "get">>) = {},
         pc' = "quiet_put" => CountedBy(<<"event", "put">>) = {},
         pc' \in {"destroy", "fence_quiet"} => \A o \in flight : o.ctx # req'.ctx
  PROVE  PtlCounts'
<1>1. \A k : CountedBy(k)' = CountedBy(k)
  BY DEF CountedBy, PtlMoves, P!CounterOf
<1>2. ASSUME NEW k \in P!Counters'
      PROVE  pending'[k] = ct'[k] + Cardinality(CountedBy(k)') /\ pending'[k] <= issued'
  <2>1. k \in P!Counters
    BY DEF P!Counters
  <2> QED
    BY <1>1, <2>1 DEF PtlCounts, PtlMoves
<1>3. flight' = flight
  BY DEF PtlMoves
<1>4. pc' \in {"quiet_event", "quiet_put"} => CountedBy(<<req.ctx, "get">>)' = {}
  BY <1>1, <1>3 DEF CountedBy, P!CounterOf
<1>5. pc' = "quiet_put" => CountedBy(<<"event", "put">>)' = {}
  BY <1>1
<1> QED
  BY <1>2, <1>3, <1>4, <1>5 DEF PtlCounts

(* ... outside of the waits all sources may be written to, ... *)
LEMMA PtlMovesSource ==
  ASSUME PtlSource, PtlMoves, pc \notin {"slot", "issue", "put_wait", "torn"} \cup Quiets
  PROVE  PtlSource'
  BY DEF PtlSource, PtlMoves

(* ... and what fences have ordered stays in order. *)
LEMMA PtlMovesFence ==
  ASSUME PtlFence, PtlMoves, UNCHANGED <<fenced, long_pending>>,
         pc' # "fenced" \/ UNCHANGED <<pc, req>>
  PROVE  PtlFence'
<1>1. P!FenceOrders'
  BY DEF PtlFence, P!FenceOrders, PtlMoves
<1>2. build'.contexts = "none" => /\ ctxs' \subseteq {"default"} /\ req'.ctx = "default"
                                  /\ \A o \in flight' : o.ctx = "default"
  BY DEF PtlFence, PtlMoves
<1>3. build'.ordering /\ ~ long_pending' => \A o \in flight' : o.md \in {"volatile", "get"}
  BY DEF PtlFence, PtlMoves
<1>4. \A o \in flight' : o.md # "get" /\ o.num <= fenced'[o.ctx] => build'.ordering /\ o.md = "volatile"
  BY DEF PtlFence, PtlMoves
<1>5. pc' = "fenced" => \A o \in flight' :
       o.ctx = req'.ctx /\ o.md # "get" => build'.ordering /\ o.md = "volatile"
  BY DEF PtlFence, PtlMoves
<1> QED
  BY <1>1, <1>2, <1>3, <1>4, <1>5 DEF PtlFence

(* Nothing else is in the invariant. *)
LEMMA PtlMovesInv ==
  ASSUME PtlInv, PtlMoves, fenced' \in [Ctxs -> Nat], fenced' = fenced \/ PtlFlight', PtlControl',
         Early => PtlCounts' /\ PtlSource', Ordered => PtlFence'
  PROVE  PtlInv'
<1>1. (Early' <=> Early) /\ (Ordered' <=> Ordered)
  BY DEF Early, Ordered, PtlMoves
<1> QED
  BY <1>1, PtlMovesKeeps DEF PtlInv

(* A step between the waits: it ends in none of the points that say how    *)
(* far a quiet or a fence has got.                                         *)
LEMMA PtlStepsInv ==
  ASSUME PtlInv, PtlMoves, UNCHANGED <<fenced, covered, long_pending>>, PtlControl',
         pc \notin {"slot", "issue", "put_wait", "torn"} \cup Quiets,
         pc' \notin {"quiet_event", "quiet_put", "destroy", "fence_quiet", "fenced"}
  PROVE  PtlInv'
<1>1. fenced' \in [Ctxs -> Nat]
  BY DEF PtlInv, PtlTypes
<1>2. Early => PtlCounts' /\ PtlSource'
  BY PtlMovesCounts, PtlMovesSource DEF PtlInv, PtlCounts
<1>3. Ordered => PtlFence'
  BY PtlMovesFence DEF PtlInv
<1> QED
  BY <1>1, <1>2, <1>3, PtlMovesInv

(* A counter that has been reached: all it counts is complete. *)
LEMMA PtlReached ==
  ASSUME PtlTypes, PtlCounts, NEW k \in P!Counters, P!CounterReached(k)
  PROVE  CountedBy(k) = {}
<1>1. pending[k] = ct[k] + Cardinality(CountedBy(k)) /\ ct[k] >= pending[k]
  BY DEF PtlCounts, P!CounterReached
<1>2. pending[k] \in Nat /\ ct[k] \in Nat
  BY DEF PtlTypes
<1>3. IsFiniteSet(CountedBy(k)) /\ Cardinality(CountedBy(k)) \in Nat
  BY PtlFinite
<1> QED
  BY <1>1, <1>2, <1>3, FS_EmptySet

(* An operation that needs an event slot is set up. *)
LEMMA SlotWaits_Inv ==
  ASSUME PtlInv, NEW c \in ctxs, NEW k \in {"bounce", "long"}, pc = "user", issued < build.ops,
         req' = SlotReq(k, "default", 1), pc' = "slot",
         UNCHANGED <<build, ctxs, event_slots, eq, frags, completion, pending, ct,
                     long_pending, flight, issued, fenced, covered, pt_state, cts>>
  PROVE  PtlInv'
<1>1. /\ req' \in PtlReqs /\ req'.kind = k /\ req'.ctx = "default" /\ req'.left = 1
      /\ req'.frag = 0 /\ req'.then = "user"
  <2>1. 1 \in Nat /\ "default" \in Ctxs /\ k \in {"bounce", "long", "atomicv"}
    BY DEF Ctxs
  <2> QED
    BY <2>1, PtlSlotReq
<1>2. PtlMoves
  BY <1>1 DEF PtlMoves, Sending, PtlPoints, PtlInv, PtlTypes
<1>3. PtlControl'
  BY <1>1 DEF PtlControl, Sending, Quiets
<1> QED
  BY <1>2, <1>3, PtlStepsInv DEF Quiets

(* The branches of put_nb. *)
LEMMA put_nb_Inv ==
  ASSUME PtlInv, NEW c \in ctxs, P!shmem_transport_put_nb(c)
  PROVE  PtlInv'
<1>0. pc = "user" /\ issued < build.ops /\ c \in Ctxs
  BY DEF P!shmem_transport_put_nb, P!MayIssue, PtlInv, PtlTypes
<1>1. CASE P!shmem_transport_put_scalar(c)
  BY <1>1, put_scalar_Inv
<1>2. ASSUME NEW k \in {"bounce", "long"}, P!Bounces(c),
             req' = [P!NoReq EXCEPT !.kind = k, !.ctx = c, !.left = 1], pc' = "slot",
             UNCHANGED <<build, ctxs, event_slots, eq, frags, completion, pending, ct,
                         long_pending, flight, issued, P!history, P!ptVars>>
      PROVE  PtlInv'
  <2>1. req' = SlotReq(k, "default", 1)
    BY <1>2 DEF SlotReq, P!Bounces, P!Default
  <2>2. UNCHANGED <<fenced, covered, pt_state, cts>>
    BY <1>2 DEF P!history, P!ptVars
  <2> QED
    BY <1>0, <1>2, <2>1, <2>2, SlotWaits_Inv
<1>3. ASSUME ~ P!Bounces(c), P!put_nbi_long(c, TRUE, "user", "put_wait")
      PROVE  PtlInv'
  <2>1. c = "user"
    BY <1>0, <1>3 DEF P!Bounces, P!Default, Ctxs
  <2> QED
    BY <1>0, <1>3, <2>1, put_nbi_long_Inv
<1>4. \/ P!shmem_transport_put_scalar(c)
      \/ /\ P!Bounces(c)
         /\ \E k \in {"bounce", "long"} :
               req' = [P!NoReq EXCEPT !.kind = k, !.ctx = c, !.left = 1]
         /\ pc' = "slot"
         /\ UNCHANGED <<build, ctxs, event_slots, eq, frags, completion, pending, ct,
                        long_pending, flight, issued, P!history, P!ptVars>>
      \/ ~ P!Bounces(c) /\ P!put_nbi_long(c, TRUE, "user", "put_wait")
  BY DEF P!shmem_transport_put_nb, P!shmem_transport_put_scalar
<1> QED
  BY <1>1, <1>2, <1>3, <1>4

(* Another put_nb before the put_wait. *)
LEMMA PutAgain_Inv ==
  ASSUME PtlInv, P!PutAgain
  PROVE  PtlInv'
<1>0. pc = "put_wait" /\ issued < build.ops /\ req.ctx = "default" /\ pc' = "slot"
  BY DEF P!PutAgain, P!Bounces, P!Default
<1>1. /\ req' \in PtlReqs /\ req'.kind = "long" /\ req'.ctx = "default" /\ req'.left = 1
      /\ req'.frag = 0 /\ req'.then = "user"
  <2>1. 1 \in Nat /\ "default" \in Ctxs /\ "long" \in {"bounce", "long", "atomicv"}
    BY DEF Ctxs
  <2>2. req' = SlotReq("long", "default", 1)
    BY <1>0 DEF P!PutAgain, SlotReq
  <2> QED
    BY <2>1, <2>2, PtlSlotReq
<1>2. UNCHANGED <<fenced, covered, long_pending>>
  BY DEF P!PutAgain, P!history
<1>3. PtlMoves
  BY <1>0, <1>1, <1>2 DEF PtlMoves, Sending, PtlPoints, PtlInv, PtlTypes, P!PutAgain, P!ptVars
<1>4. PtlControl'
  BY <1>0, <1>1, <1>3 DEF PtlControl, Sending, Quiets, PtlMoves
<1>5. Early => PtlCounts'
  BY <1>0, <1>2, <1>3, PtlMovesCounts DEF PtlInv, PtlCounts
<1>6. Early => PtlSource'
  BY <1>0, <1>1, <1>3 DEF PtlInv, PtlSource, PtlMoves
<1>7. Ordered => PtlFence'
  BY <1>0, <1>2, <1>3, PtlMovesFence DEF PtlInv
<1> QED
  BY <1>2, <1>3, <1>4, <1>5, <1>6, <1>7, PtlMovesInv DEF PtlInv, PtlTypes

(* put_wait returns: no source of an event descriptor is to be read.       *)
LEMMA PutWaitReturns_Inv ==
  ASSUME PtlInv, P!PutWaitOver, pc' = "user", req' = P!NoReq,
         UNCHANGED <<build, ctxs, event_slots, eq, frags, completion, pending, ct, long_pending,
                     flight, issued, P!history, P!ptVars>>
  PROVE  PtlInv'
<1>0. pc = "put_wait" /\ req.ctx = "default" /\ completion <= 0
  BY DEF P!PutWaitOver, P!Bounces, P!Default
<1>1. UNCHANGED <<fenced, covered, long_pending, pt_state, cts>>
  BY DEF P!history, P!ptVars
<1>2. PtlMoves
  BY <1>0, <1>1, PtlNoReq DEF PtlMoves, Sending, PtlPoints, PtlInv, PtlTypes
<1>3. PtlControl'
  BY PtlNoReq DEF PtlControl, Sending, Quiets
<1>4. Waited = {}
  <2>1. completion = Cardinality(LongEvents) + Cardinality(Waited)
    BY DEF PtlInv, PtlFrags
  <2>2. IsFiniteSet(Waited) /\ Cardinality(Waited) \in Nat /\ Cardinality(LongEvents) \in Nat
    BY PtlFinite DEF PtlInv
  <2> QED
    BY <1>0, <2>1, <2>2, FS_EmptySet
<1>5. Early => PtlSource'
  <2> SUFFICES ASSUME Early, NEW o \in flight, o.blocking, ~ o.sent PROVE FALSE
    BY <1>2 DEF PtlSource, PtlMoves
  <2>1. o.md = "event"
    BY <1>0 DEF PtlInv, PtlSource
  <2> QED
    BY <1>4, <2>1 DEF Waited, Unsent
<1>6. Early => PtlCounts'
  BY <1>1, <1>2, PtlMovesCounts DEF PtlInv, PtlCounts
<1>7. Ordered => PtlFence'
  BY <1>1, <1>2, PtlMovesFence DEF PtlInv
<1> QED
  BY <1>1, <1>2, <1>3, <1>5, <1>6, <1>7, PtlMovesInv DEF PtlInv, PtlTypes

(* put_wait of a context without bounce buffers is a quiet. *)
LEMMA PutWaitQuiets_Inv ==
  ASSUME PtlInv, pc = "put_wait", ~ P!Bounces(req.ctx), pc' = "quiet_get",
         UNCHANGED <<build, ctxs, event_slots, eq, frags, completion, pending, ct, long_pending,
                     flight, issued, P!history, P!ptVars, req>>
  PROVE  PtlInv'
<1>0. req.ctx = "user" /\ req.then = "user"
  BY DEF P!Bounces, P!Default, PtlInv, PtlTypes, PtlReqs, Ctxs, PtlControl
<1>1. UNCHANGED <<fenced, covered, long_pending, pt_state, cts>>
  BY DEF P!history, P!ptVars
<1>2. PtlMoves
  BY <1>0, <1>1 DEF PtlMoves, Sending, PtlPoints, Quiets, PtlInv, PtlTypes
<1>3. PtlControl'
  BY <1>0 DEF PtlControl, Sending, Quiets
<1>4. Early => PtlSource'
  BY <1>0, <1>2 DEF PtlInv, PtlSource, PtlMoves, Quiets
<1>5. Early => PtlCounts'
  BY <1>1, <1>2, PtlMovesCounts DEF PtlInv, PtlCounts
<1>6. Ordered => PtlFence'
  BY <1>1, <1>2, PtlMovesFence DEF PtlInv
<1> QED
  BY <1>1, <1>2, <1>3, <1>4, <1>5, <1>6, PtlMovesInv DEF PtlInv, PtlTypes

(* A quiet begins: the user's, or the one of a destroy or of the shutdown. *)
LEMMA StartQuiet_Inv ==
  ASSUME PtlInv, NEW c \in ctxs \cup {"default"}, NEW th \in {"user", "destroy", "fini"}, pc = "user",
         P!StartQuiet(c, th), th = "destroy" => c = "user"
  PROVE  PtlInv'
<1>1. req' \in PtlReqs /\ req'.ctx = c /\ req'.then = th /\ req'.kind = "none"
  <2>1. c \in Ctxs /\ th \in Thens /\ req' = ThenReq(c, th)
    BY DEF PtlInv, PtlTypes, Ctxs, Thens, P!StartQuiet, ThenReq
  <2> QED
    BY <2>1, PtlThenReq
<1>2. pc' = "quiet_get" /\ UNCHANGED <<fenced, covered, long_pending>>
  BY DEF P!StartQuiet, P!history
<1>3. PtlMoves
  BY <1>1, <1>2 DEF PtlMoves, Sending, PtlPoints, Quiets, PtlInv, PtlTypes, P!StartQuiet, P!ptVars
<1>4. PtlControl'
  BY <1>1, <1>2 DEF PtlControl, Sending, Quiets
<1> QED
  BY <1>2, <1>3, <1>4, PtlStepsInv DEF Quiets

(* A get_wait or a fence begins. *)
LEMMA StartWait_Inv ==
  ASSUME PtlInv, NEW c \in ctxs, pc = "user", pc' \in {"get_wait", "fence"},
         req' = [P!NoReq EXCEPT !.ctx = c],
         UNCHANGED <<build, ctxs, event_slots, eq, frags, completion, pending, ct,
                     long_pending, flight, issued, P!history, P!ptVars>>
  PROVE  PtlInv'
<1>1. req' \in PtlReqs /\ req'.ctx = c /\ req'.then = "user" /\ req'.kind = "none"
  <2>1. c \in Ctxs /\ req' = CtxReq(c)
    BY DEF PtlInv, PtlTypes, CtxReq
  <2> QED
    BY <2>1, PtlCtxReq
<1>2. UNCHANGED <<fenced, covered, long_pending, pt_state, cts>>
  BY DEF P!history, P!ptVars
<1>3. PtlMoves
  BY <1>1, <1>2 DEF PtlMoves, Sending, PtlPoints, Quiets, PtlInv, PtlTypes
<1>4. PtlControl'
  BY <1>1, <1>2 DEF PtlControl, Sending, Quiets
<1> QED
  BY <1>2, <1>3, <1>4, PtlStepsInv DEF Quiets

(* get_wait returns. *)
LEMMA GetWaited_Inv ==
  ASSUME PtlInv, P!GetWaited
  PROVE  PtlInv'
<1>1. pc = "get_wait" /\ pc' = "user" /\ UNCHANGED <<req, fenced, covered, long_pending>>
  BY DEF P!GetWaited, P!shmem_transport_get_wait, P!history
<1>2. PtlMoves
  BY <1>1 DEF PtlMoves, Sending, PtlPoints, PtlInv, PtlTypes, P!GetWaited,
     P!shmem_transport_get_wait, P!ptVars
<1>3. PtlControl'
  BY <1>1 DEF PtlControl, Sending, Quiets
<1> QED
  BY <1>1, <1>2, <1>3, PtlStepsInv DEF Quiets

(* The last step of the shutdown. *)
LEMMA fini_Inv ==
  ASSUME PtlInv, P!shmem_transport_fini
  PROVE  PtlInv'
<1>1. pc = "fini" /\ pc' = "down" /\ UNCHANGED <<req, fenced, covered, long_pending>>
  BY DEF P!shmem_transport_fini, P!history
<1>2. PtlMoves
  BY <1>1 DEF PtlMoves, Sending, PtlPoints, PtlInv, PtlTypes, P!shmem_transport_fini, P!ptVars
<1>3. PtlControl'
  BY <1>1 DEF PtlControl, Sending, Quiets
<1> QED
  BY <1>1, <1>2, <1>3, PtlStepsInv DEF Quiets

(* A quiet has waited for the gets or for the puts with events. *)
LEMMA QuietStep_Inv ==
  ASSUME PtlInv, P!QuietGet \/ P!QuietEvent
  PROVE  PtlInv'
<1>1. /\ pc \in Quiets /\ pc' \in {"quiet_event", "quiet_put"}
      /\ UNCHANGED <<req, fenced, covered, long_pending>>
  BY DEF P!QuietGet, P!QuietEvent, P!shmem_transport_get_wait, P!history, Quiets
<1>2. PtlMoves
  BY <1>1 DEF PtlMoves, Sending, PtlPoints, Quiets, PtlInv, PtlTypes, P!QuietGet, P!QuietEvent,
     P!shmem_transport_get_wait, P!ptVars
<1>3. PtlControl'
  BY <1>1 DEF PtlInv, PtlControl, Sending, Quiets
<1>4. Early => PtlSource'
  BY <1>1, <1>2 DEF PtlInv, PtlSource, PtlMoves, Quiets
<1>5. Early => PtlCounts'
  <2> SUFFICES ASSUME Early PROVE PtlCounts'
    OBVIOUS
  <2>0. req.ctx \in Ctxs
    BY DEF PtlInv, PtlTypes, PtlReqs
  <2>1. PtlTypes /\ PtlCounts /\ <<req.ctx, "get">> \in P!Counters /\ <<"event", "put">> \in P!Counters
    BY <2>0 DEF PtlInv, PtlTypes, PtlReqs, Ctxs, P!Counters, P!Default, P!User, P!Event
  <2>2. CASE P!QuietGet
    <3>1. CountedBy(<<req.ctx, "get">>) = {}
      BY <2>1, <2>2, PtlReached DEF P!QuietGet, P!shmem_transport_get_wait
    <3>2. pc' = "quiet_event" /\ covered' = {} /\ req' = req
      BY <1>1, <2>1, <2>2 DEF P!QuietGet, P!shmem_transport_get_wait, PtlCounts
    <3> QED
      BY <1>2, <2>1, <3>1, <3>2, PtlMovesCounts
  <2>3. CASE P!QuietEvent
    <3>1. CountedBy(<<"event", "put">>) = {}
      BY <2>1, <2>3, PtlReached DEF P!QuietEvent, P!Event
    <3>2. CountedBy(<<req.ctx, "get">>) = {}
      BY <2>1, <2>3 DEF PtlCounts, P!QuietEvent
    <3>3. pc' = "quiet_put" /\ covered' = {} /\ req' = req
      BY <1>1, <2>1, <2>3 DEF P!QuietEvent, PtlCounts
    <3> QED
      BY <1>2, <2>1, <3>1, <3>2, <3>3, PtlMovesCounts
  <2> QED
    BY <2>2, <2>3
<1>6. Ordered => PtlFence'
  BY <1>1, <1>2, PtlMovesFence DEF PtlInv
<1> QED
  BY <1>1, <1>2, <1>3, <1>4, <1>5, <1>6, PtlMovesInv DEF PtlInv, PtlTypes

(* A quiet returns: nothing of its context is left. *)
LEMMA QuietPut_Inv ==
  ASSUME PtlInv, P!QuietPut
  PROVE  PtlInv'
<1>0. req \in PtlReqs /\ req.ctx \in Ctxs /\ pc = "quiet_put"
  BY DEF PtlInv, PtlTypes, PtlReqs, P!QuietPut
<1>1. req.then \in {"user", "fence_quiet", "destroy", "fini"} /\ pc' = req.then
  BY <1>0 DEF PtlInv, PtlControl, Quiets, P!QuietPut
<1>2. /\ req' \in PtlReqs /\ req'.ctx \in {"default", req.ctx}
      /\ pc' # "user" => req' = req
  BY <1>0, <1>1, PtlNoReq DEF P!QuietPut
<1>3. UNCHANGED <<fenced, long_pending>>
  BY DEF P!QuietPut
<1>4. PtlMoves
  BY <1>0, <1>1, <1>2, <1>3 DEF PtlMoves, Sending, PtlPoints, Quiets, PtlInv, PtlTypes, P!QuietPut, P!ptVars
<1>5. PtlControl'
  BY <1>0, <1>1, <1>2 DEF PtlInv, PtlControl, Sending, Quiets
<1>6. ASSUME Early PROVE \A o \in flight : o.ctx # req.ctx
  <2>1. PtlTypes /\ PtlCounts /\ <<req.ctx, "put">> \in P!Counters
    BY <1>0, <1>6 DEF PtlInv, Ctxs, P!Counters, P!Default, P!User
  <2>2. CountedBy(<<req.ctx, "put">>) = {}
    BY <2>1, PtlReached DEF P!QuietPut
  <2>3. CountedBy(<<req.ctx, "get">>) = {} /\ CountedBy(<<"event", "put">>) = {}
    BY <1>0, <2>1 DEF PtlCounts
  <2> QED
    BY <2>2, <2>3 DEF CountedBy, P!CounterOf, P!Event
<1>7. Early => PtlCounts'
  <2> SUFFICES ASSUME Early PROVE PtlCounts'
    OBVIOUS
  <2>1. covered' = {}
    BY <1>6 DEF P!QuietPut, P!LeftBehind
  <2> QED
    BY <1>1, <1>2, <1>4, <1>6, <2>1, PtlMovesCounts DEF PtlInv
<1>8. Early => PtlSource'
  <2> SUFFICES ASSUME Early, NEW o \in flight, o.blocking, ~ o.sent PROVE FALSE
    BY <1>4 DEF PtlSource, PtlMoves
  <2>1. o.md = "put" /\ req.ctx = "user"
    BY <1>0 DEF PtlInv, PtlSource
  <2>2. o.ctx = "user"
    BY <2>1 DEF PtlInv, PtlFlight, OpSound
  <2> QED
    BY <1>6, <2>1, <2>2
<1>9. Ordered => PtlFence'
  BY <1>1, <1>3, <1>4, PtlMovesFence DEF PtlInv
<1> QED
  BY <1>3, <1>4, <1>5, <1>7, <1>8, <1>9, PtlMovesInv DEF PtlInv, PtlTypes

FenceReq(s, k, th) == [s EXCEPT !.kind = k, !.then = th]
(* The requests a fence makes on its way. *)
LEMMA PtlFenceReq ==
  ASSUME NEW k \in {"none", "user", "signal"}, NEW th \in Thens, NEW s \in PtlReqs,
         NEW r, r = FenceReq(s, k, th)
  PROVE  r \in PtlReqs /\ r.kind = k /\ r.then = th /\ r.ctx = s.ctx
<1>1. PICK t : t = [s EXCEPT !.kind = k]
  OBVIOUS
<1>2. t \in PtlReqs /\ t.kind = k /\ t.ctx = s.ctx
  BY <1>1 DEF PtlReqs
<1>3. r = [t EXCEPT !.then = th]
  BY <1>1 DEF FenceReq
<1> QED
  BY <1>2, <1>3 DEF PtlReqs, Thens

(* A fence is a quiet, or nothing when the network orders all that is out. *)
LEMMA fence_Inv ==
  ASSUME PtlInv, P!shmem_transport_fence
  PROVE  PtlInv'
<1>0. pc = "fence" /\ req \in PtlReqs /\ req.then \in {"user", "signal"}
  BY DEF P!shmem_transport_fence, PtlInv, PtlTypes, PtlControl
<1>1. UNCHANGED <<fenced, covered, long_pending>>
  BY DEF P!shmem_transport_fence, P!history
<1>2. CASE P!FenceSkips
  <2>1. pc' = "fenced" /\ req' = req
    BY <1>2 DEF P!shmem_transport_fence
  <2>2. PtlMoves
    BY <1>0, <1>1, <2>1 DEF PtlMoves, Sending, PtlPoints, PtlInv, PtlTypes, P!shmem_transport_fence, P!ptVars
  <2>3. PtlControl'
    BY <1>0, <2>1 DEF PtlControl, Sending, Quiets
  <2>4. Early => PtlCounts' /\ PtlSource'
    BY <1>0, <1>1, <2>1, <2>2, PtlMovesCounts, PtlMovesSource DEF PtlInv, PtlCounts, Quiets
  <2>5. ASSUME Ordered PROVE PtlFence'
    <3>1. build.ordering /\ ~ long_pending
      BY <1>2 DEF P!FenceSkips
    <3>2. \A o \in flight : o.md \in {"volatile", "get"}
      BY <2>5, <3>1 DEF PtlInv, PtlFence
    <3>3. P!FenceOrders'
      BY <2>5, <2>2 DEF PtlInv, PtlFence, P!FenceOrders, PtlMoves
    <3>4. flight' = flight /\ build' = build /\ ctxs' \subseteq ctxs
      BY <2>2 DEF PtlMoves
    <3>5. \A o \in flight : o.md # "get" => build.ordering /\ o.md = "volatile"
      BY <3>1, <3>2
    <3> QED
      BY <1>1, <2>1, <2>5, <3>2, <3>3, <3>4, <3>5 DEF PtlInv, PtlFence
  <2> QED
    BY <1>1, <2>2, <2>3, <2>4, <2>5, PtlMovesInv DEF PtlInv, PtlTypes
<1>3. CASE ~ P!FenceSkips
  <2>0. /\ pc' = "quiet_get" /\ req' = [req EXCEPT !.kind = req.then, !.then = "fence_quiet"]
    BY <1>3 DEF P!shmem_transport_fence
  <2>1. req' \in PtlReqs /\ req'.kind = req.then /\ req'.then = "fence_quiet" /\ req'.ctx = req.ctx
    <3>1. req.then \in {"none", "user", "signal"} /\ "fence_quiet" \in Thens
      BY <1>0 DEF Thens
    <3>2. req' = FenceReq(req, req.then, "fence_quiet")
      BY <2>0 DEF FenceReq
    <3> QED
      BY <1>0, <3>1, <3>2, PtlFenceReq
  <2>2. PtlMoves
    BY <1>0, <1>1, <2>0, <2>1 DEF PtlMoves, Sending, PtlPoints, Quiets, PtlInv, PtlTypes,
       P!shmem_transport_fence, P!ptVars
  <2>3. PtlControl'
    BY <1>0, <2>0, <2>1 DEF PtlControl, Sending, Quiets
  <2> QED
    BY <1>0, <1>1, <2>0, <2>2, <2>3, PtlStepsInv DEF Quiets
<1> QED
  BY <1>2, <1>3

(* The quiet of a fence is over, and nothing long is out. *)
LEMMA FenceQuieted_Inv ==
  ASSUME PtlInv, P!FenceQuieted
  PROVE  PtlInv'
<1>0. /\ pc = "fence_quiet" /\ pc' = "fenced" /\ req \in PtlReqs /\ req.kind \in {"user", "signal"}
      /\ req' = [req EXCEPT !.kind = "none", !.then = req.kind] /\ long_pending' = FALSE
  BY DEF P!FenceQuieted, PtlInv, PtlTypes, PtlControl
<1>1. UNCHANGED <<fenced, covered>>
  BY DEF P!FenceQuieted, P!history
<1>2. req' \in PtlReqs /\ req'.then = req.kind /\ req'.ctx = req.ctx
  <2>1. "none" \in {"none", "user", "signal"} /\ req.kind \in Thens
    BY <1>0 DEF Thens
  <2>2. req' = FenceReq(req, "none", req.kind)
    BY <1>0 DEF FenceReq
  <2> QED
    BY <1>0, <2>1, <2>2, PtlFenceReq
<1>3. PtlMoves
  BY <1>0, <1>1, <1>2 DEF PtlMoves, Sending, PtlPoints, PtlInv, PtlTypes, P!FenceQuieted, P!ptVars
<1>4. PtlControl'
  BY <1>0, <1>2 DEF PtlControl, Sending, Quiets
<1>5. Early => PtlCounts' /\ PtlSource'
  BY <1>0, <1>1, <1>3, PtlMovesCounts, PtlMovesSource DEF PtlInv, PtlCounts, Quiets
<1>6. ASSUME Ordered PROVE PtlFence'
  <2>0. Early /\ PtlFence /\ PtlCounts /\ (build.ordering => build.contexts = "none")
    BY <1>6 DEF Ordered, PtlInv
  <2>1. \A o \in flight : o.ctx # req.ctx
    BY <1>0, <2>0 DEF PtlCounts
  <2>2. build.ordering => flight = {}
    BY <2>0, <2>1 DEF PtlFence
  <2>3. P!FenceOrders'
    BY <2>0, <1>3 DEF PtlFence, P!FenceOrders, PtlMoves
  <2>4. flight' = flight /\ build' = build /\ ctxs' \subseteq ctxs
    BY <1>3 DEF PtlMoves
  <2> QED
    BY <1>0, <1>1, <1>2, <2>0, <2>1, <2>2, <2>3, <2>4 DEF PtlFence
<1> QED
  BY <1>1, <1>3, <1>4, <1>5, <1>6, PtlMovesInv DEF PtlInv, PtlTypes

(* A fence returns: what comes after it comes after all that was issued.   *)
LEMMA FenceReturns_Inv ==
  ASSUME PtlInv, P!FenceReturns
  PROVE  PtlInv'
<1>0. /\ pc = "fenced" /\ req \in PtlReqs /\ req' = req /\ req.ctx \in Ctxs
      /\ req.then \in {"user", "signal"} /\ pc' = req.then
      /\ fenced' = [fenced EXCEPT ![req.ctx] = issued]
      /\ fenced \in [Ctxs -> Nat] /\ issued \in Nat
  BY DEF P!FenceReturns, PtlInv, PtlTypes, PtlControl, PtlReqs
<1>1. UNCHANGED <<covered, long_pending>>
  BY DEF P!FenceReturns
<1>2. PtlMoves
  BY <1>0, <1>1 DEF PtlMoves, Sending, PtlPoints, PtlInv, PtlTypes, P!FenceReturns, P!ptVars
<1>3. PtlControl'
  BY <1>0 DEF PtlControl, Sending, Quiets
<1>4. Early => PtlCounts' /\ PtlSource'
  BY <1>0, <1>1, <1>2, PtlMovesCounts, PtlMovesSource DEF PtlInv, PtlCounts, Quiets
<1>5. \A c \in Ctxs : fenced'[c] = IF c = req.ctx THEN issued ELSE fenced[c]
  BY <1>0
<1>6. flight' = flight /\ build' = build /\ ctxs' \subseteq ctxs /\ issued' = issued
  BY <1>2 DEF PtlMoves
<1>7. PtlFlight'
  <2>1. P!Frags' = P!Frags
    BY <1>6 DEF P!Frags
  <2>2. ASSUME NEW o \in flight PROVE OpSound(o)'
    <3>1. OpSound(o) /\ o \in PtlOps /\ o.ctx \in Ctxs /\ o.num \in Nat /\ o.after \in Nat
      BY DEF PtlInv, PtlFlight, PtlTypes, PtlOps
    <3>2. o.after <= fenced'[o.ctx]
      BY <1>0, <1>5, <3>1 DEF OpSound
    <3> QED
      BY <1>6, <2>1, <3>1, <3>2 DEF OpSound
  <2>3. \A c \in Ctxs : fenced'[c] <= issued'
    BY <1>0, <1>5, <1>6 DEF PtlInv, PtlFlight
  <2> QED
    BY <1>6, <2>2, <2>3 DEF PtlInv, PtlFlight
<1>8. ASSUME Ordered PROVE PtlFence'
  <2>0. PtlFence
    BY <1>8 DEF PtlInv
  <2>1. \A o \in flight' : o.md # "get" /\ o.num <= fenced'[o.ctx] => build'.ordering /\ o.md = "volatile"
    <3> SUFFICES ASSUME NEW o \in flight, o.md # "get", o.num <= fenced'[o.ctx]
                 PROVE  build.ordering /\ o.md = "volatile"
      BY <1>6
    <3>1. o.ctx \in Ctxs
      BY DEF PtlInv, PtlTypes, PtlOps
    <3> QED
      BY <1>0, <1>5, <2>0, <3>1 DEF PtlFence
  <2>2. P!FenceOrders'
    BY <1>6, <2>0 DEF PtlFence, P!FenceOrders
  <2>3. build'.ordering /\ ~ long_pending' => \A o \in flight' : o.md \in {"volatile", "get"}
    BY <1>1, <1>6, <2>0 DEF PtlFence
  <2> QED
    BY <1>0, <1>6, <2>0, <2>1, <2>2, <2>3 DEF PtlFence
<1> QED
  BY <1>0, <1>2, <1>3, <1>4, <1>7, <1>8, PtlMovesInv
-----------------------------------------------------------------------------
(* Steps with events and fragments.                                        *)

(* A free fragment is under no operation and in no event. *)
LEMMA PtlFreeIsUnused ==
  ASSUME PtlTypes, PtlFrags, NEW f \in P!Frags, frags[f].reference = 0
  PROVE  EventsOf(f) = {} /\ UnsentOf(f) = {}
<1>1. Cardinality(EventsOf(f)) + Cardinality(UnsentOf(f)) = 0
  BY DEF PtlFrags, FragSound
<1>2. /\ IsFiniteSet(EventsOf(f)) /\ Cardinality(EventsOf(f)) \in Nat
      /\ IsFiniteSet(UnsentOf(f)) /\ Cardinality(UnsentOf(f)) \in Nat
  BY PtlFinite
<1>3. Cardinality(EventsOf(f)) = 0 /\ Cardinality(UnsentOf(f)) = 0
  BY <1>1, <1>2
<1> QED
  BY <1>2, <1>3, FS_EmptySet

(* An event slot is taken. *)
LEMMA TakeSlot_Inv ==
  ASSUME PtlInv, P!TakeSlot
  PROVE  PtlInv'
<1> USE DEF PtlInv
<1>0. /\ pc = "slot" /\ pc' = "issue" /\ event_slots - 1 > 0 /\ event_slots' = event_slots - 1
      /\ UNCHANGED <<build, ctxs, eq, frags, completion, pending, ct, long_pending, flight,
                     issued, fenced, covered, pt_state, cts, req>>
  BY DEF P!TakeSlot, P!history, P!ptVars
<1>1. P!Frags' = P!Frags /\ P!Counters' = P!Counters /\ Sending /\ Sending'
  BY <1>0 DEF P!Frags, P!Counters, Sending
<1>2. PtlTypes'
  BY <1>0, <1>1 DEF PtlTypes, PtlPoints
<1>3. PtlControl'
  BY <1>0, <1>1 DEF PtlControl, Quiets
<1>4. PtlFlight'
  BY <1>0, <1>1 DEF PtlFlight, OpSound
<1>5. Unsent' = Unsent
  BY <1>0 DEF Unsent
<1>6. PtlSlots'
  <2>1. Cardinality(Unsent) \in Nat /\ Len(eq) \in Nat /\ build.slots \in Nat /\ event_slots \in Int
    BY PtlFinite, PtlBuild DEF PtlTypes
  <2> QED
    BY <1>0, <1>5, <2>1 DEF PtlSlots
<1>7. PtlFrags'
  <2>1. \A f : UnsentOf(f)' = UnsentOf(f) /\ EventsOf(f)' = EventsOf(f) /\ (Holds(f)' <=> Holds(f))
    BY <1>0, <1>1, <1>5 DEF UnsentOf, EventsOf, Holds
  <2>2. ASSUME NEW f \in P!Frags PROVE FragSound(f)'
    <3>1. FragSound(f)
      BY DEF PtlFrags
    <3> QED
      BY <1>0, <2>1, <3>1 DEF FragSound
  <2>3. Waited' = Waited /\ LongEvents' = LongEvents /\ InUse' = InUse
    BY <1>0, <1>1, <1>5 DEF Waited, LongEvents, InUse
  <2> QED
    BY <1>0, <1>1, <1>5, <2>2, <2>3 DEF PtlFrags
<1>8. Early => PtlCounts'
  <2>1. \A k : CountedBy(k)' = CountedBy(k)
    BY <1>0 DEF CountedBy, P!CounterOf
  <2> QED
    BY <1>0, <1>1, <2>1 DEF PtlCounts
<1>9. Early => PtlSource'
  BY <1>0 DEF PtlSource, Quiets
<1>10. Ordered => PtlFence'
  <2>1. Ordered => P!FenceOrders'
    BY <1>0 DEF PtlFence, P!FenceOrders
  <2> QED
    BY <1>0, <2>1 DEF PtlFence
<1>11. PtlTable'
  BY <1>0, PtlTableKept
<1>12. (Early' <=> Early) /\ (Ordered' <=> Ordered)
  BY <1>0 DEF Early, Ordered
<1> QED
  BY <1>2, <1>3, <1>4, <1>6, <1>7, <1>8, <1>9, <1>10, <1>11, <1>12

FragTypes == {"bounce", "long"}
(* Allocating a fragment. *)
LEMMA PtlAlloc ==
  ASSUME PtlTypes, NEW f \in P!Frags, NEW type \in FragTypes, NEW h, h = P!Alloc(f, type)
  PROVE  /\ h \in [P!Frags -> PtlFrag]
         /\ h[f].type = type /\ ~ h[f].free /\ h[f].reference = frags[f].reference
         /\ \A g \in P!Frags : g # f => h[g] = frags[g]
<1>0. frags \in [P!Frags -> PtlFrag]
  BY DEF PtlTypes
<1>1. PICK q : q = [frags[f] EXCEPT !.type = type]
  OBVIOUS
<1>2. q \in PtlFrag /\ q.type = type /\ q.reference = frags[f].reference
  BY <1>0, <1>1 DEF PtlFrag, FragTypes
<1>3. PICK r : r = [q EXCEPT !.free = FALSE]
  OBVIOUS
<1>4. r \in PtlFrag
  BY <1>2, <1>3 DEF PtlFrag
<1>5. r.type = type /\ r.reference = frags[f].reference /\ ~ r.free
  BY <1>2, <1>3 DEF PtlFrag
<1>6. h = [frags EXCEPT ![f] = r]
  BY <1>0, <1>1, <1>3 DEF P!Alloc
<1> QED
  BY <1>0, <1>4, <1>5, <1>6

(* An atomicv takes its fragment. *)
LEMMA AtomicvTakes_Inv ==
  ASSUME PtlInv, pc = "user", issued < build.ops, pc' = "slot",
         req' = [SlotReq("atomicv", "default", build.fragments) EXCEPT !.frag = P!FreeFrag],
         frags' = P!Alloc(P!FreeFrag, "long"),
         UNCHANGED <<build, ctxs, event_slots, eq, completion, pending, ct, long_pending, flight,
                     issued, fenced, covered, pt_state, cts>>
  PROVE  PtlInv'
<1> USE DEF PtlInv
<1>0. ~ Sending /\ Sending' /\ issued \in Nat /\ build.fragments \in Nat /\ build.fragments >= 1
      /\ build.ops \in Nat
  BY PtlBuild DEF Sending, PtlTypes
<1>1. P!Frags' = P!Frags /\ P!Counters' = P!Counters /\ P!Frags \subseteq Nat \ {0}
  BY DEF P!Frags, P!Counters
<1>2. PICK f \in P!Frags : f = P!FreeFrag /\ frags[f].free
  BY <1>0, PtlFreeFrag
<1>3. frags[f].reference = 0
  BY <1>2 DEF PtlFrags, FragSound
<1>4. EventsOf(f) = {} /\ UnsentOf(f) = {}
  BY <1>2, <1>3, PtlFreeIsUnused
<1>5. PICK h : h = P!Alloc(f, "long")
  OBVIOUS
<1>6. /\ h \in [P!Frags -> PtlFrag]
      /\ h[f].type = "long" /\ ~ h[f].free /\ h[f].reference = 0
      /\ \A g \in P!Frags : g # f => h[g] = frags[g]
  <2>1. "long" \in FragTypes
    BY DEF FragTypes
  <2> QED
    <3>1. PtlTypes
      OBVIOUS
    <3>2. /\ h \in [P!Frags -> PtlFrag]
          /\ h[f].type = "long" /\ ~ h[f].free /\ h[f].reference = frags[f].reference
          /\ \A g \in P!Frags : g # f => h[g] = frags[g]
      BY ONLY <1>5, <2>1, <3>1, f \in P!Frags, PtlAlloc
    <3> QED
      BY ONLY <1>3, <3>2
<1>7. frags' = h
  BY <1>2, <1>5
<1>8. /\ req' \in PtlReqs /\ req'.kind = "atomicv" /\ req'.ctx = "default"
      /\ req'.left = build.fragments /\ req'.frag = f /\ req'.then = "user"
  <2>1. PICK r : r = SlotReq("atomicv", "default", build.fragments)
    OBVIOUS
  <2>2. "default" \in Ctxs /\ "atomicv" \in {"bounce", "long", "atomicv"}
    BY DEF Ctxs
  <2>3. r \in PtlReqs /\ r.kind = "atomicv" /\ r.ctx = "default" /\ r.left = build.fragments /\ r.then = "user"
    BY <1>0, <2>1, <2>2, PtlSlotReq
  <2>4. req' = [r EXCEPT !.frag = f] /\ f \in Nat
    BY <1>1, <1>2, <2>1
  <2>5. req' \in PtlReqs
    BY <2>3, <2>4 DEF PtlReqs
  <2> QED
    BY <2>3, <2>4, <2>5 DEF PtlReqs
<1>9. PtlTypes'
  BY <1>1, <1>6, <1>7, <1>8 DEF PtlTypes, PtlPoints
<1>10. PtlControl'
  BY <1>0, <1>1, <1>8 DEF PtlControl, Quiets
<1>11. PtlFlight'
  BY <1>1 DEF PtlFlight, OpSound
<1>12. Unsent' = Unsent
  BY DEF Unsent
<1>13. PtlSlots'
  BY <1>12 DEF PtlSlots
<1>14. PtlFrags'
  <2>1. \A g : UnsentOf(g)' = UnsentOf(g) /\ EventsOf(g)' = EventsOf(g)
    BY <1>12 DEF UnsentOf, EventsOf
  <2>2. ASSUME NEW g \in P!Frags PROVE FragSound(g)'
    <3>1. FragSound(g)
      BY DEF PtlFrags
    <3>2. ~ Holds(g) /\ (Holds(g)' <=> g = f)
      BY <1>0, <1>8 DEF Holds
    <3>3. CASE g = f
      BY <1>2, <1>3, <1>6, <1>7, <2>1, <3>1, <3>2, <3>3 DEF FragSound
    <3>4. CASE g # f
      BY <1>6, <1>7, <2>1, <3>1, <3>2, <3>4 DEF FragSound
    <3> QED
      BY <3>3, <3>4
  <2>3. Waited' = Waited
    BY <1>12 DEF Waited
  <2>4. ASSUME NEW n \in 1 .. Len(eq) PROVE frags'[eq[n]].type = frags[eq[n]].type
    <3>1. eq[n] \in P!Frags /\ eq[n] # f
      BY <1>4 DEF PtlTypes, EventsOf
    <3> QED
      BY <1>6, <1>7, <3>1
  <2>5. LongEvents' = LongEvents
    BY <2>4 DEF LongEvents
  <2>6. InUse' = InUse \cup {f} /\ f \notin InUse
    BY <1>1, <1>2, <1>6, <1>7 DEF InUse
  <2>7. Cardinality(InUse') = Cardinality(InUse) + 1 /\ Cardinality(InUse) \in Nat
    BY <2>6, PtlFinite, GrownSet
  <2>8. Cardinality(InUse') <= issued' + (IF Sending' /\ req'.frag # 0 THEN 1 ELSE 0)
    <3>1. Cardinality(InUse) <= issued
      BY <1>0 DEF PtlFrags
    <3>2. Sending' /\ req'.frag # 0
      BY <1>0, <1>1, <1>2, <1>8
    <3> QED
      BY <1>0, <2>7, <3>1, <3>2
  <2>9. ASSUME NEW o \in Unsent PROVE frags'[o.frag].type = IF o.blocking THEN "long" ELSE "bounce"
    <3>1. o.frag \in P!Frags
      BY DEF PtlFlight, OpSound, Unsent
    <3>2. o.frag # f
      BY <1>4 DEF UnsentOf
    <3> QED
      BY <1>6, <1>7, <3>1, <3>2 DEF PtlFrags
  <2>10. completion' = Cardinality(LongEvents') + Cardinality(Waited')
    BY <2>3, <2>5 DEF PtlFrags
  <2> QED
    BY <1>1, <1>6, <1>7, <1>8, <1>12, <2>2, <2>8, <2>9, <2>10 DEF PtlFrags
<1>15. Early => PtlCounts'
  <2>1. \A k : CountedBy(k)' = CountedBy(k)
    BY DEF CountedBy, P!CounterOf
  <2> QED
    BY <1>1, <2>1 DEF PtlCounts
<1>16. Early => PtlSource'
  BY <1>8 DEF PtlSource, Quiets
<1>17. Ordered => PtlFence'
  <2>1. Ordered => P!FenceOrders'
    BY DEF PtlFence, P!FenceOrders
  <2> QED
    BY <1>8, <2>1 DEF PtlFence
<1>18. PtlTable'
  BY PtlTableKept
<1>19. (Early' <=> Early) /\ (Ordered' <=> Ordered)
  BY DEF Early, Ordered
<1> QED
  BY <1>9, <1>10, <1>11, <1>13, <1>14, <1>15, <1>16, <1>17, <1>18, <1>19

(* Both branches of atomicv. *)
LEMMA atomicv_Inv ==
  ASSUME PtlInv, NEW c \in ctxs, P!shmem_transport_atomicv(c)
  PROVE  PtlInv'
<1>0. /\ pc = "user" /\ issued < build.ops /\ c = "default" /\ pc' = "slot"
      /\ UNCHANGED <<build, ctxs, event_slots, eq, completion, pending, ct, long_pending, flight,
                     issued, fenced, covered, pt_state, cts>>
  BY DEF P!shmem_transport_atomicv, P!MayIssue, P!Default, P!history, P!ptVars
<1>1. CASE req' = SlotReq("bounce", "default", 1) /\ UNCHANGED frags
  <2>1. "bounce" \in {"bounce", "long"}
    OBVIOUS
  <2> QED
    BY <1>0, <1>1, <2>1, SlotWaits_Inv
<1>2. CASE /\ req' = [SlotReq("atomicv", "default", build.fragments) EXCEPT !.frag = P!FreeFrag]
           /\ frags' = P!Alloc(P!FreeFrag, "long")
  BY <1>0, <1>2, AtomicvTakes_Inv
<1> QED
  BY <1>0, <1>1, <1>2 DEF P!shmem_transport_atomicv, SlotReq

(* The fragment of an operation with an event, and what becomes of it. *)
EventFrag(f) ==
  /\ f \in P!Frags /\ frags' \in [P!Frags -> PtlFrag]
  /\ frags'[f].type = IF req.kind = "bounce" THEN "bounce" ELSE "long"
  /\ ~ frags'[f].free /\ frags'[f].reference = frags[f].reference + 1
  /\ \A g \in P!Frags : g # f => frags'[g] = frags[g]
  /\ req.kind = "atomicv" => f = req.frag /\ frags[f].type = "long" /\ ~ frags[f].free
  /\ req.kind # "atomicv" => req.frag = 0 /\ frags[f].free /\ frags[f].reference = 0
  /\ P!Issue(req.ctx, "event", f, req.kind # "bounce")

(* Counting a reference. *)
LEMMA PtlReferenced ==
  ASSUME NEW h \in [P!Frags -> PtlFrag], NEW f \in P!Frags, NEW k,
         k = [h EXCEPT ![f].reference = @ + 1]
  PROVE  /\ k \in [P!Frags -> PtlFrag]
         /\ k[f].type = h[f].type /\ (k[f].free <=> h[f].free) /\ k[f].reference = h[f].reference + 1
         /\ \A g \in P!Frags : g # f => k[g] = h[g]
<1>1. PICK q : q = [h[f] EXCEPT !.reference = h[f].reference + 1]
  OBVIOUS
<1>2. h[f] \in PtlFrag /\ h[f].reference + 1 \in Nat
  BY DEF PtlFrag
<1>3. q \in PtlFrag
  BY <1>1, <1>2 DEF PtlFrag
<1>4. q.type = h[f].type /\ q.free = h[f].free /\ q.reference = h[f].reference + 1
  BY <1>1, <1>2 DEF PtlFrag
<1>5. k = [h EXCEPT ![f] = q]
  BY <1>1
<1> QED
  BY <1>3, <1>4, <1>5

(* IssueEvent takes such a fragment. *)
LEMMA IssueEvent_frag ==
  ASSUME PtlInv, P!IssueEvent
  PROVE  \E f : EventFrag(f)
<1> USE DEF PtlInv
<1>0. /\ pc = "issue" /\ Sending /\ req.kind \in {"bounce", "long", "atomicv"}
      /\ frags \in [P!Frags -> PtlFrag]
  BY DEF P!IssueEvent, PtlControl, Sending, PtlTypes
<1>1. PICK f : f = IF req.kind = "atomicv" THEN req.frag ELSE P!FreeFrag
  OBVIOUS
<1>2. PICK h : h = CASE req.kind = "atomicv" -> frags
                     [] req.kind = "bounce"  -> P!Alloc(f, "bounce")
                     [] req.kind = "long"    -> P!Alloc(f, "long")
  OBVIOUS
<1>3. /\ P!Issue(req.ctx, "event", f, req.kind # "bounce")
      /\ frags' = [h EXCEPT ![f].reference = @ + 1]
  BY <1>1, <1>2 DEF P!IssueEvent
<1>4. CASE req.kind = "atomicv"
  <2>1. f = req.frag /\ f \in P!Frags /\ h = frags
    BY <1>0, <1>1, <1>2, <1>4 DEF PtlControl
  <2>2. frags[f].type = "long" /\ ~ frags[f].free
    BY <1>0, <1>4, <2>1 DEF PtlFrags, FragSound, Holds
  <2>3. frags' = [frags EXCEPT ![f].reference = @ + 1]
    BY <1>3, <2>1
  <2>4. /\ frags' \in [P!Frags -> PtlFrag]
        /\ frags'[f].type = frags[f].type /\ (frags'[f].free <=> frags[f].free)
        /\ frags'[f].reference = frags[f].reference + 1
        /\ \A g \in P!Frags : g # f => frags'[g] = frags[g]
    BY <1>0, <2>1, <2>3, PtlReferenced
  <2>5. EventFrag(f)
    BY <1>3, <1>4, <2>1, <2>2, <2>4 DEF EventFrag
  <2> QED
    BY <2>5
<1>5. CASE req.kind # "atomicv"
  <2>0. PICK T : T = IF req.kind = "bounce" THEN "bounce" ELSE "long"
    OBVIOUS
  <2>1. req.frag = 0 /\ issued < build.ops
    BY <1>0, <1>5 DEF PtlControl
  <2>2. f \in P!Frags /\ frags[f].free
    BY <1>1, <1>5, <2>1, PtlFreeFrag
  <2>3. frags[f].reference = 0
    BY <2>2 DEF PtlFrags, FragSound
  <2>4. T \in FragTypes
    BY <2>0 DEF FragTypes
  <2>5. h = P!Alloc(f, T)
    BY <1>0, <1>2, <1>5, <2>0
  <2>6. PtlTypes
    OBVIOUS
  <2>7. /\ h \in [P!Frags -> PtlFrag]
        /\ h[f].type = T /\ ~ h[f].free /\ h[f].reference = frags[f].reference
        /\ \A g \in P!Frags : g # f => h[g] = frags[g]
    BY ONLY <2>2, <2>4, <2>5, <2>6, PtlAlloc
  <2>8. /\ frags' \in [P!Frags -> PtlFrag]
        /\ frags'[f].type = h[f].type /\ (frags'[f].free <=> h[f].free)
        /\ frags'[f].reference = h[f].reference + 1
        /\ \A g \in P!Frags : g # f => frags'[g] = h[g]
    <3>1. h \in [P!Frags -> PtlFrag] /\ f \in P!Frags
      BY <2>2, <2>7
    <3>2. frags' = [h EXCEPT ![f].reference = @ + 1]
      BY <1>3
    <3> QED
      BY ONLY <3>1, <3>2, PtlReferenced
  <2>9. EventFrag(f)
    BY <1>3, <1>5, <2>0, <2>1, <2>2, <2>3, <2>7, <2>8 DEF EventFrag
  <2> QED
    BY <2>9
<1> QED
  BY <1>4, <1>5

(* One part less is left to issue. *)
LEMMA IssueEvent_req ==
  ASSUME PtlInv, P!IssueEvent
  PROVE  /\ req' \in PtlReqs /\ req'.left = req.left - 1 /\ req'.kind = req.kind
         /\ req'.frag = req.frag /\ req'.ctx = req.ctx /\ req'.then = req.then
<1>1. req \in PtlReqs /\ req.left - 1 \in Int
  BY DEF PtlInv, PtlTypes, PtlReqs
<1>2. req' = [req EXCEPT !.left = req.left - 1]
  BY DEF P!IssueEvent
<1>3. req' \in PtlReqs
  BY <1>1, <1>2 DEF PtlReqs
<1>4. /\ req'.left = req.left - 1 /\ req'.kind = req.kind
      /\ req'.frag = req.frag /\ req'.ctx = req.ctx /\ req'.then = req.then
  BY <1>1, <1>2 DEF PtlReqs
<1> QED
  BY <1>3, <1>4

(* Slots and fragments when an operation with an event is issued. *)
LEMMA IssueEvent_events ==
  ASSUME PtlInv, P!IssueEvent, NEW f, EventFrag(f), NEW o, PtlAdds(o),
         o.md = "event", o.frag = f, o.blocking <=> req.kind # "bounce"
  PROVE  PtlSlots' /\ PtlFrags'
<1> USE DEF PtlInv
<1>0. /\ pc = "issue" /\ pc' = (IF req.left > 1 THEN "slot" ELSE "put_wait")
      /\ req.kind \in {"bounce", "long", "atomicv"} /\ Sending
      /\ req.left \in Int /\ req.left >= 1 /\ issued \in Nat /\ build.fragments \in Nat
      /\ UNCHANGED <<build, event_slots, eq>> /\ issued' = issued + 1
      /\ req.kind # "atomicv" => req.left = 1
      /\ req.kind = "atomicv" => req.left <= build.fragments
  BY PtlBuild DEF P!IssueEvent, PtlControl, Sending, PtlTypes, PtlReqs, PtlAdds
<1>1. P!Frags' = P!Frags /\ P!Frags \subseteq Nat \ {0} /\ f \in P!Frags
  BY <1>0 DEF P!Frags, EventFrag
<1>2. req' \in PtlReqs /\ req'.left = req.left - 1 /\ req'.kind = req.kind /\ req'.frag = req.frag
  BY IssueEvent_req
<1>3. Unsent' = Unsent \cup {o} /\ o \notin Unsent
  BY PtlAddsUnsent
<1>4. Cardinality(Unsent') = Cardinality(Unsent) + 1 /\ Cardinality(Unsent) \in Nat
  BY <1>3, PtlFinite, GrownSet
<1>5. PtlSlots'
  <2>1. Len(eq) \in Nat /\ build.slots \in Nat /\ event_slots \in Int
    BY PtlBuild DEF PtlTypes
  <2> QED
    BY <1>0, <1>4, <2>1 DEF PtlSlots
<1>6. req.kind # "atomicv" => EventsOf(f) = {} /\ UnsentOf(f) = {}
  BY <1>1, PtlFreeIsUnused DEF EventFrag
<1>7. ASSUME NEW g \in P!Frags PROVE EventsOf(g)' = EventsOf(g)
  BY <1>0 DEF EventsOf
<1>8. UnsentOf(f)' = UnsentOf(f) \cup {o} /\ o \notin UnsentOf(f)
  BY <1>3 DEF UnsentOf
<1>9. ASSUME NEW g \in P!Frags, g # f PROVE UnsentOf(g)' = UnsentOf(g)
  BY <1>3, <1>9 DEF UnsentOf
<1>10. Sending' => req.kind = "atomicv"
  BY <1>0 DEF Sending
<1>11. FragSound(f)'
  <2>1. FragSound(f) /\ frags[f].reference \in Nat
    BY <1>1 DEF PtlFrags, PtlTypes, PtlFrag
  <2>2. Cardinality(UnsentOf(f)') = Cardinality(UnsentOf(f)) + 1
    BY <1>8, PtlFinite, GrownSet
  <2>3. Cardinality(UnsentOf(f)) \in Nat /\ Cardinality(EventsOf(f)) \in Nat
    BY PtlFinite
  <2>4. frags'[f].reference = Cardinality(EventsOf(f)') + Cardinality(UnsentOf(f)')
    BY <1>1, <1>7, <2>1, <2>2, <2>3 DEF FragSound, EventFrag
  <2>5. frags'[f].type = "bounce" => frags'[f].reference <= 1
    BY <1>0 DEF EventFrag
  <2>6. ~ frags'[f].free /\ frags'[f].reference # 0
    BY <2>1 DEF EventFrag
  <2> QED
    BY <2>4, <2>5, <2>6 DEF FragSound
<1>12. ASSUME NEW g \in P!Frags, g # f PROVE FragSound(g)'
  <2>1. ~ Holds(g) /\ ~ Holds(g)'
    BY <1>0, <1>1, <1>2, <1>10, <1>12 DEF Holds, EventFrag
  <2>2. FragSound(g) /\ frags'[g] = frags[g]
    BY <1>12 DEF PtlFrags, EventFrag
  <2> QED
    BY <1>7, <1>9, <1>12, <2>1, <2>2 DEF FragSound
<1>13. ASSUME NEW g \in P!Frags, g # f \/ EventsOf(g) # {} \/ UnsentOf(g) # {}
       PROVE  frags'[g].type = frags[g].type
  BY <1>0, <1>6, <1>13 DEF EventFrag
<1>14. ASSUME NEW x \in Unsent' PROVE frags'[x.frag].type = IF x.blocking THEN "long" ELSE "bounce"
  <2>1. CASE x = o
    BY <2>1 DEF EventFrag
  <2>2. CASE x \in Unsent
    <3>1. x.frag \in P!Frags /\ UnsentOf(x.frag) # {}
      BY <2>2 DEF PtlFlight, OpSound, Unsent, UnsentOf
    <3> QED
      BY <1>13, <2>2, <3>1 DEF PtlFrags
  <2> QED
    BY <1>3, <2>1, <2>2
<1>15. LongEvents' = LongEvents
  <2>1. ASSUME NEW n \in 1 .. Len(eq) PROVE frags'[eq[n]].type = frags[eq[n]].type
    <3>1. eq[n] \in P!Frags /\ EventsOf(eq[n]) # {}
      BY DEF PtlTypes, EventsOf
    <3> QED
      BY <1>13, <3>1
  <2> QED
    BY <1>0, <2>1 DEF LongEvents
<1>16. completion' = Cardinality(LongEvents') + Cardinality(Waited')
  <2>0. completion = Cardinality(LongEvents) + Cardinality(Waited)
    BY DEF PtlFrags
  <2>1. /\ IsFiniteSet(Waited) /\ Cardinality(Waited) \in Nat /\ Cardinality(LongEvents) \in Nat
    BY PtlFinite
  <2>2. CASE req.kind = "bounce"
    <3>1. Waited' = Waited
      BY <1>3, <2>2 DEF Waited
    <3> QED
      BY <1>15, <2>0, <2>2, <3>1 DEF P!IssueEvent
  <2>3. CASE req.kind # "bounce"
    <3>1. Waited' = Waited \cup {o} /\ o \notin Waited
      BY <1>3, <2>3 DEF Waited
    <3>2. Cardinality(Waited') = Cardinality(Waited) + 1
      BY <2>1, <3>1, GrownSet
    <3> QED
      BY <1>15, <2>0, <2>1, <2>3, <3>2 DEF P!IssueEvent
  <2> QED
    BY <2>2, <2>3
<1>17. Cardinality(InUse') <= issued' + (IF Sending' /\ req'.frag # 0 THEN 1 ELSE 0)
  <2>0. IsFiniteSet(InUse) /\ Cardinality(InUse) \in Nat
    BY PtlFinite
  <2>1. CASE req.kind = "atomicv"
    <3>1. InUse' = InUse
      BY <1>1, <2>1 DEF InUse, EventFrag
    <3>2. Cardinality(InUse) <= issued + 1
      BY <1>0, <2>0 DEF PtlFrags
    <3> QED
      BY <1>0, <2>0, <3>1, <3>2
  <2>2. CASE req.kind # "atomicv"
    <3>1. InUse' = InUse \cup {f} /\ f \notin InUse
      BY <1>1, <2>2 DEF InUse, EventFrag
    <3>2. Cardinality(InUse') = Cardinality(InUse) + 1
      BY <2>0, <3>1, GrownSet
    <3>3. Cardinality(InUse) <= issued
      BY <1>0, <2>0, <2>2 DEF PtlFrags, EventFrag
    <3> QED
      BY <1>0, <2>0, <3>2, <3>3
  <2> QED
    BY <2>1, <2>2
<1>18. Sending' /\ req'.kind = "atomicv" =>
         /\ frags'[req'.frag].type = "long"
         /\ req'.left = build'.fragments => frags'[req'.frag].reference = 0
  BY <1>0, <1>2, <1>10 DEF EventFrag
<1>19. \A g \in P!Frags' : FragSound(g)'
  BY <1>1, <1>11, <1>12
<1> QED
  BY <1>5, <1>14, <1>16, <1>17, <1>18, <1>19 DEF PtlFrags

(* An operation with an event is issued. *)
LEMMA IssueEvent_Inv ==
  ASSUME PtlInv, P!IssueEvent
  PROVE  PtlInv'
<1> USE DEF PtlInv
<1>0. /\ pc = "issue" /\ Sending /\ pc' = (IF req.left > 1 THEN "slot" ELSE "put_wait")
      /\ req.kind \in {"bounce", "long", "atomicv"} /\ req.ctx = "default" /\ req.then = "user"
      /\ req.left \in Int /\ req.left >= 1 /\ completion \in Int
      /\ issued \in Nat /\ build.fragments \in Nat /\ build.ops \in Nat
  BY PtlBuild DEF P!IssueEvent, PtlControl, Sending, PtlTypes, PtlReqs
<1>1. /\ UNCHANGED <<build, ctxs, event_slots, eq, ct, fenced, covered, pt_state, cts>>
      /\ long_pending' = build.ordering
  BY DEF P!IssueEvent, P!history, P!ptVars
<1>2. /\ req' \in PtlReqs /\ req'.left = req.left - 1 /\ req'.kind = req.kind
      /\ req'.frag = req.frag /\ req'.ctx = "default" /\ req'.then = "user"
  BY <1>0, IssueEvent_req
<1>3. PICK f : EventFrag(f)
  BY IssueEvent_frag
<1>4. f \in P!Frags /\ f \in Nat /\ frags' \in [P!Frags -> PtlFrag]
  BY <1>3 DEF EventFrag, P!Frags
<1>5. PICK b \in BOOLEAN : b = (req.kind # "bounce")
  OBVIOUS
<1>6. P!Issue("default", "event", f, b)
  BY <1>0, <1>3, <1>5 DEF EventFrag
<1>7. "event" \in {"volatile", "put", "get", "event"} /\ "default" \in Ctxs
  BY DEF Ctxs
<1>8. PICK o : PtlAdds(o) /\ o.ctx = "default" /\ o.md = "event" /\ o.frag = f /\ o.blocking = b
  BY <1>4, <1>6, <1>7, PtlIssueAdds
<1>9. o.blocking <=> req.kind # "bounce"
  BY <1>5, <1>8
<1>10. PtlSlots' /\ PtlFrags'
  BY <1>3, <1>8, <1>9, IssueEvent_events
<1>11. PtlIssues(o)
  <2>1. P!CounterOf(o) = <<P!Event, "put">>
    BY <1>8 DEF P!CounterOf
  <2>2. pending' = [pending EXCEPT ![P!CounterOf(o)] = @ + 1]
    BY <2>1 DEF P!IssueEvent, P!Pend
  <2> QED
    BY <1>0, <1>1, <1>2, <1>8, <2>2 DEF PtlIssues
<1>12. completion' \in Int
  BY <1>0 DEF P!IssueEvent
<1>13. PtlTypes' /\ PtlFlight'
  BY <1>4, <1>11, <1>12, PtlIssuesTypes
<1>14. PtlControl'
  <2>1. Sending' => /\ req'.kind = "atomicv" /\ req'.left >= 1 /\ req'.frag \in P!Frags'
                    /\ req'.left <= build'.fragments
                    /\ issued' + req'.left <= build'.ops + build'.fragments - 1
    <3> SUFFICES ASSUME Sending'
                 PROVE  /\ req'.kind = "atomicv" /\ req'.left >= 1 /\ req'.frag \in P!Frags'
                        /\ req'.left <= build'.fragments
                        /\ issued' + req'.left <= build'.ops + build'.fragments - 1
      OBVIOUS
    <3>1. req.left > 1
      BY <1>0 DEF Sending
    <3>2. /\ req.kind = "atomicv" /\ req.frag \in P!Frags /\ req.left <= build.fragments
          /\ issued + req.left <= build.ops + build.fragments - 1
      BY <1>0, <3>1 DEF PtlControl
    <3>3. P!Frags' = P!Frags /\ issued' = issued + 1
      BY <1>1, <1>8 DEF P!Frags, PtlAdds
    <3> QED
      BY <1>0, <1>1, <1>2, <3>1, <3>2, <3>3
  <2> QED
    BY <1>0, <1>2, <2>1 DEF PtlControl, Sending, Quiets
<1>15. Early => PtlSource'
  <2> SUFFICES ASSUME Early, NEW x \in flight', x.blocking, ~ x.sent PROVE x.md = "event"
    BY <1>0, <1>2 DEF PtlSource
  <2>1. CASE x = o
    BY <1>8, <2>1
  <2>2. CASE x \in flight
    BY <1>0, <2>2 DEF PtlSource, Quiets
  <2> QED
    BY <1>8, <2>1, <2>2 DEF PtlAdds
<1>16. (Early' <=> Early) /\ (Ordered' <=> Ordered)
  BY <1>1 DEF Early, Ordered
<1>17. PtlTable'
  BY <1>1, PtlTableKept
<1> QED
  BY <1>10, <1>11, <1>13, <1>14, <1>15, <1>16, <1>17, PtlIssuesCounts, PtlIssuesFence

(* What draining does to the fragment. *)
LEMMA PtlDrained ==
  ASSUME PtlTypes, PtlFrags, NEW f \in P!Frags, f = eq[1], eq # <<>>, P!drain_eq_frag(f)
  PROVE  /\ frags' \in [P!Frags -> PtlFrag] /\ frags[f].reference >= 1
         /\ frags'[f].type = frags[f].type /\ frags'[f].reference = frags[f].reference - 1
         /\ frags'[f].free <=> frags'[f].reference = 0
         /\ \A g \in P!Frags : g # f => frags'[g] = frags[g]
<1>0. frags \in [P!Frags -> PtlFrag] /\ frags[f] \in PtlFrag /\ frags[f].reference \in Nat
  BY DEF PtlTypes, PtlFrag
<1>1. frags[f].reference >= 1
  <2>1. 1 \in EventsOf(f)
    BY DEF EventsOf, PtlTypes
  <2> QED
    BY <1>0, <2>1, PtlFreeIsUnused
<1>2. PICK left : left = IF frags[f].type = "bounce" THEN 0 ELSE P!Max({0, frags[f].reference - 1})
  OBVIOUS
<1>3. left = frags[f].reference - 1 /\ left \in Nat
  <2>1. CASE frags[f].type = "bounce"
    BY <1>0, <1>1, <1>2, <2>1 DEF PtlFrags, FragSound
  <2>2. CASE frags[f].type # "bounce"
    BY <1>0, <1>1, <1>2, <2>2, PtlMaxWithZero
  <2> QED
    BY <2>1, <2>2
<1>4. frags' = [frags EXCEPT ![f].reference = left, ![f].free = (left = 0)]
  BY <1>2 DEF P!drain_eq_frag
<1>5. PICK q : q = [frags[f] EXCEPT !.reference = left]
  OBVIOUS
<1>6. q \in PtlFrag /\ q.type = frags[f].type /\ q.reference = left
  BY <1>0, <1>3, <1>5 DEF PtlFrag
<1>7. PICK r : r = [q EXCEPT !.free = (left = 0)]
  OBVIOUS
<1>8. r \in PtlFrag
  BY <1>6, <1>7 DEF PtlFrag
<1>9. r.type = frags[f].type /\ r.reference = left /\ (r.free <=> left = 0)
  BY <1>6, <1>7 DEF PtlFrag
<1>10. frags' = [frags EXCEPT ![f] = r]
  BY <1>0, <1>4, <1>5, <1>7
<1> QED
  BY <1>0, <1>1, <1>3, <1>8, <1>9, <1>10

(* Draining an event gives back its slot and its reference.  When it is the *)
(* last event of the fragment whose next part waits for the slot, the       *)
(* fragment is torn: free, and still in use.                                *)
LEMMA drain_Inv ==
  ASSUME PtlInv, P!drain_eq, UNCHANGED req,
         pc = "put_wait" \/ (pc = "slot" /\ event_slots - 1 <= 0),
         pc' = IF pc = "slot" /\ P!TearsFrag THEN "torn" ELSE pc
  PROVE  PtlInv'
<1> USE DEF PtlInv
<1>0. /\ eq # <<>> /\ eq' = Tail(eq) /\ event_slots' = event_slots + 1
      /\ UNCHANGED <<build, ctxs, pending, ct, long_pending, flight, issued, fenced, covered,
                     pt_state, cts>>
  BY DEF P!drain_eq, P!history, P!ptVars
<1>1. P!Frags' = P!Frags /\ P!Counters' = P!Counters
  BY <1>0 DEF P!Frags, P!Counters
<1>2. PICK f \in P!Frags : f = eq[1]
  BY <1>0 DEF PtlTypes
<1>3. /\ P!drain_eq_frag(f)
      /\ completion' = IF frags[f].type = "bounce" THEN completion ELSE completion - 1
  BY <1>0, <1>2 DEF P!drain_eq, PtlTypes
<1>4. /\ frags' \in [P!Frags -> PtlFrag] /\ frags[f].reference >= 1
      /\ frags'[f].type = frags[f].type /\ frags'[f].reference = frags[f].reference - 1
      /\ frags'[f].free <=> frags'[f].reference = 0
      /\ \A g \in P!Frags : g # f => frags'[g] = frags[g]
  BY <1>0, <1>2, <1>3, PtlDrained
<1>5. /\ pc' = "torn" => pc = "slot" /\ req.kind = "atomicv" /\ req.frag = f /\ frags[f].reference = 1
      /\ pc' # "torn" => pc' = pc
      /\ Holds(f) /\ pc' # "torn" => frags[f].reference >= 2
  <2>1. 0 \notin P!Frags /\ frags[f].reference \in Nat /\ P!Head(eq) = f
    BY <1>0, <1>2 DEF P!Frags, PtlTypes, PtlFrag
  <2>2. Holds(f) => req.kind = "atomicv" /\ pc = "slot" /\ req.frag = f
    BY <1>2, <2>1 DEF Holds, Sending, PtlControl
  <2> QED
    BY <1>4, <2>1, <2>2 DEF P!TearsFrag
<1>6. /\ eq' \in Seq(P!Frags) /\ Len(eq) \in Nat /\ Len(eq) >= 1 /\ Len(eq') = Len(eq) - 1
      /\ \A n \in 1 .. Len(eq) - 1 : eq'[n] = eq[n + 1]
  BY <1>0 DEF PtlTypes
<1>7. Unsent' = Unsent
  BY <1>0 DEF Unsent
<1>8. PtlTypes'
  <2>1. completion' \in Int /\ event_slots' \in Int
    BY <1>0, <1>3 DEF PtlTypes
  <2> QED
    BY <1>0, <1>1, <1>4, <1>5, <1>6, <2>1 DEF PtlTypes, PtlPoints
<1>9. PtlControl'
  BY <1>0, <1>1, <1>5 DEF PtlControl, Sending, Quiets
<1>10. PtlFlight'
  BY <1>0, <1>1 DEF PtlFlight, OpSound
<1>11. PtlSlots'
  <2>1. Cardinality(Unsent) \in Nat /\ event_slots \in Int /\ build.slots \in Nat /\ issued \in Nat
    BY PtlFinite, PtlBuild DEF PtlTypes
  <2>2. pc # "issue" /\ pc' # "issue"
    BY <1>5
  <2>3. /\ build.slots - event_slots = Len(eq) + Cardinality(Unsent)
        /\ event_slots > 0 \/ build.slots = 0
        /\ Len(eq) + Cardinality(Unsent) <= issued
    BY <1>6, <2>1, <2>2 DEF PtlSlots
  <2>4. /\ build'.slots - event_slots' = Len(eq') + Cardinality(Unsent')
        /\ event_slots' > 0 \/ build'.slots = 0
        /\ Len(eq') + Cardinality(Unsent') <= issued'
    BY <1>0, <1>6, <1>7, <2>1, <2>3
  <2>5. Cardinality(Unsent') \in Nat /\ Len(eq') \in Nat
    BY <1>6, <1>7, <2>1
  <2> QED
    BY <2>2, <2>4, <2>5 DEF PtlSlots
<1>12. ASSUME NEW g \in P!Frags PROVE UnsentOf(g)' = UnsentOf(g)
  BY <1>7 DEF UnsentOf
<1>13. ASSUME NEW g \in P!Frags
       PROVE  /\ Cardinality(EventsOf(g)') =
                   IF g = f THEN Cardinality(EventsOf(g)) - 1 ELSE Cardinality(EventsOf(g))
              /\ Cardinality(EventsOf(g)) \in Nat
  <2>1. EventsOf(g) \subseteq 1 .. Len(eq) /\ (1 \in EventsOf(g) <=> g = f)
    BY <1>2, <1>6 DEF EventsOf
  <2>2. EventsOf(g)' = {n \in 1 .. Len(eq) - 1 : n + 1 \in EventsOf(g)}
    BY <1>6 DEF EventsOf
  <2> QED
    BY <1>6, <2>1, <2>2, ShiftedIndices
<1>14. ASSUME NEW g \in P!Frags PROVE FragSound(g)'
  <2>1. FragSound(g) /\ frags[g].reference \in Nat
    BY DEF PtlFrags, PtlTypes, PtlFrag
  <2>2. Cardinality(UnsentOf(g)) \in Nat
    BY PtlFinite
  <2>3. CASE g = f
    <3>1. Holds(f)' => frags'[f].reference # 0
      BY <1>4, <1>5, <2>1, <2>3 DEF Holds, Sending
    <3> QED
      BY <1>4, <1>12, <1>13, <2>1, <2>2, <2>3, <3>1 DEF FragSound
  <2>4. CASE g # f
    <3>1. Holds(g)' <=> Holds(g)
      BY <1>5, <2>4 DEF Holds, Sending
    <3> QED
      BY <1>4, <1>12, <1>13, <2>1, <2>2, <2>4, <3>1 DEF FragSound
  <2> QED
    BY <2>3, <2>4
<1>15. ASSUME NEW g \in P!Frags PROVE frags'[g].type = frags[g].type
  BY <1>4
<1>16. /\ Cardinality(LongEvents') =
            IF frags[f].type = "long" THEN Cardinality(LongEvents) - 1 ELSE Cardinality(LongEvents)
       /\ Cardinality(LongEvents) \in Nat
  <2>1. LongEvents \subseteq 1 .. Len(eq) /\ (1 \in LongEvents <=> frags[f].type = "long")
    BY <1>2, <1>6 DEF LongEvents
  <2>2. \A n \in 1 .. Len(eq) : eq[n] \in P!Frags
    BY DEF PtlTypes
  <2>3. \A n \in 1 .. Len(eq) - 1 : frags'[eq'[n]].type = frags[eq[n + 1]].type /\ n + 1 \in 1 .. Len(eq)
    BY <1>6, <1>15, <2>2
  <2>4. LongEvents' = {n \in 1 .. Len(eq) - 1 : n + 1 \in LongEvents}
    BY <1>6, <2>3 DEF LongEvents
  <2> QED
    BY <1>6, <2>1, <2>4, ShiftedIndices
<1>17. completion' = Cardinality(LongEvents') + Cardinality(Waited')
  <2>1. Waited' = Waited
    BY <1>7 DEF Waited
  <2>2. frags[f].type \in {"bounce", "long"}
    BY DEF PtlTypes, PtlFrag
  <2>3. completion = Cardinality(LongEvents) + Cardinality(Waited) /\ Cardinality(Waited) \in Nat
    BY PtlFinite DEF PtlFrags
  <2> QED
    BY <1>3, <1>16, <2>1, <2>2, <2>3
<1>18. Cardinality(InUse') <= issued' + (IF Sending' /\ req'.frag # 0 THEN 1 ELSE 0)
  <2>1. ~ frags[f].free
    BY <1>4 DEF PtlFrags, FragSound, PtlTypes, PtlFrag
  <2>2. InUse' \subseteq InUse
    BY <1>1, <1>4, <2>1 DEF InUse
  <2>3. Cardinality(InUse') <= Cardinality(InUse)
    BY <2>2, PtlFinite, FS_Subset
  <2>4. Cardinality(InUse) \in Nat /\ Cardinality(InUse') \in Nat
    BY <2>2, PtlFinite, FS_Subset, FS_CardinalityType
  <2>5. Cardinality(InUse) <= issued + (IF Sending /\ req.frag # 0 THEN 1 ELSE 0)
    BY DEF PtlFrags
  <2>6. issued \in Nat
    BY DEF PtlTypes
  <2>7. CASE pc' = "torn"
    <3>1. frags'[f].free
      BY <1>4, <1>5, <2>7
    <3>2. InUse' = InUse \ {f} /\ f \in InUse
      BY <1>1, <1>2, <1>4, <2>1, <3>1 DEF InUse
    <3>3. Cardinality(InUse') = Cardinality(InUse) - 1
      BY <3>2, PtlFinite, ShrunkSet
    <3> QED
      BY <1>0, <2>4, <2>5, <2>6, <2>7, <3>3 DEF Sending
  <2>8. CASE pc' # "torn"
    BY <1>0, <1>5, <2>3, <2>4, <2>5, <2>6, <2>8 DEF Sending
  <2> QED
    BY <2>7, <2>8
<1>19. Sending' /\ req'.kind = "atomicv" =>
         /\ frags'[req'.frag].type = "long"
         /\ req'.left = build'.fragments => frags'[req'.frag].reference = 0
  <2> SUFFICES ASSUME Sending, req.kind = "atomicv"
               PROVE  /\ frags'[req.frag].type = "long"
                      /\ req.left = build.fragments => frags'[req.frag].reference = 0
    BY <1>0, <1>5 DEF Sending
  <2>1. req.frag \in P!Frags /\ frags[req.frag].type = "long"
    BY DEF PtlControl, PtlFrags
  <2>2. req.left = build.fragments => frags[req.frag].reference = 0
    BY DEF PtlFrags
  <2> QED
    BY <1>4, <2>1, <2>2
<1>20. \A o \in Unsent' : frags'[o.frag].type = IF o.blocking THEN "long" ELSE "bounce"
  <2> SUFFICES ASSUME NEW o \in Unsent
               PROVE  frags'[o.frag].type = IF o.blocking THEN "long" ELSE "bounce"
    BY <1>7
  <2>1. o.frag \in P!Frags
    BY DEF PtlFlight, OpSound, Unsent
  <2> QED
    BY <1>15, <2>1 DEF PtlFrags
<1>21. \A g \in P!Frags' : FragSound(g)'
  BY <1>1, <1>14
<1>22. PtlFrags'
  BY <1>17, <1>18, <1>19, <1>20, <1>21 DEF PtlFrags
<1>23. Early => PtlCounts'
  <2>1. \A k : CountedBy(k)' = CountedBy(k)
    BY <1>0 DEF CountedBy, P!CounterOf
  <2>2. pc' \in {"slot", "put_wait", "torn"}
    BY <1>5
  <2> QED
    BY <1>0, <1>1, <2>1, <2>2 DEF PtlCounts
<1>24. Early => PtlSource'
  BY <1>0, <1>5 DEF PtlSource, Quiets
<1>25. Ordered => PtlFence'
  <2>1. Ordered => P!FenceOrders'
    BY <1>0 DEF PtlFence, P!FenceOrders
  <2> QED
    BY <1>0, <1>5, <2>1 DEF PtlFence
<1>26. PtlTable'
  BY <1>0, PtlTableKept
<1>27. (Early' <=> Early) /\ (Ordered' <=> Ordered)
  BY <1>0 DEF Early, Ordered
<1> QED
  BY <1>8, <1>9, <1>10, <1>11, <1>22, <1>23, <1>24, <1>25, <1>26, <1>27

(* put_wait: over, an event drained, or a quiet. *)
LEMMA put_wait_Inv ==
  ASSUME PtlInv, P!shmem_transport_put_wait
  PROVE  PtlInv'
<1>1. CASE /\ P!PutWaitOver /\ pc' = "user" /\ req' = P!NoReq
           /\ UNCHANGED <<build, ctxs, event_slots, eq, frags, completion, pending, ct,
                          long_pending, flight, issued, P!history, P!ptVars>>
  BY <1>1, PutWaitReturns_Inv
<1>2. CASE pc = "put_wait" /\ P!drain_eq /\ UNCHANGED <<pc, req>>
  BY <1>2, drain_Inv
<1>3. CASE /\ pc = "put_wait" /\ ~ P!Bounces(req.ctx) /\ pc' = "quiet_get"
           /\ UNCHANGED <<build, ctxs, event_slots, eq, frags, completion, pending, ct,
                          long_pending, flight, issued, P!history, P!ptVars, req>>
  BY <1>3, PutWaitQuiets_Inv
<1> QED
  BY <1>1, <1>2, <1>3 DEF P!shmem_transport_put_wait
-----------------------------------------------------------------------------
(* The network.                                                            *)

(* What a step of the network on one operation leaves alone. *)
NetKeeps ==
  UNCHANGED <<build, ctxs, event_slots, frags, completion, pending, ct, long_pending,
              issued, fenced, covered, pt_state, cts, pc, req>>

(* What a change of an operation keeps, apart from events. *)
LEMMA PtlReplacesRest ==
  ASSUME PtlInv, NEW o, NEW q, PtlReplaces(o, q), NetKeeps, Ordered => P!FenceOrders',
         eq' \in Seq(P!Frags)
  PROVE  /\ PtlTypes' /\ PtlControl' /\ PtlFlight'
         /\ Early => PtlCounts' /\ PtlSource'
         /\ Ordered => PtlFence'
         /\ PtlTable'
         /\ (Early' <=> Early) /\ (Ordered' <=> Ordered)
<1> USE DEF PtlInv
<1>1. P!Frags' = P!Frags /\ P!Counters' = P!Counters
  BY DEF P!Frags, P!Counters, NetKeeps
<1>2. PtlFlight' /\ flight' \subseteq PtlOps /\ IsFiniteSet(flight')
  BY PtlReplacesFlight DEF NetKeeps
<1>3. PtlTypes'
  BY <1>1, <1>2 DEF PtlTypes, NetKeeps
<1>4. PtlControl'
  BY <1>1 DEF PtlControl, NetKeeps, Sending
<1>5. ASSUME NEW x \in flight'
      PROVE  \E y \in flight : /\ x.num = y.num /\ x.ctx = y.ctx /\ x.md = y.md
                               /\ x.blocking = y.blocking /\ P!CounterOf(x) = P!CounterOf(y)
                               /\ y.sent => x.sent
  <2>1. CASE x = q
    BY <2>1 DEF PtlReplaces, P!CounterOf
  <2>2. CASE x \in flight
    BY <2>2
  <2> QED
    BY <2>1, <2>2 DEF PtlReplaces
<1>6. ASSUME Early PROVE PtlCounts'
  <2>0. PtlCounts
    BY <1>6
  <2>1. ASSUME NEW k \in P!Counters
        PROVE  pending'[k] = ct'[k] + Cardinality(CountedBy(k)') /\ pending'[k] <= issued'
    <3>1. Cardinality(CountedBy(k))' = Cardinality(CountedBy(k))
      BY PtlReplacesCounted
    <3> QED
      BY <2>0, <3>1 DEF PtlCounts, NetKeeps
  <2>2. \A k : CountedBy(k) = {} => CountedBy(k)' = {}
    <3> SUFFICES ASSUME NEW k, CountedBy(k) = {}, NEW x \in CountedBy(k)' PROVE FALSE
      OBVIOUS
    <3>1. x \in flight' /\ P!CounterOf(x) = k
      BY DEF CountedBy, P!CounterOf
    <3>2. PICK y \in flight : P!CounterOf(x) = P!CounterOf(y)
      BY <1>5, <3>1
    <3> QED
      BY <3>1, <3>2 DEF CountedBy
  <2>3. pc \in {"quiet_event", "quiet_put"} => CountedBy(<<req.ctx, "get">>)' = {}
    <3>1. req' = req
      BY DEF NetKeeps
    <3> QED
      BY <2>0, <2>2, <3>1 DEF PtlCounts, CountedBy, P!CounterOf
  <2>4. pc = "quiet_put" => CountedBy(<<"event", "put">>)' = {}
    BY <2>0, <2>2 DEF PtlCounts
  <2>5. pc \in {"destroy", "fence_quiet"} => \A x \in flight' : x.ctx # req.ctx
    BY <1>5, <2>0 DEF PtlCounts
  <2>6. covered' = {} /\ pc' = pc /\ req' = req
    BY <2>0 DEF PtlCounts, NetKeeps
  <2> QED
    BY <1>1, <2>1, <2>3, <2>4, <2>5, <2>6 DEF PtlCounts
<1>7. ASSUME Early PROVE PtlSource'
  BY <1>5, <1>7 DEF PtlSource, NetKeeps
<1>8. ASSUME Ordered PROVE PtlFence'
  <2>0. PtlFence /\ P!FenceOrders'
    BY <1>8
  <2>1. /\ build' = build /\ fenced' = fenced /\ long_pending' = long_pending /\ pc' = pc
        /\ req' = req /\ ctxs' = ctxs
    BY DEF NetKeeps
  <2>2. ASSUME NEW x \in flight', x.md # "get", x.num <= fenced[x.ctx]
        PROVE  build.ordering /\ x.md = "volatile"
    BY <1>5, <2>0, <2>2 DEF PtlFence
  <2>3. build.ordering /\ ~ long_pending => \A x \in flight' : x.md \in {"volatile", "get"}
    BY <1>5, <2>0 DEF PtlFence
  <2>4. pc = "fenced" => \A x \in flight' :
         x.ctx = req.ctx /\ x.md # "get" => build.ordering /\ x.md = "volatile"
    BY <1>5, <2>0 DEF PtlFence
  <2>5. build.contexts = "none" => \A x \in flight' : x.ctx = "default"
    BY <1>5, <2>0 DEF PtlFence
  <2> QED
    BY <2>0, <2>1, <2>2, <2>3, <2>4, <2>5 DEF PtlFence
<1>9. PtlTable'
  BY PtlTableKept DEF NetKeeps
<1>10. (Early' <=> Early) /\ (Ordered' <=> Ordered)
  BY DEF Early, Ordered, NetKeeps
<1> QED
  BY <1>2, <1>3, <1>4, <1>6, <1>7, <1>8, <1>9, <1>10

(* The events and fragments when a source has been read. *)
LEMMA SendEvent ==
  ASSUME PtlInv, NEW o \in Unsent, Unsent' = Unsent \ {o}, eq' = Append(eq, o.frag), NetKeeps
  PROVE  PtlSlots' /\ PtlFrags' /\ eq' \in Seq(P!Frags)
<1> USE DEF PtlInv
<1>0. o.frag \in P!Frags /\ o \in flight
  BY DEF PtlFlight, OpSound, Unsent
<1>1. P!Frags' = P!Frags
  BY DEF P!Frags, NetKeeps
<1>2. /\ eq' \in Seq(P!Frags) /\ Len(eq) \in Nat /\ Len(eq') = Len(eq) + 1
      /\ eq'[Len(eq) + 1] = o.frag
      /\ \A n \in 1 .. Len(eq) : eq'[n] = eq[n]
  BY <1>0 DEF PtlTypes
<1>3. Cardinality(Unsent') = Cardinality(Unsent) - 1 /\ Cardinality(Unsent) \in Nat
  BY PtlFinite, ShrunkSet
<1>4. PtlSlots'
  <2>1. event_slots \in Int /\ build.slots \in Nat /\ issued \in Nat
    BY PtlBuild DEF PtlTypes
  <2> QED
    BY <1>2, <1>3, <2>1 DEF PtlSlots, NetKeeps
<1>5. ASSUME NEW g \in P!Frags PROVE FragSound(g)'
  <2>1. FragSound(g) /\ Holds(g)' = Holds(g) /\ frags' = frags
    BY DEF PtlFrags, Holds, Sending, NetKeeps
  <2>2. /\ Cardinality(UnsentOf(g)) \in Nat /\ Cardinality(EventsOf(g)) \in Nat
        /\ IsFiniteSet(UnsentOf(g)) /\ IsFiniteSet(EventsOf(g))
    BY PtlFinite
  <2>3. CASE g = o.frag
    <3>1. UnsentOf(g)' = UnsentOf(g) \ {o} /\ o \in UnsentOf(g)
      BY <2>3 DEF UnsentOf
    <3>2. EventsOf(g)' = EventsOf(g) \cup {Len(eq) + 1} /\ Len(eq) + 1 \notin EventsOf(g)
      BY <1>2, <2>3 DEF EventsOf
    <3>3. Cardinality(UnsentOf(g)') = Cardinality(UnsentOf(g)) - 1
      BY <2>2, <3>1, ShrunkSet
    <3>4. Cardinality(EventsOf(g)') = Cardinality(EventsOf(g)) + 1
      BY <2>2, <3>2, GrownSet
    <3> QED
      BY <2>1, <2>2, <3>3, <3>4 DEF FragSound
  <2>4. CASE g # o.frag
    <3>1. UnsentOf(g)' = UnsentOf(g)
      BY <2>4 DEF UnsentOf
    <3>2. EventsOf(g)' = EventsOf(g)
      BY <1>2, <2>4 DEF EventsOf
    <3> QED
      BY <2>1, <3>1, <3>2 DEF FragSound
  <2> QED
    BY <2>3, <2>4
<1>6. completion' = Cardinality(LongEvents') + Cardinality(Waited')
  <2>0. completion = Cardinality(LongEvents) + Cardinality(Waited) /\ UNCHANGED <<completion, frags>>
    BY DEF PtlFrags, NetKeeps
  <2>1. /\ IsFiniteSet(Waited) /\ Cardinality(Waited) \in Nat
        /\ IsFiniteSet(LongEvents) /\ Cardinality(LongEvents) \in Nat
    BY PtlFinite
  <2>2. CASE o.blocking
    <3>1. Waited' = Waited \ {o} /\ o \in Waited
      BY <2>2 DEF Waited
    <3>2. frags[o.frag].type = "long"
      BY <2>2 DEF PtlFrags
    <3>3. LongEvents' = LongEvents \cup {Len(eq) + 1} /\ Len(eq) + 1 \notin LongEvents
      BY <1>2, <2>0, <3>2 DEF LongEvents
    <3>4. Cardinality(Waited') = Cardinality(Waited) - 1
      BY <2>1, <3>1, ShrunkSet
    <3>5. Cardinality(LongEvents') = Cardinality(LongEvents) + 1
      BY <2>1, <3>3, GrownSet
    <3> QED
      BY <2>0, <2>1, <3>4, <3>5
  <2>3. CASE ~ o.blocking
    <3>1. Waited' = Waited
      BY <2>3 DEF Waited
    <3>2. frags[o.frag].type = "bounce"
      BY <2>3 DEF PtlFrags
    <3>3. LongEvents' = LongEvents
      BY <1>2, <2>0, <3>2 DEF LongEvents
    <3> QED
      BY <2>0, <3>1, <3>3
  <2> QED
    BY <2>2, <2>3
<1>7. InUse' = InUse
  BY <1>1 DEF InUse, NetKeeps
<1>8. \A x \in Unsent' : frags'[x.frag].type = IF x.blocking THEN "long" ELSE "bounce"
  BY DEF PtlFrags, NetKeeps
<1>9. \A g \in P!Frags' : FragSound(g)'
  BY <1>1, <1>5
<1> QED
  BY <1>2, <1>4, <1>6, <1>7, <1>8, <1>9 DEF PtlFrags, NetKeeps, Sending

(* A source has been read. *)
LEMMA NetSend_Inv ==
  ASSUME PtlInv, P!NetSend
  PROVE  PtlInv'
<1> USE DEF PtlInv
<1>1. PICK o \in flight :
         /\ ~ o.sent
         /\ flight' = (flight \ {o}) \cup {[o EXCEPT !.sent = TRUE]}
         /\ eq' = IF o.md = "event" THEN Append(eq, o.frag) ELSE eq
  BY DEF P!NetSend
<1>2. NetKeeps
  BY DEF P!NetSend, NetKeeps, P!history, P!ptVars
<1>3. PICK q : q = [o EXCEPT !.sent = TRUE]
  OBVIOUS
<1>4. o \in PtlOps /\ ~ o.delivered
  BY <1>1 DEF PtlTypes, PtlFlight, OpSound
<1>5. q \in PtlOps
  BY <1>3, <1>4 DEF PtlOps
<1>6. /\ q.num = o.num /\ q.ctx = o.ctx /\ q.md = o.md /\ q.frag = o.frag /\ q.sent
      /\ q.blocking = o.blocking /\ q.after = o.after /\ (q.delivered <=> o.delivered)
  BY <1>3, <1>4 DEF PtlOps
<1>7. PtlReplaces(o, q)
  BY <1>1, <1>3, <1>4, <1>5, <1>6 DEF PtlReplaces
<1>8. flight' = (flight \ {o}) \cup {q}
  BY <1>1, <1>3
<1>9. Ordered => P!FenceOrders'
  <2> SUFFICES ASSUME Ordered, NEW x \in flight', NEW y \in flight', x.ctx = y.ctx,
                      "get" \notin {x.md, y.md}, y.num <= x.after, x.delivered
               PROVE  y.delivered
    BY DEF P!FenceOrders
  <2>1. x \in flight
    BY <1>4, <1>6, <1>8
  <2>2. PICK z \in flight : z.num = y.num /\ z.ctx = y.ctx /\ z.md = y.md /\ (z.delivered <=> y.delivered)
    <3>1. CASE y = q
      BY <1>6, <3>1
    <3>2. CASE y \in flight
      BY <3>2
    <3> QED
      BY <1>8, <3>1, <3>2
  <2>3. P!FenceOrders
    BY DEF PtlFence
  <2> QED
    BY <2>1, <2>2, <2>3 DEF P!FenceOrders
<1>10. CASE o.md = "event"
  <2>1. o \in Unsent /\ Unsent' = Unsent \ {o} /\ eq' = Append(eq, o.frag)
    BY <1>1, <1>6, <1>8, <1>10 DEF Unsent
  <2>2. PtlSlots' /\ PtlFrags' /\ eq' \in Seq(P!Frags)
    BY <1>2, <2>1, SendEvent
  <2> QED
    BY <1>2, <1>7, <1>9, <2>2, PtlReplacesRest
<1>11. CASE o.md # "event"
  <2>1. Unsent' = Unsent /\ eq' = eq
    BY <1>1, <1>6, <1>8, <1>11 DEF Unsent
  <2>2. PtlCalm
    BY <1>2, <2>1 DEF PtlCalm, NetKeeps, PtlTypes
  <2>3. PtlSlots' /\ PtlFrags' /\ eq' \in Seq(P!Frags)
    BY <2>1, <2>2, PtlCalmKeeps DEF PtlTypes
  <2> QED
    BY <1>2, <1>7, <1>9, <2>3, PtlReplacesRest
<1> QED
  BY <1>10, <1>11

(* Data arrive.  What a fence has ordered was quieted, or is a short       *)
(* message that the network does not let them overtake.                    *)
LEMMA NetDeliver_Inv ==
  ASSUME PtlInv, P!NetDeliver
  PROVE  PtlInv'
<1> USE DEF PtlInv
<1>1. PICK o \in flight :
         /\ o.sent /\ ~ o.delivered
         /\ build.ordering /\ o.md # "get" =>
               \A p \in flight : p.md = "volatile" /\ p.num < o.num => p.delivered
         /\ flight' = (flight \ {o}) \cup {[o EXCEPT !.delivered = TRUE]}
  BY DEF P!NetDeliver
<1>2. NetKeeps /\ eq' = eq
  BY DEF P!NetDeliver, NetKeeps, P!history, P!ptVars
<1>3. PICK q : q = [o EXCEPT !.delivered = TRUE]
  OBVIOUS
<1>4. o \in PtlOps /\ OpSound(o)
  BY <1>1 DEF PtlTypes, PtlFlight
<1>5. q \in PtlOps
  BY <1>3, <1>4 DEF PtlOps
<1>6. /\ q.num = o.num /\ q.ctx = o.ctx /\ q.md = o.md /\ q.frag = o.frag /\ q.delivered
      /\ q.blocking = o.blocking /\ q.after = o.after /\ (q.sent <=> o.sent)
  BY <1>3, <1>4 DEF PtlOps
<1>7. PtlReplaces(o, q)
  BY <1>1, <1>3, <1>4, <1>5, <1>6 DEF PtlReplaces
<1>8. flight' = (flight \ {o}) \cup {q}
  BY <1>1, <1>3
<1>9. Ordered => P!FenceOrders'
  <2> SUFFICES ASSUME Ordered, NEW x \in flight', NEW y \in flight', x.ctx = y.ctx,
                      "get" \notin {x.md, y.md}, y.num <= x.after, x.delivered
               PROVE  y.delivered
    BY DEF P!FenceOrders
  <2>0. PtlFence /\ P!FenceOrders
    BY DEF PtlFence
  <2>1. CASE y = q
    BY <1>6, <2>1
  <2>2. CASE y # q /\ x # q
    <3>1. x \in flight /\ y \in flight
      BY <1>8, <2>2
    <3> QED
      BY <2>0, <3>1 DEF P!FenceOrders
  <2>3. CASE y # q /\ x = q
    <3>1. y \in flight /\ y \in PtlOps
      BY <1>8, <2>3 DEF PtlTypes
    <3>2. y.num <= o.after /\ y.ctx = o.ctx /\ o.md # "get" /\ y.md # "get"
      BY <1>6, <2>3
    <3>3. y.num < o.num /\ y.num <= fenced[y.ctx]
      <4>1. /\ o.after \in Nat /\ o.num \in Nat /\ y.num \in Nat /\ fenced[o.ctx] \in Nat
            /\ o.after < o.num /\ o.after <= fenced[o.ctx]
        BY <1>4, <3>1 DEF OpSound, PtlOps, PtlTypes
      <4> QED
        BY <3>2, <4>1
    <3>4. build.ordering /\ y.md = "volatile"
      BY <2>0, <3>1, <3>2, <3>3 DEF PtlFence
    <3> QED
      BY <1>1, <3>1, <3>2, <3>3, <3>4
  <2> QED
    BY <2>1, <2>2, <2>3
<1>10. Unsent' = Unsent
  BY <1>1, <1>6, <1>8 DEF Unsent
<1>11. PtlCalm
  BY <1>2, <1>10 DEF PtlCalm, NetKeeps, PtlTypes
<1>12. PtlSlots' /\ PtlFrags' /\ eq' \in Seq(P!Frags)
  BY <1>2, <1>11, PtlCalmKeeps DEF PtlTypes
<1> QED
  BY <1>2, <1>7, <1>9, <1>12, PtlReplacesRest

(* An acknowledgement is counted. *)
LEMMA NetAck_Inv ==
  ASSUME PtlInv, P!NetAck
  PROVE  PtlInv'
<1> USE DEF PtlInv
<1>1. PICK o \in flight : /\ o.delivered /\ flight' = flight \ {o}
                          /\ ct' = [ct EXCEPT ![P!CounterOf(o)] = @ + 1]
  BY DEF P!NetAck
<1>2. UNCHANGED <<build, ctxs, event_slots, eq, frags, completion, pending, long_pending,
                  issued, fenced, covered, pt_state, cts, pc, req>>
  BY DEF P!NetAck, P!history, P!ptVars
<1>3. P!Frags' = P!Frags /\ P!Counters' = P!Counters
  BY <1>2 DEF P!Frags, P!Counters
<1>4. o \in PtlOps /\ o.sent
  BY <1>1 DEF PtlTypes, PtlFlight, OpSound
<1>5. P!CounterOf(o) \in P!Counters
  BY <1>4 DEF PtlOps, Ctxs, P!CounterOf, P!Counters, P!Default, P!User, P!Event
<1>6. PtlTypes'
  <2>1. ct' \in [P!Counters -> Nat]
    BY <1>1, <1>5 DEF PtlTypes
  <2>2. flight' \subseteq PtlOps /\ IsFiniteSet(flight')
    BY <1>1, FS_RemoveElement DEF PtlTypes
  <2> QED
    BY <1>2, <1>3, <2>1, <2>2 DEF PtlTypes
<1>7. PtlControl'
  BY <1>2, <1>3 DEF PtlControl, Sending
<1>8. PtlFlight'
  BY <1>1, <1>2, <1>3 DEF PtlFlight, OpSound
<1>9. Unsent' = Unsent
  BY <1>1, <1>4 DEF Unsent
<1>10. PtlCalm
  BY <1>2, <1>9 DEF PtlCalm, PtlTypes
<1>11. PtlSlots' /\ PtlFrags'
  BY <1>10, PtlCalmKeeps
<1>12. ASSUME Early PROVE PtlCounts'
  <2>0. PtlCounts
    BY <1>12
  <2>1. ASSUME NEW k \in P!Counters
        PROVE  pending'[k] = ct'[k] + Cardinality(CountedBy(k)') /\ pending'[k] <= issued'
    <3>0. IsFiniteSet(CountedBy(k)) /\ Cardinality(CountedBy(k)) \in Nat /\ ct[k] \in Nat
      BY PtlFinite DEF PtlTypes
    <3>1. CASE P!CounterOf(o) = k
      <4>1. CountedBy(k)' = CountedBy(k) \ {o} /\ o \in CountedBy(k)
        BY <1>1, <3>1 DEF CountedBy, P!CounterOf
      <4>2. Cardinality(CountedBy(k)') = Cardinality(CountedBy(k)) - 1
        BY <3>0, <4>1, ShrunkSet
      <4>3. ct'[k] = ct[k] + 1
        BY <1>1, <3>1 DEF PtlTypes
      <4> QED
        BY <1>2, <2>0, <3>0, <4>2, <4>3 DEF PtlCounts
    <3>2. CASE P!CounterOf(o) # k
      <4>1. CountedBy(k)' = CountedBy(k)
        BY <1>1, <3>2 DEF CountedBy, P!CounterOf
      <4>2. ct'[k] = ct[k]
        BY <1>1, <3>2 DEF PtlTypes
      <4> QED
        BY <1>2, <2>0, <4>1, <4>2 DEF PtlCounts
    <3> QED
      BY <3>1, <3>2
  <2>2. \A k : CountedBy(k) = {} => CountedBy(k)' = {}
    BY <1>1 DEF CountedBy, P!CounterOf
  <2>3. pc \in {"quiet_event", "quiet_put"} => CountedBy(<<req.ctx, "get">>)' = {}
    BY <1>2, <2>0, <2>2 DEF PtlCounts, CountedBy, P!CounterOf
  <2>4. pc = "quiet_put" => CountedBy(<<"event", "put">>)' = {}
    BY <2>0, <2>2 DEF PtlCounts
  <2> QED
    BY <1>1, <1>2, <1>3, <2>0, <2>1, <2>3, <2>4 DEF PtlCounts
<1>13. Early => PtlSource'
  BY <1>1, <1>2 DEF PtlSource
<1>14. Ordered => PtlFence'
  <2>1. Ordered => P!FenceOrders'
    BY <1>1 DEF PtlFence, P!FenceOrders
  <2> QED
    BY <1>1, <1>2, <2>1 DEF PtlFence
<1>15. PtlTable'
  BY <1>2, PtlTableKept
<1>16. (Early' <=> Early) /\ (Ordered' <=> Ordered)
  BY <1>2 DEF Early, Ordered
<1> QED
  BY <1>6, <1>7, <1>8, <1>11, <1>12, <1>13, <1>14, <1>15, <1>16
-----------------------------------------------------------------------------
(* Contexts.                                                               *)

(* A context is created, or the program crashes in the attempt. *)
LEMMA ctx_create_Inv ==
  ASSUME PtlInv, P!shmem_transport_ctx_create
  PROVE  PtlInv'
<1> USE DEF PtlInv
<1>0. /\ pc = "user" /\ pc' \in {"user", "crashed"} /\ build.contexts # "none"
      /\ build.contexts = "first" => issued = 0
      /\ ctxs' \subseteq ctxs \cup {"user"}
      /\ pending' = [pending EXCEPT ![<<P!Event, "put">>] = 0,
                                    ![<<P!User, "put">>] = 0, ![<<P!User, "get">>] = 0]
      /\ UNCHANGED <<build, event_slots, eq, frags, completion, ct, long_pending, flight, issued,
                     fenced, covered, pt_state, cts, req>>
  BY DEF P!shmem_transport_ctx_create, P!User, P!history, P!ptVars
<1>1. P!Frags' = P!Frags /\ P!Counters' = P!Counters
  BY <1>0 DEF P!Frags, P!Counters
<1>2. PtlTypes'
  <2>1. pending' \in [P!Counters -> Nat]
    BY <1>0 DEF PtlTypes, P!Counters
  <2>2. ctxs' \subseteq Ctxs
    BY <1>0 DEF PtlTypes, Ctxs
  <2> QED
    BY <1>0, <1>1, <2>1, <2>2 DEF PtlTypes, PtlPoints
<1>3. PtlControl'
  BY <1>0 DEF PtlControl, Sending, Quiets
<1>4. PtlFlight'
  BY <1>0, <1>1 DEF PtlFlight, OpSound
<1>5. Unsent' = Unsent
  BY <1>0 DEF Unsent
<1>6. PtlCalm
  BY <1>0, <1>5 DEF PtlCalm, Sending, PtlTypes
<1>7. PtlSlots' /\ PtlFrags'
  BY <1>6, PtlCalmKeeps
<1>8. ASSUME Early PROVE PtlCounts'
  <2>0. PtlCounts
    BY <1>8
  <2>1. issued = 0
    BY <1>0, <1>8, TransportsAssumption DEF Early, PtlTypes
  <2>2. \A k \in P!Counters : pending[k] = 0
    BY <2>0, <2>1 DEF PtlCounts, PtlTypes
  <2>3. \A k \in P!Counters : pending'[k] = 0
    BY <1>0, <2>2 DEF PtlTypes
  <2>4. \A k : CountedBy(k)' = CountedBy(k)
    BY <1>0 DEF CountedBy, P!CounterOf
  <2> QED
    BY <1>0, <1>1, <2>0, <2>2, <2>3, <2>4 DEF PtlCounts
<1>9. Early => PtlSource'
  BY <1>0 DEF PtlSource, Quiets
<1>10. Ordered => PtlFence'
  <2>1. Ordered => P!FenceOrders'
    BY <1>0 DEF PtlFence, P!FenceOrders
  <2> QED
    BY <1>0, <2>1 DEF PtlFence
<1>11. PtlTable'
  BY <1>0, PtlTableKept
<1>12. (Early' <=> Early) /\ (Ordered' <=> Ordered)
  BY <1>0 DEF Early, Ordered
<1> QED
  BY <1>2, <1>3, <1>4, <1>7, <1>8, <1>9, <1>10, <1>11, <1>12

(* A context is destroyed: nothing of it is in the network. *)
LEMMA ctx_destroy_Inv ==
  ASSUME PtlInv, P!shmem_transport_ctx_destroy
  PROVE  PtlInv'
<1> USE DEF PtlInv
<1>0. /\ pc = "destroy" /\ pc' = "user" /\ req' = P!NoReq /\ ctxs' \subseteq ctxs
      /\ pending' = [pending EXCEPT ![<<P!User, "put">>] = 0, ![<<P!User, "get">>] = 0]
      /\ ct' = [ct EXCEPT ![<<P!User, "put">>] = 0, ![<<P!User, "get">>] = 0]
      /\ UNCHANGED <<build, event_slots, eq, frags, completion, long_pending, flight, issued,
                     fenced, covered, pt_state, cts>>
  BY DEF P!shmem_transport_ctx_destroy, P!history, P!ptVars
<1>1. P!Frags' = P!Frags /\ P!Counters' = P!Counters
  BY <1>0 DEF P!Frags, P!Counters
<1>2. PtlTypes'
  <2>1. pending' \in [P!Counters -> Nat] /\ ct' \in [P!Counters -> Nat]
    BY <1>0 DEF PtlTypes, P!Counters
  <2>2. ctxs' \subseteq Ctxs
    BY <1>0 DEF PtlTypes
  <2> QED
    BY <1>0, <1>1, <2>1, <2>2, PtlNoReq DEF PtlTypes, PtlPoints
<1>3. PtlControl'
  BY <1>0 DEF PtlControl, Sending, Quiets
<1>4. PtlFlight'
  BY <1>0, <1>1 DEF PtlFlight, OpSound
<1>5. Unsent' = Unsent
  BY <1>0 DEF Unsent
<1>6. PtlCalm
  BY <1>0, <1>5 DEF PtlCalm, Sending, PtlTypes
<1>7. PtlSlots' /\ PtlFrags'
  BY <1>6, PtlCalmKeeps
<1>8. ASSUME Early PROVE PtlCounts'
  <2>0. PtlCounts /\ req.ctx = "user"
    BY <1>0, <1>8 DEF PtlControl
  <2>1. \A o \in flight : o.ctx # "user"
    BY <1>0, <2>0 DEF PtlCounts
  <2>2. \A k : CountedBy(k)' = CountedBy(k)
    BY <1>0 DEF CountedBy, P!CounterOf
  <2>3. CountedBy(<<"user", "put">>) = {} /\ CountedBy(<<"user", "get">>) = {}
    BY <2>1 DEF CountedBy, P!CounterOf, P!Event
  <2>4. ASSUME NEW k \in P!Counters
        PROVE  pending'[k] = ct'[k] + Cardinality(CountedBy(k)) /\ pending'[k] <= issued
    <3>1. CASE k \in {<<"user", "put">>, <<"user", "get">>}
      <4>1. pending'[k] = 0 /\ ct'[k] = 0
        BY <1>0, <3>1 DEF PtlTypes, P!User
      <4>2. Cardinality(CountedBy(k)) = 0
        BY <2>3, <3>1, FS_EmptySet
      <4> QED
        BY <4>1, <4>2 DEF PtlTypes
    <3>2. CASE k \notin {<<"user", "put">>, <<"user", "get">>}
      <4>1. pending'[k] = pending[k] /\ ct'[k] = ct[k]
        BY <1>0, <3>2 DEF PtlTypes, P!User
      <4> QED
        BY <2>0, <4>1 DEF PtlCounts
    <3> QED
      BY <3>1, <3>2
  <2> QED
    BY <1>0, <1>1, <2>0, <2>2, <2>4 DEF PtlCounts
<1>9. Early => PtlSource'
  BY <1>0 DEF PtlSource, Quiets
<1>10. Ordered => PtlFence'
  <2>1. Ordered => P!FenceOrders'
    BY <1>0 DEF PtlFence, P!FenceOrders
  <2> QED
    BY <1>0, <2>1, PtlNoReq DEF PtlFence
<1>11. PtlTable'
  BY <1>0, PtlTableKept
<1>12. (Early' <=> Early) /\ (Ordered' <=> Ordered)
  BY <1>0 DEF Early, Ordered
<1> QED
  BY <1>2, <1>3, <1>4, <1>7, <1>8, <1>9, <1>10, <1>11, <1>12
-----------------------------------------------------------------------------
(* Counters of the shmemx_ct interface.                                    *)

(* Where the search does not fail, it finds entries that are free. *)
LEMMA AttachesFree ==
  ASSUME ~ P!AttachFails
  PROVE  P!ct_attach \subseteq P!FreePTs /\ P!ct_attach \cap P!UsedPTs = {}
<1>0. P!FreePTs \subseteq Nat /\ IsFiniteSet(P!FreePTs)
  <2>1. IsFiniteSet(P!PTs)
    BY FS_Interval, 0 \in Int, 31 \in Int DEF P!PTs
  <2> QED
    BY <2>1, FS_Subset DEF P!FreePTs, P!PTs
<1>1. Cardinality(P!FreePTs) \in Nat /\ Cardinality(P!FreePTs) >= (IF build.rva THEN 1 ELSE 2)
  BY <1>0, FS_CardinalityType, PtlCardinalityIs DEF P!AttachFails
<1>2. PICK a : a = P!FirstFreePT({})
  OBVIOUS
<1>3. a \in P!FreePTs
  <2>1. P!FreePTs \ {} = P!FreePTs /\ P!FreePTs # {}
    BY <1>1, FS_EmptySet
  <2> QED
    BY <1>0, <1>2, <2>1, PtlMinIsLeast DEF P!FirstFreePT
<1>4. CASE build.rva
  BY <1>2, <1>3, <1>4 DEF P!ct_attach, P!AttachFails
<1>5. CASE ~ build.rva
  <2>1. PICK b : b = P!FirstFreePT({a})
    OBVIOUS
  <2>2. P!FreePTs \ {a} # {}
    BY <1>0, <1>1, <1>3, <1>5, ShrunkSet, FS_EmptySet
  <2>3. b \in P!FreePTs
    BY <1>0, <2>1, <2>2, PtlMinIsLeast DEF P!FirstFreePT
  <2> QED
    BY <1>2, <1>3, <1>5, <2>1, <2>3 DEF P!ct_attach, P!AttachFails
<1> QED
  BY <1>4, <1>5

(* Where entries are left, the search does not fail. *)
LEMMA EntryIsFound ==
  ASSUME PtlTable, build.rva \in BOOLEAN
  PROVE  P!EntryFound
<1>0. P!FreePTs \subseteq Nat /\ IsFiniteSet(P!FreePTs)
  <2>1. IsFiniteSet(P!PTs)
    BY FS_Interval, 0 \in Int, 31 \in Int DEF P!PTs
  <2> QED
    BY <2>1, FS_Subset DEF P!FreePTs, P!PTs
<1>1. P!FreePTs \cap UNION cts = {}
  BY DEF PtlTable, P!PtDisjoint, P!FreePTs
<1>2. PICK a : a = P!FirstFreePT({})
  OBVIOUS
<1>3. ASSUME P!FreePTs # {}
      PROVE  a \in P!FreePTs /\ \A k \in P!FreePTs : a <= k
  <2>1. P!FreePTs \ {} = P!FreePTs
    OBVIOUS
  <2> QED
    BY <1>0, <1>2, <1>3, <2>1, PtlMinIsLeast DEF P!FirstFreePT
<1>4. ASSUME build.rva, P!FreePTs # {}
      PROVE  ~ P!AttachFails
  <2>1. P!Cardinality(P!FreePTs) \in Nat /\ P!Cardinality(P!FreePTs) >= 1
    BY <1>0, <1>3, <1>4, ShrunkSet, PtlCardinalityIs
  <2>2. P!ct_attach = {a} /\ a \notin P!UsedPTs
    BY <1>2, <1>3, <1>4 DEF P!ct_attach, PtlTable, P!PtDisjoint
  <2> QED
    BY <1>4, <2>1, <2>2 DEF P!AttachFails
<1>5. ASSUME ~ build.rva, NEW k \in P!FreePTs, NEW l \in P!FreePTs, k < l, l < 8
      PROVE  ~ P!AttachFails
  <2>1. a \in P!FreePTs /\ a <= k /\ k \in Nat /\ l \in Nat /\ a \in Nat
    BY <1>0, <1>3, <1>5
  <2>2. l \in P!FreePTs \ {a}
    BY <1>5, <2>1
  <2>3. PICK b : b = P!FirstFreePT({a})
    OBVIOUS
  <2>4. b \in P!FreePTs \ {a} /\ b <= l /\ b \in Nat
    BY <1>0, <2>2, <2>3, PtlMinIsLeast DEF P!FirstFreePT
  <2>5. P!Cardinality(P!FreePTs) \in Nat /\ P!Cardinality(P!FreePTs) >= 2
    <3>1. /\ IsFiniteSet(P!FreePTs \ {a}) /\ Cardinality(P!FreePTs) \in Nat
          /\ Cardinality(P!FreePTs \ {a}) = Cardinality(P!FreePTs) - 1
      BY <1>0, <2>1, ShrunkSet
    <3>2. Cardinality(P!FreePTs \ {a}) \in Nat /\ Cardinality(P!FreePTs \ {a}) >= 1
      BY <2>2, <3>1, ShrunkSet
    <3> QED
      BY <3>1, <3>2, PtlCardinalityIs
  <2>6. P!ct_attach = {a, b}
    BY <1>2, <1>5, <2>3 DEF P!ct_attach
  <2>7. a < 8 /\ b < 8
    BY <1>5, <2>1, <2>4
  <2>8. {a, b} \cap P!UsedPTs = {}
    BY <1>1, <1>5, <2>1, <2>4, <2>7 DEF P!UsedPTs, P!SegmentPTs
  <2> QED
    BY <1>5, <2>5, <2>6, <2>8 DEF P!AttachFails
<1> QED
  BY <1>4, <1>5 DEF P!EntryFound

(* The drain for a slot frees the fragment in use only between two parts. *)
LEMMA DrainBetweenParts ==
  ASSUME PtlTypes, PtlControl, PtlFrags
  PROVE  P!DrainKeepsFrag
<1> SUFFICES ASSUME pc = "slot", eq # <<>>, P!TearsFrag
             PROVE  req.left > 0 /\ req.left < build.fragments
  BY DEF P!DrainKeepsFrag
<1>1. PICK f : f = req.frag
  OBVIOUS
<1>2. /\ Sending /\ req.kind = "atomicv" /\ f = eq[1] /\ f \in P!Frags
      /\ req.left \in Int /\ req.left >= 1 /\ req.left <= build.fragments
      /\ build.fragments \in Nat
  BY <1>1, PtlBuild DEF P!TearsFrag, Sending, PtlControl, PtlTypes, PtlReqs
<1>3. 1 \in EventsOf(f)
  BY <1>2 DEF EventsOf, PtlTypes
<1>4. frags[f].reference # 0
  BY <1>2, <1>3, PtlFreeIsUnused
<1>5. req.left # build.fragments
  BY <1>1, <1>2, <1>4 DEF PtlFrags
<1> QED
  BY <1>2, <1>5

(* A counter takes entries that nobody has, or there is none. *)
LEMMA ct_create_Table ==
  ASSUME PtlTable, P!shmem_transport_ct_create
  PROVE  PtlTable'
<1>0. build' = build
  BY DEF P!shmem_transport_ct_create
<1>1. CASE UNCHANGED <<pt_state, cts>>
  BY <1>0, <1>1, PtlTableKept
<1>2. CASE /\ ~ P!AttachFails /\ cts' = cts \cup {P!ct_attach}
           /\ pt_state' = [s \in P!PTs |-> IF s \in P!ct_attach THEN "allocated" ELSE pt_state[s]]
  <2>1. PICK c : c = P!ct_attach
    OBVIOUS
  <2>2. c \subseteq P!PTs /\ c \cap P!UsedPTs = {} /\ \A s \in c : pt_state[s] = "free"
    BY <1>2, <2>1, AttachesFree DEF P!FreePTs
  <2>3. /\ cts' = cts \cup {c}
        /\ pt_state' \in [P!PTs -> {"free", "allocated", "reserved"}]
        /\ \A s \in P!PTs : pt_state'[s] = IF s \in c THEN "allocated" ELSE pt_state[s]
    BY <1>2, <2>1 DEF PtlTable
  <2>4. P!PTs' = P!PTs /\ P!SegmentPTs' = P!SegmentPTs
    BY <1>0 DEF P!PTs, P!SegmentPTs
  <2>5. UNION cts' = (UNION cts) \cup c /\ c \cap UNION cts = {} /\ c \cap P!SegmentPTs = {}
    BY <2>2, <2>3 DEF P!UsedPTs
  <2>6. \A d, e \in cts' : d # e => d \cap e = {}
    BY <2>3, <2>5 DEF PtlTable, P!PtDisjoint
  <2>7. {s \in P!PTs : pt_state'[s] = "allocated"} = UNION cts'
    BY <2>2, <2>3, <2>5 DEF PtlTable, P!PtDisjoint
  <2>8. (UNION cts') \cap P!SegmentPTs = {}
    BY <2>5 DEF PtlTable, P!PtDisjoint
  <2>9. build.rva => P!FreePTs' \cap P!UsedPTs' = {}
    <3>1. P!FreePTs' = P!FreePTs \ c /\ P!UsedPTs' = P!UsedPTs \cup c
      BY <2>3, <2>4, <2>5 DEF P!FreePTs, P!UsedPTs
    <3> QED
      BY <3>1 DEF PtlTable, P!PtDisjoint
  <2> QED
    BY <1>0, <2>3, <2>4, <2>6, <2>7, <2>8, <2>9 DEF PtlTable, P!PtDisjoint
<1> QED
  BY <1>1, <1>2 DEF P!shmem_transport_ct_create, P!ptVars

(* A counter gives its entries back. *)
LEMMA ct_free_Table ==
  ASSUME PtlTable, P!shmem_transport_ct_free
  PROVE  PtlTable'
<1>0. build' = build
  BY DEF P!shmem_transport_ct_free
<1>1. PICK c \in cts :
         /\ cts' = cts \ {c}
         /\ pt_state' = [s \in P!PTs |-> IF s \in P!ct_free_pts(c) THEN "free" ELSE pt_state[s]]
  BY DEF P!shmem_transport_ct_free
<1>2. /\ pt_state' \in [P!PTs -> {"free", "allocated", "reserved"}]
      /\ \A s \in P!PTs : pt_state'[s] = IF s \in c THEN "free" ELSE pt_state[s]
  BY <1>1 DEF PtlTable, P!ct_free_pts
<1>3. P!PTs' = P!PTs /\ P!SegmentPTs' = P!SegmentPTs
  BY <1>0 DEF P!PTs, P!SegmentPTs
<1>4. /\ \A d \in cts : d # c => d \cap c = {}
      /\ UNION cts \subseteq P!PTs /\ c \subseteq UNION cts
  BY DEF PtlTable, P!PtDisjoint
<1>5. UNION cts' = (UNION cts) \ c
  BY <1>1, <1>4
<1>6. \A d, e \in cts' : d # e => d \cap e = {}
  BY <1>1 DEF PtlTable, P!PtDisjoint
<1>7. {s \in P!PTs : pt_state'[s] = "allocated"} = UNION cts'
  BY <1>2, <1>5 DEF PtlTable, P!PtDisjoint
<1>8. (UNION cts') \cap P!SegmentPTs = {}
  BY <1>5 DEF PtlTable, P!PtDisjoint
<1>9. build.rva => P!FreePTs' \cap P!UsedPTs' = {}
  <2>1. P!FreePTs' = P!FreePTs \cup c /\ P!UsedPTs' = P!UsedPTs \ c
    <3>1. c \cap P!SegmentPTs = {}
      BY <1>4 DEF PtlTable, P!PtDisjoint
    <3> QED
      BY <1>2, <1>3, <1>4, <1>5, <3>1 DEF P!FreePTs, P!UsedPTs
  <2> QED
    BY <2>1 DEF PtlTable, P!PtDisjoint
<1> QED
  BY <1>0, <1>2, <1>3, <1>6, <1>7, <1>8, <1>9 DEF PtlTable, P!PtDisjoint

(* Neither touches anything but the table, or else the program ends. *)
LEMMA ct_Inv ==
  ASSUME PtlInv, P!shmem_transport_ct_create \/ P!shmem_transport_ct_free
  PROVE  PtlInv'
<1> USE DEF PtlInv
<1>0. /\ pc = "user" /\ pc' \in {"user", "crashed"}
      /\ UNCHANGED <<build, ctxs, event_slots, eq, frags, completion, pending, ct, long_pending,
                     flight, issued, fenced, covered, req>>
  BY DEF P!shmem_transport_ct_create, P!shmem_transport_ct_free, P!history
<1>1. P!Frags' = P!Frags /\ P!Counters' = P!Counters
  BY <1>0 DEF P!Frags, P!Counters
<1>2. PtlTypes' /\ PtlControl' /\ PtlFlight'
  BY <1>0, <1>1 DEF PtlTypes, PtlPoints, PtlControl, Sending, Quiets, PtlFlight, OpSound
<1>3. Unsent' = Unsent /\ \A k : CountedBy(k)' = CountedBy(k)
  BY <1>0 DEF Unsent, CountedBy, P!CounterOf
<1>4. PtlCalm
  BY <1>0, <1>3 DEF PtlCalm, Sending, PtlTypes
<1>5. PtlSlots' /\ PtlFrags'
  BY <1>4, PtlCalmKeeps
<1>6. Early => PtlCounts' /\ PtlSource'
  BY <1>0, <1>1, <1>3 DEF PtlCounts, PtlSource, Quiets
<1>7. Ordered => PtlFence'
  <2>1. Ordered => P!FenceOrders'
    BY <1>0 DEF PtlFence, P!FenceOrders
  <2> QED
    BY <1>0, <2>1 DEF PtlFence
<1>8. (Early' <=> Early) /\ (Ordered' <=> Ordered)
  BY <1>0 DEF Early, Ordered
<1>9. PtlTable'
  BY ct_create_Table, ct_free_Table
<1> QED
  BY <1>2, <1>5, <1>6, <1>7, <1>8, <1>9
-----------------------------------------------------------------------------
(* The transport starts in the invariant, ... *)
LEMMA PtlInit ==
  ASSUME P!Init
  PROVE  PtlInv
<1> USE DEF P!Init
<1>0. /\ build \in Builds /\ build.slots \in Nat /\ build.cts \in Nat /\ build.rva \in BOOLEAN
      /\ build.fragments \in Nat /\ build.ops \in Nat
  BY PtlBuild
<1>1. PtlTypes
  <2>1. eq \in Seq(P!Frags) /\ event_slots \in Int /\ completion \in Int /\ issued \in Nat
    BY <1>0
  <2>2. frags \in [P!Frags -> PtlFrag]
    BY DEF PtlFrag
  <2>3. pending \in [P!Counters -> Nat] /\ ct \in [P!Counters -> Nat] /\ fenced \in [Ctxs -> Nat]
    BY DEF Ctxs, P!Default, P!User
  <2>4. flight \subseteq PtlOps /\ IsFiniteSet(flight)
    BY FS_EmptySet
  <2>5. pc \in PtlPoints /\ req \in PtlReqs /\ ctxs \subseteq Ctxs
    BY PtlNoReq DEF PtlPoints, Ctxs, P!Default
  <2> QED
    BY <1>0, <2>1, <2>2, <2>3, <2>4, <2>5 DEF PtlTypes
<1>2. PtlControl
  BY DEF PtlControl, Sending, Quiets
<1>3. PtlFlight
  BY DEF PtlFlight, Ctxs, P!Default, P!User
<1>4. Unsent = {} /\ Waited = {} /\ LongEvents = {} /\ InUse = {} /\ Cardinality({}) = 0
  <2>1. Unsent = {} /\ Waited = {}
    BY DEF Unsent, Waited
  <2>2. LongEvents = {}
    BY DEF LongEvents
  <2>3. InUse = {}
    BY DEF InUse
  <2> QED
    BY <2>1, <2>2, <2>3, FS_EmptySet
<1>5. PtlSlots
  BY <1>0, <1>4 DEF PtlSlots
<1>6. PtlFrags
  <2>1. ASSUME NEW f \in P!Frags PROVE FragSound(f)
    <3>1. UnsentOf(f) = {} /\ EventsOf(f) = {}
      BY <1>4 DEF UnsentOf, EventsOf
    <3> QED
      BY <1>4, <3>1 DEF FragSound, Holds, Sending
  <2> QED
    BY <1>4, <2>1 DEF PtlFrags, Sending
<1>7. PtlCounts
  <2>1. \A k : CountedBy(k) = {}
    BY DEF CountedBy
  <2>2. \A k \in P!Counters : pending[k] = 0 /\ ct[k] = 0
    OBVIOUS
  <2>3. ASSUME NEW k \in P!Counters
        PROVE  pending[k] = ct[k] + Cardinality(CountedBy(k)) /\ pending[k] <= issued
    <3>1. Cardinality(CountedBy(k)) = 0
      BY ONLY <1>4, <2>1
    <3>2. issued = 0
      OBVIOUS
    <3> QED
      BY ONLY <2>2, <3>1, <3>2, k \in P!Counters
  <2> QED
    BY <2>3 DEF PtlCounts
<1>8. PtlSource
  BY DEF PtlSource
<1>9. PtlFence
  BY PtlNoReq DEF PtlFence, P!FenceOrders, P!Default
<1>10. PtlTable
  <2>1. pt_state \in [P!PTs -> {"free", "allocated", "reserved"}]
    BY DEF P!PtInit
  <2>2. cts = {} /\ UNION cts = {}
    OBVIOUS
  <2>3. {s \in P!PTs : pt_state[s] = "allocated"} = {}
    BY DEF P!PtInit
  <2>4. build.rva => P!FreePTs \cap P!UsedPTs = {}
    BY <2>2 DEF P!FreePTs, P!UsedPTs, P!SegmentPTs, P!PtInit, P!Reserved
  <2> QED
    BY <2>1, <2>2, <2>3, <2>4 DEF PtlTable, P!PtDisjoint
<1> QED
  BY <1>1, <1>2, <1>3, <1>5, <1>6, <1>7, <1>8, <1>9, <1>10 DEF PtlInv

(* ... stays in it when nothing happens, ... *)
LEMMA PtlStutters ==
  ASSUME PtlInv, UNCHANGED P!vars
  PROVE  PtlInv'
<1>1. UNCHANGED <<build, ctxs, event_slots, eq, frags, completion, pending, ct, long_pending,
                  flight, issued, fenced, covered, pt_state, cts, pc, req>>
  BY DEF P!vars
<1>2. PtlMoves
  BY <1>1 DEF PtlMoves, PtlInv, PtlTypes
<1>3. PtlControl'
  <2>1. P!Frags' = P!Frags
    BY <1>1 DEF P!Frags
  <2> QED
    BY <1>1, <2>1 DEF PtlInv, PtlControl, Sending
<1>4. Early => PtlCounts'
  BY <1>1, <1>2, PtlMovesCounts DEF PtlInv, PtlCounts
<1>5. Early => PtlSource'
  BY <1>1 DEF PtlInv, PtlSource
<1>6. Ordered => PtlFence'
  BY <1>1, <1>2, PtlMovesFence DEF PtlInv
<1> QED
  BY <1>1, <1>2, <1>3, <1>4, <1>5, <1>6, PtlMovesInv DEF PtlInv, PtlTypes

(* ... with the calls of the user, ... *)
LEMMA OpStep_Inv ==
  ASSUME PtlInv, NEW c \in ctxs, P!OpStep(c)
  PROVE  PtlInv'
<1>1. CASE \/ P!shmem_transport_put_scalar(c) \/ P!shmem_transport_atomic(c)
           \/ P!shmem_transport_atomic_set(c)
  BY <1>1, put_scalar_Inv DEF P!shmem_transport_atomic, P!shmem_transport_atomic_set
<1>2. CASE P!shmem_transport_put_nbi(c)
  <2>1. CASE P!MayIssue /\ P!put_nbi_long(c, FALSE, "user", "user")
    BY <2>1, put_nbi_long_Inv DEF P!MayIssue
  <2> QED
    BY <1>2, <2>1, put_scalar_Inv DEF P!shmem_transport_put_nbi
<1>3. CASE P!shmem_transport_put_nb(c)
  BY <1>3, put_nb_Inv
<1>4. CASE P!shmem_transport_atomicv(c)
  BY <1>4, atomicv_Inv
<1>5. CASE \/ P!shmem_transport_get(c) \/ P!shmem_transport_swap(c) \/ P!shmem_transport_cswap(c)
           \/ P!shmem_transport_mswap(c) \/ P!shmem_transport_fetch_atomic(c)
  BY <1>5, get_Inv DEF P!shmem_transport_swap, P!shmem_transport_cswap,
     P!shmem_transport_mswap, P!shmem_transport_fetch_atomic
<1>6. CASE P!shmem_transport_put_signal_nbi(c)
  BY <1>6, put_signal_nbi_Inv
<1>7. CASE P!UserQuiet(c)
  <2>1. c \in ctxs \cup {"default"} /\ "user" \in {"user", "destroy", "fini"}
    OBVIOUS
  <2> QED
    BY <1>7, <2>1, StartQuiet_Inv DEF P!UserQuiet
<1>8. CASE P!UserFence(c)
  BY <1>8, StartWait_Inv DEF P!UserFence, P!MayIssue
<1>9. CASE P!UserGetWait(c)
  BY <1>9, StartWait_Inv DEF P!UserGetWait
<1> QED
  BY <1>1, <1>2, <1>3, <1>4, <1>5, <1>6, <1>7, <1>8, <1>9 DEF P!OpStep

(* ... and with every other step. *)
LEMMA PtlNext ==
  ASSUME PtlInv, P!Next
  PROVE  PtlInv'
<1>1. CASE \E c \in ctxs : P!OpStep(c)
  BY <1>1, OpStep_Inv
<1>2. CASE P!TakeSlot \/ P!IssueEvent \/ P!PutAgain
  BY <1>2, TakeSlot_Inv, IssueEvent_Inv, PutAgain_Inv
<1>3. CASE P!DrainForSlot
  BY <1>3, drain_Inv DEF P!DrainForSlot
<1>4. CASE P!shmem_transport_put_wait
  BY <1>4, put_wait_Inv
<1>5. CASE P!GetWaited \/ P!QuietGet \/ P!QuietEvent \/ P!QuietPut
  BY <1>5, GetWaited_Inv, QuietStep_Inv, QuietPut_Inv
<1>6. CASE P!shmem_transport_fence \/ P!FenceQuieted \/ P!FenceReturns \/ P!Signal
  BY <1>6, fence_Inv, FenceQuieted_Inv, FenceReturns_Inv, Signal_Inv
<1>7. CASE P!shmem_transport_ctx_create \/ P!shmem_transport_ctx_destroy
  BY <1>7, ctx_create_Inv, ctx_destroy_Inv
<1>8. CASE P!UserDestroy
  <2>1. /\ pc = "user" /\ P!StartQuiet("user", "destroy") /\ "user" \in ctxs \cup {"default"}
        /\ "destroy" \in {"user", "destroy", "fini"}
    BY <1>8 DEF P!UserDestroy, P!User
  <2> QED
    BY <2>1, StartQuiet_Inv
<1>9. CASE P!UserFini
  <2>1. /\ pc = "user" /\ P!StartQuiet("default", "fini") /\ "default" \in ctxs \cup {"default"}
        /\ "fini" \in {"user", "destroy", "fini"}
    BY <1>9 DEF P!UserFini, P!Default
  <2> QED
    BY <2>1, StartQuiet_Inv
<1>10. CASE P!shmem_transport_fini
  BY <1>10, fini_Inv
<1>11. CASE P!shmem_transport_ct_create \/ P!shmem_transport_ct_free
  BY <1>11, ct_Inv
<1>12. CASE P!NetSend \/ P!NetDeliver \/ P!NetAck
  BY <1>12, NetSend_Inv, NetDeliver_Inv, NetAck_Inv
<1>13. CASE P!Finished
  BY <1>13, PtlStutters DEF P!Finished
<1> QED
  BY <1>1, <1>2, <1>3, <1>4, <1>5, <1>6, <1>7, <1>8, <1>9, <1>10, <1>11, <1>12, <1>13 DEF P!Next

(* The invariant holds in every state of the transport. *)
LEMMA PtlInvariant == Spec => []PtlIndInv
<1>1. Init => PtlIndInv
  BY PtlInit DEF Init, PtlIndInv
<1>2. PtlIndInv /\ [Next]_vars => PtlIndInv'
  <2> SUFFICES ASSUME PtlIndInv, [Next]_vars, transport' = "portals4" PROVE PtlInv'
    BY DEF PtlIndInv
  <2>1. CASE UNCHANGED vars
    <3>1. UNCHANGED P!vars /\ transport = "portals4"
      BY <2>1 DEF vars, portals4Only, P!vars
    <3> QED
      BY <3>1, PtlStutters DEF PtlIndInv
  <2>2. CASE Next
    <3>1. transport = "portals4" /\ P!Next
      BY <2>2 DEF Next
    <3> QED
      BY <3>1, PtlNext DEF PtlIndInv
  <2> QED
    BY <2>1, <2>2
<1> QED
  BY <1>1, <1>2, PTL DEF Spec

(* With Portals 4, when quiet returns every operation of the context is       *)
(* complete at its target, through whichever descriptor it was issued, and    *)
(* when put_wait returns the source of a blocking put has been read           *)
(* (transport_portals4.h:262-278, 627-636); for any number of operations,     *)
(* event slots and fragments, in any order of the network, as long as no      *)
(* context is created while operations are out.  With UCX, what               *)
(* BlockingIsComplete says, always.                                           *)
THEOREM CompletionIsKept ==
  Spec => []((transport = "portals4" => Early) => CompletionKept)
<1>1. /\ PtlIndInv /\ (transport = "ucx" => UcxPromises)
      => ((transport = "portals4" => Early) => CompletionKept)
  <2> SUFFICES ASSUME PtlIndInv, transport = "ucx" => UcxPromises,
                      transport = "portals4" => Early
               PROVE  CompletionKept
    OBVIOUS
  <2>1. ASSUME transport = "portals4" PROVE P!QuietIsComplete /\ P!SourceReusable
    <3>1. PtlCounts /\ PtlSource
      BY <2>1 DEF PtlIndInv, PtlInv
    <3> QED
      BY <3>1 DEF PtlCounts, PtlSource, Quiets, P!QuietIsComplete, P!SourceReusable
  <2> QED
    BY <2>1 DEF CompletionKept, UcxPromises
<1> QED
  BY <1>1, PtlInvariant, UcxKeepsPromises, PTL

(* With Portals 4, no put or atomic issued after a fence, the signal of       *)
(* put_signal_nbi among them, arrives before one issued before the fence,     *)
(* whether the fence was a quiet or left it out because the network orders    *)
(* short messages (transport_portals4.h:298-313, 1104-1115); under the same   *)
(* conditions, and where the order of the network is used, with the default   *)
(* context only.  With UCX, who sees a signal sees its data.                  *)
THEOREM OrderIsKept ==
  Spec => []((transport = "portals4" => Ordered) => OrderKept)
<1>1. /\ PtlIndInv /\ (transport = "ucx" => UcxPromises)
      => ((transport = "portals4" => Ordered) => OrderKept)
  BY DEF PtlIndInv, PtlInv, PtlFence, OrderKept, UcxPromises
<1> QED
  BY <1>1, PtlInvariant, UcxKeepsPromises, PTL

(* With Portals 4, a slot of the event queue that is not free belongs to an   *)
(* event to come or in the queue, so that the queue never overflows, a        *)
(* fragment is out of its free list exactly as long as events for it are to   *)
(* come (transport_portals4.h:317-366), and portal table entries are given    *)
(* to one counter, none of them an entry of the transport itself; for any     *)
(* number of slots, parts and counters, up to the step in which an atomicv    *)
(* drains its own fragment into the free list or a counter finds no entry.    *)
(* The first happens only between two parts of an atomicv, the second only    *)
(* when no entry is left: without remote virtual addressing, when fewer than  *)
(* two are left in front of the heap's, which the table calls free.           *)
(* With UCX, no thread outside the library holds a request.                   *)
THEOREM ResourcesAreAccounted == Spec => []ResourcesAccounted
<1>1. PtlIndInv /\ (transport = "ucx" => UcxPromises) => ResourcesAccounted
  <2> SUFFICES ASSUME PtlIndInv, transport = "ucx" => UcxPromises
               PROVE  ResourcesAccounted
    OBVIOUS
  <2>1. ASSUME transport = "portals4"
        PROVE  /\ P!SlotsAccounted /\ P!FragsAccounted /\ P!PtDisjoint
               /\ P!EntryFound /\ P!DrainKeepsFrag
    <3>1. /\ PtlTypes /\ PtlControl /\ PtlSlots /\ PtlFrags
          /\ PtlTable /\ P!PtDisjoint
      BY <2>1 DEF PtlIndInv, PtlInv, PtlTable
    <3>2. P!SlotsAccounted
      BY <3>1, PtlCardinalityIs DEF PtlSlots, Unsent, P!SlotsAccounted
    <3>3. ASSUME NEW f \in P!Frags
          PROVE  LET events == P!Cardinality({n \in DOMAIN eq : eq[n] = f})
                               + P!Cardinality({o \in flight : o.md = "event" /\ ~ o.sent /\ o.frag = f})
                 IN  /\ frags[f].reference = events
                     /\ frags[f].free <=> events = 0 /\ ~ (pc \in {"slot", "issue"} /\ req.frag = f)
      <4>1. FragSound(f)
        BY <3>1 DEF PtlFrags
      <4>2. {n \in DOMAIN eq : eq[n] = f} = EventsOf(f)
        BY <3>1 DEF PtlTypes, EventsOf
      <4>3. {o \in flight : o.md = "event" /\ ~ o.sent /\ o.frag = f} = UnsentOf(f)
        BY DEF UnsentOf, Unsent
      <4> QED
        BY <4>1, <4>2, <4>3, PtlCardinalityIs DEF FragSound, Holds, Sending
    <3>4. P!FragsAccounted
      BY <3>3 DEF P!FragsAccounted
    <3>5. P!EntryFound
      BY <3>1, EntryIsFound, PtlBuild DEF PtlTypes
    <3>6. P!DrainKeepsFrag
      BY <3>1, DrainBetweenParts
    <3> QED
      BY <3>1, <3>2, <3>4, <3>5, <3>6
  <2> QED
    BY <2>1 DEF ResourcesAccounted, UcxPromises
<1> QED
  BY <1>1, PtlInvariant, UcxKeepsPromises, PTL

-----------------------------------------------------------------------------
(***************************************************************************)
(* The contexts of the OFI transport, for any number of                    *)
(* threads, contexts and shared transmit contexts (STX), both allocators,  *)
(* any growth of the table and any pattern of failed creations: the pool   *)
(* is accounted for and some STX can always be shared (StxSharing), and    *)
(* the table and the shutdown are clean (ContextsClean).                   *)
(*                                                                         *)
(* OfiInv is the inductive invariant.  PoolInv: the counts are the numbers *)
(* of holders, and the store is an injection from threads to the private   *)
(* STXs.  ObjectInv and CallInv: how far the destruction of an object has  *)
(* got follows from where its thread is, and a thread that works on an     *)
(* object does so alone (ThreadInv).  MutexInv: with SHMEM_THREAD_MULTIPLE *)
(* the mutex is held exactly inside the critical sections and by a         *)
(* creation that failed; without it one thread is inside the library.      *)
(* SlotsInv and HomesInv: the table and the identifiers of the objects     *)
(* agree.  DefaultInv: until the shutdown the default context holds STX 0  *)
(* and is not private, which is why a shared STX can always be found.      *)
(***************************************************************************)

(* The inductive invariant.                                                *)

Names  == {"put_cntr", "get_cntr", "cq", "ep", "bounce"}
Idle   == {"user", "create", "fini"}
Closing == {"close_ep", "stx_lock", "stx_unlock", "close_rest", "slot_lock"}
Busy   == Closing \cup {"slot_unlock", "destroyed"}
AnyCtx == [state : {"none", "live", "freed"}, id : Int, private : BOOLEAN,
           tid : Threads \cup {NoThread}, stx : Int, open : SUBSET Names, failed : BOOLEAN]
Stx    == [ref_cnt : Nat, is_private : BOOLEAN]

OfiTypes ==
  /\ multiple \in BOOLEAN
  /\ pool \in [DOMAIN pool -> Stx] /\ \E n \in Nat : DOMAIN pool = 0 .. n - 1
  /\ contexts \in [DOMAIN contexts -> O!Objects \cup {O!Null}]
  /\ \E n \in Nat : DOMAIN contexts = 0 .. n - 1
  /\ kvs \in [DOMAIN kvs -> DOMAIN pool] /\ DOMAIN kvs \subseteq Threads
  /\ ctx \in [O!Objects -> AnyCtx]
  /\ lock \in Threads \cup {NoThread}
  /\ pc \in [Threads -> Idle \cup Busy \cup {"created"}]
  /\ cur \in [Threads -> O!Objects \cup {O!Null}]
  /\ phase \in {"running", "team_fini", "fini", "down"}

(* The pool: the counts are right, and the store names the private STXs.   *)
PoolInv ==
  /\ O!StxAccounting
  /\ \A o \in O!Objects : ctx[o].stx \in DOMAIN pool \cup {O!Null}
  /\ \A s \in DOMAIN pool : pool[s].is_private <=> \E t \in DOMAIN kvs : kvs[t] = s
  /\ \A t, u \in DOMAIN kvs : kvs[t] = kvs[u] => t = u
  /\ \A t \in DOMAIN kvs : pool[kvs[t]].ref_cnt > 0
  /\ \A t \in DOMAIN kvs, o \in O!Objects : ctx[o].stx = kvs[t] => ctx[o].private /\ ctx[o].tid = t
  /\ \A o \in O!Objects : ctx[o].private /\ ctx[o].stx # O!Null =>
       ctx[o].tid \in DOMAIN kvs /\ kvs[ctx[o].tid] = ctx[o].stx

(* The life of an object. *)
ObjectInv ==
  \A o \in O!Objects :
    /\ ctx[o].state # "live" => ctx[o].stx = O!Null /\ ctx[o].open = {}
    /\ ctx[o].state = "live" => (ctx[o].id = O!Null <=> o = O!Default)
    /\ "put_cntr" \in ctx[o].open \/ ctx[o].stx = O!Null
DefaultInv ==
  /\ ctx[O!Default].state = "live" /\ ~ ctx[O!Default].failed /\ ~ ctx[O!Default].private
  /\ phase \in {"running", "team_fini"} =>
       /\ \A t \in Threads : cur[t] # O!Default
       /\ DOMAIN pool # {} => ctx[O!Default].stx = 0 /\ 0 \in DOMAIN pool

(* Where a thread is in a call, and on which object. *)
ThreadInv ==
  \A t \in Threads :
    /\ pc[t] \in Idle => cur[t] = O!Null
    /\ pc[t] \in Busy => cur[t] # O!Null
    /\ \A u \in Threads : u # t /\ cur[t] # O!Null => cur[t] # cur[u]
CreateInv ==
  \A t \in Threads : pc[t] = "create" => \E o \in O!Objects : ctx[o].state = "none"
ObjectOf(t) ==
  LET c == ctx[cur[t]] IN
    /\ c.state # "none" /\ (pc[t] # "destroyed" => c.state = "live")
    /\ pc[t] = "destroyed" /\ cur[t] # O!Default => c.state = "freed"
    /\ pc[t] = "stx_lock" => c.stx # O!Null
    /\ pc[t] \in {"stx_unlock", "close_rest", "slot_lock", "slot_unlock", "destroyed"} => c.stx = O!Null
    /\ pc[t] \in {"stx_lock", "stx_unlock", "close_rest"} => "ep" \notin c.open /\ "bounce" \notin c.open
    /\ pc[t] \in {"slot_lock", "slot_unlock", "destroyed"} => c.open = {}
    /\ pc[t] \in {"slot_lock", "slot_unlock"} => cur[t] # O!Default
    /\ pc[t] = "created" => ~ c.failed
SlotOf(t) ==
  LET c == ctx[cur[t]] IN
    /\ cur[t] # O!Default /\ pc[t] \in Closing \cup {"created"} =>
         contexts[c.id] = IF c.failed THEN O!Null ELSE cur[t]
    /\ pc[t] = "slot_unlock" => contexts[c.id] = O!Null
CallInv == \A t \in Threads : cur[t] # O!Null => ObjectOf(t) /\ SlotOf(t)

(* The mutex, and below MULTIPLE the rule that one thread is inside. *)
Critical(t) == pc[t] \in {"create", "created", "stx_unlock", "slot_unlock"}
               \/ (cur[t] # O!Null /\ ctx[cur[t]].failed)
MutexInv ==
  /\ multiple => \A t \in Threads :
       /\ lock = t <=> Critical(t)
       /\ cur[t] # O!Null /\ ctx[cur[t]].failed =>
            pc[t] \in {"close_ep", "stx_lock", "close_rest", "slot_lock"}
  /\ ~multiple => /\ lock = NoThread
                  /\ \A t, u \in Threads : t # u => pc[t] = "user" \/ pc[u] = "user"

(* The table. *)
SlotsInv ==
  \A k \in DOMAIN contexts : contexts[k] # O!Null =>
    ctx[contexts[k]].state = "live" /\ ctx[contexts[k]].id = k /\ ~ ctx[contexts[k]].failed
HomesInv ==
  \A o \in O!Objects : ctx[o].state = "live" /\ o # O!Default =>
    /\ ctx[o].id \in DOMAIN contexts
    /\ (\A t \in Threads : cur[t] # o) => contexts[ctx[o].id] = o

PhaseInv ==
  /\ phase = "running" => \A t \in Threads : pc[t] # "fini"
  /\ phase # "running" =>
       /\ \A t \in Threads \ {MainThread} : pc[t] = "user"
       /\ pc[MainThread] \in {"fini"} \cup Busy
       /\ cur[MainThread] # O!Null => ~ ctx[cur[MainThread]].failed
  /\ phase \in {"fini", "down"} =>
       /\ \A k \in DOMAIN contexts : contexts[k] = O!Null
       /\ cur[MainThread] \in {O!Null, O!Default}
  /\ phase = "down" => pc[MainThread] = "fini"

OfiInv ==
  /\ OfiTypes /\ PoolInv /\ ObjectInv /\ DefaultInv /\ ThreadInv /\ CreateInv /\ CallInv
  /\ MutexInv /\ SlotsInv /\ HomesInv /\ PhaseInv /\ O!FiniClean

-----------------------------------------------------------------------------
(* Lemmas on the operators.                                                *)

Below == OpToRel(<, Nat)
(* Min is the minimum. *)
LEMMA MinIsLeast ==
  ASSUME NEW S, S \subseteq Nat, S # {}
  PROVE  O!Min(S) \in S
<1>0. IsWellFoundedOn(Below, Nat)
  BY NatLessThanWellFounded DEF Below
<1>1. \A m, n \in Nat : m < n => <<m, n>> \in Below
  BY DEF Below, OpToRel
<1>2. PICK x \in S : \A y \in S : <<y, x>> \notin Below
  BY <1>0, WFMin
<1>3. ASSUME NEW y \in S PROVE x <= y
  <2>1. x \in Nat /\ y \in Nat /\ ~ (y < x)
    BY <1>1, <1>2
  <2> QED
    BY <2>1
<1> QED
  BY <1>3 DEF O!Min

(* The cardinality of the instance is the library's. *)
LEMMA CardinalityIs == \A S : O!Cardinality(S) = Cardinality(S)
  BY DEF O!Cardinality, Cardinality

(* The constants are distinct. *)
LEMMA Constants ==
  /\ MainThread \in Threads /\ NoThread \notin Threads
  /\ O!Default \in O!Objects /\ O!Null \notin O!Objects /\ O!Objects \subseteq Nat
  /\ O!Default = 0 /\ O!Null = -1
  BY TransportsAssumption DEF O!Default, O!Objects, O!Null

(* The fields of an object a step writes. *)
LEMMA CtxField ==
  ASSUME OfiTypes, NEW o \in O!Objects
  PROVE  /\ ctx[o] \in AnyCtx /\ ctx[o].open \subseteq Names
         /\ ctx[o].stx \in Int /\ ctx[o].id \in Int /\ ctx[o].tid \in Threads \cup {NoThread}
         /\ ctx[o].private \in BOOLEAN /\ ctx[o].failed \in BOOLEAN
         /\ ctx[o].state \in {"none", "live", "freed"}
<1>1. ctx[o] \in AnyCtx
  BY DEF OfiTypes
<1> QED
  BY <1>1 DEF AnyCtx

Same(o) ==
  /\ ctx'[o].id = ctx[o].id /\ ctx'[o].private = ctx[o].private
  /\ ctx'[o].tid = ctx[o].tid /\ ctx'[o].failed = ctx[o].failed
Elsewhere(o) == ctx' \in [O!Objects -> AnyCtx] /\ \A x \in O!Objects \ {o} : ctx'[x] = ctx[x]

(* Fabric objects are closed. *)
LEMMA OpenSet ==
  ASSUME OfiTypes, NEW o \in O!Objects, NEW S, ctx' = [ctx EXCEPT ![o].open = @ \ S]
  PROVE  /\ Elsewhere(o) /\ Same(o) /\ ctx'[o].stx = ctx[o].stx
         /\ ctx'[o].state = ctx[o].state /\ ctx'[o].open = ctx[o].open \ S
<1>1. ctx \in [O!Objects -> AnyCtx] /\ ctx[o] \in AnyCtx
  BY DEF OfiTypes
<1>2. [ctx[o] EXCEPT !.open = @ \ S] \in AnyCtx
  BY <1>1 DEF AnyCtx
<1>3. Elsewhere(o) /\ ctx'[o] = [ctx[o] EXCEPT !.open = @ \ S]
  BY <1>1, <1>2 DEF Elsewhere
<1> QED
  BY <1>1, <1>3 DEF AnyCtx, Same

(* The STX is given up. *)
LEMMA StxSet ==
  ASSUME OfiTypes, NEW o \in O!Objects, ctx' = [ctx EXCEPT ![o].stx = O!Null]
  PROVE  /\ Elsewhere(o) /\ Same(o) /\ ctx'[o].stx = O!Null
         /\ ctx'[o].state = ctx[o].state /\ ctx'[o].open = ctx[o].open
<1>1. ctx \in [O!Objects -> AnyCtx] /\ ctx[o] \in AnyCtx
  BY DEF OfiTypes
<1>2. [ctx[o] EXCEPT !.stx = O!Null] \in AnyCtx
  BY <1>1 DEF AnyCtx, O!Null
<1>3. Elsewhere(o) /\ ctx'[o] = [ctx[o] EXCEPT !.stx = O!Null]
  BY <1>1, <1>2 DEF Elsewhere
<1> QED
  BY <1>1, <1>3 DEF AnyCtx, Same

(* The object is freed. *)
LEMMA StateSet ==
  ASSUME OfiTypes, NEW o \in O!Objects, ctx' = [ctx EXCEPT ![o].state = "freed"]
  PROVE  /\ Elsewhere(o) /\ Same(o) /\ ctx'[o].stx = ctx[o].stx
         /\ ctx'[o].state = "freed" /\ ctx'[o].open = ctx[o].open
<1>1. ctx \in [O!Objects -> AnyCtx] /\ ctx[o] \in AnyCtx
  BY DEF OfiTypes
<1>2. [ctx[o] EXCEPT !.state = "freed"] \in AnyCtx
  BY <1>1 DEF AnyCtx
<1>3. Elsewhere(o) /\ ctx'[o] = [ctx[o] EXCEPT !.state = "freed"]
  BY <1>1, <1>2 DEF Elsewhere
<1> QED
  BY <1>1, <1>3 DEF AnyCtx, Same

(* A thread goes to a label, and takes or leaves an object. *)
Labels == Idle \cup Busy \cup {"created"}
Moves(t, l, o) ==
  /\ pc' \in [Threads -> Labels] /\ cur' \in [Threads -> O!Objects \cup {O!Null}]
  /\ pc'[t] = l /\ cur'[t] = o
  /\ \A u \in Threads \ {t} : pc'[u] = pc[u] /\ cur'[u] = cur[u]
(* Goto, with the object taken or left, is such a move. *)
LEMMA MovesTo ==
  ASSUME OfiTypes, NEW t \in Threads, NEW l \in Labels, NEW o \in O!Objects \cup {O!Null},
         O!Goto(t, l), cur' = [cur EXCEPT ![t] = o] \/ (cur' = cur /\ o = cur[t])
  PROVE  Moves(t, l, o)
  BY DEF OfiTypes, O!Goto, Labels, Moves

(* The pool does not change, and neither does what the objects hold. *)
LEMMA PoolFrame ==
  ASSUME OfiTypes, PoolInv, pool' = pool, kvs' = kvs,
         \A o \in O!Objects : /\ ctx'[o].stx = ctx[o].stx /\ ctx'[o].tid = ctx[o].tid
                              /\ ctx'[o].private = ctx[o].private
  PROVE  PoolInv'
<1>1. \A s : O!Holders(s)' = O!Holders(s)
  BY DEF O!Holders
<1> QED
  BY <1>1 DEF PoolInv, O!StxAccounting

(* The calls of the other threads. *)
LEMMA OthersFrame ==
  ASSUME OfiTypes, ThreadInv, CallInv, NEW t \in Threads, NEW l, NEW x, Moves(t, l, x),
         \A o \in O!Objects : o # cur[t] /\ ctx[o].state # "none" => ctx'[o] = ctx[o],
         \A u \in Threads \ {t} : cur[u] # O!Null /\ ctx[cur[u]].state = "live"
            /\ cur[u] # O!Default => contexts'[ctx[cur[u]].id] = contexts[ctx[cur[u]].id]
  PROVE  \A u \in Threads \ {t} : cur'[u] # O!Null => ObjectOf(u)' /\ SlotOf(u)'
<1> SUFFICES ASSUME NEW u \in Threads \ {t}, cur'[u] # O!Null PROVE ObjectOf(u)' /\ SlotOf(u)'
  OBVIOUS
<1>1. cur[u] \in O!Objects /\ cur[u] # cur[t] /\ cur'[u] = cur[u] /\ pc'[u] = pc[u]
  BY DEF Moves, ThreadInv, OfiTypes
<1>2. ObjectOf(u) /\ SlotOf(u)
  BY <1>1 DEF CallInv, Moves
<1>3. ctx'[cur[u]] = ctx[cur[u]]
  BY <1>1, <1>2 DEF ObjectOf
<1>4. ObjectOf(u)'
  BY <1>1, <1>2, <1>3 DEF ObjectOf
<1>5. pc[u] \in Closing \cup {"created", "slot_unlock"} => ctx[cur[u]].state = "live"
  BY <1>2 DEF ObjectOf, Closing
<1>6. SlotOf(u)'
  BY <1>1, <1>2, <1>3, <1>5 DEF SlotOf, ObjectOf
<1> QED
  BY <1>4, <1>6

(* The mutex after a step of one thread. *)
LEMMA MutexStep ==
  ASSUME OfiTypes, MutexInv, NEW t \in Threads, NEW l, NEW x, Moves(t, l, x), multiple' = multiple,
         \A u \in Threads \ {t} : cur[u] # O!Null => ctx'[cur[u]].failed = ctx[cur[u]].failed,
         multiple => /\ lock' = t <=> Critical(t)'
                     /\ \A u \in Threads \ {t} : lock' = u <=> lock = u
                     /\ x # O!Null /\ ctx'[x].failed =>
                          l \in {"close_ep", "stx_lock", "close_rest", "slot_lock"},
         ~multiple => lock' = lock /\ (l = "user" \/ pc[t] # "user" \/ \A u \in Threads : pc[u] = "user")
  PROVE  MutexInv'
<1>1. CASE multiple
  <2>1. \A u \in Threads \ {t} :
          /\ Critical(u)' <=> Critical(u)
          /\ cur'[u] = cur[u] /\ pc'[u] = pc[u]
    BY DEF Critical, Moves
  <2> QED
    BY <1>1, <2>1 DEF MutexInv, Moves
<1>2. CASE ~multiple
  BY <1>2 DEF MutexInv, Moves
<1> QED
  BY <1>1, <1>2

(* A step of a destruction that works on its own object only. *)
LEMMA OwnKeeps ==
  ASSUME OfiInv, NEW t \in Threads, NEW o \in O!Objects, o = cur[t], pc[t] \in Busy,
         NEW l \in Busy, Moves(t, l, o), Elsewhere(o), Same(o), ctx'[o].stx = ctx[o].stx,
         \/ ctx'[o].state = ctx[o].state
         \/ /\ pc[t] = "slot_unlock" /\ ctx'[o].state = "freed"
            /\ ctx'[o].open = {} /\ ctx'[o].stx = O!Null,
         ctx'[o].state # "live" => ctx'[o].open = {},
         "put_cntr" \in ctx'[o].open \/ ctx'[o].stx = O!Null,
         UNCHANGED <<multiple, pool, kvs, contexts, phase>>,
         ObjectOf(t)', SlotOf(t)', MutexInv', lock' \in Threads \cup {NoThread}
  PROVE  OfiInv'
<1> USE Constants
<1>1. /\ OfiTypes /\ PoolInv /\ ObjectInv /\ DefaultInv /\ ThreadInv /\ CreateInv /\ CallInv
      /\ SlotsInv /\ HomesInv /\ PhaseInv
  BY DEF OfiInv
<1>2. OfiTypes'
  BY <1>1 DEF OfiTypes, Moves, Elsewhere, Labels
<1>3. PoolInv'
  BY <1>1, PoolFrame DEF Same, Elsewhere
<1>4. ObjectOf(t) /\ SlotOf(t)
  BY <1>1 DEF CallInv
<1>5. ObjectInv'
  <2>1. ctx[o].state = "live" => (ctx[o].id = O!Null <=> o = O!Default)
    BY <1>1 DEF ObjectInv
  <2>2. ctx'[o].state # "live" => ctx'[o].stx = O!Null
    BY <1>1 DEF ObjectInv
  <2> QED
    BY <1>1, <2>1, <2>2 DEF ObjectInv, Same, Elsewhere
<1>6. pc[t] = "slot_unlock" => o # O!Default
  BY <1>4 DEF ObjectOf
<1>7. DefaultInv'
  BY <1>1, <1>6 DEF DefaultInv, Same, Elsewhere, Moves
<1>8. ThreadInv'
  BY <1>1 DEF ThreadInv, Moves, Idle, Busy, Closing, OfiTypes
<1>9. CreateInv'
  <2> SUFFICES ASSUME NEW u \in Threads, pc'[u] = "create"
               PROVE  \E x \in O!Objects : ctx'[x].state = "none"
    BY DEF CreateInv
  <2>1. pc[u] = "create"
    BY DEF Moves, Busy, Closing
  <2>2. PICK x \in O!Objects : ctx[x].state = "none"
    BY <1>1, <2>1 DEF CreateInv
  <2>3. x # o
    BY <1>4, <2>2 DEF ObjectOf
  <2> QED
    BY <2>2, <2>3 DEF Elsewhere
<1>10. CallInv'
  <2>1. \A u \in Threads \ {t} : cur'[u] # O!Null => ObjectOf(u)' /\ SlotOf(u)'
    BY <1>1, OthersFrame DEF Elsewhere
  <2> QED
    BY <2>1 DEF CallInv
<1>11. SlotsInv'
  <2> SUFFICES ASSUME NEW k \in DOMAIN contexts, contexts[k] # O!Null
               PROVE  /\ ctx'[contexts[k]].state = "live" /\ ctx'[contexts[k]].id = k
                      /\ ~ ctx'[contexts[k]].failed
    BY DEF SlotsInv
  <2>1. /\ contexts[k] \in O!Objects /\ ctx[contexts[k]].state = "live"
        /\ ctx[contexts[k]].id = k /\ ~ ctx[contexts[k]].failed
    BY <1>1 DEF SlotsInv, OfiTypes
  <2>2. CASE contexts[k] # o
    BY <2>1, <2>2 DEF Elsewhere
  <2>3. CASE contexts[k] = o
    <3>1. pc[t] # "slot_unlock"
      BY <1>4, <2>1, <2>3 DEF SlotOf
    <3> QED
      BY <2>1, <2>3, <3>1 DEF Same
  <2> QED
    BY <2>2, <2>3
<1>12. HomesInv'
  <2>1. \A x \in O!Objects : ctx'[x].state = "live" =>
          ctx[x].state = "live" /\ ctx'[x].id = ctx[x].id
    BY DEF Elsewhere, Same
  <2>2. \A u \in Threads : cur'[u] = cur[u]
    BY DEF Moves
  <2> QED
    BY <1>1, <2>1, <2>2 DEF HomesInv
<1>13. PhaseInv'
  BY <1>1 DEF PhaseInv, Moves, Same, Busy, Closing
<1>14. O!FiniClean'
  BY <1>1 DEF PhaseInv, O!FiniClean, Busy, Closing
<1> QED
  BY <1>2, <1>3, <1>5, <1>7, <1>8, <1>9, <1>10, <1>11, <1>12, <1>13, <1>14 DEF OfiInv

(* The endpoint is closed. *)
LEMMA CloseEpKeeps ==
  ASSUME OfiInv, NEW t \in Threads, O!CtxCloseEp(t) PROVE OfiInv'
<1> USE Constants
<1>1. OfiTypes /\ ObjectInv /\ ThreadInv /\ CallInv /\ MutexInv
  BY DEF OfiInv
<1>2. PICK o \in O!Objects : o = cur[t] /\ pc[t] = "close_ep" /\ ObjectOf(t) /\ SlotOf(t)
  BY <1>1 DEF O!CtxCloseEp, OfiTypes, ThreadInv, CallInv, Busy, Closing
<1>3. PICK l \in {"stx_lock", "close_rest"} :
        Moves(t, l, o) /\ (l = "stx_lock" <=> ctx[o].stx # O!Null)
  BY <1>1, <1>2, MovesTo DEF O!CtxCloseEp, Labels, Busy, Closing
<1>4. /\ Elsewhere(o) /\ Same(o) /\ ctx'[o].stx = ctx[o].stx
      /\ ctx'[o].state = ctx[o].state /\ ctx'[o].open = ctx[o].open \ {"ep", "bounce"}
  BY <1>1, <1>2, OpenSet DEF O!CtxCloseEp
<1>5. UNCHANGED <<multiple, pool, kvs, contexts, lock, phase>>
  BY DEF O!CtxCloseEp
<1>6. ObjectOf(t)'
  BY <1>2, <1>3, <1>4 DEF ObjectOf, Moves
<1>7. SlotOf(t)'
  BY <1>2, <1>3, <1>4, <1>5 DEF SlotOf, Moves, Same, Closing
<1>8. MutexInv'
  <2>1. \A u \in Threads : cur[u] # O!Null => ctx'[cur[u]].failed = ctx[cur[u]].failed
    BY <1>1, <1>2, <1>4 DEF OfiTypes, Same, Elsewhere
  <2>2. Critical(t)' <=> Critical(t)
    BY <1>2, <1>3, <2>1 DEF Critical, Moves
  <2> QED
    BY <1>1, <1>2, <1>3, <1>5, <2>1, <2>2, MutexStep DEF MutexInv
<1>9. "put_cntr" \in ctx'[o].open \/ ctx'[o].stx = O!Null
  BY <1>1, <1>4 DEF ObjectInv
<1>10. ctx'[o].state # "live" => ctx'[o].open = {}
  BY <1>1, <1>4 DEF ObjectInv
<1> QED
  BY <1>1, <1>2, <1>3, <1>4, <1>5, <1>6, <1>7, <1>8, <1>9, <1>10, OwnKeeps
     DEF Busy, Closing, OfiTypes

(* The mutex is left after the release of the STX. *)
LEMMA ReleaseUnlockKeeps ==
  ASSUME OfiInv, NEW t \in Threads, O!CtxReleaseUnlock(t) PROVE OfiInv'
<1> USE Constants
<1>1. OfiTypes /\ ObjectInv /\ ThreadInv /\ CallInv /\ MutexInv
  BY DEF OfiInv
<1>2. PICK o \in O!Objects : o = cur[t] /\ pc[t] = "stx_unlock" /\ ObjectOf(t) /\ SlotOf(t)
  BY <1>1 DEF O!CtxReleaseUnlock, OfiTypes, ThreadInv, CallInv, Busy, Closing
<1>3. Moves(t, "close_rest", o)
  BY <1>1, <1>2, MovesTo DEF O!CtxReleaseUnlock, Labels, Busy, Closing
<1>4. /\ ctx' = ctx /\ Elsewhere(o) /\ Same(o)
      /\ UNCHANGED <<multiple, pool, kvs, contexts, phase>>
  BY <1>1 DEF O!CtxReleaseUnlock, Elsewhere, Same, OfiTypes
<1>5. multiple => lock = t /\ ~ ctx[o].failed
  BY <1>1, <1>2 DEF MutexInv, Critical
<1>6. lock' = IF multiple THEN NoThread ELSE lock
  BY DEF O!CtxReleaseUnlock, O!MutexUnlock
<1>7. ObjectOf(t)' /\ SlotOf(t)'
  BY <1>2, <1>3, <1>4 DEF ObjectOf, SlotOf, Moves, Closing
<1>8. MutexInv'
  <2>1. multiple => ~ Critical(t)'
    BY <1>3, <1>4, <1>5 DEF Critical, Moves
  <2> QED
    BY <1>1, <1>2, <1>3, <1>4, <1>5, <1>6, <2>1, MutexStep DEF MutexInv
<1>9. ("put_cntr" \in ctx'[o].open \/ ctx'[o].stx = O!Null)
      /\ (ctx'[o].state # "live" => ctx'[o].open = {})
  BY <1>1, <1>4 DEF ObjectInv
<1> QED
  BY <1>1, <1>2, <1>3, <1>4, <1>6, <1>7, <1>8, <1>9, OwnKeeps DEF Busy, Closing, OfiTypes

(* The counters and the queue are closed. *)
LEMMA CloseRestKeeps ==
  ASSUME OfiInv, NEW t \in Threads, O!CtxCloseRest(t) PROVE OfiInv'
<1> USE Constants
<1>1. OfiTypes /\ ObjectInv /\ ThreadInv /\ CallInv /\ MutexInv
  BY DEF OfiInv
<1>2. PICK o \in O!Objects : o = cur[t] /\ pc[t] = "close_rest" /\ ObjectOf(t) /\ SlotOf(t)
  BY <1>1 DEF O!CtxCloseRest, OfiTypes, ThreadInv, CallInv, Busy, Closing
<1>3. /\ ctx[o].state = "live" /\ ctx[o].stx = O!Null /\ ctx[o].open \subseteq Names
      /\ "ep" \notin ctx[o].open /\ "bounce" \notin ctx[o].open
      /\ ctx[o].id = O!Null <=> o = O!Default
  BY <1>1, <1>2, CtxField DEF ObjectOf, ObjectInv
<1>4. PICK l \in {"slot_lock", "destroyed"} :
        Moves(t, l, o) /\ (l = "slot_lock" <=> o # O!Default)
  BY <1>1, <1>2, <1>3, MovesTo DEF O!CtxCloseRest, Labels, Busy, Closing
<1>5. /\ Elsewhere(o) /\ Same(o) /\ ctx'[o].stx = ctx[o].stx
      /\ ctx'[o].state = ctx[o].state
      /\ ctx'[o].open = ctx[o].open \ {"put_cntr", "get_cntr", "cq"}
  BY <1>1, <1>2, OpenSet DEF O!CtxCloseRest
<1>6. ctx'[o].open = {}
  BY <1>3, <1>5 DEF Names
<1>7. UNCHANGED <<multiple, pool, kvs, contexts, lock, phase>>
  BY DEF O!CtxCloseRest
<1>8. ObjectOf(t)'
  BY <1>3, <1>4, <1>5, <1>6 DEF ObjectOf, Moves
<1>9. SlotOf(t)'
  BY <1>2, <1>4, <1>5, <1>7 DEF SlotOf, Moves, Same, Closing
<1>10. ctx[o].failed => ~ multiple \/ l = "slot_lock"
  BY <1>4 DEF OfiInv, DefaultInv
<1>11. MutexInv'
  <2>1. \A u \in Threads : cur[u] # O!Null => ctx'[cur[u]].failed = ctx[cur[u]].failed
    BY <1>1, <1>2, <1>5 DEF OfiTypes, Same, Elsewhere
  <2>2. Critical(t)' <=> Critical(t)
    BY <1>2, <1>4, <2>1 DEF Critical, Moves
  <2>3. ctx'[o].failed = ctx[o].failed
    BY <1>5 DEF Same
  <2> QED
    BY <1>1, <1>2, <1>4, <1>7, <1>10, <2>1, <2>2, <2>3, MutexStep DEF MutexInv
<1> QED
  BY <1>1, <1>2, <1>3, <1>4, <1>5, <1>6, <1>7, <1>8, <1>9, <1>11, OwnKeeps
     DEF Busy, Closing, OfiTypes

(* The object is freed and the mutex left. *)
LEMMA FreeKeeps ==
  ASSUME OfiInv, NEW t \in Threads, O!CtxFree(t) PROVE OfiInv'
<1> USE Constants
<1>1. OfiTypes /\ ObjectInv /\ ThreadInv /\ CallInv /\ MutexInv
  BY DEF OfiInv
<1>2. PICK o \in O!Objects : o = cur[t] /\ pc[t] = "slot_unlock" /\ ObjectOf(t) /\ SlotOf(t)
  BY <1>1 DEF O!CtxFree, OfiTypes, ThreadInv, CallInv, Busy, Closing
<1>3. Moves(t, "destroyed", o)
  BY <1>1, <1>2, MovesTo DEF O!CtxFree, Labels, Busy, Closing
<1>4. /\ Elsewhere(o) /\ Same(o) /\ ctx'[o].stx = ctx[o].stx
      /\ ctx'[o].state = "freed" /\ ctx'[o].open = ctx[o].open
  BY <1>1, <1>2, StateSet DEF O!CtxFree
<1>5. UNCHANGED <<multiple, pool, kvs, contexts, phase>>
  BY DEF O!CtxFree
<1>6. ctx[o].stx = O!Null /\ ctx[o].open = {}
  BY <1>2 DEF ObjectOf
<1>7. multiple => lock = t /\ ~ ctx[o].failed
  BY <1>1, <1>2 DEF MutexInv, Critical
<1>8. lock' = IF multiple THEN NoThread ELSE lock
  BY DEF O!CtxFree, O!MutexUnlock
<1>9. ObjectOf(t)' /\ SlotOf(t)'
  BY <1>3, <1>4, <1>6 DEF ObjectOf, SlotOf, Moves, Closing
<1>10. MutexInv'
  <2>1. \A u \in Threads : cur[u] # O!Null => ctx'[cur[u]].failed = ctx[cur[u]].failed
    BY <1>1, <1>2, <1>4 DEF OfiTypes, Same, Elsewhere
  <2>2. multiple => ~ Critical(t)'
    BY <1>2, <1>3, <1>7, <2>1 DEF Critical, Moves
  <2>3. ctx'[o].failed = ctx[o].failed
    BY <1>4 DEF Same
  <2> QED
    BY <1>1, <1>2, <1>3, <1>5, <1>7, <1>8, <2>1, <2>2, <2>3, MutexStep DEF MutexInv
<1> QED
  BY <1>1, <1>2, <1>3, <1>4, <1>5, <1>6, <1>8, <1>9, <1>10, OwnKeeps
     DEF Busy, Closing, OfiTypes

(* A step that changes no object and no table: a call begins or ends. *)
LEMMA CallKeeps ==
  ASSUME OfiInv, NEW t \in Threads, NEW l, NEW x, Moves(t, l, x),
         UNCHANGED <<multiple, pool, kvs, contexts, ctx>>,
         phase' \in {"running", "team_fini", "fini"}, lock' \in Threads \cup {NoThread},
         x # O!Null => ObjectOf(t)' /\ SlotOf(t)',
         DefaultInv', ThreadInv', CreateInv', MutexInv', HomesInv', PhaseInv'
  PROVE  OfiInv'
<1> USE Constants
<1>1. OfiTypes /\ PoolInv /\ ObjectInv /\ ThreadInv /\ CallInv /\ SlotsInv
  BY DEF OfiInv
<1>2. OfiTypes'
  BY <1>1 DEF OfiTypes, Moves, Labels
<1>3. PoolInv'
  BY <1>1, PoolFrame
<1>4. ObjectInv' /\ SlotsInv'
  BY <1>1 DEF ObjectInv, SlotsInv
<1>5. CallInv'
  <2>1. \A u \in Threads \ {t} : cur'[u] # O!Null => ObjectOf(u)' /\ SlotOf(u)'
    BY <1>1, OthersFrame
  <2> QED
    BY <2>1 DEF CallInv, Moves
<1>6. O!FiniClean'
  BY DEF O!FiniClean
<1> QED
  BY <1>2, <1>3, <1>4, <1>5, <1>6 DEF OfiInv

(* A creation takes the mutex. *)
LEMMA CreateLockKeeps ==
  ASSUME OfiInv, NEW t \in Threads, O!CtxCreateLock(t) PROVE OfiInv'
<1> USE Constants
<1>1. /\ OfiTypes /\ DefaultInv /\ ThreadInv /\ CreateInv /\ MutexInv /\ HomesInv /\ PhaseInv
  BY DEF OfiInv
<1>2. /\ phase = "running" /\ pc[t] = "user" /\ (multiple \/ \A u \in Threads : pc[u] = "user")
      /\ (\E o \in O!Objects : ctx[o].state = "none")
      /\ UNCHANGED <<multiple, pool, kvs, contexts, ctx, cur, phase>>
  BY DEF O!CtxCreateLock, O!MayEnter
<1>3. cur[t] = O!Null
  BY <1>1, <1>2 DEF ThreadInv, Idle
<1>4. Moves(t, "create", O!Null)
  BY <1>1, <1>2, <1>3, MovesTo DEF O!CtxCreateLock, Labels, Idle
<1>5. IF multiple THEN lock = NoThread /\ lock' = t ELSE lock' = lock
  BY DEF O!CtxCreateLock, O!MutexLock
<1>6. MutexInv'
  <2>1. Critical(t)'
    BY <1>4 DEF Critical, Moves
  <2> QED
    BY <1>1, <1>2, <1>4, <1>5, <2>1, MutexStep DEF MutexInv
<1>7. ThreadInv' /\ CreateInv' /\ DefaultInv' /\ HomesInv' /\ PhaseInv'
  <2>1. ThreadInv'
    BY <1>1, <1>2, <1>3, <1>4 DEF ThreadInv, Moves, Idle, Busy, Closing
  <2>2. CreateInv' /\ DefaultInv' /\ HomesInv'
    BY <1>1, <1>2 DEF CreateInv, DefaultInv, HomesInv
  <2>3. PhaseInv'
    BY <1>1, <1>2, <1>4 DEF PhaseInv, Moves
  <2> QED
    BY <2>1, <2>2, <2>3
<1> QED
  BY <1>1, <1>2, <1>4, <1>5, <1>6, <1>7, CallKeeps DEF OfiTypes

(* A creation returns. *)
LEMMA CreateUnlockKeeps ==
  ASSUME OfiInv, NEW t \in Threads, O!CtxCreateUnlock(t) PROVE OfiInv'
<1> USE Constants
<1>1. /\ OfiTypes /\ DefaultInv /\ ThreadInv /\ CreateInv /\ MutexInv /\ HomesInv /\ PhaseInv
      /\ CallInv
  BY DEF OfiInv
<1>2. pc[t] = "created" /\ UNCHANGED <<multiple, pool, kvs, contexts, ctx, phase>>
  BY DEF O!CtxCreateUnlock
<1>3. phase = "running"
  BY <1>1, <1>2 DEF PhaseInv, Busy, Closing
<1>4. Moves(t, "user", O!Null)
  BY <1>1, MovesTo DEF O!CtxCreateUnlock, Labels, Idle
<1>5. lock' = IF multiple THEN NoThread ELSE lock
  BY DEF O!CtxCreateUnlock, O!MutexUnlock
<1>6. MutexInv'
  <2>1. ~ Critical(t)'
    BY <1>4 DEF Critical, Moves
  <2>2. multiple => lock = t
    BY <1>1, <1>2 DEF MutexInv, Critical
  <2> QED
    BY <1>1, <1>2, <1>4, <1>5, <2>1, <2>2, MutexStep
<1>7. ThreadInv'
  BY <1>1, <1>4 DEF ThreadInv, Moves, Idle, Busy, Closing
<1>8. CreateInv' /\ DefaultInv'
  BY <1>1, <1>2, <1>4 DEF CreateInv, DefaultInv, Moves
<1>9. PhaseInv'
  BY <1>2, <1>3, <1>1, <1>4 DEF PhaseInv, Moves
<1>10. HomesInv'
  <2>1. cur[t] # O!Null => contexts[ctx[cur[t]].id] = cur[t]
    BY <1>1, <1>2, <1>3 DEF CallInv, ObjectOf, SlotOf, DefaultInv
  <2>2. ASSUME NEW o \in O!Objects, ctx[o].state = "live", o # O!Default,
               \A u \in Threads : cur'[u] # o
        PROVE  contexts[ctx[o].id] = o
    <3>1. CASE o = cur[t]
      BY <2>1, <3>1
    <3>2. CASE o # cur[t]
      BY <1>1, <1>4, <2>2, <3>2 DEF HomesInv, Moves
    <3> QED
      BY <3>1, <3>2
  <2> QED
    BY <1>1, <1>2, <2>2 DEF HomesInv
<1> QED
  BY <1>1, <1>2, <1>3, <1>4, <1>5, <1>6, <1>7, <1>8, <1>9, <1>10, CallKeeps DEF OfiTypes

(* A thread, or the shutdown, begins the destruction of an object that is  *)
(* in the table.                                                           *)
LEMMA BeginDestroy ==
  ASSUME OfiInv, NEW t \in Threads, pc[t] \in {"user", "fini"},
         NEW k \in DOMAIN contexts, contexts[k] # O!Null, \A u \in Threads : cur[u] # contexts[k],
         Moves(t, "close_ep", contexts[k]),
         multiple \/ \A u \in Threads \ {t} : pc[u] = "user",
         phase = IF pc[t] = "user" THEN "running" ELSE "team_fini",
         UNCHANGED <<multiple, pool, kvs, contexts, ctx, lock, phase>>
  PROVE  OfiInv'
<1> USE Constants
<1>1. /\ OfiTypes /\ DefaultInv /\ ThreadInv /\ CreateInv /\ MutexInv /\ HomesInv /\ PhaseInv
      /\ SlotsInv /\ ObjectInv
  BY DEF OfiInv
<1>2. PICK o \in O!Objects : o = contexts[k]
  BY <1>1 DEF OfiTypes
<1>3. ctx[o].state = "live" /\ ctx[o].id = k /\ ~ ctx[o].failed
  BY <1>1, <1>2 DEF SlotsInv
<1>4. o # O!Default
  <2>1. k # O!Null
    BY <1>1 DEF OfiTypes
  <2> QED
    BY <1>1, <1>2, <1>3, <2>1 DEF ObjectInv
<1>5. ObjectOf(t)' /\ SlotOf(t)'
  BY <1>2, <1>3 DEF ObjectOf, SlotOf, Moves, Closing
<1>6. cur[t] = O!Null
  BY <1>1 DEF ThreadInv, Idle
<1>7. MutexInv'
  <2>1. ~ Critical(t)' /\ ~ Critical(t)
    BY <1>2, <1>3, <1>6 DEF Critical, Moves
  <2> QED
    BY <1>1, <1>2, <1>3, <2>1, MutexStep DEF MutexInv
<1>8. ThreadInv'
  BY <1>1, <1>2, <1>6 DEF ThreadInv, Moves, Idle, Busy, Closing
<1>9. CreateInv' /\ DefaultInv'
  BY <1>1, <1>2, <1>4 DEF CreateInv, DefaultInv, Moves
<1>10. HomesInv'
  <2>1. \A x \in O!Objects : (\A u \in Threads : cur'[u] # x) => \A u \in Threads : cur[u] # x
    BY <1>6 DEF Moves
  <2> QED
    BY <1>1, <2>1 DEF HomesInv
<1>11. PhaseInv'
  BY <1>1, <1>2, <1>3 DEF PhaseInv, Moves, Busy, Closing
<1> QED
  BY <1>1, <1>2, <1>5, <1>7, <1>8, <1>9, <1>10, <1>11, CallKeeps DEF OfiTypes

(* A thread calls shmem_ctx_destroy. *)
LEMMA DestroyKeeps ==
  ASSUME OfiInv, NEW t \in Threads, O!CtxDestroy(t) PROVE OfiInv'
<1>1. OfiTypes
  BY DEF OfiInv
<1>2. PICK k \in DOMAIN contexts :
        /\ contexts[k] # O!Null /\ \A u \in Threads : cur[u] # contexts[k]
        /\ cur' = [cur EXCEPT ![t] = contexts[k]]
  BY DEF O!CtxDestroy
<1>3. Moves(t, "close_ep", contexts[k])
  BY <1>1, <1>2, MovesTo DEF O!CtxDestroy, Labels, Busy, Closing, OfiTypes
<1> QED
  BY <1>2, <1>3, BeginDestroy DEF O!CtxDestroy, O!MayEnter

(* A destruction returns to its caller. *)
LEMMA DestroyedKeeps ==
  ASSUME OfiInv, NEW t \in Threads, O!CtxDestroyed(t) PROVE OfiInv'
<1> USE Constants
<1>1. /\ OfiTypes /\ DefaultInv /\ ThreadInv /\ CreateInv /\ MutexInv /\ HomesInv /\ PhaseInv
      /\ CallInv
  BY DEF OfiInv
<1>2. PICK o \in O!Objects : o = cur[t] /\ pc[t] = "destroyed" /\ ObjectOf(t)
  BY <1>1 DEF O!CtxDestroyed, OfiTypes, ThreadInv, CallInv, Busy
<1>3. PICK l \in {"created", "user", "fini"} :
        /\ Moves(t, l, O!Null)
        /\ l = "created" <=> ctx[o].failed
        /\ l = "user" => phase = "running"
        /\ l = "fini" => phase # "running"
  BY <1>1, <1>2, MovesTo DEF O!CtxDestroyed, Labels, Idle
<1>4. UNCHANGED <<multiple, pool, kvs, contexts, ctx, lock, phase>>
  BY DEF O!CtxDestroyed
<1>5. multiple => ~ ctx[o].failed
  BY <1>1, <1>2 DEF MutexInv
<1>6. phase # "running" => t = MainThread /\ ~ ctx[o].failed
  BY <1>1, <1>2 DEF PhaseInv
<1>7. MutexInv'
  <2>1. multiple => ~ Critical(t)' /\ ~ Critical(t)
    BY <1>2, <1>3, <1>5 DEF Critical, Moves
  <2> QED
    BY <1>1, <1>2, <1>3, <1>4, <2>1, MutexStep DEF MutexInv
<1>8. ThreadInv'
  BY <1>1, <1>3 DEF ThreadInv, Moves, Idle, Busy, Closing
<1>9. CreateInv' /\ DefaultInv'
  BY <1>1, <1>3, <1>4 DEF CreateInv, DefaultInv, Moves
<1>10. HomesInv'
  <2>1. ctx[o].state = "live" => o = O!Default
    BY <1>2 DEF ObjectOf
  <2>2. \A x \in O!Objects \ {o} : (\A u \in Threads : cur'[u] # x) => \A u \in Threads : cur[u] # x
    BY <1>2, <1>3 DEF Moves
  <2> QED
    BY <1>1, <1>4, <2>1, <2>2 DEF HomesInv
<1>11. PhaseInv'
  BY <1>1, <1>2, <1>3, <1>4, <1>6 DEF PhaseInv, Moves
<1>12. phase # "down"
  BY <1>1, <1>2 DEF PhaseInv
<1> QED
  BY <1>1, <1>3, <1>4, <1>7, <1>8, <1>9, <1>10, <1>11, <1>12, CallKeeps DEF OfiTypes

(* The shutdown begins when every thread is outside the library. *)
LEMMA FiniStartKeeps == ASSUME OfiInv, O!FiniStart PROVE OfiInv'
<1> USE Constants
<1>1. /\ OfiTypes /\ DefaultInv /\ ThreadInv /\ CreateInv /\ MutexInv /\ HomesInv /\ PhaseInv
  BY DEF OfiInv
<1>2. /\ \A u \in Threads : pc[u] = "user"
      /\ phase = "running" /\ phase' = "team_fini"
      /\ UNCHANGED <<multiple, pool, kvs, contexts, ctx, lock, cur>>
  BY DEF O!FiniStart
<1>3. \A u \in Threads : cur[u] = O!Null
  BY <1>1, <1>2 DEF ThreadInv, Idle
<1>4. Moves(MainThread, "fini", O!Null)
  BY <1>1, <1>2, <1>3, MovesTo DEF O!FiniStart, Labels, Idle
<1>5. MutexInv'
  <2>1. ~ Critical(MainThread)' /\ ~ Critical(MainThread)
    BY <1>2, <1>3, <1>4 DEF Critical, Moves
  <2> QED
    BY <1>1, <1>2, <1>4, <2>1, MutexStep DEF MutexInv
<1>6. ThreadInv' /\ CreateInv'
  BY <1>1, <1>2, <1>3, <1>4 DEF ThreadInv, CreateInv, Moves, Idle, Busy, Closing
<1>7. DefaultInv' /\ HomesInv'
  BY <1>1, <1>2 DEF DefaultInv, HomesInv
<1>8. PhaseInv'
  BY <1>2, <1>3, <1>4 DEF PhaseInv, Moves
<1> QED
  BY <1>1, <1>2, <1>4, <1>5, <1>6, <1>7, <1>8, CallKeeps DEF OfiTypes

(* The destruction of the world team takes the next context of its table. *)
LEMMA TeamFiniKeeps == ASSUME OfiInv, O!TeamFini PROVE OfiInv'
<1> USE Constants
<1>1. /\ OfiTypes /\ DefaultInv /\ ThreadInv /\ CreateInv /\ MutexInv /\ HomesInv /\ PhaseInv
  BY DEF OfiInv
<1>2. /\ phase = "team_fini" /\ pc[MainThread] = "fini"
      /\ UNCHANGED <<multiple, pool, kvs, contexts, ctx, lock>>
  BY DEF O!TeamFini
<1>3. \A u \in Threads : cur[u] = O!Null /\ (u # MainThread => pc[u] = "user")
  BY <1>1, <1>2 DEF ThreadInv, PhaseInv, Idle
<1>4. CASE O!Undestroyed # {}
  <2>1. O!Undestroyed \subseteq DOMAIN contexts /\ DOMAIN contexts \subseteq Nat
    BY <1>1 DEF O!Undestroyed, OfiTypes
  <2>2. O!Min(O!Undestroyed) \in O!Undestroyed
    BY <1>4, <2>1, MinIsLeast
  <2>3. PICK k \in DOMAIN contexts : k = O!Min(O!Undestroyed) /\ contexts[k] # O!Null
    BY <2>1, <2>2 DEF O!Undestroyed
  <2>4. contexts[k] \in O!Objects
    BY <1>1, <2>3 DEF OfiTypes
  <2>5. Moves(MainThread, "close_ep", contexts[k])
    BY <1>1, <1>4, <2>3, <2>4, MovesTo DEF O!TeamFini, Labels, Busy, Closing
  <2>6. UNCHANGED phase
    BY <1>4 DEF O!TeamFini
  <2> QED
    BY <1>2, <1>3, <2>3, <2>4, <2>5, <2>6, BeginDestroy
<1>5. CASE O!Undestroyed = {}
  <2>1. phase' = "fini" /\ UNCHANGED <<cur, pc>> /\ \A k \in DOMAIN contexts : contexts[k] = O!Null
    BY <1>5 DEF O!TeamFini, O!Undestroyed
  <2>2. Moves(MainThread, "fini", O!Null)
    BY <1>1, <1>2, <1>3, <2>1 DEF Moves, OfiTypes, Labels
  <2>3. MutexInv' /\ ThreadInv' /\ CreateInv' /\ HomesInv'
    BY <1>1, <1>2, <2>1 DEF MutexInv, Critical, ThreadInv, CreateInv, HomesInv
  <2>4. DefaultInv' /\ PhaseInv'
    BY <1>1, <1>2, <1>3, <2>1 DEF DefaultInv, PhaseInv
  <2> QED
    BY <1>1, <1>2, <2>1, <2>2, <2>3, <2>4, CallKeeps DEF OfiTypes
<1> QED
  BY <1>4, <1>5

(* When the table is empty and the default context closed, all is. *)
LEMMA CleanAtEnd ==
  ASSUME OfiInv, phase = "fini", pc[MainThread] = "fini", ctx[O!Default].open = {}
  PROVE  /\ \A s \in DOMAIN pool : pool[s] = [ref_cnt |-> 0, is_private |-> FALSE]
         /\ kvs = [t \in {} |-> O!Null]
         /\ \A o \in O!Objects : ctx[o].open = {}
<1> USE Constants
<1>1. OfiTypes /\ PoolInv /\ ObjectInv /\ ThreadInv /\ HomesInv /\ PhaseInv
  BY DEF OfiInv
<1>2. \A u \in Threads : cur[u] = O!Null
  BY <1>1 DEF ThreadInv, PhaseInv, Idle
<1>3. \A o \in O!Objects : ctx[o].open = {} /\ ctx[o].stx = O!Null
  <2> SUFFICES ASSUME NEW o \in O!Objects PROVE ctx[o].open = {} /\ ctx[o].stx = O!Null
    OBVIOUS
  <2>1. CASE o = O!Default
    BY <1>1, <2>1 DEF ObjectInv
  <2>2. CASE o # O!Default
    <3>1. ctx[o].state # "live"
      <4> SUFFICES ASSUME ctx[o].state = "live" PROVE FALSE
        OBVIOUS
      <4>1. ctx[o].id \in DOMAIN contexts /\ contexts[ctx[o].id] = o
        BY <1>1, <1>2, <2>2 DEF HomesInv
      <4> QED
        BY <1>1, <4>1 DEF PhaseInv
    <3> QED
      BY <1>1, <3>1 DEF ObjectInv
  <2> QED
    BY <2>1, <2>2
<1>4. ASSUME NEW s \in DOMAIN pool PROVE pool[s].ref_cnt = 0
  <2>1. s # O!Null
    BY <1>1 DEF OfiTypes
  <2>2. O!Holders(s) = {}
    BY <1>3, <2>1 DEF O!Holders
  <2> QED
    BY <1>1, <2>2, FS_EmptySet, CardinalityIs DEF PoolInv, O!StxAccounting
<1>5. DOMAIN kvs = {}
  <2> SUFFICES ASSUME NEW t \in DOMAIN kvs PROVE FALSE
    OBVIOUS
  <2>1. kvs[t] \in DOMAIN pool /\ pool[kvs[t]].ref_cnt > 0
    BY <1>1 DEF OfiTypes, PoolInv
  <2> QED
    BY <1>4, <2>1
<1>6. kvs = [t \in {} |-> O!Null]
  BY <1>1, <1>5 DEF OfiTypes
<1>7. ASSUME NEW s \in DOMAIN pool PROVE pool[s] = [ref_cnt |-> 0, is_private |-> FALSE]
  <2>1. pool[s] \in Stx /\ pool[s].is_private = FALSE
    BY <1>1, <1>5 DEF OfiTypes, PoolInv, Stx
  <2> QED
    BY <1>4, <2>1 DEF Stx
<1> QED
  BY <1>3, <1>6, <1>7

(* The default context is destroyed last. *)
LEMMA TransportFiniKeeps == ASSUME OfiInv, O!TransportFini PROVE OfiInv'
<1> USE Constants
<1>1. /\ OfiTypes /\ PoolInv /\ ObjectInv /\ DefaultInv /\ ThreadInv /\ CreateInv /\ CallInv
      /\ MutexInv /\ SlotsInv /\ HomesInv /\ PhaseInv
  BY DEF OfiInv
<1>2. /\ phase = "fini" /\ pc[MainThread] = "fini"
      /\ UNCHANGED <<multiple, pool, kvs, contexts, ctx, lock>>
  BY DEF O!TransportFini
<1>3. \A u \in Threads : cur[u] = O!Null /\ (u # MainThread => pc[u] = "user")
  BY <1>1, <1>2 DEF ThreadInv, PhaseInv, Idle
<1>4. CASE ctx[O!Default].open # {}
  <2>1. Moves(MainThread, "close_ep", O!Default)
    BY <1>1, <1>4, MovesTo DEF O!TransportFini, Labels, Busy, Closing
  <2>2. UNCHANGED phase
    BY <1>4 DEF O!TransportFini
  <2>3. ctx[O!Default].state = "live" /\ ~ ctx[O!Default].failed
    BY <1>1 DEF DefaultInv
  <2>4. ObjectOf(MainThread)' /\ SlotOf(MainThread)'
    BY <1>2, <2>1, <2>3 DEF ObjectOf, SlotOf, Moves
  <2>5. MutexInv'
    <3>1. ~ Critical(MainThread)' /\ ~ Critical(MainThread)
      BY <1>2, <1>3, <2>1, <2>3 DEF Critical, Moves
    <3> QED
      BY <1>1, <1>2, <1>3, <2>1, <2>3, <3>1, MutexStep DEF MutexInv
  <2>6. ThreadInv'
    BY <1>1, <1>3, <2>1 DEF ThreadInv, Moves, Idle, Busy, Closing
  <2>7. CreateInv' /\ DefaultInv'
    BY <1>1, <1>2, <2>1, <2>2 DEF CreateInv, DefaultInv, Moves
  <2>8. HomesInv'
    <3>1. \A x \in O!Objects \ {O!Default} : \A u \in Threads : cur[u] # x
      BY <1>3
    <3> QED
      BY <1>1, <1>2, <3>1 DEF HomesInv
  <2>9. PhaseInv'
    BY <1>1, <1>2, <2>1, <2>2, <2>3 DEF PhaseInv, Moves, Busy, Closing
  <2> QED
    BY <1>1, <1>2, <2>1, <2>2, <2>4, <2>5, <2>6, <2>7, <2>8, <2>9, CallKeeps DEF OfiTypes
<1>5. CASE ctx[O!Default].open = {}
  <2>1. phase' = "down" /\ UNCHANGED <<cur, pc>>
    BY <1>5 DEF O!TransportFini
  <2>2. OfiTypes' /\ PoolInv'
    BY <1>1, <1>2, <2>1, PoolFrame DEF OfiTypes
  <2>3. ObjectInv' /\ DefaultInv' /\ ThreadInv' /\ CreateInv' /\ MutexInv' /\ SlotsInv' /\ HomesInv'
    BY <1>1, <1>2, <2>1 DEF ObjectInv, DefaultInv, ThreadInv, CreateInv, MutexInv, Critical,
       SlotsInv, HomesInv
  <2>4. CallInv'
    BY <1>3, <2>1 DEF CallInv
  <2>5. PhaseInv'
    BY <1>1, <1>2, <2>1 DEF PhaseInv
  <2>6. O!FiniClean'
    BY <1>2, <1>5, CleanAtEnd DEF O!FiniClean
  <2> QED
    BY <2>2, <2>3, <2>4, <2>5, <2>6 DEF OfiInv
<1> QED
  BY <1>4, <1>5

(* Nothing changes. *)
LEMMA StutterKeeps == ASSUME OfiInv, UNCHANGED O!vars PROVE OfiInv'
<1>1. UNCHANGED <<multiple, pool, kvs, contexts, ctx, lock, pc, cur, phase>>
  BY DEF O!vars
<1>2. OfiTypes' /\ PoolInv'
  BY <1>1, PoolFrame DEF OfiTypes, OfiInv
<1>3. ObjectInv' /\ DefaultInv' /\ ThreadInv' /\ CreateInv' /\ MutexInv' /\ SlotsInv' /\ HomesInv'
  BY <1>1 DEF OfiInv, ObjectInv, DefaultInv, ThreadInv, CreateInv, MutexInv, Critical,
     SlotsInv, HomesInv
<1>4. CallInv'
  BY <1>1 DEF OfiInv, CallInv, ObjectOf, SlotOf
<1>5. PhaseInv' /\ O!FiniClean'
  BY <1>1 DEF OfiInv, PhaseInv, O!FiniClean
<1> QED
  BY <1>2, <1>3, <1>4, <1>5 DEF OfiInv

(* The slot of the table is cleared. *)
LEMMA ClearSlotKeeps ==
  ASSUME OfiInv, NEW t \in Threads, O!CtxClearSlot(t) PROVE OfiInv'
<1> USE Constants
<1>1. /\ OfiTypes /\ PoolInv /\ ObjectInv /\ DefaultInv /\ ThreadInv /\ CreateInv /\ CallInv
      /\ MutexInv /\ SlotsInv /\ HomesInv /\ PhaseInv
  BY DEF OfiInv
<1>2. PICK o \in O!Objects : o = cur[t] /\ pc[t] = "slot_lock" /\ ObjectOf(t) /\ SlotOf(t)
  BY <1>1 DEF O!CtxClearSlot, OfiTypes, ThreadInv, CallInv, Busy, Closing
<1>3. Moves(t, "slot_unlock", o)
  BY <1>1, <1>2, MovesTo DEF O!CtxClearSlot, Labels, Busy, Closing
<1>4. UNCHANGED <<multiple, pool, kvs, ctx, phase>>
  BY DEF O!CtxClearSlot
<1>5. ctx[o].state = "live" /\ o # O!Default /\ ctx[o].id \in DOMAIN contexts
  BY <1>1, <1>2 DEF ObjectOf, HomesInv
<1>6. contexts[ctx[o].id] = IF ctx[o].failed THEN O!Null ELSE o
  BY <1>2, <1>5 DEF SlotOf, Closing
<1>7. /\ contexts' \in [DOMAIN contexts -> O!Objects \cup {O!Null}]
      /\ DOMAIN contexts' = DOMAIN contexts /\ contexts'[ctx[o].id] = O!Null
      /\ \A k \in DOMAIN contexts : k # ctx[o].id => contexts'[k] = contexts[k]
  BY <1>1, <1>2, <1>5 DEF O!CtxClearSlot, OfiTypes
<1>8. IF multiple THEN lock = NoThread /\ lock' = t ELSE lock' = lock
  BY DEF O!CtxClearSlot, O!MutexLock
<1>9. multiple => ~ ctx[o].failed
  BY <1>1, <1>2, <1>8 DEF MutexInv, Critical
<1>10. OfiTypes'
  BY <1>1, <1>3, <1>4, <1>7, <1>8 DEF OfiTypes, Moves, Labels
<1>11. PoolInv' /\ ObjectInv' /\ DefaultInv'
  BY <1>1, <1>2, <1>3, <1>4, PoolFrame DEF ObjectInv, DefaultInv, Moves
<1>12. ThreadInv' /\ CreateInv'
  <2>1. ThreadInv'
    BY <1>1, <1>2, <1>3 DEF ThreadInv, Moves, Idle, Busy, Closing, OfiTypes
  <2>2. CreateInv'
    BY <1>1, <1>3, <1>4 DEF CreateInv, Moves
  <2> QED
    BY <2>1, <2>2
<1>13. MutexInv'
  <2>1. multiple => Critical(t)'
    BY <1>3 DEF Critical, Moves
  <2> QED
    BY <1>1, <1>2, <1>3, <1>4, <1>8, <1>9, <2>1, MutexStep
<1>14. SlotsInv'
  BY <1>1, <1>4, <1>7 DEF SlotsInv
<1>15. ASSUME NEW x \in O!Objects, ctx[x].state = "live", x # O!Default, x # o,
              (\A u \in Threads : cur[u] # x) \/ \E u \in Threads : u # t /\ cur[u] = x
       PROVE  contexts'[ctx[x].id] = contexts[ctx[x].id]
  <2>1. ctx[x].id \in DOMAIN contexts
    BY <1>1, <1>15 DEF HomesInv
  <2>2. contexts[ctx[x].id] \in {x, O!Null}
    <3>1. CASE \A u \in Threads : cur[u] # x
      BY <1>1, <1>15, <3>1 DEF HomesInv
    <3>2. CASE \E u \in Threads : u # t /\ cur[u] = x
      <4>1. PICK u \in Threads : u # t /\ cur[u] = x
        BY <3>2
      <4>2. ObjectOf(u) /\ SlotOf(u)
        BY <1>1, <4>1 DEF CallInv
      <4>3. pc[u] \in Closing \cup {"created", "slot_unlock"}
        <5>1. pc[u] # "destroyed"
          BY <1>15, <4>1, <4>2 DEF ObjectOf
        <5>2. pc[u] \notin Idle
          BY <1>1, <4>1 DEF ThreadInv
        <5> QED
          BY <1>1, <5>1, <5>2 DEF OfiTypes, Busy
      <4> QED
        BY <1>15, <4>1, <4>2, <4>3 DEF SlotOf
    <3> QED
      BY <1>15, <3>1, <3>2
  <2>3. CASE ctx[x].id = ctx[o].id
    BY <1>6, <1>7, <1>15, <2>2, <2>3
  <2> QED
    BY <1>7, <2>1, <2>3
<1>16. HomesInv'
  <2>1. \A u \in Threads : cur'[u] = cur[u]
    BY <1>2, <1>3 DEF Moves
  <2>2. ASSUME NEW x \in O!Objects, ctx[x].state = "live", x # O!Default,
               \A u \in Threads : cur[u] # x
        PROVE  contexts'[ctx[x].id] = x
    BY <1>1, <1>2, <1>15, <2>2 DEF HomesInv
  <2> QED
    BY <1>1, <1>4, <1>7, <2>1, <2>2 DEF HomesInv
<1>17. CallInv'
  <2>1. \A u \in Threads \ {t} : cur'[u] # O!Null => ObjectOf(u)' /\ SlotOf(u)'
    <3>1. ASSUME NEW u \in Threads \ {t}, cur[u] # O!Null, ctx[cur[u]].state = "live",
                 cur[u] # O!Default
          PROVE  contexts'[ctx[cur[u]].id] = contexts[ctx[cur[u]].id]
      <4>1. cur[u] \in O!Objects /\ cur[u] # o
        BY <1>1, <1>2, <3>1 DEF OfiTypes, ThreadInv
      <4> QED
        BY <1>15, <3>1, <4>1
    <3> QED
      BY <1>1, <1>3, <1>4, <3>1, OthersFrame
  <2>2. ObjectOf(t)' /\ SlotOf(t)'
    BY <1>2, <1>3, <1>4, <1>7 DEF ObjectOf, SlotOf, Moves, Closing
  <2> QED
    BY <2>1, <2>2 DEF CallInv
<1>18. PhaseInv'
  <2>1. phase \in {"fini", "down"} => \A k \in DOMAIN contexts' : contexts'[k] = O!Null
    BY <1>1, <1>7 DEF PhaseInv
  <2> QED
    BY <1>1, <1>2, <1>3, <1>4, <2>1 DEF PhaseInv, Moves, Busy
<1>19. O!FiniClean'
  BY <1>1, <1>2, <1>4 DEF PhaseInv, O!FiniClean
<1> QED
  BY <1>10, <1>11, <1>12, <1>13, <1>14, <1>16, <1>17, <1>18, <1>19 DEF OfiInv

(* The objects that hold an STX can be counted. *)
LEMMA HoldersFinite ==
  \A s : IsFiniteSet(O!Holders(s)) /\ Cardinality(O!Holders(s)) \in Nat
<1> SUFFICES ASSUME NEW s PROVE IsFiniteSet(O!Holders(s)) /\ Cardinality(O!Holders(s)) \in Nat
  OBVIOUS
<1>1. IsFiniteSet(O!Objects)
  BY FS_Interval, TransportsAssumption DEF O!Objects
<1>2. O!Holders(s) \subseteq O!Objects
  BY DEF O!Holders
<1> QED
  BY <1>1, <1>2, FS_Subset, FS_CardinalityType

(* What the release of object o's STX s does to the pool and the store. *)
Released(o, s) ==
  LET last == pool[s].ref_cnt = 1
      gone == IF ctx[o].private /\ last THEN {ctx[o].tid} ELSE {} IN
    /\ pool' \in [DOMAIN pool -> Stx] /\ DOMAIN pool' = DOMAIN pool
    /\ \A x \in DOMAIN pool \ {s} : pool'[x] = pool[x]
    /\ pool'[s].ref_cnt = pool[s].ref_cnt - 1
    /\ pool'[s].is_private <=> pool[s].is_private /\ ~(ctx[o].private /\ last)
    /\ kvs' \in [DOMAIN kvs \ gone -> DOMAIN pool] /\ DOMAIN kvs' = DOMAIN kvs \ gone
    /\ \A u \in DOMAIN kvs \ gone : kvs'[u] = kvs[u]

(* ReleaseStx does that. *)
LEMMA ReleaseIs ==
  ASSUME OfiTypes, PoolInv, NEW t \in Threads, NEW o \in O!Objects, o = cur[t],
         NEW s \in DOMAIN pool, s = ctx[o].stx, s # O!Null, pool[s].ref_cnt >= 1, O!ReleaseStx(t)
  PROVE  Released(o, s)
<1>1. /\ pool \in [DOMAIN pool -> Stx] /\ pool[s] \in Stx
      /\ kvs \in [DOMAIN kvs -> DOMAIN pool]
      /\ pool[s].ref_cnt \in Nat /\ pool[s].is_private \in BOOLEAN
      /\ pool[s].ref_cnt - 1 \in Nat
  <2>1. pool \in [DOMAIN pool -> Stx] /\ pool[s] \in Stx /\ kvs \in [DOMAIN kvs -> DOMAIN pool]
    BY DEF OfiTypes
  <2>2. pool[s].ref_cnt \in Nat /\ pool[s].is_private \in BOOLEAN
    BY <2>1 DEF Stx
  <2> QED
    BY <2>1, <2>2
<1>2. CASE ctx[o].private
  <2>1. ctx[o].tid \in DOMAIN kvs
    BY <1>2 DEF PoolInv
  <2>2. PICK q : q = [pool[s] EXCEPT !.ref_cnt = @ - 1]
    OBVIOUS
  <2>3. q \in Stx /\ q.ref_cnt = pool[s].ref_cnt - 1 /\ q.is_private = pool[s].is_private
    BY <1>1, <2>2 DEF Stx
  <2>4. PICK r : r = [q EXCEPT !.is_private = pool[s].is_private /\ ~(pool[s].ref_cnt = 1)]
    OBVIOUS
  <2>5. /\ r \in Stx /\ r.ref_cnt = pool[s].ref_cnt - 1
        /\ r.is_private <=> pool[s].is_private /\ ~(pool[s].ref_cnt = 1)
    <3>1. r \in Stx
      BY <1>1, <2>3, <2>4 DEF Stx
    <3>2. r.ref_cnt = q.ref_cnt
      BY <2>3, <2>4 DEF Stx
    <3>3. r.is_private <=> pool[s].is_private /\ ~(pool[s].ref_cnt = 1)
      BY <2>3, <2>4 DEF Stx
    <3> QED
      BY <2>3, <3>1, <3>2, <3>3
  <2>6. pool' = [pool EXCEPT ![s] = r]
    <3>1. pool' = [pool EXCEPT ![s].ref_cnt = @ - 1,
                               ![s].is_private = @ /\ ~(pool[s].ref_cnt = 1)]
      BY <1>2, <2>1 DEF O!ReleaseStx
    <3>2. PICK f : f = [pool EXCEPT ![s] = q]
      OBVIOUS
    <3>3. f[s] = q
      BY <1>1, <3>2
    <3>4. pool' = [f EXCEPT ![s] = r]
      BY <2>2, <2>3, <2>4, <3>1, <3>2, <3>3
    <3> QED
      BY <1>1, <3>2, <3>4
  <2>7. kvs' = [u \in DOMAIN kvs \ (IF pool[s].ref_cnt = 1 THEN {ctx[o].tid} ELSE {}) |-> kvs[u]]
    BY <1>2, <2>1 DEF O!ReleaseStx
  <2> QED
    BY <1>1, <1>2, <2>5, <2>6, <2>7 DEF Released
<1>3. CASE ~ ctx[o].private
  <2>1. [ref_cnt |-> pool[s].ref_cnt - 1, is_private |-> pool[s].is_private] \in Stx
    BY <1>1 DEF Stx
  <2>2. PICK r \in Stx : r = [ref_cnt |-> pool[s].ref_cnt - 1, is_private |-> pool[s].is_private]
    BY <2>1
  <2>3. r.ref_cnt = pool[s].ref_cnt - 1 /\ r.is_private = pool[s].is_private
    BY <2>2
  <2>4. pool' = [pool EXCEPT ![s] = r] /\ kvs' = kvs
    BY <1>1, <1>3, <2>2 DEF O!ReleaseStx, Stx
  <2> QED
    BY <1>1, <1>3, <2>3, <2>4 DEF Released
<1> QED
  BY <1>2, <1>3

(* The counts and the store are right after a release. *)
LEMMA ReleasePool ==
  ASSUME OfiTypes, PoolInv, NEW o \in O!Objects, NEW s \in DOMAIN pool, s = ctx[o].stx, s # O!Null,
         Released(o, s), Elsewhere(o), Same(o), ctx'[o].stx = O!Null
  PROVE  PoolInv'
<1> USE Constants, CardinalityIs
<1>1. /\ O!Null \notin DOMAIN pool /\ pool[s].ref_cnt \in Nat
      /\ DOMAIN kvs' \subseteq DOMAIN kvs
      /\ \A u \in DOMAIN kvs' : kvs'[u] = kvs[u] /\ kvs[u] \in DOMAIN pool
  <2>1. pool[s] \in Stx /\ O!Null \notin DOMAIN pool
    BY DEF OfiTypes
  <2> QED
    BY <2>1 DEF OfiTypes, Released, Stx
<1>2. \A x \in O!Objects \ {o} : ctx'[x] = ctx[x]
  BY DEF Elsewhere
<1>3. \A x \in DOMAIN pool \ {s} : O!Holders(x)' = O!Holders(x)
  BY <1>1, <1>2 DEF O!Holders
<1>4. O!Holders(s)' = O!Holders(s) \ {o} /\ o \in O!Holders(s)
  BY <1>1, <1>2 DEF O!Holders
<1>5. Cardinality(O!Holders(s)') = Cardinality(O!Holders(s)) - 1
  <2>1. PICK S : S = O!Holders(s)
    OBVIOUS
  <2>2. IsFiniteSet(S) /\ o \in S /\ O!Holders(s)' = S \ {o}
    BY <1>4, <2>1, HoldersFinite
  <2>3. Cardinality(S \ {o}) = Cardinality(S) - 1
    BY <2>2, ShrunkSet
  <2> QED
    BY <2>1, <2>2, <2>3
<1>6. O!StxAccounting'
  BY <1>3, <1>5 DEF PoolInv, O!StxAccounting, Released
<1>7. pool[s].ref_cnt = 1 => O!Holders(s) = {o}
  <2>1. pool[s].ref_cnt = 1 => \E x : O!Holders(s) = {x}
    BY HoldersFinite, FS_Singleton DEF PoolInv, O!StxAccounting
  <2> QED
    BY <1>4, <2>1
<1>8. pool[s].ref_cnt >= 1
  <2>1. Cardinality(O!Holders(s)) # 0
    BY <1>4, HoldersFinite, FS_EmptySet
  <2> QED
    BY <1>1, <2>1 DEF PoolInv, O!StxAccounting
<1>9. ctx[o].private => ctx[o].tid \in DOMAIN kvs /\ kvs[ctx[o].tid] = s
  BY DEF PoolInv
<1>10. \A u \in DOMAIN kvs : kvs[u] = s => ctx[o].private /\ u = ctx[o].tid
  BY DEF PoolInv
<1>11. \A x \in O!Objects : ctx'[x].stx \in DOMAIN pool' \cup {O!Null}
  BY <1>2 DEF PoolInv, Released
<1>12. ASSUME NEW x \in DOMAIN pool
       PROVE  pool'[x].is_private <=> \E u \in DOMAIN kvs' : kvs'[u] = x
  <2>0. pool[x].is_private <=> \E u \in DOMAIN kvs : kvs[u] = x
    BY DEF PoolInv
  <2>1. CASE x # s
    <3>1. pool'[x].is_private <=> pool[x].is_private
      BY <2>1 DEF Released
    <3>2. \A u \in DOMAIN kvs : kvs[u] = x => u \in DOMAIN kvs'
      BY <1>9, <2>1 DEF Released
    <3> QED
      BY <1>1, <2>0, <3>1, <3>2
  <2>2. CASE x = s
    <3>1. CASE ctx[o].private /\ pool[s].ref_cnt = 1
      <4>1. ctx[o].tid \notin DOMAIN kvs' /\ ~ pool'[s].is_private
        BY <3>1 DEF Released
      <4> QED
        BY <1>1, <1>10, <2>2, <4>1
    <3>2. CASE ~(ctx[o].private /\ pool[s].ref_cnt = 1)
      <4>1. DOMAIN kvs' = DOMAIN kvs /\ (pool'[s].is_private <=> pool[s].is_private)
        BY <3>2 DEF Released
      <4> QED
        BY <1>1, <2>0, <2>2, <4>1
    <3> QED
      BY <3>1, <3>2
  <2> QED
    BY <2>1, <2>2
<1>13. \A t, u \in DOMAIN kvs' : kvs'[t] = kvs'[u] => t = u
  BY <1>1 DEF PoolInv
<1>14. ASSUME NEW u \in DOMAIN kvs' PROVE pool'[kvs'[u]].ref_cnt > 0
  <2>1. pool[kvs[u]].ref_cnt > 0 /\ kvs[u] \in DOMAIN pool
    BY <1>1, <1>14 DEF PoolInv
  <2>2. CASE kvs[u] # s
    BY <1>1, <1>14, <2>1, <2>2 DEF Released
  <2>3. CASE kvs[u] = s
    <3>1. pool[s].ref_cnt # 1
      BY <1>1, <1>10, <1>14, <2>3 DEF Released
    <3> QED
      BY <1>1, <1>8, <1>14, <2>3, <3>1 DEF Released
  <2> QED
    BY <2>2, <2>3
<1>15. \A u \in DOMAIN kvs', x \in O!Objects : ctx'[x].stx = kvs'[u] => ctx'[x].private /\ ctx'[x].tid = u
  BY <1>1, <1>2 DEF PoolInv
<1>16. ASSUME NEW x \in O!Objects, ctx'[x].private, ctx'[x].stx # O!Null
       PROVE  ctx'[x].tid \in DOMAIN kvs' /\ kvs'[ctx'[x].tid] = ctx'[x].stx
  <2>1. x # o /\ ctx'[x] = ctx[x]
    BY <1>2, <1>16
  <2>2. ctx[x].tid \in DOMAIN kvs /\ kvs[ctx[x].tid] = ctx[x].stx
    BY <1>16, <2>1 DEF PoolInv
  <2>3. ctx[x].tid \in DOMAIN kvs'
    <3> SUFFICES ASSUME ctx[x].tid \notin DOMAIN kvs' PROVE FALSE
      OBVIOUS
    <3>1. ctx[o].private /\ pool[s].ref_cnt = 1 /\ ctx[x].tid = ctx[o].tid
      BY <2>2 DEF Released
    <3>2. x \in O!Holders(s)
      BY <1>9, <2>2, <3>1 DEF O!Holders
    <3> QED
      BY <1>7, <2>1, <3>1, <3>2
  <2> QED
    BY <1>1, <2>1, <2>2, <2>3
<1>17. \A x \in DOMAIN pool' : pool'[x].is_private <=> \E u \in DOMAIN kvs' : kvs'[u] = x
  BY <1>12 DEF Released
<1> QED
  BY <1>6, <1>11, <1>13, <1>14, <1>15, <1>16, <1>17 DEF PoolInv

(* The reference to the STX is released. *)
LEMMA ReleaseKeeps ==
  ASSUME OfiInv, NEW t \in Threads, O!CtxReleaseStx(t) PROVE OfiInv'
<1> USE Constants
<1>1. /\ OfiTypes /\ PoolInv /\ ObjectInv /\ DefaultInv /\ ThreadInv /\ CreateInv /\ CallInv
      /\ MutexInv /\ SlotsInv /\ HomesInv /\ PhaseInv
  BY DEF OfiInv
<1>2. PICK o \in O!Objects : o = cur[t] /\ pc[t] = "stx_lock" /\ ObjectOf(t) /\ SlotOf(t)
  BY <1>1 DEF O!CtxReleaseStx, OfiTypes, ThreadInv, CallInv, Busy, Closing
<1>3. Moves(t, "stx_unlock", o)
  BY <1>1, <1>2, MovesTo DEF O!CtxReleaseStx, Labels, Busy, Closing
<1>4. /\ Elsewhere(o) /\ Same(o) /\ ctx'[o].stx = O!Null
      /\ ctx'[o].state = ctx[o].state /\ ctx'[o].open = ctx[o].open
  BY <1>1, <1>2, StxSet DEF O!CtxReleaseStx
<1>5. UNCHANGED <<multiple, contexts, phase>>
  BY DEF O!CtxReleaseStx
<1>6. PICK s \in DOMAIN pool : s = ctx[o].stx /\ s # O!Null
  BY <1>1, <1>2 DEF ObjectOf, PoolInv
<1>7. pool[s].ref_cnt >= 1
  <2>1. o \in O!Holders(s)
    BY <1>6 DEF O!Holders
  <2>2. Cardinality(O!Holders(s)) # 0 /\ Cardinality(O!Holders(s)) \in Nat
    BY <2>1, HoldersFinite, FS_EmptySet
  <2> QED
    BY <1>1, <2>2, CardinalityIs DEF PoolInv, O!StxAccounting
<1>8. Released(o, s)
  BY <1>1, <1>2, <1>6, <1>7, ReleaseIs DEF O!CtxReleaseStx
<1>9. IF multiple THEN lock = NoThread /\ lock' = t ELSE lock' = lock
  BY DEF O!CtxReleaseStx, O!MutexLock
<1>10. multiple => ~ ctx[o].failed
  BY <1>1, <1>2, <1>9 DEF MutexInv, Critical
<1>11. PoolInv'
  BY <1>1, <1>4, <1>6, <1>8, ReleasePool
<1>12. OfiTypes'
  <2>1. /\ pool' \in [DOMAIN pool' -> Stx] /\ DOMAIN pool' = DOMAIN pool
        /\ kvs' \in [DOMAIN kvs' -> DOMAIN pool'] /\ DOMAIN kvs' \subseteq Threads
    BY <1>1, <1>8 DEF OfiTypes, Released
  <2> QED
    BY <1>1, <1>3, <1>4, <1>5, <1>9, <2>1 DEF OfiTypes, Moves, Elsewhere, Labels
<1>13. ObjectInv'
  BY <1>1, <1>4 DEF ObjectInv, Same, Elsewhere
<1>14. DefaultInv'
  <2>1. phase \in {"running", "team_fini"} => o # O!Default
    BY <1>1, <1>2 DEF DefaultInv
  <2> QED
    BY <1>1, <1>2, <1>3, <1>4, <1>5, <1>8, <2>1 DEF DefaultInv, Same, Elsewhere, Moves, Released
<1>15. ThreadInv' /\ CreateInv'
  <2>1. ThreadInv'
    BY <1>1, <1>2, <1>3 DEF ThreadInv, Moves, Idle, Busy, Closing, OfiTypes
  <2>2. \A x \in O!Objects : ctx'[x].state = ctx[x].state
    BY <1>4 DEF Elsewhere
  <2>3. CreateInv'
    BY <1>1, <1>3, <2>2 DEF CreateInv, Moves
  <2> QED
    BY <2>1, <2>3
<1>16. CallInv'
  <2>1. \A u \in Threads \ {t} : cur'[u] # O!Null => ObjectOf(u)' /\ SlotOf(u)'
    BY <1>1, <1>2, <1>3, <1>4, <1>5, OthersFrame DEF Elsewhere
  <2>2. ObjectOf(t)' /\ SlotOf(t)'
    BY <1>2, <1>3, <1>4, <1>5 DEF ObjectOf, SlotOf, Moves, Closing, Same
  <2> QED
    BY <2>1, <2>2 DEF CallInv
<1>17. MutexInv'
  <2>1. \A u \in Threads : cur[u] # O!Null => ctx'[cur[u]].failed = ctx[cur[u]].failed
    BY <1>1, <1>2, <1>4 DEF OfiTypes, Same, Elsewhere
  <2>2. Critical(t)'
    BY <1>3 DEF Critical, Moves
  <2>3. ctx'[o].failed = ctx[o].failed
    BY <1>4 DEF Same
  <2> QED
    BY <1>1, <1>2, <1>3, <1>5, <1>9, <1>10, <2>1, <2>2, <2>3, MutexStep
<1>18. SlotsInv' /\ HomesInv'
  <2>1. \A x \in O!Objects : /\ ctx'[x].state = ctx[x].state /\ ctx'[x].id = ctx[x].id
                             /\ ctx'[x].failed = ctx[x].failed
    BY <1>4 DEF Elsewhere, Same
  <2>2. \A k \in DOMAIN contexts : contexts[k] # O!Null => contexts[k] \in O!Objects
    BY <1>1 DEF OfiTypes
  <2>3. \A u \in Threads : cur'[u] = cur[u]
    BY <1>2, <1>3 DEF Moves
  <2>4. SlotsInv'
    BY <1>1, <1>5, <2>1, <2>2 DEF SlotsInv
  <2>5. HomesInv'
    BY <1>1, <1>5, <2>1, <2>3 DEF HomesInv
  <2> QED
    BY <2>4, <2>5
<1>19. PhaseInv' /\ O!FiniClean'
  <2>1. PhaseInv'
    BY <1>1, <1>2, <1>3, <1>4, <1>5 DEF PhaseInv, Moves, Same, Busy, Closing
  <2>2. O!FiniClean'
    BY <1>1, <1>2, <1>5 DEF PhaseInv, O!FiniClean
  <2> QED
    BY <2>1, <2>2
<1> QED
  BY <1>11, <1>12, <1>13, <1>14, <1>15, <1>16, <1>17, <1>18, <1>19 DEF OfiInv

-----------------------------------------------------------------------------
(* Creation.  First what stx_allocate may return.                          *)
Allocation(a, private, t) ==
  \/ a.how = "none" /\ a.stx = O!Null
  \/ a.how = "own" /\ private /\ t \in DOMAIN kvs /\ a.stx = kvs[t]
  \/ /\ a.how = "fresh" /\ private /\ t \notin DOMAIN kvs
     /\ a.stx \in DOMAIN pool /\ pool[a.stx].ref_cnt = 0
  \/ /\ a.how = "unused" /\ ~ private /\ a.stx \in DOMAIN pool /\ pool[a.stx].ref_cnt = 0
  \/ /\ a.how = "fallback" /\ a.stx \in DOMAIN pool /\ ~ pool[a.stx].is_private
  \/ /\ a.how = "shared" /\ ~ private /\ a.stx \in DOMAIN pool /\ ~ pool[a.stx].is_private

(* The search for a shared STX returns one that is not private. *)
LEMMA SharedIs ==
  ASSUME NEW how, NEW a \in O!SharedFirst(how)
  PROVE  a.how = how /\ a.stx \in DOMAIN pool /\ ~ pool[a.stx].is_private
<1>1. \A n : O!stx_search_shared(n) \subseteq O!Shareable(n)
  BY DEF O!stx_search_shared
<1>2. \A n : \A s \in O!Shareable(n) : s \in DOMAIN pool /\ ~ pool[s].is_private
  BY DEF O!Shareable
<1>3. PICK s \in O!stx_search_shared(Threshold) \cup O!stx_search_shared(-1) :
        a = [stx |-> s, how |-> how]
  BY DEF O!SharedFirst, O!Pick
<1> QED
  BY <1>1, <1>2, <1>3

(* The search for an unused STX returns one without references. *)
LEMMA UnusedIs ==
  ASSUME OfiTypes, O!stx_search_unused # O!Null
  PROVE  O!stx_search_unused \in DOMAIN pool /\ pool[O!stx_search_unused].ref_cnt = 0
<1> DEFINE S == {s \in DOMAIN pool : pool[s].ref_cnt = 0}
<1>1. S \subseteq Nat
  BY DEF OfiTypes
<1>2. O!stx_search_unused = IF S = {} THEN O!Null ELSE O!Min(S)
  BY DEF O!stx_search_unused
<1>3. S # {} /\ O!stx_search_unused = O!Min(S)
  BY <1>2
<1>4. O!Min(S) \in S
  <2> HIDE DEF S
  <2> QED
    BY <1>1, <1>3, MinIsLeast
<1> QED
  BY <1>3, <1>4

(* stx_allocate returns one of these. *)
LEMMA AllocateIs ==
  ASSUME OfiTypes, NEW private \in BOOLEAN, NEW t \in Threads, NEW a \in O!stx_allocate(private, t)
  PROVE  Allocation(a, private, t)
<1>1. PICK n \in Nat : n = O!stx_max
  <2>1. PICK m \in Nat : DOMAIN pool = 0 .. m - 1
    BY DEF OfiTypes
  <2>2. IsFiniteSet(0 .. m - 1)
    BY <2>1, FS_Interval
  <2> QED
    BY <2>1, <2>2, FS_CardinalityType, CardinalityIs DEF O!stx_max
<1>2. \A S, how : a \in O!Pick(S, how) => a.how = how /\ a.stx \in S
  BY DEF O!Pick
<1>3. CASE n = 0
  <2>1. O!stx_allocate(private, t) = O!Pick({O!Null}, "none")
    BY <1>1, <1>3 DEF O!stx_allocate
  <2> QED
    BY <1>2, <2>1 DEF Allocation
<1>4. CASE n > 0 /\ private /\ t \in DOMAIN kvs
  <2>1. O!stx_allocate(private, t) = O!Pick({kvs[t]}, "own")
    BY <1>1, <1>4 DEF O!stx_allocate
  <2> QED
    BY <1>2, <1>4, <2>1 DEF Allocation
<1>5. CASE n > 0 /\ private /\ t \notin DOMAIN kvs
  <2>1. O!stx_allocate(private, t) = IF O!stx_search_unused # O!Null
                                     THEN O!Pick({O!stx_search_unused}, "fresh")
                                     ELSE O!SharedFirst("fallback")
    BY <1>1, <1>5 DEF O!stx_allocate
  <2>2. CASE O!stx_search_unused # O!Null
    <3>1. a.how = "fresh" /\ a.stx = O!stx_search_unused
      BY <1>2, <2>1, <2>2
    <3>2. a.stx \in DOMAIN pool /\ pool[a.stx].ref_cnt = 0
      BY <2>2, <3>1, UnusedIs
    <3> QED
      BY <1>5, <3>1, <3>2 DEF Allocation
  <2>3. CASE O!stx_search_unused = O!Null
    <3>1. a \in O!SharedFirst("fallback")
      BY <2>1, <2>3
    <3>2. a.how = "fallback" /\ a.stx \in DOMAIN pool /\ ~ pool[a.stx].is_private
      BY <3>1, SharedIs
    <3> QED
      BY <1>5, <3>2 DEF Allocation
  <2> QED
    BY <2>2, <2>3
<1>6. CASE n > 0 /\ ~ private
  <2>1. O!stx_allocate(private, t) =
          IF O!stx_search_shared(Threshold) = {} /\ O!stx_search_unused # O!Null
          THEN O!Pick({O!stx_search_unused}, "unused") ELSE O!SharedFirst("shared")
    BY <1>1, <1>6 DEF O!stx_allocate
  <2> QED
    BY <1>2, <1>6, <2>1, UnusedIs, SharedIs DEF Allocation
<1> QED
  BY <1>3, <1>4, <1>5, <1>6

(* What it does to the pool and the store. *)
Taken(a, t) ==
  /\ pool' \in [DOMAIN pool -> Stx] /\ DOMAIN pool' = DOMAIN pool
  /\ \A x \in DOMAIN pool : x # a.stx => pool'[x] = pool[x]
  /\ a.stx \in DOMAIN pool =>
       /\ pool'[a.stx].ref_cnt = pool[a.stx].ref_cnt + 1
       /\ pool'[a.stx].is_private <=> pool[a.stx].is_private \/ a.how = "fresh"
  /\ IF a.how = "fresh"
     THEN /\ kvs' \in [DOMAIN kvs \cup {t} -> DOMAIN pool] /\ DOMAIN kvs' = DOMAIN kvs \cup {t}
          /\ kvs'[t] = a.stx /\ \A u \in DOMAIN kvs : u # t => kvs'[u] = kvs[u]
     ELSE kvs' = kvs

(* TakeStx does that. *)
LEMMA TakeIs ==
  ASSUME OfiTypes, NEW private \in BOOLEAN, NEW t \in Threads, NEW a, Allocation(a, private, t),
         O!TakeStx(a, t)
  PROVE  Taken(a, t)
<1> USE Constants
<1>1. a.stx \in DOMAIN pool \cup {O!Null} /\ (a.how = "fresh" => a.stx \in DOMAIN pool)
  BY DEF Allocation, OfiTypes
<1>2. /\ pool \in [DOMAIN pool -> Stx] /\ kvs \in [DOMAIN kvs -> DOMAIN pool]
      /\ O!Null \notin DOMAIN pool
  BY DEF OfiTypes
<1>3. IF a.how = "fresh"
      THEN /\ kvs' \in [DOMAIN kvs \cup {t} -> DOMAIN pool] /\ DOMAIN kvs' = DOMAIN kvs \cup {t}
           /\ kvs'[t] = a.stx /\ \A u \in DOMAIN kvs : u # t => kvs'[u] = kvs[u]
      ELSE kvs' = kvs
  BY <1>1, <1>2 DEF O!TakeStx
<1>4. CASE a.stx = O!Null
  <2>1. pool' = pool
    BY <1>4 DEF O!TakeStx
  <2> QED
    BY <1>2, <1>3, <1>4, <2>1 DEF Taken
<1>5. CASE a.stx # O!Null
  <2>1. PICK s \in DOMAIN pool : s = a.stx
    BY <1>1, <1>5
  <2>2. pool[s] \in Stx /\ pool[s].ref_cnt + 1 \in Nat /\ pool[s].is_private \in BOOLEAN
    BY <1>2 DEF Stx
  <2>3. PICK q : q = [pool[s] EXCEPT !.ref_cnt = @ + 1]
    OBVIOUS
  <2>4. q \in Stx /\ q.ref_cnt = pool[s].ref_cnt + 1 /\ q.is_private = pool[s].is_private
    BY <2>2, <2>3 DEF Stx
  <2>5. PICK r : r = [q EXCEPT !.is_private = pool[s].is_private \/ a.how = "fresh"]
    OBVIOUS
  <2>6. /\ r \in Stx /\ r.ref_cnt = pool[s].ref_cnt + 1
        /\ r.is_private <=> pool[s].is_private \/ a.how = "fresh"
    <3>1. r \in Stx
      BY <2>2, <2>4, <2>5 DEF Stx
    <3>2. r.ref_cnt = q.ref_cnt
      BY <2>4, <2>5 DEF Stx
    <3>3. r.is_private <=> pool[s].is_private \/ a.how = "fresh"
      BY <2>4, <2>5 DEF Stx
    <3> QED
      BY <2>4, <3>1, <3>2, <3>3
  <2>7. pool' = [pool EXCEPT ![s] = r]
    <3>1. pool' = [pool EXCEPT ![s].ref_cnt = @ + 1, ![s].is_private = @ \/ a.how = "fresh"]
      BY <1>5, <2>1 DEF O!TakeStx
    <3>2. PICK f : f = [pool EXCEPT ![s] = q]
      OBVIOUS
    <3>3. f[s] = q
      BY <1>2, <3>2
    <3>4. pool' = [f EXCEPT ![s] = r]
      BY <2>3, <2>4, <2>5, <3>1, <3>2, <3>3
    <3> QED
      BY <1>2, <3>2, <3>4
  <2>8. /\ pool' \in [DOMAIN pool -> Stx] /\ DOMAIN pool' = DOMAIN pool /\ pool'[s] = r
        /\ \A x \in DOMAIN pool : x # s => pool'[x] = pool[x]
    BY <1>2, <2>6, <2>7
  <2> QED
    BY <1>3, <2>1, <2>6, <2>8 DEF Taken
<1> QED
  BY <1>4, <1>5

(* The counts and the store are right after an allocation. *)
LEMMA TakePool ==
  ASSUME OfiTypes, PoolInv, NEW private \in BOOLEAN, NEW t \in Threads, NEW a,
         Allocation(a, private, t), Taken(a, t), NEW o \in O!Objects, ctx[o].stx = O!Null, Elsewhere(o),
         ctx'[o].stx = a.stx, ctx'[o].tid = t,
         ctx'[o].private <=> private /\ a.how # "fallback"
  PROVE  PoolInv'
<1> USE Constants, CardinalityIs
<1>1. \A x \in O!Objects \ {o} : ctx'[x] = ctx[x]
  BY DEF Elsewhere
<1>2. /\ O!Null \notin DOMAIN pool /\ a.stx \in DOMAIN pool \cup {O!Null}
      /\ \A u \in DOMAIN kvs : kvs[u] \in DOMAIN pool
      /\ \A x \in DOMAIN pool : pool[x].ref_cnt \in Nat
      /\ DOMAIN pool' = DOMAIN pool
  <2>1. \A x \in DOMAIN pool : pool[x] \in Stx
    BY DEF OfiTypes
  <2> QED
    BY <2>1 DEF OfiTypes, Allocation, Stx, Taken
<1>3. O!StxAccounting'
  <2> SUFFICES ASSUME NEW x \in DOMAIN pool PROVE pool'[x].ref_cnt = Cardinality(O!Holders(x)')
    BY <1>2 DEF O!StxAccounting
  <2>1. pool[x].ref_cnt = Cardinality(O!Holders(x))
    BY DEF PoolInv, O!StxAccounting
  <2>2. CASE x # a.stx
    <3>1. O!Holders(x)' = O!Holders(x)
      BY <1>1, <1>2, <2>2 DEF O!Holders
    <3> QED
      BY <2>1, <2>2, <3>1 DEF Taken
  <2>3. CASE x = a.stx
    <3>1. O!Holders(x)' = O!Holders(x) \cup {o} /\ o \notin O!Holders(x)
      BY <1>1, <1>2, <2>3 DEF O!Holders
    <3>2. Cardinality(O!Holders(x)') = Cardinality(O!Holders(x)) + 1
      BY <3>1, HoldersFinite, GrownSet
    <3> QED
      BY <2>1, <2>3, <3>2 DEF Taken
  <2> QED
    BY <2>2, <2>3
<1>4. \A x \in O!Objects : ctx'[x].stx \in DOMAIN pool' \cup {O!Null}
  BY <1>1, <1>2 DEF PoolInv
<1>5. CASE a.how = "fresh"
  <2>1. /\ private /\ t \notin DOMAIN kvs /\ a.stx \in DOMAIN pool /\ pool[a.stx].ref_cnt = 0
        /\ DOMAIN kvs' = DOMAIN kvs \cup {t} /\ kvs'[t] = a.stx
        /\ \A u \in DOMAIN kvs : kvs'[u] = kvs[u]
    BY <1>5 DEF Allocation, Taken
  <2>2. \A u \in DOMAIN kvs : kvs[u] # a.stx
    BY <2>1 DEF PoolInv
  <2>3. \A x \in O!Objects : ctx[x].stx # a.stx
    <3>1. O!Holders(a.stx) = {}
      BY <2>1, HoldersFinite, FS_EmptySet DEF PoolInv, O!StxAccounting
    <3> QED
      BY <3>1 DEF O!Holders
  <2>4. \A x \in DOMAIN pool : pool'[x].is_private <=> \E u \in DOMAIN kvs' : kvs'[u] = x
    <3> SUFFICES ASSUME NEW x \in DOMAIN pool
                 PROVE  pool'[x].is_private <=> \E u \in DOMAIN kvs' : kvs'[u] = x
      OBVIOUS
    <3>1. CASE x = a.stx
      BY <1>5, <2>1, <3>1 DEF Taken
    <3>2. CASE x # a.stx
      <4>1. pool'[x] = pool[x]
        BY <3>2 DEF Taken
      <4>2. pool[x].is_private <=> \E u \in DOMAIN kvs : kvs[u] = x
        BY DEF PoolInv
      <4> QED
        BY <2>1, <3>2, <4>1, <4>2
    <3> QED
      BY <3>1, <3>2
  <2>5. \A v, u \in DOMAIN kvs' : kvs'[v] = kvs'[u] => v = u
    BY <2>1, <2>2 DEF PoolInv
  <2>6. \A u \in DOMAIN kvs' : pool'[kvs'[u]].ref_cnt > 0
    <3> SUFFICES ASSUME NEW u \in DOMAIN kvs' PROVE pool'[kvs'[u]].ref_cnt > 0
      OBVIOUS
    <3>1. CASE u = t
      BY <1>2, <2>1, <3>1 DEF Taken
    <3>2. CASE u # t
      <4>1. kvs'[u] = kvs[u] /\ kvs[u] \in DOMAIN pool /\ kvs[u] # a.stx /\ pool[kvs[u]].ref_cnt > 0
        BY <1>2, <2>1, <2>2, <3>2 DEF PoolInv
      <4> QED
        BY <4>1 DEF Taken
    <3> QED
      BY <3>1, <3>2
  <2>7. \A u \in DOMAIN kvs', x \in O!Objects : ctx'[x].stx = kvs'[u] => ctx'[x].private /\ ctx'[x].tid = u
    <3> SUFFICES ASSUME NEW u \in DOMAIN kvs', NEW x \in O!Objects, ctx'[x].stx = kvs'[u]
                 PROVE  ctx'[x].private /\ ctx'[x].tid = u
      OBVIOUS
    <3>1. CASE x = o
      BY <1>5, <2>1, <2>2, <3>1
    <3>2. CASE x # o
      BY <1>1, <2>1, <2>3, <3>2 DEF PoolInv
    <3> QED
      BY <3>1, <3>2
  <2>8. \A x \in O!Objects : ctx'[x].private /\ ctx'[x].stx # O!Null =>
          ctx'[x].tid \in DOMAIN kvs' /\ kvs'[ctx'[x].tid] = ctx'[x].stx
    <3> SUFFICES ASSUME NEW x \in O!Objects, ctx'[x].private, ctx'[x].stx # O!Null
                 PROVE  ctx'[x].tid \in DOMAIN kvs' /\ kvs'[ctx'[x].tid] = ctx'[x].stx
      OBVIOUS
    <3>1. CASE x = o
      BY <2>1, <3>1
    <3>2. CASE x # o
      BY <1>1, <2>1, <3>2 DEF PoolInv
    <3> QED
      BY <3>1, <3>2
  <2> QED
    BY <1>2, <1>3, <1>4, <2>4, <2>5, <2>6, <2>7, <2>8 DEF PoolInv
<1>6. CASE a.how # "fresh"
  <2>1. kvs' = kvs
    BY <1>6 DEF Taken
  <2>2. \A x \in DOMAIN pool : /\ pool'[x].is_private <=> pool[x].is_private
                               /\ pool'[x].ref_cnt >= pool[x].ref_cnt
    BY <1>2, <1>6 DEF Taken
  <2>3. \A x \in DOMAIN pool : pool'[x].is_private <=> \E u \in DOMAIN kvs : kvs[u] = x
    BY <2>2 DEF PoolInv
  <2>4. \A u \in DOMAIN kvs : pool'[kvs[u]].ref_cnt > 0
    <3> SUFFICES ASSUME NEW u \in DOMAIN kvs PROVE pool'[kvs[u]].ref_cnt > 0
      OBVIOUS
    <3>1. kvs[u] \in DOMAIN pool /\ pool[kvs[u]].ref_cnt > 0 /\ pool[kvs[u]].ref_cnt \in Nat
      BY <1>2 DEF PoolInv
    <3>2. pool'[kvs[u]].ref_cnt \in {pool[kvs[u]].ref_cnt, pool[kvs[u]].ref_cnt + 1}
      BY <3>1 DEF Taken
    <3> QED
      BY <3>1, <3>2
  <2>5. ASSUME NEW u \in DOMAIN kvs, a.stx = kvs[u] PROVE a.how = "own" /\ u = t /\ private
    <3>1. a.stx \in DOMAIN pool /\ pool[a.stx].is_private /\ pool[a.stx].ref_cnt # 0
      BY <1>2, <2>5 DEF PoolInv
    <3>2. a.how = "own" /\ private /\ t \in DOMAIN kvs /\ a.stx = kvs[t]
      BY <1>2, <1>6, <3>1 DEF Allocation
    <3>3. \A v, w \in DOMAIN kvs : kvs[v] = kvs[w] => v = w
      BY DEF PoolInv
    <3> QED
      BY <2>5, <3>2, <3>3
  <2>6. \A u \in DOMAIN kvs, x \in O!Objects : ctx'[x].stx = kvs[u] => ctx'[x].private /\ ctx'[x].tid = u
    <3> SUFFICES ASSUME NEW u \in DOMAIN kvs, NEW x \in O!Objects, ctx'[x].stx = kvs[u]
                 PROVE  ctx'[x].private /\ ctx'[x].tid = u
      OBVIOUS
    <3>1. CASE x = o
      BY <2>5, <3>1
    <3>2. CASE x # o
      BY <1>1, <3>2 DEF PoolInv
    <3> QED
      BY <3>1, <3>2
  <2>7. \A x \in O!Objects : ctx'[x].private /\ ctx'[x].stx # O!Null =>
          ctx'[x].tid \in DOMAIN kvs /\ kvs[ctx'[x].tid] = ctx'[x].stx
    <3> SUFFICES ASSUME NEW x \in O!Objects, ctx'[x].private, ctx'[x].stx # O!Null
                 PROVE  ctx'[x].tid \in DOMAIN kvs /\ kvs[ctx'[x].tid] = ctx'[x].stx
      OBVIOUS
    <3>1. CASE x = o
      BY <1>6, <3>1 DEF Allocation
    <3>2. CASE x # o
      BY <1>1, <3>2 DEF PoolInv
    <3> QED
      BY <3>1, <3>2
  <2> QED
    BY <1>2, <1>3, <1>4, <2>1, <2>3, <2>4, <2>6, <2>7 DEF PoolInv
<1> QED
  BY <1>5, <1>6

(* The slot a creation takes, and the table it takes it from. *)
Grown(G, k) ==
  /\ \E m \in Nat : DOMAIN G = 0 .. m - 1
  /\ G \in [DOMAIN G -> O!Objects \cup {O!Null}]
  /\ k \in DOMAIN G /\ k \in Nat /\ G[k] = O!Null
  /\ \A j \in DOMAIN contexts : j \in DOMAIN G /\ G[j] = contexts[j]
  /\ \A j \in DOMAIN G \ DOMAIN contexts : G[j] = O!Null

(* The slot is free, and growing the table keeps what is in it. *)
LEMMA SlotIs == ASSUME OfiTypes PROVE Grown(O!GrownTable(O!FreeSlot), O!FreeSlot)
<1> USE Constants
<1>1. PICK n \in Nat : DOMAIN contexts = 0 .. n - 1
  BY DEF OfiTypes
<1>2. O!contexts_len = n
  BY <1>1, FS_Interval, CardinalityIs DEF O!contexts_len
<1>3. PICK S : S = {j \in DOMAIN contexts : contexts[j] = O!Null}
  OBVIOUS
<1>4. PICK k : k = O!FreeSlot
  OBVIOUS
<1>5. k = IF S = {} THEN n ELSE O!Min(S)
  BY <1>2, <1>3, <1>4 DEF O!FreeSlot
<1>6. contexts \in [0 .. n - 1 -> O!Objects \cup {O!Null}]
  BY <1>1 DEF OfiTypes
<1>7. PICK G : G = O!GrownTable(k)
  OBVIOUS
<1>8. CASE S = {}
  <2>1. k = n /\ GrowSize \in Nat /\ GrowSize > 0
    BY <1>5, <1>8, TransportsAssumption
  <2>2. G = [j \in 0 .. n + GrowSize - 1 |-> IF j < n THEN contexts[j] ELSE O!Null]
    BY <1>2, <1>7, <2>1 DEF O!GrownTable
  <2>3. DOMAIN G = 0 .. (n + GrowSize) - 1 /\ n + GrowSize \in Nat
    BY <2>1, <2>2
  <2>4. G \in [DOMAIN G -> O!Objects \cup {O!Null}]
    BY <1>6, <2>1, <2>2
  <2>5. \A j \in DOMAIN G : G[j] = IF j < n THEN contexts[j] ELSE O!Null
    BY <2>2
  <2>6. k \in DOMAIN G /\ k \in Nat /\ G[k] = O!Null
    BY <2>1, <2>3, <2>5
  <2>7. \A j \in DOMAIN contexts : j \in DOMAIN G /\ G[j] = contexts[j]
    BY <1>1, <2>1, <2>3, <2>5
  <2>8. \A j \in DOMAIN G \ DOMAIN contexts : G[j] = O!Null
    BY <1>1, <2>1, <2>3, <2>5
  <2> QED
    BY <1>4, <1>7, <2>3, <2>4, <2>6, <2>7, <2>8 DEF Grown
<1>9. CASE S # {}
  <2>1. k \in S
    <3>1. S \subseteq Nat
      BY <1>1, <1>3
    <3> QED
      BY <1>5, <1>9, <3>1, MinIsLeast
  <2>2. k \in DOMAIN contexts /\ contexts[k] = O!Null /\ k \in Nat /\ k < n
    BY <1>1, <1>3, <2>1
  <2>3. G = contexts
    BY <1>2, <1>7, <2>2 DEF O!GrownTable
  <2> QED
    BY <1>1, <1>4, <1>6, <1>7, <2>2, <2>3 DEF Grown
<1> QED
  BY <1>8, <1>9

(* What ctx_init makes of object o. *)
Made(o, t, k) ==
  /\ Elsewhere(o) /\ ctx'[o].state = "live" /\ ctx'[o].id = k /\ ctx'[o].tid = t
  /\ "put_cntr" \in ctx'[o].open \/ ctx'[o].stx = O!Null
PoolTypes ==
  /\ pool' \in [DOMAIN pool -> Stx] /\ DOMAIN pool' = DOMAIN pool
  /\ kvs' \in [DOMAIN kvs' -> DOMAIN pool] /\ DOMAIN kvs' \subseteq Threads

(* The record ctx_init writes. *)
LEMMA CtxSet ==
  ASSUME OfiTypes, NEW o \in O!Objects, NEW t, NEW k, NEW q \in AnyCtx,
         q.state = "live", q.id = k, q.tid = t, "put_cntr" \in q.open \/ q.stx = O!Null,
         ctx' = [ctx EXCEPT ![o] = q]
  PROVE  Made(o, t, k) /\ ctx'[o] = q
<1>1. ctx \in [O!Objects -> AnyCtx]
  BY DEF OfiTypes
<1>2. Elsewhere(o) /\ ctx'[o] = q
  BY <1>1 DEF Elsewhere
<1> QED
  BY <1>2 DEF Made

(* ctx_init, whichever of its calls fails, leaves the pool accounted for. *)
LEMMA InitIs ==
  ASSUME OfiTypes, PoolInv, NEW o \in O!Objects, o # O!Default, ctx[o].stx = O!Null,
         NEW t \in Threads, NEW k \in Nat, NEW private \in BOOLEAN, NEW outcome \in 0 .. 5,
         O!ctx_init(t, o, k, private, outcome)
  PROVE  Made(o, t, k) /\ (ctx'[o].failed <=> outcome <= 4) /\ PoolInv' /\ PoolTypes
<1> USE Constants
<1>1. O!Len(O!Resources) = 4
  BY DEF O!Resources
<1>2. CASE outcome < 4
  <2>1. PICK opened : opened = {O!Resources[j] : j \in 1 .. outcome}
    OBVIOUS
  <2>2. opened \in SUBSET Names
    BY <1>2, <2>1 DEF O!Resources, Names
  <2>3. /\ UNCHANGED <<pool, kvs>>
        /\ ctx' = [ctx EXCEPT ![o] = [state |-> "live", id |-> k, private |-> private, tid |-> t,
                                      stx |-> O!Null, open |-> opened, failed |-> TRUE]]
    BY <1>1, <1>2, <2>1 DEF O!ctx_init, O!NoStxTaken
  <2>4. Made(o, t, k) /\ ctx'[o].stx = O!Null /\ ctx'[o].failed = TRUE
    <3>1. PICK q : q = [state |-> "live", id |-> k, private |-> private, tid |-> t,
                        stx |-> O!Null, open |-> opened, failed |-> TRUE]
      OBVIOUS
    <3>2. ctx' = [ctx EXCEPT ![o] = q]
      BY <2>3, <3>1
    <3>3. q \in AnyCtx
      BY <2>2, <3>1 DEF AnyCtx
    <3>4. q.state = "live" /\ q.id = k /\ q.tid = t /\ q.stx = O!Null /\ q.failed = TRUE
      BY <3>1
    <3>5. Made(o, t, k) /\ ctx'[o] = q
      <4>1. "put_cntr" \in q.open \/ q.stx = O!Null
        BY <3>4
      <4>2. q.state = "live" /\ q.id = k /\ q.tid = t
        BY <3>4
      <4> QED
        BY <3>2, <3>3, <4>1, <4>2, CtxSet
    <3> QED
      BY <3>4, <3>5
  <2>5. PoolInv'
    <3>1. \A x \in O!Objects : /\ ctx'[x].stx = ctx[x].stx
                               /\ ctx'[x].stx # O!Null => ctx'[x] = ctx[x]
      BY <2>4 DEF Made, Elsewhere
    <3>2. \A s : O!Holders(s)' = O!Holders(s)
      BY <3>1 DEF O!Holders
    <3>3. O!Null \notin DOMAIN pool /\ \A u \in DOMAIN kvs : kvs[u] \in DOMAIN pool
      BY DEF OfiTypes
    <3> QED
      BY <2>3, <3>1, <3>2, <3>3 DEF PoolInv, O!StxAccounting
  <2>6. PoolTypes
    BY <2>3 DEF PoolTypes, OfiTypes
  <2> QED
    BY <1>2, <2>4, <2>5, <2>6
<1>3. CASE outcome >= 4
  <2>1. PICK a \in O!stx_allocate(private, t) :
          /\ O!TakeStx(a, t)
          /\ ctx' = [ctx EXCEPT ![o] =
                       [state |-> "live", id |-> k, private |-> private /\ O!PrivateKept(a.how),
                        tid |-> t, stx |-> a.stx,
                        open |-> O!ToSet(O!Resources)
                                 \cup (IF o = O!Default /\ outcome > 4 THEN {"bounce"} ELSE {}),
                        failed |-> ~(outcome > 4)]]
    BY <1>1, <1>3 DEF O!ctx_init
  <2>2. PICK opened : opened = O!ToSet(O!Resources)
    OBVIOUS
  <2>3. opened \in SUBSET Names /\ "put_cntr" \in opened
    BY <2>2 DEF O!Resources, Names, O!ToSet
  <2>4. Allocation(a, private, t)
    BY AllocateIs
  <2>5. Taken(a, t)
    BY <2>1, <2>4, TakeIs
  <2>6. PICK s \in Int : s = a.stx
    BY <2>4 DEF Allocation, OfiTypes
  <2>7. PICK keeps \in BOOLEAN : keeps = (private /\ O!PrivateKept(a.how))
    OBVIOUS
  <2>8. PICK failed \in BOOLEAN : failed = ~(outcome > 4)
    OBVIOUS
  <2>9. PICK q : q = [state |-> "live", id |-> k, private |-> keeps, tid |-> t,
                      stx |-> s, open |-> opened, failed |-> failed]
    OBVIOUS
  <2>10. Made(o, t, k) /\ ctx'[o].stx = s /\ ctx'[o].private = keeps /\ ctx'[o].failed = failed
    <3>1. ctx' = [ctx EXCEPT ![o] = q]
      BY <2>1, <2>2, <2>6, <2>7, <2>8, <2>9
    <3>2. q \in AnyCtx
      BY <2>3, <2>9 DEF AnyCtx
    <3>3. /\ q.state = "live" /\ q.id = k /\ q.tid = t /\ q.stx = s /\ q.open = opened
          /\ q.private = keeps /\ q.failed = failed
      BY <2>9
    <3>4. Made(o, t, k) /\ ctx'[o] = q
      <4>1. "put_cntr" \in q.open \/ q.stx = O!Null
        BY <2>3, <3>3
      <4>2. q.state = "live" /\ q.id = k /\ q.tid = t
        BY <3>3
      <4> QED
        BY <3>1, <3>2, <4>1, <4>2, CtxSet
    <3> QED
      BY <3>3, <3>4
  <2>11. PoolInv'
    <3>1. ctx'[o].private <=> private /\ a.how # "fallback"
      BY <2>7, <2>10 DEF O!PrivateKept
    <3> QED
      BY <2>4, <2>5, <2>6, <2>10, <3>1, TakePool DEF Made
  <2>12. PoolTypes
    BY <2>5 DEF PoolTypes, Taken, OfiTypes
  <2> QED
    <3>1. (outcome > 4) <=> ~(outcome <= 4)
      OBVIOUS
    <3>2. ctx'[o].failed <=> outcome <= 4
      BY <2>8, <2>10, <3>1
    <3> QED
      BY <2>10, <2>11, <2>12, <3>2
<1> QED
  BY <1>2, <1>3

(* A creation, successful or not. *)
LEMMA CreateKeeps ==
  ASSUME OfiInv, NEW t \in Threads, O!CtxCreate(t) PROVE OfiInv'
<1> USE Constants
<1>1. /\ OfiTypes /\ PoolInv /\ ObjectInv /\ DefaultInv /\ ThreadInv /\ CreateInv /\ CallInv
      /\ MutexInv /\ SlotsInv /\ HomesInv /\ PhaseInv
  BY DEF OfiInv
<1>2. pc[t] = "create" /\ UNCHANGED <<multiple, lock, phase>>
  BY DEF O!CtxCreate
<1>3. cur[t] = O!Null /\ phase = "running"
  <2>1. cur[t] = O!Null
    BY <1>1, <1>2 DEF ThreadInv, Idle
  <2>2. phase = "running"
    BY <1>1, <1>2 DEF PhaseInv, Busy, Closing
  <2> QED
    BY <2>1, <2>2
<1>4. PICK o : o = O!Min({x \in O!Objects : ctx[x].state = "none"})
  OBVIOUS
<1>5. /\ o \in O!Objects /\ ctx[o].state = "none" /\ o # O!Default
      /\ ctx[o].stx = O!Null /\ \A u \in Threads : cur[u] # o
  <2>1. PICK S : S = {x \in O!Objects : ctx[x].state = "none"}
    OBVIOUS
  <2>2. S # {} /\ S \subseteq Nat
    BY <1>1, <1>2, <2>1 DEF CreateInv
  <2>3. o \in S
    BY <1>4, <2>1, <2>2, MinIsLeast
  <2>4. o \in O!Objects /\ ctx[o].state = "none"
    BY <2>1, <2>3
  <2>5. o # O!Default /\ ctx[o].stx = O!Null
    BY <1>1, <2>4 DEF DefaultInv, ObjectInv
  <2>6. \A u \in Threads : cur[u] # o
    BY <1>1, <2>4 DEF CallInv, ObjectOf
  <2> QED
    BY <2>4, <2>5, <2>6
<1>6. PICK k, G : k = O!FreeSlot /\ G = O!GrownTable(k)
  OBVIOUS
<1>7. Grown(G, k)
  BY <1>1, <1>6, SlotIs
<1>8. PICK private \in BOOLEAN, outcome \in 0 .. 5 :
        /\ O!ctx_init(t, o, k, private, outcome)
        /\ cur' = [cur EXCEPT ![t] = o]
        /\ IF outcome > 4
           THEN contexts' = [G EXCEPT ![k] = o] /\ O!Goto(t, "created")
           ELSE contexts' = G /\ O!Goto(t, "close_ep")
  <2>1. O!Len(O!Resources) = 4
    BY DEF O!Resources
  <2>2. O!Outcomes \subseteq 0 .. 5
    BY <2>1 DEF O!Outcomes
  <2> QED
    BY <1>4, <1>6, <2>1, <2>2 DEF O!CtxCreate
<1>9. Made(o, t, k) /\ (ctx'[o].failed <=> outcome <= 4) /\ PoolInv' /\ PoolTypes
  BY <1>1, <1>5, <1>7, <1>8, InitIs DEF Grown
<1>10. \A x \in O!Objects : x # o => ctx'[x] = ctx[x]
  BY <1>9 DEF Made, Elsewhere
<1>11. PICK l \in {"created", "close_ep"} : Moves(t, l, o) /\ (l = "created" <=> ~ ctx'[o].failed)
  <2>1. CASE outcome > 4
    <3>1. Moves(t, "created", o)
      BY <1>1, <1>5, <1>8, <2>1, MovesTo DEF Labels
    <3> QED
      BY <1>9, <2>1, <3>1
  <2>2. CASE outcome <= 4
    <3>1. Moves(t, "close_ep", o)
      <4>1. O!Goto(t, "close_ep") /\ "close_ep" \in Labels
        BY <1>8, <2>2 DEF Labels, Busy, Closing
      <4> QED
        BY <1>1, <1>5, <1>8, <4>1, MovesTo
    <3> QED
      BY <1>9, <2>2, <3>1
  <2> QED
    BY <2>1, <2>2
<1>12. /\ DOMAIN contexts' = DOMAIN G
       /\ contexts' \in [DOMAIN contexts' -> O!Objects \cup {O!Null}]
       /\ contexts'[k] = IF ctx'[o].failed THEN O!Null ELSE o
       /\ \A j \in DOMAIN G : j # k => contexts'[j] = G[j]
  <2>1. /\ G \in [DOMAIN G -> O!Objects \cup {O!Null}] /\ k \in DOMAIN G /\ G[k] = O!Null
    BY <1>7 DEF Grown
  <2>2. CASE outcome > 4
    BY <1>5, <1>8, <1>9, <2>1, <2>2
  <2>3. CASE outcome <= 4
    BY <1>8, <1>9, <2>1, <2>3
  <2> QED
    BY <2>2, <2>3
<1>13. \A j \in DOMAIN contexts :
         /\ j \in DOMAIN contexts' /\ (j # k => contexts'[j] = contexts[j])
         /\ j = k => contexts[j] = O!Null
  BY <1>7, <1>12 DEF Grown
<1>14. multiple => lock = t
  BY <1>1, <1>2 DEF MutexInv, Critical
<1>15. ASSUME NEW u \in Threads, u # t
       PROVE  (pc[u] = "user" /\ ~multiple) \/ (multiple /\ ~ Critical(u))
  BY <1>1, <1>2, <1>14, <1>15 DEF MutexInv
<1>16. ASSUME NEW u \in Threads \ {t}, cur[u] # O!Null, ctx[cur[u]].state = "live", cur[u] # O!Default
       PROVE  ctx[cur[u]].id \in DOMAIN contexts /\ ctx[cur[u]].id # k
  <2>1. cur[u] \in O!Objects /\ ctx[cur[u]].id \in DOMAIN contexts
    BY <1>1, <1>16 DEF HomesInv, OfiTypes
  <2>2. multiple /\ ~ Critical(u)
    BY <1>1, <1>15, <1>16 DEF ThreadInv, Idle
  <2>3. pc[u] \in Closing
    <3>1. pc[u] # "destroyed"
      BY <1>1, <1>16 DEF CallInv, ObjectOf
    <3> QED
      BY <1>1, <1>16, <2>2, <3>1 DEF ThreadInv, Critical, Idle, Busy, Closing, OfiTypes
  <2>4. ~ ctx[cur[u]].failed
    BY <1>16, <2>2 DEF Critical
  <2>5. contexts[ctx[cur[u]].id] = cur[u]
    BY <1>1, <1>16, <2>3, <2>4 DEF CallInv, SlotOf
  <2> QED
    BY <1>13, <1>16, <2>1, <2>5
<1>17. OfiTypes'
  <2>1. \E n \in Nat : DOMAIN contexts' = 0 .. n - 1
    BY <1>7, <1>12 DEF Grown
  <2>2. ctx' \in [O!Objects -> AnyCtx]
    BY <1>9 DEF Made, Elsewhere
  <2> QED
    BY <1>1, <1>2, <1>9, <1>11, <1>12, <2>1, <2>2 DEF OfiTypes, PoolTypes, Moves, Labels
<1>18. ObjectInv'
  <2>1. k # O!Null
    BY <1>7 DEF Grown
  <2> QED
    BY <1>1, <1>5, <1>9, <1>10, <2>1 DEF ObjectInv, Made
<1>19. DefaultInv'
  BY <1>1, <1>2, <1>3, <1>5, <1>9, <1>10, <1>11 DEF DefaultInv, PoolTypes, Moves
<1>20. ThreadInv'
  BY <1>1, <1>3, <1>5, <1>11 DEF ThreadInv, Moves, Idle, Busy, Closing
<1>21. CreateInv'
  BY <1>11, <1>15 DEF CreateInv, Moves, Critical
<1>22. ObjectOf(t)' /\ SlotOf(t)'
  <2>1. ObjectOf(t)'
    BY <1>9, <1>11 DEF ObjectOf, Moves, Made
  <2>2. SlotOf(t)'
    BY <1>9, <1>11, <1>12 DEF SlotOf, Moves, Made
  <2> QED
    BY <2>1, <2>2
<1>23. CallInv'
  <2>1. \A x \in O!Objects : x # cur[t] /\ ctx[x].state # "none" => ctx'[x] = ctx[x]
    BY <1>5, <1>10
  <2>2. \A u \in Threads \ {t} : cur[u] # O!Null /\ ctx[cur[u]].state = "live" /\ cur[u] # O!Default
          => contexts'[ctx[cur[u]].id] = contexts[ctx[cur[u]].id]
    BY <1>13, <1>16
  <2>3. \A u \in Threads \ {t} : cur'[u] # O!Null => ObjectOf(u)' /\ SlotOf(u)'
    BY <1>1, <1>11, <2>1, <2>2, OthersFrame
  <2> QED
    BY <1>22, <2>3 DEF CallInv
<1>24. MutexInv'
  <2>1. Critical(t)'
    BY <1>5, <1>11 DEF Critical, Moves
  <2>2. \A u \in Threads \ {t} : cur[u] # O!Null => ctx'[cur[u]].failed = ctx[cur[u]].failed
    BY <1>1, <1>5, <1>10 DEF OfiTypes
  <2>3. ctx'[o].failed => l = "close_ep"
    BY <1>11
  <2> QED
    BY <1>1, <1>2, <1>11, <1>14, <2>1, <2>2, <2>3, MutexStep
<1>25. SlotsInv'
  <2> SUFFICES ASSUME NEW j \in DOMAIN contexts', contexts'[j] # O!Null
               PROVE  /\ ctx'[contexts'[j]].state = "live" /\ ctx'[contexts'[j]].id = j
                      /\ ~ ctx'[contexts'[j]].failed
    BY DEF SlotsInv
  <2>1. CASE j = k
    BY <1>9, <1>12, <2>1 DEF Made
  <2>2. CASE j # k
    <3>1. j \in DOMAIN contexts /\ contexts[j] = contexts'[j]
      BY <1>7, <1>12, <2>2 DEF Grown
    <3>2. /\ contexts[j] \in O!Objects /\ ctx[contexts[j]].state = "live"
          /\ ctx[contexts[j]].id = j /\ ~ ctx[contexts[j]].failed
      BY <1>1, <3>1 DEF SlotsInv, OfiTypes
    <3> QED
      BY <1>5, <1>10, <3>1, <3>2
  <2> QED
    BY <2>1, <2>2
<1>26. HomesInv'
  <2> SUFFICES ASSUME NEW x \in O!Objects, ctx'[x].state = "live", x # O!Default
               PROVE  /\ ctx'[x].id \in DOMAIN contexts'
                      /\ (\A u \in Threads : cur'[u] # x) => contexts'[ctx'[x].id] = x
    BY DEF HomesInv
  <2>1. CASE x = o
    BY <1>7, <1>9, <1>11, <1>12, <2>1 DEF Made, Grown, Moves
  <2>2. CASE x # o
    <3>1. ctx'[x] = ctx[x] /\ ctx[x].id \in DOMAIN contexts
      BY <1>1, <1>10, <2>2 DEF HomesInv
    <3>2. ASSUME \A u \in Threads : cur'[u] # x PROVE contexts'[ctx[x].id] = x
      <4>1. \A u \in Threads : cur[u] # x
        BY <1>3, <1>11, <3>2 DEF Moves
      <4>2. contexts[ctx[x].id] = x
        BY <1>1, <2>2, <3>1, <4>1 DEF HomesInv
      <4> QED
        BY <1>13, <3>1, <4>2
    <3> QED
      BY <1>13, <3>1, <3>2
  <2> QED
    BY <2>1, <2>2
<1>27. PhaseInv'
  BY <1>1, <1>2, <1>3, <1>11 DEF PhaseInv, Moves
<1>28. O!FiniClean'
  BY <1>2, <1>3 DEF O!FiniClean
<1> QED
  BY <1>9, <1>17, <1>18, <1>19, <1>20, <1>21, <1>23, <1>24, <1>25, <1>26, <1>27, <1>28 DEF OfiInv

-----------------------------------------------------------------------------
(* The transport starts with the default context on the first STX.          *)
LEMMA OfiInit == O!Init => OfiInv
<1> USE Constants
<1> SUFFICES ASSUME O!Init PROVE OfiInv
  OBVIOUS
<1>1. PICK n \in Nat : O!Startup(n)
  BY TransportsAssumption DEF O!Init
<1>2. /\ multiple \in BOOLEAN /\ kvs = [t \in {} |-> O!Null] /\ contexts = [t \in {} |-> O!Null]
      /\ lock = NoThread /\ pc = [t \in Threads |-> "user"] /\ cur = [t \in Threads |-> O!Null]
      /\ phase = "running"
  BY DEF O!Init
<1>3. pool = [s \in 0 .. n - 1 |-> [ref_cnt |-> IF s = 0 THEN 1 ELSE 0, is_private |-> FALSE]]
  BY <1>1 DEF O!Startup
<1>4. PICK q : q = [state |-> "live", id |-> O!Null, private |-> FALSE, tid |-> MainThread,
                    stx |-> IF n > 0 THEN 0 ELSE O!Null,
                    open |-> O!ToSet(O!Resources) \cup {"bounce"}, failed |-> FALSE]
  OBVIOUS
<1>5. ctx = [o \in O!Objects |-> IF o # O!Default THEN O!NoCtx ELSE q]
  BY <1>1, <1>4 DEF O!Startup
<1>6. O!ToSet(O!Resources) \cup {"bounce"} \subseteq Names /\ "put_cntr" \in O!ToSet(O!Resources)
  BY DEF O!ToSet, O!Resources, Names
<1>7. q \in AnyCtx /\ O!NoCtx \in AnyCtx
  BY <1>4, <1>6 DEF AnyCtx, O!NoCtx
<1>8. /\ q.state = "live" /\ q.id = O!Null /\ q.private = FALSE /\ q.failed = FALSE
      /\ q.stx = (IF n > 0 THEN 0 ELSE O!Null) /\ "put_cntr" \in q.open
  BY <1>4, <1>6
<1>9. \A o \in O!Objects : /\ o = O!Default => ctx[o] = q
                           /\ o # O!Default => ctx[o].state = "none" /\ ctx[o].stx = O!Null
                                               /\ ctx[o].open = {} /\ ~ ctx[o].private
  BY <1>5 DEF O!NoCtx
<1>10. /\ DOMAIN pool = 0 .. n - 1
       /\ \A s \in DOMAIN pool : /\ pool[s].ref_cnt = (IF s = 0 THEN 1 ELSE 0)
                                 /\ ~ pool[s].is_private /\ pool[s] \in Stx
  BY <1>3 DEF Stx
<1>11. OfiTypes
  <2>1. pool \in [DOMAIN pool -> Stx]
    BY <1>3, <1>10
  <2>2. ctx \in [O!Objects -> AnyCtx]
    BY <1>5, <1>7
  <2>3. contexts \in [DOMAIN contexts -> O!Objects \cup {O!Null}] /\ DOMAIN contexts = 0 .. 0 - 1
    BY <1>2
  <2>4. kvs \in [DOMAIN kvs -> DOMAIN pool] /\ DOMAIN kvs \subseteq Threads
    BY <1>2
  <2>5. pc \in [Threads -> Idle \cup Busy \cup {"created"}] /\ cur \in [Threads -> O!Objects \cup {O!Null}]
    BY <1>2 DEF Idle
  <2> QED
    BY <1>2, <1>10, <2>1, <2>2, <2>3, <2>4, <2>5 DEF OfiTypes
<1>12. PoolInv
  <2>1. O!StxAccounting
    <3> SUFFICES ASSUME NEW s \in DOMAIN pool PROVE pool[s].ref_cnt = Cardinality(O!Holders(s))
      BY CardinalityIs DEF O!StxAccounting
    <3>1. s \in 0 .. n - 1 /\ n > 0 /\ s # O!Null /\ q.stx = 0
      BY <1>8, <1>10
    <3>2. \A o \in O!Objects : ctx[o].stx = IF o = O!Default THEN 0 ELSE O!Null
      BY <1>9, <3>1
    <3>3. CASE s = 0
      <4>1. O!Holders(s) = {O!Default}
        BY <3>1, <3>2, <3>3 DEF O!Holders
      <4> QED
        BY <1>10, <3>3, <4>1, FS_Singleton
    <3>4. CASE s # 0
      <4>1. O!Holders(s) = {}
        BY <3>1, <3>2, <3>4 DEF O!Holders
      <4> QED
        BY <1>10, <3>4, <4>1, FS_EmptySet
    <3> QED
      BY <3>3, <3>4
  <2>2. \A o \in O!Objects : ctx[o].stx \in DOMAIN pool \cup {O!Null} /\ ~ ctx[o].private
    BY <1>8, <1>9, <1>10
  <2>3. DOMAIN kvs = {}
    BY <1>2
  <2> QED
    BY <1>10, <2>1, <2>2, <2>3 DEF PoolInv
<1>13. ObjectInv
  BY <1>8, <1>9 DEF ObjectInv
<1>14. DefaultInv
  BY <1>2, <1>8, <1>9, <1>10 DEF DefaultInv
<1>15. ThreadInv /\ CreateInv /\ CallInv
  BY <1>2 DEF ThreadInv, CreateInv, CallInv, Idle, Busy, Closing
<1>16. MutexInv
  BY <1>2 DEF MutexInv, Critical
<1>17. SlotsInv /\ HomesInv
  BY <1>2, <1>9 DEF SlotsInv, HomesInv
<1>18. PhaseInv /\ O!FiniClean
  BY <1>2 DEF PhaseInv, O!FiniClean
<1> QED
  BY <1>11, <1>12, <1>13, <1>14, <1>15, <1>16, <1>17, <1>18 DEF OfiInv

(* Every step of the transport keeps the invariant. *)
LEMMA OfiNext == OfiInv /\ O!Next => OfiInv'
<1> SUFFICES ASSUME OfiInv, O!Next PROVE OfiInv'
  OBVIOUS
<1>1. ASSUME NEW t \in Threads, O!CtxStep(t) PROVE OfiInv'
  BY <1>1, CreateLockKeeps, CreateKeeps, CreateUnlockKeeps, DestroyKeeps, CloseEpKeeps,
     ReleaseKeeps, ReleaseUnlockKeeps, CloseRestKeeps, ClearSlotKeeps, FreeKeeps, DestroyedKeeps
     DEF O!CtxStep
<1>2. CASE O!FiniStart \/ O!TeamFini \/ O!TransportFini
  BY <1>2, FiniStartKeeps, TeamFiniKeeps, TransportFiniKeeps
<1>3. CASE O!Finished
  BY <1>3, StutterKeeps DEF O!Finished
<1> QED
  BY <1>1, <1>2, <1>3 DEF O!Next

OfiIndInv == transport = "ofi" => OfiInv

(* The invariant holds throughout. *)
LEMMA OfiInvariant == Spec => []OfiIndInv
<1>1. Init => OfiIndInv
  BY OfiInit DEF Init, OfiIndInv
<1>2. OfiIndInv /\ [Next]_vars => OfiIndInv'
  <2> SUFFICES ASSUME OfiIndInv, [Next]_vars, transport' = "ofi" PROVE OfiInv'
    BY DEF OfiIndInv
  <2>1. CASE Next
    BY <2>1, OfiNext DEF Next, OfiIndInv
  <2>2. CASE UNCHANGED vars
    <3>1. OfiInv /\ UNCHANGED O!vars
      BY <2>2 DEF vars, ofiOnly, O!vars, OfiIndInv
    <3> QED
      BY <3>1, StutterKeeps
  <2> QED
    BY <2>1, <2>2
<1> QED
  BY <1>1, <1>2, PTL DEF Spec

(* The reference count of every shared transmit context is the number of   *)
(* contexts that hold it, a private one belongs to one thread only, and    *)
(* until the shutdown some STX can be shared, so that the assertions after *)
(* the searches hold (transport_ofi.c:491-562, 1697-1724): for any number  *)
(* of threads, contexts and STXs, both allocators, and any interleaving of *)
(* creations, failures of creations and destructions.                      *)
THEOREM StxsAreShared == Spec => []StxSharing
<1>1. OfiIndInv => StxSharing
  <2> SUFFICES ASSUME OfiInv PROVE O!StxAccounting /\ O!PrivateExclusive /\ O!SharedAvailable
    BY DEF OfiIndInv, StxSharing
  <2> USE Constants, CardinalityIs
  <2>1. OfiTypes /\ PoolInv /\ DefaultInv
    BY DEF OfiInv
  <2>2. O!StxAccounting
    BY <2>1 DEF PoolInv
  <2>3. O!PrivateExclusive
    <3>1. ASSUME NEW s \in DOMAIN pool
          PROVE  pool[s].is_private <=> Cardinality({t \in DOMAIN kvs : kvs[t] = s}) = 1
      <4>1. PICK S : S = {t \in DOMAIN kvs : kvs[t] = s}
        OBVIOUS
      <4>2. pool[s].is_private <=> S # {}
        BY <2>1, <4>1 DEF PoolInv
      <4>3. CASE S = {}
        BY <4>1, <4>2, <4>3, FS_EmptySet
      <4>4. CASE S # {}
        <5>1. PICK t : t \in S
          BY <4>4
        <5>2. \A v, w \in DOMAIN kvs : kvs[v] = kvs[w] => v = w
          BY <2>1 DEF PoolInv
        <5>3. S = {t}
          BY <4>1, <5>1, <5>2
        <5> QED
          BY <4>1, <4>2, <4>4, <5>3, FS_Singleton
      <4> QED
        BY <4>3, <4>4
    <3>2. \A t \in DOMAIN kvs, o \in O!Objects : ctx[o].stx = kvs[t] => ctx[o].private /\ ctx[o].tid = t
      BY <2>1 DEF PoolInv
    <3> QED
      BY <3>1, <3>2 DEF O!PrivateExclusive
  <2>4. O!SharedAvailable
    <3> SUFFICES ASSUME O!stx_max > 0, phase \in {"running", "team_fini"} PROVE O!Shareable(-1) # {}
      BY DEF O!SharedAvailable
    <3>1. DOMAIN pool # {}
      BY FS_EmptySet DEF O!stx_max
    <3>2. 0 \in DOMAIN pool /\ ctx[O!Default].stx = 0 /\ ~ ctx[O!Default].private
      BY <2>1, <3>1 DEF DefaultInv
    <3>3. O!Default \in O!Holders(0)
      BY <3>2 DEF O!Holders
    <3>4. pool[0].ref_cnt > 0
      <4>1. pool[0].ref_cnt = Cardinality(O!Holders(0))
        BY <2>2, <3>2 DEF O!StxAccounting
      <4>2. Cardinality(O!Holders(0)) # 0 /\ Cardinality(O!Holders(0)) \in Nat
        BY <3>3, HoldersFinite, FS_EmptySet
      <4> QED
        BY <4>1, <4>2
    <3>5. ~ pool[0].is_private
      BY <2>1, <3>2 DEF PoolInv
    <3> QED
      BY <3>2, <3>4, <3>5 DEF O!Shareable
  <2> QED
    BY <2>2, <2>3, <2>4
<1> QED
  BY <1>1, OfiInvariant, PTL

(* The table of contexts has no dangling entry and misses no live context, *)
(* after the shutdown every fabric object is closed, and the only thread   *)
(* that waits for the mutex it holds is inside a creation that failed      *)
(* (transport_ofi.c:1594-1780).                                            *)
THEOREM ContextsAreClean == Spec => []ContextsClean
<1>1. OfiIndInv => ContextsClean
  <2> SUFFICES ASSUME OfiInv PROVE O!TableSound /\ O!FiniClean /\ O!OnlyFailedCreateHangs
    BY DEF OfiIndInv, ContextsClean
  <2>1. SlotsInv /\ HomesInv /\ MutexInv /\ O!FiniClean /\ OfiTypes
    BY DEF OfiInv
  <2>2. O!TableSound
    BY <2>1 DEF SlotsInv, HomesInv, O!TableSound
  <2>3. O!OnlyFailedCreateHangs
    <3> SUFFICES ASSUME NEW t \in Threads, O!SelfDeadlocked(t) PROVE ctx[cur[t]].failed
      BY DEF O!OnlyFailedCreateHangs
    <3>1. lock = t /\ pc[t] \in {"stx_lock", "slot_lock"}
      BY DEF O!SelfDeadlocked
    <3>2. multiple
      BY <2>1, <3>1, Constants DEF MutexInv
    <3>3. Critical(t)
      BY <2>1, <3>1, <3>2 DEF MutexInv
    <3> QED
      BY <3>1, <3>3 DEF Critical
  <2> QED
    BY <2>1, <2>2, <2>3
<1> QED
  BY <1>1, OfiInvariant, PTL
=============================================================================
