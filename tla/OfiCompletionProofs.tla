------------------------- MODULE OfiCompletionProofs -------------------------
(***************************************************************************)
(* Proofs, for any number of threads, operations, fragments and bounce     *)
(* buffers and for both builds, that a completion call of the OFI          *)
(* transport returns only when what was counted before it has completed,   *)
(* and that every bounce buffer in use is accounted for.                   *)
(***************************************************************************)
EXTENDS OfiCompletion, FiniteSetTheorems, TLAPS

Inv == Types /\ CompletionCounting /\ QuietCompletes

(* n completions among n operations are all of them. *)
LEMMA AllCounted ==
  ASSUME NEW n \in Nat, NEW S, S \subseteq 1 .. n, n <= Cardinality(S)
  PROVE  S = 1 .. n
<1>1. IsFiniteSet(1 .. n) /\ Cardinality(1 .. n) = n
  BY FS_Interval
<1>2. IsFiniteSet(S) /\ Cardinality(S) <= n
  BY <1>1, FS_Subset
<1>3. Cardinality(S) \in Nat
  BY <1>2, FS_CardinalityType
<1>4. Cardinality(S) = Cardinality(1 .. n)
  BY <1>1, <1>2, <1>3
<1> QED
  BY <1>1, <1>4, FS_Subset

(* The event counters are natural numbers and only grow. *)
LEMMA CounterFacts ==
  ASSUME NEW n \in Nat, NEW S, S \subseteq 1 .. n, NEW x
  PROVE  /\ IsFiniteSet(S)
         /\ Cardinality(S) \in Nat
         /\ Cardinality(S) <= Cardinality(S \cup {x})
         /\ Cardinality(S \cup {x}) \in Nat
<1>1. IsFiniteSet(1 .. n)
  BY FS_Interval
<1>2. IsFiniteSet(S)
  BY <1>1, FS_Subset
<1>3. IsFiniteSet(S \cup {x})
  BY <1>2, FS_AddElement
<1>4. Cardinality(S) <= Cardinality(S \cup {x})
  BY <1>3, FS_Subset
<1> QED
  BY <1>2, <1>3, <1>4, FS_CardinalityType

(* In a state of the invariant the event counters are natural numbers. *)
LEMMA CounterType ==
  ASSUME Inv
  PROVE  \A k \in Kinds : fi_cntr_read(k) \in Nat
<1> TAKE k \in Kinds
<1>1. pending[k] \in Nat /\ done[k] \subseteq 1 .. pending[k]
  BY DEF Inv, Types, CompletionCounting, Counted
<1> QED
  BY <1>1, CounterFacts DEF fi_cntr_read

(* When the event counter of a kind has reached its pending counter, every *)
(* operation of that kind is complete.                                     *)
LEMMA LevelCompletes ==
  ASSUME Inv, NEW t \in Threads, NEW k \in Kinds, pending[k] <= fi_cntr_read(k)
  PROVE  Completed(t, k)
<1>1. pending[k] \in Nat /\ done[k] \subseteq 1 .. pending[k]
  BY DEF Inv, Types, CompletionCounting, Counted
<1>2. done[k] = 1 .. pending[k]
  BY <1>1, AllCounted DEF fi_cntr_read
<1>3. before[t][k] \in Nat /\ before[t][k] <= pending[k]
  BY DEF Inv, Types, CompletionCounting, ReadsLag
<1> QED
  BY <1>1, <1>2, <1>3 DEF Completed

(* The invariant holds initially. *)
LEMMA InitInv == Init => Inv
<1> USE DEF Init
<1>0. IsFiniteSet({})
  BY FS_EmptySet
<1>1. Init => Types
  BY <1>0 DEF Types, Points, Ops, NoOp, Kinds
<1>2. Init => CompletionCounting
  BY DEF CompletionCounting, Counted, ReadsLag, StagesPassed, Issuing, InStage, Kinds
<1>3. Init => QuietCompletes
  BY DEF QuietCompletes
<1> QED
  BY <1>1, <1>2, <1>3 DEF Inv

(* The invariant is preserved by taking the lock of the bounce buffers. *)
LEMMA create_lock_Inv ==
  ASSUME Inv, NEW t \in Threads, create_lock(t)
  PROVE  Inv'
<1> USE DEF Inv, CompletionCounting, Kinds, create_lock, Goto, netVars, lockVars, issueVars, waitVars
<1>1. Types'
  BY DEF Types, Points, Ops, NoOp, Bound, CTX_LOCK, CTX_UNLOCK, First
<1>2. Counted'
  BY DEF Types, Ops, Counted, Issuing, Counting
<1>3. ReadsLag'
  BY CounterType DEF Types, ReadsLag, fi_cntr_read
<1>4. StagesPassed'
  BY DEF Types, StagesPassed, InStage, Stages, Completed, First
<1>5. QuietCompletes'
  BY DEF Types, QuietCompletes, StagesPassed, InStage, Completed
<1> QED
  BY <1>1, <1>2, <1>3, <1>4, <1>5

(* The invariant is preserved by draining for a free bounce buffer. *)
LEMMA create_drain_Inv ==
  ASSUME Inv, NEW t \in Threads, create_drain(t)
  PROVE  Inv'
<1> USE DEF Inv, CompletionCounting, Kinds, create_drain, drain_cq, Goto, netVars, lockVars, issueVars, waitVars
<1>a. IsFiniteSet({})
  BY FS_EmptySet
<1>b. Cardinality(cq) \in Nat
  BY FS_CardinalityType DEF Types
<1>1. Types'
  BY <1>a, <1>b DEF Types, Points, Ops, NoOp, Bound, CTX_LOCK, CTX_UNLOCK, First
<1>2. Counted'
  BY DEF Types, Ops, Counted, Issuing, Counting
<1>3. ReadsLag'
  BY CounterType DEF Types, ReadsLag, fi_cntr_read
<1>4. StagesPassed'
  BY DEF Types, StagesPassed, InStage, Stages, Completed, First
<1>5. QuietCompletes'
  BY DEF Types, QuietCompletes, StagesPassed, InStage, Completed
<1> QED
  BY <1>1, <1>2, <1>3, <1>4, <1>5

(* The invariant is preserved by taking a bounce buffer. *)
LEMMA create_alloc_Inv ==
  ASSUME Inv, NEW t \in Threads, create_alloc(t)
  PROVE  Inv'
<1> USE DEF Inv, CompletionCounting, Kinds, create_alloc, Goto, netVars, lockVars, issueVars, waitVars
<1>1. Types'
  BY DEF Types, Points, Ops, NoOp, Bound, CTX_LOCK, CTX_UNLOCK, First
<1>2. Counted'
  BY DEF Types, Ops, Counted, Issuing, Counting
<1>3. ReadsLag'
  BY CounterType DEF Types, ReadsLag, fi_cntr_read
<1>4. StagesPassed'
  BY DEF Types, StagesPassed, InStage, Stages, Completed, First
<1>5. QuietCompletes'
  BY DEF Types, QuietCompletes, StagesPassed, InStage, Completed
<1> QED
  BY <1>1, <1>2, <1>3, <1>4, <1>5

(* The invariant is preserved by handing the last fragment to libfabric. *)
LEMMA fi_issue_Inv ==
  ASSUME Inv, NEW t \in Threads, fi_issue(t)
  PROVE  Inv'
<1> USE DEF Inv, CompletionCounting, Kinds, fi_issue, Goto, netVars, lockVars, issueVars, waitVars
<1>1. Types'
  BY DEF Types, Points, Ops, NoOp, Bound, CTX_LOCK, CTX_UNLOCK, First
<1>2. Counted'
  BY DEF Types, Ops, Counted, Issuing, Counting
<1>3. ReadsLag'
  BY CounterType DEF Types, ReadsLag, fi_cntr_read
<1>4. StagesPassed'
  BY DEF Types, StagesPassed, InStage, Stages, Completed, First
<1>5. QuietCompletes'
  BY DEF Types, QuietCompletes, StagesPassed, InStage, Completed
<1> QED
  BY <1>1, <1>2, <1>3, <1>4, <1>5

(* The invariant is preserved by handing a fragment to libfabric. *)
LEMMA fi_issue_frag_Inv ==
  ASSUME Inv, NEW t \in Threads, fi_issue_frag(t)
  PROVE  Inv'
<1> USE DEF Inv, CompletionCounting, Kinds, fi_issue_frag, CNTR_INC, Goto, netVars, lockVars, issueVars, waitVars
<1>1. Types'
  BY DEF Types, Points, Ops, NoOp, Bound, CTX_LOCK, CTX_UNLOCK, First
<1>2. Counted'
  BY DEF Types, Ops, Counted, Issuing, Counting
<1>3. ReadsLag'
  BY CounterType DEF Types, ReadsLag, fi_cntr_read
<1>4. StagesPassed'
  BY DEF Types, StagesPassed, InStage, Stages, Completed, First
<1>5. QuietCompletes'
  BY DEF Types, QuietCompletes, StagesPassed, InStage, Completed
<1> QED
  BY <1>1, <1>2, <1>3, <1>4, <1>5

(* The invariant is preserved by an operation that libfabric refuses. *)
LEMMA fi_eagain_Inv ==
  ASSUME Inv, NEW t \in Threads, fi_eagain(t)
  PROVE  Inv'
<1> USE DEF Inv, CompletionCounting, Kinds, fi_eagain, Goto, netVars, lockVars, issueVars, waitVars
<1>1. Types'
  BY DEF Types, Points, Ops, NoOp, Bound, CTX_LOCK, CTX_UNLOCK, First
<1>2. Counted'
  BY DEF Types, Ops, Counted, Issuing, Counting
<1>3. ReadsLag'
  BY CounterType DEF Types, ReadsLag, fi_cntr_read
<1>4. StagesPassed'
  BY DEF Types, StagesPassed, InStage, Stages, Completed, First
<1>5. QuietCompletes'
  BY DEF Types, QuietCompletes, StagesPassed, InStage, Completed
<1> QED
  BY <1>1, <1>2, <1>3, <1>4, <1>5

(* The invariant is preserved by the retry. *)
LEMMA try_again_Inv ==
  ASSUME Inv, NEW t \in Threads, try_again(t)
  PROVE  Inv'
<1> USE DEF Inv, CompletionCounting, Kinds, try_again, drain_cq, Goto, netVars, lockVars, issueVars, waitVars
<1>a. IsFiniteSet({})
  BY FS_EmptySet
<1>b. Cardinality(cq) \in Nat
  BY FS_CardinalityType DEF Types
<1>1. Types'
  BY <1>a, <1>b DEF Types, Points, Ops, NoOp, Bound, CTX_LOCK, CTX_UNLOCK, First
<1>2. Counted'
  BY DEF Types, Ops, Counted, Issuing, Counting
<1>3. ReadsLag'
  BY CounterType DEF Types, ReadsLag, fi_cntr_read
<1>4. StagesPassed'
  BY DEF Types, StagesPassed, InStage, Stages, Completed, First
<1>5. QuietCompletes'
  BY DEF Types, QuietCompletes, StagesPassed, InStage, Completed
<1> QED
  BY <1>1, <1>2, <1>3, <1>4, <1>5

(* The invariant is preserved by put_quiet taking the lock of the bounce buffers. *)
LEMMA quiet_bb_lock_Inv ==
  ASSUME Inv, NEW t \in Threads, quiet_bb_lock(t)
  PROVE  Inv'
<1> USE DEF Inv, CompletionCounting, Kinds, quiet_bb_lock, Goto, netVars, lockVars, issueVars, waitVars
<1>1. Types'
  BY DEF Types, Points, Ops, NoOp, Bound, CTX_LOCK, CTX_UNLOCK, First
<1>2. Counted'
  BY DEF Types, Ops, Counted, Issuing, Counting
<1>3. ReadsLag'
  BY CounterType DEF Types, ReadsLag, fi_cntr_read
<1>4. StagesPassed'
  BY DEF Types, StagesPassed, InStage, Stages, Completed, First
<1>5. QuietCompletes'
  BY DEF Types, QuietCompletes, StagesPassed, InStage, Completed
<1> QED
  BY <1>1, <1>2, <1>3, <1>4, <1>5

(* The invariant is preserved by put_quiet draining the queue. *)
LEMMA quiet_drain_Inv ==
  ASSUME Inv, NEW t \in Threads, quiet_drain(t)
  PROVE  Inv'
<1> USE DEF Inv, CompletionCounting, Kinds, quiet_drain, drain_cq, Goto, netVars, lockVars, issueVars, waitVars
<1>a. IsFiniteSet({})
  BY FS_EmptySet
<1>b. Cardinality(cq) \in Nat
  BY FS_CardinalityType DEF Types
<1>1. Types'
  BY <1>a, <1>b DEF Types, Points, Ops, NoOp, Bound, CTX_LOCK, CTX_UNLOCK, First
<1>2. Counted'
  BY DEF Types, Ops, Counted, Issuing, Counting
<1>3. ReadsLag'
  BY CounterType DEF Types, ReadsLag, fi_cntr_read
<1>4. StagesPassed'
  BY DEF Types, StagesPassed, InStage, Stages, Completed, First
<1>5. QuietCompletes'
  BY DEF Types, QuietCompletes, StagesPassed, InStage, Completed
<1> QED
  BY <1>1, <1>2, <1>3, <1>4, <1>5

(* The invariant is preserved by put_quiet leaving the bounce buffers. *)
LEMMA quiet_drained_Inv ==
  ASSUME Inv, NEW t \in Threads, quiet_drained(t)
  PROVE  Inv'
<1> USE DEF Inv, CompletionCounting, Kinds, quiet_drained, Goto, netVars, lockVars, issueVars, waitVars
<1>a. IsFiniteSet({})
  BY FS_EmptySet
<1>b. Cardinality(cq) \in Nat
  BY FS_CardinalityType DEF Types
<1>1. Types'
  BY <1>a, <1>b DEF Types, Points, Ops, NoOp, Bound, CTX_LOCK, CTX_UNLOCK, First
<1>2. Counted'
  BY DEF Types, Ops, Counted, Issuing, Counting
<1>3. ReadsLag'
  BY CounterType DEF Types, ReadsLag, fi_cntr_read
<1>4. StagesPassed'
  BY DEF Types, StagesPassed, InStage, Stages, Completed, First
<1>5. QuietCompletes'
  BY DEF Types, QuietCompletes, StagesPassed, InStage, Completed
<1> QED
  BY <1>1, <1>2, <1>3, <1>4, <1>5

(* The invariant is preserved by reading the event counter. *)
LEMMA poll_success_Inv ==
  ASSUME Inv, NEW t \in Threads, poll_success(t)
  PROVE  Inv'
<1> USE DEF Inv, CompletionCounting, Kinds, poll_success, Goto, netVars, lockVars, issueVars, waitVars
<1>1. Types'
  BY CounterType DEF Types, Points, Ops, NoOp, Bound, CTX_LOCK, CTX_UNLOCK, First
<1>2. Counted'
  BY DEF Types, Ops, Counted, Issuing, Counting
<1>3. ReadsLag'
  BY CounterType DEF Types, ReadsLag, fi_cntr_read
<1>4. StagesPassed'
  BY DEF Types, StagesPassed, InStage, Stages, Completed, First
<1>5. QuietCompletes'
  BY DEF Types, QuietCompletes, StagesPassed, InStage, Completed
<1> QED
  BY <1>1, <1>2, <1>3, <1>4, <1>5

(* The invariant is preserved by finding the counters level. *)
LEMMA poll_level_Inv ==
  ASSUME Inv, NEW t \in Threads, poll_level(t)
  PROVE  Inv'
<1> USE DEF Inv, CompletionCounting, Kinds, poll_level, stage_done, Goto, netVars, lockVars, issueVars, waitVars
<1>a. stage[t] \in Kinds /\ pending[stage[t]] <= fi_cntr_read(stage[t])
  BY CounterType DEF Types, ReadsLag
<1>b. Completed(t, stage[t])
  BY <1>a, LevelCompletes DEF Inv, CompletionCounting
<1>c. UNCHANGED <<done, before, call, stage>>
  OBVIOUS
<1>d. \A u \in Threads, k \in Kinds : Completed(u, k)' <=> Completed(u, k)
  BY <1>c DEF Completed
<1>1. Types'
  BY DEF Types, Points, Ops, NoOp, Bound, CTX_LOCK, CTX_UNLOCK, First
<1>2. Counted'
  BY DEF Types, Ops, Counted, Issuing, Counting
<1>3. ReadsLag'
  BY CounterType DEF Types, ReadsLag, fi_cntr_read
<1>4. StagesPassed'
  BY <1>b, <1>c, <1>d DEF Types, StagesPassed, InStage, Stages
<1>5. QuietCompletes'
  <2> SUFFICES ASSUME NEW u \in Threads, pc'[u] = "returned",
                      NEW k \in Stages(call[u])
               PROVE  Completed(u, k)
    BY <1>c, <1>d DEF QuietCompletes, Stages
  <2>1. CASE u # t
    BY <2>1 DEF Types, QuietCompletes
  <2>2. CASE u = t
    <3>1. call[t] \in {"quiet", "put_wait", "get_wait"} /\ stage[t] \in Stages(call[t])
      BY DEF Types, StagesPassed, InStage
    <3>2. ~ (call[t] = "quiet" /\ stage[t] = "put")
      BY <2>2 DEF Types
    <3>3. call[t] = "quiet" /\ stage[t] = "get" => Completed(t, "put")
      BY DEF Types, StagesPassed, InStage
    <3> QED
      BY <1>a, <1>b, <2>2, <3>1, <3>2, <3>3 DEF Stages
  <2> QED
    BY <2>1, <2>2
<1> QED
  BY <1>1, <1>2, <1>3, <1>4, <1>5

(* The invariant is preserved by finding the counters not level. *)
LEMMA poll_yield_Inv ==
  ASSUME Inv, NEW t \in Threads, poll_yield(t)
  PROVE  Inv'
<1> USE DEF Inv, CompletionCounting, Kinds, poll_yield, Goto, netVars, lockVars, issueVars, waitVars
<1>1. Types'
  BY DEF Types, Points, Ops, NoOp, Bound, CTX_LOCK, CTX_UNLOCK, First
<1>2. Counted'
  BY DEF Types, Ops, Counted, Issuing, Counting
<1>3. ReadsLag'
  BY CounterType DEF Types, ReadsLag, fi_cntr_read
<1>4. StagesPassed'
  BY DEF Types, StagesPassed, InStage, Stages, Completed, First
<1>5. QuietCompletes'
  BY DEF Types, QuietCompletes, StagesPassed, InStage, Completed
<1> QED
  BY <1>1, <1>2, <1>3, <1>4, <1>5

(* The invariant is preserved by polling again. *)
LEMMA relock_Inv ==
  ASSUME Inv, NEW t \in Threads, relock(t)
  PROVE  Inv'
<1> USE DEF Inv, CompletionCounting, Kinds, relock, Goto, netVars, lockVars, issueVars, waitVars
<1>1. Types'
  BY DEF Types, Points, Ops, NoOp, Bound, CTX_LOCK, CTX_UNLOCK, First
<1>2. Counted'
  BY DEF Types, Ops, Counted, Issuing, Counting
<1>3. ReadsLag'
  BY CounterType DEF Types, ReadsLag, fi_cntr_read
<1>4. StagesPassed'
  BY DEF Types, StagesPassed, InStage, Stages, Completed, First
<1>5. QuietCompletes'
  BY DEF Types, QuietCompletes, StagesPassed, InStage, Completed
<1> QED
  BY <1>1, <1>2, <1>3, <1>4, <1>5

(* The invariant is preserved by quiet going on to the gets. *)
LEMMA get_lock_Inv ==
  ASSUME Inv, NEW t \in Threads, get_lock(t)
  PROVE  Inv'
<1> USE DEF Inv, CompletionCounting, Kinds, get_lock, Goto, netVars, lockVars, issueVars, waitVars
<1>1. Types'
  BY DEF Types, Points, Ops, NoOp, Bound, CTX_LOCK, CTX_UNLOCK, First
<1>2. Counted'
  BY DEF Types, Ops, Counted, Issuing, Counting
<1>3. ReadsLag'
  BY CounterType DEF Types, ReadsLag, fi_cntr_read
<1>4. StagesPassed'
  BY DEF Types, StagesPassed, InStage, Stages, Completed, First
<1>5. QuietCompletes'
  BY DEF Types, QuietCompletes, StagesPassed, InStage, Completed
<1> QED
  BY <1>1, <1>2, <1>3, <1>4, <1>5

(* The invariant is preserved by reading the pending counter. *)
LEMMA wait_begin_Inv ==
  ASSUME Inv, NEW t \in Threads, wait_begin(t)
  PROVE  Inv'
<1> USE DEF Inv, CompletionCounting, Kinds, wait_begin, Goto, netVars, lockVars, issueVars, waitVars
<1>1. Types'
  BY DEF Types, Points, Ops, NoOp, Bound, CTX_LOCK, CTX_UNLOCK, First
<1>2. Counted'
  BY DEF Types, Ops, Counted, Issuing, Counting
<1>3. ReadsLag'
  BY CounterType DEF Types, ReadsLag, fi_cntr_read
<1>4. StagesPassed'
  BY DEF Types, StagesPassed, InStage, Stages, Completed, First
<1>5. QuietCompletes'
  BY DEF Types, QuietCompletes, StagesPassed, InStage, Completed
<1> QED
  BY <1>1, <1>2, <1>3, <1>4, <1>5

(* The invariant is preserved by the return of fi_cntr_wait. *)
LEMMA fi_cntr_wait_Inv ==
  ASSUME Inv, NEW t \in Threads, fi_cntr_wait(t)
  PROVE  Inv'
<1> USE DEF Inv, CompletionCounting, Kinds, fi_cntr_wait, Goto, netVars, lockVars, issueVars, waitVars
<1>1. Types'
  BY DEF Types, Points, Ops, NoOp, Bound, CTX_LOCK, CTX_UNLOCK, First
<1>2. Counted'
  BY DEF Types, Ops, Counted, Issuing, Counting
<1>3. ReadsLag'
  BY CounterType DEF Types, ReadsLag, fi_cntr_read
<1>4. StagesPassed'
  BY DEF Types, StagesPassed, InStage, Stages, Completed, First
<1>5. QuietCompletes'
  BY DEF Types, QuietCompletes, StagesPassed, InStage, Completed
<1> QED
  BY <1>1, <1>2, <1>3, <1>4, <1>5

(* The invariant is preserved by finding that more was issued. *)
LEMMA wait_more_Inv ==
  ASSUME Inv, NEW t \in Threads, wait_more(t)
  PROVE  Inv'
<1> USE DEF Inv, CompletionCounting, Kinds, wait_more, Goto, netVars, lockVars, issueVars, waitVars
<1>1. Types'
  BY DEF Types, Points, Ops, NoOp, Bound, CTX_LOCK, CTX_UNLOCK, First
<1>2. Counted'
  BY DEF Types, Ops, Counted, Issuing, Counting
<1>3. ReadsLag'
  BY CounterType DEF Types, ReadsLag, fi_cntr_read
<1>4. StagesPassed'
  BY DEF Types, StagesPassed, InStage, Stages, Completed, First
<1>5. QuietCompletes'
  BY DEF Types, QuietCompletes, StagesPassed, InStage, Completed
<1> QED
  BY <1>1, <1>2, <1>3, <1>4, <1>5

(* The invariant is preserved by finding that no more was issued. *)
LEMMA wait_level_Inv ==
  ASSUME Inv, NEW t \in Threads, wait_level(t)
  PROVE  Inv'
<1> USE DEF Inv, CompletionCounting, Kinds, wait_level, stage_done, Goto, netVars, lockVars, issueVars, waitVars
<1>a. stage[t] \in Kinds /\ pending[stage[t]] <= fi_cntr_read(stage[t])
  BY CounterType DEF Types, ReadsLag
<1>b. Completed(t, stage[t])
  BY <1>a, LevelCompletes DEF Inv, CompletionCounting
<1>c. UNCHANGED <<done, before, call, stage>>
  OBVIOUS
<1>d. \A u \in Threads, k \in Kinds : Completed(u, k)' <=> Completed(u, k)
  BY <1>c DEF Completed
<1>1. Types'
  BY DEF Types, Points, Ops, NoOp, Bound, CTX_LOCK, CTX_UNLOCK, First
<1>2. Counted'
  BY DEF Types, Ops, Counted, Issuing, Counting
<1>3. ReadsLag'
  BY CounterType DEF Types, ReadsLag, fi_cntr_read
<1>4. StagesPassed'
  BY <1>b, <1>c, <1>d DEF Types, StagesPassed, InStage, Stages
<1>5. QuietCompletes'
  <2> SUFFICES ASSUME NEW u \in Threads, pc'[u] = "returned",
                      NEW k \in Stages(call[u])
               PROVE  Completed(u, k)
    BY <1>c, <1>d DEF QuietCompletes, Stages
  <2>1. CASE u # t
    BY <2>1 DEF Types, QuietCompletes
  <2>2. CASE u = t
    <3>1. call[t] \in {"quiet", "put_wait", "get_wait"} /\ stage[t] \in Stages(call[t])
      BY DEF Types, StagesPassed, InStage
    <3>2. ~ (call[t] = "quiet" /\ stage[t] = "put")
      BY <2>2 DEF Types
    <3>3. call[t] = "quiet" /\ stage[t] = "get" => Completed(t, "put")
      BY DEF Types, StagesPassed, InStage
    <3> QED
      BY <1>a, <1>b, <2>2, <3>1, <3>2, <3>3 DEF Stages
  <2> QED
    BY <2>1, <2>2
<1> QED
  BY <1>1, <1>2, <1>3, <1>4, <1>5

(* The invariant is preserved by going on after a completion call. *)
LEMMA return_Inv ==
  ASSUME Inv, NEW t \in Threads, return(t)
  PROVE  Inv'
<1> USE DEF Inv, CompletionCounting, Kinds, return, Goto, netVars, lockVars, issueVars, waitVars
<1>1. Types'
  BY DEF Types, Points, Ops, NoOp, Bound, CTX_LOCK, CTX_UNLOCK, First
<1>2. Counted'
  BY DEF Types, Ops, Counted, Issuing, Counting
<1>3. ReadsLag'
  BY CounterType DEF Types, ReadsLag, fi_cntr_read
<1>4. StagesPassed'
  BY DEF Types, StagesPassed, InStage, Stages, Completed, First
<1>5. QuietCompletes'
  BY DEF Types, QuietCompletes, StagesPassed, InStage, Completed
<1> QED
  BY <1>1, <1>2, <1>3, <1>4, <1>5

(* The invariant is preserved by counting a put or a get. *)
LEMMA issue_begin_Inv ==
  ASSUME Inv, NEW t \in Threads, NEW k \in Kinds, NEW n \in 1 .. build.frags, issue_begin(t, k, n)
  PROVE  Inv'
<1> USE DEF Inv, CompletionCounting, Kinds, issue_begin, CNTR_INC, Goto, netVars, lockVars, issueVars, waitVars
<1>1. Types'
  BY DEF Types, Points, Ops, NoOp, Bound, CTX_LOCK, CTX_UNLOCK, First
<1>2. Counted'
  BY DEF Types, Ops, Counted, Issuing, Counting
<1>3. ReadsLag'
  BY CounterType DEF Types, ReadsLag, fi_cntr_read
<1>4. StagesPassed'
  BY DEF Types, StagesPassed, InStage, Stages, Completed, First
<1>5. QuietCompletes'
  BY DEF Types, QuietCompletes, StagesPassed, InStage, Completed
<1> QED
  BY <1>1, <1>2, <1>3, <1>4, <1>5

(* The invariant is preserved by counting a buffered put. *)
LEMMA bounce_begin_Inv ==
  ASSUME Inv, NEW t \in Threads, bounce_begin(t)
  PROVE  Inv'
<1> USE DEF Inv, CompletionCounting, Kinds, bounce_begin, CNTR_INC, Goto, netVars, lockVars, issueVars, waitVars
<1>1. Types'
  BY DEF Types, Points, Ops, NoOp, Bound, CTX_LOCK, CTX_UNLOCK, First
<1>2. Counted'
  BY DEF Types, Ops, Counted, Issuing, Counting
<1>3. ReadsLag'
  BY CounterType DEF Types, ReadsLag, fi_cntr_read
<1>4. StagesPassed'
  BY DEF Types, StagesPassed, InStage, Stages, Completed, First
<1>5. QuietCompletes'
  BY DEF Types, QuietCompletes, StagesPassed, InStage, Completed
<1> QED
  BY <1>1, <1>2, <1>3, <1>4, <1>5

(* The invariant is preserved by beginning a buffered vector atomic. *)
LEMMA atomicv_begin_Inv ==
  ASSUME Inv, NEW t \in Threads, atomicv_begin(t)
  PROVE  Inv'
<1> USE DEF Inv, CompletionCounting, Kinds, atomicv_begin, Goto, netVars, lockVars, issueVars, waitVars
<1>1. Types'
  BY DEF Types, Points, Ops, NoOp, Bound, CTX_LOCK, CTX_UNLOCK, First
<1>2. Counted'
  BY DEF Types, Ops, NoOp, Counted, Issuing, Counting
<1>3. ReadsLag'
  BY CounterType DEF Types, ReadsLag, fi_cntr_read
<1>4. StagesPassed'
  BY DEF Types, StagesPassed, InStage, Stages, Completed, First
<1>5. QuietCompletes'
  BY DEF Types, QuietCompletes, StagesPassed, InStage, Completed
<1> QED
  BY <1>1, <1>2, <1>3, <1>4, <1>5

(* The invariant is preserved by counting a buffered vector atomic. *)
LEMMA atomicv_count_Inv ==
  ASSUME Inv, NEW t \in Threads, atomicv_count(t)
  PROVE  Inv'
<1> USE DEF Inv, CompletionCounting, Kinds, atomicv_count, CNTR_INC, Goto, netVars, lockVars, issueVars, waitVars
<1>1. Types'
  BY DEF Types, Points, Ops, NoOp, Bound, CTX_LOCK, CTX_UNLOCK, First
<1>2. Counted'
  BY DEF Types, Ops, Counted, Issuing, Counting
<1>3. ReadsLag'
  BY CounterType DEF Types, ReadsLag, fi_cntr_read
<1>4. StagesPassed'
  BY DEF Types, StagesPassed, InStage, Stages, Completed, First
<1>5. QuietCompletes'
  BY DEF Types, QuietCompletes, StagesPassed, InStage, Completed
<1> QED
  BY <1>1, <1>2, <1>3, <1>4, <1>5

(* The invariant is preserved by beginning a completion call. *)
LEMMA wait_lock_Inv ==
  ASSUME Inv, NEW t \in Threads, NEW c \in {"quiet", "put_wait", "get_wait"}, wait_lock(t, c)
  PROVE  Inv'
<1> USE DEF Inv, CompletionCounting, Kinds, wait_lock, Goto, netVars, lockVars, issueVars, waitVars
<1>1. Types'
  BY DEF Types, Points, Ops, NoOp, Bound, CTX_LOCK, CTX_UNLOCK, First
<1>2. Counted'
  BY DEF Types, Ops, Counted, Issuing, Counting
<1>3. ReadsLag'
  BY CounterType DEF Types, ReadsLag, fi_cntr_read
<1>4. StagesPassed'
  BY DEF Types, StagesPassed, InStage, Stages, Completed, First
<1>5. QuietCompletes'
  BY DEF Types, QuietCompletes, StagesPassed, InStage, Completed
<1> QED
  BY <1>1, <1>2, <1>3, <1>4, <1>5

(* The invariant is preserved by a completion, in whatever order they come: *)
(* a counter only grows, and only by an operation that was counted.         *)
LEMMA Complete_Inv ==
  ASSUME Inv, Complete
  PROVE  Inv'
<1> USE DEF Inv, CompletionCounting, Kinds, netVars, lockVars, issueVars, waitVars
<1>1. PICK o \in flight :
        /\ flight' = flight \ {o}
        /\ done' = [done EXCEPT ![o.kind] = @ \cup {o.num}]
        /\ cq' = (IF o.bb THEN cq \cup {o.num} ELSE cq)
        /\ UNCHANGED <<build, pending, nalloc, lockVars, pc, issueVars, waitVars>>
  BY DEF Complete
<1>2. o.kind \in Kinds /\ o.num \in Nat /\ o.num \in 1 .. pending[o.kind]
  BY DEF Types, Ops, Counted
<1>3. IsFiniteSet(cq')
  BY <1>1, FS_AddElement DEF Types
<1>4. Types'
  BY <1>1, <1>2, <1>3 DEF Types
<1>5. Counted'
  BY <1>1, <1>2 DEF Types, Counted
<1>6. \A k \in Kinds : done[k] \subseteq done'[k]
  BY <1>1 DEF Types
<1>7. \A k \in Kinds : fi_cntr_read(k) \in Nat /\ fi_cntr_read(k)' \in Nat
                         /\ fi_cntr_read(k) <= fi_cntr_read(k)'
  <2> TAKE k \in Kinds
  <2>1. pending[k] \in Nat /\ done[k] \subseteq 1 .. pending[k]
    BY DEF Types, Counted
  <2>2. done'[k] = done[k] \/ done'[k] = done[k] \cup {o.num}
    BY <1>1 DEF Types
  <2>3. /\ Cardinality(done[k]) \in Nat
        /\ Cardinality(done[k] \cup {o.num}) \in Nat
        /\ Cardinality(done[k]) <= Cardinality(done[k] \cup {o.num})
    BY <2>1, CounterFacts
  <2> QED
    BY <2>2, <2>3 DEF fi_cntr_read
<1>8. ReadsLag'
  BY <1>1, <1>7 DEF Types, ReadsLag
<1>9. \A t \in Threads, k \in Kinds : Completed(t, k) => Completed(t, k)'
  BY <1>1, <1>6 DEF Completed
<1>10. StagesPassed'
  BY <1>1, <1>9 DEF Types, StagesPassed, Stages
<1>11. QuietCompletes'
  BY <1>1, <1>9 DEF Types, QuietCompletes, Stages
<1> QED
  BY <1>4, <1>5, <1>8, <1>10, <1>11

(* The invariant is preserved by every step. *)
LEMMA NextInv == Inv /\ [Next]_vars => Inv'
<1> SUFFICES ASSUME Inv, [Next]_vars PROVE Inv'
  OBVIOUS
<1>1. CASE Complete
  BY <1>1, Complete_Inv
<1>2. ASSUME NEW t \in Threads, Begin(t) PROVE Inv'
  BY <1>2, issue_begin_Inv, bounce_begin_Inv, atomicv_begin_Inv,
     wait_lock_Inv DEF Begin
<1>3. ASSUME NEW t \in Threads, Acquire(t) PROVE Inv'
  BY <1>3, create_lock_Inv, try_again_Inv, quiet_bb_lock_Inv, relock_Inv,
     get_lock_Inv DEF Acquire
<1>4. ASSUME NEW t \in Threads, Run(t) PROVE Inv'
  BY <1>4, create_drain_Inv, create_alloc_Inv, atomicv_count_Inv, fi_issue_Inv,
     fi_issue_frag_Inv, fi_eagain_Inv, quiet_drain_Inv, quiet_drained_Inv, poll_success_Inv,
     poll_level_Inv, poll_yield_Inv, wait_begin_Inv, fi_cntr_wait_Inv,
     wait_more_Inv, wait_level_Inv, return_Inv DEF Run
<1>5. CASE UNCHANGED vars
  BY <1>5 DEF Inv, Types, CompletionCounting, Counted, ReadsLag, StagesPassed,
     QuietCompletes, Completed, fi_cntr_read, vars, netVars, lockVars, issueVars,
     waitVars
<1> QED
  BY <1>1, <1>2, <1>3, <1>4, <1>5 DEF Next

(* Whatever the number of threads, of operations, of their fragments and of *)
(* bounce buffers, with or without the context lock: when shmem_quiet,      *)
(* shmem_fence or a wait returns, all operations of the context that were   *)
(* counted before it began have completed.                                  *)
THEOREM QuietIsComplete == Spec => []QuietCompletes
<1>1. Inv => QuietCompletes
  BY DEF Inv
<1> QED
  BY <1>1, InitInv, NextInv, PTL DEF Spec

(* The counting argument itself: no operation completes uncounted, and no   *)
(* thread's copy of a counter is ahead of the counter.                      *)
THEOREM CountingIsSound == Spec => []CompletionCounting
<1>1. Inv => CompletionCounting
  BY DEF Inv
<1> QED
  BY <1>1, InitInv, NextInv, PTL DEF Spec
-----------------------------------------------------------------------------
(* The bounce buffers.  Their count can be kept only because no two          *)
(* operations are confused: the numbers that CNTR_INC hands out differ.      *)

HasOp == {"bb_lock", "bb_alloc", "count", "issue", "again"}
Buffered == {o \in flight : o.bb}

(* An operation is about to be issued, on its way or complete, in one of     *)
(* these states only, and no other operation of its kind has its number.     *)
Distinct ==
  /\ \A t \in Threads : op[t].num # 0 =>
       /\ op[t].num \in 1 .. pending[op[t].kind]
       /\ op[t].num \notin done[op[t].kind]
       /\ \A o \in flight : o.kind = op[t].kind => o.num # op[t].num
       /\ \A u \in Threads \ {t} : op[u].kind = op[t].kind => op[u].num # op[t].num
  /\ \A o \in flight : o.num \notin done[o.kind]
  /\ \A o, p \in flight : o.kind = p.kind /\ o.num = p.num => o = p
  /\ cq \subseteq done["put"]

(* What a thread is issuing fits the place where it is. *)
IssueSound ==
  /\ \A t \in Threads :
       /\ op[t].bb => op[t].kind = "put" /\ frags[t] = 0
       /\ pc[t] \in {"bb_lock", "bb_alloc", "count"} => op[t].bb
       /\ pc[t] = "count" => op[t].num = 0
       /\ pc[t] \in {"issue", "again"} => op[t].num # 0
       /\ pc[t] \notin HasOp => op[t] = NoOp
  /\ \A o \in flight : o.bb => o.kind = "put"

Accounted ==
  /\ IsFiniteSet(Holding) /\ IsFiniteSet(Buffered)
  /\ nalloc <= MaxBB
  /\ nalloc = Cardinality(Holding) + Cardinality(Buffered) + Cardinality(cq)

BufferInv == Distinct /\ IssueSound /\ Accounted

(* Initially no operation has begun. *)
LEMMA InitBuffers == Init => BufferInv
<1> SUFFICES ASSUME Init PROVE BufferInv
  OBVIOUS
<1>1. Holding = {} /\ Buffered = {} /\ cq = {}
  BY DEF Init, Holding, Buffered, NoOp
<1>2. Accounted
  BY <1>1, FS_EmptySet, OfiAssumption DEF Init, Accounted
<1> QED
  BY <1>2 DEF Init, BufferInv, Distinct, IssueSound, HasOp, NoOp, Kinds

(* Cardinalities in a state of the invariant are natural numbers. *)
LEMMA BufferTypes ==
  ASSUME Inv, BufferInv
  PROVE  /\ Cardinality(Holding) \in Nat /\ Cardinality(Buffered) \in Nat
         /\ Cardinality(cq) \in Nat
         /\ IsFiniteSet(Holding) /\ IsFiniteSet(Buffered) /\ IsFiniteSet(cq)
  BY FS_CardinalityType DEF Inv, Types, BufferInv, Accounted

(* A completion call, or a step inside one, leaves the operations alone. *)
LEMMA CompletionCallBuffers ==
  ASSUME Inv, BufferInv, NEW t \in Threads, NEW l \in Points, Goto(t, l),
         pc[t] \notin HasOp, l \notin HasOp,
         UNCHANGED <<op, frags, netVars>>
  PROVE  BufferInv'
<1> USE DEF Goto, netVars, HasOp
<1>1. pc' \in [Threads -> Points] /\ \A u \in Threads \ {t} : pc'[u] = pc[u]
  BY DEF Inv, Types
<1>2. pc'[t] = l
  BY DEF Inv, Types
<1>3. Holding' = Holding
  BY <1>1, <1>2 DEF Holding
<1>4. Buffered' = Buffered
  BY DEF Buffered
<1>5. Accounted'
  BY <1>3, <1>4 DEF BufferInv, Accounted
<1>6. Distinct'
  BY DEF BufferInv, Distinct
<1>7. IssueSound'
  BY <1>1, <1>2 DEF BufferInv, IssueSound
<1> QED
  BY <1>5, <1>6, <1>7 DEF BufferInv

(* drain_cq reclaims as many buffers as there are events. *)
LEMMA DrainBuffers ==
  ASSUME Inv, BufferInv, drain_cq, UNCHANGED <<pending, done, flight, op, frags>>,
         NEW t \in Threads,
         \/ UNCHANGED pc
         \/ pc[t] = "again" /\ Goto(t, "issue")
  PROVE  BufferInv'
<1> USE DEF Goto, HasOp
<1>1. \A u \in Threads : pc'[u] = pc[u] \/ (pc[u] = "again" /\ pc'[u] = "issue")
  BY DEF Inv, Types
<1>2. Holding' = Holding
  BY <1>1 DEF Holding
<1>3. Buffered' = Buffered
  BY DEF Buffered
<1>4. IsFiniteSet(cq') /\ Cardinality(cq') = 0
  BY FS_EmptySet DEF drain_cq
<1>5. Accounted'
  BY <1>2, <1>3, <1>4, BufferTypes, OfiAssumption DEF BufferInv, Accounted, drain_cq, Inv, Types
<1>6. Distinct'
  BY DEF BufferInv, Distinct, drain_cq
<1>7. IssueSound'
  BY <1>1 DEF BufferInv, IssueSound
<1> QED
  BY <1>5, <1>6, <1>7 DEF BufferInv

(* A step that begins an operation, or counts one, at a place without a      *)
(* buffer, gives it a number that nobody has.                                *)
LEMMA CountBuffers ==
  ASSUME Inv, BufferInv, NEW t \in Threads, NEW k \in Kinds, NEW bb \in BOOLEAN,
         CNTR_INC(t, k, bb), op[t].num = 0, UNCHANGED <<done, flight, cq>>
  PROVE  Distinct'
<1>1. /\ op' \in [Threads -> Ops] /\ \A u \in Threads \ {t} : op'[u] = op[u]
      /\ op'[t].kind = k /\ op'[t].num = pending[k] + 1 /\ op'[t].bb = bb
  BY DEF CNTR_INC, Inv, Types, Ops
<1>2. /\ \A j \in Kinds : pending[j] \in Nat /\ pending'[j] \in Nat /\ pending[j] <= pending'[j]
      /\ pending'[k] = pending[k] + 1
  BY DEF CNTR_INC, Inv, Types
<1>3. /\ \A j \in Kinds : done[j] \subseteq 1 .. pending[j]
      /\ \A o \in flight : o.kind \in Kinds /\ o.num \in 1 .. pending[o.kind]
      /\ \A u \in Threads : op[u].kind \in Kinds /\ op[u].num \in Nat
  BY DEF Inv, CompletionCounting, Counted, Types, Ops
<1>4. \A u \in Threads : op[u].num # 0 => op[u].num \in 1 .. pending[op[u].kind]
  BY DEF BufferInv, Distinct
<1>5. ASSUME NEW u \in Threads, op'[u].num # 0
      PROVE  /\ op'[u].num \in 1 .. pending'[op'[u].kind]
             /\ op'[u].num \notin done[op'[u].kind]
             /\ \A o \in flight : o.kind = op'[u].kind => o.num # op'[u].num
             /\ \A v \in Threads \ {u} : op'[v].kind = op'[u].kind => op'[v].num # op'[u].num
  <2>1. CASE u = t
    <3>1. op'[u].num \in 1 .. pending'[op'[u].kind]
      BY <1>1, <1>2, <2>1
    <3>2. op'[u].num \notin done[op'[u].kind]
      BY <1>1, <1>2, <1>3, <2>1
    <3>3. ASSUME NEW o \in flight, o.kind = op'[u].kind PROVE o.num # op'[u].num
      BY <1>1, <1>2, <1>3, <2>1, <3>3
    <3>4. ASSUME NEW v \in Threads \ {u}, op'[v].kind = op'[u].kind PROVE op'[v].num # op'[u].num
      BY <1>1, <1>2, <1>3, <1>4, <2>1, <3>4
    <3> QED
      BY <3>1, <3>2, <3>3, <3>4
  <2>2. CASE u # t
    <3>1. op'[u] = op[u] /\ op[u].num # 0 /\ op[u].kind \in Kinds
      BY <1>1, <1>3, <1>5, <2>2
    <3>2. op'[u].num \in 1 .. pending'[op'[u].kind]
      BY <1>2, <1>4, <3>1
    <3>3. ASSUME NEW v \in Threads \ {u}, op'[v].kind = op'[u].kind PROVE op'[v].num # op'[u].num
      <4>1. CASE v = t
        BY <1>1, <1>2, <1>4, <3>1, <3>3, <4>1
      <4>2. CASE v # t
        BY <1>1, <3>1, <3>3, <4>2 DEF BufferInv, Distinct
      <4> QED
        BY <4>1, <4>2
    <3> QED
      BY <3>1, <3>2, <3>3 DEF BufferInv, Distinct
  <2> QED
    BY <2>1, <2>2
<1> QED
  BY <1>5 DEF BufferInv, Distinct

(* A put or get without a buffer begins. *)
LEMMA issue_begin_Buffers ==
  ASSUME Inv, BufferInv, NEW t \in Threads, NEW k \in Kinds, NEW n \in 1 .. build.frags,
         issue_begin(t, k, n)
  PROVE  BufferInv'
<1> USE DEF Goto, HasOp
<1>1. op[t] = NoOp /\ t \notin Holding
  BY DEF issue_begin, BufferInv, IssueSound, Holding
<1>2. /\ \A u \in Threads \ {t} : op'[u] = op[u] /\ pc'[u] = pc[u] /\ frags'[u] = frags[u]
      /\ pc'[t] = "issue"
      /\ op'[t].bb = FALSE /\ op'[t].num = pending[k] + 1 /\ pending[k] \in Nat
  BY DEF issue_begin, CNTR_INC, Inv, Types
<1>3. Holding' = Holding /\ Buffered' = Buffered
  BY <1>1, <1>2 DEF Holding, Buffered, issue_begin
<1>4. Accounted'
  BY <1>3 DEF BufferInv, Accounted, issue_begin
<1>5. Distinct'
  <2>1. CNTR_INC(t, k, FALSE) /\ op[t].num = 0 /\ UNCHANGED <<done, flight, cq>>
    BY <1>1 DEF issue_begin, CNTR_INC, NoOp
  <2> QED
    BY <2>1, CountBuffers DEF Kinds
<1>6. IssueSound'
  BY <1>1, <1>2 DEF BufferInv, IssueSound, issue_begin, NoOp
<1> QED
  BY <1>4, <1>5, <1>6 DEF BufferInv

(* A buffered put begins; it has no buffer yet. *)
LEMMA bounce_begin_Buffers ==
  ASSUME Inv, BufferInv, NEW t \in Threads, bounce_begin(t)
  PROVE  BufferInv'
<1> USE DEF Goto, HasOp
<1>1. op[t] = NoOp /\ t \notin Holding
  BY DEF bounce_begin, BufferInv, IssueSound, Holding
<1>2. /\ \A u \in Threads \ {t} : op'[u] = op[u] /\ pc'[u] = pc[u] /\ frags'[u] = frags[u]
      /\ pc'[t] = "bb_lock" /\ frags'[t] = 0 /\ op'[t].kind = "put" /\ op'[t].bb = TRUE
  BY DEF bounce_begin, CNTR_INC, Inv, Types
<1>3. Holding' = Holding /\ Buffered' = Buffered
  BY <1>1, <1>2 DEF Holding, Buffered, bounce_begin
<1>4. Accounted'
  BY <1>3 DEF BufferInv, Accounted, bounce_begin
<1>5. Distinct'
  <2>1. CNTR_INC(t, "put", TRUE) /\ op[t].num = 0 /\ UNCHANGED <<done, flight, cq>>
    BY <1>1 DEF bounce_begin, CNTR_INC, NoOp
  <2> QED
    BY <2>1, CountBuffers DEF Kinds
<1>6. IssueSound'
  BY <1>1, <1>2 DEF BufferInv, IssueSound, bounce_begin, NoOp
<1> QED
  BY <1>4, <1>5, <1>6 DEF BufferInv

(* A vector atomic begins; it has neither a number nor a buffer yet. *)
LEMMA atomicv_begin_Buffers ==
  ASSUME Inv, BufferInv, NEW t \in Threads, atomicv_begin(t)
  PROVE  BufferInv'
<1> USE DEF Goto, HasOp, netVars
<1>1. op[t] = NoOp /\ t \notin Holding
  BY DEF atomicv_begin, BufferInv, IssueSound, Holding
<1>2. /\ \A u \in Threads \ {t} : op'[u] = op[u] /\ pc'[u] = pc[u] /\ frags'[u] = frags[u]
      /\ pc'[t] = "bb_lock" /\ frags'[t] = 0
      /\ op'[t].kind = "put" /\ op'[t].bb = TRUE /\ op'[t].num = 0
  BY DEF atomicv_begin, Inv, Types, NoOp
<1>3. Holding' = Holding /\ Buffered' = Buffered
  BY <1>1, <1>2 DEF Holding, Buffered, atomicv_begin
<1>4. Accounted'
  BY <1>3 DEF BufferInv, Accounted, atomicv_begin
<1>5. Distinct'
  BY <1>2 DEF BufferInv, Distinct, atomicv_begin
<1>6. IssueSound'
  BY <1>1, <1>2 DEF BufferInv, IssueSound, atomicv_begin, NoOp
<1> QED
  BY <1>4, <1>5, <1>6 DEF BufferInv

(* ... and is counted once it has the buffer. *)
LEMMA atomicv_count_Buffers ==
  ASSUME Inv, BufferInv, NEW t \in Threads, atomicv_count(t)
  PROVE  BufferInv'
<1> USE DEF Goto, HasOp
<1>1. op[t].num = 0 /\ op[t].bb /\ frags[t] = 0
  BY DEF atomicv_count, BufferInv, IssueSound
<1>2. /\ \A u \in Threads \ {t} : op'[u] = op[u] /\ pc'[u] = pc[u]
      /\ pc'[t] = "issue" /\ op'[t].kind = "put" /\ op'[t].bb = TRUE
      /\ op'[t].num = pending["put"] + 1 /\ pending["put"] \in Nat
  BY DEF atomicv_count, CNTR_INC, Inv, Types, Kinds
<1>3. Holding' = Holding /\ Buffered' = Buffered
  BY <1>1, <1>2 DEF Holding, Buffered, atomicv_count
<1>4. Accounted'
  BY <1>3 DEF BufferInv, Accounted, atomicv_count
<1>5. Distinct'
  BY <1>1, CountBuffers DEF atomicv_count, Kinds
<1>6. IssueSound'
  BY <1>1, <1>2 DEF BufferInv, IssueSound, atomicv_count
<1> QED
  BY <1>4, <1>5, <1>6 DEF BufferInv

(* create_bounce_buffer takes the lock of the list. *)
LEMMA create_lock_Buffers ==
  ASSUME Inv, BufferInv, NEW t \in Threads, create_lock(t)
  PROVE  BufferInv'
<1> USE DEF Goto, HasOp, netVars, issueVars
<1>1. /\ \A u \in Threads \ {t} : pc'[u] = pc[u]
      /\ pc[t] = "bb_lock" /\ pc'[t] = "bb_alloc"
  BY DEF create_lock, Inv, Types
<1>2. Holding' = Holding /\ Buffered' = Buffered
  BY <1>1 DEF Holding, Buffered, create_lock
<1>3. Accounted'
  BY <1>2 DEF BufferInv, Accounted, create_lock
<1>4. Distinct'
  BY DEF BufferInv, Distinct, create_lock
<1>5. IssueSound'
  BY <1>1 DEF BufferInv, IssueSound, create_lock
<1> QED
  BY <1>3, <1>4, <1>5 DEF BufferInv

(* create_bounce_buffer takes a buffer: the thread now holds it. *)
LEMMA create_alloc_Buffers ==
  ASSUME Inv, BufferInv, NEW t \in Threads, create_alloc(t)
  PROVE  BufferInv'
<1> USE DEF Goto, HasOp, issueVars
<1>1. /\ \A u \in Threads \ {t} : pc'[u] = pc[u]
      /\ pc[t] = "bb_alloc" /\ op[t].bb /\ op'[t] = op[t]
      /\ pc'[t] = IF op[t].num = 0 THEN "count" ELSE "issue"
  BY DEF create_alloc, BufferInv, IssueSound, Inv, Types
<1>2. t \notin Holding /\ Holding' = Holding \cup {t}
  BY <1>1 DEF Holding, create_alloc
<1>3. Buffered' = Buffered
  BY DEF Buffered, create_alloc
<1>4. IsFiniteSet(Holding') /\ Cardinality(Holding') = Cardinality(Holding) + 1
  BY <1>2, BufferTypes, FS_AddElement
<1>5. Accounted'
  BY <1>3, <1>4, BufferTypes, OfiAssumption DEF BufferInv, Accounted, create_alloc, Inv, Types
<1>6. Distinct'
  BY DEF BufferInv, Distinct, create_alloc
<1>7. IssueSound'
  BY <1>1 DEF BufferInv, IssueSound, create_alloc
<1> QED
  BY <1>5, <1>6, <1>7 DEF BufferInv

(* libfabric takes the operation, and the buffer with it. *)
LEMMA fi_issue_Buffers ==
  ASSUME Inv, BufferInv, NEW t \in Threads, fi_issue(t)
  PROVE  BufferInv'
<1> USE DEF Goto, HasOp
<1>1. /\ \A u \in Threads \ {t} : pc'[u] = pc[u] /\ op'[u] = op[u]
      /\ pc[t] = "issue" /\ pc'[t] = "idle" /\ op'[t] = NoOp
      /\ op[t].num # 0 /\ op[t].kind \in Kinds /\ op[t] \in Ops /\ flight \subseteq Ops
  BY DEF fi_issue, BufferInv, IssueSound, Inv, Types, Ops
<1>2. op[t] \notin flight
  BY <1>1 DEF BufferInv, Distinct
<1>3. ASSUME op[t].bb PROVE Accounted'
  <2>1. t \in Holding /\ Holding' = Holding \ {t}
    BY <1>1, <1>3 DEF Holding, NoOp
  <2>2. op[t] \notin Buffered /\ Buffered' = Buffered \cup {op[t]}
    BY <1>2, <1>3 DEF Buffered, fi_issue
  <2>3. IsFiniteSet(Holding') /\ Cardinality(Holding') = Cardinality(Holding) - 1
    BY <2>1, BufferTypes, FS_RemoveElement
  <2>4. IsFiniteSet(Buffered') /\ Cardinality(Buffered') = Cardinality(Buffered) + 1
    BY <2>2, BufferTypes, FS_AddElement
  <2> QED
    BY <2>3, <2>4, BufferTypes DEF BufferInv, Accounted, fi_issue
<1>4. ASSUME ~ op[t].bb PROVE Accounted'
  <2>1. Holding' = Holding
    BY <1>1, <1>4 DEF Holding, NoOp
  <2>2. Buffered' = Buffered
    BY <1>4 DEF Buffered, fi_issue
  <2> QED
    BY <2>1, <2>2 DEF BufferInv, Accounted, fi_issue
<1>5. Accounted'
  BY <1>3, <1>4
<1>6. Distinct'
  BY <1>1 DEF BufferInv, Distinct, fi_issue, NoOp
<1>7. IssueSound'
  BY <1>1 DEF BufferInv, IssueSound, fi_issue, NoOp
<1> QED
  BY <1>5, <1>6, <1>7 DEF BufferInv

(* libfabric takes a fragment, which has no buffer, and the next is counted. *)
LEMMA fi_issue_frag_Buffers ==
  ASSUME Inv, BufferInv, NEW t \in Threads, fi_issue_frag(t)
  PROVE  BufferInv'
<1> USE DEF Goto, HasOp
<1> DEFINE k == op[t].kind
<1>1. /\ k \in Kinds /\ ~ op[t].bb /\ op[t].num # 0 /\ pc[t] = "issue"
      /\ op[t] \in Ops /\ flight \subseteq Ops
  BY DEF fi_issue_frag, BufferInv, IssueSound, Inv, Types, Ops
<1>2. /\ \A u \in Threads \ {t} : op'[u] = op[u] /\ frags'[u] = frags[u]
      /\ op'[t].kind = k /\ op'[t].bb = FALSE /\ op'[t].num = pending[k] + 1
      /\ pc' = pc /\ flight' = flight \cup {op[t]} /\ done' = done /\ cq' = cq
  BY DEF fi_issue_frag, CNTR_INC, Inv, Types
<1>3. /\ \A j \in Kinds : pending[j] \in Nat /\ pending'[j] \in Nat /\ pending[j] <= pending'[j]
      /\ pending'[k] = pending[k] + 1
  BY <1>1 DEF fi_issue_frag, CNTR_INC, Inv, Types
<1>4. /\ \A j \in Kinds : done[j] \subseteq 1 .. pending[j]
      /\ \A o \in flight' : o.kind \in Kinds /\ o.num \in 1 .. pending[o.kind]
      /\ \A u \in Threads : op[u].kind \in Kinds /\ op[u].num \in Nat
      /\ \A u \in Threads : op[u].num # 0 => op[u].num \in 1 .. pending[op[u].kind]
  BY <1>1, <1>2 DEF Inv, CompletionCounting, Counted, Types, Ops, BufferInv, Distinct
<1>5. Holding' = Holding /\ Buffered' = Buffered
  BY <1>1, <1>2 DEF Holding, Buffered
<1>6. Accounted'
  BY <1>2, <1>5 DEF BufferInv, Accounted, fi_issue_frag
<1>7. ASSUME NEW u \in Threads, op'[u].num # 0
      PROVE  /\ op'[u].num \in 1 .. pending'[op'[u].kind]
             /\ op'[u].num \notin done[op'[u].kind]
             /\ \A o \in flight' : o.kind = op'[u].kind => o.num # op'[u].num
             /\ \A v \in Threads \ {u} : op'[v].kind = op'[u].kind => op'[v].num # op'[u].num
  <2>1. CASE u = t
    <3>1. op'[u].num \in 1 .. pending'[op'[u].kind]
      BY <1>1, <1>2, <1>3, <2>1
    <3>2. op'[u].num \notin done[op'[u].kind]
      BY <1>1, <1>2, <1>3, <1>4, <2>1
    <3>3. ASSUME NEW o \in flight', o.kind = op'[u].kind PROVE o.num # op'[u].num
      BY <1>1, <1>2, <1>3, <1>4, <2>1, <3>3
    <3>4. ASSUME NEW v \in Threads \ {u}, op'[v].kind = op'[u].kind PROVE op'[v].num # op'[u].num
      BY <1>1, <1>2, <1>3, <1>4, <2>1, <3>4
    <3> QED
      BY <3>1, <3>2, <3>3, <3>4
  <2>2. CASE u # t
    <3>1. op'[u] = op[u] /\ op[u].num # 0 /\ op[u].kind \in Kinds
      BY <1>2, <1>4, <1>7, <2>2
    <3>2. op'[u].num \in 1 .. pending'[op'[u].kind]
      BY <1>3, <1>4, <3>1
    <3>3. ASSUME NEW v \in Threads \ {u}, op'[v].kind = op'[u].kind PROVE op'[v].num # op'[u].num
      <4>1. CASE v = t
        BY <1>1, <1>2, <1>3, <1>4, <3>1, <3>3, <4>1
      <4>2. CASE v # t
        BY <1>2, <3>1, <3>3, <4>2 DEF BufferInv, Distinct
      <4> QED
        BY <4>1, <4>2
    <3>4. ASSUME NEW o \in flight', o.kind = op'[u].kind PROVE o.num # op'[u].num
      BY <1>1, <1>2, <2>2, <3>1, <3>4 DEF BufferInv, Distinct
    <3> QED
      BY <3>1, <3>2, <3>3, <3>4 DEF BufferInv, Distinct
  <2> QED
    BY <2>1, <2>2
<1>8. \A o \in flight' : o.num \notin done[o.kind]
  BY <1>1, <1>2 DEF BufferInv, Distinct
<1>9. \A o, p \in flight' : o.kind = p.kind /\ o.num = p.num => o = p
  BY <1>1, <1>2 DEF BufferInv, Distinct
<1>10. Distinct'
  BY <1>2, <1>7, <1>8, <1>9 DEF BufferInv, Distinct
<1>11. IssueSound'
  BY <1>1, <1>2, <1>3 DEF BufferInv, IssueSound
<1> QED
  BY <1>6, <1>10, <1>11 DEF BufferInv

(* libfabric refuses the operation, which keeps its buffer. *)
LEMMA fi_eagain_Buffers ==
  ASSUME Inv, BufferInv, NEW t \in Threads, fi_eagain(t)
  PROVE  BufferInv'
<1> USE DEF Goto, HasOp, netVars, issueVars
<1>1. \A u \in Threads : pc'[u] = pc[u] \/ (pc[u] = "issue" /\ pc'[u] = "again")
  BY DEF fi_eagain, Inv, Types
<1>2. Holding' = Holding /\ Buffered' = Buffered
  BY <1>1 DEF Holding, Buffered, fi_eagain
<1>3. Accounted'
  BY <1>2 DEF BufferInv, Accounted, fi_eagain
<1>4. Distinct'
  BY DEF BufferInv, Distinct, fi_eagain
<1>5. IssueSound'
  BY <1>1 DEF BufferInv, IssueSound, fi_eagain
<1> QED
  BY <1>3, <1>4, <1>5 DEF BufferInv

(* An operation completes: the event of a buffered one takes over its buffer. *)
LEMMA Complete_Buffers ==
  ASSUME Inv, BufferInv, Complete
  PROVE  BufferInv'
<1>1. PICK o \in flight :
        /\ flight' = flight \ {o}
        /\ done' = [done EXCEPT ![o.kind] = @ \cup {o.num}]
        /\ cq' = (IF o.bb THEN cq \cup {o.num} ELSE cq)
        /\ UNCHANGED <<build, pending, nalloc, lockVars, pc, issueVars, waitVars>>
  BY DEF Complete
<1>2. /\ o \in Ops /\ o.kind \in Kinds /\ o.num \notin done[o.kind]
      /\ UNCHANGED <<pc, op, frags, nalloc, pending>>
  BY <1>1 DEF Inv, Types, Ops, BufferInv, Distinct, issueVars
<1>3. \A k \in Kinds : done'[k] = IF k = o.kind THEN done[k] \cup {o.num} ELSE done[k]
  BY <1>1, <1>2 DEF Inv, Types
<1>4. Holding' = Holding
  BY <1>2 DEF Holding
<1>5. ASSUME o.bb PROVE Accounted'
  <2>1. o.kind = "put" /\ o.num \notin cq
    BY <1>2, <1>5 DEF BufferInv, IssueSound, Distinct
  <2>2. IsFiniteSet(cq') /\ Cardinality(cq') = Cardinality(cq) + 1
    BY <1>1, <1>5, <2>1, BufferTypes, FS_AddElement
  <2>3. o \in Buffered /\ Buffered' = Buffered \ {o}
    BY <1>1, <1>5 DEF Buffered
  <2>4. IsFiniteSet(Buffered') /\ Cardinality(Buffered') = Cardinality(Buffered) - 1
    BY <2>3, BufferTypes, FS_RemoveElement
  <2> QED
    BY <1>2, <1>4, <2>2, <2>4, BufferTypes DEF BufferInv, Accounted
<1>6. ASSUME ~ o.bb PROVE Accounted'
  <2>1. Buffered' = Buffered /\ cq' = cq
    BY <1>1, <1>6 DEF Buffered
  <2> QED
    BY <1>2, <1>4, <2>1 DEF BufferInv, Accounted
<1>7. ASSUME NEW t \in Threads, op[t].num # 0
      PROVE  op[t].num \notin done'[op[t].kind]
  <2>1. op[t].kind \in Kinds
    BY DEF Inv, Types, Ops
  <2>2. op[t].num \notin done[op[t].kind] /\ (o.kind = op[t].kind => o.num # op[t].num)
    BY <1>7 DEF BufferInv, Distinct
  <2> QED
    BY <1>3, <2>1, <2>2
<1>8. ASSUME NEW p \in flight' PROVE p.num \notin done'[p.kind]
  BY <1>1, <1>3, <1>8 DEF BufferInv, Distinct, Inv, Types, Ops
<1>9. cq' \subseteq done'["put"]
  BY <1>1, <1>3 DEF BufferInv, Distinct, IssueSound, Kinds
<1>10. Distinct'
  BY <1>1, <1>2, <1>7, <1>8, <1>9 DEF BufferInv, Distinct
<1>11. IssueSound'
  BY <1>1, <1>2 DEF BufferInv, IssueSound
<1> QED
  BY <1>5, <1>6, <1>10, <1>11 DEF BufferInv

(* The steps of the completion calls, which leave the operations alone. *)
LEMMA WaitingBuffers ==
  ASSUME Inv, BufferInv, NEW t \in Threads,
         \/ \E c \in {"quiet", "put_wait", "get_wait"} : wait_lock(t, c)
         \/ quiet_bb_lock(t) \/ relock(t) \/ get_lock(t) \/ quiet_drained(t)
         \/ poll_success(t) \/ poll_level(t) \/ poll_yield(t) \/ wait_begin(t)
         \/ fi_cntr_wait(t) \/ wait_more(t) \/ wait_level(t) \/ return(t)
  PROVE  BufferInv'
<1> DEFINE Waiting == Points \ HasOp
<1>1. \E l \in Waiting : Goto(t, l)
  BY DEF Points, HasOp, wait_lock, quiet_bb_lock, relock, get_lock, quiet_drained, poll_success,
         poll_level, poll_yield, wait_begin, fi_cntr_wait, wait_more, wait_level, return, stage_done
<1>2. pc[t] \notin HasOp /\ UNCHANGED <<op, frags, netVars>>
  BY DEF HasOp, issueVars, wait_lock, quiet_bb_lock, relock, get_lock, quiet_drained, poll_success,
         poll_level, poll_yield, wait_begin, fi_cntr_wait, wait_more, wait_level, return
<1> QED
  BY <1>1, <1>2, CompletionCallBuffers

(* The steps that drain the completion queue. *)
LEMMA DrainingBuffers ==
  ASSUME Inv, BufferInv, NEW t \in Threads, create_drain(t) \/ quiet_drain(t) \/ try_again(t)
  PROVE  BufferInv'
<1>1. drain_cq /\ UNCHANGED <<pending, done, flight, op, frags>>
  BY DEF create_drain, quiet_drain, try_again, issueVars
<1>2. UNCHANGED pc \/ (pc[t] = "again" /\ Goto(t, "issue"))
  BY DEF create_drain, quiet_drain, try_again
<1> QED
  BY <1>1, <1>2, DrainBuffers

(* Every step keeps the buffers accounted for. *)
LEMMA NextBuffers == Inv /\ BufferInv /\ [Next]_vars => BufferInv'
<1> SUFFICES ASSUME Inv, BufferInv, [Next]_vars PROVE BufferInv'
  OBVIOUS
<1>1. CASE Complete
  BY <1>1, Complete_Buffers
<1>2. ASSUME NEW t \in Threads, Begin(t) PROVE BufferInv'
  BY <1>2, issue_begin_Buffers, bounce_begin_Buffers, atomicv_begin_Buffers,
     WaitingBuffers DEF Begin
<1>3. ASSUME NEW t \in Threads, Acquire(t) PROVE BufferInv'
  BY <1>3, create_lock_Buffers, DrainingBuffers, WaitingBuffers DEF Acquire
<1>4. ASSUME NEW t \in Threads, Run(t) PROVE BufferInv'
  BY <1>4, create_alloc_Buffers, atomicv_count_Buffers, fi_issue_Buffers,
     fi_issue_frag_Buffers, fi_eagain_Buffers, DrainingBuffers, WaitingBuffers DEF Run
<1>5. CASE UNCHANGED vars
  <2>1. Holding' = Holding /\ Buffered' = Buffered
    BY <1>5 DEF Holding, Buffered, vars, netVars, issueVars
  <2> QED
    BY <1>5, <2>1 DEF BufferInv, Distinct, IssueSound, Accounted, vars, netVars, issueVars
<1> QED
  BY <1>1, <1>2, <1>3, <1>4, <1>5 DEF Next

(* Whatever the threads, the number of buffers and the depth of the          *)
(* provider's queue: a bounce buffer is in use exactly while a thread is     *)
(* about to issue its put or atomic, the provider has it, or its completion  *)
(* event waits to be read, so drain_cq reclaims none too early or twice and  *)
(* the list never grows beyond shmem_transport_ofi_max_bounce_buffers.       *)
THEOREM BuffersAreAccounted == Spec => []BuffersAccounted
<1>1. Inv /\ BufferInv => BuffersAccounted
  <2> SUFFICES ASSUME Inv, BufferInv PROVE BuffersAccounted
    OBVIOUS
  <2>1. nalloc = Cardinality(Holding) + Cardinality({o \in flight : o.bb}) + Cardinality(cq)
    BY DEF BufferInv, Accounted, Buffered
  <2>2. nalloc \in 0 .. MaxBB
    BY BufferTypes, OfiAssumption DEF BufferInv, Accounted
  <2> QED
    BY <2>1, <2>2 DEF BuffersAccounted, TypeOK, Inv
<1> QED
  BY <1>1, InitInv, NextInv, InitBuffers, NextBuffers, PTL DEF Spec
=============================================================================
