--------------------------- MODULE OfiCompletion ---------------------------
(***************************************************************************)
(* Issue and completion of operations on one OFI context that several      *)
(* threads share: src/src/transport_ofi.h.                                 *)
(*                                                                         *)
(* Every operation first increments a "pending" counter of the context     *)
(* (puts and gets have one each), then hands itself to libfabric, which    *)
(* may answer -FI_EAGAIN.  libfabric counts completions in an event        *)
(* counter.  put_quiet and get_wait compare the two counters: they know    *)
(* how many operations have completed, never which.  Bounce-buffered puts  *)
(* also leave an event in the completion queue, from which their buffer is *)
(* reclaimed under the lock of the buffer list.                            *)
(*                                                                         *)
(* Two builds exist: with a lock per context (USE_CTX_LOCK), or without    *)
(* one and with atomic pending counters.                                   *)
(***************************************************************************)
EXTENDS Integers, FiniteSets

CONSTANTS
  Threads,
  None,          \* no thread
  MaxBB,         \* shmem_transport_ofi_max_bounce_buffers; 0: no bounce buffers
  TxDepth,       \* operations the provider takes before it answers EAGAIN
  Builds         \* the builds, with bounds for each:
                 \*   ctx_lock: it defines USE_CTX_LOCK
                 \*   poll: put and get poll limit; negative: poll for ever
                 \*   frags: fragments a large put or get is cut into, at most
                 \*   puts: bound: once as many puts are counted, no other begins
                 \*   gets: the same for gets

ASSUME OfiAssumption ==
  /\ None \notin Threads
  /\ MaxBB \in Nat /\ TxDepth \in Nat \ {0}
  /\ Builds \subseteq [ctx_lock : BOOLEAN, poll : Int, frags : Nat \ {0}, puts : Nat, gets : Nat]

Kinds == {"put", "get"}

VARIABLES
  build,     \* rigid: the build
  pending,   \* pending_put_cntr and pending_get_cntr
  done,      \* operations counted by put_cntr and get_cntr (numbered as issued)
  flight,    \* operations libfabric has taken and not completed
  cq,        \* completion queue: buffered puts whose event is not read yet
  nalloc,    \* bounce_buffers->nalloc
  ctx_lock,  \* holder of ctx->lock
  bb_lock,   \* holder of bounce_buffers->lock
  pc,        \* where each thread is
  op,        \* the operation a thread is issuing
  frags,     \* fragments it has still to issue after this one
  call,      \* the completion call a thread is in
  stage,     \* the pair of counters it is waiting for
  success,   \* local: event counter as read
  cnt,       \* local: pending counter as read
  polls,     \* local: poll_count, as far as the poll limit
  before     \* history: pending counters when the completion call began

issueVars == <<op, frags>>
waitVars  == <<call, stage, success, cnt, polls, before>>
netVars   == <<pending, done, flight, cq, nalloc>>
lockVars  == <<ctx_lock, bb_lock>>
vars      == <<build, netVars, lockVars, pc, issueVars, waitVars>>

Goto(t, l) == pc' = [pc EXCEPT ![t] = l]

(* Bound on the operations of a kind. *)
Bound(k) == IF k = "put" THEN build.puts ELSE build.gets

(* fi_cntr_read: how many operations have completed. *)
fi_cntr_read(k) == Cardinality(done[k])

NoOp == [kind |-> "put", num |-> 0, bb |-> FALSE]

Init ==
  /\ build \in Builds
  /\ pending = [k \in Kinds |-> 0]
  /\ done = [k \in Kinds |-> {}]
  /\ flight = {} /\ cq = {} /\ nalloc = 0
  /\ ctx_lock = None /\ bb_lock = None
  /\ pc = [t \in Threads |-> "idle"]
  /\ op = [t \in Threads |-> NoOp]
  /\ frags = [t \in Threads |-> 0]
  /\ call = [t \in Threads |-> "none"]
  /\ stage = [t \in Threads |-> "put"]
  /\ success = [t \in Threads |-> 0]
  /\ cnt = [t \in Threads |-> 0]
  /\ polls = [t \in Threads |-> 0]
  /\ before = [t \in Threads |-> [k \in Kinds |-> 0]]

-----------------------------------------------------------------------------
(* The locks *)

CTX_LOCK(t)   == /\ build.ctx_lock => ctx_lock = None
                 /\ ctx_lock' = IF build.ctx_lock THEN t ELSE ctx_lock
CTX_UNLOCK(t) == ctx_lock' = IF build.ctx_lock THEN None ELSE ctx_lock

-----------------------------------------------------------------------------
(* The provider (external) *)

(* An operation completes, in any order: its counter counts it, and a      *)
(* buffered put also leaves an event in the completion queue.              *)
Complete ==
  \E o \in flight :
    /\ flight' = flight \ {o}
    /\ done' = [done EXCEPT ![o.kind] = @ \cup {o.num}]
    /\ cq' = IF o.bb THEN cq \cup {o.num} ELSE cq
    /\ UNCHANGED <<build, pending, nalloc, lockVars, pc, issueVars, waitVars>>

(* Unread events hold on to the provider's resources. *)
Resources == Cardinality(flight) + Cardinality(cq) < TxDepth

-----------------------------------------------------------------------------
(* Issue: put_scalar, put_large, get, the atomics and the buffered branches  *)
(* of put_nb and atomicv                                                     *)

(* The pending counter is incremented before the operation is issued. *)
CNTR_INC(t, k, bb) ==
  /\ pending' = [pending EXCEPT ![k] = @ + 1]
  /\ op' = [op EXCEPT ![t] = [kind |-> k, num |-> pending[k] + 1, bb |-> bb]]

(* A put, an atomic or a get of n fragments; put_scalar and the single      *)
(* atomics are the case of one.  Fetching atomics count as gets.            *)
issue_begin(t, k, n) ==
  /\ pc[t] = "idle"
  /\ pending[k] < Bound(k)
  /\ CTX_LOCK(t)
  /\ CNTR_INC(t, k, FALSE)
  /\ frags' = [frags EXCEPT ![t] = n - 1]
  /\ Goto(t, "issue")
  /\ UNCHANGED <<build, done, flight, cq, nalloc, bb_lock, waitVars>>

(* A put that fits a bounce buffer. *)
bounce_begin(t) ==
  /\ pc[t] = "idle"
  /\ MaxBB > 0
  /\ pending["put"] < Bound("put")
  /\ CTX_LOCK(t)
  /\ CNTR_INC(t, "put", TRUE)
  /\ frags' = [frags EXCEPT ![t] = 0]
  /\ Goto(t, "bb_lock")
  /\ UNCHANGED <<build, done, flight, cq, nalloc, bb_lock, waitVars>>

(* A vector atomic that fits a bounce buffer is counted only once it has    *)
(* the buffer: its number is 0 until then.                                  *)
atomicv_begin(t) ==
  /\ pc[t] = "idle"
  /\ MaxBB > 0
  /\ pending["put"] < Bound("put")
  /\ CTX_LOCK(t)
  /\ op' = [op EXCEPT ![t] = [NoOp EXCEPT !.bb = TRUE]]
  /\ frags' = [frags EXCEPT ![t] = 0]
  /\ Goto(t, "bb_lock")
  /\ UNCHANGED <<build, netVars, bb_lock, waitVars>>

atomicv_count(t) ==
  /\ pc[t] = "count"
  /\ CNTR_INC(t, "put", TRUE)
  /\ Goto(t, "issue")
  /\ UNCHANGED <<build, done, flight, cq, nalloc, lockVars, frags, waitVars>>

(* create_bounce_buffer takes the lock of the list ... *)
create_lock(t) ==
  /\ pc[t] = "bb_lock"
  /\ bb_lock = None
  /\ bb_lock' = t
  /\ Goto(t, "bb_alloc")
  /\ UNCHANGED <<build, netVars, ctx_lock, issueVars, waitVars>>

(* Mutated form: the queue is emptied, but only one buffer is reclaimed. *)
drain_cq_one ==
  /\ cq' = {}
  /\ nalloc' = IF cq = {} THEN nalloc ELSE nalloc - 1

(* drain_cq: reclaim the buffer of every event that is there. *)
drain_cq ==
  /\ cq' = {}
  /\ nalloc' = nalloc - Cardinality(cq)

(* ... drains the queue for as long as all buffers are in use ... *)
create_drain(t) ==
  /\ pc[t] = "bb_alloc"
  /\ nalloc >= MaxBB
  /\ drain_cq
  /\ UNCHANGED <<build, pending, done, flight, lockVars, pc, issueVars, waitVars>>

(* ... and takes one. *)
create_alloc(t) ==
  /\ pc[t] = "bb_alloc"
  /\ nalloc < MaxBB
  /\ nalloc' = nalloc + 1
  /\ bb_lock' = None
  /\ Goto(t, IF op[t].num = 0 THEN "count" ELSE "issue")
  /\ UNCHANGED <<build, pending, done, flight, cq, ctx_lock, issueVars, waitVars>>

(* libfabric takes the operation, and no fragment is left. *)
fi_issue(t) ==
  /\ pc[t] = "issue"
  /\ Resources
  /\ frags[t] = 0
  /\ flight' = flight \cup {op[t]}
  /\ op' = [op EXCEPT ![t] = NoOp]
  /\ CTX_UNLOCK(t)
  /\ Goto(t, "idle")
  /\ UNCHANGED <<build, pending, done, cq, nalloc, bb_lock, frags, waitVars>>

(* libfabric takes a fragment, and the next one is counted. *)
fi_issue_frag(t) ==
  /\ pc[t] = "issue"
  /\ Resources
  /\ frags[t] > 0
  /\ flight' = flight \cup {op[t]}
  /\ frags' = [frags EXCEPT ![t] = @ - 1]
  /\ CNTR_INC(t, op[t].kind, FALSE)
  /\ UNCHANGED <<build, done, cq, nalloc, lockVars, pc, waitVars>>

(* -FI_EAGAIN.  Without bounce buffers try_again only pokes the queue and   *)
(* the operation is tried again at once.                                    *)
fi_eagain(t) ==
  /\ pc[t] = "issue"
  /\ ~ Resources
  /\ IF MaxBB > 0 THEN Goto(t, "again") ELSE UNCHANGED pc
  /\ UNCHANGED <<build, netVars, lockVars, issueVars, waitVars>>

(* Mutated form: the queue is not drained before the retry. *)
try_again_no_drain(t) ==
  /\ pc[t] = "again"
  /\ bb_lock = None
  /\ Goto(t, "issue")
  /\ UNCHANGED <<build, netVars, lockVars, issueVars, waitVars>>

(* try_again drains the queue under the list lock and lets the caller retry. *)
try_again(t) ==
  /\ pc[t] = "again"
  /\ bb_lock = None
  /\ drain_cq
  /\ Goto(t, "issue")
  /\ UNCHANGED <<build, pending, done, flight, lockVars, issueVars, waitVars>>

-----------------------------------------------------------------------------
(* Completion: quiet and fence are put_quiet and then get_wait; put_wait is *)
(* put_quiet alone.                                                         *)

First(c) == IF c = "get_wait" THEN "get" ELSE "put"

(* put_quiet and get_wait take the context lock ... *)
wait_lock(t, c) ==
  /\ pc[t] = "idle"
  /\ CTX_LOCK(t)
  /\ call' = [call EXCEPT ![t] = c]
  /\ stage' = [stage EXCEPT ![t] = First(c)]
  /\ before' = [before EXCEPT ![t] = pending]
  /\ polls' = [polls EXCEPT ![t] = 0]
  /\ Goto(t, IF First(c) = "put" /\ MaxBB > 0 THEN "quiet_bb" ELSE "poll")
  /\ UNCHANGED <<build, netVars, bb_lock, issueVars, success, cnt>>

(* ... put_quiet first waits until every bounce buffer is back ... *)
quiet_bb_lock(t) ==
  /\ pc[t] = "quiet_bb"
  /\ bb_lock = None
  /\ bb_lock' = t
  /\ Goto(t, "quiet_drain")
  /\ UNCHANGED <<build, netVars, ctx_lock, issueVars, waitVars>>

quiet_drain(t) ==
  /\ pc[t] = "quiet_drain"
  /\ nalloc > 0
  /\ drain_cq
  /\ UNCHANGED <<build, pending, done, flight, lockVars, pc, issueVars, waitVars>>

quiet_drained(t) ==
  /\ pc[t] = "quiet_drain"
  /\ nalloc = 0
  /\ bb_lock' = None
  /\ Goto(t, "poll")
  /\ UNCHANGED <<build, netVars, ctx_lock, issueVars, waitVars>>

PollAgain(t) == build.poll < 0 \/ polls[t] < build.poll

(* ... then the event counter is read, before the pending counter. *)
poll_success(t) ==
  /\ pc[t] = "poll"
  /\ PollAgain(t)
  /\ success' = [success EXCEPT ![t] = fi_cntr_read(stage[t])]
  /\ Goto(t, "poll_cnt")
  /\ UNCHANGED <<build, netVars, lockVars, issueVars, call, stage, cnt, polls, before>>

(* Mutated form: quiet returns without waiting for the gets. *)
stage_done_early(t) ==
  /\ CTX_UNLOCK(t)
  /\ polls' = [polls EXCEPT ![t] = 0]
  /\ success' = [success EXCEPT ![t] = 0]
  /\ cnt' = [cnt EXCEPT ![t] = 0]
  /\ Goto(t, "returned")

(* The counters of this stage are level: next stage, or return. *)
stage_done(t) ==
  /\ CTX_UNLOCK(t)
  /\ polls' = [polls EXCEPT ![t] = 0]
  /\ success' = [success EXCEPT ![t] = 0]
  /\ cnt' = [cnt EXCEPT ![t] = 0]
  /\ Goto(t, IF call[t] = "quiet" /\ stage[t] = "put" THEN "get_lock" ELSE "returned")

poll_level(t) ==
  /\ pc[t] = "poll_cnt"
  /\ success[t] >= pending[stage[t]]
  /\ stage_done(t)
  /\ UNCHANGED <<build, netVars, bb_lock, issueVars, call, stage, before>>

(* Not level: give other threads a chance at the context lock. *)
poll_yield(t) ==
  /\ pc[t] = "poll_cnt"
  /\ success[t] < pending[stage[t]]
  /\ CTX_UNLOCK(t)
  /\ polls' = [polls EXCEPT ![t] = IF build.poll < 0 THEN 0 ELSE @ + 1]
  /\ success' = [success EXCEPT ![t] = 0]
  /\ Goto(t, "relock")
  /\ UNCHANGED <<build, netVars, bb_lock, issueVars, call, stage, cnt, before>>

relock(t) ==
  /\ pc[t] = "relock"
  /\ CTX_LOCK(t)
  /\ Goto(t, "poll")
  /\ UNCHANGED <<build, netVars, bb_lock, issueVars, waitVars>>

(* The second half of quiet: get_wait takes the lock anew. *)
get_lock(t) ==
  /\ pc[t] = "get_lock"
  /\ CTX_LOCK(t)
  /\ stage' = [stage EXCEPT ![t] = "get"]
  /\ Goto(t, "poll")
  /\ UNCHANGED <<build, netVars, bb_lock, issueVars, call, success, cnt, polls, before>>

(* The poll limit is reached: read the pending counter and block on it. *)
wait_begin(t) ==
  /\ pc[t] = "poll"
  /\ ~ PollAgain(t)
  /\ cnt' = [cnt EXCEPT ![t] = pending[stage[t]]]
  /\ Goto(t, "wait")
  /\ UNCHANGED <<build, netVars, lockVars, issueVars, call, stage, success, polls, before>>

(* Mutated form: the wait returns on a timeout. *)
fi_cntr_wait_timeout(t) ==
  /\ pc[t] = "wait"
  /\ Goto(t, "wait_check")
  /\ UNCHANGED <<build, netVars, lockVars, issueVars, waitVars>>

(* fi_cntr_wait returns once the event counter has reached the value. *)
fi_cntr_wait(t) ==
  /\ pc[t] = "wait"
  /\ fi_cntr_read(stage[t]) >= cnt[t]
  /\ Goto(t, "wait_check")
  /\ UNCHANGED <<build, netVars, lockVars, issueVars, waitVars>>

(* Others have issued more meanwhile: wait for those, too. *)
wait_more(t) ==
  /\ pc[t] = "wait_check"
  /\ cnt[t] < pending[stage[t]]
  /\ cnt' = [cnt EXCEPT ![t] = pending[stage[t]]]
  /\ Goto(t, "wait")
  /\ UNCHANGED <<build, netVars, lockVars, issueVars, call, stage, success, polls, before>>

(* Nothing was issued meanwhile: everything is complete. *)
wait_level(t) ==
  /\ pc[t] = "wait_check"
  /\ cnt[t] >= pending[stage[t]]
  /\ stage_done(t)
  /\ UNCHANGED <<build, netVars, bb_lock, issueVars, call, stage, before>>

(* The caller goes on. *)
return(t) ==
  /\ pc[t] = "returned"
  /\ Goto(t, "idle")
  /\ call' = [call EXCEPT ![t] = "none"]
  /\ stage' = [stage EXCEPT ![t] = "put"]
  /\ before' = [before EXCEPT ![t] = [k \in Kinds |-> 0]]
  /\ UNCHANGED <<build, netVars, lockVars, issueVars, success, cnt, polls>>

-----------------------------------------------------------------------------
Begin(t) ==
  \/ \E k \in Kinds, n \in 1 .. build.frags : issue_begin(t, k, n)
  \/ bounce_begin(t) \/ atomicv_begin(t)
  \/ \E c \in {"quiet", "put_wait", "get_wait"} : wait_lock(t, c)

(* Steps that take a lock somebody else may hold. *)
Acquire(t) ==
  create_lock(t) \/ try_again(t) \/ quiet_bb_lock(t) \/ relock(t) \/ get_lock(t)

(* Steps inside a call. *)
Run(t) ==
  \/ create_drain(t) \/ create_alloc(t) \/ atomicv_count(t)
  \/ fi_issue(t) \/ fi_issue_frag(t) \/ fi_eagain(t)
  \/ quiet_drain(t) \/ quiet_drained(t)
  \/ poll_success(t) \/ poll_level(t) \/ poll_yield(t)
  \/ wait_begin(t) \/ fi_cntr_wait(t) \/ wait_more(t) \/ wait_level(t)
  \/ return(t)

Next == Complete \/ \E t \in Threads : Begin(t) \/ Acquire(t) \/ Run(t)

(* Threads inside a call run, the provider completes what it has taken, and *)
(* the locks are fair (shmem_spinlock_t is a ticket lock).  No thread is    *)
(* obliged to begin a call.                                                 *)
Fairness ==
  /\ WF_vars(Complete)
  /\ \A t \in Threads : WF_vars(Run(t)) /\ SF_vars(Acquire(t))

Spec == Init /\ [][Next]_vars /\ Fairness

-----------------------------------------------------------------------------
(* Properties *)

Ops == [kind : Kinds, num : Nat, bb : BOOLEAN]

Points ==
  {"idle", "bb_lock", "bb_alloc", "count", "issue", "again", "quiet_bb", "quiet_drain",
   "poll", "poll_cnt", "relock", "get_lock", "wait", "wait_check", "returned"}

(* The counters, queues, locks and locals of shmem_transport_ctx_t. *)
Types ==
  /\ build \in Builds
  /\ pending \in [Kinds -> Nat]
  /\ done \in [Kinds -> SUBSET Nat]
  /\ flight \subseteq Ops
  /\ cq \subseteq Nat /\ IsFiniteSet(cq)
  /\ nalloc \in Int
  /\ ctx_lock \in Threads \cup {None}
  /\ bb_lock \in Threads \cup {None}
  /\ pc \in [Threads -> Points]
  /\ op \in [Threads -> Ops]
  /\ frags \in [Threads -> Nat]
  /\ call \in [Threads -> {"none", "quiet", "put_wait", "get_wait"}]
  /\ stage \in [Threads -> Kinds]
  /\ success \in [Threads -> Nat]
  /\ cnt \in [Threads -> Nat]
  /\ polls \in [Threads -> Nat]
  /\ before \in [Threads -> [Kinds -> Nat]]

(* ... and no more bounce buffers are allocated than                       *)
(* shmem_transport_ofi_max_bounce_buffers, nor fewer than none.            *)
TypeOK == Types /\ nalloc \in 0 .. MaxBB

(* The counters that a completion call brings level. *)
Stages(c) == CASE c = "put_wait" -> {"put"}
               [] c = "get_wait" -> {"get"}
               [] OTHER -> Kinds

(* The operations of kind k counted before t's call are complete. *)
Completed(t, k) == \A n \in 1 .. before[t][k] : n \in done[k]

(* When quiet, fence, put_wait or get_wait returns, every operation of the  *)
(* context that was counted before the call has completed, although other   *)
(* threads' later operations complete in any order and are counted, too.    *)
QuietCompletes ==
  \A t \in Threads : pc[t] = "returned" =>
    \A k \in Stages(call[t]) : Completed(t, k)

(* The inductive invariant behind QuietCompletes. *)

Issuing  == {"bb_lock", "bb_alloc", "issue", "again"}
Counting == {"bb_lock", "bb_alloc", "count"}
InStage  == {"quiet_bb", "quiet_drain", "poll", "poll_cnt", "relock", "wait", "wait_check"}

(* What completes, is on its way or is about to be issued was counted. *)
Counted ==
  /\ \A k \in Kinds : done[k] \subseteq 1 .. pending[k]
  /\ \A o \in flight : o.num \in 1 .. pending[o.kind]
  /\ \A t \in Threads : pc[t] \in Issuing =>
       \/ op[t].num \in 1 .. pending[op[t].kind]
       \/ op[t].num = 0 /\ pc[t] \in Counting

(* A value a thread has read is never ahead of the counter it was read from  *)
(* (put_quiet and get_wait assert cnt == cnt_new after their last wait).     *)
ReadsLag ==
  \A t \in Threads :
    /\ pc[t] = "poll_cnt" => success[t] <= fi_cntr_read(stage[t])
    /\ pc[t] = "wait_check" => cnt[t] <= fi_cntr_read(stage[t])
    /\ pc[t] \in {"wait", "wait_check"} => cnt[t] <= pending[stage[t]]
    /\ \A k \in Kinds : before[t][k] <= pending[k]

(* A stage of a call that has been passed is complete. *)
StagesPassed ==
  \A t \in Threads :
    /\ pc[t] \in InStage =>
         /\ call[t] # "none" /\ stage[t] \in Stages(call[t])
         /\ call[t] = "quiet" /\ stage[t] = "get" => Completed(t, "put")
    /\ pc[t] = "get_lock" => call[t] = "quiet" /\ Completed(t, "put")

(* Counting is enough to know what has completed: no operation completes or *)
(* is on its way uncounted, and no reader of the counters is ahead of them. *)
CompletionCounting == Counted /\ ReadsLag /\ StagesPassed

(* Threads that have a bounce buffer and have not issued its operation. *)
Holding == {t \in Threads : op[t].bb /\ pc[t] \in {"count", "issue", "again"}}

(* Every bounce buffer that is in use belongs to an operation that is about *)
(* to be issued, is on its way, or has an event that is not read yet: none  *)
(* is lost, none is reclaimed while the provider may still read it, and     *)
(* (TypeOK) no more are in use than there are.                              *)
BuffersAccounted ==
  /\ TypeOK
  /\ nalloc = Cardinality(Holding) + Cardinality({o \in flight : o.bb}) + Cardinality(cq)

(* With context locks every call returns: every put and get is accepted by  *)
(* the provider in the end, and every completion call completes.            *)
LockedCallsReturn ==
  \A t \in Threads : (build.ctx_lock /\ pc[t] # "idle") ~> pc[t] = "idle"

(* In the build without them a refused operation may wait for ever          *)
(* (RetryComes, below): if none does, every completion call returns.        *)
QuietReturnsIfRetried ==
  (\A t \in Threads : pc[t] = "again" ~> pc[t] = "issue") =>
    \A t \in Threads : (~build.ctx_lock /\ call[t] # "none") ~> call[t] = "none"

(* Every call returns, in the build without context locks as far as refused *)
(* operations are retried: try_again and the completion calls make way for  *)
(* each other, whoever holds which lock and however full the queues are.    *)
CallsReturn == LockedCallsReturn /\ QuietReturnsIfRetried

(* "If libfabric returned -FI_EAGAIN, attempt to reclaim resources and      *)
(* indicate that the operation should be retried": the retry comes.         *)
RetryComes == \A t \in Threads : pc[t] = "again" ~> pc[t] = "issue"
=============================================================================
