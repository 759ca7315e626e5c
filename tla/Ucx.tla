-------------------------------- MODULE Ucx --------------------------------
(***************************************************************************)
(* The UCX transport (transport_ucx.h, transport_ucx.c) of one PE.  Every  *)
(* context uses the one worker of the PE.  UCX either finishes an          *)
(* operation at once, or answers with a request that is completed, and its *)
(* callback called, when some thread makes the worker progress.  A request *)
(* that is freed earlier is completed without its callback.                *)
(*                                                                         *)
(* Another PE updates the word the masked swaps of this one work on.       *)
(***************************************************************************)
EXTENDS Integers, FiniteSets, Sequences

CONSTANTS
    Threads,     \* threads of the program
    MainThread,  \* the one that finalizes
    UcxBuilds,   \* the configurations to explore: records of
                 \*   calls:    the calls the program makes
                 \*   progress: PROGRESS_INTERVAL > 0
                 \*   max:      bound: how many of them one thread makes
                 \*   flush:    fence must flush (USE_CMA; USE_XPMEM without USE_SHR_ATOMICS)
    MaxRemote    \* bound: updates the other PE makes

VARIABLES
    build,       \* the configuration (rigid)
    ops,         \* the operations given to UCX, in order
    epoch,       \* how many fences the worker has seen
    word,        \* the remote word: the half the masked swaps write and the other half
    remote,      \* how many updates the other PE has made
    completion,  \* of each thread, the "completion" of its put
    pc, call,    \* of each thread, where it is and in which call
    cur,         \* of each thread, its last operation
    swapped,     \* history: the values the finished masked swaps have returned
    enabled,     \* shmem_transport_ucx_progress_thread_enabled
    prog,        \* the progress thread: "none", "check", "probe" or "exited"
    worker       \* "up" or "destroyed"

vars == <<build, ops, epoch, word, remote, completion, pc, call, cur, swapped,
          enabled, prog, worker>>
finiVars == <<build, enabled, prog, worker>>

Calls == {"put_scalar", "put_nb", "put_nbi", "get", "swap", "cswap", "fetch_atomic",
          "atomic_fetch", "swap_nbi", "cswap_nbi", "fetch_atomic_nbi", "atomic", "atomic_set",
          "put_signal", "mswap", "fence", "quiet"}

\* Each masked swap writes a value of its own.
Mine(t, n) == <<t, n>>
InitialWord == [masked |-> Mine(MainThread, 0), other |-> 0]
----------------------------------------------------------------------------
(* UCX (external). *)

\* ucp_put_nbx, ucp_put_nbi, ucp_get_nb, ucp_atomic_post, ucp_atomic_fetch_nb.
\* "at once" means that the caller's buffers are no longer used and that
\* there is no request.  A fetching operation that UCX does at once is one
\* that lands right after it was posted.
Post(t, kind, hasReq, arg, atOnce) ==
    ops' = Append(ops, [by |-> t, num |-> call[t].num, kind |-> kind, epoch |-> epoch,
                        arg |-> arg, val |-> InitialWord,
                        st  |-> "posted", buf |-> ~atOnce,
                        req |-> IF hasReq /\ ~atOnce THEN "held" ELSE "none"])

Earlier(i) == {j \in DOMAIN ops : ops[j].epoch < ops[i].epoch}
Landed(i) == ops[i].st # "posted"

\* The operation takes effect at the target; those after a fence wait for
\* those before it.
Land(i) ==
    /\ ~Landed(i) /\ \A j \in Earlier(i) : Landed(j)
    /\ ops' = [ops EXCEPT ![i].st = "landed", ![i].val = word]
    /\ word' = IF ops[i].kind = "cswap" /\ word = ops[i].arg.cond
               THEN ops[i].arg.value ELSE word
    /\ UNCHANGED <<epoch, remote, completion, pc, call, cur, swapped>> /\ UNCHANGED finiVars

\* ucp_worker_progress: what has landed is completed.
Completed == [i \in DOMAIN ops |-> IF Landed(i) THEN [ops[i] EXCEPT !.st = "done", !.buf = FALSE]
                                   ELSE ops[i]]

\* shmem_transport_ucx_cb_complete, for the requests still held.
CallbacksOf(t) == {i \in DOMAIN ops : /\ ops[i].st = "landed" /\ ops[i].by = t
                                      /\ ops[i].kind = "put_nb" /\ ops[i].req = "held"}
Called == [t \in Threads |-> IF CallbacksOf(t) # {} THEN 1 ELSE completion[t]]

\* The other PE adds to the half of the word that no masked swap writes.
RemoteUpdate ==
    /\ remote < MaxRemote /\ "mswap" \in build.calls
    /\ remote' = remote + 1
    /\ word' = [word EXCEPT !.other = @ + 1]
    /\ UNCHANGED <<ops, epoch, completion, pc, call, cur, swapped>> /\ UNCHANGED finiVars
----------------------------------------------------------------------------
(* What the calls are made of. *)

Goto(t, l) == pc' = [pc EXCEPT ![t] = l]
Return(t)  == Goto(t, "idle")
Steady == UNCHANGED <<epoch, word, remote, swapped>> /\ UNCHANGED finiVars
Issued(t)  == cur' = [cur EXCEPT ![t] = Len(ops) + 1]
Freed(i) == [ops EXCEPT ![i].req = IF @ = "held" THEN "freed" ELSE @]
AllLanded == \A i \in DOMAIN ops : Landed(i)

\* shmem_transport_probe
shmem_transport_probe == ops' = Completed /\ completion' = Called

\* shmem_transport_quiet: the flush returns when everything has completed.
quiet_nothing(t) ==
    /\ UNCHANGED <<ops, completion>> /\ UNCHANGED <<call, cur>>
    /\ Steady
shmem_transport_quiet(t) ==
    /\ AllLanded /\ shmem_transport_probe
    /\ UNCHANGED <<call, cur>>
    /\ Steady

\* shmem_transport_fence: a flush, or ucp_worker_fence.
shmem_transport_fence(t) ==
    IF build.flush
    THEN AllLanded /\ shmem_transport_probe /\ UNCHANGED epoch
    ELSE epoch' = epoch + 1 /\ UNCHANGED <<ops, completion>>

\* shmem_transport_ucx_complete_op: probe until it is done, then free it.
\* "next" is where the caller goes on.
shmem_transport_ucx_complete_op(t, next) ==
    IF Landed(cur[t])
    THEN /\ ops' = [Completed EXCEPT ![cur[t]].req = "freed"]
         /\ completion' = Called
         /\ Goto(t, next)
    ELSE shmem_transport_probe /\ UNCHANGED pc

\* shmem_transport_ucx_release_op
shmem_transport_ucx_release_op(t) == ops' = Freed(cur[t])

\* shmem_transport_ucx_post_cb_op
shmem_transport_ucx_post_cb_op(t) ==
    IF ops[cur[t]].req = "none"
    THEN completion' = [completion EXCEPT ![t] = 0] /\ UNCHANGED ops
    ELSE ops' = Freed(cur[t]) /\ UNCHANGED completion
----------------------------------------------------------------------------
(* The calls. *)

Call(t, c) ==
    /\ pc[t] = "idle" /\ worker = "up" /\ enabled
    /\ call[t].num < build.max /\ c \in build.calls
    /\ call' = [call EXCEPT ![t] = [name |-> c, num |-> @.num + 1, read |-> InitialWord]]
    /\ completion' = [completion EXCEPT ![t] = 0]
    /\ Goto(t, c)
    /\ UNCHANGED <<ops, cur>> /\ Steady

\* ... put_scalar: if UCX has not finished with the source, quiet.
ScalarNeedsQuiet(i) == ops[i].buf
shmem_transport_put_scalar(t) ==
    \/ /\ pc[t] = "put_scalar"
       /\ \E atOnce \in BOOLEAN : Post(t, "put_scalar", FALSE, "none", atOnce)
       /\ Issued(t) /\ Goto(t, "scalar_check")
       /\ UNCHANGED <<completion, call>> /\ Steady
    \/ /\ pc[t] = "scalar_check"
       /\ IF ScalarNeedsQuiet(cur[t]) THEN shmem_transport_quiet(t) ELSE quiet_nothing(t)
       /\ Return(t)

\* ... put_nb, then put_wait, as every blocking put of the library does.
shmem_transport_put_nb(t) ==
    \/ /\ pc[t] = "put_nb"
       /\ \E atOnce \in BOOLEAN : Post(t, "put_nb", TRUE, "none", atOnce)
       /\ Issued(t) /\ Goto(t, "put_posted")
       /\ UNCHANGED <<completion, call>> /\ Steady
    \/ /\ pc[t] = "put_posted"
       /\ shmem_transport_ucx_post_cb_op(t)
       /\ Goto(t, "put_wait")
       /\ UNCHANGED <<call, cur>> /\ Steady

shmem_transport_put_wait(t) ==
    /\ pc[t] = "put_wait"
    /\ IF completion[t] > 0
       THEN shmem_transport_probe /\ UNCHANGED pc
       ELSE UNCHANGED <<ops, completion>> /\ Return(t)
    /\ UNCHANGED <<call, cur>> /\ Steady

shmem_transport_put_nbi(t) ==
    /\ pc[t] = "put_nbi"
    /\ \E atOnce \in BOOLEAN : Post(t, "put_nbi", FALSE, "none", atOnce)
    /\ Issued(t) /\ Return(t)
    /\ UNCHANGED <<completion, call>> /\ Steady

\* ... get and the fetching atomics: posted, and completed in place.
Blocking(t, kind, arg, next) ==
    /\ Post(t, kind, TRUE, arg, FALSE)
    /\ Issued(t) /\ Goto(t, next)
    /\ UNCHANGED <<completion, call>> /\ Steady
shmem_transport_get(t)          == pc[t] = "get" /\ Blocking(t, "fetch", "none", "complete")
shmem_transport_swap(t)         == pc[t] = "swap" /\ Blocking(t, "fetch", "none", "complete")
shmem_transport_cswap(t)        == pc[t] = "cswap" /\ Blocking(t, "fetch", "none", "complete")
shmem_transport_fetch_atomic(t) ==
    pc[t] = "fetch_atomic" /\ Blocking(t, "fetch", "none", "complete")
shmem_transport_atomic_fetch(t) ==
    pc[t] = "atomic_fetch" /\ Blocking(t, "fetch", "none", "complete")

InPlace(t) ==
    /\ pc[t] = "complete"
    /\ shmem_transport_ucx_complete_op(t, "idle")
    /\ UNCHANGED <<call, cur>> /\ Steady

\* ... their non-blocking forms probe once and release the request;
\* atomic_set, a swap whose result is thrown away, only releases it.
Nonblocking(t, next) ==
    /\ Post(t, "nbi", TRUE, "none", FALSE)
    /\ Issued(t) /\ Goto(t, next)
    /\ UNCHANGED <<completion, call>> /\ Steady
shmem_transport_swap_nbi(t)  == pc[t] = "swap_nbi" /\ Nonblocking(t, "probe")
shmem_transport_cswap_nbi(t) == pc[t] = "cswap_nbi" /\ Nonblocking(t, "probe")
shmem_transport_fetch_atomic_nbi(t) == pc[t] = "fetch_atomic_nbi" /\ Nonblocking(t, "probe")
shmem_transport_atomic_set(t) == pc[t] = "atomic_set" /\ Nonblocking(t, "release")

ProbeAndRelease(t) ==
    \/ /\ pc[t] = "probe"
       /\ shmem_transport_probe
       /\ Goto(t, "release")
       /\ UNCHANGED <<call, cur>> /\ Steady
    \/ /\ pc[t] = "release"
       /\ shmem_transport_ucx_release_op(t)
       /\ Return(t)
       /\ UNCHANGED <<completion, call, cur>> /\ Steady

\* ... atomic: the value is taken when it is posted.
shmem_transport_atomic(t) ==
    /\ pc[t] = "atomic"
    /\ Post(t, "atomic", FALSE, "none", TRUE)
    /\ Issued(t) /\ Return(t)
    /\ UNCHANGED <<completion, call>> /\ Steady

\* ... mswap: read the word, swap the new one in if it has not changed, else
\* again.
mswap_new(t) == [call[t].read EXCEPT !.masked = Mine(t, call[t].num)]

\* Mutated form: the answer of the compare-and-swap is not looked at.
mswap_done_always(t) == TRUE

mswap_done(t) == ops[cur[t]].val = call[t].read
shmem_transport_mswap(t) ==
    \/ /\ pc[t] = "mswap"
       /\ Blocking(t, "fetch", "none", "mswap_read")
    \/ /\ pc[t] = "mswap_read"
       /\ shmem_transport_ucx_complete_op(t, "mswap_swap")
       /\ call' = [call EXCEPT ![t].read = ops[cur[t]].val]
       /\ UNCHANGED cur /\ Steady
    \/ /\ pc[t] = "mswap_swap"
       /\ Blocking(t, "cswap", [cond |-> call[t].read, value |-> mswap_new(t)], "mswap_complete")
    \/ /\ pc[t] = "mswap_complete"
       /\ shmem_transport_ucx_complete_op(t, "mswap_check")
       /\ UNCHANGED <<call, cur>> /\ Steady
    \/ /\ pc[t] = "mswap_check"
       /\ shmem_transport_probe
       /\ IF mswap_done(t)
          THEN swapped' = swapped \cup {<<t, call[t].num, ops[cur[t]].val.masked>>} /\ Return(t)
          ELSE Goto(t, "mswap") /\ UNCHANGED swapped
       /\ UNCHANGED <<call, cur, epoch, word, remote>> /\ UNCHANGED finiVars

\* ... put_signal_nbi: put_nbi, fence, then atomic or atomic_set.
shmem_transport_put_signal_nbi(t) ==
    \/ /\ pc[t] = "put_signal"
       /\ \E atOnce \in BOOLEAN : Post(t, "put_nbi", FALSE, "none", atOnce)
       /\ Issued(t) /\ Goto(t, "signal_fence")
       /\ UNCHANGED <<completion, call>> /\ Steady
    \/ /\ pc[t] = "signal_fence"
       /\ shmem_transport_fence(t)
       /\ Goto(t, "signal")
       /\ UNCHANGED <<call, cur, word, remote, swapped>> /\ UNCHANGED finiVars
    \/ /\ pc[t] = "signal"
       /\ \E sig_op \in {"atomic", "atomic_set"} :
              /\ Post(t, "signal", sig_op = "atomic_set", "none", sig_op = "atomic")
              /\ Goto(t, IF sig_op = "atomic_set" THEN "release" ELSE "idle")
       /\ Issued(t)
       /\ UNCHANGED <<completion, call>> /\ Steady

Fence(t) ==
    /\ pc[t] = "fence"
    /\ shmem_transport_fence(t)
    /\ Return(t)
    /\ UNCHANGED <<call, cur, word, remote, swapped>> /\ UNCHANGED finiVars

Quiet(t) == pc[t] = "quiet" /\ shmem_transport_quiet(t) /\ Return(t)
----------------------------------------------------------------------------
(* The progress thread and shmem_transport_fini. *)

Unmoved == UNCHANGED <<build, epoch, word, remote, call, cur, swapped>>

shmem_transport_ucx_progress_thread_func ==
    \/ /\ prog = "check"
       /\ prog' = IF enabled THEN "probe" ELSE "exited"
       /\ UNCHANGED <<ops, completion, pc, enabled, worker>> /\ Unmoved
    \/ /\ prog = "probe"
       /\ shmem_transport_probe
       /\ prog' = "check"
       /\ UNCHANGED <<pc, enabled, worker>> /\ Unmoved

\* Finalization, when every thread is out of the library.
StopProgress ==
    /\ \A t \in Threads : pc[t] = "idle"
    /\ enabled /\ enabled' = FALSE
    /\ UNCHANGED <<ops, completion, pc, prog, worker>> /\ Unmoved

\* Mutated form: the worker is destroyed without waiting for the thread.
Joined_not == TRUE

\* pthread_join, if there is a progress thread.
Joined == prog \in {"none", "exited"}
shmem_transport_fini ==
    /\ ~enabled /\ worker = "up" /\ Joined
    /\ AllLanded /\ shmem_transport_probe
    /\ worker' = "destroyed"
    /\ UNCHANGED <<pc, enabled, prog>> /\ Unmoved

Finished == /\ worker = "destroyed" /\ prog \in {"none", "exited"}
            /\ UNCHANGED vars
----------------------------------------------------------------------------
Init ==
    /\ build \in UcxBuilds
    /\ ops = <<>> /\ epoch = 0 /\ word = InitialWord /\ remote = 0
    /\ completion = [t \in Threads |-> 0]
    /\ pc = [t \in Threads |-> "idle"]
    /\ call = [t \in Threads |-> [name |-> "none", num |-> 0, read |-> InitialWord]]
    /\ cur = [t \in Threads |-> 0]
    /\ swapped = {}
    /\ enabled = TRUE /\ worker = "up"
    /\ prog = IF build.progress THEN "check" ELSE "none"

Step(t) ==
    \/ \E c \in Calls : Call(t, c)
    \/ shmem_transport_put_scalar(t)
    \/ shmem_transport_put_nb(t)
    \/ shmem_transport_put_wait(t)
    \/ shmem_transport_put_nbi(t)
    \/ shmem_transport_get(t) \/ shmem_transport_swap(t) \/ shmem_transport_cswap(t)
    \/ shmem_transport_fetch_atomic(t) \/ shmem_transport_atomic_fetch(t)
    \/ InPlace(t)
    \/ shmem_transport_swap_nbi(t) \/ shmem_transport_cswap_nbi(t)
    \/ shmem_transport_fetch_atomic_nbi(t) \/ shmem_transport_atomic_set(t)
    \/ ProbeAndRelease(t)
    \/ shmem_transport_atomic(t)
    \/ shmem_transport_mswap(t)
    \/ shmem_transport_put_signal_nbi(t)
    \/ Fence(t)
    \/ Quiet(t)

Next ==
    \/ \E t \in Threads : Step(t)
    \/ \E i \in DOMAIN ops : Land(i)
    \/ RemoteUpdate
    \/ shmem_transport_ucx_progress_thread_func
    \/ StopProgress
    \/ shmem_transport_fini
    \/ Finished

Spec == Init /\ [][Next]_vars
----------------------------------------------------------------------------
(* Properties. *)

Returned(i) == call[ops[i].by].num > ops[i].num \/ pc[ops[i].by] = "idle"

\* The calls that must be finished when they return are: after put_scalar
\* the source may be written, after a get, a fetching atomic or a masked
\* swap the result is there, although UCX may finish each of them later.
BlockingIsComplete ==
    \A i \in DOMAIN ops :
        Returned(i) => /\ ops[i].kind = "put_scalar" => ~ops[i].buf
                       /\ ops[i].kind \in {"fetch", "cswap"} => ops[i].st = "done"

\* No request is forgotten: a thread outside the library holds none, on any
\* way through complete_op, release_op and post_cb_op.
RequestsFreed ==
    \A i \in DOMAIN ops : Returned(i) => ops[i].req # "held"

\* put_signal: who sees the signal sees the data, with either fence.
SignalAfterData ==
    \A i, j \in DOMAIN ops :
        (/\ ops[j].kind = "signal" /\ Landed(j)
         /\ ops[i].by = ops[j].by /\ ops[i].num = ops[j].num)
        => Landed(i)

\* The masked swap made of a read and a compare-and-swap is atomic: no two
\* return the same value, none returns the value that is still there, and no
\* update of the other half of the word is lost.
MaskedSwapIsAtomic ==
    /\ \A a, b \in swapped : a # b => a[3] # b[3]
    /\ \A a \in swapped : a[3] # word.masked
    /\ word.other = remote

\* The progress thread never enters a worker that has been destroyed.
ProgressOnLiveWorker == prog = "probe" => worker = "up"

\* A blocking put that has returned no longer uses its source: "The routines
\* return after the data has been copied out of the source array"
\* (man/shmem_put.3).  put_wait waits while completion is positive, but it is
\* 0 from the start and the freed request never calls back.
PutCopiedOut ==
    \A i \in DOMAIN ops : Returned(i) /\ ops[i].kind = "put_nb" => ~ops[i].buf
============================================================================
