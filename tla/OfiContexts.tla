---------------------------- MODULE OfiContexts ----------------------------
(***************************************************************************)
(* Contexts of the OFI transport on one PE (transport_ofi.c): the pool of  *)
(* shared transmit contexts (STX), the key/value store that gives a thread *)
(* its private STX, the table of contexts of the world team, creation,     *)
(* destruction and shutdown.  Threads run user calls concurrently when the *)
(* thread level is MULTIPLE; then shmem_transport_ofi_lock is a real,      *)
(* non-recursive mutex.  At any lower level the mutex calls do nothing and *)
(* at most one thread is inside the library.                               *)
(***************************************************************************)
EXTENDS Integers, FiniteSets, FiniteSetsExt, SequencesExt

CONSTANTS
    Threads,         \* the threads that make context calls
    NoThread,        \* not a thread
    MainThread,      \* the one that initialises and finalises
    MaxCtx,          \* bound: context objects created in a run
    StxCounts,       \* values of shmem_transport_ofi_stx_max to explore
    Allocators,      \* the STX allocators to explore
    Threshold,       \* OFI_STX_THRESHOLD
    GrowSize,        \* shmem_transport_ofi_grow_size
    MaxFailures      \* bound: contexts whose creation fails

VARIABLES
    multiple,   \* is the thread level SHMEM_THREAD_MULTIPLE? (rigid)
    allocator,  \* shmem_transport_ofi_stx_allocator (rigid)
    pool,       \* shmem_transport_ofi_stx_pool: a function of the STX index
    kvs,        \* shmem_transport_ofi_stx_kvs: thread id -> STX index
    rr,         \* rr_start_idx
    contexts,   \* contexts[id] of the world team, Null where free
    ctx,        \* the context objects; 0 is shmem_transport_ctx_default
    lock,       \* the holder of shmem_transport_ofi_lock
    pc,         \* where each thread is
    cur,        \* the context object each thread works on
    phase       \* "running", "team_fini", "fini" or "down"

vars == <<multiple, allocator, pool, kvs, rr, contexts, ctx, lock, pc, cur, phase>>

Default == 0
Objects == 0 .. MaxCtx
Null    == -1

\* The fabric objects ctx_init opens, in order.
Resources == <<"put_cntr", "get_cntr", "cq", "ep">>

\* An object that is not allocated.
NoCtx == [state |-> "none", id |-> Null, private |-> FALSE, tid |-> NoThread,
          stx |-> Null, open |-> {}, failed |-> FALSE]

stx_max == Cardinality(DOMAIN pool)
contexts_len == Cardinality(DOMAIN contexts)
----------------------------------------------------------------------------
(* The STX pool. *)

\* The lowest unused STX, or Null.
stx_search_unused ==
    LET unused == {i \in DOMAIN pool : pool[i].ref_cnt = 0}
    IN  IF unused = {} THEN Null ELSE Min(unused)

Shareable(threshold) ==
    {i \in DOMAIN pool : /\ pool[i].ref_cnt > 0
                         /\ pool[i].ref_cnt <= threshold \/ threshold = -1
                         /\ ~pool[i].is_private}

\* The STXs a search for a shared one may return: the first at or after the
\* round-robin index, or any of them.
stx_search_shared(threshold) ==
    LET distance(i) == (i - rr + stx_max) % stx_max
        S == Shareable(threshold)
    IN  IF allocator = "random" THEN S
        ELSE {i \in S : \A j \in S : distance(i) <= distance(j)}

\* Mutated form: the fallback leaves the option set.
PrivateKept_always(how) == TRUE

\* stx_allocate: the possible outcomes for a context with these options.  "how"
\* says which branch was taken; a fallback clears SHMEM_CTX_PRIVATE.
PrivateKept(how) == how # "fallback"

Pick(S, how) == {[stx |-> i, how |-> how] : i \in S}

SharedFirst(how) ==
    LET below == stx_search_shared(Threshold)
    IN  Pick(IF below # {} THEN below ELSE stx_search_shared(-1), how)

stx_allocate(private, tid) ==
    CASE stx_max = 0 -> Pick({Null}, "none")
      [] stx_max > 0 /\ private /\ tid \in DOMAIN kvs -> Pick({kvs[tid]}, "own")
      [] stx_max > 0 /\ private /\ tid \notin DOMAIN kvs ->
            IF stx_search_unused # Null
            THEN Pick({stx_search_unused}, "fresh")
            ELSE SharedFirst("fallback")
      [] OTHER ->
            IF stx_search_shared(Threshold) = {} /\ stx_search_unused # Null
            THEN Pick({stx_search_unused}, "unused")
            ELSE SharedFirst("shared")

\* The pool, store and round-robin index after the outcome a for thread tid.
TakeStx(a, tid) ==
    /\ pool' = IF a.stx = Null THEN pool
               ELSE [pool EXCEPT ![a.stx].ref_cnt = @ + 1,
                                 ![a.stx].is_private = @ \/ a.how = "fresh"]
    /\ kvs' = IF a.how = "fresh"
              THEN [t \in DOMAIN kvs \cup {tid} |-> IF t = tid THEN a.stx ELSE kvs[t]]
              ELSE kvs
    /\ rr' = IF a.how \in {"shared", "fallback"} /\ allocator = "roundrobin"
             THEN (a.stx + 1) % stx_max ELSE rr

NoStxTaken == UNCHANGED <<pool, kvs, rr>>
----------------------------------------------------------------------------
(* shmem_transport_ofi_lock *)

MutexLock(t)   == IF multiple THEN lock = NoThread /\ lock' = t ELSE UNCHANGED lock
MutexUnlock(t) == IF multiple THEN lock' = NoThread ELSE UNCHANGED lock

Goto(t, label) == pc' = [pc EXCEPT ![t] = label]

\* Below MULTIPLE only one thread at a time is inside the library.
MayEnter(t) == /\ pc[t] = "user"
               /\ multiple \/ \A u \in Threads : pc[u] = "user"
----------------------------------------------------------------------------
(* Creation *)

\* The outcome of ctx_init: it opens the fabric objects in order, takes an STX,
\* then binds and enables the endpoint.  It may fail at each object and at the
\* binding; only the default context asks for bounce buffers.
ctx_init(t, o, id, private, outcome) ==
    LET opened == {Resources[k] : k \in 1 .. outcome}
        reached == outcome >= Len(Resources)           \* the STX is taken
        bound   == outcome > Len(Resources)            \* nothing failed
    IN  /\ \/ /\ ~reached
              /\ NoStxTaken
              /\ ctx' = [ctx EXCEPT ![o] = [state |-> "live", id |-> id, private |-> private,
                                            tid |-> t, stx |-> Null, open |-> opened,
                                            failed |-> TRUE]]
           \/ /\ reached
              /\ \E a \in stx_allocate(private, t) :
                    /\ TakeStx(a, t)
                    /\ ctx' = [ctx EXCEPT ![o] =
                          [state |-> "live", id |-> id,
                           private |-> private /\ PrivateKept(a.how), tid |-> t,
                           stx |-> a.stx,
                           open |-> ToSet(Resources)
                                    \cup (IF o = Default /\ bound THEN {"bounce"} ELSE {}),
                           failed |-> ~bound]]

\* 0..3: the object after so many failed to open; 4: the binding failed; 5: success.
Outcomes == IF Cardinality({o \in Objects : ctx[o].failed}) < MaxFailures
            THEN 0 .. Len(Resources) + 1 ELSE {Len(Resources) + 1}

\* The first free slot; the table grows when there is none.
FreeSlot == LET free == {i \in DOMAIN contexts : contexts[i] = Null}
            IN  IF free = {} THEN contexts_len ELSE Min(free)

GrownTable(id) ==
    IF id < contexts_len THEN contexts
    ELSE [i \in 0 .. contexts_len + GrowSize - 1 |->
             IF i < contexts_len THEN contexts[i] ELSE Null]

\* shmem_transport_startup: create the pool, then the default context with the
\* first of its STXs.  (A failure here ends the job: see Lifecycle.)
Startup(n) ==
    /\ pool = [i \in 0 .. n - 1 |-> [ref_cnt |-> IF i = 0 THEN 1 ELSE 0, is_private |-> FALSE]]
    /\ ctx = [o \in Objects |->
                 IF o # Default THEN NoCtx
                 ELSE [state |-> "live", id |-> Null, private |-> FALSE, tid |-> MainThread,
                       stx |-> IF n > 0 THEN 0 ELSE Null,
                       open |-> ToSet(Resources) \cup {"bounce"}, failed |-> FALSE]]

\* shmem_transport_ctx_create takes the lock, ...
CtxCreateLock(t) ==
    /\ phase = "running" /\ MayEnter(t)
    /\ \E o \in Objects : ctx[o].state = "none"
    /\ MutexLock(t)
    /\ Goto(t, "create")
    /\ UNCHANGED <<multiple, allocator, pool, kvs, rr, contexts, ctx, cur, phase>>

\* ... picks a slot and initialises an object; a failed one is destroyed at
\* once, with the lock still held.
CtxCreate(t) ==
    /\ pc[t] = "create"
    /\ LET o  == Min({x \in Objects : ctx[x].state = "none"})
           id == FreeSlot
       IN  \E private \in BOOLEAN, outcome \in Outcomes :
             /\ ctx_init(t, o, id, private, outcome)
             /\ cur' = [cur EXCEPT ![t] = o]
             /\ IF outcome > Len(Resources)
                THEN contexts' = [GrownTable(id) EXCEPT ![id] = o] /\ Goto(t, "created")
                ELSE contexts' = GrownTable(id) /\ Goto(t, "close_ep")
    /\ UNCHANGED <<multiple, allocator, lock, phase>>

CtxCreateUnlock(t) ==
    /\ pc[t] = "created"
    /\ MutexUnlock(t)
    /\ Goto(t, "user")
    /\ cur' = [cur EXCEPT ![t] = Null]
    /\ UNCHANGED <<multiple, allocator, pool, kvs, rr, contexts, ctx, phase>>
----------------------------------------------------------------------------
(* Destruction *)

\* shmem_ctx_destroy: any thread may destroy a shareable context, only its owner
\* a private one, and nobody destroys one twice.
CtxDestroy(t) ==
    /\ phase = "running" /\ MayEnter(t)
    /\ \E i \in DOMAIN contexts :
          LET o == contexts[i]
          IN  /\ o # Null
              /\ \A u \in Threads : cur[u] # o
              /\ ctx[o].private => ctx[o].tid = t
              /\ cur' = [cur EXCEPT ![t] = o]
    /\ Goto(t, "close_ep")
    /\ UNCHANGED <<multiple, allocator, pool, kvs, rr, contexts, ctx, lock, phase>>

\* shmem_transport_ctx_destroy: the endpoint and the bounce buffers go first, ...
CtxCloseEp(t) ==
    /\ pc[t] = "close_ep"
    /\ ctx' = [ctx EXCEPT ![cur[t]].open = @ \ {"ep", "bounce"}]
    /\ Goto(t, IF ctx[cur[t]].stx # Null THEN "stx_lock" ELSE "close_rest")
    /\ UNCHANGED <<multiple, allocator, pool, kvs, rr, contexts, lock, cur, phase>>

\* ... then, under the lock, the reference to the STX, ...
ReleaseStx(t) ==
    LET c == ctx[cur[t]]
        i == c.stx
        last == pool[i].ref_cnt = 1
    IN  IF c.private
        THEN IF c.tid \in DOMAIN kvs
             THEN /\ pool' = [pool EXCEPT ![i].ref_cnt = @ - 1,
                                          ![i].is_private = @ /\ ~last]
                  /\ kvs' = [u \in DOMAIN kvs \ (IF last THEN {c.tid} ELSE {}) |-> kvs[u]]
             ELSE UNCHANGED <<pool, kvs>>               \* only a warning
        ELSE pool' = [pool EXCEPT ![i].ref_cnt = @ - 1] /\ UNCHANGED kvs

CtxReleaseStx(t) ==
    /\ pc[t] = "stx_lock"
    /\ MutexLock(t)
    /\ ReleaseStx(t)
    /\ ctx' = [ctx EXCEPT ![cur[t]].stx = Null]
    /\ Goto(t, "stx_unlock")
    /\ UNCHANGED <<multiple, allocator, rr, contexts, cur, phase>>

CtxReleaseUnlock(t) ==
    /\ pc[t] = "stx_unlock"
    /\ MutexUnlock(t)
    /\ Goto(t, "close_rest")
    /\ UNCHANGED <<multiple, allocator, pool, kvs, rr, contexts, ctx, cur, phase>>

\* ... the counters and the queue, ...
CtxCloseRest(t) ==
    /\ pc[t] = "close_rest"
    /\ ctx' = [ctx EXCEPT ![cur[t]].open = @ \ {"put_cntr", "get_cntr", "cq"}]
    /\ Goto(t, IF ctx[cur[t]].id # Null THEN "slot_lock" ELSE "destroyed")
    /\ UNCHANGED <<multiple, allocator, pool, kvs, rr, contexts, lock, cur, phase>>

\* ... and under the lock again the slot; then the object is freed.
CtxClearSlot(t) ==
    /\ pc[t] = "slot_lock"
    /\ MutexLock(t)
    /\ contexts' = [contexts EXCEPT ![ctx[cur[t]].id] = Null]
    /\ Goto(t, "slot_unlock")
    /\ UNCHANGED <<multiple, allocator, pool, kvs, rr, ctx, cur, phase>>

CtxFree(t) ==
    /\ pc[t] = "slot_unlock"
    /\ MutexUnlock(t)
    /\ ctx' = [ctx EXCEPT ![cur[t]].state = "freed"]
    /\ Goto(t, "destroyed")
    /\ UNCHANGED <<multiple, allocator, pool, kvs, rr, contexts, cur, phase>>

\* Return to the caller of ctx_destroy: ctx_create (below MULTIPLE; a failed
\* create never gets here otherwise), the user, or the shutdown.
CtxDestroyed(t) ==
    /\ pc[t] = "destroyed"
    /\ Goto(t, IF ctx[cur[t]].failed THEN "created"
               ELSE IF phase = "running" THEN "user" ELSE "fini")
    /\ cur' = [cur EXCEPT ![t] = Null]
    /\ UNCHANGED <<multiple, allocator, pool, kvs, rr, contexts, ctx, lock, phase>>
----------------------------------------------------------------------------
(* Shutdown *)

FiniStart ==
    /\ phase = "running"
    /\ \A t \in Threads : pc[t] = "user"
    /\ phase' = "team_fini"
    /\ Goto(MainThread, "fini")
    /\ UNCHANGED <<multiple, allocator, pool, kvs, rr, contexts, ctx, lock, cur>>

\* Mutated form: private contexts are skipped.
Undestroyed_shareable ==
    {i \in DOMAIN contexts : contexts[i] # Null /\ ~ctx[contexts[i]].private}

\* The destruction of the world team destroys the contexts left in its table.
Undestroyed == {i \in DOMAIN contexts : contexts[i] # Null}

TeamFini ==
    /\ phase = "team_fini" /\ pc[MainThread] = "fini"
    /\ IF Undestroyed # {}
       THEN /\ cur' = [cur EXCEPT ![MainThread] = contexts[Min(Undestroyed)]]
            /\ Goto(MainThread, "close_ep")
            /\ UNCHANGED phase
       ELSE phase' = "fini" /\ UNCHANGED <<cur, pc>>
    /\ UNCHANGED <<multiple, allocator, pool, kvs, rr, contexts, ctx, lock>>

\* shmem_transport_fini: the default context, then the pool and the store.
TransportFini ==
    /\ phase = "fini" /\ pc[MainThread] = "fini"
    /\ IF ctx[Default].open # {}
       THEN /\ cur' = [cur EXCEPT ![MainThread] = Default]
            /\ Goto(MainThread, "close_ep")
            /\ UNCHANGED phase
       ELSE phase' = "down" /\ UNCHANGED <<cur, pc>>
    /\ UNCHANGED <<multiple, allocator, pool, kvs, rr, contexts, ctx, lock>>

\* A create that failed under MULTIPLE waits for the mutex it holds, for ever.
SelfDeadlocked(t) == lock = t /\ pc[t] \in {"stx_lock", "slot_lock"}

Finished == /\ \/ phase = "down"
               \/ \E t \in Threads : SelfDeadlocked(t)
            /\ UNCHANGED vars

Init ==
    /\ multiple \in BOOLEAN
    /\ allocator \in Allocators
    /\ \E n \in StxCounts : Startup(n)
    /\ kvs = [t \in {} |-> Null]
    /\ rr = 0
    /\ contexts = [i \in {} |-> Null]
    /\ lock = NoThread
    /\ pc = [t \in Threads |-> "user"]
    /\ cur = [t \in Threads |-> Null]
    /\ phase = "running"

CtxStep(t) == \/ CtxCreateLock(t) \/ CtxCreate(t) \/ CtxCreateUnlock(t)
              \/ CtxDestroy(t) \/ CtxCloseEp(t) \/ CtxReleaseStx(t) \/ CtxReleaseUnlock(t)
              \/ CtxCloseRest(t) \/ CtxClearSlot(t) \/ CtxFree(t) \/ CtxDestroyed(t)

Next == \/ \E t \in Threads : CtxStep(t)
        \/ FiniStart \/ TeamFini \/ TransportFini
        \/ Finished

Spec == Init /\ [][Next]_vars
----------------------------------------------------------------------------
(* Properties *)

Holders(i) == {o \in Objects : ctx[o].stx = i}

\* The reference count of an STX is the number of contexts that transmit on it,
\* whatever mixture of creations, fallbacks from private to shared, failed
\* creations and destructions came before (transport_ofi.c:491-562, 1697-1724).
StxAccounting == \A i \in DOMAIN pool : pool[i].ref_cnt = Cardinality(Holders(i))

\* An STX is private exactly when the store gives it to one thread, and then
\* every context on it is a private context of that thread: no other thread
\* transmits on it without locking (transport_ofi.c:505-546).
PrivateExclusive ==
    /\ \A i \in DOMAIN pool :
          pool[i].is_private <=> Cardinality({t \in DOMAIN kvs : kvs[t] = i}) = 1
    /\ \A t \in DOMAIN kvs, o \in Objects :
          ctx[o].stx = kvs[t] => ctx[o].private /\ ctx[o].tid = t

\* "When stx_max > 0, shared STX allocation is always successful"
\* (transport_ofi.c:517): until the transport is shut down some STX in use is not
\* private, so the assertions after the searches hold however many private
\* contexts there are.
SharedAvailable == stx_max > 0 /\ phase \in {"running", "team_fini"} => Shareable(-1) # {}

\* A slot of the table holds a live object that knows it is there, and a context
\* that was created is in the table until its destruction clears its slot: no
\* dangling pointer is left for the team's destruction to follow.
TableSound ==
    /\ \A i \in DOMAIN contexts :
          contexts[i] # Null => ctx[contexts[i]].state = "live" /\ ctx[contexts[i]].id = i
    /\ \A o \in Objects : ctx[o].state = "live" /\ o # Default /\ (\A t \in Threads : cur[t] # o)
          => contexts[ctx[o].id] = o

\* After the shutdown nothing is left: every reference count is zero, the store
\* is empty and every fabric object of every context, also of the ones whose
\* creation failed half way, is closed (transport_ofi.c:1751-1780).
FiniClean ==
    phase = "down" =>
        /\ \A i \in DOMAIN pool : pool[i] = [ref_cnt |-> 0, is_private |-> FALSE]
        /\ kvs = [t \in {} |-> Null]
        /\ \A o \in Objects : ctx[o].open = {}

\* A thread blocks on the mutex it holds only inside a creation that failed: the
\* two critical sections of a destruction do not overlap.
OnlyFailedCreateHangs ==
    \A t \in Threads : SelfDeadlocked(t) => ctx[cur[t]].failed
=============================================================================
