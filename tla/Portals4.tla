------------------------------ MODULE Portals4 ------------------------------
(***************************************************************************)
(* The Portals 4 transport (transport_portals4.h, transport_portals4.c) of *)
(* one PE below SHMEM_THREAD_MULTIPLE, where its mutexes do nothing: one   *)
(* thread issues operations and the network completes them in any order.   *)
(*                                                                         *)
(* Three memory descriptors carry puts.  The volatile one copies its       *)
(* source at once; the put one reads it later and tells nobody; the event  *)
(* one, which all contexts share, leaves a SEND event in the event queue   *)
(* when the source has been read.  The acknowledgements of the first two   *)
(* are counted per context, those of the third in one counter of the PE.   *)
(* An operation on the event descriptor owns a fragment and a slot of the  *)
(* event queue until drain_eq takes its event out.                         *)
(***************************************************************************)
EXTENDS Integers, FiniteSets, FiniteSetsExt, SequencesExt

CONSTANTS
    Builds   \* the configurations to explore: records of
             \*   slots:     shmem_transport_portals4_event_slots at start
             \*   fragments: parts a long atomicv is cut into
             \*   ordering:  PORTALS4_TOTAL_DATA_ORDERING
             \*   contexts:  may the program create a context, and when?
             \*   ops, cts:  bounds: operations issued, counters created
             \*   rva:       ENABLE_REMOTE_VIRTUAL_ADDRESSING

VARIABLES
    build,         \* the configuration (rigid)
    ctxs,          \* the contexts there are
    event_slots,   \* shmem_transport_portals4_event_slots
    eq,            \* the event queue: the fragments of its SEND events
    frags,         \* bounce buffers and long fragments: [type, reference, free]
    completion,    \* the *completion of the blocking calls in progress
    pending,       \* pending_put_cntr, pending_get_cntr; pending_put_event_cntr
    ct,            \* the counting events with the same names
    long_pending,  \* shmem_transport_portals4_long_pending
    flight,        \* operations in the network
    issued,        \* how many were issued
    fenced,        \* history: per context, how many operations its last fence followed
    covered,       \* history: what the last quiet left in the network, of its context's
    pt_state,      \* shmem_transport_portals4_pt_state
    cts,           \* the counters created: sets of portal table indices
    pc, req        \* where the program is, and with what

vars == <<build, ctxs, event_slots, eq, frags, completion, pending, ct, long_pending,
          flight, issued, fenced, covered, pt_state, cts, pc, req>>
netVars == <<ct, flight, eq>>
ptVars  == <<pt_state, cts>>
history == <<fenced, covered>>

Default == "default"
User    == "user"
Event   == "event"                    \* the counters of the event descriptor
Counters == {Default, User, Event} \X {"put", "get"}

NoReq == [kind |-> "none", ctx |-> Default, left |-> 0, frag |-> 0, then |-> "user"]

\* The fragments; shmem_free_list_alloc takes the head of the free list or makes
\* more: in any case one that nobody uses.
Frags == 1 .. build.ops * build.fragments + 1
FreeFrag == Min({f \in Frags : frags[f].free})
Alloc(f, type) == [frags EXCEPT ![f].type = type, ![f].free = FALSE]

\* SHMEMX_CTX_BOUNCE_BUFFER: only the default context has it.
Bounces(c) == c = Default
----------------------------------------------------------------------------
(* The network (external): Portals below the API. *)

\* "blocking": the user may write to the source once the call has returned;
\* "after": the puts of the context up to this number were fenced before it.
Issue(c, md, f, blocking) ==
    /\ flight' = flight \cup {[num |-> issued + 1, ctx |-> c, md |-> md, frag |-> f,
                               sent |-> md \in {"volatile", "get"}, delivered |-> FALSE,
                               blocking |-> blocking, after |-> fenced[c]]}
    /\ issued' = issued + 1

CounterOf(o) == IF o.md = "get" THEN <<o.ctx, "get">>
                ELSE IF o.md = "event" THEN <<Event, "put">> ELSE <<o.ctx, "put">>

\* The source has been read; the event descriptor says so.
NetSend ==
    \E o \in flight :
        /\ ~o.sent
        /\ flight' = (flight \ {o}) \cup {[o EXCEPT !.sent = TRUE]}
        /\ eq' = IF o.md = "event" THEN Append(eq, o.frag) ELSE eq
        /\ UNCHANGED <<build, ctxs, event_slots, frags, completion, pending, ct, long_pending,
                       issued, history, ptVars, pc, req>>

\* The data arrive.  With total data ordering none overtakes a short message: the
\* code relies on that when it leaves out the quiet of a fence.
NetDeliver ==
    \E o \in flight :
        /\ o.sent /\ ~o.delivered
        /\ build.ordering /\ o.md # "get" =>
              \A p \in flight : p.md = "volatile" /\ p.num < o.num => p.delivered
        /\ flight' = (flight \ {o}) \cup {[o EXCEPT !.delivered = TRUE]}
        /\ UNCHANGED <<build, ctxs, event_slots, eq, frags, completion, pending, ct, long_pending,
                       issued, history, ptVars, pc, req>>

\* The acknowledgement, or the reply of a get, is counted.
NetAck ==
    \E o \in flight :
        /\ o.delivered
        /\ flight' = flight \ {o}
        /\ ct' = [ct EXCEPT ![CounterOf(o)] = @ + 1]
        /\ UNCHANGED <<build, ctxs, event_slots, eq, frags, completion, pending, long_pending,
                       issued, history, ptVars, pc, req>>
----------------------------------------------------------------------------
(* Puts *)

Pend(k) == pending' = [pending EXCEPT ![k] = @ + 1]
MayIssue == pc = "user" /\ issued < build.ops

\* PtlPut or PtlAtomic on the volatile descriptor.
put_volatile(c) ==
    /\ Pend(<<c, "put">>)
    /\ Issue(c, "volatile", 0, FALSE)

shmem_transport_put_scalar(c) ==
    /\ MayIssue
    /\ put_volatile(c)
    /\ UNCHANGED <<build, ctxs, event_slots, eq, frags, completion, ct, long_pending, history,
                   ptVars, pc, req>>

shmem_transport_atomic(c) == shmem_transport_put_scalar(c)
shmem_transport_atomic_set(c) == shmem_transport_put_scalar(c)

\* put_nbi with a long source: its buffer is the user's until a quiet.
put_nbi_long(c, blocking, then, label) ==
    /\ Pend(<<c, "put">>)
    /\ Issue(c, "put", 0, blocking)
    /\ long_pending' = build.ordering
    /\ pc' = label
    /\ req' = [NoReq EXCEPT !.ctx = c, !.then = then]
    /\ UNCHANGED <<build, ctxs, event_slots, eq, frags, completion, ct, history, ptVars>>

shmem_transport_put_nbi(c) ==
    \/ shmem_transport_put_scalar(c)
    \/ MayIssue /\ put_nbi_long(c, FALSE, "user", "user")

\* put_nb on a context with bounce buffers: short sources go out at once, others
\* need an event slot first.  Elsewhere it is put_nbi, and put_wait is quiet.
shmem_transport_put_nb(c) ==
    /\ MayIssue
    /\ \/ /\ put_volatile(c)
          /\ UNCHANGED <<completion, pc, req, build, ctxs, event_slots, eq, frags, ct,
                         long_pending, history, ptVars>>
       \/ /\ Bounces(c)
          /\ \E kind \in {"bounce", "long"} :
                req' = [NoReq EXCEPT !.kind = kind, !.ctx = c, !.left = 1]
          /\ pc' = "slot"
          /\ UNCHANGED <<build, ctxs, event_slots, eq, frags, completion, pending, ct,
                         long_pending, flight, issued, history, ptVars>>
       \/ /\ ~Bounces(c)
          /\ put_nbi_long(c, TRUE, "user", "put_wait")

\* atomicv takes its fragment first and a slot for each of its parts.  Its only
\* callers, the reductions, use the default context.
shmem_transport_atomicv(c) ==
    /\ MayIssue /\ c = Default
    /\ pc' = "slot"
    /\ \/ req' = [NoReq EXCEPT !.kind = "bounce", !.ctx = c, !.left = 1] /\ UNCHANGED frags
       \/ /\ req' = [NoReq EXCEPT !.kind = "atomicv", !.ctx = c, !.left = build.fragments,
                                  !.frag = FreeFrag]
          /\ frags' = Alloc(FreeFrag, "long")
    /\ UNCHANGED <<build, ctxs, event_slots, eq, completion, pending, ct, long_pending, flight,
                   issued, history, ptVars>>

\* while (0 >= --event_slots) { event_slots++; drain_eq(); }
TakeSlot ==
    /\ pc = "slot" /\ event_slots - 1 > 0
    /\ event_slots' = event_slots - 1
    /\ pc' = "issue"
    /\ UNCHANGED <<build, ctxs, eq, frags, completion, pending, ct, long_pending, flight,
                   issued, history, ptVars, req>>

\* Mutated form: the first event frees the fragment.
drain_eq_first(f) ==
    frags' = [frags EXCEPT ![f].reference = 0, ![f].free = TRUE]

\* drain_eq: wait for an event and give back its slot; a bounce buffer goes to its
\* free list, a long fragment loses a reference and goes with the last one.
drain_eq_frag(f) ==
    LET left == IF frags[f].type = "bounce" THEN 0 ELSE Max({0, frags[f].reference - 1})
    IN  frags' = [frags EXCEPT ![f].reference = left, ![f].free = left = 0]

drain_eq ==
    /\ eq # <<>>
    /\ eq' = Tail(eq)
    /\ event_slots' = event_slots + 1
    /\ LET f == Head(eq)
       IN  /\ drain_eq_frag(f)
           /\ completion' = IF frags[f].type = "bounce" THEN completion ELSE completion - 1
    /\ UNCHANGED <<build, ctxs, pending, ct, long_pending, flight, issued, history, ptVars>>

\* The slots may run out between two parts of one atomicv, whose fragment then has
\* references only for the parts sent so far.  When the event drained here is the
\* last of them the fragment goes to the free list, and the loop goes on with it:
\* from there on it is in the list and in use, and the model ends.
TearsFrag == req.kind = "atomicv" /\ Head(eq) = req.frag /\ frags[req.frag].reference <= 1

DrainForSlot ==
    /\ pc = "slot" /\ event_slots - 1 <= 0
    /\ drain_eq
    /\ pc' = IF TearsFrag THEN "torn" ELSE pc
    /\ UNCHANGED req

\* With the slot: PtlPut or PtlAtomic on the event descriptor.
IssueEvent ==
    /\ pc = "issue"
    /\ LET f == IF req.kind = "atomicv" THEN req.frag ELSE FreeFrag
           got == CASE req.kind = "atomicv" -> frags
                    [] req.kind = "bounce"  -> Alloc(f, "bounce")
                    [] req.kind = "long"    -> Alloc(f, "long")
       IN  /\ Issue(req.ctx, "event", f, req.kind # "bounce")
           /\ frags' = [got EXCEPT ![f].reference = @ + 1]
    /\ Pend(<<Event, "put">>)
    /\ completion' = IF req.kind = "bounce" THEN completion ELSE completion + 1
    /\ long_pending' = build.ordering
    /\ req' = [req EXCEPT !.left = @ - 1]
    /\ pc' = IF req.left > 1 THEN "slot" ELSE "put_wait"
    /\ UNCHANGED <<build, ctxs, event_slots, eq, ct, history, ptVars>>

\* put_wait: drain the queue until the sources have been read, or quiet.
PutWaitOver == pc = "put_wait" /\ Bounces(req.ctx) /\ completion <= 0

shmem_transport_put_wait ==
    \/ /\ PutWaitOver
       /\ pc' = "user" /\ req' = NoReq
       /\ UNCHANGED <<build, ctxs, event_slots, eq, frags, completion, pending, ct, long_pending,
                      flight, issued, history, ptVars>>
    \/ /\ pc = "put_wait" /\ Bounces(req.ctx) /\ completion > 0
       /\ drain_eq /\ UNCHANGED <<pc, req>>
    \/ /\ pc = "put_wait" /\ ~Bounces(req.ctx)
       /\ pc' = "quiet_get"
       /\ UNCHANGED <<build, ctxs, event_slots, eq, frags, completion, pending, ct, long_pending,
                      flight, issued, history, ptVars, req>>

\* A collective issues several put_nb before its one put_wait.
PutAgain ==
    /\ pc = "put_wait" /\ Bounces(req.ctx) /\ issued < build.ops
    /\ req' = [NoReq EXCEPT !.kind = "long", !.ctx = req.ctx, !.left = 1]
    /\ pc' = "slot"
    /\ UNCHANGED <<build, ctxs, event_slots, eq, frags, completion, pending, ct, long_pending,
                   flight, issued, history, ptVars>>
----------------------------------------------------------------------------
(* Gets and fetching atomics *)

shmem_transport_get(c) ==
    /\ MayIssue
    /\ Pend(<<c, "get">>)
    /\ Issue(c, "get", 0, FALSE)
    /\ UNCHANGED <<build, ctxs, event_slots, eq, frags, completion, ct, long_pending, history,
                   ptVars, pc, req>>

\* The reply of a fetching operation comes back on the get descriptor.
shmem_transport_swap(c)         == shmem_transport_get(c)
shmem_transport_cswap(c)        == shmem_transport_get(c)
shmem_transport_mswap(c)        == shmem_transport_get(c)
shmem_transport_fetch_atomic(c) == shmem_transport_get(c)

CounterReached(k) == ct[k] >= pending[k]

\* get_wait, and the first of the three waits of a quiet.
shmem_transport_get_wait(next) ==
    /\ CounterReached(<<req.ctx, "get">>)
    /\ pc' = next
    /\ UNCHANGED <<build, ctxs, event_slots, eq, frags, completion, pending, ct, long_pending,
                   flight, issued, history, ptVars, req>>
----------------------------------------------------------------------------
(* Completion *)

StartQuiet(c, then) ==
    /\ pc' = "quiet_get"
    /\ req' = [NoReq EXCEPT !.ctx = c, !.then = then]
    /\ UNCHANGED <<build, ctxs, event_slots, eq, frags, completion, pending, ct, long_pending,
                   flight, issued, history, ptVars>>

UserQuiet(c) == pc = "user" /\ issued > 0 /\ StartQuiet(c, "user")
UserGetWait(c) == /\ pc = "user"
                  /\ pending[<<c, "get">>] > ct[<<c, "get">>]
                  /\ pc' = "get_wait" /\ req' = [NoReq EXCEPT !.ctx = c]
                  /\ UNCHANGED <<build, ctxs, event_slots, eq, frags, completion, pending, ct,
                                 long_pending, flight, issued, history, ptVars>>

GetWaited == pc = "get_wait" /\ shmem_transport_get_wait("user")

\* Mutated form: quiet waits for the context's own counters only.
QuietGet_skips ==
    pc = "quiet_get" /\ shmem_transport_get_wait("quiet_put")

QuietGet == pc = "quiet_get" /\ shmem_transport_get_wait("quiet_event")

QuietEvent ==
    /\ pc = "quiet_event"
    /\ CounterReached(<<Event, "put">>)
    /\ pc' = "quiet_put"
    /\ UNCHANGED <<build, ctxs, event_slots, eq, frags, completion, pending, ct, long_pending,
                   flight, issued, history, ptVars, req>>

\* What a quiet of context c must have completed and has not.
LeftBehind(c) == {o.num : o \in {x \in flight : x.ctx = c}}

QuietPut ==
    /\ pc = "quiet_put"
    /\ CounterReached(<<req.ctx, "put">>)
    /\ covered' = LeftBehind(req.ctx)
    /\ pc' = req.then
    /\ req' = IF req.then = "user" THEN NoReq ELSE req
    /\ UNCHANGED <<build, ctxs, event_slots, eq, frags, completion, pending, ct, long_pending,
                   flight, issued, fenced, ptVars>>

\* Mutated form: long puts are forgotten.
FenceSkips_always == build.ordering

\* fence: a quiet, unless the network orders what was sent.
FenceSkips == build.ordering /\ ~long_pending

\* put_signal_nbi: the data, a fence, and the signal.
shmem_transport_put_signal_nbi(c) ==
    /\ MayIssue /\ issued + 1 < build.ops
    /\ \/ put_nbi_long(c, FALSE, "signal", "fence")
       \/ /\ put_volatile(c)
          /\ pc' = "fence" /\ req' = [NoReq EXCEPT !.ctx = c, !.then = "signal"]
          /\ UNCHANGED <<build, ctxs, event_slots, eq, frags, completion, ct, long_pending,
                         history, ptVars>>

\* The user's shmem_fence.
UserFence(c) ==
    /\ MayIssue /\ issued > 0
    /\ pc' = "fence" /\ req' = [NoReq EXCEPT !.ctx = c]
    /\ UNCHANGED <<build, ctxs, event_slots, eq, frags, completion, pending, ct, long_pending,
                   flight, issued, history, ptVars>>

shmem_transport_fence ==
    /\ pc = "fence"
    /\ IF FenceSkips
       THEN pc' = "fenced" /\ UNCHANGED req
       ELSE pc' = "quiet_get" /\ req' = [req EXCEPT !.kind = req.then, !.then = "fence_quiet"]
    /\ UNCHANGED <<build, ctxs, event_slots, eq, frags, completion, pending, ct, long_pending,
                   flight, issued, history, ptVars>>

FenceQuieted ==
    /\ pc = "fence_quiet"
    /\ long_pending' = FALSE
    /\ pc' = "fenced" /\ req' = [req EXCEPT !.kind = "none", !.then = req.kind]
    /\ UNCHANGED <<build, ctxs, event_slots, eq, frags, completion, pending, ct, flight, issued,
                   history, ptVars>>

FenceReturns ==
    /\ pc = "fenced"
    /\ fenced' = [fenced EXCEPT ![req.ctx] = issued]
    /\ pc' = req.then
    /\ UNCHANGED <<build, ctxs, event_slots, eq, frags, completion, pending, ct, long_pending,
                   flight, issued, covered, ptVars, req>>

Signal ==
    /\ pc = "signal"
    /\ put_volatile(req.ctx)
    /\ pc' = "user" /\ req' = NoReq
    /\ UNCHANGED <<build, ctxs, event_slots, eq, frags, completion, ct, long_pending, history,
                   ptVars>>
----------------------------------------------------------------------------
(* Contexts *)

\* ctx_create resets the pending counter of the event descriptor, which is not
\* the context's own.  When ctx_init fails the store to (*ctx)->team crashes.
shmem_transport_ctx_create ==
    /\ pc = "user" /\ User \notin ctxs
    /\ build.contexts # "none"
    /\ build.contexts = "first" => issued = 0
    /\ \/ ctxs' = ctxs \cup {User} /\ UNCHANGED pc
       \/ pc' = "crashed" /\ UNCHANGED ctxs
    /\ pending' = [pending EXCEPT ![<<Event, "put">>] = 0,
                                  ![<<User, "put">>] = 0, ![<<User, "get">>] = 0]
    /\ UNCHANGED <<build, event_slots, eq, frags, completion, ct, long_pending, flight, issued,
                   history, ptVars, req>>

\* shmem_ctx_destroy is a quiet and then ctx_destroy.
UserDestroy == pc = "user" /\ User \in ctxs /\ issued > 0 /\ StartQuiet(User, "destroy")

shmem_transport_ctx_destroy ==
    /\ pc = "destroy"
    /\ ctxs' = ctxs \ {User}
    /\ ct' = [ct EXCEPT ![<<User, "put">>] = 0, ![<<User, "get">>] = 0]
    /\ pending' = [pending EXCEPT ![<<User, "put">>] = 0, ![<<User, "get">>] = 0]
    /\ pc' = "user" /\ req' = NoReq
    /\ UNCHANGED <<build, event_slots, eq, frags, completion, long_pending, flight, issued,
                   history, ptVars>>

\* shmem_transport_fini: the default context is quieted and everything freed.
UserFini == pc = "user" /\ (issued = build.ops \/ build.cts > 0) /\ StartQuiet(Default, "fini")

shmem_transport_fini ==
    /\ pc = "fini"
    /\ ctxs' = {} /\ pc' = "down"
    /\ UNCHANGED <<build, event_slots, eq, frags, completion, pending, ct, long_pending, flight,
                   issued, history, ptVars, req>>
----------------------------------------------------------------------------
(* Counters of the shmemx_ct interface: one portal table entry for each       *)
(* segment.                                                                   *)

PTs == 0 .. 31
Reserved == {6, 8} \cup 16 .. 21
\* The initialiser of pt_state: 9 is free exactly when it is the heap's entry.
PtInit == [i \in PTs |-> IF i \in Reserved \/ (i = 9 /\ build.rva) THEN "reserved" ELSE "free"]

\* The entries start-up allocated for all of memory, or for data and heap.
SegmentPTs == IF build.rva THEN {8} ELSE {8, 9}

FreePTs == {i \in PTs : pt_state[i] = "free"}
FirstFreePT(S) == Min(FreePTs \ S)

\* PtlPTAlloc gives an entry out once: external.
UsedPTs == SegmentPTs \cup UNION cts

\* ct_create attaches the counter to one entry (rva), or to one for the data and
\* one for the heap.
ct_attach ==
    IF build.rva THEN {FirstFreePT({})}
    ELSE {FirstFreePT({}), FirstFreePT({FirstFreePT({})})}

\* No entry is left, or the one looked for is in use: an error, which aborts.
AttachFails == Cardinality(FreePTs) < (IF build.rva THEN 1 ELSE 2) \/ ct_attach \cap UsedPTs # {}

shmem_transport_ct_create ==
    /\ pc = "user" /\ Cardinality(cts) < build.cts
    /\ IF AttachFails
       THEN pc' = "crashed" /\ UNCHANGED ptVars
       ELSE /\ cts' = cts \cup {ct_attach}
            /\ pt_state' = [i \in PTs |-> IF i \in ct_attach THEN "allocated" ELSE pt_state[i]]
            /\ UNCHANGED pc
    /\ UNCHANGED <<build, ctxs, event_slots, eq, frags, completion, pending, ct, long_pending,
                   flight, issued, history, req>>

ct_free_pts(c) == c

shmem_transport_ct_free ==
    /\ pc = "user"
    /\ \E c \in cts :
          /\ cts' = cts \ {c}
          /\ pt_state' = [i \in PTs |-> IF i \in ct_free_pts(c) THEN "free" ELSE pt_state[i]]
    /\ UNCHANGED <<build, ctxs, event_slots, eq, frags, completion, pending, ct, long_pending,
                   flight, issued, history, pc, req>>
----------------------------------------------------------------------------
Init ==
    /\ build \in Builds
    /\ ctxs = {Default}
    /\ event_slots = build.slots
    /\ eq = <<>> /\ completion = 0
    /\ frags = [f \in Frags |-> [type |-> "bounce", reference |-> 0, free |-> TRUE]]
    /\ pending = [k \in Counters |-> 0] /\ ct = [k \in Counters |-> 0]
    /\ long_pending = FALSE
    /\ flight = {} /\ issued = 0 /\ covered = {}
    /\ fenced = [c \in {Default, User} |-> 0]
    /\ pt_state = PtInit /\ cts = {}
    /\ pc = "user" /\ req = NoReq

Finished == (pc \in {"crashed", "torn"} \/ (pc = "down" /\ flight = {})) /\ UNCHANGED vars

OpStep(c) ==
    \/ shmem_transport_put_scalar(c) \/ shmem_transport_atomic(c) \/ shmem_transport_atomic_set(c)
    \/ shmem_transport_put_nbi(c) \/ shmem_transport_put_nb(c) \/ shmem_transport_atomicv(c)
    \/ shmem_transport_get(c) \/ shmem_transport_swap(c) \/ shmem_transport_cswap(c)
    \/ shmem_transport_mswap(c) \/ shmem_transport_fetch_atomic(c)
    \/ shmem_transport_put_signal_nbi(c)
    \/ UserQuiet(c) \/ UserFence(c) \/ UserGetWait(c)

Next ==
    \/ \E c \in ctxs : OpStep(c)
    \/ TakeSlot \/ DrainForSlot \/ IssueEvent \/ PutAgain \/ shmem_transport_put_wait
    \/ GetWaited \/ QuietGet \/ QuietEvent \/ QuietPut
    \/ shmem_transport_fence \/ FenceQuieted \/ FenceReturns \/ Signal
    \/ shmem_transport_ctx_create \/ UserDestroy \/ shmem_transport_ctx_destroy
    \/ UserFini \/ shmem_transport_fini
    \/ shmem_transport_ct_create \/ shmem_transport_ct_free
    \/ NetSend \/ NetDeliver \/ NetAck
    \/ Finished

Spec == Init /\ [][Next]_vars
----------------------------------------------------------------------------
(* Properties *)

\* When quiet returns, every operation issued on the context, through whichever
\* of the three descriptors, is complete at its target: "wait for remote
\* completion (acks) of all buffered puts" and "of all pending put events"
\* (transport_portals4.h:262, 278).
QuietIsComplete == covered = {}

\* While the program runs no buffer it may write to again is still to be read: of
\* the blocking puts, the ones that read the user's buffer have sent it before
\* put_wait returns (transport_portals4.h:627-636).
SourceReusable ==
    pc = "user" => \A o \in flight : o.blocking => o.sent

\* Every slot that is not free belongs to an operation whose event is to come or
\* in the queue; so the queue, of as many entries, never overflows.
SlotsAccounted ==
    /\ build.slots - event_slots =
          Len(eq) + Cardinality({o \in flight : o.md = "event" /\ ~o.sent})
                  + (IF pc = "issue" THEN 1 ELSE 0)
    /\ event_slots > 0 \/ build.slots = 0

\* A fragment is out of its free list exactly as long as an event for it is to
\* come, and counts those events: it is neither freed under an operation that
\* will name it in an event nor lost (transport_portals4.h:317-366).
FragsAccounted ==
    \A f \in Frags :
        LET events == Cardinality({i \in DOMAIN eq : eq[i] = f})
                      + Cardinality({o \in flight : o.md = "event" /\ ~o.sent /\ o.frag = f})
        IN  /\ frags[f].reference = events
            /\ frags[f].free <=> events = 0 /\ ~(pc \in {"slot", "issue"} /\ req.frag = f)

\* What a fence of a context orders stays in order, with the network's ordering
\* or without: no put or atomic issued after it, the signal of put_signal_nbi
\* among them, arrives before one issued before (transport_portals4.h:298-313,
\* 1104-1115).
FenceOrders ==
    \A o, p \in flight :
        /\ o.ctx = p.ctx /\ "get" \notin {o.md, p.md}
        /\ p.num <= o.after /\ o.delivered
        => p.delivered

\* Every portal table entry marked as allocated is that of one counter; with remote
\* virtual addressing one that is marked free is in no use, of a counter or of the
\* transport, so that the next counter can be attached to it after any sequence of
\* creations and deletions, up to the last entry (transport_portals4.c:85-123).
PtDisjoint ==
    /\ \A c, d \in cts : c # d => c \cap d = {}
    /\ {i \in PTs : pt_state[i] = "allocated"} = UNION cts
    /\ (UNION cts) \cap SegmentPTs = {}
    /\ build.rva => FreePTs \cap UsedPTs = {}

\* A counter is refused only when the table has no free entry left; without remote
\* virtual addressing, when no two are left in front of the transport's own, the
\* second of which the table calls free ("Find the next free PT index",
\* transport_portals4.h:1128; transport_portals4.c:96).
EntryFound ==
    (IF build.rva THEN FreePTs # {} ELSE \E i, j \in FreePTs : i < j /\ j < 8) => ~AttachFails

\* The drain for the slot of an atomicv frees the fragment that is being sent
\* only between two of its parts; with one part it never does, whatever else the
\* queue holds (transport_portals4.h:980-988).
DrainKeepsFrag ==
    pc = "slot" /\ eq # <<>> /\ TearsFrag => req.left > 0 /\ req.left < build.fragments
=============================================================================
