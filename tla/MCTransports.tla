---------------------------- MODULE MCTransports ----------------------------
(***************************************************************************)
(* configure builds the library for one transport.  The runs of this       *)
(* module explore each on its own: "transport" says which one, and the     *)
(* variables of the others stay as they are.                               *)
(***************************************************************************)
EXTENDS Integers, FiniteSets

CONSTANTS
    Transports,                      \* the ones to explore
    Threads, NoThread, MainThread,   \* OfiContexts, Ucx
    MaxCtx, StxCounts, Allocators, Threshold, GrowSize, MaxFailures,   \* OfiContexts
    Builds,                          \* Portals4
    UcxBuilds, MaxRemote,            \* Ucx
    Elems, MaxUpdates                \* WaitUntil

ASSUME TransportsAssumption ==
    /\ Transports \subseteq {"ofi", "portals4", "ucx", "wait"}
    /\ MainThread \in Threads /\ NoThread \notin Threads
    /\ MaxCtx \in Nat /\ MaxFailures \in Nat /\ StxCounts \subseteq Nat
    /\ Allocators \subseteq {"roundrobin", "random"}
    /\ Threshold \in Nat /\ GrowSize \in Nat \ {0}
    /\ \A b \in Builds : /\ b.slots \in Nat /\ b.fragments \in Nat \ {0}
                         /\ b.ordering \in BOOLEAN /\ b.rva \in BOOLEAN
                         /\ b.contexts \in {"none", "first", "late"}
                         /\ b.ops \in Nat /\ b.cts \in Nat
    /\ \A b \in UcxBuilds : b.max \in Nat /\ b.progress \in BOOLEAN /\ b.flush \in BOOLEAN
    /\ MaxRemote \in Nat /\ MaxUpdates \in Nat /\ Elems \in Nat \ {0}

VARIABLES
    transport,
    multiple, allocator, pool, kvs, rr, contexts, ctx, lock, phase,         \* OfiContexts
    ctxs, event_slots, eq, frags, pending, ct, long_pending, flight,
    issued, fenced, covered, pt_state, cts, req,                            \* Portals4
    ops, epoch, word, remote, swapped, enabled, prog, worker,               \* Ucx
    single, var, updates, uncounted, cntr, ignored, i, start, target, found, \* WaitUntil
    build, completion, call, cur, pc                                        \* several

ofiOnly      == <<multiple, allocator, pool, kvs, rr, contexts, ctx, lock, phase>>
portals4Only == <<ctxs, event_slots, eq, frags, pending, ct, long_pending, flight,
                  issued, fenced, covered, pt_state, cts, req>>
ucxOnly      == <<ops, epoch, word, remote, swapped, enabled, prog, worker>>
waitOnly     == <<single, var, updates, uncounted, cntr, ignored, i, start, target, found>>

O == INSTANCE OfiContexts
P == INSTANCE Portals4
U == INSTANCE Ucx
W == INSTANCE WaitUntil

\* The variables of a transport that is not built.
NoOfi ==
    /\ multiple = 0 /\ allocator = 0 /\ pool = 0 /\ kvs = 0 /\ rr = 0
    /\ contexts = 0 /\ ctx = 0 /\ lock = 0 /\ phase = 0
NoPortals4 ==
    /\ ctxs = 0 /\ event_slots = 0 /\ eq = 0 /\ frags = 0 /\ pending = 0
    /\ ct = 0 /\ long_pending = 0 /\ flight = 0 /\ issued = 0 /\ fenced = 0
    /\ covered = 0 /\ pt_state = 0 /\ cts = 0 /\ req = 0
NoUcx ==
    /\ ops = 0 /\ epoch = 0 /\ word = 0 /\ remote = 0 /\ swapped = 0
    /\ enabled = 0 /\ prog = 0 /\ worker = 0
NoWait ==
    /\ single = 0 /\ var = 0 /\ updates = 0 /\ uncounted = 0 /\ cntr = 0
    /\ ignored = 0 /\ i = 0 /\ start = 0 /\ target = 0 /\ found = 0

Init ==
    /\ transport \in Transports
    /\ \/ /\ transport = "ofi" /\ O!Init
          /\ NoPortals4 /\ NoUcx /\ NoWait /\ build = 0 /\ completion = 0 /\ call = 0
       \/ /\ transport = "portals4" /\ P!Init
          /\ NoOfi /\ NoUcx /\ NoWait /\ call = 0 /\ cur = 0
       \/ /\ transport = "ucx" /\ U!Init
          /\ NoOfi /\ NoPortals4 /\ NoWait
       \/ /\ transport = "wait" /\ W!Init
          /\ NoOfi /\ NoPortals4 /\ NoUcx /\ build = 0 /\ completion = 0 /\ cur = 0

Next ==
    /\ UNCHANGED transport
    /\ \/ /\ transport = "ofi" /\ O!Next
          /\ UNCHANGED <<portals4Only, ucxOnly, waitOnly, build, completion, call>>
       \/ /\ transport = "portals4" /\ P!Next
          /\ UNCHANGED <<ofiOnly, ucxOnly, waitOnly, call, cur>>
       \/ /\ transport = "ucx" /\ U!Next
          /\ UNCHANGED <<ofiOnly, portals4Only, waitOnly>>
       \/ /\ transport = "wait" /\ W!Next
          /\ UNCHANGED <<ofiOnly, portals4Only, ucxOnly, build, completion, cur>>

B == [slots |-> 2, fragments |-> 1, ordering |-> FALSE, contexts |-> "none", ops |-> 3,
      cts |-> 0, rva |-> FALSE]
MCBuilds == {B, [B EXCEPT !.contexts = "first", !.ops = 2],
             [B EXCEPT !.slots = 3, !.fragments = 2, !.ordering = TRUE],
             [B EXCEPT !.ops = 0, !.cts = 5], [B EXCEPT !.ops = 0, !.cts = 9, !.rva = TRUE]}

Program(calls, max) == [calls |-> calls, max |-> max, progress |-> FALSE, flush |-> FALSE]
MCUcxBuilds == {Program({"put_scalar", "put_nb"}, 2),
                [Program({"get", "fetch_atomic_nbi"}, 1) EXCEPT !.progress = TRUE],
                Program({"put_signal", "fence", "quiet"}, 1),
                [Program({"put_signal", "put_nbi"}, 1) EXCEPT !.flush = TRUE],
                Program({"mswap"}, 1),
                Program({"fetch_atomic", "atomic_set", "atomic"}, 2),
                Program({"swap", "cswap", "atomic_fetch", "swap_nbi", "cswap_nbi"}, 1)}

vars == <<transport, ofiOnly, portals4Only, ucxOnly, waitOnly, build, completion, call, cur, pc>>

Spec == Init /\ [][Next]_vars
-----------------------------------------------------------------------------
(* Properties.  Their parts are defined in the modules of the transports.   *)

\* OFI: the reference count of an STX is the number of contexts that transmit
\* on it, whatever mixture of creations, fallbacks from private to shared, failed
\* creations and destructions came before (transport_ofi.c:491-562, 1697-1724);
\* a private one has contexts of one thread only, and until the shutdown some STX
\* is left to share ("shared STX allocation is always successful", line 517).
StxSharing ==
    transport = "ofi" => O!StxAccounting /\ O!PrivateExclusive /\ O!SharedAvailable

\* OFI: a context that was created is in the table until its destruction, no
\* dangling pointer is left there for the team's destruction to follow, after the
\* shutdown every fabric object is closed, also of contexts whose creation failed
\* half way, and a thread blocks on the mutex it holds only inside a creation that
\* failed (transport_ofi.c:1594-1780).
ContextsClean ==
    transport = "ofi" => O!TableSound /\ O!FiniClean /\ O!OnlyFailedCreateHangs

\* What has returned is done.  Portals 4: after quiet every operation issued on the
\* context, through whichever of the three descriptors, is complete at its target
\* (transport_portals4.h:262-278), and a blocking put has sent its source.  UCX:
\* after put_scalar the source may be written, after a get, a fetching atomic or a
\* masked swap the result is there, although UCX may finish each of them later.
CompletionKept ==
    /\ transport = "portals4" => P!QuietIsComplete /\ P!SourceReusable
    /\ transport = "ucx" => U!BlockingIsComplete

\* No put or atomic issued after a fence, the signal of a put_signal among them,
\* arrives before one issued before it, with the network's ordering or without
\* (transport_portals4.h:298-313, 1104-1115; transport_ucx.h:725).
OrderKept ==
    /\ transport = "portals4" => P!FenceOrders
    /\ transport = "ucx" => U!SignalAfterData

\* What an operation borrows comes back, once.  Portals 4: every slot that is not
\* free belongs to an event to come, so the event queue never overflows; a
\* fragment is out of its free list exactly as long as events for it are to come;
\* portal table entries are given to one counter, and what is marked free may be
\* used again; a counter is refused only when no entry is left (without remote
\* virtual addressing, none in front of the heap's, which the table calls free:
\* transport_portals4.c:96), and the drain for a slot frees the fragment of the
\* atomicv it is for only between two parts (transport_portals4.h:980).  UCX: no
\* thread outside the library holds a request.
ResourcesAccounted ==
    /\ transport = "portals4" => /\ P!SlotsAccounted /\ P!FragsAccounted /\ P!PtDisjoint
                                 /\ P!EntryFound /\ P!DrainKeepsFrag
    /\ transport = "ucx" => U!RequestsFreed

\* UCX: the masked swap made of a read and a compare-and-swap is atomic: no two
\* return the same value, none returns the value that is still there, and no
\* update of the other half of the word is lost (transport_ucx.h:674-704).
MaskedSwapIsAtomic == transport = "ucx" => U!MaskedSwapIsAtomic

\* UCX: the progress thread never enters a worker that has been destroyed, however
\* its last round and the shutdown interleave (transport_ucx.c:341).
ProgressOnLiveWorker == transport = "ucx" => U!ProgressOnLiveWorker

\* A blocking put that has returned no longer uses its source: "The routines
\* return after the data has been copied out of the source array"
\* (man/shmem_put.3).  put_wait waits while completion is positive, but it is
\* 0 from the start and the freed request never calls back.
PutCopiedOut == transport = "ucx" => U!PutCopiedOut

\* No lost wake-up: a PE that sleeps although the variable it waits for has
\* the value is about to be woken, because the update is still to be counted
\* or has been since the counter was read (shmem_synchronization.h:120).
NoLostWakeup == transport = "wait" => W!NoLostWakeup
=============================================================================
