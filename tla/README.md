# TLA+ models of Sandia OpenSHMEM

Sandia OpenSHMEM (SOS) is a library: a job is a fixed set of processes (PEs),
each with the same symmetric data and heap segments, which put, get and update
each other's memory one-sidedly and synchronise through words in that memory.
Paths below are relative to `src/` of the repository unless they start with
`src/`.

## 1. The system and its parts

| Part | Source | State | Operations | Interacts with |
|---|---|---|---|---|
| Distributed lock | `shmem_lock.h`, `lock_c.c` | `last` on PE 0, `data` on every PE | set, test, clear | fetching atomics, quiet, wait |
| Synchronisation | `shmem_synchronization.h`, `synchronization_c.c4` | none of its own (reads symmetric words) | quiet, fence, wait_until(_any/_some/_all), test(...) | transport completion, receive counter |
| Collectives | `collectives.c`, `shmem_collectives.h` | `pSync` words per call, tree tables | sync/barrier (linear, tree, dissemination), broadcast, reduce, collect, fcollect, alltoall | puts, atomics, fence, wait |
| Teams | `shmem_team.c`, `teams_c.c4` | team records, pool of pSync blocks, bit masks | split_strided, split_2d, destroy, translate, choose/release pSync | collectives |
| OFI transport, data path | `transport_ofi.h`, `shmem_free_list.[ch]` | per-context counters, bounce-buffer free list, CQ | put, put_nb, get, atomics, quiet, fence, retry | libfabric (external) |
| OFI transport, contexts | `transport_ofi.c`, `contexts_c.c` | context list, STX pool, private-STX hash | context create/destroy, startup, fini | libfabric |
| Spin locks and counters | `shmem_atomic.h` | ticket lock | lock, unlock, atomic counters | every threaded part |
| Symmetric heap | `symmetric_heap_c.c`, `malloc.c` | heap cursor, allocator | malloc, free, realloc, align | barrier_all |
| Start-up and shutdown | `init.c`, `init_c.c` | init/finalize flags | init, init_thread, finalize, global_exit | everything |
| RMA and atomics front end | `shmem_comm.h`, `data_c.c4`, `atomic_c.c4` | none | put, get, atomics | node-local or network transport |
| Portals 4, UCX transports | `transport_portals4.*`, `transport_ucx.*` | counters, events | as OFI | Portals 4, UCX (external) |
| Node-local transports | `transport_xpmem.*`, `transport_cma.*`, `shr_transport.h4` | mapped segments | copy, atomics | node-local PEs |
| Runtime | `runtime-*.c`, `runtime_util.c`, `pmi-simple/` | key-value exchange, barrier | put, get, exchange, barrier | launcher |

What is hard in this code:

* **One-sided operations complete late and in any order.** A put or a
  non-fetching atomic has only been *issued* when the call returns. The lock and
  the collectives reuse the same symmetric word from one call to the next, so a
  late clear, decrement or flag can hit the next call.
* **Several meanings in one word.** The lock keeps link and signal in `data`; an
  inner PE of a tree barrier counts callins and the acknowledgement in one
  pSync word.
* **Completion by counting.** The OFI transport never knows *which* operation
  has completed, only how many, and several threads issue on one context.
* **Two locks and a bounded resource.** Bounce buffers are reclaimed under the
  list lock, sometimes under the context lock as well, by threads that may hold
  a buffer themselves.
* **Requests, events and callbacks.** Portals 4 must never have more events to
  come than its event queue has entries, and recycles fragments by counting their
  events; UCX answers with requests whose callbacks run in whichever thread makes
  the one worker progress.
* **Shared transmit contexts.** OFI contexts share a few STXs by reference count;
  a private context reserves one for its thread; creation may fail half way.
* **Collective allocation without messages.** Nobody compares the results of
  `shmem_malloc`: each PE runs its own allocator, and only the same calls in the
  same order, with a barrier on the right side of each, keep the heaps alike.
* **Fast and slow PEs at both ends of a job.** A PE that has left `shmem_init` uses
  PEs that have not; each start-up step may fail on one PE alone; finalize, the exit
  handler and global_exit may all come.
* **Distributed bookkeeping.** PEs agree on a team's pSync index and on which of
  its blocks is free only because they all make the same calls in the same
  order; a split asks by reduction what is free at all new members.

The hazards are listed with their source lines in `PROJECT.json`; properties
named there are the ones below.

What makes each part correct: the **lock** excludes, completes the critical
section's puts, is first-in first-out and never loses a waiter. A **barrier**
lets nobody go before all have come, completes earlier puts and leaves pSync as
it found it. **quiet** returns only when all that preceded it is complete, and
does return. **Bounce buffers** are never over-allocated, lost, or reclaimed in
use. A **team** has the PEs its triplet names, one pSync index at all its
members, which no other team of a member has, and pSync blocks no two
concurrent collectives share. A failed split fails at every PE. A **data
collective** gives every member its whole result, which nothing late changes, and
hands pSync back clean. A **heap block** a PE may use is allocated, large enough
and aligned at that address on every PE; freed memory is found again. A **job**
uses no PE before it is up or after it is down, and ends.

## 2. Modules

| Module | Models | Built on |
|---|---|---|
| `FifoLock` | abstract first-in first-out lock | |
| `ShmemLock` | `shmem_lock.h` | refines `FifoLock` |
| `ShmemLockProofs` | proofs about `ShmemLock` | |
| `BarrierAbs` | abstract repeated barrier | |
| `CollNet` | active set, pSync words, operations under way, entry of barrier and sync | |
| `CollTree` | both tree constructions, as operators | |
| `CollTreeProofs` | that both constructions give one tree | |
| `SyncLinear`, `SyncTree`, `SyncDissem` | the three algorithms | `CollNet` (`CollTree`) |
| `ShmemSync` | `shmem_internal_sync`: the choice of the algorithm, and the whole component | the three; refines `BarrierAbs` |
| `SyncProofs` | proofs about `ShmemSync` | `CollTreeProofs` |
| `OfiCompletion` | issue and completion on one shared OFI context | |
| `OfiCompletionProofs` | proofs about `OfiCompletion` | |
| `TeamGeometry` | PE numbers of teams, as operators | |
| `GeometryProofs` | proofs about the operators of `TeamGeometry` and `CollTree`, on `MCGeometry` | `CollTreeProofs` |
| `Teams` | pSync bookkeeping of teams and the collectives that use it | |
| `TeamsProofs` | proofs about `Teams` | |
| `CollMachine` | what a put, atomic, fence, quiet, wait or barrier inside a collective does | `CollTree` |
| `Collectives` | broadcast, reduction, collect, fcollect, alltoall(s), all algorithms, as sequences of such calls | `CollMachine` |
| `CollectiveCalls` | members of an active set that make such calls in a row | `Collectives` |
| `TreeBin` | the tries of large free chunks in `malloc.c` | |
| `Dlmalloc` | the rest of the allocator as the library builds it | `TreeBin` |
| `SymmetricHeap` | `symmetric_heap_c.c`: the collective calls on one allocator per PE | `Dlmalloc` |
| `OfiContexts` | contexts, STX pool and their shutdown in `transport_ofi.c` | |
| `Portals4` | `transport_portals4.*`: descriptors, event slots, fragments, counters | |
| `Ucx` | `transport_ucx.*`: requests, callbacks, emulated masked swap, progress thread | |
| `WaitUntil` | polling and blocking waits | |
| `TransportProofs` | proofs about `WaitUntil`, `Ucx`, `Portals4` and `OfiContexts` | `MCTransports` |
| `Runtime` | key-value exchange, barriers and node ranks of the four runtimes | |
| `Lifecycle` | `init.c`, `init_c.c`, and init, startup and fini of every layer, with the linear or the tree barrier of the shutdown | `Runtime`, `CollTree` |
| `LifecycleProofs` | proofs about `Lifecycle` | `CollTreeProofs` |
| `MC*` | instances for TLC; `MCTransports` puts the four transport modules side by side | |

Definitions carry the names of the functions, variables or comments they
translate; `PROJECT.json` gives the lines. Definitions marked "Mutated form" are
wrong variants of the definition that follows; no specification uses them. Each
stands for a plausible bug that a property has to catch.

### ShmemLock
`last`, `data`, `curr` and `cur_data` are the variables of the C code. A fetching
atomic is one step (its caller sits in `get_wait`). The atomic set of the own
word and the client's puts stay in `pending` until `Deliver` applies them;
`quiet` waits for `pending` to be empty. `queue` is a history variable: the
callers in the order of their swap of `last`. SHMEM_WAIT is a guard (the word
differs from the value that was read). The client may put data while it owns the
lock.

### CollNet, the algorithms, ShmemSync
`job` fixes algorithm, active set and the sequence of calls for a behaviour.
`net` holds the puts and atomics under way; they are applied in any order, since
none of the algorithms fences. `pc` says where a PE is inside the call;
`entered` and `left` count its calls and are the refinement mapping to
`BarrierAbs`. Acknowledgements issued in a loop are one step: they are delivered
separately and late, so every interleaving of the loop remains. A client may put
data between calls (`UserPut`) to check what a barrier completes.

### OfiCompletion
One context that several threads share (SHMEM_THREAD_MULTIPLE). `build` is fixed in
a behaviour: the lock per context or not, how long completion calls poll, how many
fragments a large atomic has, and the bounds on operations. Operations of
a kind are numbered as they are counted; `done` is the set behind the event
counter, of which the code only sees the cardinality. `flight`, `cq` and
`TxDepth` stand for libfabric. `issue_begin` covers put_scalar, put_large, get and the
atomics (fetching ones count as gets; large ones have several fragments);
`bounce_begin` and `atomicv_begin` the buffered branches, which differ in when
they count the operation. `quiet` and `fence` are put_quiet and then get_wait.

### CollMachine, Collectives, CollectiveCalls
Which calls a PE makes inside a collective depends on its place in the active set
alone; only its waits depend on the others. So `Collectives` translates each
function of `collectives.c` to the sequence of its calls for a PE (loops unrolled,
with the offsets and slots the code computes), and `CollMachine` has one action per
kind of call. Puts and atomics arrive in any order, but for fences; a
non-blocking-implicit put may read its source as late as it arrives. An element
is the set of the contributions it sums up. Barriers inside a collective are the
abstract barrier that `ShmemSync` implements. The client overwrites its source as
soon as a call has returned.

### TreeBin, Dlmalloc, SymmetricHeap
Every allocator call is a function from the `malloc_state` of a PE to the new
state and the address. Chunk headers are kept by address with their in-use bits and
boundary tags; a header that falls inside a chunk is forgotten, so to read it is
an error. The tries are one function from paths to nodes. `SymmetricHeap` adds the
PEs: each makes the calls in its own time, and a barrier of the call is passed when
all have entered it. The order of barrier and allocator in each call is the code's.

### OfiContexts
The pool with reference counts and private marks, the store of private STXs, the
table of contexts of a team and the fabric objects each context has opened.
Creation runs step by step under `shmem_transport_ofi_lock`; each step may fail
and then falls into the destruction, as in the code; two threads do this at once.

### Portals4
One thread issues, the network completes. An operation on the event descriptor
holds a slot of the event queue and a fragment until `drain_eq` takes its event
out. Bounce buffers and long fragments come from free lists
(`shmem_free_list_alloc`), which grow when they are empty: `FreeFrag` is any item
that is not in use, the least one. `build` chooses a queue of few slots, long atomics
in fragments, ordered networks, a second context, or the calls that allocate and free
counters with their portal table entries. Two states end a behaviour early, because
what the program does next is undefined or an abort: `torn`, once an atomicv has drained
the last event so far of the fragment it is still sending, which is then in the free list
and in use (`TearsFrag`); and `crashed`, once a counter finds no entry or one that is taken
(`AttachFails`).

### Ucx
UCX finishes an operation at once or hands out a request, which some thread that
progresses the worker completes later, callback included; a request that is freed
earlier completes without effect on the caller's completion word. Threads and the
progress thread interleave between those calls. Another PE updates the word on
which the masked swap, a read and a compare-and-swap in a loop, works.

### WaitUntil
An update is visible before the transport counts it. The blocking wait reads the
counter, tests again and sleeps until the counter moves.

### Runtime, Lifecycle
One step is one layer's routine on one PE. `up` holds the layers that are set up,
`lost` collects what arrives where it cannot be received. Values of the key-value
store are pairs of PE and key; a get gives the set of what it finds. Every routine
may fail, which leads into the code's clean-up, in its order; programs end by
finalize, exit, both, or global_exit, and a fast PE puts to slow ones.

* **Fences.** `fence_out` is a barrier: nobody goes on before all have entered as
  often. That is what the exchange of every runtime needs, and what `PMI_Barrier` and
  `MPI_Barrier` are at the end of start-up. PMI2 calls PMI2_KVS_Fence there, of which
  `runtime-pmi2.c:210-212` says that it "isn't exactly a barrier": it promises that gets find
  earlier puts, and nothing is put between the two fences, so `barrier_out` lets a PE
  leave it at any time. PMIx leaves the call out (`init.c:426`).
* **Contexts.** A program puts on the default context (`put`) and on a shareable one
  (`ctxput`). The barrier of the shutdown quiets the default context only
  (`shmem_collectives.h:107`); a shareable context is quieted when `team_fini` destroys it
  (`shmem_team.c:452`), after the barrier. `quieted` is what the quiet of the default
  context covers: with UCX, which flushes its one worker, everything. With Portals 4
  it also covers the buffered puts of all contexts, which share one counter; the
  `ctxput` of the model is a direct one.
* **The last barrier.** `barrier_quiet`, `callin` and `barrier_sync` are `sync_linear` or
  `sync_tree`, as `build.barrier` says; `kids` and `par` are PE 0 over all others or the
  full tree of `CollTree`. Entering or leaving a loop over children is one step, as in
  `ShmemSync`, which has the details and repeated calls. Dissemination, which only
  BARRIER_ALGORITHM selects, is not composed here.
* **Release of the runtime.** Under MPI, MPI_Comm_free and MPI_Finalize may wait for the
  other PEs: `finalizing` in a shutdown, `failed` in the clean-up of a start-up, which
  aborts only after them (`init.c:451-454`). The calls may return at any time, and must
  only when all PEs are in them (`all_in_fini`). `Stranded` are the states in which one PE is in
  MPI_Finalize and another in the MPI_Allgather of the exchange or the last MPI_Barrier.
* **Errors in use.** A second initialisation and global_exit call `shmem_runtime_abort`,
  which in a PMI or MPI job of one PE is `exit`, with the exit handler
  (`runtime-pmi.c:147-149`), and otherwise ends the job (`runtime_abort`).

What the sender of an operation sees when its target is gone is not modelled: the
operation is put into `lost` and the sender goes on.

### Teams
`Programs` are the sets of operations the programs are made of; a behaviour
chooses one. The program is a log of collective calls to which a PE that has caught up may
add; each PE makes the calls of its teams in log order, as OpenSHMEM requires.
`avail` is `psync_pool_avail`; blocks are numbered in units of
SHMEM_SYNC_SIZE. The collectives inside a call are abstracted to who entered with
which block and contribution, and to the leaving rule of the linear algorithms
(`bcast_returns`, `may_leave`). `TEAMS_MAX` may really be as small as in the
models; SHMEM_TEAM_WORLD and SHMEM_TEAM_SHARED take the first two indices.

## 3. Runs

| Run | Instance | Shows |
|---|---|---|
| `lock` | 3 PEs, endless set/test/clear | `MutualExclusion`, `CriticalPutsComplete`, `QueueEncoding` (the inductive invariant), `LockCallsReturn`, `FifoSpec` (refinement) |
| `sync` | 1 to 4 PEs, jobs that cover the algorithms, both trees and the set of one PE, 2 or 3 calls on one pSync | `IsBarrier` (refinement, with its liveness), `BarrierCompletesPuts`, `PSyncRestored`, `WordsBounded` (incl. the assertion `collectives.c:398`) |
| `collectives` | 17 jobs of 1 to 4 PEs, also every second PE, one or two calls in a row | `ResultIsComplete`, `PSyncRestored`, and that every call returns (deadlock) |
| `geometry` | all teams and nodes of 7 PEs, trees of up to 13 PEs and radix 5, tries of up to 5 chunks | `TreesSpan` (`KaryIsTree`, `FullIsTree`), `TeamNumbering` (`TranslateIsRelative`, `GridIsCartesian`), `SharedTeamIsNode`, `BinsGiveBestFit` (`TreeWellFormed`, `SearchIsBestFit`) |
| `heap` | 2 PEs, 5 calls, heap of 24 units | `HeapConsistent` (with `SegmentFollowsCursor`), `RemoteBlockValid`, `AllFreedIsTop`, and that every call returns (deadlock) |
| `ofi` | 2 threads on one context; without a context lock: two-fragment operations, polling once and then blocking; with it: gets too, endless polling | `QuietCompletes`, `CompletionCounting`, `BuffersAccounted`, `CallsReturn` (`LockedCallsReturn`, `QuietReturnsIfRetried`) |
| `transports` | OFI contexts, Portals 4, UCX and waits, one of them per behaviour | `StxSharing` (`StxAccounting`, `PrivateExclusive`, `SharedAvailable`), `ContextsClean` (`TableSound`, `FiniClean`, `OnlyFailedCreateHangs`), `CompletionKept` (`QuietIsComplete`, `SourceReusable`, `BlockingIsComplete`), `OrderKept` (`FenceOrders`, `SignalAfterData`), `ResourcesAccounted` (`SlotsAccounted`, `FragsAccounted`, `PtDisjoint`, `EntryFound`, `DrainKeepsFrag`, `RequestsFreed`), `MaskedSwapIsAtomic`, `ProgressOnLiveWorker`, `NoLostWakeup` |
| `teams` | 3 PEs on 2 nodes, 3 pSync indices, 4 calls: splits, destroys and reductions, or broadcasts and syncs | `PsyncOwnership`, `OwnPsyncSafe`, `SplitAllOrNothing`, `NobodyStuck` |
| `lifecycle` | 13 jobs of 1 to 4 PEs on 2 hosts, over all runtimes, transports and node-local transports, both barriers, with and without shareable contexts | `NothingLost`, `PeersKnown` (`GetsFindPuts`, `BasesSymmetric`, `NodePeers`), `ReleasedAfterAll`, `LayersNested`, `JobEnds` |
| `ofi_retry`, `ucx_put_wait`, `teams_psync_across` | the instances of `ofi`, `transports` and `teams`, or parts of them | violations, section 5 |

Names in parentheses are the parts of a property that is a conjunction; each is
defined, with what it says, in the module of its component. The type invariants of
`ShmemSync`, `OfiCompletion` and `Teams` are parts of `WordsBounded`,
`BuffersAccounted` and `PsyncOwnership`.

**Bounds.** The lock's state space is finite by itself; three PEs are the least
number with an owner, a waiter and a PE that joins behind it. In the barriers,
calls are bounded: three calls on one pSync are enough for a PE to be one call
ahead of a message of the previous one, which is as far as a barrier lets it get;
four PEs are the least number with an inner PE in either tree. The dissemination
barrier has three PEs, so that the distances 1 and 2 are different PEs and two
slots are in use. Jobs called "auto" stay below COLL_CROSSOVER or reach it.

The collectives' jobs name the algorithms one by one and then leave the choice to
the code; lengths are such that the ring has chunks of unequal size and an empty
one, recursive doubling has an odd PE, collect has members with nothing to give,
and a second call meets what the first may have left on its way. More PEs only
repeat the roles of these.

The heap has pages of 8 units of 16 bytes, sizes from 4 units on are large, and
three blocks are held at a time: five calls then reach the bins, the tries, the
victim, the top, growth to the end of the heap, refusal and trimming. `MaxAhead` = 2
lets one PE be in its next but one call while another is not in its first.

In OFI, the bounds on puts and gets stop new operations: `TxDepth` = 2 makes the
provider refuse the third, `MaxBB` = 2 equals what `drain_cq` must be able to
reclaim at once. Contexts: three of them over pools of 0, 1 and 2 STXs reach
private, shared and exhausted pools; one creation fails, at any of its steps. The
Portals 4 builds have two slots for three operations, so that an issue has to
wait for an event, or three slots (of which the code uses two) for atomics of two parts, so
that an atomicv drains events of others and of its own between its parts. Counters are
created and freed until the fourth one, with two entries each, fails, and up to nine with
one each, which goes past the reserved entries 6, 8 and 9. UCX programs are grouped by
the calls that interact; two calls per thread, or one of each kind, let every
request be outstanding while the other thread progresses it. Four updates of two
variables can make a wait true, false and true again.

In `Teams`, `MaxCalls` = 4 is enough to use both pSyncs of a team, quiesce, and go
on; three indices leave one for new teams, so that a second split fails until the
first team is destroyed. `TEAMS_MAX` may really be that small; SHMEM_TEAM_WORLD and
SHMEM_TEAM_SHARED take the first two indices. In the life cycle, three PEs on two
hosts are the least with node ranks that differ from PE numbers; one put per PE is
enough to meet a PE that is not up, or no longer; two bases let one PE differ. The tree
of four PEs is the least with a PE that has both a parent and a child; that job has no puts
and no faults (`ops`, `faults`), which the smaller ones have. Each
runtime, transport and node-local transport occurs in some job, not every
combination: the layers meet only in the key-value store and in the order of steps.

Deadlock is checked except in two places. `teams`: the program ends at the bound,
and `NobodyStuck` says that only then nobody can go on; since the log is finite and
no step is undone, calls return. `lifecycle`: jobs end, and `JobEnds` says that
they do. Elsewhere the end of the program is a state that repeats, so a state
without successor would be a call that does not return.

**Fairness.** A PE inside a call keeps running and the network (or provider)
completes what it was given: weak fairness for each. `test_lock` and a new call
are never forced, but a client that owns the lock clears it. OFI also assumes
strong fairness of lock acquisition, because `shmem_spinlock_t` is a ticket lock
(`shmem_atomic.h:49-81`) and thus first-come first-served; a build with
ENABLE_PTHREAD_MUTEX has no such guarantee, and `CallsReturn` is not claimed for
it. It also depends on the bound: put_quiet waits for every put that
others issue meanwhile, so an endless stream of puts may keep it. Without the context
lock a refused operation need not be retried (section 5), so there its part is
`QuietReturnsIfRetried`. In `Lifecycle`, start-up and shutdown steps are taken, a PE
that cannot go on in start-up cleans up, an abort reaches every PE, and messages arrive;
MPI_Finalize returns once every PE is in it, which is all that MPI promises. The
program is free to put between init and finalize, and ends. `JobEnds` excuses three
kinds of job: one with a PE that `shmem_init_thread` refused, one in a state
`Stranded` (above), and one in which an operation was lost, which by `NothingLost`
is one of several PEs on PMI2 or PMIx, one that aborted, or one with shareable contexts
and not UCX.

## 4. Proofs

Proved by TLAPS for every value of the constants.

`ShmemLockProofs`, assuming only that `num_pes` is a positive number:
`TypeCorrect`, `LockEncodesQueue`, `LockExcludes` and `LockOrdersPuts`, i.e.
`Spec => []` of `TypeOK`, `QueueEncoding`, `MutualExclusion` and
`CriticalPutsComplete`. Exclusion alone is not inductive: the next owner is the
PE named in a `next` field that a third PE wrote, or nobody, if the compare-and-swap
on `last` says so. The inductive invariant is `TypeOK /\ QueueEncoding`: the words
encode one queue without repetition (`Distinct`, `Members`), `last` is its tail
(`LastIsTail`), the owner is its head (`OwnerIsHead`), every `next` field is set
exactly when the successor has done its mswap (`Links`), the signal is set exactly
at a waiter that has become the head (`Signals`), the locals are not stale when
used (`Locals`), and no reset is under way to a word of the queue (`Pendings`). One
lemma per action shows that it is preserved; exclusion follows from
`OwnerIsHead`, the order of puts from `Pendings`. `LockIsFifo` is the safety part of the
refinement `FifoSpec`: the initial states are those of `FifoLock`, and every step is one
of its steps or a stutter. The swap of `last` is the join (`LastIsTail` says that it finds
0 exactly when the queue is empty), a set signal bit the entry (`Signals`: only the head
has one), and the compare-and-swap or the signal of clear_lock the leave (`OwnerIsHead`).

`OfiCompletionProofs`, assuming `OfiAssumption` (no relation between the limits,
no bound on the number of threads): `QuietIsComplete` and `CountingIsSound`, i.e.
`Spec => []` of `QuietCompletes` and `CompletionCounting`. The code knows only
counts, so the argument is one about cardinalities: `done` is a subset of
`1 .. pending` (`Counted`), so a count that reaches `pending` means that the sets are
equal; what a thread has read never exceeds the counters (`ReadsLag`: the event counter
is read first, the pending counter second, and both only grow); and a quiet in its
second half has completed its first (`StagesPassed`). The theorems cover both builds,
fragments and bounce buffers.

`BuffersAreAccounted` (`BuffersAccounted`) is about the bounce buffers of the same
module. Its invariant says that an operation that holds a buffer is in exactly one
place, about to be issued, in flight or in the completion queue (`Distinct`,
`IssueSound`), and that the count of allocated buffers is the sum of the
cardinalities of these three sets (`Accounted`).

`TransportProofs` is about the transports of `MCTransports`, under
`TransportsAssumption` (types of the bounds, the main thread is a thread):

* `WaitNeverSleepsThrough` (`NoLostWakeup`). Strengthened by: the threshold the wait
  sleeps on is at most one ahead of the counter (`WaitInv`).
* `UcxMaskedSwapIsAtomic` (`MaskedSwapIsAtomic`), `UcxProgressIsSafe`
  (`ProgressOnLiveWorker`) and `UcxKeepsPromises`: the UCX halves of `CompletionKept`,
  `OrderKept` and `ResourcesAccounted`. `UcxInv` says which operations each point of a
  call still has to finish (`UcxCompletes`), that a signal is posted after its data
  landed or in a later epoch (`UcxSignals`), and that a compare-and-swap compares with
  the value into which its bits were merged, so that each masked swap that succeeded
  saw the one before it (`UcxSwapCalls`, `UcxValues`).
* `StxsAreShared` (`StxSharing`) and `ContextsAreClean` (`ContextsClean`). `OfiInv`
  relates three views of a context: the object and what it has open, the STX whose
  reference count includes it, and its place in the table. While a creation, a failed
  creation or a destruction is between two steps these disagree in a way that the
  pc of its thread determines (`CreateInv`, `CallInv`), and the mutex, or the
  promise that only one thread is in the library, excludes a second such
  thread (`MutexInv`).
* `CompletionIsKept`, `OrderIsKept` and `ResourcesAreAccounted` (`CompletionKept`,
  `OrderKept`, `ResourcesAccounted`), the Portals 4 halves from `PtlInv`, the UCX halves
  from `UcxKeepsPromises`. The transport knows counts only, so again the invariant
  equates them with cardinalities: free slots with events in the queue and to come
  (`PtlSlots`), the references of a fragment with those that name it, and `completion` with
  those that put_wait waits for (`PtlFrags`), counters with operations in flight
  (`PtlCounts`). The first wait of a quiet thus empties the gets of its context, the
  second the event descriptor, the third the rest; the three together cover the
  context only because nothing can be issued meanwhile. `PtlFence` says that what is
  still in flight behind a fence is a short message, which the network keeps in order.
  Where section 5 lists a fault, the theorem says under which condition on the
  configuration the property holds all the same: `Early` (no context is created while
  operations are out), `Ordered` (also: only the default context where the fence relies on
  the network). `ResourcesAreAccounted` has no condition: any number of slots, parts and
  counters, with the drains that an atomicv makes between its parts. An atomicv that still
  has parts to send holds a fragment whose references are its events only
  (`PtlFrags`); a drain for a slot either leaves it one or ends in `torn`, where the
  fragment is in the free list with no event left. For the table the invariant
  (`PtlTable`) is that entries marked as allocated are those of the counters and none of the
  transport's; an entry that is marked free and is the transport's ends in `crashed`.
  That these two ends come only between two parts of an atomicv, or when no entry is
  left in front of the heap's, is part of the theorem (`DrainBetweenParts`: an event in the
  queue is a reference, and before the first part there is none; `EntryIsFound`: the two
  least free entries are below 8).

`TeamsProofs`, under `TeamsAssumption` (the nodes partition the PEs, children are sets
of PEs): `TeamsAgreeOnPsyncs` (`PsyncOwnership`) and `SplitsAreAllOrNothing`
(`SplitAllOrNothing`). The PEs are in different calls, so the argument is about a
PE's place in the log: what it contributed to the reduction of a split is what its
mask still is (`ContributedInv`), a member past the reduction holds the least index of
the reduced mask until its own call of destroy (`TakenInv`, `HeldInv`), and the
verdict all members return is the one that mask determines (`ResultInv`). That the
least index exists, also in an infinite set, rests on the well-foundedness of the
naturals (`WFMin`), used in this one concrete case.

The second half of `TeamsProofs` builds on it for `CollectivesOwnTheirPsync` (`OwnPsyncSafe`). The
members of a team do not tell each other which block a collective is on, so the proof
defines it from the log alone: the last call on the team decides which of its two
blocks are left (`Fin`, `Pre`), and `PsyncInv` says that each PE's place in the log
determines what it has entered and left (`InsideInv`, `LeftInv`), on which block
(`BlockInv`), and what its `psync_avail` is between calls (`AvailInv`). Safety is then two
facts: a block that is available at one member is one that all members are
through with (`FreeInv`, from `PassedInv`: nobody leaves a sync before all are in it),
so that a block is used again only then (`ClearInv`); and a PE offers a new team no
index of a team it has not destroyed (`ValInv`). Each of the eight actions is shown
to be a `Walk`, a move to the next collective there is for that PE in its call, and
the invariant to be kept by `Walk`; TLC has checked it on 3 PEs and 4 calls. The
blocks of one index differ from its barrier block because there are at least two
indices. The overlap between neighbouring indices (section 5) is no part of the statement.

`LifecycleProofs`, under `LifecycleAssumption` (a build has PEs, one of the four
runtimes, three transports and three choices of an on-node transport; with an on-node
transport it asks for node ranks, `init.c:182`; the UCX address has at most three chunks):
`LayersAreNested` (`LayersNested`), `ReleaseWaitsForAll` (`ReleasedAfterAll`) and
`NothingIsLost` (`NothingLost`), for any number of PEs, every runtime and transport, and
both barriers. `LocalInv` says what each point of `shmem_internal_init` and of the shutdown
means for the layers of its PE; `MetInv` that a PE past the barrier at the end of start-up
is so with all others, under PMI and MPI (`Meets`). `BarrierInv` is about the last barrier,
whose PEs form a tree (`FullTreeSpans`, or PE 0 over all others). The word of a PE is
at most the number of its children whose signal has arrived, and one more if its parent's
acknowledgement has (`Waits`, `Counted`), so that a PE that finds its word at the number it
waits for knows that its children have called in; a PE has called in only
after its children, and leaves only after its parent (`InOrder`). Hence all have called in
when the first one leaves: otherwise take the least PE that has not; its parent, which is
less, has, and so after its child (`AllCalled`, by `LeastNumber`). Who has called in has
been through the quiet of the default context, so no put on it is under way
(`MsgInv`), and nobody's transport is closed while signals to it are. The last two
parts hold while no PE has aborted, which is also what the properties speak of. TLC has checked
the invariant on the instance of `lifecycle`. Puts on shareable contexts are in the model; with
UCX, whose flush covers them, the theorems speak of them too, and without it the
statements are false for them (section 5). So they are, for default
puts before the last barrier, under PMI2 and PMIx, whence `InitWaits` in
`NothingLost`; `ReleasedAfterAll` needs no such condition.

`PeersAreKnown` (`PeersKnown`) is about the exchange, aborted jobs included. `StartInv`
says what a PE has put at each point (`PutAt`), that who has entered the exchange has
published everything (`PastAt`) and who is out of it came out after all had entered
(`SeenAt`), so that a get finds the entry; that who has passed the comparison of bases
is past it for good (`CheckedAt`); and that ranks and table are those of the host
(`RanksAt`, `TableAt`). What is left is arithmetic: the search in the rows of
`kv_store_all` ends in the row of the PE asked for (`MpiGets`); bases that are
equal at each neighbour are equal around the ring (`BasesAreSymmetric`); the ranks
that count the PEs before one on its host are a numbering (`RanksAre`). The condition
`Regular` names what the code relies on and does not check (section 5): under
MPI all PEs publish the same keys; under PMI and PMI2 no host name is the beginning of
another. Every job of the run `lifecycle` is `Regular`. That all bases are equal
is claimed, in the property itself, where a barrier ends start-up (`InitWaits`).

`CollTreeProofs` is about pure operators: `KaryTreesSpan` and `FullTreeSpans` say that
`build_kary_tree` and the tree of `shmem_internal_collectives_init` give one tree for every
active set, root and radix from 2 on. Each PE computes its own parent and children; the
proof numbers the PEs from the root on, shows that the children of node `i` are
`radix * i + 1 .. radix * i + radix`, or those of the other construction, so that `q` is a
child of `p` exactly when `p` is its parent and parents have smaller numbers; climbing
therefore ends at the root. Induction is by a least counterexample, which needs
only that the naturals are well-founded.

`GeometryProofs`, assuming that the bounds of `MCGeometry` are natural numbers
(`GeometryAssumption`): `TreesAlwaysSpan` (`TreesSpan`) from the former;
`NumberingFitsTogether` (`TeamNumbering`): translation between two strided teams and the
rows and columns of `split_2d` are inverse to each other, by uniqueness of quotient and
remainder; and `SharedTeamsAgree` (`SharedTeamIsNode`). The last is about a loop
over the PEs in `check_for_linear_stride` and its callers: the proof gives the state after each PE in
closed form (`found`, `passed`) and shows that it satisfies the equations that define the loop.

`SyncProofs`, under `JobsAssumption` and `RadixAssumption` (an active set within the
job, a radix of at least 2, pSync slots for every round): `SyncInvariant` is the inductive invariant
for the three algorithms, `BarriersCompletePuts`, `PSyncIsRestored` and
`WordsAreBounded` the three invariants of the run `sync`, and `CallsAreBarriers` the
safety part of `IsBarrier`. That nobody leaves before all have entered is not
inductive: it rests on what the words mean while calls overlap.

* Linear and tree share one invariant: the linear barrier is the tree whose PEs all hang
  from the root. Along each edge, child and parent are in the same call, or the
  parent is one call ahead with its acknowledgement on the way to the child: a callin
  that has arrived is counted once, the acknowledgement is in the word or on its way and never
  both, and a word is cleared before the first PE that may write it again is let go.
  That everybody has entered when the root has counted its children needs the tree: a
  PE counted as complete has a complete subtree, and every PE is in the root's.
* Dissemination is a count per PE and round: what was sent to a slot less what was
  taken from it less what is under way is the value of the slot (`Sent`, `Taken`, `Due`).
  A PE past round `i` knows that the `2^i` PEs up to itself have entered; the signal of
  round `i` carries what its sender knew, which doubles the distance. The
  distance is the shift of the code (`shl`), and the last one reaches around the set.
  That no slot exceeds 2, the assertion at `collectives.c:398`, follows: nobody can be two calls ahead.

Data in flight is of calls after the last barrier of its sender (`DataInv`), because a
barrier, and not a sync, begins with a quiet.

Only model-checked: liveness under fairness (`LockCallsReturn`, `CallsReturn`,
`JobEnds`, the fairness of `FifoSpec` and of `IsBarrier`) and `NobodyStuck`, which speaks
of ENABLED, because none of these is in the prover's reach; the data collectives, whose
calls are programs computed from the place in the active set; and the
allocator with its tries (`HeapConsistent`, `RemoteBlockValid`, `AllFreedIsTop`, `BinsGiveBestFit`), whose
data are recursive. The properties that a finding of section 5 refutes have no theorem.

## 5. Where the code and what is said of it disagree

With a run each:

* `ofi_retry` / `RetryComes`. Without context locks, `try_again`
  (`transport_ofi.h:494`) takes the list lock while the caller's own buffer is
  allocated but not issued, and put_quiet of another thread holds that lock until
  no buffer is allocated (`transport_ofi.h:415-424`): neither goes on. The builds
  with context locks do not have it (`LockedCallsReturn`), since quiet and issue
  exclude each other.
* `teams_psync_across` / `PsyncSafe`. `choose_psync` multiplies
  `psync_idx + i` by the size of a whole chunk (`shmem_team.c:479`), so the second
  pSync of a team is the first of the team with the next index. With two
  broadcasts on SHMEM_TEAM_WORLD followed by one on SHMEM_TEAM_SHARED, a root can
  write its flag into a block that a peer still needs for the earlier broadcast.
  Among collectives of one index there is no such overlap (`OwnPsyncSafe`).
* `ucx_put_wait` / `PutCopiedOut`. put_wait (`transport_ucx.h:280`) waits while the
  completion word is positive, but it is 0 when a put starts and the released
  request sets it later, so a blocking put that UCX has not finished returns
  at once; the man page says that it returns after the data has been copied out.
  Gets and fetching atomics wait for their request and do not have this
  (`BlockingIsComplete`).

Read in the code while modelling it; the models follow the code, and where a
property would fail the instance or the property leaves the case out:

* Teams. `src_pe == size` passes the guard of translate_pe (`shmem_team.c:230`).
  The stride of a split counts world PEs, not the parent's (`shmem_team.c:255`);
  `split_2d` allows for it, hence `GridIsCartesian` holds. `check_for_linear_stride`
  (`shmem_team.c:58`) accepts every multiple of the stride, so PEs 0, 1, 3 on one
  node become the team 0, 1, 2; `SharedTeamIsNode` speaks of evenly spaced nodes.
* Shutdown. The man page of shmem_finalize (`man/shmem_finalize.3:48-54`) says that its
  barrier ensures "that pending communications are completed". The barrier quiets the
  default context only (`shmem_collectives.h:107`); shareable contexts are quieted in
  `team_fini` (`shmem_team.c:452`), after it, when a peer may have closed its transport.
  In the model a `ctxput` can so arrive at a PE that is gone. What the barrier does ensure is
  `ReleasedAfterAll` and `NothingLost`, which speak of what a quiet of the default
  context covers (`covered`); with UCX that is every context, and the manual is right.
* End of start-up. Builds with PMIx leave out the barrier at the
  end of `shmem_internal_init` (`init.c:426`). A PE can then signal in a barrier_all to one
  that has still to clear its pSync in `shmem_internal_collectives_init`; the signal is
  gone and the barrier never ends. The PMI2 fence gives the same in the model, which
  takes no more from it than its own comment and the exchange need. `NothingLost` is
  claimed where `InitWaits`, and `JobEnds` leaves jobs with a lost operation out.
* Start-up. A step that fails on one PE under MPI runs the collective MPI_Comm_free and
  MPI_Finalize before it aborts (`init.c:451-454`, `runtime-mpi.c:117-130`) while the others are in
  MPI_Allgather: neither need return, and `JobEnds` leaves these states out. An error that
  `shmem_init_thread` returns on one PE leaves the others in the exchange
  (`init.c:170`); `JobEnds` leaves that case out. Host names are compared up to the
  length of one of them (`runtime_util.c:150`), so a host whose name is the beginning
  of another's is taken for it. The MPI runtime assumes that all PEs put the same
  keys (`runtime-mpi.c:244`). The xpmem start-up tests the wrong pointer after
  attaching the data segment (`transport_xpmem.c:134`).
* OFI contexts. `ctx_create` calls `ctx_destroy` on failure while it holds
  the lock that `ctx_destroy` takes (`transport_ofi.c:1644`): in SHMEM_THREAD_MULTIPLE
  it hangs. `OnlyFailedCreateHangs` says that nothing else does.
* Portals 4. Creating a context resets the count of event puts under way
  (`transport_portals4.c:309`); the flag for long operations is one for all contexts,
  and the fence of one clears it for the others (`transport_portals4.h:306`). Entry 9 of the
  portal table is the heap's in builds without remote virtual addressing, and marked free in
  just these (`transport_portals4.c:95-99`), so the fourth counter is given it and the
  job aborts (`crashed`); `EntryFound` says that counters are refused in no other case
  than this one and a full table. The loop of atomicv over the parts of one
  operation drains events when the slots run out (`transport_portals4.h:985-987`), and may
  free the fragment it is sending, which the comment above the loop wants to prevent
  (`torn`); `DrainKeepsFrag` says that this takes an atomicv of several parts. In a build
  with threads that drain also takes the fragment mutex that its caller holds. Total ordering is assumed when the feature is missing
  (`transport_portals4.c:506`); put_wait drains the queue without the mutex
  (`transport_portals4.h:629`); the base of a segment is compared strictly
  (`transport_portals4.h:167`).
* UCX. The precedence in the size check of the address (`transport_ucx.c:164`), and
  a put_wait that only spins when there is a progress thread.
* Collectives. collect puts a pair of words and waits for one of them
  (`collectives.c:1001`), which relies on a two-word put being delivered as a whole.

## 6. Not modelled

* OFI: put_signal, the retry limit after which the transport aborts, the fence
  variant under WANT_TOTAL_DATA_ORDERING, private and serialized contexts on the
  data path (one thread each, the sequential case of the model), the provider
  query, the pool size under SHMEM_OFI_STX_AUTO, performance counters.
* Portals 4: the address macros and two threads inside one call (the model is of
  a level below SHMEM_THREAD_MULTIPLE). UCX: nothing that changes state.
* Waits: the test calls and the some and vector forms, which loop over the same
  comparison. The ticket lock of `shmem_atomic.h` is assumed fair, not modelled.
* Teams: the interplay of the splits inside `split_2d`.
* Allocator: mmap, further segments, footers, mspaces, bulk allocation and
  statistics, none of which the library's configuration or calls reach.
* Front end: the choice between the node-local and the network path and the
  node-local copies (one memcpy or system call each); argument checks.
* Runtime: encoding of values, wire format, singleton start and spawning of the
  simple PMI client.
* Parameters, diagnostics and Fortran bindings: parsing, printing and forwarding.
* Abort paths (RAISE_ERROR) outside start-up. A radix of 1 is excluded (the loop at
  `collectives.c:155` would not end). What memory barriers order within a PE is taken
  as done: the models are sequentially consistent at a PE.

## 7. Plan

1. The ticket lock as a refinement of `FifoLock`; OFI put_signal.
2. `Teams` over the algorithms of `Collectives` instead of their leaving rules.
3. Two threads inside one Portals 4 call.
4. Proofs: that the heaps of all PEs agree, given an allocator that is right on one.
