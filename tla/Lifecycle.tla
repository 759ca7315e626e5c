----------------------------- MODULE Lifecycle -----------------------------
(***************************************************************************)
(* Start-up and shutdown of a job: shmem_internal_init and                 *)
(* shmem_internal_shutdown (src/init.c), the calls that reach them         *)
(* (src/init_c.c) and the init, startup and fini routines of the layers    *)
(* they bring up: runtime, symmetric heap, transport, on-node transport,   *)
(* collectives and teams.  One step is one layer's routine on one PE; the  *)
(* PEs interleave, any routine may fail, and the remote operations of PEs  *)
(* that are already up run against PEs that are not, or no longer.         *)
(*                                                                         *)
(* Remote operations are put and ctxput, the user's on the default context *)
(* and on a shareable one; arrive and ack, the signals of sync_linear or   *)
(* sync_tree (src/collectives.c) in the barrier of the shutdown, whose     *)
(* details ShmemSync models.                                               *)
(***************************************************************************)
EXTENDS Runtime, CollTree

CONSTANTS
  Builds,        \* the jobs to start: see build in Runtime
  Bases,         \* addresses at which a PE may find its segments
  MaxPuts        \* user puts per PE

(* A job has a PE 0 and one of the four runtimes; a build with an on-node   *)
(* transport (USE_ON_NODE_COMMS) asks for node ranks.  barrier and radix    *)
(* are what COLL_CROSSOVER, BARRIER_ALGORITHM and COLL_RADIX come to, ops   *)
(* the operations the program uses.  Without faults no step of start-up     *)
(* fails by itself and the program ends by finalize or exit: a bound.       *)
ASSUME LifecycleAssumption ==
  /\ \A b \in Builds : /\ b.n \in Nat \ {0} /\ 0 .. b.n - 1 \subseteq AllPEs
                       /\ b.runtime \in {"pmi", "pmi2", "pmix", "mpi"}
                       /\ b.transport \in {"ofi", "portals4", "ucx"}
                       /\ b.shr \in {"none", "xpmem", "cma"}
                       /\ b.barrier \in {"linear", "tree"}
                       /\ b.radix \in Nat \ {0, 1}
                       /\ b.ops \subseteq {"put", "ctxput"}
                       /\ {b.rva, b.ranks, b.faults} \subseteq BOOLEAN
                       /\ b.shr # "none" => b.ranks
                       /\ \A p \in 0 .. b.n - 1 : b.chunks[p] \in 1 .. 3
  /\ \A p \in AllPEs : Host[p] \in Seq(Nat)

VARIABLES
  pc,            \* per PE, where it is between start and exit
  up,            \* per PE, the layers that are set up
  flags,         \* per PE, initialized, finalized and exiting
  base,          \* rigid: per PE, where its symmetric segments are
  peers,         \* per PE, the on-node transport's table: node rank -> peer
  psync,         \* per PE, the word of barrier_all's pSync
  puts,          \* per PE, the user puts issued
  net,           \* remote operations on their way
  lost,          \* operations and signals that came to nothing
  job            \* run, or aborted: the process manager kills the PEs

lcVars == <<pc, up, flags, base, peers, psync, puts, net, lost, job>>
vars == <<build, rtVars, lcVars>>

At(p, l)   == p \in PEs /\ pc[p] = l
Goto(p, l) == pc' = [pc EXCEPT ![p] = l]
open(p, layer)  == up' = [up EXCEPT ![p] = @ \cup {layer}]
close(p, layer) == up' = [up EXCEPT ![p] = @ \ {layer}]
msg(p, q, k) == [from |-> p, to |-> q, kind |-> k]

-----------------------------------------------------------------------------
(* What the layers publish before the exchange and read after it.          *)

(* publish_mr_info: no addresses with remote virtual addressing. *)
publish_mr_info == <<"fi_heap_key", "fi_data_key">> \o
                   (IF build.rva THEN <<>> ELSE <<"fi_heap_addr", "fi_data_addr">>)
publish_av_info == <<"fi_epname">>
ofi_publish == publish_mr_info \o publish_av_info

portals4_publish == <<"portals4-procid">> \o (IF build.rva THEN <<"portals4-bases">> ELSE <<>>)

(* The worker address in chunks, then a remote key per segment. *)
addr_chunks(p) == SubSeq(<<"addr0", "addr1", "addr2">>, 1, build.chunks[p])
ucx_publish(p) ==
  <<"addr_len">> \o addr_chunks(p)
  \o <<"data_rkey_len", "data_rkey">> \o (IF build.rva THEN <<>> ELSE <<"data_base">>)
  \o <<"heap_rkey_len", "heap_rkey">> \o (IF build.rva THEN <<>> ELSE <<"heap_base">>)

transport_publish(p) ==
  CASE build.transport = "ofi"      -> ofi_publish
    [] build.transport = "portals4" -> portals4_publish
    [] build.transport = "ucx"      -> ucx_publish(p)

xpmem_publish == <<"xpmem-segids">>
cma_publish   == <<"cma-procid">>
shr_publish == CASE build.shr = "xpmem" -> xpmem_publish
                 [] build.shr = "cma"   -> cma_publish
                 [] OTHER -> <<>>

(* The keys of q that p reads when its transport starts.  Portals 4 reads  *)
(* the bases of one neighbour only.                                        *)
populate_mr_tables(q) == Range(publish_mr_info)
populate_av(q) == Range(publish_av_info)
ofi_reads(q) == populate_mr_tables(q) \cup populate_av(q)
neighbour(p) == (p + 1) % build.n
portals4_reads(p, q) == {"portals4-procid"} \cup
                        (IF build.rva /\ q = neighbour(p) THEN {"portals4-bases"} ELSE {})
ucx_reads(q) == Range(ucx_publish(q))

transport_reads(p, q) ==
  CASE build.transport = "ofi"      -> ofi_reads(q)
    [] build.transport = "portals4" -> portals4_reads(p, q)
    [] build.transport = "ucx"      -> ucx_reads(q)

(* The on-node transports read the entries of the PEs with a node rank;    *)
(* XPMEM does not look up its own.                                         *)
on_node(p) == {q \in PEs : get_node_rank(p, q) # -1}
xpmem_reads(p, q) == IF q # p THEN Range(xpmem_publish) ELSE {}
cma_reads(p, q)   == Range(cma_publish)
shr_reads(p, q) == CASE build.shr = "xpmem" -> xpmem_reads(p, q)
                     [] build.shr = "cma"   -> cma_reads(p, q)
                     [] OTHER -> {}

found(p, q, keys) == \A k \in keys : runtime_get(p, q, k) # {}

-----------------------------------------------------------------------------
(* Entry: start_pes, shmem_init, shmem_init_thread.                        *)

(* The environment parses: the mutex and the thread level are set. *)
start(p) ==
  /\ At(p, "out")
  /\ Goto(p, "runtime")
  /\ UNCHANGED <<build, rtVars, up, flags, base, peers, psync, puts, net, lost, job>>

(* It does not: shmem_init_thread returns the error to its caller, the     *)
(* other calls abort.                                                      *)
parse_fails(p) ==
  /\ At(p, "out") /\ build.faults
  /\ \/ Goto(p, "refused") /\ UNCHANGED job
     \/ Goto(p, "aborted") /\ job' = "aborted"
  /\ UNCHANGED <<build, rtVars, up, flags, base, peers, psync, puts, net, lost>>

(* A job of one PE exits, with its exit handlers; others abort. *)
runtime_abort(p) ==
  IF build.n = 1 /\ build.runtime \in {"pmi", "mpi"}
  THEN /\ flags' = [flags EXCEPT ![p].exiting = TRUE]
       /\ Goto(p, IF flags[p].finalized THEN "gone" ELSE "quiet")
       /\ UNCHANGED job
  ELSE /\ job' = "aborted"
       /\ Goto(p, "aborted")
       /\ UNCHANGED flags

(* A second call: start_pes does nothing, the others raise an error. *)
reinitialize(p) ==
  /\ pc[p] \in {"user", "after"} /\ p \in PEs
  /\ flags[p].initialized /\ build.faults
  /\ runtime_abort(p)
  /\ UNCHANGED <<build, rtVars, up, base, peers, psync, puts, net, lost>>

-----------------------------------------------------------------------------
(* shmem_internal_init, step by step.                                      *)

init_runtime(p) ==
  /\ At(p, "runtime")
  /\ runtime_init(p)
  /\ open(p, "runtime") /\ Goto(p, "heap")
  /\ UNCHANGED <<build, kv, server, fence, flags, base, peers, psync, puts, net,
                 lost, job>>

init_heap(p) ==
  /\ At(p, "heap")
  /\ open(p, "heap") /\ Goto(p, "tinit")
  /\ UNCHANGED <<build, rtVars, flags, base, peers, psync, puts, net, lost, job>>

(* The endpoint and the memory regions of OFI and the mapped memory of UCX *)
(* are open to the others from here on.                                    *)
transport_init(p) ==
  /\ At(p, "tinit")
  /\ runtime_put(p, transport_publish(p))
  /\ open(p, "transport") /\ Goto(p, "sinit")
  /\ UNCHANGED <<build, fence, node, flags, base, peers, psync, puts, net, lost, job>>

shr_transport_init(p) ==
  /\ At(p, "sinit")
  /\ runtime_put(p, shr_publish)
  /\ Goto(p, "exchange")
  /\ UNCHANGED <<build, fence, node, up, flags, base, peers, psync, puts, net, lost,
                 job>>

exchange(p) ==
  /\ At(p, "exchange")
  /\ runtime_exchange(p)
  /\ Goto(p, "exchanged")
  /\ UNCHANGED <<build, up, flags, base, peers, psync, puts, net, lost, job>>

exchange_done(p) ==
  /\ At(p, "exchanged")
  /\ exchanged(p)
  /\ Goto(p, "tstart")
  /\ UNCHANGED <<build, up, flags, base, peers, psync, puts, net, lost, job>>

(* Portals 4 with remote virtual addressing: the neighbour's segments must *)
(* be where this PE's are.                                                 *)
same_base(p) == build.transport = "portals4" /\ build.rva => base[neighbour(p)] = base[p]

(* The connections to the peers; Portals 4 opens its list entries here. *)
transport_startup(p) ==
  /\ At(p, "tstart")
  /\ \A q \in PEs : found(p, q, transport_reads(p, q))
  /\ same_base(p)
  /\ open(p, "started") /\ Goto(p, "sstart")
  /\ UNCHANGED <<build, rtVars, flags, base, peers, psync, puts, net, lost, job>>

(* The table of the node's PEs, by node rank. *)
xpmem_startup(p) ==
  [r \in 0 .. get_node_size(p) - 1 |->
     CHOOSE q \in on_node(p) : get_node_rank(p, q) = r]
cma_startup(p) ==
  [r \in 0 .. get_node_size(p) - 1 |->
     CHOOSE q \in on_node(p) : get_node_rank(p, q) = r]

shr_transport_startup(p) ==
  /\ At(p, "sstart")
  /\ build.shr # "none" => \A q \in on_node(p) : found(p, q, shr_reads(p, q))
  /\ peers' = CASE build.shr = "xpmem" -> [peers EXCEPT ![p] = xpmem_startup(p)]
                [] build.shr = "cma"   -> [peers EXCEPT ![p] = cma_startup(p)]
                [] OTHER -> peers
  /\ open(p, "shr") /\ Goto(p, "coll")
  /\ UNCHANGED <<build, rtVars, flags, base, psync, puts, net, lost, job>>

(* The pSync of barrier_all is allocated and cleared. *)
collectives_init(p) ==
  /\ At(p, "coll")
  /\ psync' = [psync EXCEPT ![p] = 0]
  /\ lost' = lost \cup {msg(0, p, "signal") : i \in 1 .. psync[p]}
  /\ Goto(p, "team")
  /\ UNCHANGED <<build, rtVars, up, flags, base, peers, puts, net, job>>

team_init(p) ==
  /\ At(p, "team")
  /\ open(p, "team") /\ Goto(p, "ready")
  /\ UNCHANGED <<build, rtVars, flags, base, peers, psync, puts, net, lost, job>>

(* Mutated form: no PE waits for the others before it returns. *)
init_ready_nowait(p) ==
  /\ At(p, "ready")
  /\ flags' = [flags EXCEPT ![p].initialized = TRUE]
  /\ UNCHANGED rtVars /\ Goto(p, "user")
  /\ UNCHANGED <<build, up, base, peers, psync, puts, net, lost, job>>

(* atexit, the flag, and the last barrier, which PMIx builds leave out. *)
init_ready(p) ==
  /\ At(p, "ready")
  /\ flags' = [flags EXCEPT ![p].initialized = TRUE]
  /\ IF build.runtime = "pmix" THEN UNCHANGED rtVars /\ Goto(p, "user")
                               ELSE runtime_barrier(p) /\ Goto(p, "barrier")
  /\ UNCHANGED <<build, up, base, peers, psync, puts, net, lost, job>>

init_return(p) ==
  /\ At(p, "barrier")
  /\ barrier_out(p)
  /\ Goto(p, "user")
  /\ UNCHANGED <<build, rtVars, up, flags, base, peers, psync, puts, net, lost, job>>

-----------------------------------------------------------------------------
(* Failure of a step.  The cleanup releases what its flags say was set up, *)
(* and aborts.  Under MPI the release of the runtime is collective.        *)

MayFail == {"runtime", "heap", "tinit", "sinit", "exchange", "exchanged", "tstart",
            "sstart", "coll", "team"}

(* MPI_Comm_free and MPI_Finalize may wait for the other PEs. *)
collective_fini == build.runtime = "mpi" /\ build.n > 1

(* A step that cannot succeed fails. *)
doomed(p) ==
  \/ At(p, "tinit") /\ ~ENABLED transport_init(p)
  \/ At(p, "sinit") /\ ~ENABLED shr_transport_init(p)
  \/ At(p, "exchanged") /\ fence_out(p) /\ ~ENABLED exchange_done(p)
  \/ At(p, "tstart") /\ ~ENABLED transport_startup(p)
  \/ At(p, "sstart") /\ ~ENABLED shr_transport_startup(p)

cleanup(p) ==
  /\ p \in PEs /\ pc[p] \in MayFail
  /\ ~build.faults => doomed(p)
  /\ LET waits == collective_fini /\ "runtime" \in up[p]
         kept  == (IF waits THEN {"runtime"} ELSE {}) \cup
                  (IF "started" \in up[p] THEN {} ELSE {"transport"})
     IN  /\ up' = [up EXCEPT ![p] = @ \cap kept]
         /\ Goto(p, IF waits THEN "failed" ELSE "aborted")
         /\ job' = IF waits THEN job ELSE "aborted"
  /\ UNCHANGED <<build, rtVars, flags, base, peers, psync, puts, net, lost>>

(* The runtime is released at last. *)
cleanup_abort(p) ==
  /\ At(p, "failed")
  /\ close(p, "runtime") /\ Goto(p, "aborted")
  /\ job' = "aborted"
  /\ UNCHANGED <<build, rtVars, flags, base, peers, psync, puts, net, lost>>

(* The process manager ends the PEs of an aborted job: external. *)
kill(p) ==
  /\ p \in PEs /\ job = "aborted" /\ pc[p] \notin {"gone", "aborted"}
  /\ Goto(p, "aborted")
  /\ UNCHANGED <<build, rtVars, up, flags, base, peers, psync, puts, net, lost, job>>

-----------------------------------------------------------------------------
(* The program between start-up and shutdown.                              *)

put(p) ==
  /\ At(p, "user") /\ flags[p].initialized
  /\ puts[p] < MaxPuts
  /\ \E q \in PEs \ {p}, k \in build.ops : net' = net \cup {msg(p, q, k)}
  /\ puts' = [puts EXCEPT ![p] = @ + 1]
  /\ UNCHANGED <<build, rtVars, pc, up, flags, base, peers, psync, lost, job>>

(* Whether operations on PE q take effect. *)
exposed(q) == IF build.transport = "portals4" THEN "started" \in up[q] ELSE "transport" \in up[q]

deliver(m) ==
  /\ m \in net
  /\ net' = net \ {m}
  /\ IF exposed(m.to)
     THEN /\ psync' = CASE m.kind = "arrive" -> [psync EXCEPT ![m.to] = @ + 1]
                        [] m.kind = "ack"    -> [psync EXCEPT ![m.to] =
                                                   IF build.barrier = "linear" THEN 1 ELSE @ + 1]
                        [] OTHER -> psync
          /\ UNCHANGED lost
     ELSE /\ lost' = lost \cup {m}
          /\ UNCHANGED psync
  /\ UNCHANGED <<build, rtVars, pc, up, flags, base, peers, puts, job>>

global_exit(p) ==
  /\ p \in PEs /\ pc[p] \in {"user", "after"} /\ flags[p].initialized /\ build.faults
  /\ runtime_abort(p)
  /\ UNCHANGED <<build, rtVars, up, base, peers, psync, puts, net, lost>>

-----------------------------------------------------------------------------
(* Shutdown: shmem_finalize, or the exit handler.                          *)

(* Mutated form: the flag that says it was done is not looked at. *)
shutdown_again(p) == IF flags[p].initialized THEN "quiet"
                     ELSE IF flags'[p].exiting THEN "gone" ELSE "after"

(* Where a call of shmem_internal_shutdown goes. *)
shutdown(p) == IF flags[p].initialized /\ ~flags[p].finalized THEN "quiet"
               ELSE IF flags'[p].exiting THEN "gone" ELSE "after"

finalize(p) ==
  /\ p \in PEs /\ pc[p] \in {"user", "after"}
  /\ UNCHANGED flags
  /\ Goto(p, shutdown(p))
  /\ UNCHANGED <<build, rtVars, up, base, peers, psync, puts, net, lost, job>>

(* The handler is registered only by an init that succeeds. *)
exit(p) ==
  /\ p \in PEs /\ pc[p] \in {"user", "after"}
  /\ flags' = [flags EXCEPT ![p].exiting = TRUE]
  /\ Goto(p, shutdown(p))
  /\ UNCHANGED <<build, rtVars, up, base, peers, psync, puts, net, lost, job>>

(* What a quiet of the default context waits for: the operations issued on *)
(* it; with UCX, which flushes its worker, those of every context.         *)
covered(m) == m.kind = "ctxput" => build.transport = "ucx"
quieted(p) == {m \in net : m.from = p /\ covered(m)}

(* The tree of barrier_all: sync_linear has PE 0 above all others,         *)
(* sync_tree the tree over all PEs that collectives_init builds.           *)
kids(p) == IF build.barrier = "linear" THEN {q \in PEs \ {0} : p = 0}
           ELSE full_children(build.n, build.radix, p)
par(p) == IF build.barrier = "linear" THEN 0 ELSE full_parent(build.n, build.radix, p)

(* Mutated form: the PE goes to the release of its layers at once. *)
barrier_quiet_only(p) ==
  /\ At(p, "quiet")
  /\ quieted(p) = {}
  /\ flags' = [flags EXCEPT ![p].finalized = TRUE]
  /\ Goto(p, "team_fini")
  /\ UNCHANGED <<build, rtVars, up, base, peers, psync, puts, net, lost, job>>

(* barrier_all: a quiet of the default context, then the signals. *)
barrier_quiet(p) ==
  /\ At(p, "quiet")
  /\ quieted(p) = {}
  /\ Goto(p, IF p = 0 THEN "sync" ELSE "callin")
  /\ UNCHANGED <<build, rtVars, up, flags, base, peers, psync, puts, net, lost, job>>

(* A PE below the root waits for its children and calls in at its parent. *)
callin(p) ==
  /\ At(p, "callin")
  /\ kids(p) # {} => psync[p] = Cardinality(kids(p))
  /\ net' = net \cup {msg(p, par(p), "arrive")}
  /\ Goto(p, "sync")
  /\ UNCHANGED <<build, rtVars, up, flags, base, peers, psync, puts, lost, job>>

(* The root waits for its children, another PE for its parent too. *)
called_back(p) ==
  CASE p = 0 -> psync[p] = Cardinality(kids(p))
    [] p # 0 /\ kids(p) = {} -> psync[p] # 0
    [] OTHER -> psync[p] = Cardinality(kids(p)) + 1

barrier_sync(p) ==
  /\ At(p, "sync")
  /\ called_back(p)
  /\ psync' = [psync EXCEPT ![p] = 0]
  /\ net' = net \cup {msg(p, q, "ack") : q \in kids(p)}
  /\ flags' = [flags EXCEPT ![p].finalized = TRUE]
  /\ Goto(p, "team_fini")
  /\ UNCHANGED <<build, rtVars, up, base, peers, puts, lost, job>>

(* Every team left is destroyed, with its contexts: each is quieted here,  *)
(* after the barrier.                                                      *)
team_fini(p) ==
  /\ At(p, "team_fini")
  /\ {m \in net : m.from = p /\ m.kind = "ctxput"} = {}
  /\ close(p, "team") /\ Goto(p, "transport_fini")
  /\ UNCHANGED <<build, rtVars, flags, base, peers, psync, puts, net, lost, job>>

(* Mutated form: the transport is closed with operations under way. *)
transport_fini_noquiet(p) ==
  /\ At(p, "transport_fini")
  /\ up' = [up EXCEPT ![p] = @ \ {"transport", "started"}]
  /\ net' = net \ quieted(p)
  /\ Goto(p, "shr_fini")
  /\ UNCHANGED <<build, rtVars, flags, base, peers, psync, puts, lost, job>>

(* The default context is quieted first: the acks to the children are out. *)
transport_fini(p) ==
  /\ At(p, "transport_fini")
  /\ quieted(p) = {}
  /\ up' = [up EXCEPT ![p] = @ \ {"transport", "started"}]
  /\ Goto(p, "shr_fini")
  /\ UNCHANGED <<build, rtVars, flags, base, peers, psync, puts, net, lost, job>>

shr_transport_fini(p) ==
  /\ At(p, "shr_fini")
  /\ close(p, "shr") /\ Goto(p, "heap_fini")
  /\ peers' = [peers EXCEPT ![p] = <<>>]
  /\ UNCHANGED <<build, rtVars, flags, base, psync, puts, net, lost, job>>

heap_fini(p) ==
  /\ At(p, "heap_fini")
  /\ close(p, "heap") /\ Goto(p, "runtime_fini")
  /\ UNCHANGED <<build, rtVars, flags, base, peers, psync, puts, net, lost, job>>

(* Back from shmem_internal_shutdown. *)
released(p) ==
  /\ close(p, "runtime") /\ Goto(p, IF flags[p].exiting THEN "gone" ELSE "after")

runtime_fini(p) ==
  /\ At(p, "runtime_fini")
  /\ IF collective_fini THEN Goto(p, "finalizing") /\ UNCHANGED up ELSE released(p)
  /\ UNCHANGED <<build, rtVars, flags, base, peers, psync, puts, net, lost, job>>

runtime_fini_done(p) ==
  /\ At(p, "finalizing")
  /\ released(p)
  /\ UNCHANGED <<build, rtVars, flags, base, peers, psync, puts, net, lost, job>>

(* MPI_Finalize need not wait for the others, and need not return before   *)
(* they call it too: external.                                             *)
all_in_fini == \A q \in PEs : pc[q] \in {"finalizing", "failed", "after", "gone", "aborted"}

-----------------------------------------------------------------------------
init_step(p) ==
  \/ start(p) \/ init_runtime(p) \/ init_heap(p)
  \/ transport_init(p) \/ shr_transport_init(p) \/ exchange(p) \/ exchange_done(p)
  \/ transport_startup(p) \/ shr_transport_startup(p) \/ collectives_init(p)
  \/ team_init(p) \/ init_ready(p) \/ init_return(p)

shut_step(p) ==
  \/ exit(p) \/ barrier_quiet(p) \/ callin(p) \/ barrier_sync(p) \/ team_fini(p)
  \/ transport_fini(p) \/ shr_transport_fini(p) \/ heap_fini(p) \/ runtime_fini(p)

mpi_step(p) == runtime_fini_done(p) \/ cleanup_abort(p)

fault(p) == parse_fails(p) \/ cleanup(p) \/ reinitialize(p) \/ global_exit(p)

user_step(p) == put(p) \/ finalize(p)

Gone == {"gone", "aborted"}
(* A job with a PE that may not join is over too: the others wait for it    *)
(* in the exchange, and only the program can end them.                      *)
Over == (\A p \in PEs : pc[p] \in Gone) \/ \E p \in PEs : pc[p] = "refused"

(* A PE that failed is in MPI_Finalize, another one in MPI_Allgather or     *)
(* MPI_Barrier: neither need return.                                        *)
Stranded == \E p, q \in PEs : /\ pc[p] = "failed" /\ pc[q] \in {"exchanged", "barrier"}
                              /\ fence[p] < fence[q]

Init ==
  /\ build \in Builds
  /\ RtInit
  /\ pc = [p \in AllPEs |-> "out"]
  /\ up = [p \in AllPEs |-> {}]
  /\ flags = [p \in AllPEs |-> [initialized |-> FALSE, finalized |-> FALSE, exiting |-> FALSE]]
  /\ base \in [AllPEs -> Bases]
  /\ \A p \in AllPEs : base[p] = base[0] \/ (build.transport = "portals4" /\ build.rva /\ p \in PEs)
  /\ peers = [p \in AllPEs |-> <<>>]
  /\ psync = [p \in AllPEs |-> 0]
  /\ puts = [p \in AllPEs |-> 0]
  /\ net = {} /\ lost = {} /\ job = "run"

Next ==
  \/ \E p \in AllPEs : \/ init_step(p) \/ shut_step(p) \/ mpi_step(p)
                        \/ fault(p) \/ user_step(p) \/ kill(p)
  \/ \E m \in net : deliver(m)

(* Every PE runs, a program ends, the network delivers, MPI_Finalize       *)
(* returns once every PE is in it, and the process manager ends an aborted *)
(* job.                                                                    *)
Spec == Init /\ [][Next]_vars
             /\ \A p \in AllPEs : WF_vars(init_step(p)) /\ WF_vars(shut_step(p))
                                      /\ WF_vars(doomed(p) /\ cleanup(p)) /\ WF_vars(kill(p))
                                      /\ WF_vars(all_in_fini /\ mpi_step(p))
             /\ WF_vars(\E m \in net : deliver(m))

-----------------------------------------------------------------------------
(* The runtimes under which shmem_init returns only when every PE is ready: *)
(* PMIx builds leave the last barrier out, and PMI2 has none.              *)
InitWaits == build.n = 1 \/ build.runtime \in {"pmi", "mpi"}

(* A PE that shmem_init has let go may use every other PE, and the signals *)
(* of the last barrier reach everyone: no operation that a quiet of the     *)
(* default context covers arrives at a PE whose transport is not open yet, *)
(* or not any more, and collectives_init clears no signal of a PE that was *)
(* faster.  The other operations on shareable contexts are quieted after   *)
(* the last barrier, and may be late.                                      *)
NothingLost == job = "run" /\ InitWaits => \A m \in lost : ~ covered(m)

(* A PE that reads the addresses of the others finds, under each key of    *)
(* each PE, what that PE put there.                                        *)
GetsFindPuts ==
  \A p, q \in PEs :
    /\ pc[p] = "exchanged" /\ fence_out(p) /\ reads_hostnames(p) =>
         \A k \in Range(put_hostname) : runtime_get(p, q, k) = {entry(q, k)}
    /\ pc[p] = "tstart" =>
         \A k \in transport_reads(p, q) : runtime_get(p, q, k) = {entry(q, k)}
    /\ pc[p] = "sstart" /\ build.shr # "none" /\ q \in on_node(p) =>
         \A k \in shr_reads(p, q) : runtime_get(p, q, k) = {entry(q, k)}

Leaving   == {"team_fini", "transport_fini", "shr_fini", "heap_fini", "runtime_fini",
              "finalizing", "after"}
Finishing == Leaving \cup {"quiet", "callin", "sync", "gone"}

(* shmem_finalize releases nothing before every PE is in it and the puts   *)
(* of all of them that a quiet of the default context covers are complete, *)
(* although no PE quiets more than its own and only the signals of the     *)
(* tree connect them.  With UCX these are all pending communications, as   *)
(* the manual has it; elsewhere those on shareable contexts stay out.      *)
ReleasedAfterAll ==
  (job = "run" /\ \E p \in PEs : pc[p] \in Leaving) =>
    /\ \A q \in PEs : pc[q] \in Finishing
    /\ \A m \in net : covered(m) => m.kind \in {"arrive", "ack"}

(* The layers a step works on: teams are destroyed on a live transport and *)
(* heap, the transport lets go of a heap that is still mapped, and the     *)
(* on-node transports ask the runtime for node ranks.                      *)
Needs ==
  [l \in {"user", "quiet", "callin", "sync", "team_fini", "transport_fini", "shr_fini",
          "heap_fini", "runtime_fini", "finalizing"} |->
     CASE l \in {"user", "quiet", "callin", "sync", "team_fini"} ->
            {"team", "started", "transport", "shr", "heap", "runtime"}
       [] l = "transport_fini" -> {"started", "transport", "shr", "heap", "runtime"}
       [] l = "shr_fini"     -> {"shr", "heap", "runtime"}
       [] l = "heap_fini"    -> {"heap", "runtime"}
       [] l \in {"runtime_fini", "finalizing"} -> {"runtime"}]

(* However a program ends, by shmem_finalize, by the exit handler or by    *)
(* both, each layer is released once, after the layers above it, and a PE  *)
(* that ends in an orderly way keeps none.                                 *)
LayersNested ==
  \A p \in PEs :
    /\ pc[p] \in DOMAIN Needs => Needs[pc[p]] \subseteq up[p]
    /\ pc[p] \in {"after", "gone"} => up[p] = {}

(* Each PE compares its bases with one neighbour; once a PE has returned   *)
(* from a shmem_init that waits for all, all PEs have the same.            *)
BasesSymmetric ==
  InitWaits /\ build.transport = "portals4" /\ build.rva
  /\ (\E p \in PEs : pc[p] = "user") =>
    \A p, q \in PEs : base[p] = base[q]

(* The on-node transport of a PE holds the PEs of its host and no other,   *)
(* each under the rank by which the operations look it up.                 *)
NodePeers ==
  \A p \in PEs :
    "shr" \in up[p] /\ build.shr # "none" /\ pc[p] # "aborted" =>
      /\ on_node(p) = {q \in PEs : Host[q] = Host[p]}
      /\ \A q \in on_node(p) :
           get_node_rank(p, q) \in DOMAIN peers[p] /\ peers[p][get_node_rank(p, q)] = q

(* What start-up learns about the other PEs is right, although each PE asks *)
(* as soon as it is let out of the exchange: their addresses, their bases,  *)
(* and which of them share the host.                                        *)
PeersKnown == GetsFindPuts /\ BasesSymmetric /\ NodePeers

(* Every job ends, however its PEs start and end, unless shmem_init_thread *)
(* has told a PE that it may not join, a start-up that fails leaves some   *)
(* PEs in one collective operation of MPI and some in another, or an       *)
(* operation met a PE that was not there for it.                           *)
JobEnds == <>[](Over \/ Stranded \/ lost # {})
=============================================================================
