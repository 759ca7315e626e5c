-------------------------- MODULE LifecycleProofs --------------------------
(***************************************************************************)
(* Proofs about start-up and shutdown, for any set of jobs and PEs: the    *)
(* layers are released in order (LayersNested), after every PE has come to *)
(* the shutdown (ReleasedAfterAll), nothing is lost at a PE that is not up *)
(* (NothingLost), and what start-up learns about the other PEs is right    *)
(* (PeersKnown).                                                           *)
(*                                                                         *)
(* LifecycleInv has three parts.  LocalInv says what the point a PE is at  *)
(* means for its layers, its flags and the number of fences it has         *)
(* entered.  MetInv says that a PE past the barrier at the end of          *)
(* shmem_init is so with all the others.  BarrierInv is about the last     *)
(* barrier, whose PEs form a tree: PE 0 over all others in sync_linear,    *)
(* the tree of collectives_init in sync_tree.  The word of a PE is at most *)
(* the number of its children whose signal is no longer under way, and one *)
(* for its parent's, so that, once it says that all are there, they are;   *)
(* who has called in has done so after its children, and nobody leaves     *)
(* before its parent.  No PE being least among those that are out of step, *)
(* all have called in when the first one leaves, and no put is left.  The  *)
(* second and third parts are for jobs that no PE has aborted.             *)
(*                                                                         *)
(* Most steps leave the last barrier alone (Calm); one lemma shows that    *)
(* these keep the invariant, and each of the others has its own.           *)
(*                                                                         *)
(* StartInv, in the second half, is about the exchange: what a PE has put  *)
(* at each point, that who is out of the exchange came out after everybody *)
(* had published, and what the node ranks and tables made of it are.       *)
(***************************************************************************)
EXTENDS Lifecycle, CollTreeProofs, FiniteSetTheorems, WellFoundedInduction, SequenceTheorems,
        TLAPS

-----------------------------------------------------------------------------
(* The inductive invariant.                                                *)

(* The points of a PE's life, in its order. *)
Early == {"out", "refused", "runtime", "heap", "tinit", "sinit", "exchange"}
Mid   == {"exchanged", "tstart", "sstart", "coll", "team", "ready"}
Left  == Leaving \cup {"gone"}
Up    == {"user", "quiet", "callin", "sync"} \cup Left
Ends  == {"failed", "aborted"}
Points == Early \cup Mid \cup {"barrier"} \cup Up \cup Ends
Layers == {"runtime", "heap", "transport", "started", "shr", "team"}
Flags  == [initialized : BOOLEAN, finalized : BOOLEAN, exiting : BOOLEAN]
Kinds  == {"put", "ctxput", "arrive", "ack"}

(* The points at which each layer is set up. *)
TeamPoints      == {"ready", "barrier", "user", "quiet", "callin", "sync", "team_fini"}
ShrPoints       == {"coll", "team", "transport_fini", "shr_fini"} \cup TeamPoints
StartedPoints   == {"sstart", "coll", "team", "transport_fini"} \cup TeamPoints
TransportPoints == {"sinit", "exchange", "exchanged", "tstart"} \cup StartedPoints
HeapPoints      == {"tinit", "shr_fini", "heap_fini"} \cup TransportPoints
RuntimePoints   == {"heap", "runtime_fini", "finalizing"} \cup HeapPoints

LayersAt(p) ==
  /\ "runtime" \in up[p] <=> pc[p] \in RuntimePoints
  /\ "heap" \in up[p] <=> pc[p] \in HeapPoints
  /\ "transport" \in up[p] <=> pc[p] \in TransportPoints
  /\ "started" \in up[p] <=> pc[p] \in StartedPoints
  /\ "shr" \in up[p] <=> pc[p] \in ShrPoints
  /\ "team" \in up[p] <=> pc[p] \in TeamPoints

(* Jobs whose PEs wait for each other at the end of shmem_init. *)
Meets == build.n > 1 /\ build.runtime \in {"pmi", "mpi"}

Entered(l) == IF l \in Early THEN 0 ELSE IF l \in Mid THEN 1 ELSE 2

(* What the point a PE is at says about its own state. *)
Local(p) ==
  /\ pc[p] = "aborted" => job = "aborted"
  /\ pc[p] \notin Ends => LayersAt(p)
  /\ pc[p] \in Early \cup Mid => ~ flags[p].initialized /\ ~ flags[p].finalized
  /\ pc[p] \in {"barrier", "user", "quiet", "callin", "sync"} =>
       flags[p].initialized /\ ~ flags[p].finalized
  /\ pc[p] \in Left => flags[p].initialized /\ flags[p].finalized
  /\ Meets /\ pc[p] \notin Ends => fence[p] = Entered(pc[p])
  /\ pc[p] = "failed" => "shr" \notin up[p] /\ (Meets => fence[p] <= 1)
  /\ pc[p] = "callin" => p # 0

LcTypes ==
  /\ build \in Builds /\ job \in {"run", "aborted"}
  /\ pc \in [AllPEs -> Points] /\ up \in [AllPEs -> SUBSET Layers]
  /\ flags \in [AllPEs -> Flags]
  /\ psync \in [AllPEs -> Nat] /\ fence \in [AllPEs -> Nat]
  /\ net \subseteq [from : PEs, to : PEs, kind : Kinds]

LocalInv == \A p \in PEs : Local(p)

(* Who is past the barrier of shmem_init is so with everybody. *)
MetInv == Meets => \A p, q \in PEs : pc[p] \in Up => fence[q] >= 2

(* The last barrier.  Who has called in, the children of p whose signal is *)
(* no longer under way, and whether p's parent has called back.            *)
Called(p)  == pc[p] \in Left \/ (p # 0 /\ pc[p] = "sync")
Arrived(p) == {q \in kids(p) : pc[q] \in {"sync"} \cup Left /\ msg(q, p, "arrive") \notin net}
Acked(p)   == p # 0 /\ pc[par(p)] \in Left /\ msg(par(p), p, "ack") \notin net

(* A word counts no signal that is still under way. *)
Counted(p) == Cardinality(Arrived(p)) + (IF Acked(p) THEN 1 ELSE 0)
Waits == \A p \in PEs : pc[p] \notin Left => psync[p] <= Counted(p)
(* Who has called in has heard of its children; nobody leaves before its   *)
(* parent.                                                                 *)
InOrder ==
  \A p \in PEs :
    /\ Called(p) => \A q \in kids(p) : Called(q) /\ msg(q, p, "arrive") \notin net
    /\ p # 0 /\ pc[p] \in Left => pc[par(p)] \in Left
Quieted(m) == covered(m) /\ m.kind \in {"put", "ctxput"}
MsgInv ==
  \A m \in net :
    /\ Quieted(m) => pc[m.from] \in {"user", "quiet"}
    /\ m.kind = "arrive" => m.from # 0 /\ m.to = par(m.from) /\ pc[m.from] = "sync"
    /\ m.kind = "ack" => /\ m.to # 0 /\ m.from = par(m.to)
                         /\ pc[m.from] \in Left /\ pc[m.to] = "sync"
    /\ m.to # m.from

BarrierInv == Waits /\ InOrder /\ MsgInv

(* No operation on the default context is lost, and no signal. *)
Kept == build.n = 1 \/ Meets => \A m \in lost : ~ covered(m)
USE DEF Quieted, covered

Safe == MetInv /\ BarrierInv /\ Kept

LifecycleInv == LcTypes /\ LocalInv /\ (job = "run" => Safe)

-----------------------------------------------------------------------------
(* PE 0 is in every job, and the PEs of the job are among all.             *)
LEMMA JobPEs ==
  ASSUME LcTypes
  PROVE  /\ PEs \subseteq AllPEs /\ 0 \in PEs /\ build.n \in Nat \ {0}
         /\ build.runtime \in {"pmi", "pmi2", "pmix", "mpi"}
         /\ build.barrier \in {"linear", "tree"} /\ build.radix \in Nat \ {0, 1}
         /\ build.ops \subseteq {"put", "ctxput"}
  BY LifecycleAssumption DEF LcTypes, PEs

(* The PEs of the last barrier form a tree in which a parent comes before  *)
(* its children.                                                           *)
LEMMA TreeIs ==
  ASSUME LcTypes
  PROVE  /\ \A p \in PEs : /\ kids(p) \subseteq PEs \ {0} /\ IsFiniteSet(kids(p))
                          /\ \A q \in kids(p) : par(q) = p /\ p # q
         /\ \A q \in PEs \ {0} : par(q) \in PEs /\ par(q) < q /\ q \in kids(par(q))
<1>0. 0 \in PEs /\ build.n \in Nat \ {0} /\ build.radix \in Nat \ {0, 1}
  BY JobPEs
<1>1. PEs \ {0} = 1 .. build.n - 1 /\ PEs = 0 .. build.n - 1
  BY <1>0 DEF PEs
<1>2. ASSUME NEW p \in PEs
      PROVE  kids(p) \subseteq PEs \ {0} /\ \A q \in kids(p) : par(q) = p /\ p # q
  <2>1. CASE build.barrier = "linear"
    BY <1>1, <2>1 DEF kids, par
  <2>2. CASE build.barrier = "tree"
    <3>1. kids(p) = full_children(build.n, build.radix, p)
      BY <2>2 DEF kids
    <3>2. ASSUME NEW q \in full_children(build.n, build.radix, p)
          PROVE  q \in 1 .. build.n - 1 /\ q > p /\ full_parent(build.n, build.radix, q) = p
      BY <1>0, <1>1, ChildHasParent
    <3>3. \A q : par(q) = full_parent(build.n, build.radix, q)
      BY <2>2 DEF par
    <3> QED
      BY <1>1, <3>1, <3>2, <3>3
  <2> QED
    BY <2>1, <2>2, JobPEs
<1>3. ASSUME NEW q \in PEs \ {0} PROVE par(q) \in PEs /\ par(q) < q /\ q \in kids(par(q))
  <2>1. CASE build.barrier = "linear"
    BY <1>0, <1>1, <2>1 DEF kids, par
  <2>2. CASE build.barrier = "tree"
    <3>1. /\ full_parent(build.n, build.radix, q) \in 0 .. build.n - 1
          /\ full_parent(build.n, build.radix, q) < q
          /\ q \in full_children(build.n, build.radix, full_parent(build.n, build.radix, q))
      BY <1>0, <1>1, ParentHasChild
    <3> QED
      BY <1>1, <2>2, <3>1 DEF kids, par
  <2> QED
    BY <2>1, <2>2, JobPEs
<1>4. IsFiniteSet(PEs)
  <2>1. PICK k \in Int : k = build.n - 1
    BY <1>0
  <2>2. IsFiniteSet(0 .. k)
    BY FS_Interval
  <2> QED
    BY <1>1, <2>1, <2>2
<1> QED
  BY <1>2, <1>3, <1>4, FS_Subset

(* It is the same throughout. *)
LEMMA TreeRigid ==
  ASSUME build' = build
  PROVE  /\ PEs' = PEs /\ Meets' = Meets
         /\ \A p : kids(p)' = kids(p) /\ par(p)' = par(p)
<1>1. PEs' = PEs /\ Meets' = Meets
  BY DEF PEs, Meets
<1>2. ASSUME NEW p PROVE kids(p)' = kids(p)
  BY <1>1 DEF kids
<1>3. ASSUME NEW p PROVE par(p)' = par(p)
  BY DEF par
<1> QED
  BY <1>1, <1>2, <1>3

(* What a step of one PE leaves alone. *)
OnlyOf(p) ==
  \A q \in AllPEs \ {p} : /\ pc'[q] = pc[q] /\ up'[q] = up[q] /\ flags'[q] = flags[q]
                          /\ fence'[q] = fence[q]

(* A step that touches the state of one PE keeps the others where they are. *)
LEMMA WalksLocal ==
  ASSUME LcTypes, LocalInv, NEW p \in PEs, build' = build, OnlyOf(p), Local(p)',
         job = "aborted" => job' = "aborted"
  PROVE  LocalInv'
<1>1. PEs' = PEs /\ PEs \subseteq AllPEs /\ Meets' = Meets
  BY JobPEs DEF PEs, Meets
<1>2. ASSUME NEW q \in PEs, q # p PROVE Local(q)'
  <2>1. Local(q) /\ q \in AllPEs
    BY <1>1 DEF LocalInv
  <2>2. pc'[q] = pc[q] /\ up'[q] = up[q] /\ flags'[q] = flags[q] /\ fence'[q] = fence[q]
    BY <1>2, <2>1 DEF OnlyOf
  <2> QED
    BY <1>1, <2>1, <2>2 DEF Local, LayersAt
<1> QED
  BY <1>1, <1>2 DEF LocalInv

(* Goto moves one PE. *)
LEMMA GotoIs ==
  ASSUME LcTypes, NEW p \in PEs, NEW l \in Points, Goto(p, l)
  PROVE  /\ pc' \in [AllPEs -> Points] /\ pc'[p] = l
         /\ \A q \in AllPEs \ {p} : pc'[q] = pc[q]
  BY JobPEs DEF LcTypes, Goto

(* open adds a layer at one PE. *)
LEMMA OpenIs ==
  ASSUME LcTypes, NEW p \in PEs, NEW y \in Layers, open(p, y)
  PROVE  /\ up' \in [AllPEs -> SUBSET Layers] /\ up'[p] = up[p] \cup {y}
         /\ \A q \in AllPEs \ {p} : up'[q] = up[q]
  BY JobPEs DEF LcTypes, open

(* close takes a layer away at one PE. *)
LEMMA CloseIs ==
  ASSUME LcTypes, NEW p \in PEs, NEW y \in Layers, close(p, y)
  PROVE  /\ up' \in [AllPEs -> SUBSET Layers] /\ up'[p] = up[p] \ {y}
         /\ \A q \in AllPEs \ {p} : up'[q] = up[q]
  BY JobPEs DEF LcTypes, close

(* A step of p that leaves the last barrier alone: up to it, or after it.  *)
(* The root has nobody to call in at.                                      *)
Goes(p) == LcTypes' /\ build' = build /\ OnlyOf(p) /\ Local(p)'
Calm(p) ==
  /\ net' = net /\ psync' = psync /\ lost' = lost /\ job' = job
  /\ pc'[p] \in Left <=> pc[p] \in Left
  /\ p # 0 => (pc'[p] = "sync" <=> pc[p] = "sync")
  /\ pc[p] \in {"user", "quiet"} =>
       pc'[p] \in {"user", "quiet"} \/ \A m \in net : Quieted(m) => m.from # p
  /\ Meets /\ pc'[p] \in Up => pc[p] \in Up \/ (fence_out(p) /\ pc[p] = "barrier")
  /\ pc[p] \in Up \cup {"barrier"} => pc'[p] \in Up

(* The points between which a step sets up or releases one layer, or none. *)
Passes == {<<"out", "runtime">>, <<"out", "refused">>, <<"sinit", "exchange">>,
           <<"exchanged", "tstart">>, <<"runtime_fini", "finalizing">>}
Opens  == {<<"runtime", "heap", "runtime">>, <<"heap", "tinit", "heap">>,
           <<"tinit", "sinit", "transport">>, <<"tstart", "sstart", "started">>,
           <<"sstart", "coll", "shr">>, <<"team", "ready", "team">>}
Closes == {<<"team_fini", "transport_fini", "team">>, <<"shr_fini", "heap_fini", "shr">>,
           <<"heap_fini", "runtime_fini", "heap">>, <<"runtime_fini", "after", "runtime">>,
           <<"runtime_fini", "gone", "runtime">>, <<"finalizing", "after", "runtime">>,
           <<"finalizing", "gone", "runtime">>}

(* A step between two points that touches no layer. *)
LEMMA PassCalm ==
  ASSUME LcTypes, LocalInv, NEW p \in PEs, NEW l, <<pc[p], l>> \in Passes, Goto(p, l),
         UNCHANGED <<build, fence, up, flags, psync, net, lost, job>>
  PROVE  Goes(p) /\ Calm(p)
<1> USE DEF Points, Early, Mid, Up, Left, Leaving, Ends, Passes
<1>1. pc' \in [AllPEs -> Points] /\ pc'[p] = l /\ \A q \in AllPEs \ {p} : pc'[q] = pc[q]
  BY GotoIs
<1>2. LcTypes' /\ OnlyOf(p)
  BY <1>1 DEF LcTypes, OnlyOf, PEs
<1>3. Local(p)'
  BY <1>1 DEF LocalInv, Local, LayersAt, Meets, Entered, TeamPoints, ShrPoints,
     StartedPoints, TransportPoints, HeapPoints, RuntimePoints
<1>4. Calm(p)
  BY <1>1 DEF Calm
<1> QED
  BY <1>2, <1>3, <1>4 DEF Goes

(* A step that opens the next layer. *)
LEMMA OpenCalm ==
  ASSUME LcTypes, LocalInv, NEW p \in PEs, NEW l, NEW y, <<pc[p], l, y>> \in Opens,
         Goto(p, l), open(p, y), UNCHANGED <<build, fence, flags, psync, net, lost, job>>
  PROVE  Goes(p) /\ Calm(p)
<1> USE DEF Points, Early, Mid, Up, Left, Leaving, Ends, Opens
<1>1. pc' \in [AllPEs -> Points] /\ pc'[p] = l /\ \A q \in AllPEs \ {p} : pc'[q] = pc[q]
  BY GotoIs
<1>2. /\ up' \in [AllPEs -> SUBSET Layers] /\ up'[p] = up[p] \cup {y}
      /\ \A q \in AllPEs \ {p} : up'[q] = up[q]
  BY OpenIs DEF Layers
<1>3. LcTypes' /\ OnlyOf(p)
  BY <1>1, <1>2 DEF LcTypes, OnlyOf, PEs
<1>4. Local(p)'
  BY <1>1, <1>2 DEF LocalInv, Local, LayersAt, Meets, Entered, TeamPoints, ShrPoints,
     StartedPoints, TransportPoints, HeapPoints, RuntimePoints
<1>5. Calm(p)
  BY <1>1 DEF Calm
<1> QED
  BY <1>3, <1>4, <1>5 DEF Goes

(* A step that closes the last layer. *)
LEMMA CloseCalm ==
  ASSUME LcTypes, LocalInv, NEW p \in PEs, NEW l, NEW y, <<pc[p], l, y>> \in Closes,
         Goto(p, l), close(p, y), UNCHANGED <<build, fence, flags, psync, net, lost, job>>
  PROVE  Goes(p) /\ Calm(p)
<1> USE DEF Points, Early, Mid, Up, Left, Leaving, Ends, Closes
<1>1. pc' \in [AllPEs -> Points] /\ pc'[p] = l /\ \A q \in AllPEs \ {p} : pc'[q] = pc[q]
  BY GotoIs
<1>2. /\ up' \in [AllPEs -> SUBSET Layers] /\ up'[p] = up[p] \ {y}
      /\ \A q \in AllPEs \ {p} : up'[q] = up[q]
  BY CloseIs DEF Layers
<1>3. LcTypes' /\ OnlyOf(p)
  BY <1>1, <1>2 DEF LcTypes, OnlyOf, PEs
<1>4. Local(p)'
  BY <1>1, <1>2 DEF LocalInv, Local, LayersAt, Meets, Entered, TeamPoints, ShrPoints,
     StartedPoints, TransportPoints, HeapPoints, RuntimePoints
<1>5. Calm(p)
  BY <1>1 DEF Calm
<1> QED
  BY <1>3, <1>4, <1>5 DEF Goes

(* The steps of start-up and shutdown are of these three kinds. *)
LEMMA LayerStepsCalm ==
  ASSUME LcTypes, LocalInv, NEW p \in PEs,
         \/ start(p) \/ shr_transport_init(p) \/ exchange_done(p)
         \/ init_runtime(p) \/ init_heap(p) \/ transport_init(p) \/ transport_startup(p)
         \/ shr_transport_startup(p) \/ team_init(p)
         \/ team_fini(p) \/ shr_transport_fini(p) \/ heap_fini(p) \/ runtime_fini(p)
         \/ runtime_fini_done(p)
  PROVE  Goes(p) /\ Calm(p)
<1> USE DEF At, rtVars, Passes, Opens, Closes
<1>1. CASE start(p)
  BY <1>1, PassCalm DEF start
<1>2. CASE shr_transport_init(p)
  BY <1>2, PassCalm DEF shr_transport_init
<1>3. CASE exchange_done(p)
  BY <1>3, PassCalm DEF exchange_done, exchanged
<1>4. CASE init_runtime(p)
  BY <1>4, OpenCalm DEF init_runtime
<1>5. CASE init_heap(p)
  BY <1>5, OpenCalm DEF init_heap
<1>6. CASE transport_init(p)
  BY <1>6, OpenCalm DEF transport_init
<1>7. CASE transport_startup(p)
  BY <1>7, OpenCalm DEF transport_startup
<1>8. CASE shr_transport_startup(p)
  BY <1>8, OpenCalm DEF shr_transport_startup
<1>9. CASE team_init(p)
  BY <1>9, OpenCalm DEF team_init
<1>10. CASE team_fini(p)
  BY <1>10, CloseCalm DEF team_fini
<1>11. CASE shr_transport_fini(p)
  BY <1>11, CloseCalm DEF shr_transport_fini
<1>12. CASE heap_fini(p)
  BY <1>12, CloseCalm DEF heap_fini
<1>13. CASE runtime_fini(p) /\ collective_fini
  BY <1>13, PassCalm DEF runtime_fini
<1>14. CASE runtime_fini(p) /\ ~ collective_fini
  BY <1>14, CloseCalm DEF runtime_fini, released
<1>15. CASE runtime_fini_done(p)
  BY <1>15, CloseCalm DEF runtime_fini_done, released
<1> QED
  BY <1>1, <1>2, <1>3, <1>4, <1>5, <1>6, <1>7, <1>8, <1>9, <1>10, <1>11, <1>12, <1>13, <1>14,
     <1>15

(* The exchange is a fence in a job of several PEs. *)
LEMMA ExchangeFence ==
  ASSUME LcTypes, NEW p \in PEs, runtime_exchange(p)
  PROVE  \/ fence' = fence /\ ~ Meets
         \/ fence' = [fence EXCEPT ![p] = @ + 1]
<1>1. build.n \in Nat \ {0} /\ build.runtime \in {"pmi", "pmi2", "pmix", "mpi"}
  BY JobPEs
<1>2. CASE build.n = 1 /\ build.runtime = "pmi"
  BY <1>2 DEF runtime_exchange, rtVars, Meets
<1>3. CASE build.n = 1 /\ build.runtime = "mpi"
  BY <1>3 DEF runtime_exchange, rtVars, Meets
<1>4. CASE build.n > 1 /\ build.runtime = "pmi"
  <2>1. ~(build.n = 1) /\ build.n > 1 /\ build.runtime = "pmi"
    BY <1>1, <1>4
  <2>2. build.runtime # "pmi2" /\ build.runtime # "pmix" /\ build.runtime # "mpi"
    BY <2>1
  <2>3. runtime_exchange(p) = pmi_exchange(p)
    BY <2>1, <2>2, Zenon DEF runtime_exchange
  <2> QED
    BY <2>3 DEF pmi_exchange, barrier_in
<1>5. CASE build.n > 1 /\ build.runtime = "mpi"
  <2>1. ~(build.n = 1) /\ build.n > 1 /\ build.runtime = "mpi"
    BY <1>1, <1>5
  <2>2. build.runtime # "pmi2" /\ build.runtime # "pmix" /\ build.runtime # "pmi"
    BY <2>1
  <2>3. runtime_exchange(p) = mpi_exchange(p)
    BY <2>1, <2>2, Zenon DEF runtime_exchange
  <2> QED
    BY <2>3 DEF mpi_exchange, barrier_in
<1>6. CASE build.runtime = "pmi2"
  BY <1>6 DEF runtime_exchange, pmi2_exchange, barrier_in
<1>7. CASE build.runtime = "pmix"
  BY <1>7 DEF runtime_exchange, pmix_exchange, barrier_in
<1> QED
  BY <1>1, <1>2, <1>3, <1>4, <1>5, <1>6, <1>7

(* The flags are set, and never reset. *)
LEMMA SetInitialized ==
  ASSUME LcTypes, NEW p \in PEs, flags' = [flags EXCEPT ![p].initialized = TRUE]
  PROVE  /\ flags' \in [AllPEs -> Flags] /\ \A q \in AllPEs \ {p} : flags'[q] = flags[q]
         /\ flags'[p].initialized /\ flags'[p].finalized = flags[p].finalized
<1>1. p \in AllPEs /\ flags \in [AllPEs -> Flags] /\ flags[p] \in Flags
  BY JobPEs DEF LcTypes, Flags
<1>2. [flags[p] EXCEPT !.initialized = TRUE] \in Flags
  BY <1>1 DEF Flags
<1>3. /\ flags' \in [AllPEs -> Flags] /\ flags'[p] = [flags[p] EXCEPT !.initialized = TRUE]
      /\ \A q \in AllPEs \ {p} : flags'[q] = flags[q]
  BY <1>1, <1>2
<1>4. flags'[p].initialized
  BY <1>1, <1>3 DEF Flags
<1>5. flags'[p].finalized = flags[p].finalized
  BY <1>1, <1>3 DEF Flags
<1> QED
  BY <1>3, <1>4, <1>5

(* The flag that shutdown sets. *)
LEMMA SetFinalized ==
  ASSUME LcTypes, NEW p \in PEs, flags' = [flags EXCEPT ![p].finalized = TRUE]
  PROVE  /\ flags' \in [AllPEs -> Flags] /\ \A q \in AllPEs \ {p} : flags'[q] = flags[q]
         /\ flags'[p].finalized /\ flags'[p].initialized = flags[p].initialized
<1>1. p \in AllPEs /\ flags \in [AllPEs -> Flags] /\ flags[p] \in Flags
  BY JobPEs DEF LcTypes, Flags
<1>2. [flags[p] EXCEPT !.finalized = TRUE] \in Flags
  BY <1>1 DEF Flags
<1>3. /\ flags' \in [AllPEs -> Flags] /\ flags'[p] = [flags[p] EXCEPT !.finalized = TRUE]
      /\ \A q \in AllPEs \ {p} : flags'[q] = flags[q]
  BY <1>1, <1>2
<1>4. flags'[p].finalized
  BY <1>1, <1>3 DEF Flags
<1>5. flags'[p].initialized = flags[p].initialized
  BY <1>1, <1>3 DEF Flags
<1> QED
  BY <1>3, <1>4, <1>5

(* The flag that the exit handler sets. *)
LEMMA SetExiting ==
  ASSUME LcTypes, NEW p \in PEs,
         flags' = flags \/ flags' = [flags EXCEPT ![p].exiting = TRUE]
  PROVE  /\ flags' \in [AllPEs -> Flags] /\ \A q \in AllPEs \ {p} : flags'[q] = flags[q]
         /\ flags'[p].initialized = flags[p].initialized
         /\ flags'[p].finalized = flags[p].finalized
<1>1. p \in AllPEs /\ flags \in [AllPEs -> Flags] /\ flags[p] \in Flags
  BY JobPEs DEF LcTypes, Flags
<1>2. [flags[p] EXCEPT !.exiting = TRUE] \in Flags
  BY <1>1 DEF Flags
<1>3. /\ flags' \in [AllPEs -> Flags] /\ \A q \in AllPEs \ {p} : flags'[q] = flags[q]
      /\ flags'[p] \in {flags[p], [flags[p] EXCEPT !.exiting = TRUE]}
  BY <1>1, <1>2
<1>4. flags'[p].initialized = flags[p].initialized
  BY <1>1, <1>3 DEF Flags
<1>5. flags'[p].finalized = flags[p].finalized
  BY <1>1, <1>3 DEF Flags
<1> QED
  BY <1>3, <1>4, <1>5

(* A PE enters the exchange of the runtime. *)
LEMMA ExchangeCalm == ASSUME LcTypes, LocalInv, NEW p \in PEs, exchange(p) PROVE Goes(p) /\ Calm(p)
<1> USE DEF Points, Early, Mid, Up, Left, Leaving, Ends
<1>1. /\ pc[p] = "exchange" /\ Goto(p, "exchanged") /\ runtime_exchange(p)
      /\ UNCHANGED <<build, up, flags, psync, net, lost, job>>
  BY DEF exchange, At
<1>2. /\ pc' \in [AllPEs -> Points] /\ pc'[p] = "exchanged"
      /\ \A q \in AllPEs \ {p} : pc'[q] = pc[q]
  BY <1>1, GotoIs
<1>3. /\ fence' \in [AllPEs -> Nat] /\ \A q \in AllPEs \ {p} : fence'[q] = fence[q]
      /\ Meets => fence'[p] = fence[p] + 1
  BY <1>1, ExchangeFence, JobPEs DEF LcTypes
<1>4. LcTypes' /\ OnlyOf(p)
  BY <1>1, <1>2, <1>3 DEF LcTypes, OnlyOf, PEs
<1>5. Local(p)'
  BY <1>1, <1>2, <1>3 DEF LocalInv, Local, LayersAt, Meets, Entered, TeamPoints, ShrPoints,
     StartedPoints, TransportPoints, HeapPoints, RuntimePoints
<1>6. Calm(p)
  BY <1>1, <1>2 DEF Calm
<1> QED
  BY <1>1, <1>4, <1>5, <1>6 DEF Goes

(* A PE is past the collective part of its start-up. *)
LEMMA InitReadyCalm ==
  ASSUME LcTypes, LocalInv, NEW p \in PEs, init_ready(p) PROVE Goes(p) /\ Calm(p)
<1> USE DEF Points, Early, Mid, Up, Left, Leaving, Ends
<1>1. /\ pc[p] = "ready" /\ flags' = [flags EXCEPT ![p].initialized = TRUE]
      /\ \/ build.runtime = "pmix" /\ fence' = fence /\ Goto(p, "user")
         \/ build.runtime # "pmix" /\ fence' = [fence EXCEPT ![p] = @ + 1] /\ Goto(p, "barrier")
      /\ UNCHANGED <<build, up, psync, net, lost, job>>
  BY DEF init_ready, At, rtVars, runtime_barrier, barrier_in
<1>2. /\ pc' \in [AllPEs -> Points] /\ \A q \in AllPEs \ {p} : pc'[q] = pc[q]
      /\ pc'[p] = IF build.runtime = "pmix" THEN "user" ELSE "barrier"
  BY <1>1, GotoIs
<1>3. /\ fence' \in [AllPEs -> Nat] /\ \A q \in AllPEs \ {p} : fence'[q] = fence[q]
      /\ build.runtime # "pmix" => fence'[p] = fence[p] + 1
  <2>1. p \in AllPEs /\ fence \in [AllPEs -> Nat]
    BY JobPEs DEF LcTypes
  <2> QED
    BY <1>1, <2>1
<1>4. /\ flags' \in [AllPEs -> Flags] /\ \A q \in AllPEs \ {p} : flags'[q] = flags[q]
      /\ flags'[p].initialized /\ flags'[p].finalized = flags[p].finalized
  BY <1>1, SetInitialized
<1>5. LcTypes' /\ OnlyOf(p)
  BY <1>1, <1>2, <1>3, <1>4 DEF LcTypes, OnlyOf, PEs
<1>6. Local(p)'
  BY <1>1, <1>2, <1>3, <1>4 DEF LocalInv, Local, LayersAt, Meets, Entered, TeamPoints,
     ShrPoints, StartedPoints, TransportPoints, HeapPoints, RuntimePoints
<1>7. Calm(p)
  BY <1>1, <1>2 DEF Calm, Meets
<1> QED
  BY <1>1, <1>5, <1>6, <1>7 DEF Goes

(* The initialisation returns to the program. *)
LEMMA InitReturnCalm ==
  ASSUME LcTypes, LocalInv, NEW p \in PEs, init_return(p) PROVE Goes(p) /\ Calm(p)
<1> USE DEF Points, Early, Mid, Up, Left, Leaving, Ends
<1>1. /\ pc[p] = "barrier" /\ (Meets => fence_out(p)) /\ Goto(p, "user")
      /\ UNCHANGED <<build, fence, up, flags, psync, net, lost, job>>
  BY DEF init_return, At, rtVars, barrier_out, Meets
<1>2. /\ pc' \in [AllPEs -> Points] /\ pc'[p] = "user"
      /\ \A q \in AllPEs \ {p} : pc'[q] = pc[q]
  BY <1>1, GotoIs
<1>3. LcTypes' /\ OnlyOf(p)
  BY <1>1, <1>2 DEF LcTypes, OnlyOf, PEs
<1>4. Local(p)'
  BY <1>1, <1>2 DEF LocalInv, Local, LayersAt, Meets, Entered, TeamPoints, ShrPoints,
     StartedPoints, TransportPoints, HeapPoints, RuntimePoints
<1>5. Calm(p)
  BY <1>1, <1>2 DEF Calm
<1> QED
  BY <1>1, <1>3, <1>4, <1>5 DEF Goes

(* However a PE comes to the shutdown, it goes through it once. *)
LEMMA ShutdownCalm ==
  ASSUME LcTypes, LocalInv, NEW p \in PEs, pc[p] \in {"user", "after"},
         Goto(p, IF ~ flags[p].finalized THEN "quiet"
                 ELSE IF flags'[p].exiting THEN "gone" ELSE "after"),
         flags' = flags \/ flags' = [flags EXCEPT ![p].exiting = TRUE],
         UNCHANGED <<build, fence, up, psync, net, lost, job>>
  PROVE  Goes(p) /\ Calm(p)
<1> USE DEF Points, Early, Mid, Up, Left, Leaving, Ends
<1>1. /\ pc[p] = "user" => ~ flags[p].finalized /\ flags[p].initialized
      /\ pc[p] = "after" => flags[p].finalized /\ flags[p].initialized
  BY DEF LocalInv, Local
<1>2. /\ flags' \in [AllPEs -> Flags] /\ \A q \in AllPEs \ {p} : flags'[q] = flags[q]
      /\ flags'[p].initialized = flags[p].initialized
      /\ flags'[p].finalized = flags[p].finalized
  BY SetExiting
<1>3. PICK l \in {"quiet", "gone", "after"} : Goto(p, l) /\ (pc[p] = "user" <=> l = "quiet")
  BY <1>1
<1>4. pc' \in [AllPEs -> Points] /\ pc'[p] = l /\ \A q \in AllPEs \ {p} : pc'[q] = pc[q]
  BY <1>3, GotoIs
<1>5. LcTypes' /\ OnlyOf(p)
  BY <1>2, <1>4 DEF LcTypes, OnlyOf, PEs
<1>6. Local(p)'
  BY <1>1, <1>2, <1>3, <1>4 DEF LocalInv, Local, LayersAt, Meets, Entered, TeamPoints, ShrPoints,
     StartedPoints, TransportPoints, HeapPoints, RuntimePoints
<1>7. Calm(p)
  BY <1>3, <1>4 DEF Calm
<1> QED
  BY <1>5, <1>6, <1>7 DEF Goes

(* A program calls finalize, or exits. *)
LEMMA EndsCalm ==
  ASSUME LcTypes, LocalInv, NEW p \in PEs, finalize(p) \/ exit(p)
  PROVE  Goes(p) /\ Calm(p)
<1>1. pc[p] \in {"user", "after"} => flags[p].initialized
  BY DEF LocalInv, Local, Left, Leaving
<1>2. CASE finalize(p)
  BY <1>1, <1>2, ShutdownCalm DEF finalize, shutdown, rtVars
<1>3. CASE exit(p)
  BY <1>1, <1>3, ShutdownCalm DEF exit, shutdown, rtVars
<1> QED
  BY <1>2, <1>3

(* The transport is shut down. *)
LEMMA TransportFiniCalm ==
  ASSUME LcTypes, LocalInv, NEW p \in PEs, transport_fini(p) PROVE Goes(p) /\ Calm(p)
<1> USE DEF Points, Early, Mid, Up, Left, Leaving, Ends
<1>1. /\ pc[p] = "transport_fini" /\ Goto(p, "shr_fini")
      /\ up' = [up EXCEPT ![p] = @ \ {"transport", "started"}]
      /\ UNCHANGED <<build, fence, flags, psync, net, lost, job>>
  BY DEF transport_fini, At, rtVars
<1>2. /\ pc' \in [AllPEs -> Points] /\ pc'[p] = "shr_fini"
      /\ \A q \in AllPEs \ {p} : pc'[q] = pc[q]
  BY <1>1, GotoIs
<1>3. /\ up' \in [AllPEs -> SUBSET Layers] /\ up'[p] = up[p] \ {"transport", "started"}
      /\ \A q \in AllPEs \ {p} : up'[q] = up[q]
  BY <1>1, JobPEs DEF LcTypes
<1>4. LcTypes' /\ OnlyOf(p)
  BY <1>1, <1>2, <1>3 DEF LcTypes, OnlyOf, PEs
<1>5. Local(p)'
  BY <1>1, <1>2, <1>3 DEF LocalInv, Local, LayersAt, Meets, Entered, TeamPoints, ShrPoints,
     StartedPoints, TransportPoints, HeapPoints, RuntimePoints
<1>6. Calm(p)
  BY <1>1, <1>2 DEF Calm
<1> QED
  BY <1>1, <1>4, <1>5, <1>6 DEF Goes

(* Past the quiet of the last barrier a PE has no put in the network. *)
LEMMA QuietCalm ==
  ASSUME LcTypes, LocalInv, NEW p \in PEs, barrier_quiet(p) PROVE Goes(p) /\ Calm(p)
<1> USE DEF Points, Early, Mid, Up, Left, Leaving, Ends
<1>1. /\ pc[p] = "quiet" /\ Goto(p, IF p = 0 THEN "sync" ELSE "callin")
      /\ \A m \in net : Quieted(m) => m.from # p
      /\ UNCHANGED <<build, fence, up, flags, psync, net, lost, job>>
  BY DEF barrier_quiet, At, rtVars, quieted
<1>2. /\ pc' \in [AllPEs -> Points] /\ pc'[p] = IF p = 0 THEN "sync" ELSE "callin"
      /\ \A q \in AllPEs \ {p} : pc'[q] = pc[q]
  BY <1>1, GotoIs
<1>3. LcTypes' /\ OnlyOf(p)
  BY <1>1, <1>2 DEF LcTypes, OnlyOf, PEs
<1>4. Local(p)'
  BY <1>1, <1>2 DEF LocalInv, Local, LayersAt, Meets, Entered, TeamPoints, ShrPoints,
     StartedPoints, TransportPoints, HeapPoints, RuntimePoints
<1>5. Calm(p)
  BY <1>1, <1>2 DEF Calm
<1> QED
  BY <1>1, <1>3, <1>4, <1>5 DEF Goes

(* A start-up that fails, and waits in MPI_Finalize. *)
LEMMA CleanupCalm ==
  ASSUME LcTypes, LocalInv, NEW p \in PEs, cleanup(p), job' = job, Goto(p, "failed")
  PROVE  Goes(p) /\ Calm(p)
<1> USE DEF Points, Early, Mid, Up, Left, Leaving, Ends
<1>1. /\ pc[p] \in MayFail /\ UNCHANGED <<build, fence, flags, psync, net, lost, job>>
  BY DEF cleanup, rtVars
<1>2. /\ pc' \in [AllPEs -> Points] /\ pc'[p] = "failed"
      /\ \A q \in AllPEs \ {p} : pc'[q] = pc[q]
  BY GotoIs
<1>3. PICK S \in SUBSET {"runtime", "transport"} : up' = [up EXCEPT ![p] = @ \cap S]
  BY DEF cleanup
<1>4. /\ up' \in [AllPEs -> SUBSET Layers] /\ "shr" \notin up'[p]
      /\ \A q \in AllPEs \ {p} : up'[q] = up[q]
  BY <1>3, JobPEs DEF LcTypes
<1>5. LcTypes' /\ OnlyOf(p)
  BY <1>1, <1>2, <1>4 DEF LcTypes, OnlyOf, PEs
<1>6. Meets => fence[p] <= 1
  BY <1>1 DEF LocalInv, Local, Entered, MayFail
<1>7. Local(p)'
  BY <1>1, <1>2, <1>4, <1>6 DEF Local, Meets
<1>8. Calm(p)
  BY <1>1, <1>2 DEF Calm, MayFail
<1> QED
  BY <1>1, <1>5, <1>7, <1>8 DEF Goes

-----------------------------------------------------------------------------
(* A PE that gives up takes the job with it. *)
LEMMA AbortKeeps ==
  ASSUME LcTypes, LocalInv, NEW p \in PEs, Goto(p, "aborted"), job' = "aborted",
         up' \in [AllPEs -> SUBSET Layers], \A q \in AllPEs \ {p} : up'[q] = up[q],
         UNCHANGED <<build, fence, flags, psync, net>>
  PROVE  LifecycleInv'
<1>1. /\ pc' \in [AllPEs -> Points] /\ pc'[p] = "aborted"
      /\ \A q \in AllPEs \ {p} : pc'[q] = pc[q]
  BY GotoIs DEF Points, Ends
<1>2. LcTypes' /\ OnlyOf(p)
  BY <1>1 DEF LcTypes, OnlyOf, PEs
<1>3. Local(p)'
  BY <1>1 DEF Local, Early, Mid, Left, Leaving, Ends
<1>4. LocalInv'
  BY <1>2, <1>3, WalksLocal
<1> QED
  BY <1>2, <1>4 DEF LifecycleInv

(* The steps that end the job, or follow its end. *)
LEMMA FaultsKeep ==
  ASSUME LcTypes, LocalInv, NEW p \in PEs,
         \/ parse_fails(p) /\ Goto(p, "aborted") /\ job' = "aborted"
         \/ cleanup(p) /\ Goto(p, "aborted") /\ job' = "aborted"
         \/ cleanup_abort(p) \/ kill(p)
         \/ /\ reinitialize(p) \/ global_exit(p)
            /\ ~(build.n = 1 /\ build.runtime \in {"pmi", "mpi"})
  PROVE  LifecycleInv'
<1> USE DEF rtVars
<1>1. p \in AllPEs /\ up \in [AllPEs -> SUBSET Layers]
  BY JobPEs DEF LcTypes
<1>2. CASE parse_fails(p) /\ Goto(p, "aborted") /\ job' = "aborted"
  BY <1>1, <1>2, AbortKeeps DEF parse_fails
<1>3. CASE cleanup(p) /\ Goto(p, "aborted") /\ job' = "aborted"
  <2>1. PICK S : up' = [up EXCEPT ![p] = @ \cap S]
    BY <1>3 DEF cleanup
  <2>2. up' \in [AllPEs -> SUBSET Layers] /\ \A q \in AllPEs \ {p} : up'[q] = up[q]
    BY <1>1, <2>1
  <2>3. UNCHANGED <<build, fence, flags, psync, net>>
    BY <1>3 DEF cleanup
  <2> QED
    BY <1>3, <2>2, <2>3, AbortKeeps
<1>4. CASE cleanup_abort(p)
  <2>1. up' \in [AllPEs -> SUBSET Layers] /\ \A q \in AllPEs \ {p} : up'[q] = up[q]
    BY <1>1, <1>4 DEF cleanup_abort, close
  <2> QED
    BY <1>4, <2>1, AbortKeeps DEF cleanup_abort
<1>5. CASE kill(p)
  BY <1>1, <1>5, AbortKeeps DEF kill
<1>6. CASE /\ reinitialize(p) \/ global_exit(p)
           /\ ~(build.n = 1 /\ build.runtime \in {"pmi", "mpi"})
  <2>1. /\ runtime_abort(p) /\ UNCHANGED <<build, fence, up, psync, net>>
    BY <1>6 DEF reinitialize, global_exit
  <2>2. Goto(p, "aborted") /\ job' = "aborted" /\ flags' = flags
    BY <1>6, <2>1 DEF runtime_abort
  <2> QED
    BY <1>1, <2>1, <2>2, AbortKeeps
<1> QED
  BY <1>2, <1>3, <1>4, <1>5, <1>6

(* The fences that everyone has passed stay passed. *)
LEMMA MetKeeps ==
  ASSUME LcTypes, LocalInv, job = "run", MetInv, NEW p \in PEs, Goes(p), LocalInv', job' = "run",
         Meets /\ pc'[p] \in Up => pc[p] \in Up \/ (fence_out(p) /\ pc[p] = "barrier"),
         pc[p] \in Up \cup {"barrier"} => pc'[p] \in Up
  PROVE  MetInv'
<1> SUFFICES ASSUME Meets, NEW r \in PEs, NEW q \in PEs, pc'[r] \in Up PROVE fence'[q] >= 2
  BY DEF MetInv, Goes, PEs, Meets
<1>1. /\ PEs \subseteq AllPEs /\ PEs' = PEs /\ Meets'
      /\ \A x \in AllPEs \ {p} : pc'[x] = pc[x] /\ fence'[x] = fence[x]
      /\ pc[q] \in Points /\ pc'[q] \in Points /\ fence[q] \in Nat
  BY JobPEs DEF Goes, OnlyOf, PEs, Meets, LcTypes
<1>2. fence[q] >= 2
  <2>1. CASE pc[r] \in Up
    BY <2>1 DEF MetInv
  <2>2. CASE r = p /\ fence_out(p) /\ pc[p] = "barrier"
    <3>1. fence[p] = 2
      BY <2>2 DEF LocalInv, Local, Entered, Early, Mid, Ends
    <3> QED
      BY <2>2, <3>1 DEF fence_out
  <2> QED
    BY <1>1, <2>1, <2>2
<1>3. pc[q] \in Up \cup {"barrier"}
  <2>1. Local(q)
    BY DEF LocalInv
  <2>2. pc[q] \notin Ends
    BY <1>1, <1>2, <2>1 DEF Local, Ends
  <2>3. fence[q] = Entered(pc[q])
    BY <2>1, <2>2 DEF Local
  <2> QED
    BY <1>1, <1>2, <2>2, <2>3 DEF Entered, Points, Early, Mid
<1>4. pc'[q] \in Up \cup {"barrier"}
  BY <1>1, <1>3
<1>5. fence'[q] = Entered(pc'[q])
  <2>1. Local(q)'
    BY <1>1 DEF LocalInv
  <2>2. pc'[q] \notin Ends
    BY <1>4 DEF Ends, Up, Left, Leaving
  <2> QED
    BY <1>1, <2>1, <2>2 DEF Local, Entered
<1> QED
  BY <1>4, <1>5 DEF Entered, Early, Mid, Up, Left, Leaving

(* What each message says of the two PEs it is between. *)
LEMMA MessageIs ==
  ASSUME LcTypes, NEW m \in net
  PROVE  m.from \in PEs /\ m.to \in PEs /\ m.kind \in Kinds /\ m = msg(m.from, m.to, m.kind)
  BY DEF LcTypes, msg

(* Messages are equal if their parts are. *)
LEMMA MessagesAre ==
  \A a, b, k, x, y, j :
    /\ msg(a, b, k) = msg(x, y, j) <=> a = x /\ b = y /\ k = j
    /\ msg(a, b, k).from = a /\ msg(a, b, k).to = b /\ msg(a, b, k).kind = k
  BY DEF msg

(* The children that have arrived are some of the children. *)
LEMMA ArrivedFinite ==
  ASSUME LcTypes, NEW p \in PEs
  PROVE  /\ Arrived(p) \subseteq kids(p) /\ IsFiniteSet(Arrived(p))
         /\ Cardinality(Arrived(p)) \in Nat /\ Cardinality(kids(p)) \in Nat
         /\ Cardinality(Arrived(p)) <= Cardinality(kids(p))
         /\ Cardinality(Arrived(p)) = Cardinality(kids(p)) => Arrived(p) = kids(p)
<1>1. Arrived(p) \subseteq kids(p)
  BY DEF Arrived
<1>2. IsFiniteSet(kids(p))
  BY TreeIs
<1> QED
  BY <1>1, <1>2, FS_Subset, FS_CardinalityType

(* The words stay below what they count if the step lets no child go. *)
LEMMA WaitsKeep ==
  ASSUME LcTypes, Waits, build' = build,
         \A r \in PEs : pc'[r] \notin Left =>
           pc[r] \notin Left /\ psync'[r] <= psync[r] /\ psync'[r] \in Nat
           /\ Arrived(r)' = Arrived(r) /\ (Acked(r)' <=> Acked(r))
  PROVE  Waits'
<1>1. PEs' = PEs
  BY TreeRigid
<1> SUFFICES ASSUME NEW r \in PEs, pc'[r] \notin Left PROVE psync'[r] <= Counted(r)'
  BY <1>1 DEF Waits
<1>2. psync[r] <= Counted(r) /\ psync[r] \in Nat
  BY JobPEs DEF Waits, LcTypes
<1>3. Counted(r)' = Counted(r) /\ Counted(r) \in Nat
  BY ArrivedFinite DEF Counted
<1> QED
  BY <1>2, <1>3

(* A step that neither puts, delivers nor signals keeps the invariant. *)
LEMMA CalmKeeps ==
  ASSUME LcTypes, LocalInv, job = "run" => Safe, NEW p \in PEs, Goes(p), Calm(p)
  PROVE  LifecycleInv'
<1>1. LcTypes' /\ LocalInv'
  BY WalksLocal DEF Goes, Calm
<1> SUFFICES ASSUME job = "run" PROVE Safe'
  BY <1>1 DEF LifecycleInv, Calm
<1>2. MetInv'
  BY <1>1, MetKeeps DEF Safe, Calm
<1>3. /\ PEs \subseteq AllPEs /\ PEs' = PEs /\ net' = net /\ psync' = psync /\ build' = build
      /\ \A x \in AllPEs \ {p} : pc'[x] = pc[x]
      /\ psync \in [AllPEs -> Nat]
  BY JobPEs DEF Goes, OnlyOf, PEs, Calm, LcTypes
<1>4. \A r : kids(r)' = kids(r) /\ par(r)' = par(r)
  BY <1>3, TreeRigid
<1>5. \A q \in PEs : /\ pc'[q] \in Left <=> pc[q] \in Left
                     /\ q # 0 => (pc'[q] = "sync" <=> pc[q] = "sync")
                     /\ pc[q] \in {"user", "quiet"} =>
                          \/ pc'[q] \in {"user", "quiet"}
                          \/ \A m \in net : Quieted(m) => m.from # q
  BY <1>3 DEF Calm
<1>6. \A r \in PEs : kids(r) \subseteq PEs \ {0} /\ (r # 0 => par(r) \in PEs)
  BY TreeIs
<1>7. \A r \in PEs : Called(r)' <=> Called(r)
  BY <1>5 DEF Called
<1>8. ASSUME NEW r \in PEs PROVE Arrived(r)' = Arrived(r) /\ (Acked(r)' <=> Acked(r))
  <2>1. Arrived(r)' = Arrived(r)
    BY <1>3, <1>4, <1>5, <1>6 DEF Arrived, msg
  <2>2. Acked(r)' <=> Acked(r)
    BY <1>3, <1>4, <1>5, <1>6 DEF Acked, msg
  <2> QED
    BY <2>1, <2>2
<1>9. Waits'
  BY <1>3, <1>5, <1>8, WaitsKeep DEF Safe, BarrierInv
<1>10. InOrder'
  BY <1>3, <1>4, <1>5, <1>6, <1>7 DEF Safe, BarrierInv, InOrder, msg
<1>11. MsgInv'
  BY <1>3, <1>4, <1>5, MessageIs DEF Safe, BarrierInv, MsgInv
<1>12. Kept'
  BY <1>3 DEF Safe, Kept, Calm, Meets
<1> QED
  BY <1>2, <1>9, <1>10, <1>11, <1>12 DEF Safe, BarrierInv

-----------------------------------------------------------------------------
(* The steps of the last barrier, and the ones that touch its words.       *)

(* The pSync is cleared before any signal is there, except in a job that   *)
(* does not meet at the end of shmem_init.                                 *)
LEMMA ClearedIsClear ==
  ASSUME LcTypes, LocalInv, job = "run", Safe, NEW p \in PEs, pc[p] = "coll",
         build.n = 1 \/ Meets
  PROVE  psync[p] = 0
<1>1. p \in AllPEs /\ PEs \subseteq AllPEs /\ build.n \in Nat \ {0}
  BY JobPEs
<1>2. ASSUME NEW q \in PEs, pc[q] \in {"sync"} \cup Left, PEs \ {0} # {} PROVE FALSE
  <2>1. Meets
    BY <1>1, <1>2 DEF PEs
  <2>2. fence[p] >= 2
    BY <1>2, <2>1 DEF Safe, MetInv, Up
  <2>3. fence[p] = 1
    BY <2>1 DEF LocalInv, Local, Entered, Early, Mid, Ends
  <2> QED
    BY <2>2, <2>3
<1>3. Arrived(p) = {}
  <2> SUFFICES ASSUME NEW q \in Arrived(p) PROVE FALSE
    OBVIOUS
  <2>1. q \in PEs \ {0} /\ pc[q] \in {"sync"} \cup Left
    BY TreeIs DEF Arrived
  <2> QED
    BY <1>2, <2>1
<1>4. ~ Acked(p)
  <2> SUFFICES ASSUME Acked(p) PROVE FALSE
    OBVIOUS
  <2>1. p \in PEs \ {0} /\ par(p) \in PEs /\ pc[par(p)] \in Left
    BY TreeIs DEF Acked
  <2> QED
    BY <1>2, <2>1
<1>5. pc[p] \notin Left
  BY DEF Left, Leaving
<1>6. Cardinality(Arrived(p)) = 0
  BY <1>3, FS_EmptySet
<1>7. psync[p] <= Counted(p) /\ psync[p] \in Nat
  BY <1>1, <1>5 DEF Safe, BarrierInv, Waits, LcTypes
<1>8. Counted(p) = 0
  BY <1>4, <1>6 DEF Counted
<1> QED
  BY <1>7, <1>8

(* The sync counters of a PE are set up before anybody signals them. *)
LEMMA CollectivesKeeps ==
  ASSUME LcTypes, LocalInv, job = "run" => Safe, NEW p \in PEs, collectives_init(p)
  PROVE  LifecycleInv'
<1> USE DEF Points, Early, Mid, Up, Left, Leaving, Ends
<1>1. /\ pc[p] = "coll" /\ Goto(p, "team") /\ psync' = [psync EXCEPT ![p] = 0]
      /\ lost' = lost \cup {msg(0, p, "signal") : i \in 1 .. psync[p]}
      /\ UNCHANGED <<build, fence, up, flags, net, job>>
  BY DEF collectives_init, At, rtVars
<1>2. /\ pc' \in [AllPEs -> Points] /\ pc'[p] = "team"
      /\ \A q \in AllPEs \ {p} : pc'[q] = pc[q]
  BY <1>1, GotoIs
<1>3. /\ psync' \in [AllPEs -> Nat] /\ psync'[p] = 0
      /\ \A q \in AllPEs \ {p} : psync'[q] = psync[q]
      /\ p \in AllPEs /\ 0 \in PEs /\ PEs \subseteq AllPEs /\ PEs' = PEs
  BY <1>1, JobPEs DEF LcTypes, PEs
<1>4. LcTypes' /\ OnlyOf(p)
  BY <1>1, <1>2, <1>3 DEF LcTypes, OnlyOf
<1>5. Local(p)'
  BY <1>1, <1>2 DEF LocalInv, Local, LayersAt, Meets, Entered, TeamPoints, ShrPoints,
     StartedPoints, TransportPoints, HeapPoints, RuntimePoints
<1>6. LocalInv' /\ Goes(p)
  BY <1>1, <1>4, <1>5, WalksLocal DEF Goes
<1> SUFFICES ASSUME job = "run" PROVE Safe'
  BY <1>1, <1>4, <1>6 DEF LifecycleInv
<1>7. MetInv'
  BY <1>1, <1>2, <1>6, MetKeeps DEF Safe
<1>8. \A q \in PEs : pc'[q] = pc[q] \/ (q = p /\ pc[q] = "coll" /\ pc'[q] = "team")
  BY <1>1, <1>2, <1>3
<1>9. \A q \in PEs : /\ pc'[q] \in Left <=> pc[q] \in Left
                     /\ pc'[q] = "sync" <=> pc[q] = "sync"
                     /\ pc[q] \in {"user", "quiet"} => pc'[q] \in {"user", "quiet"}
  BY <1>8
<1> HIDE DEF Points, Early, Mid, Up, Left, Leaving, Ends
<1>10. \A r : kids(r)' = kids(r) /\ par(r)' = par(r)
  BY <1>1, TreeRigid
<1>11. \A r \in PEs : kids(r) \subseteq PEs \ {0} /\ (r # 0 => par(r) \in PEs)
  BY TreeIs
<1>12. ASSUME NEW r \in PEs PROVE Arrived(r)' = Arrived(r) /\ (Acked(r)' <=> Acked(r))
  <2>1. Arrived(r)' = Arrived(r)
    BY <1>1, <1>9, <1>10, <1>11 DEF Arrived, msg
  <2>2. Acked(r)' <=> Acked(r)
    BY <1>1, <1>9, <1>10, <1>11 DEF Acked, msg
  <2> QED
    BY <2>1, <2>2
<1>13. Waits'
  <2>1. \A r \in PEs : psync'[r] <= psync[r] /\ psync'[r] \in Nat
    BY <1>3 DEF LcTypes
  <2> QED
    BY <1>1, <1>9, <1>12, <2>1, WaitsKeep DEF Safe, BarrierInv
<1>14. InOrder'
  <2>1. \A r \in PEs : Called(r)' <=> Called(r)
    BY <1>9 DEF Called
  <2> QED
    BY <1>1, <1>3, <1>9, <1>10, <1>11, <2>1 DEF Safe, BarrierInv, InOrder, msg
<1>15. MsgInv'
  BY <1>1, <1>9, <1>10, MessageIs DEF Safe, BarrierInv, MsgInv
<1>16. Kept'
  <2> SUFFICES ASSUME build.n = 1 \/ Meets PROVE lost' = lost
    BY <1>1 DEF Meets, Safe, Kept
  <2>1. psync[p] = 0
    BY <1>1, ClearedIsClear
  <2>2. 1 .. psync[p] = {}
    BY <2>1
  <2> QED
    BY <1>1, <2>2
<1> QED
  BY <1>7, <1>13, <1>14, <1>15, <1>16 DEF Safe, BarrierInv

(* An operation is in the network until it is delivered. *)
LEMMA PutKeeps ==
  ASSUME LcTypes, LocalInv, job = "run" => Safe, NEW p \in PEs, put(p)
  PROVE  LifecycleInv'
<1>1. /\ pc[p] = "user"
      /\ UNCHANGED <<build, fence, pc, up, flags, psync, lost, job>>
  BY DEF put, At, rtVars
<1>2. PICK q \in PEs \ {p}, k \in {"put", "ctxput"} : net' = net \cup {msg(p, q, k)}
  BY JobPEs DEF put
<1>3. msg(p, q, k) \in [from : PEs, to : PEs, kind : Kinds]
  BY DEF msg, Kinds
<1>4. LcTypes' /\ PEs' = PEs
  BY <1>1, <1>2, <1>3 DEF LcTypes, PEs
<1>5. LocalInv'
  BY <1>1, <1>4 DEF LocalInv, Local, LayersAt, Meets
<1> SUFFICES ASSUME job = "run" PROVE Safe'
  BY <1>1, <1>4, <1>5 DEF LifecycleInv
<1>6. MetInv' /\ Kept'
  BY <1>1, <1>4 DEF Safe, MetInv, Kept, Meets
<1>7. /\ \A x, y : /\ msg(x, y, "arrive") \in net' <=> msg(x, y, "arrive") \in net
                   /\ msg(x, y, "ack") \in net' <=> msg(x, y, "ack") \in net
      /\ msg(p, q, k).kind = k /\ msg(p, q, k).from = p /\ msg(p, q, k).to = q
  BY <1>2, MessagesAre
<1>8. \A r : kids(r)' = kids(r) /\ par(r)' = par(r)
  BY <1>1, TreeRigid
<1>9. ASSUME NEW r \in PEs PROVE Arrived(r)' = Arrived(r) /\ (Acked(r)' <=> Acked(r))
  BY <1>1, <1>7, <1>8 DEF Arrived, Acked, msg
<1>10. Waits'
  <2>1. \A r \in PEs : psync[r] <= psync[r] /\ psync[r] \in Nat
    BY JobPEs DEF LcTypes
  <2> QED
    BY <1>1, <1>9, <2>1, WaitsKeep DEF Safe, BarrierInv
<1>11. InOrder'
  BY <1>1, <1>4, <1>7, <1>8 DEF Safe, BarrierInv, InOrder, Called
<1>12. MsgInv'
  BY <1>1, <1>2, <1>7, <1>8 DEF Safe, BarrierInv, MsgInv
<1> QED
  BY <1>6, <1>10, <1>11, <1>12 DEF Safe, BarrierInv

(* The word of a PE that says all its children are there is right. *)
LEMMA AllArrived ==
  ASSUME LcTypes, Safe, NEW p \in PEs, pc[p] \notin Left,
         psync[p] >= Cardinality(kids(p)) + (IF Acked(p) THEN 1 ELSE 0)
  PROVE  Arrived(p) = kids(p)
<1>1. psync[p] <= Counted(p) /\ psync[p] \in Nat
  BY JobPEs DEF Safe, BarrierInv, Waits, LcTypes
<1>2. Cardinality(kids(p)) \in Nat /\ Cardinality(Arrived(p)) \in Nat
  BY ArrivedFinite
<1>3. Cardinality(kids(p)) <= Cardinality(Arrived(p))
  BY <1>1, <1>2 DEF Counted
<1> QED
  BY <1>2, <1>3, ArrivedFinite

(* A PE calls in after its children. *)
LEMMA CallinKeeps ==
  ASSUME LcTypes, LocalInv, job = "run" => Safe, NEW p \in PEs, callin(p)
  PROVE  LifecycleInv'
<1> USE DEF Points, Early, Mid, Up, Left, Leaving, Ends
<1>1. /\ pc[p] = "callin" /\ Goto(p, "sync") /\ net' = net \cup {msg(p, par(p), "arrive")}
      /\ kids(p) # {} => psync[p] = Cardinality(kids(p))
      /\ UNCHANGED <<build, fence, up, flags, psync, lost, job>>
  BY DEF callin, At, rtVars
<1>2. /\ pc' \in [AllPEs -> Points] /\ pc'[p] = "sync"
      /\ \A q \in AllPEs \ {p} : pc'[q] = pc[q]
  BY <1>1, GotoIs
<1>3. /\ PEs \subseteq AllPEs /\ PEs' = PEs /\ p # 0
      /\ par(p) \in PEs /\ par(p) # p /\ p \in kids(par(p))
  <2>1. p # 0 /\ PEs \subseteq AllPEs /\ PEs' = PEs
    BY <1>1, JobPEs DEF LocalInv, Local, PEs
  <2>2. par(p) \in PEs /\ par(p) < p /\ p \in kids(par(p)) /\ p \in Int /\ par(p) \in Int
    BY <2>1, TreeIs DEF PEs
  <2> QED
    BY <2>1, <2>2
<1>4. net' \subseteq [from : PEs, to : PEs, kind : Kinds]
  <2>1. msg(p, par(p), "arrive") \in [from : PEs, to : PEs, kind : Kinds]
    BY <1>3 DEF msg, Kinds
  <2> QED
    BY <1>1, <2>1 DEF LcTypes
<1>5. LcTypes' /\ OnlyOf(p)
  BY <1>1, <1>2, <1>3, <1>4 DEF LcTypes, OnlyOf
<1>6. Local(p)'
  BY <1>1, <1>2 DEF LocalInv, Local, LayersAt, Meets, Entered, TeamPoints, ShrPoints,
     StartedPoints, TransportPoints, HeapPoints, RuntimePoints
<1>7. LocalInv' /\ Goes(p)
  BY <1>1, <1>5, <1>6, WalksLocal DEF Goes
<1> SUFFICES ASSUME job = "run" PROVE Safe'
  BY <1>1, <1>5, <1>7 DEF LifecycleInv
<1>8. MetInv' /\ Kept'
  <2>1. MetInv'
    BY <1>1, <1>2, <1>7, MetKeeps DEF Safe
  <2> QED
    BY <1>1, <2>1 DEF Safe, Kept, Meets
<1>9. /\ \A q \in PEs : q # p => pc'[q] = pc[q]
      /\ pc[p] \notin {"sync", "user", "quiet"} \cup Left /\ pc'[p] \notin Left
  BY <1>1, <1>2, <1>3
<1> HIDE DEF Points, Early, Mid, Up, Left, Leaving, Ends
<1>10. ~ Called(p) /\ ~ Called(par(p))
  <2>1. ~ Called(p)
    BY <1>9 DEF Called
  <2> QED
    BY <1>3, <2>1 DEF Safe, BarrierInv, InOrder
<1>11. \A q \in kids(p) : Called(q) /\ msg(q, p, "arrive") \notin net
  <2>1. CASE kids(p) = {}
    BY <2>1
  <2>2. CASE kids(p) # {}
    <3>1. ~ Acked(p)
      BY <1>10 DEF Acked, Called
    <3>2. Cardinality(kids(p)) \in Nat
      BY ArrivedFinite
    <3>3. Arrived(p) = kids(p)
      BY <1>1, <1>9, <2>2, <3>1, <3>2, AllArrived
    <3> QED
      BY <3>3, TreeIs DEF Arrived, Called
  <2> QED
    BY <2>1, <2>2
<1>12. \A r : kids(r)' = kids(r) /\ par(r)' = par(r)
  BY <1>1, TreeRigid
<1>13. /\ \A x, y : /\ msg(x, y, "arrive") \in net' <=>
                         msg(x, y, "arrive") \in net \/ (x = p /\ y = par(p))
                    /\ msg(x, y, "ack") \in net' <=> msg(x, y, "ack") \in net
       /\ msg(p, par(p), "arrive").kind = "arrive" /\ msg(p, par(p), "arrive").from = p
       /\ msg(p, par(p), "arrive").to = par(p)
  BY <1>1, MessagesAre
<1>14. ASSUME NEW r \in PEs
       PROVE  /\ kids(r) \subseteq PEs \ {0} /\ (r # 0 => par(r) \in PEs)
              /\ p \in kids(r) => r = par(p)
  BY TreeIs
<1>15. ASSUME NEW r \in PEs PROVE Arrived(r)' = Arrived(r) /\ (Acked(r)' <=> Acked(r))
  <2>1. ASSUME NEW q \in kids(r)
        PROVE  pc'[q] \in {"sync"} \cup Left /\ msg(q, r, "arrive") \notin net'
               <=> pc[q] \in {"sync"} \cup Left /\ msg(q, r, "arrive") \notin net
    <3>1. CASE q = p
      BY <1>9, <1>13, <1>14, <3>1
    <3>2. CASE q # p
      BY <1>9, <1>13, <1>14, <3>2
    <3> QED
      BY <3>1, <3>2
  <2>2. Arrived(r)' = {q \in kids(r) : pc'[q] \in {"sync"} \cup Left /\ msg(q, r, "arrive") \notin net'}
    BY <1>12 DEF Arrived, msg, Left, Leaving
  <2>3. Arrived(r)' = Arrived(r)
    BY <2>1, <2>2 DEF Arrived
  <2>4. Acked(r)' <=> r # 0 /\ pc'[par(r)] \in Left /\ msg(par(r), r, "ack") \notin net'
    BY <1>12 DEF Acked, msg, Left, Leaving
  <2>5. Acked(r)' <=> Acked(r)
    BY <1>9, <1>13, <1>14, <2>4 DEF Acked
  <2> QED
    BY <2>3, <2>5
<1>16. Waits'
  <2>1. \A r \in PEs : psync[r] <= psync[r] /\ psync[r] \in Nat
    BY JobPEs DEF LcTypes
  <2>2. \A r \in PEs : pc'[r] \notin Left => pc[r] \notin Left
    BY <1>9
  <2> QED
    BY <1>1, <1>15, <2>1, <2>2, WaitsKeep DEF Safe, BarrierInv
<1>17. \A r \in PEs : Called(r)' <=> Called(r) \/ r = p
  BY <1>2, <1>3, <1>9 DEF Called
<1>18. InOrder'
  <2> SUFFICES ASSUME NEW r \in PEs
               PROVE  /\ Called(r)' => \A q \in kids(r) : Called(q)' /\ msg(q, r, "arrive") \notin net'
                      /\ r # 0 /\ pc'[r] \in Left => pc'[par(r)] \in Left
    BY <1>3, <1>12 DEF InOrder, msg, Left, Leaving
  <2>1. ASSUME Called(r)', NEW q \in kids(r)
        PROVE  Called(q)' /\ msg(q, r, "arrive") \notin net'
    <3>1. CASE r = p
      BY <1>11, <1>13, <1>14, <1>17, <3>1, <1>3
    <3>2. CASE r # p
      <4>1. Called(r) /\ r # par(p)
        BY <1>10, <1>17, <2>1, <3>2
      <4>2. Called(q) /\ msg(q, r, "arrive") \notin net /\ q \in PEs
        BY <1>14, <4>1 DEF Safe, BarrierInv, InOrder
      <4> QED
        BY <1>13, <1>17, <4>1, <4>2
    <3> QED
      BY <3>1, <3>2
  <2>2. ASSUME r # 0, pc'[r] \in Left PROVE pc'[par(r)] \in Left
    <3>1. pc[r] \in Left /\ pc[par(r)] \in Left /\ par(r) \in PEs
      BY <1>9, <1>14, <2>2 DEF Safe, BarrierInv, InOrder
    <3> QED
      BY <1>9, <3>1
  <2> QED
    BY <2>1, <2>2
<1>19. MsgInv'
  <2>1. ASSUME NEW m \in net
        PROVE  /\ Quieted(m) => pc'[m.from] \in {"user", "quiet"}
               /\ m.kind = "arrive" => m.from # 0 /\ m.to = par(m.from) /\ pc'[m.from] = "sync"
               /\ m.kind = "ack" => /\ m.to # 0 /\ m.from = par(m.to)
                                    /\ pc'[m.from] \in Left /\ pc'[m.to] = "sync"
               /\ m.to # m.from
    BY <1>9, MessageIs DEF Safe, BarrierInv, MsgInv
  <2> QED
    BY <1>1, <1>2, <1>3, <1>12, <1>13, <2>1 DEF MsgInv, Left, Leaving
<1> QED
  BY <1>8, <1>16, <1>18, <1>19 DEF Safe, BarrierInv

(* Who leaves the last barrier has all its children's signals, and its     *)
(* parent's.                                                               *)
LEMMA SyncHasAll ==
  ASSUME LcTypes, Safe, NEW p \in PEs, pc[p] = "sync", called_back(p)
  PROVE  /\ \A q \in kids(p) : /\ Called(q) /\ pc[q] = "sync"
                               /\ msg(q, p, "arrive") \notin net
         /\ p # 0 => /\ pc[par(p)] \in Left /\ msg(par(p), p, "ack") \notin net
                     /\ msg(p, par(p), "arrive") \notin net
<1>1. pc[p] \notin Left
  BY DEF Left, Leaving
<1>2. /\ psync[p] <= Counted(p) /\ psync[p] \in Nat
      /\ Cardinality(kids(p)) \in Nat /\ Cardinality(Arrived(p)) \in Nat
      /\ Cardinality(Arrived(p)) <= Cardinality(kids(p))
  BY <1>1, JobPEs, ArrivedFinite DEF Safe, BarrierInv, Waits, LcTypes
<1>3. \A q \in kids(p) : q \in PEs \ {0} /\ par(q) = p
  BY TreeIs
<1>4. \A q \in kids(p) : Called(q) => pc[q] = "sync"
  BY <1>1, <1>3 DEF Called, Safe, BarrierInv, InOrder
<1>5. CASE p = 0
  <2>1. psync[p] = Cardinality(kids(p)) /\ ~ Acked(p)
    BY <1>5 DEF called_back, Acked
  <2>2. Arrived(p) = kids(p)
    BY <1>1, <1>2, <2>1, AllArrived
  <2> QED
    BY <1>3, <1>4, <1>5, <2>2 DEF Arrived, Called
<1>6. CASE p # 0
  <2>1. \A q \in kids(p) : Called(q) /\ msg(q, p, "arrive") \notin net
    BY <1>6 DEF Called, Safe, BarrierInv, InOrder
  <2>2. Acked(p)
    <3>1. CASE kids(p) = {}
      <4>1. psync[p] # 0 /\ Cardinality(kids(p)) = 0
        BY <1>6, <3>1, FS_EmptySet DEF called_back
      <4> QED
        BY <1>2, <4>1 DEF Counted
    <3>2. CASE kids(p) # {}
      <4>1. psync[p] = Cardinality(kids(p)) + 1
        BY <1>6, <3>2 DEF called_back
      <4> QED
        BY <1>2, <4>1 DEF Counted
    <3> QED
      BY <3>1, <3>2
  <2>3. pc[par(p)] \in Left /\ msg(par(p), p, "ack") \notin net
    BY <2>2 DEF Acked
  <2>4. par(p) \in PEs /\ p \in kids(par(p))
    BY <1>6, TreeIs
  <2>5. msg(p, par(p), "arrive") \notin net
    BY <2>3, <2>4 DEF Safe, BarrierInv, InOrder, Called
  <2> QED
    BY <1>4, <1>6, <2>1, <2>3, <2>5
<1> QED
  BY <1>5, <1>6

(* The last barrier is left from the root down. *)
LEMMA SyncKeeps ==
  ASSUME LcTypes, LocalInv, job = "run" => Safe, NEW p \in PEs, barrier_sync(p)
  PROVE  LifecycleInv'
<1> USE DEF Points, Early, Mid, Up, Left, Leaving, Ends
<1>1. /\ pc[p] = "sync" /\ Goto(p, "team_fini") /\ called_back(p)
      /\ psync' = [psync EXCEPT ![p] = 0]
      /\ net' = net \cup {msg(p, q, "ack") : q \in kids(p)}
      /\ flags' = [flags EXCEPT ![p].finalized = TRUE]
      /\ UNCHANGED <<build, fence, up, lost, job>>
  BY DEF barrier_sync, At, rtVars
<1>2. /\ pc' \in [AllPEs -> Points] /\ pc'[p] = "team_fini"
      /\ \A q \in AllPEs \ {p} : pc'[q] = pc[q]
  BY <1>1, GotoIs
<1>3. /\ psync' \in [AllPEs -> Nat] /\ psync'[p] = 0
      /\ \A q \in AllPEs \ {p} : psync'[q] = psync[q]
      /\ PEs \subseteq AllPEs /\ PEs' = PEs
  BY <1>1, JobPEs DEF LcTypes, PEs
<1>4. /\ flags' \in [AllPEs -> Flags] /\ \A q \in AllPEs \ {p} : flags'[q] = flags[q]
      /\ flags'[p].finalized /\ flags'[p].initialized = flags[p].initialized
  BY <1>1, SetFinalized
<1>5. net' \subseteq [from : PEs, to : PEs, kind : Kinds]
  <2>1. \A q \in kids(p) : msg(p, q, "ack") \in [from : PEs, to : PEs, kind : Kinds]
    BY TreeIs DEF msg, Kinds
  <2> QED
    BY <1>1, <2>1 DEF LcTypes
<1>6. LcTypes' /\ OnlyOf(p)
  BY <1>1, <1>2, <1>3, <1>4, <1>5 DEF LcTypes, OnlyOf
<1>7. Local(p)'
  BY <1>1, <1>2, <1>4 DEF LocalInv, Local, LayersAt, Meets, Entered, TeamPoints, ShrPoints,
     StartedPoints, TransportPoints, HeapPoints, RuntimePoints
<1>8. LocalInv' /\ Goes(p)
  BY <1>1, <1>6, <1>7, WalksLocal DEF Goes
<1> SUFFICES ASSUME job = "run" PROVE Safe'
  BY <1>1, <1>6, <1>8 DEF LifecycleInv
<1>9. MetInv' /\ Kept'
  <2>1. MetInv'
    BY <1>1, <1>2, <1>8, MetKeeps DEF Safe
  <2> QED
    BY <1>1, <2>1 DEF Safe, Kept, Meets
<1>10. /\ \A q \in PEs : q # p => pc'[q] = pc[q] /\ psync'[q] = psync[q]
       /\ pc[p] \notin {"user", "quiet"} \cup Left /\ pc'[p] \in Left
  BY <1>1, <1>2, <1>3
<1> HIDE DEF Points, Early, Mid, Up, Left, Leaving, Ends
<1>11. /\ \A q \in kids(p) : /\ Called(q) /\ pc[q] = "sync"
                             /\ msg(q, p, "arrive") \notin net
       /\ p # 0 => /\ pc[par(p)] \in Left /\ msg(par(p), p, "ack") \notin net
                   /\ msg(p, par(p), "arrive") \notin net
  BY <1>1, SyncHasAll
<1>12. \A r : kids(r)' = kids(r) /\ par(r)' = par(r)
  BY <1>1, TreeRigid
<1>13. \A x, y : /\ msg(x, y, "arrive") \in net' <=> msg(x, y, "arrive") \in net
                 /\ msg(x, y, "ack") \in net' <=>
                      msg(x, y, "ack") \in net \/ (x = p /\ y \in kids(p))
  BY <1>1, MessagesAre
<1>14. ASSUME NEW r \in PEs
       PROVE  /\ kids(r) \subseteq PEs \ {0} /\ \A q \in kids(r) : par(q) = r /\ q # r
              /\ r # 0 => par(r) \in PEs /\ par(r) # r /\ r \in kids(par(r))
  <2>1. r \in Int
    BY DEF PEs
  <2>2. r # 0 => par(r) \in PEs /\ par(r) < r /\ r \in kids(par(r))
    BY TreeIs
  <2>3. r # 0 => par(r) # r
    BY <2>1, <2>2
  <2> QED
    BY <2>2, <2>3, TreeIs
<1>15. ASSUME NEW r \in PEs, pc'[r] \notin Left
       PROVE  Arrived(r)' = Arrived(r) /\ (Acked(r)' <=> Acked(r))
  <2>1. Arrived(r)' = {q \in kids(r) : pc'[q] \in {"sync"} \cup Left /\ msg(q, r, "arrive") \notin net'}
    BY <1>12 DEF Arrived, msg, Left, Leaving
  <2>2. \A q \in kids(r) : pc'[q] \in {"sync"} \cup Left <=> pc[q] \in {"sync"} \cup Left
    BY <1>1, <1>10, <1>14
  <2>3. Arrived(r)' = Arrived(r)
    BY <1>13, <2>1, <2>2 DEF Arrived
  <2>4. Acked(r)' <=> r # 0 /\ pc'[par(r)] \in Left /\ msg(par(r), r, "ack") \notin net'
    BY <1>12 DEF Acked, msg, Left, Leaving
  <2>5. Acked(r)' <=> Acked(r)
    BY <1>10, <1>13, <1>14, <2>4 DEF Acked
  <2> QED
    BY <2>3, <2>5
<1>16. Waits'
  <2>1. \A r \in PEs : pc'[r] \notin Left => pc[r] \notin Left
    BY <1>10
  <2>2. \A r \in PEs : psync'[r] <= psync[r] /\ psync'[r] \in Nat
    BY <1>3 DEF LcTypes
  <2> QED
    BY <1>1, <1>15, <2>1, <2>2, WaitsKeep DEF Safe, BarrierInv
<1>17. /\ \A r \in PEs : r # p => (Called(r)' <=> Called(r))
       /\ Called(p)'
  BY <1>10 DEF Called
<1>18. InOrder'
  <2> SUFFICES ASSUME NEW r \in PEs
               PROVE  /\ Called(r)' => \A q \in kids(r) : Called(q)' /\ msg(q, r, "arrive") \notin net'
                      /\ r # 0 /\ pc'[r] \in Left => pc'[par(r)] \in Left
    BY <1>3, <1>12 DEF InOrder, msg, Left, Leaving
  <2>1. ASSUME Called(r)', NEW q \in kids(r)
        PROVE  Called(q)' /\ msg(q, r, "arrive") \notin net'
    <3>1. Called(q) /\ msg(q, r, "arrive") \notin net
      BY <1>11, <1>17, <2>1 DEF Safe, BarrierInv, InOrder
    <3> QED
      BY <1>13, <1>14, <1>17, <3>1
  <2>2. ASSUME r # 0, pc'[r] \in Left PROVE pc'[par(r)] \in Left
    <3>1. pc[par(r)] \in Left /\ par(r) \in PEs
      BY <1>10, <1>11, <1>14, <2>2 DEF Safe, BarrierInv, InOrder
    <3> QED
      BY <1>10, <3>1
  <2> QED
    BY <2>1, <2>2
<1>19. MsgInv'
  <2>1. ASSUME NEW m \in net
        PROVE  /\ Quieted(m) => pc'[m.from] \in {"user", "quiet"}
               /\ m.kind = "arrive" => m.from # 0 /\ m.to = par(m.from) /\ pc'[m.from] = "sync"
               /\ m.kind = "ack" => /\ m.to # 0 /\ m.from = par(m.to)
                                    /\ pc'[m.from] \in Left /\ pc'[m.to] = "sync"
               /\ m.to # m.from
    <3>1. /\ m.from \in PEs /\ m.to \in PEs /\ m = msg(m.from, m.to, m.kind)
          /\ Quieted(m) => pc[m.from] \in {"user", "quiet"}
          /\ m.kind = "arrive" => m.from # 0 /\ m.to = par(m.from) /\ pc[m.from] = "sync"
          /\ m.kind = "ack" => /\ m.to # 0 /\ m.from = par(m.to)
                               /\ pc[m.from] \in Left /\ pc[m.to] = "sync"
          /\ m.to # m.from
      BY MessageIs DEF Safe, BarrierInv, MsgInv
    <3>2. m.kind = "arrive" => m.from # p
      BY <1>11, <3>1
    <3>3. m.kind = "ack" => m.to # p
      BY <1>11, <3>1
    <3> QED
      BY <1>10, <3>1, <3>2, <3>3
  <2>2. ASSUME NEW q \in kids(p), NEW m, m = msg(p, q, "ack")
        PROVE  /\ m.kind = "ack" /\ m.to # 0 /\ m.from = par(m.to)
               /\ pc'[m.from] \in Left /\ pc'[m.to] = "sync" /\ m.to # m.from
    <3>1. m.kind = "ack" /\ m.to = q /\ m.from = p
      BY <2>2, MessagesAre
    <3> QED
      BY <1>10, <1>11, <1>14, <3>1
  <2> QED
    BY <1>1, <1>12, <2>1, <2>2 DEF MsgInv, Left, Leaving
<1> QED
  BY <1>9, <1>16, <1>18, <1>19 DEF Safe, BarrierInv

(* When one PE has left, all have called in: no PE is the first that has   *)
(* left without its parent, and none the first that has not called in.     *)
LEMMA AllCalled ==
  ASSUME LcTypes, InOrder, NEW p \in PEs, pc[p] \in Left
  PROVE  \A q \in PEs : pc[q] \in {"sync"} \cup Left
<1>1. 0 \in PEs /\ PEs \subseteq Nat
  BY JobPEs DEF PEs
<1>2. pc[0] \in Left
  <2> DEFINE T == {q \in PEs : pc[q] \in Left}
  <2>1. PICK q \in T : \A y \in T : q <= y
    <3>1. T \subseteq Nat /\ T # {}
      BY <1>1
    <3> HIDE DEF T
    <3> QED
      BY <3>1, LeastNumber
  <2>2. CASE q = 0
    BY <2>2
  <2>3. CASE q # 0
    <3>1. par(q) \in PEs /\ par(q) < q /\ pc[par(q)] \in Left
      BY <2>3, TreeIs DEF InOrder
    <3>2. q <= par(q)
      BY <2>1, <3>1
    <3>3. q \in Nat /\ par(q) \in Nat
      BY <1>1, <3>1
    <3> QED
      BY <3>1, <3>2, <3>3
  <2> QED
    BY <2>2, <2>3
<1>3. \A q \in PEs : Called(q)
  <2> DEFINE T == {q \in PEs : ~ Called(q)}
  <2> SUFFICES ASSUME T # {} PROVE FALSE
    OBVIOUS
  <2>1. PICK q \in T : \A y \in T : q <= y
    <3>1. T \subseteq Nat
      BY <1>1
    <3> HIDE DEF T
    <3> QED
      BY <3>1, LeastNumber
  <2>2. q # 0
    BY <1>2 DEF Called
  <2>3. par(q) \in PEs /\ par(q) < q /\ q \in kids(par(q))
    BY <2>2, TreeIs
  <2>4. Called(par(q))
    <3> SUFFICES ASSUME ~ Called(par(q)) PROVE FALSE
      OBVIOUS
    <3>1. q <= par(q)
      BY <2>1, <2>3
    <3>2. q \in Nat /\ par(q) \in Nat
      BY <1>1, <2>3
    <3> QED
      BY <2>3, <3>1, <3>2
  <2> QED
    BY <2>1, <2>3, <2>4 DEF InOrder
<1> QED
  BY <1>3 DEF Called

(* What is under way on the default context finds its target with the      *)
(* transport open, in a job that has met.                                  *)
LEMMA TargetExposed ==
  ASSUME LcTypes, LocalInv, job = "run", Safe, NEW m \in net, covered(m),
         build.n = 1 \/ Meets
  PROVE  exposed(m.to)
<1>1. /\ m.from \in PEs /\ m.to \in PEs /\ m.kind \in Kinds /\ m.to # m.from
      /\ m = msg(m.from, m.to, m.kind)
  BY MessageIs DEF Safe, BarrierInv, MsgInv
<1>2. Meets
  <2>1. build.n # 1
    BY <1>1 DEF PEs
  <2> QED
    BY <2>1
<1>3. pc[m.to] \in {"barrier", "user", "quiet", "callin", "sync"}
  <2>1. CASE m.kind = "ack"
    BY <2>1 DEF Safe, BarrierInv, MsgInv
  <2>2. CASE m.kind # "ack"
    <3>1. pc[m.from] \in {"user", "quiet", "sync"}
      BY <1>1, <2>2 DEF Safe, BarrierInv, MsgInv, Kinds
    <3>2. fence[m.to] >= 2
      BY <1>1, <1>2, <3>1 DEF Safe, MetInv, Up
    <3>3. pc[m.to] \notin Left
      <4>1. CASE m.kind \in {"put", "ctxput"}
        <5>1. pc[m.from] \in {"user", "quiet"}
          BY <4>1 DEF Safe, BarrierInv, MsgInv
        <5>2. pc[m.to] \in Left => pc[m.from] \in {"sync"} \cup Left
          BY <1>1, AllCalled DEF Safe, BarrierInv
        <5> QED
          BY <5>1, <5>2 DEF Left, Leaving
      <4>2. CASE m.kind = "arrive"
        <5>1. m.from # 0 /\ m.to = par(m.from) /\ m.from \in kids(m.to)
          BY <1>1, <4>2, TreeIs DEF Safe, BarrierInv, MsgInv
        <5> QED
          BY <1>1, <4>2, <5>1 DEF Safe, BarrierInv, InOrder, Called
      <4> QED
        BY <1>1, <2>2, <4>1, <4>2 DEF Kinds
    <3>4. Local(m.to) /\ pc[m.to] \in Points /\ fence[m.to] \in Nat
      BY <1>1, JobPEs DEF LocalInv, LcTypes
    <3>5. pc[m.to] \notin Ends
      BY <1>2, <3>2, <3>4 DEF Local, Ends
    <3>6. fence[m.to] = Entered(pc[m.to])
      BY <1>2, <3>4, <3>5 DEF Local
    <3> QED
      BY <3>2, <3>3, <3>4, <3>5, <3>6 DEF Entered, Points, Up
  <2> QED
    BY <2>1, <2>2
<1>4. LayersAt(m.to)
  BY <1>1, <1>3 DEF LocalInv, Local, Ends
<1> QED
  BY <1>3, <1>4 DEF exposed, LayersAt, StartedPoints, TransportPoints, TeamPoints

(* A delivery adds a signal to the word that waits for it. *)
LEMMA DeliverKeeps ==
  ASSUME LcTypes, LocalInv, job = "run" => Safe, NEW m \in net, deliver(m)
  PROVE  LifecycleInv'
<1>1. net' = net \ {m} /\ UNCHANGED <<build, fence, pc, up, flags, job>>
  BY DEF deliver, rtVars
<1>2. /\ m.to \in PEs /\ m.from \in PEs /\ m = msg(m.from, m.to, m.kind) /\ m.kind \in Kinds
      /\ PEs \subseteq AllPEs /\ PEs' = PEs
  BY <1>1, JobPEs, MessageIs DEF PEs
<1>3. \/ m.kind = "arrive" /\ psync' = [psync EXCEPT ![m.to] = @ + 1]
      \/ m.kind = "ack" /\ (\/ psync' = [psync EXCEPT ![m.to] = 1]
                            \/ psync' = [psync EXCEPT ![m.to] = @ + 1])
      \/ psync' = psync
  BY <1>2 DEF deliver, Kinds
<1>4. LcTypes'
  BY <1>1, <1>2, <1>3 DEF LcTypes
<1>5. LocalInv'
  BY <1>1, <1>2 DEF LocalInv, Local, LayersAt, Meets
<1> SUFFICES ASSUME job = "run" PROVE Safe'
  BY <1>1, <1>4, <1>5 DEF LifecycleInv
<1>6. MetInv'
  BY <1>1, <1>2 DEF Safe, MetInv, Meets
<1>7. Kept'
  <2> SUFFICES ASSUME build.n = 1 \/ Meets PROVE \A o \in lost' : ~ covered(o)
    BY <1>1 DEF Meets, Kept
  <2>1. exposed(m.to) \/ ~ covered(m)
    BY TargetExposed
  <2>2. lost' \subseteq lost \cup {m} /\ (exposed(m.to) => lost' = lost)
    BY DEF deliver
  <2> QED
    BY <2>1, <2>2 DEF Safe, Kept
<1>8. \A r : kids(r)' = kids(r) /\ par(r)' = par(r)
  BY <1>1, TreeRigid
<1>9. /\ m.kind = "arrive" => /\ m.from # 0 /\ m.to = par(m.from) /\ pc[m.from] = "sync"
                              /\ m.from \in kids(m.to)
      /\ m.kind = "ack" => /\ m.to # 0 /\ m.from = par(m.to)
                           /\ pc[m.from] \in Left /\ pc[m.to] = "sync"
  BY <1>2, TreeIs DEF Safe, BarrierInv, MsgInv
<1>10. ASSUME NEW r \in PEs
       PROVE  /\ Arrived(r) \subseteq Arrived(r)' /\ (Acked(r) => Acked(r)')
              /\ IsFiniteSet(Arrived(r)') /\ Cardinality(Arrived(r)') \in Nat
              /\ Cardinality(Arrived(r)) \in Nat
              /\ Cardinality(Arrived(r)) <= Cardinality(Arrived(r)')
  <2>1. Arrived(r) \subseteq Arrived(r)' /\ Arrived(r)' \subseteq kids(r)
    BY <1>1, <1>8 DEF Arrived, msg
  <2>2. Acked(r) => Acked(r)'
    BY <1>1, <1>8 DEF Acked, msg
  <2>3. IsFiniteSet(kids(r))
    BY TreeIs
  <2>4. IsFiniteSet(Arrived(r)')
    BY <2>1, <2>3, FS_Subset
  <2> QED
    BY <2>1, <2>2, <2>4, FS_Subset, FS_CardinalityType
<1>11. Waits'
  <2> SUFFICES ASSUME NEW r \in PEs, pc[r] \notin Left PROVE psync'[r] <= Counted(r)'
    BY <1>1, <1>2 DEF Waits
  <2>1. /\ psync[r] <= Counted(r) /\ psync[r] \in Nat /\ r \in AllPEs
        /\ psync \in [AllPEs -> Nat]
    BY <1>2 DEF Safe, BarrierInv, Waits, LcTypes
  <2>2. CASE psync'[r] = psync[r]
    BY <1>10, <2>1, <2>2 DEF Counted
  <2>3. CASE m.kind = "arrive" /\ r = m.to /\ psync'[r] = psync[r] + 1
    <3>1. m = msg(m.from, r, "arrive") /\ m.from \in kids(r) /\ pc[m.from] = "sync"
      BY <1>2, <1>9, <2>3
    <3>2. m.from \notin Arrived(r) /\ m.from \in Arrived(r)'
      BY <1>1, <1>8, <3>1 DEF Arrived, msg
    <3>3. /\ IsFiniteSet(Arrived(r))
          /\ Cardinality(Arrived(r) \cup {m.from}) = Cardinality(Arrived(r)) + 1
      BY <3>2, ArrivedFinite, FS_AddElement
    <3>4. Cardinality(Arrived(r) \cup {m.from}) <= Cardinality(Arrived(r)')
      BY <1>10, <3>2, FS_Subset
    <3> QED
      BY <1>10, <2>1, <2>3, <3>3, <3>4 DEF Counted
  <2>4. CASE m.kind = "ack" /\ r = m.to /\ psync'[r] \in {1, psync[r] + 1}
    <3>1. m = msg(par(r), r, "ack") /\ r # 0 /\ pc[par(r)] \in Left
      BY <1>2, <1>9, <2>4
    <3>2. ~ Acked(r) /\ Acked(r)'
      BY <1>1, <1>8, <3>1 DEF Acked, msg
    <3> QED
      BY <1>10, <2>1, <2>4, <3>2 DEF Counted
  <2> QED
    BY <1>2, <1>3, <2>1, <2>2, <2>3, <2>4
<1>12. InOrder'
  <2>1. \A r : Called(r)' <=> Called(r)
    BY <1>1 DEF Called
  <2> QED
    BY <1>1, <1>2, <1>8, <2>1 DEF Safe, BarrierInv, InOrder, msg
<1>13. MsgInv'
  BY <1>1, <1>8 DEF Safe, BarrierInv, MsgInv
<1> QED
  BY <1>6, <1>7, <1>11, <1>12, <1>13 DEF Safe, BarrierInv

-----------------------------------------------------------------------------
(* The job starts with every PE before its start-up. *)
LEMMA InitHolds == Init => LifecycleInv
<1> SUFFICES ASSUME Init PROVE LifecycleInv
  OBVIOUS
<1>1. LcTypes
  BY DEF Init, RtInit, LcTypes, Points, Early, Flags, Layers
<1>2. 0 \in PEs /\ PEs \subseteq AllPEs
  BY <1>1, JobPEs
<1>3. \A p \in PEs : /\ pc[p] = "out" /\ up[p] = {} /\ psync[p] = 0 /\ fence[p] = 0
                     /\ ~ flags[p].initialized /\ ~ flags[p].finalized
  BY <1>2 DEF Init, RtInit
<1>4. LocalInv
  BY <1>3 DEF LocalInv, Local, LayersAt, Entered, Early, Mid, Left, Leaving, TeamPoints,
     ShrPoints, StartedPoints, TransportPoints, HeapPoints, RuntimePoints, Ends
<1>5. MetInv
  BY <1>3 DEF MetInv, Up, Left, Leaving
<1>6. net = {} /\ lost = {}
  BY DEF Init
<1>7. Waits
  BY <1>1, <1>3, ArrivedFinite DEF Waits, Counted
<1>8. InOrder /\ MsgInv
  BY <1>3, <1>6 DEF InOrder, MsgInv, Called, Left, Leaving
<1> QED
  BY <1>1, <1>4, <1>5, <1>6, <1>7, <1>8 DEF LifecycleInv, Safe, BarrierInv, Kept

(* Every action is a step of a PE of the job. *)
LEMMA NextOf ==
  ASSUME Next
  PROVE  \/ \E p \in PEs : \/ init_step(p) \/ shut_step(p) \/ mpi_step(p)
                           \/ fault(p) \/ user_step(p) \/ kill(p)
         \/ \E m \in net : deliver(m)
  BY DEF Next, init_step, shut_step, mpi_step, fault, user_step, kill, start, init_runtime, init_heap,
     transport_init, shr_transport_init, exchange, exchange_done, transport_startup,
     shr_transport_startup, collectives_init, team_init, init_ready, init_return, exit,
     barrier_quiet, callin, barrier_sync, team_fini, transport_fini, shr_transport_fini,
     heap_fini, runtime_fini, runtime_fini_done, cleanup_abort, parse_fails, cleanup,
     reinitialize, global_exit, put, finalize, At

(* Every step of the job keeps the invariant. *)
LEMMA StepKeeps == LifecycleInv /\ [Next]_vars => LifecycleInv'
<1> SUFFICES ASSUME LifecycleInv, [Next]_vars PROVE LifecycleInv'
  OBVIOUS
<1>1. LcTypes /\ LocalInv /\ (job = "run" => Safe)
  BY DEF LifecycleInv
<1>2. ASSUME NEW p \in PEs, init_step(p) PROVE LifecycleInv'
  <2>1. CASE collectives_init(p)
    BY <1>1, <2>1, CollectivesKeeps
  <2>2. CASE ~ collectives_init(p)
    <3>1. Goes(p) /\ Calm(p)
      BY <1>1, <1>2, <2>2, LayerStepsCalm, ExchangeCalm, InitReadyCalm, InitReturnCalm
         DEF init_step
    <3> QED
      BY <1>1, <3>1, CalmKeeps
  <2> QED
    BY <2>1, <2>2
<1>3. ASSUME NEW p \in PEs, shut_step(p) PROVE LifecycleInv'
  <2>1. CASE callin(p)
    BY <1>1, <2>1, CallinKeeps
  <2>2. CASE barrier_sync(p)
    BY <1>1, <2>2, SyncKeeps
  <2>3. CASE ~ callin(p) /\ ~ barrier_sync(p)
    <3>1. Goes(p) /\ Calm(p)
      BY <1>1, <1>3, <2>3, LayerStepsCalm, EndsCalm, QuietCalm, TransportFiniCalm DEF shut_step
    <3> QED
      BY <1>1, <3>1, CalmKeeps
  <2> QED
    BY <2>1, <2>2, <2>3
<1>4. ASSUME NEW p \in PEs, fault(p) \/ kill(p) PROVE LifecycleInv'
  <2>1. CASE parse_fails(p)
    <3>1. CASE Goto(p, "refused") /\ job' = job
      <4>1. Goes(p) /\ Calm(p)
        BY <1>1, <2>1, <3>1, PassCalm DEF parse_fails, At, rtVars, Passes
      <4> QED
        BY <1>1, <4>1, CalmKeeps
    <3>2. CASE Goto(p, "aborted") /\ job' = "aborted"
      BY <1>1, <2>1, <3>2, FaultsKeep
    <3> QED
      BY <2>1, <3>1, <3>2 DEF parse_fails
  <2>2. CASE cleanup(p)
    <3>1. CASE Goto(p, "failed") /\ job' = job
      BY <1>1, <2>2, <3>1, CleanupCalm, CalmKeeps
    <3>2. CASE Goto(p, "aborted") /\ job' = "aborted"
      BY <1>1, <2>2, <3>2, FaultsKeep
    <3> QED
      BY <2>2, <3>1, <3>2 DEF cleanup
  <2>3. CASE (reinitialize(p) \/ global_exit(p)) /\ build.n = 1 /\ build.runtime \in {"pmi", "mpi"}
    <3>1. /\ pc[p] \in {"user", "after"} /\ runtime_abort(p)
          /\ UNCHANGED <<build, fence, up, psync, net, lost>>
      BY <2>3 DEF reinitialize, global_exit, rtVars
    <3>2. /\ flags' = [flags EXCEPT ![p].exiting = TRUE] /\ job' = job
          /\ Goto(p, IF flags[p].finalized THEN "gone" ELSE "quiet")
      BY <2>3, <3>1 DEF runtime_abort
    <3>3. flags'[p].exiting
      <4>1. p \in AllPEs /\ flags \in [AllPEs -> Flags] /\ flags[p] \in Flags
        BY <1>1, JobPEs DEF LcTypes
      <4>2. flags'[p] = [flags[p] EXCEPT !.exiting = TRUE]
        BY <3>2, <4>1
      <4> QED
        BY <4>1, <4>2 DEF Flags
    <3>4. Goto(p, IF ~ flags[p].finalized THEN "quiet"
                  ELSE IF flags'[p].exiting THEN "gone" ELSE "after")
      BY <3>2, <3>3 DEF Goto
    <3>5. Goes(p) /\ Calm(p)
      BY <1>1, <3>1, <3>2, <3>4, ShutdownCalm
    <3> QED
      BY <1>1, <3>5, CalmKeeps
  <2>4. CASE \/ kill(p)
             \/ /\ reinitialize(p) \/ global_exit(p)
                /\ ~(build.n = 1 /\ build.runtime \in {"pmi", "mpi"})
    BY <1>1, <2>4, FaultsKeep
  <2> QED
    BY <1>4, <2>1, <2>2, <2>3, <2>4 DEF fault
<1>5. ASSUME NEW p \in PEs, user_step(p) PROVE LifecycleInv'
  BY <1>1, <1>5, PutKeeps, EndsCalm, CalmKeeps DEF user_step
<1>6. ASSUME NEW m \in net, deliver(m) PROVE LifecycleInv'
  BY <1>1, <1>6, DeliverKeeps
<1>7. ASSUME NEW p \in PEs, mpi_step(p) PROVE LifecycleInv'
  BY <1>1, <1>7, LayerStepsCalm, CalmKeeps, FaultsKeep DEF mpi_step
<1>8. CASE UNCHANGED vars
  <2>1. UNCHANGED <<build, fence, pc, up, flags, psync, net, lost, job>>
    BY <1>8 DEF vars, rtVars, lcVars
  <2>2. PEs' = PEs /\ Meets' = Meets /\ \A r : kids(r)' = kids(r) /\ par(r)' = par(r)
    BY <2>1, TreeRigid
  <2>3. LcTypes' /\ LocalInv' /\ MetInv' = MetInv
    BY <1>1, <2>1, <2>2 DEF LcTypes, LocalInv, Local, LayersAt, MetInv
  <2>4. \A r : Arrived(r)' = Arrived(r) /\ (Acked(r)' <=> Acked(r)) /\ (Called(r)' <=> Called(r))
    BY <2>1, <2>2 DEF Arrived, Acked, Called, msg
  <2>5. BarrierInv => BarrierInv'
    BY <2>1, <2>2, <2>4 DEF BarrierInv, Waits, Counted, InOrder, MsgInv, msg
  <2>6. Kept => Kept'
    BY <2>1, <2>2 DEF Kept
  <2> QED
    BY <1>1, <2>1, <2>3, <2>5, <2>6 DEF LifecycleInv, Safe
<1> QED
  BY <1>2, <1>3, <1>4, <1>5, <1>6, <1>7, <1>8, NextOf

(* Hence it holds throughout. *)
LEMMA Invariant == Spec => []LifecycleInv
  BY InitHolds, StepKeeps, PTL DEF Spec

-----------------------------------------------------------------------------
(* However a program ends, a layer is released once, after the layers above *)
(* it, and a PE that has left keeps none: shmem_internal_shutdown, reached  *)
(* from shmem_finalize, the exit handler or shmem_global_exit, in any order. *)
THEOREM LayersAreNested == Spec => []LayersNested
<1>1. LifecycleInv => LayersNested
  <2> SUFFICES ASSUME LcTypes, LocalInv, NEW p \in PEs
               PROVE  /\ pc[p] \in DOMAIN Needs => Needs[pc[p]] \subseteq up[p]
                      /\ pc[p] \in {"after", "gone"} => up[p] = {}
    BY DEF LifecycleInv, LayersNested
  <2>1. up[p] \subseteq Layers /\ Local(p)
    BY JobPEs DEF LcTypes, LocalInv
  <2> USE DEF TeamPoints, ShrPoints, StartedPoints, TransportPoints, HeapPoints, RuntimePoints
  <2> USE DEF Ends
  <2>2. CASE pc[p] \in {"user", "quiet", "callin", "sync", "team_fini"}
    <3>1. /\ pc[p] \in DOMAIN Needs
          /\ Needs[pc[p]] = {"team", "started", "transport", "shr", "heap", "runtime"}
      BY <2>2 DEF Needs
    <3> QED
      BY <2>1, <2>2, <3>1 DEF Local, LayersAt
  <2>3. CASE pc[p] = "transport_fini"
    <3>1. Needs[pc[p]] = {"started", "transport", "shr", "heap", "runtime"}
      BY <2>3 DEF Needs
    <3> QED
      BY <2>1, <2>3, <3>1 DEF Local, LayersAt
  <2>4. CASE pc[p] = "shr_fini"
    <3>1. Needs[pc[p]] = {"shr", "heap", "runtime"}
      BY <2>4 DEF Needs
    <3> QED
      BY <2>1, <2>4, <3>1 DEF Local, LayersAt
  <2>5. CASE pc[p] = "heap_fini"
    <3>1. Needs[pc[p]] = {"heap", "runtime"}
      BY <2>5 DEF Needs
    <3> QED
      BY <2>1, <2>5, <3>1 DEF Local, LayersAt
  <2>6. CASE pc[p] \in {"runtime_fini", "finalizing"}
    <3>1. Needs[pc[p]] = {"runtime"}
      BY <2>6 DEF Needs
    <3> QED
      BY <2>1, <2>6, <3>1 DEF Local, LayersAt
  <2>7. CASE pc[p] \in {"after", "gone"}
    <3>1. pc[p] \notin DOMAIN Needs
      BY <2>7 DEF Needs
    <3>2. up[p] = {}
      BY <2>1, <2>7 DEF Local, LayersAt, Layers
    <3> QED
      BY <3>1, <3>2
  <2> QED
    BY <2>2, <2>3, <2>4, <2>5, <2>6, <2>7 DEF Needs
<1> QED
  BY <1>1, Invariant, PTL

(* No PE releases a layer in shmem_internal_shutdown while another has yet  *)
(* to call it or has puts on the default context under way, whatever the    *)
(* runtime, the number of PEs and, of the linear one and the tree, the      *)
(* barrier: the barrier of the shutdown is enough.                          *)
THEOREM ReleaseWaitsForAll == Spec => []ReleasedAfterAll
<1>1. LifecycleInv => ReleasedAfterAll
  <2> SUFFICES ASSUME LcTypes, LocalInv, Safe, NEW p \in PEs, pc[p] \in Leaving
               PROVE  /\ \A q \in PEs : pc[q] \in Finishing
                      /\ \A m \in net : covered(m) => m.kind \in {"arrive", "ack"}
    BY DEF LifecycleInv, ReleasedAfterAll
  <2>1. \A q \in PEs : pc[q] \in {"sync"} \cup Left
    BY AllCalled DEF Safe, BarrierInv, Left
  <2>2. \A m \in net : Quieted(m) => m.from \in PEs /\ pc[m.from] \in {"user", "quiet"}
    BY MessageIs DEF Safe, BarrierInv, MsgInv
  <2> QED
    BY <2>1, <2>2, MessageIs DEF Finishing, Left, Leaving, Kinds
<1> QED
  BY <1>1, Invariant, PTL

(* No put on the default context, and no signal of the last barrier, is     *)
(* lost on a PE that is not up yet or not any more, or cleared by its       *)
(* shmem_internal_collectives_init, in a job of one PE or under PMI or MPI: *)
(* a PMIx build has no barrier at the end of shmem_internal_init, PMI2 only *)
(* a fence.                                                                 *)
THEOREM NothingIsLost == Spec => []NothingLost
<1>1. LifecycleInv => NothingLost
  <2>1. ASSUME LcTypes, InitWaits PROVE build.n = 1 \/ Meets
    BY <2>1, JobPEs DEF InitWaits, Meets
  <2> QED
    BY <2>1 DEF LifecycleInv, Safe, Kept, NothingLost
<1> QED
  BY <1>1, Invariant, PTL

-----------------------------------------------------------------------------
(* What a PE learns about the others.                                      *)

(* The exchange of a single PE under PMI or MPI does nothing. *)
Solo   == build.n = 1 /\ build.runtime \in {"pmi", "mpi"}
(* A table of node ranks is asked for and kept. *)
Ranked == build.ranks /\ ~ Solo

(* The keys of all layers. *)
KeyNames == {"fi_heap_key", "fi_data_key", "fi_heap_addr", "fi_data_addr", "fi_epname",
             "portals4-procid", "portals4-bases",
             "addr_len", "addr0", "addr1", "addr2", "data_rkey_len", "data_rkey", "data_base",
             "heap_rkey_len", "heap_rkey", "heap_base", "xpmem-segids", "cma-procid",
             "hostname_len", "hostname"}

(* What a PE publishes before the exchange, and the host name in it. *)
Keys(p)  == transport_publish(p) \o shr_publish
HostKeys == IF build.runtime \in {"pmi", "pmi2"} /\ Ranked THEN Range(put_hostname) ELSE {}

(* The entries of p under some keys. *)
Entries(p, keys) == {entry(p, k) : k \in keys}

(* p's entries are where the others look for them. *)
Published(p) ==
  IF build.runtime = "mpi" THEN kv[p] = Keys(p)
  ELSE Entries(p, Range(Keys(p)) \cup HostKeys) \subseteq server

(* p has entered the exchange. *)
Past(p) == IF Solo THEN pc[p] \in Mid ELSE fence[p] >= 1

(* What p has put by then. *)
SoFar(p) == IF pc[p] = "sinit" THEN transport_publish(p)
            ELSE IF pc[p] = "exchange" THEN Keys(p) ELSE <<>>

(* Fences and entries up to the exchange, and what it leaves behind. *)
FenceAt(p) ==
  /\ pc[p] \in Early => fence[p] = 0
  /\ ~ Solo /\ pc[p] \in Mid => fence[p] = 1
(* What p has put is with the server (PMI) or waits for its commit. *)
PutAt(p) ==
  pc[p] \in Early =>
    IF build.runtime = "pmi" THEN Entries(p, Range(SoFar(p))) \subseteq server
    ELSE kv[p] = SoFar(p)
(* runtime_init decides whether there is a table of node ranks. *)
AllocAt(p) ==
  /\ node[p].alloc => Ranked
  /\ pc[p] \in {"heap", "tinit", "sinit", "exchange"} \cup Mid => (node[p].alloc <=> Ranked)
(* Who has entered the exchange has published all there is of it. *)
PastAt(p) == Past(p) => Published(p)
(* Who is out of the exchange is so after everybody has entered it. *)
SeenAt(p) == pc[p] \in {"tstart", "sstart"} => \A q \in PEs : Past(q)

(* The bases are compared before p goes on; the last fence is after that. *)
CheckedAt(p) == pc[p] \in {"sstart", "coll", "team", "ready"} \/ fence[p] >= 2 => same_base(p)

(* The node ranks, from the exchange on, and the table made of them. *)
RanksAt(p) ==
  Ranked /\ (\/ pc[p] \in {"tstart", "sstart"} \cup ShrPoints
             \/ pc[p] = "exchanged" /\ build.runtime \in {"pmix", "mpi"}) =>
    node[p].rank = local_ranks(p)
(* The table of the on-node transport is made of these ranks. *)
TableAt(p) ==
  pc[p] \in ShrPoints /\ build.shr # "none" => peers[p] = xpmem_startup(p)

(* Host names are told apart, as populate_node compares them. *)
Distinct ==
  build.runtime \in {"pmi", "pmi2"} =>
    \A p, q \in PEs : IsPrefix(Host[q], Host[p]) => Host[q] = Host[p]

(* Types, and the whole of it. *)
StartTypes ==
  /\ kv \in [AllPEs -> Seq(KeyNames)]
  /\ node = [p \in AllPEs |-> [alloc |-> node[p].alloc, rank |-> node[p].rank]]
  /\ \A p \in AllPEs : node[p].alloc \in BOOLEAN
  /\ peers = [p \in AllPEs |-> peers[p]]

Learns(p) ==
  /\ FenceAt(p) /\ PutAt(p) /\ AllocAt(p) /\ PastAt(p) /\ SeenAt(p) /\ CheckedAt(p)
  /\ Distinct => RanksAt(p) /\ TableAt(p)

StartInv ==
  /\ StartTypes
  /\ \A p \in PEs : Learns(p)
  /\ Meets => \A p, q \in PEs : pc[p] \in Up => fence[q] >= 2

(* The job does not change, nor what follows from it. *)
LEMMA StartRigid ==
  ASSUME build' = build
  PROVE  /\ PEs' = PEs /\ (Solo' <=> Solo) /\ (Ranked' <=> Ranked) /\ (Meets' <=> Meets)
         /\ (Distinct' <=> Distinct) /\ HostKeys' = HostKeys /\ shr_publish' = shr_publish
         /\ \A p : transport_publish(p)' = transport_publish(p)
         /\ \A p : Keys(p)' = Keys(p)
         /\ \A p : local_ranks(p)' = local_ranks(p)
<1>1. PEs' = PEs /\ (Solo' <=> Solo) /\ (Ranked' <=> Ranked) /\ (Meets' <=> Meets)
  BY DEF PEs, Solo, Ranked, Meets
<1>2. (Distinct' <=> Distinct) /\ HostKeys' = HostKeys
  BY <1>1 DEF Distinct, HostKeys
<1>3. shr_publish' = shr_publish
  BY DEF shr_publish
<1>4. ASSUME NEW p PROVE transport_publish(p)' = transport_publish(p)
  BY DEF transport_publish, ofi_publish, publish_mr_info, portals4_publish, ucx_publish,
         addr_chunks
<1>5. \A p : Keys(p)' = Keys(p)
  BY <1>3, <1>4 DEF Keys
<1>6. \A p : local_ranks(p)' = local_ranks(p)
  BY <1>1 DEF local_ranks
<1> QED
  BY <1>1, <1>2, <1>3, <1>4, <1>5, <1>6

(* What is published is a sequence of keys. *)
LEMMA KeysAre ==
  ASSUME LcTypes, NEW p \in PEs
  PROVE  /\ transport_publish(p) \in Seq(KeyNames) /\ shr_publish \in Seq(KeyNames)
         /\ Keys(p) \in Seq(KeyNames)
<1>1. /\ build.transport \in {"ofi", "portals4", "ucx"} /\ build.shr \in {"none", "xpmem", "cma"}
      /\ build.chunks[p] \in 1 .. 3
  BY LifecycleAssumption DEF LcTypes, PEs
<1>2. shr_publish \in Seq(KeyNames)
  <2>1. <<"xpmem-segids">> \in Seq(KeyNames) /\ <<"cma-procid">> \in Seq(KeyNames)
        /\ <<>> \in Seq(KeyNames)
    BY DEF KeyNames
  <2>2. CASE build.shr = "xpmem"
    BY <2>1, <2>2 DEF shr_publish, xpmem_publish
  <2>3. CASE build.shr = "cma"
    BY <2>1, <2>3 DEF shr_publish, cma_publish
  <2>4. CASE build.shr = "none"
    BY <2>1, <2>4 DEF shr_publish
  <2> QED
    BY <1>1, <2>2, <2>3, <2>4
<1>3. ofi_publish \in Seq(KeyNames)
  <2>1. /\ <<"fi_heap_key", "fi_data_key">> \in Seq(KeyNames)
        /\ <<"fi_heap_addr", "fi_data_addr">> \in Seq(KeyNames)
        /\ <<"fi_epname">> \in Seq(KeyNames) /\ <<>> \in Seq(KeyNames)
    BY DEF KeyNames
  <2>2. publish_mr_info \in Seq(KeyNames)
    BY <2>1 DEF publish_mr_info
  <2> QED
    BY <2>1, <2>2 DEF ofi_publish, publish_av_info
<1>4. portals4_publish \in Seq(KeyNames)
  <2>1. /\ <<"portals4-procid">> \in Seq(KeyNames) /\ <<"portals4-bases">> \in Seq(KeyNames)
        /\ <<>> \in Seq(KeyNames)
    BY DEF KeyNames
  <2> QED
    BY <2>1 DEF portals4_publish
<1>5. ucx_publish(p) \in Seq(KeyNames)
  <2>1. addr_chunks(p) \in Seq(KeyNames)
    <3> DEFINE s == <<"addr0", "addr1", "addr2">>
    <3>1. s \in Seq(KeyNames) /\ Len(s) = 3
      BY DEF KeyNames
    <3> HIDE DEF s
    <3>2. PICK n \in 1 .. 3 : n = build.chunks[p]
      BY <1>1
    <3>3. \A i \in 1 .. n : s[i] \in KeyNames
      BY <3>1
    <3>4. SubSeq(s, 1, n) \in Seq(KeyNames)
      BY <3>1, <3>3, SubSeqProperties
    <3> QED
      BY <3>2, <3>4 DEF addr_chunks, s
  <2>2. /\ <<"addr_len">> \in Seq(KeyNames) /\ <<"data_rkey_len", "data_rkey">> \in Seq(KeyNames)
        /\ <<"heap_rkey_len", "heap_rkey">> \in Seq(KeyNames)
        /\ <<"data_base">> \in Seq(KeyNames) /\ <<"heap_base">> \in Seq(KeyNames)
        /\ <<>> \in Seq(KeyNames)
    BY DEF KeyNames
  <2> QED
    BY <2>1, <2>2 DEF ucx_publish
<1>6. transport_publish(p) \in Seq(KeyNames)
  BY <1>1, <1>3, <1>4, <1>5 DEF transport_publish
<1> QED
  BY <1>2, <1>6 DEF Keys

(* The keys of two sequences put one after the other. *)
LEMMA RangeOfBoth ==
  ASSUME NEW s \in Seq(KeyNames), NEW t \in Seq(KeyNames)
  PROVE  Range(s \o t) = Range(s) \cup Range(t)
<1>1. Range(s \o t) \subseteq Range(s) \cup Range(t)
  BY DEF Range
<1>2. Range(s) \subseteq Range(s \o t)
  BY DEF Range
<1>3. Range(t) \subseteq Range(s \o t)
  <2> SUFFICES ASSUME NEW i \in 1 .. Len(t) PROVE t[i] \in Range(s \o t)
    BY DEF Range
  <2>1. Len(s) + i \in 1 .. Len(s \o t) /\ (s \o t)[Len(s) + i] = t[i]
    OBVIOUS
  <2> QED
    BY <2>1 DEF Range
<1> QED
  BY <1>1, <1>2, <1>3

(* A step of p, and what it has to see to. *)
Others(p) ==
  \A q \in AllPEs \ {p} : /\ pc'[q] = pc[q] /\ fence'[q] = fence[q] /\ node'[q] = node[q]
                          /\ kv'[q] = kv[q] /\ peers'[q] = peers[q]

(* It is enough to look at the PE that moves. *)
LEMMA StepLearns ==
  ASSUME LcTypes, LcTypes', StartInv, NEW p \in PEs, build' = build, base' = base,
         Others(p), StartTypes', server \subseteq server', fence[p] <= fence'[p], Learns(p)',
         Meets /\ pc'[p] \in Up => pc[p] \in Up \/ \A q \in PEs : fence[q] >= 2
  PROVE  StartInv'
<1>1. /\ PEs' = PEs /\ (Solo' <=> Solo) /\ (Ranked' <=> Ranked) /\ (Meets' <=> Meets)
      /\ (Distinct' <=> Distinct) /\ HostKeys' = HostKeys /\ shr_publish' = shr_publish
      /\ \A q : transport_publish(q)' = transport_publish(q)
      /\ \A q : Keys(q)' = Keys(q)
      /\ \A q : local_ranks(q)' = local_ranks(q)
  BY StartRigid
<1>2. PEs \subseteq AllPEs /\ PEs = 0 .. build.n - 1
  BY JobPEs DEF PEs
<1>3. \A q \in PEs : fence[q] \in Nat /\ fence'[q] \in Nat /\ fence[q] <= fence'[q]
  BY <1>2 DEF Others, LcTypes
<1>4. \A q \in PEs : ~ Solo /\ Past(q) => Past(q)'
  BY <1>1, <1>3 DEF Past
<1>5. ASSUME NEW q \in PEs, q # p PROVE Learns(q)'
  <2>1. /\ Learns(q) /\ pc'[q] = pc[q] /\ fence'[q] = fence[q] /\ node'[q] = node[q]
        /\ kv'[q] = kv[q] /\ peers'[q] = peers[q]
    BY <1>2, <1>5 DEF StartInv, Others
  <2>2. ~ Solo
    BY <1>2, <1>5 DEF Solo
  <2>3. FenceAt(q)' /\ AllocAt(q)'
    BY <1>1, <2>1 DEF Learns, FenceAt, AllocAt
  <2>4. SoFar(q)' = SoFar(q)
    BY <1>1, <2>1 DEF SoFar
  <2>5. Entries(q, Range(SoFar(q)))' = Entries(q, Range(SoFar(q)))
    BY <2>4 DEF Entries, entry
  <2>6. PutAt(q)'
    BY <2>1, <2>4, <2>5 DEF Learns, PutAt
  <2>7. Entries(q, Range(Keys(q)) \cup HostKeys)' = Entries(q, Range(Keys(q)) \cup HostKeys)
    BY <1>1 DEF Entries, entry
  <2>8. Published(q) => Published(q)'
    BY <1>1, <2>1, <2>7 DEF Published
  <2>9. PastAt(q)'
    BY <1>1, <2>1, <2>8 DEF Learns, PastAt, Past
  <2>10. SeenAt(q)'
    BY <1>1, <1>4, <2>1, <2>2 DEF Learns, SeenAt
  <2>11. CheckedAt(q)'
    BY <2>1 DEF Learns, CheckedAt, same_base, neighbour
  <2>12. RanksAt(q) => RanksAt(q)'
    BY <1>1, <2>1 DEF RanksAt
  <2>13. xpmem_startup(q)' = xpmem_startup(q)
    BY <1>1, <2>1 DEF xpmem_startup, get_node_size, get_node_rank, on_node
  <2>14. TableAt(q) => TableAt(q)'
    BY <2>1, <2>13 DEF TableAt
  <2> QED
    BY <1>1, <2>1, <2>3, <2>6, <2>9, <2>10, <2>11, <2>12, <2>14 DEF Learns
<1>6. Meets' => \A r, q \in PEs : pc'[r] \in Up => fence'[q] >= 2
  <2> SUFFICES ASSUME Meets, NEW r \in PEs, NEW q \in PEs, pc'[r] \in Up PROVE fence'[q] >= 2
    BY <1>1
  <2>1. pc[r] \in Up \/ fence[q] >= 2
    BY <1>2 DEF Others
  <2> QED
    BY <1>3, <2>1 DEF StartInv
<1> QED
  BY <1>1, <1>5, <1>6 DEF StartInv

(* A step that publishes nothing, learns nothing and enters no fence. *)
IdleMoves ==
  {<<"out", "runtime">>, <<"out", "refused">>, <<"heap", "tinit">>, <<"tstart", "sstart">>,
   <<"coll", "team">>, <<"team", "ready">>, <<"ready", "user">>, <<"barrier", "user">>,
   <<"user", "quiet">>, <<"user", "after">>, <<"user", "gone">>, <<"after", "gone">>,
   <<"quiet", "callin">>, <<"quiet", "sync">>, <<"callin", "sync">>, <<"sync", "team_fini">>,
   <<"team_fini", "transport_fini">>, <<"transport_fini", "shr_fini">>,
   <<"heap_fini", "runtime_fini">>, <<"runtime_fini", "finalizing">>,
   <<"runtime_fini", "after">>, <<"runtime_fini", "gone">>, <<"finalizing", "after">>,
   <<"finalizing", "gone">>}

(* Such a move, and what two of the moves depend on. *)
Idles(p) ==
  /\ UNCHANGED <<build, base, kv, server, fence, node, peers>>
  /\ \A q \in AllPEs \ {p} : pc'[q] = pc[q]
  /\ pc'[p] \in {pc[p]} \cup Ends \/ <<pc[p], pc'[p]>> \in IdleMoves
  /\ pc[p] = "tstart" /\ pc'[p] = "sstart" => same_base(p)
  /\ Meets /\ pc'[p] \in Up => pc[p] \in Up \/ (pc[p] = "barrier" /\ fence_out(p))

(* It keeps what everybody knows. *)
LEMMA IdleLearns ==
  ASSUME LcTypes, LcTypes', LocalInv, StartInv, NEW p \in PEs, Idles(p)
  PROVE  StartInv'
<1>1. /\ PEs' = PEs /\ (Solo' <=> Solo) /\ (Ranked' <=> Ranked) /\ (Meets' <=> Meets)
      /\ (Distinct' <=> Distinct) /\ HostKeys' = HostKeys /\ shr_publish' = shr_publish
      /\ \A q : transport_publish(q)' = transport_publish(q)
      /\ \A q : Keys(q)' = Keys(q)
      /\ \A q : local_ranks(q)' = local_ranks(q)
  BY StartRigid DEF Idles
<1>2. p \in AllPEs /\ Learns(p) /\ PEs \subseteq AllPEs
  BY JobPEs DEF StartInv
<1>3. UNCHANGED <<build, base, kv, server, fence, node, peers>>
  BY DEF Idles
<1>4. Others(p) /\ StartTypes'
  BY <1>3 DEF Others, StartTypes, StartInv, Idles
<1>5. Meets /\ pc'[p] \in Up => pc[p] \in Up \/ \A q \in PEs : fence[q] >= 2
  <2> SUFFICES ASSUME Meets, pc[p] = "barrier", fence_out(p) PROVE \A q \in PEs : fence[q] >= 2
    BY DEF Idles
  <2>1. fence[p] = 2
    BY DEF LocalInv, Local, Entered, Early, Mid, Ends
  <2> QED
    BY <2>1 DEF fence_out
<1>6. /\ pc'[p] \in Early => pc[p] \in Early
      /\ pc'[p] \in Mid => pc[p] \in Mid
      /\ pc'[p] \in Early /\ pc'[p] # pc[p] =>
           pc[p] \notin {"sinit", "exchange"} /\ pc'[p] \notin {"sinit", "exchange"}
      /\ pc'[p] \in {"heap", "tinit", "sinit", "exchange"} =>
           pc[p] \in {"heap", "tinit", "sinit", "exchange"}
      /\ pc'[p] \in {"tstart", "sstart"} => pc[p] \in {"tstart", "sstart"}
      /\ pc'[p] \in {"sstart", "coll", "team", "ready"} =>
           pc[p] \in {"sstart", "coll", "team", "ready"} \/ same_base(p)
      /\ pc'[p] = "exchanged" => pc[p] = "exchanged"
      /\ pc'[p] \in ShrPoints => pc[p] \in ShrPoints
  <2>1. CASE pc'[p] \in {pc[p]} \cup Ends
    BY <2>1 DEF Ends, Early, Mid, ShrPoints, TeamPoints
  <2>2. CASE <<pc[p], pc'[p]>> \in IdleMoves
    BY <2>2 DEF Idles, IdleMoves, Early, Mid, ShrPoints, TeamPoints
  <2> QED
    BY <2>1, <2>2 DEF Idles
<1>7. Learns(p)'
  <2>1. FenceAt(p)' /\ AllocAt(p)'
    BY <1>1, <1>2, <1>3, <1>6 DEF Learns, FenceAt, AllocAt
  <2>2. PutAt(p)'
    <3> SUFFICES ASSUME pc'[p] \in Early PROVE PutAt(p)'
      BY DEF PutAt
    <3>1. SoFar(p)' = SoFar(p)
      BY <1>1, <1>6 DEF SoFar
    <3>2. Entries(p, Range(SoFar(p)))' = Entries(p, Range(SoFar(p)))
      BY <3>1 DEF Entries, entry
    <3> QED
      BY <1>2, <1>3, <1>6, <3>1, <3>2 DEF Learns, PutAt
  <2>3. Published(p) => Published(p)'
    <3>1. Entries(p, Range(Keys(p)) \cup HostKeys)' = Entries(p, Range(Keys(p)) \cup HostKeys)
      BY <1>1 DEF Entries, entry
    <3> QED
      BY <1>1, <1>3, <3>1 DEF Published
  <2>4. PastAt(p)'
    BY <1>1, <1>2, <1>3, <1>6, <2>3 DEF Learns, PastAt, Past
  <2>5. SeenAt(p)'
    <3> SUFFICES ASSUME pc'[p] \in {"tstart", "sstart"}, NEW q \in PEs PROVE Past(q)'
      BY <1>1 DEF SeenAt
    <3>1. Past(q)
      BY <1>2, <1>6 DEF Learns, SeenAt
    <3>2. CASE Solo
      <4>1. p = q
        BY <3>2, JobPEs DEF Solo, PEs
      <4> QED
        BY <1>1, <3>2, <4>1 DEF Past, Mid
    <3> QED
      BY <1>1, <1>3, <3>1, <3>2 DEF Past
  <2>6. CheckedAt(p)'
    BY <1>2, <1>3, <1>6 DEF Learns, CheckedAt, same_base, neighbour
  <2>7. RanksAt(p) => RanksAt(p)'
    BY <1>1, <1>3, <1>6 DEF RanksAt
  <2>8. xpmem_startup(p)' = xpmem_startup(p)
    BY <1>1, <1>3 DEF xpmem_startup, get_node_size, get_node_rank, on_node
  <2>9. TableAt(p) => TableAt(p)'
    BY <1>3, <1>6, <2>8 DEF TableAt
  <2> QED
    BY <1>1, <1>2, <2>1, <2>2, <2>4, <2>5, <2>6, <2>7, <2>9 DEF Learns
<1> QED
  <2>1. build' = build /\ base' = base /\ server \subseteq server' /\ fence[p] <= fence'[p]
    BY <1>2, <1>3 DEF LcTypes
  <2> QED
    BY <1>4, <1>5, <1>7, <2>1, StepLearns

(* The steps of that kind. *)
LEMMA MoveIdles ==
  ASSUME LcTypes, NEW p \in PEs, NEW l \in Points, Goto(p, l), UNCHANGED <<build, rtVars, base, peers>>,
         l \in Ends \/ <<pc[p], l>> \in IdleMoves,
         pc[p] = "tstart" => l \in Ends \/ same_base(p),
         pc[p] = "ready" /\ l = "user" => ~ Meets,
         Meets /\ pc[p] = "barrier" /\ l = "user" => fence_out(p)
  PROVE  Idles(p)
<1>1. pc'[p] = l /\ \A q \in AllPEs \ {p} : pc'[q] = pc[q]
  BY GotoIs
<1>2. UNCHANGED <<build, base, kv, server, fence, node, peers>>
  BY DEF rtVars
<1>3. l \in Up => pc[p] \in Up \cup {"barrier", "ready"}
  BY DEF IdleMoves, Up, Left, Leaving, Ends
<1>4. l \in Up /\ pc[p] \in {"barrier", "ready"} => l = "user"
  BY DEF IdleMoves, Up, Left, Leaving, Ends
<1>5. l \in Ends => l \notin Up /\ l # "sstart"
  BY DEF Up, Left, Leaving, Ends
<1> QED
  BY <1>1, <1>2, <1>3, <1>4, <1>5 DEF Idles

(* The steps of shmem_internal_init that touch neither runtime nor tables. *)
LEMMA StartIdles ==
  ASSUME LcTypes, NEW p \in PEs,
         \/ start(p) \/ init_heap(p) \/ transport_startup(p) \/ collectives_init(p)
         \/ team_init(p) \/ init_return(p) \/ (init_ready(p) /\ build.runtime = "pmix")
  PROVE  Idles(p)
<1> USE DEF At, IdleMoves
<1>p. {"runtime", "tinit", "sstart", "team", "ready", "user"} \subseteq Points
  BY DEF Points, Early, Mid, Up, Left, Leaving
<1>1. CASE start(p)
  BY <1>1, <1>p, MoveIdles DEF start
<1>2. CASE init_heap(p)
  BY <1>2, <1>p, MoveIdles DEF init_heap
<1>3. CASE transport_startup(p)
  BY <1>3, <1>p, MoveIdles DEF transport_startup
<1>4. CASE collectives_init(p)
  BY <1>4, <1>p, MoveIdles DEF collectives_init
<1>5. CASE team_init(p)
  BY <1>5, <1>p, MoveIdles DEF team_init
<1>6. CASE init_return(p)
  <2>1. Meets => fence_out(p)
    BY <1>6 DEF init_return, barrier_out, Meets
  <2> QED
    BY <1>6, <1>p, <2>1, MoveIdles DEF init_return
<1>7. CASE init_ready(p) /\ build.runtime = "pmix"
  <2>1. ~ Meets
    BY <1>7 DEF Meets
  <2> QED
    BY <1>7, <1>p, <2>1, MoveIdles DEF init_ready
<1> QED
  BY <1>1, <1>2, <1>3, <1>4, <1>5, <1>6, <1>7

(* The end of a PE, in whatever way, and its user operations. *)
LEMMA EndIdles ==
  ASSUME LcTypes, LocalInv, NEW p \in PEs,
         \/ fault(p) \/ kill(p) \/ user_step(p) \/ mpi_step(p)
         \/ shut_step(p) /\ ~ shr_transport_fini(p)
  PROVE  Idles(p)
<1> USE DEF At, IdleMoves
<1>p. /\ {"refused", "aborted", "failed", "gone", "after", "quiet", "callin", "sync", "team_fini",
          "transport_fini", "shr_fini", "runtime_fini", "finalizing"} \subseteq Points
      /\ {"failed", "aborted"} \subseteq Ends
  BY DEF Points, Early, Mid, Up, Left, Leaving, Ends
<1>f. /\ pc[p] = "user" => flags[p].initialized /\ ~ flags[p].finalized
      /\ pc[p] = "after" => flags[p].initialized /\ flags[p].finalized
  BY DEF LocalInv, Local, Left, Leaving
<1>1. CASE parse_fails(p)
  BY <1>1, <1>p, MoveIdles DEF parse_fails
<1>2. CASE cleanup(p)
  <2>1. PICK l \in {"failed", "aborted"} : Goto(p, l)
    BY <1>2 DEF cleanup
  <2> QED
    BY <1>2, <1>p, <2>1, MoveIdles DEF cleanup
<1>3. CASE reinitialize(p) \/ global_exit(p)
  <2>1. /\ pc[p] \in {"user", "after"} /\ runtime_abort(p)
        /\ UNCHANGED <<build, rtVars, base, peers>>
    BY <1>3 DEF reinitialize, global_exit
  <2>2. CASE Goto(p, "aborted")
    BY <1>p, <2>1, <2>2, MoveIdles
  <2>3. CASE Goto(p, IF flags[p].finalized THEN "gone" ELSE "quiet")
    <3>1. PICK l \in {"gone", "quiet"} : Goto(p, l) /\ <<pc[p], l>> \in IdleMoves
      BY <1>f, <2>1, <2>3
    <3> QED
      BY <1>p, <2>1, <3>1, MoveIdles
  <2> QED
    BY <2>1, <2>2, <2>3 DEF runtime_abort
<1>4. CASE cleanup_abort(p)
  BY <1>4, <1>p, MoveIdles DEF cleanup_abort
<1>5. CASE kill(p)
  BY <1>5, <1>p, MoveIdles DEF kill
<1>6. CASE put(p)
  <2>1. UNCHANGED <<build, base, kv, server, fence, node, peers, pc>>
    BY <1>6 DEF put, rtVars
  <2> QED
    BY <2>1 DEF Idles
<1>7. CASE finalize(p) \/ exit(p)
  <2>1. /\ pc[p] \in {"user", "after"} /\ UNCHANGED <<build, rtVars, base, peers>>
        /\ Goto(p, shutdown(p))
    BY <1>7 DEF finalize, exit
  <2>2. /\ shutdown(p) \in {"quiet", "gone", "after"}
        /\ pc[p] = "user" => shutdown(p) = "quiet"
        /\ pc[p] = "after" => shutdown(p) # "quiet"
    BY <1>f, <2>1 DEF shutdown
  <2>3. CASE pc[p] = "after" /\ shutdown(p) = "after"
    <3>1. pc' = [pc EXCEPT ![p] = "after"]
      BY <2>1, <2>3 DEF Goto
    <3>2. p \in AllPEs /\ \A q \in AllPEs : pc'[q] = pc[q]
      BY <2>3, <3>1, JobPEs DEF LcTypes
    <3>3. UNCHANGED <<build, base, kv, server, fence, node, peers>>
      BY <2>1 DEF rtVars
    <3> QED
      BY <3>2, <3>3, <2>3 DEF Idles
  <2>4. CASE ~(pc[p] = "after" /\ shutdown(p) = "after")
    <3>1. PICK l \in {"quiet", "gone", "after"} : l = shutdown(p)
      BY <2>2
    <3>2. Goto(p, l) /\ <<pc[p], l>> \in IdleMoves
      BY <2>1, <2>2, <2>4, <3>1
    <3> QED
      BY <1>p, <2>1, <3>2, MoveIdles
  <2> QED
    BY <2>3, <2>4
<1>8. CASE barrier_quiet(p) \/ callin(p)
  <2>1. /\ pc[p] \in {"quiet", "callin"} /\ UNCHANGED <<build, rtVars, base, peers>>
        /\ \E l \in {"callin", "sync"} : Goto(p, l) /\ <<pc[p], l>> \in IdleMoves
    BY <1>8 DEF barrier_quiet, callin
  <2> QED
    BY <1>p, <2>1, MoveIdles
<1>9. CASE barrier_sync(p)
  BY <1>9, <1>p, MoveIdles DEF barrier_sync
<1>10. CASE team_fini(p)
  BY <1>10, <1>p, MoveIdles DEF team_fini
<1>11. CASE transport_fini(p)
  BY <1>11, <1>p, MoveIdles DEF transport_fini
<1>12. CASE heap_fini(p)
  BY <1>12, <1>p, MoveIdles DEF heap_fini
<1>13. CASE runtime_fini(p) \/ runtime_fini_done(p)
  <2>1. /\ pc[p] \in {"runtime_fini", "finalizing"} /\ UNCHANGED <<build, rtVars, base, peers>>
        /\ \E l \in {"finalizing", "after", "gone"} : Goto(p, l) /\ <<pc[p], l>> \in IdleMoves
    BY <1>13 DEF runtime_fini, runtime_fini_done, released
  <2> QED
    BY <1>p, <2>1, MoveIdles
<1> QED
  BY <1>1, <1>2, <1>3, <1>4, <1>5, <1>6, <1>7, <1>8, <1>9, <1>10, <1>11, <1>12, <1>13
     DEF fault, user_step, shut_step, mpi_step

(* Up to the exchange, what matters is what has been put. *)
LEMMA EarlyLearns ==
  ASSUME LcTypes, LcTypes', StartInv, NEW p \in PEs, build' = build, base' = base,
         Others(p), StartTypes', server \subseteq server', fence' = fence,
         pc[p] \in Early, pc'[p] \in Early, PutAt(p)', AllocAt(p)'
  PROVE  StartInv'
<1>1. /\ PEs' = PEs /\ (Solo' <=> Solo)
  BY StartRigid
<1>2. p \in AllPEs /\ fence[p] = 0 /\ fence'[p] = 0
  BY JobPEs DEF StartInv, Learns, FenceAt
<1>3. /\ pc'[p] \notin Mid \cup Up \cup ShrPoints
      /\ pc'[p] \notin {"exchanged", "tstart", "sstart", "coll", "team", "ready"}
  BY DEF Early, Mid, Up, Left, Leaving, ShrPoints, TeamPoints
<1>4. FenceAt(p)' /\ PastAt(p)' /\ SeenAt(p)' /\ CheckedAt(p)' /\ RanksAt(p)' /\ TableAt(p)'
  BY <1>1, <1>2, <1>3 DEF FenceAt, PastAt, Past, SeenAt, CheckedAt, RanksAt, TableAt
<1>5. Learns(p)'
  BY <1>4 DEF Learns
<1> QED
  BY <1>2, <1>3, <1>5, StepLearns

(* shmem_runtime_init. *)
LEMMA InitRuntimeLearns ==
  ASSUME LcTypes, LcTypes', StartInv, NEW p \in PEs, init_runtime(p)
  PROVE  StartInv'
<1>1. /\ UNCHANGED <<build, base, kv, server, fence, peers>> /\ pc[p] = "runtime"
      /\ Goto(p, "heap") /\ runtime_init(p)
  BY DEF init_runtime, At
<1>2. /\ p \in AllPEs /\ build.runtime \in {"pmi", "pmi2", "pmix", "mpi"}
      /\ build.n \in Nat \ {0} /\ build.ranks \in BOOLEAN
  BY JobPEs, LifecycleAssumption DEF LcTypes
<1>3. pc'[p] = "heap" /\ \A q \in AllPEs \ {p} : pc'[q] = pc[q]
  <2>1. "heap" \in Points
    BY DEF Points, Early
  <2> QED
    BY <1>1, <2>1, GotoIs
<1>4. node' = [node EXCEPT ![p].alloc = Ranked]
  <2>1. (build.n > 1 /\ build.ranks) = Ranked \/ build.runtime \notin {"pmi", "mpi"}
    BY <1>2 DEF Ranked, Solo
  <2>2. build.ranks = Ranked \/ build.runtime \in {"pmi", "mpi"}
    BY <1>2 DEF Ranked, Solo
  <2> QED
    BY <1>1, <1>2, <2>1, <2>2 DEF runtime_init, pmi_init, pmi2_init, pmix_init, mpi_init
<1>5. Ranked \in BOOLEAN
  BY DEF Ranked
<1>6. /\ node'[p].alloc = Ranked /\ \A q \in AllPEs \ {p} : node'[q] = node[q]
      /\ node' = [q \in AllPEs |-> [alloc |-> node'[q].alloc, rank |-> node'[q].rank]]
      /\ \A q \in AllPEs : node'[q].alloc \in BOOLEAN
  <2>1. node = [q \in AllPEs |-> [alloc |-> node[q].alloc, rank |-> node[q].rank]]
        /\ \A q \in AllPEs : node[q].alloc \in BOOLEAN
    BY DEF StartInv, StartTypes
  <2> QED
    BY <1>2, <1>4, <1>5, <2>1
<1>7. Others(p) /\ StartTypes'
  BY <1>1, <1>3, <1>6 DEF Others, StartTypes, StartInv
<1>8. Ranked' <=> Ranked
  BY <1>1, StartRigid
<1>9. AllocAt(p)'
  BY <1>6, <1>8 DEF AllocAt
<1>10. PutAt(p)'
  <2>1. SoFar(p) = <<>> /\ SoFar(p)' = <<>>
    BY <1>1, <1>3 DEF SoFar
  <2>2. Entries(p, Range(SoFar(p)))' = Entries(p, Range(SoFar(p)))
    BY <2>1 DEF Entries, entry
  <2>3. pc[p] \in Early
    BY <1>1 DEF Early
  <2> QED
    BY <1>1, <2>1, <2>2, <2>3 DEF StartInv, Learns, PutAt
<1>11. pc[p] \in Early /\ pc'[p] \in Early
  BY <1>1, <1>3 DEF Early
<1> QED
  BY <1>1, <1>7, <1>9, <1>10, <1>11, EarlyLearns

(* What a layer puts is there for p to commit, or already with the server. *)
LEMMA PutIs ==
  ASSUME LcTypes, StartInv, NEW p \in PEs, NEW keys \in Seq(KeyNames), runtime_put(p, keys)
  PROVE  /\ kv' \in [AllPEs -> Seq(KeyNames)] /\ \A q \in AllPEs \ {p} : kv'[q] = kv[q]
         /\ server \subseteq server'
         /\ IF build.runtime = "pmi" THEN kv' = kv /\ Entries(p, Range(keys)) \subseteq server'
            ELSE kv'[p] = kv[p] \o keys /\ server' = server
<1>1. p \in AllPEs /\ build.runtime \in {"pmi", "pmi2", "pmix", "mpi"}
  BY JobPEs
<1>2. kv \in [AllPEs -> Seq(KeyNames)]
  BY DEF StartInv, StartTypes
<1>3. CASE build.runtime = "pmi"
  BY <1>1, <1>2, <1>3 DEF runtime_put, pmi_put, PMI_KVS_Put, Entries
<1>4. CASE build.runtime # "pmi"
  <2>1. kv' = [kv EXCEPT ![p] = @ \o keys] /\ server' = server
    BY <1>1, <1>4 DEF runtime_put, pmi2_put, pmix_put, mpi_put
  <2>2. kv[p] \o keys \in Seq(KeyNames)
    BY <1>1, <1>2
  <2> QED
    BY <1>1, <1>2, <1>4, <2>1, <2>2
<1> QED
  BY <1>3, <1>4

(* The two layers that publish before the exchange. *)
LEMMA PutLearns ==
  ASSUME LcTypes, LcTypes', StartInv, NEW p \in PEs, transport_init(p) \/ shr_transport_init(p)
  PROVE  StartInv'
<1>1. PICK keys \in Seq(KeyNames), l \in {"sinit", "exchange"} :
        /\ UNCHANGED <<build, base, fence, node, peers>> /\ Goto(p, l) /\ runtime_put(p, keys)
        /\ \/ pc[p] = "tinit" /\ l = "sinit" /\ keys = transport_publish(p)
           \/ pc[p] = "sinit" /\ l = "exchange" /\ keys = shr_publish
  <2>1. transport_publish(p) \in Seq(KeyNames) /\ shr_publish \in Seq(KeyNames)
    BY KeysAre
  <2> QED
    BY <2>1 DEF transport_init, shr_transport_init, At
<1>2. p \in AllPEs /\ pc[p] \in Early /\ l \in Early /\ l \in Points
  BY <1>1, JobPEs DEF Points, Early
<1>3. pc'[p] = l /\ \A q \in AllPEs \ {p} : pc'[q] = pc[q]
  BY <1>1, <1>2, GotoIs
<1>4. /\ kv' \in [AllPEs -> Seq(KeyNames)] /\ \A q \in AllPEs \ {p} : kv'[q] = kv[q]
      /\ server \subseteq server'
      /\ IF build.runtime = "pmi" THEN kv' = kv /\ Entries(p, Range(keys)) \subseteq server'
         ELSE kv'[p] = kv[p] \o keys /\ server' = server
  BY <1>1, PutIs
<1>5. Others(p) /\ StartTypes'
  BY <1>1, <1>3, <1>4 DEF Others, StartTypes, StartInv
<1>6. AllocAt(p)'
  <2>1. Ranked' <=> Ranked
    BY <1>1, StartRigid
  <2>2. AllocAt(p) /\ pc[p] \in {"heap", "tinit", "sinit", "exchange"}
    BY <1>1 DEF StartInv, Learns
  <2> QED
    BY <1>1, <2>1, <2>2 DEF AllocAt
<1>7. /\ transport_publish(p)' = transport_publish(p) /\ Keys(p)' = Keys(p)
      /\ transport_publish(p) \in Seq(KeyNames) /\ shr_publish \in Seq(KeyNames)
  BY <1>1, StartRigid, KeysAre
<1>8. /\ SoFar(p) \in Seq(KeyNames) /\ SoFar(p)' = SoFar(p) \o keys
  <2>1. CASE pc[p] = "tinit"
    <3>1. SoFar(p) = <<>> /\ SoFar(p)' = keys
      BY <1>1, <1>3, <1>7, <2>1 DEF SoFar
    <3>2. <<>> \o keys = keys /\ <<>> \in Seq(KeyNames)
      OBVIOUS
    <3> QED
      BY <3>1, <3>2
  <2>2. CASE pc[p] = "sinit"
    BY <1>1, <1>3, <1>7, <2>2 DEF SoFar, Keys
  <2> QED
    BY <1>1, <2>1, <2>2
<1>9. PutAt(p)'
  <2>1. PutAt(p)
    BY DEF StartInv, Learns
  <2>2. CASE build.runtime = "pmi"
    <3>1. Range(SoFar(p) \o keys) = Range(SoFar(p)) \cup Range(keys)
      BY <1>8, RangeOfBoth
    <3>2. Entries(p, Range(SoFar(p) \o keys)) \subseteq server'
      BY <1>2, <1>4, <2>1, <2>2, <3>1 DEF PutAt, Entries
    <3>3. Entries(p, Range(SoFar(p)))' = Entries(p, Range(SoFar(p) \o keys))
      BY <1>8 DEF Entries, entry
    <3> QED
      BY <1>1, <2>2, <3>2, <3>3 DEF PutAt
  <2>3. CASE build.runtime # "pmi"
    <3>1. kv[p] = SoFar(p)
      BY <1>2, <2>1, <2>3 DEF PutAt
    <3> QED
      BY <1>1, <1>4, <1>8, <2>3, <3>1 DEF PutAt
  <2> QED
    BY <2>2, <2>3
<1> QED
  <2>1. build' = build /\ base' = base /\ fence' = fence
    BY <1>1
  <2> QED
    BY <1>2, <1>3, <1>4, <1>5, <1>6, <1>9, <2>1, EarlyLearns

(* What the exchange of p does: its entries are out when it enters the fence. *)
LEMMA ExchangeIs ==
  ASSUME LcTypes, StartInv, NEW p \in PEs, pc[p] = "exchange", runtime_exchange(p), build' = build
  PROVE  /\ kv' = kv /\ server \subseteq server'
         /\ fence' = IF Solo THEN fence ELSE [fence EXCEPT ![p] = @ + 1]
         /\ node' = IF Ranked /\ build.runtime \in {"pmix", "mpi"}
                    THEN [node EXCEPT ![p].rank = local_ranks(p)] ELSE node
         /\ Published(p)'
<1>1. /\ p \in AllPEs /\ build.runtime \in {"pmi", "pmi2", "pmix", "mpi"}
      /\ build.n \in Nat \ {0} /\ kv \in [AllPEs -> Seq(KeyNames)]
      /\ Keys(p) \in Seq(KeyNames)
  BY JobPEs, KeysAre DEF StartInv, StartTypes
<1>2. /\ IF build.runtime = "pmi" THEN Entries(p, Range(Keys(p))) \subseteq server
         ELSE kv[p] = Keys(p)
      /\ node[p].alloc <=> Ranked
  BY DEF StartInv, Learns, PutAt, AllocAt, SoFar, Early
<1>3. Keys(p)' = Keys(p) /\ HostKeys' = HostKeys
  BY StartRigid
<1>4. put_hostname \in Seq(KeyNames) /\ <<>> \in Seq(KeyNames) /\ Range(<<>>) = {}
  <2>1. put_hostname \in Seq(KeyNames)
    BY DEF put_hostname, KeyNames
  <2> QED
    BY <2>1 DEF Range
<1>5. ASSUME NEW h \in Seq(KeyNames), commit(p, h), kv[p] = Keys(p), HostKeys \subseteq Range(h)
      PROVE  server \subseteq server'
             /\ Entries(p, Range(Keys(p)) \cup HostKeys) \subseteq server'
  <2>1. Range(kv[p] \o h) = Range(Keys(p)) \cup Range(h)
    BY <1>1, <1>5, RangeOfBoth
  <2> QED
    BY <1>5, <2>1 DEF commit, Entries
<1>6. /\ Entries(p, Range(Keys(p)) \cup HostKeys)' = Entries(p, Range(Keys(p)) \cup HostKeys)
  BY <1>3 DEF Entries, entry
<1>7. CASE Solo
  <2>1. UNCHANGED rtVars
    <3>1. CASE build.n = 1 /\ build.runtime = "pmi"
      BY <3>1 DEF runtime_exchange
    <3>2. CASE build.n = 1 /\ build.runtime = "mpi"
      BY <3>2 DEF runtime_exchange
    <3> QED
      BY <1>7, <3>1, <3>2 DEF Solo
  <2>2. ~ Ranked /\ HostKeys = {}
    BY <1>7 DEF Ranked, HostKeys
  <2>3. Published(p)'
    BY <1>2, <1>3, <1>6, <1>7, <2>1, <2>2 DEF Published, Solo, rtVars
  <2> QED
    BY <1>7, <2>1, <2>2, <2>3 DEF rtVars
<1>8. CASE ~ Solo /\ build.runtime = "pmi"
  <2>1. pmi_exchange(p)
    <3>0. build.n # 1
      BY <1>8 DEF Solo
    <3>1. ~(build.n = 1) /\ build.n > 1 /\ build.runtime = "pmi"
      BY <1>8, <3>0, JobPEs
    <3>2. build.runtime # "pmi2" /\ build.runtime # "pmix" /\ build.runtime # "mpi"
      BY <3>1
    <3>3. runtime_exchange(p) = pmi_exchange(p)
      BY <3>1, <3>2, Zenon DEF runtime_exchange
    <3> QED
      BY <3>3
  <2>2. HostKeys \subseteq Range(hostname_keys(p))
    BY <1>2, <1>8 DEF HostKeys, hostname_keys
  <2>3. server \subseteq server' /\ Entries(p, Range(Keys(p)) \cup HostKeys) \subseteq server'
    BY <1>2, <1>8, <2>1, <2>2 DEF pmi_exchange, PMI_KVS_Put, Entries
  <2>4. Published(p)'
    BY <1>6, <1>8, <2>3 DEF Published
  <2> QED
    BY <1>8, <2>1, <2>3, <2>4 DEF pmi_exchange, barrier_in
<1>9. CASE build.runtime = "pmi2"
  <2>1. pmi2_exchange(p)
    BY <1>1, <1>9 DEF runtime_exchange
  <2>2. HostKeys \subseteq Range(hostname_keys(p)) /\ hostname_keys(p) \in Seq(KeyNames)
    BY <1>2, <1>4, <1>9 DEF HostKeys, hostname_keys
  <2>3. server \subseteq server' /\ Entries(p, Range(Keys(p)) \cup HostKeys) \subseteq server'
    BY <1>2, <1>5, <1>9, <2>1, <2>2 DEF pmi2_exchange
  <2>4. Published(p)' /\ ~ Solo
    BY <1>6, <1>9, <2>3 DEF Published, Solo
  <2> QED
    BY <1>9, <2>1, <2>3, <2>4 DEF pmi2_exchange, barrier_in
<1>10. CASE build.runtime = "pmix"
  <2>1. pmix_exchange(p)
    BY <1>1, <1>10 DEF runtime_exchange
  <2>2. HostKeys = {}
    BY <1>10 DEF HostKeys
  <2>3. server \subseteq server' /\ Entries(p, Range(Keys(p)) \cup HostKeys) \subseteq server'
    BY <1>2, <1>4, <1>5, <1>10, <2>1, <2>2 DEF pmix_exchange
  <2>4. Published(p)' /\ ~ Solo
    BY <1>6, <1>10, <2>3 DEF Published, Solo
  <2> QED
    BY <1>2, <1>10, <2>1, <2>3, <2>4 DEF pmix_exchange, barrier_in
<1>11. CASE ~ Solo /\ build.runtime = "mpi"
  <2>1. mpi_exchange(p)
    <3>0. build.n # 1
      BY <1>11 DEF Solo
    <3>1. ~(build.n = 1) /\ build.n > 1 /\ build.runtime = "mpi"
      BY <1>11, <3>0, JobPEs
    <3>2. build.runtime # "pmi2" /\ build.runtime # "pmix" /\ build.runtime # "pmi"
      BY <3>1
    <3>3. runtime_exchange(p) = mpi_exchange(p)
      BY <3>1, <3>2, Zenon DEF runtime_exchange
    <3> QED
      BY <3>3
  <2>2. Published(p)'
    BY <1>2, <1>3, <1>11, <2>1 DEF Published, mpi_exchange
  <2> QED
    BY <1>2, <1>11, <2>1, <2>2 DEF mpi_exchange, barrier_in
<1> QED
  BY <1>1, <1>7, <1>8, <1>9, <1>10, <1>11

(* Hence its step keeps the invariant. *)
LEMMA ExchangeLearns ==
  ASSUME LcTypes, LcTypes', StartInv, NEW p \in PEs, exchange(p)
  PROVE  StartInv'
<1>1. /\ UNCHANGED <<build, base, peers>> /\ Goto(p, "exchanged") /\ runtime_exchange(p)
      /\ pc[p] = "exchange"
  BY DEF exchange, At
<1>2. /\ kv' = kv /\ server \subseteq server'
      /\ fence' = IF Solo THEN fence ELSE [fence EXCEPT ![p] = @ + 1]
      /\ node' = IF Ranked /\ build.runtime \in {"pmix", "mpi"}
                 THEN [node EXCEPT ![p].rank = local_ranks(p)] ELSE node
      /\ Published(p)'
  BY <1>1, ExchangeIs
<1>3. p \in AllPEs /\ fence[p] = 0 /\ fence \in [AllPEs -> Nat]
  BY <1>1, JobPEs DEF LcTypes, StartInv, Learns, FenceAt, Early
<1>4. pc'[p] = "exchanged" /\ \A q \in AllPEs \ {p} : pc'[q] = pc[q]
  <2>1. "exchanged" \in Points
    BY DEF Points, Mid
  <2> QED
    BY <1>1, <2>1, GotoIs
<1>5. /\ \A q \in AllPEs \ {p} : fence'[q] = fence[q]
      /\ fence'[p] = IF Solo THEN 0 ELSE 1
  BY <1>2, <1>3
<1>6. /\ node'[p].alloc = node[p].alloc
      /\ Ranked /\ build.runtime \in {"pmix", "mpi"} => node'[p].rank = local_ranks(p)
      /\ \A q \in AllPEs \ {p} : node'[q] = node[q]
      /\ node' = [q \in AllPEs |-> [alloc |-> node'[q].alloc, rank |-> node'[q].rank]]
      /\ \A q \in AllPEs : node'[q].alloc \in BOOLEAN
  <2>1. node = [q \in AllPEs |-> [alloc |-> node[q].alloc, rank |-> node[q].rank]]
        /\ \A q \in AllPEs : node[q].alloc \in BOOLEAN
    BY DEF StartInv, StartTypes
  <2> QED
    BY <1>2, <1>3, <2>1
<1>7. Others(p) /\ StartTypes'
  BY <1>1, <1>2, <1>4, <1>5, <1>6 DEF Others, StartTypes, StartInv
<1>8. /\ (Solo' <=> Solo) /\ (Ranked' <=> Ranked) /\ local_ranks(p)' = local_ranks(p)
  BY <1>1, StartRigid
<1>9. Learns(p)'
  <2>1. /\ pc'[p] \notin Early \cup ShrPoints /\ pc'[p] \in Mid /\ pc'[p] \notin Up
        /\ pc'[p] \notin {"tstart", "sstart", "coll", "team", "ready"}
    BY <1>4 DEF Early, Mid, ShrPoints, TeamPoints, Up, Left, Leaving
  <2>2. FenceAt(p)' /\ PutAt(p)' /\ SeenAt(p)' /\ CheckedAt(p)' /\ TableAt(p)'
    BY <1>5, <1>8, <2>1 DEF FenceAt, PutAt, SeenAt, CheckedAt, TableAt
  <2>3. PastAt(p)'
    BY <1>2 DEF PastAt
  <2>4. AllocAt(p)'
    <3>1. node[p].alloc <=> Ranked
      BY <1>1 DEF StartInv, Learns, AllocAt
    <3> QED
      BY <1>6, <1>8, <3>1 DEF AllocAt
  <2>5. RanksAt(p)'
    BY <1>1, <1>6, <1>8, <2>1 DEF RanksAt
  <2> QED
    BY <2>2, <2>3, <2>4, <2>5 DEF Learns
<1> QED
  <2>1. /\ build' = build /\ base' = base /\ fence[p] <= fence'[p] /\ pc'[p] \notin Up
    BY <1>1, <1>3, <1>4, <1>5 DEF Up, Left, Leaving
  <2> QED
    BY <1>2, <1>7, <1>9, <2>1, StepLearns

(* From the exchange on, what has been published stays. *)
LEMMA LateLearns ==
  ASSUME LcTypes, LcTypes', StartInv, NEW p \in PEs, UNCHANGED <<build, base, kv, server>>,
         Others(p), StartTypes', fence[p] <= fence'[p], pc'[p] \notin Early,
         pc'[p] \in Mid => pc[p] \in Mid /\ fence'[p] = fence[p], Past(p)' => Past(p),
         node'[p].alloc = node[p].alloc,
         SeenAt(p)', CheckedAt(p)', Distinct => RanksAt(p)' /\ TableAt(p)',
         Meets /\ pc'[p] \in Up => pc[p] \in Up \/ \A q \in PEs : fence[q] >= 2
  PROVE  StartInv'
<1>1. /\ (Solo' <=> Solo) /\ (Ranked' <=> Ranked) /\ (Distinct' <=> Distinct)
      /\ HostKeys' = HostKeys /\ Keys(p)' = Keys(p)
  BY StartRigid
<1>2. Learns(p)
  BY DEF StartInv
<1>3. FenceAt(p)' /\ PutAt(p)' /\ AllocAt(p)'
  <2>1. FenceAt(p)' /\ PutAt(p)'
    BY <1>1, <1>2 DEF Learns, FenceAt, PutAt
  <2>2. pc'[p] \notin {"heap", "tinit", "sinit", "exchange"}
    BY DEF Early
  <2> QED
    BY <1>1, <1>2, <2>1, <2>2 DEF Learns, AllocAt
<1>4. PastAt(p)'
  <2>1. Entries(p, Range(Keys(p)) \cup HostKeys)' = Entries(p, Range(Keys(p)) \cup HostKeys)
    BY <1>1 DEF Entries, entry
  <2> QED
    BY <1>1, <1>2, <2>1 DEF Learns, PastAt, Published
<1>5. Learns(p)'
  BY <1>1, <1>3, <1>4 DEF Learns
<1> QED
  <2>1. build' = build /\ base' = base /\ server \subseteq server'
    OBVIOUS
  <2> QED
    BY <1>5, <2>1, StepLearns

(* Names that are told apart give the ranks of PEs on the same host. *)
LEMMA PopulateIs ==
  ASSUME LcTypes, NEW p \in PEs, Distinct, build.runtime \in {"pmi", "pmi2"}
  PROVE  populate_node(p) = local_ranks(p)
<1>1. ASSUME NEW q \in PEs PROVE IsPrefix(Host[q], Host[p]) <=> Host[q] = Host[p]
  <2>1. Host[p] \in Seq(Nat) /\ Host[q] \in Seq(Nat)
    BY JobPEs, LifecycleAssumption
  <2>2. Host[q] = Host[p] => IsPrefix(Host[q], Host[p])
    BY <2>1 DEF IsPrefix
  <2> QED
    BY <2>2 DEF Distinct
<1>2. \A q \in PEs : 0 .. q - 1 \subseteq PEs
  BY JobPEs DEF PEs
<1>3. ASSUME NEW q \in PEs
      PROVE  {r \in 0 .. q - 1 : IsPrefix(Host[r], Host[p])}
               = {r \in 0 .. q - 1 : Host[r] = Host[p]}
  BY <1>1, <1>2
<1> QED
  BY <1>1, <1>3 DEF populate_node, local_ranks

(* Out of the exchange: everybody has entered it, and the ranks are known. *)
LEMMA ExchangeDoneLearns ==
  ASSUME LcTypes, LcTypes', StartInv, NEW p \in PEs, exchange_done(p)
  PROVE  StartInv'
<1>1. /\ UNCHANGED <<build, base, kv, server, fence, peers>> /\ Goto(p, "tstart")
      /\ pc[p] = "exchanged" /\ fence_out(p)
      /\ node' = IF reads_hostnames(p) THEN [node EXCEPT ![p].rank = populate_node(p)] ELSE node
  BY DEF exchange_done, exchanged, At
<1>2. p \in AllPEs /\ Learns(p) /\ PEs = 0 .. build.n - 1 /\ build.n \in Nat \ {0}
      /\ build.runtime \in {"pmi", "pmi2", "pmix", "mpi"}
  BY JobPEs DEF StartInv, PEs
<1>3. pc'[p] = "tstart" /\ \A q \in AllPEs \ {p} : pc'[q] = pc[q]
  <2>1. "tstart" \in Points
    BY DEF Points, Mid
  <2> QED
    BY <1>1, <2>1, GotoIs
<1>4. /\ node'[p].alloc = node[p].alloc
      /\ reads_hostnames(p) => node'[p].rank = populate_node(p)
      /\ ~ reads_hostnames(p) => node' = node
      /\ \A q \in AllPEs \ {p} : node'[q] = node[q]
      /\ node' = [q \in AllPEs |-> [alloc |-> node'[q].alloc, rank |-> node'[q].rank]]
      /\ \A q \in AllPEs : node'[q].alloc \in BOOLEAN
  <2>1. node = [q \in AllPEs |-> [alloc |-> node[q].alloc, rank |-> node[q].rank]]
        /\ \A q \in AllPEs : node[q].alloc \in BOOLEAN
    BY DEF StartInv, StartTypes
  <2> QED
    BY <1>1, <1>2, <2>1
<1>5. Others(p) /\ StartTypes'
  BY <1>1, <1>3, <1>4 DEF Others, StartTypes, StartInv
<1>6. /\ PEs' = PEs /\ (Solo' <=> Solo) /\ (Ranked' <=> Ranked)
      /\ local_ranks(p)' = local_ranks(p)
  BY <1>1, StartRigid
<1>7. /\ pc[p] \in Mid /\ pc'[p] \in Mid /\ pc'[p] \notin Early \cup Up \cup ShrPoints
  BY <1>1, <1>3 DEF Early, Mid, Up, Left, Leaving, ShrPoints, TeamPoints
<1>8. SeenAt(p)'
  <2> SUFFICES ASSUME NEW q \in PEs PROVE Past(q)'
    BY <1>6 DEF SeenAt
  <2>1. CASE Solo
    <3>1. q = p
      BY <1>2, <2>1 DEF Solo
    <3> QED
      BY <1>6, <1>7, <2>1, <3>1 DEF Past
  <2>2. CASE ~ Solo
    <3>1. fence[p] = 1 /\ fence[q] >= 1
      BY <1>1, <1>2, <1>7, <2>2 DEF Learns, FenceAt, fence_out
    <3> QED
      BY <1>1, <1>6, <2>2, <3>1 DEF Past
  <2> QED
    BY <2>1, <2>2
<1>9. CheckedAt(p)'
  BY <1>1, <1>2, <1>3 DEF Learns, CheckedAt, same_base, neighbour
<1>10. Distinct => RanksAt(p)' /\ TableAt(p)'
  <2> SUFFICES ASSUME Distinct PROVE RanksAt(p)' /\ TableAt(p)'
    OBVIOUS
  <2>1. TableAt(p)'
    BY <1>7 DEF TableAt
  <2>2. ASSUME Ranked PROVE node'[p].rank = local_ranks(p)
    <3>1. node[p].alloc
      BY <1>2, <1>7, <2>2 DEF Learns, AllocAt
    <3>2. CASE build.runtime \in {"pmi", "pmi2"}
      <4>1. reads_hostnames(p) /\ populate_node(p) = local_ranks(p)
        BY <3>1, <3>2, PopulateIs DEF reads_hostnames
      <4> QED
        BY <1>4, <4>1
    <3>3. CASE build.runtime \in {"pmix", "mpi"}
      <4>1. ~ reads_hostnames(p) /\ node[p].rank = local_ranks(p)
        BY <1>1, <1>2, <2>2, <3>3 DEF reads_hostnames, Learns, RanksAt
      <4> QED
        BY <1>4, <4>1
    <3> QED
      BY <1>2, <3>2, <3>3
  <2> QED
    BY <1>6, <2>1, <2>2 DEF RanksAt
<1>11. Past(p)' => Past(p)
  BY <1>1, <1>6, <1>7 DEF Past
<1>12. fence[p] <= fence'[p] /\ fence'[p] = fence[p] /\ UNCHANGED <<build, base, kv, server>>
  BY <1>1, <1>2 DEF LcTypes
<1> QED
  BY <1>4, <1>5, <1>7, <1>8, <1>9, <1>10, <1>11, <1>12, LateLearns

(* The start of the on-node transport fills its table. *)
LEMMA ShrStartupLearns ==
  ASSUME LcTypes, LcTypes', StartInv, NEW p \in PEs, shr_transport_startup(p)
  PROVE  StartInv'
<1>1. /\ UNCHANGED <<build, base, kv, server, fence, node>> /\ Goto(p, "coll")
      /\ pc[p] = "sstart"
      /\ peers' = CASE build.shr = "xpmem" -> [peers EXCEPT ![p] = xpmem_startup(p)]
                    [] build.shr = "cma"   -> [peers EXCEPT ![p] = cma_startup(p)]
                    [] OTHER -> peers
  BY DEF shr_transport_startup, At, rtVars
<1>2. p \in AllPEs /\ Learns(p) /\ build.shr \in {"none", "xpmem", "cma"}
  BY JobPEs, LifecycleAssumption DEF StartInv, LcTypes
<1>3. pc'[p] = "coll" /\ \A q \in AllPEs \ {p} : pc'[q] = pc[q]
  <2>1. "coll" \in Points
    BY DEF Points, Mid
  <2> QED
    BY <1>1, <2>1, GotoIs
<1>4. /\ peers' = [q \in AllPEs |-> peers'[q]] /\ \A q \in AllPEs \ {p} : peers'[q] = peers[q]
      /\ build.shr # "none" => peers'[p] = xpmem_startup(p)
  <2>1. peers = [q \in AllPEs |-> peers[q]]
    BY DEF StartInv, StartTypes
  <2>2. cma_startup(p) = xpmem_startup(p)
    BY DEF cma_startup, xpmem_startup
  <2>3. CASE build.shr = "none"
    BY <1>1, <2>1, <2>3
  <2>4. CASE build.shr \in {"xpmem", "cma"}
    <3>1. peers' = [peers EXCEPT ![p] = xpmem_startup(p)]
      BY <1>1, <2>2, <2>4
    <3> QED
      BY <1>2, <2>1, <3>1
  <2> QED
    BY <1>2, <2>3, <2>4
<1>5. Others(p) /\ StartTypes'
  BY <1>1, <1>3, <1>4 DEF Others, StartTypes, StartInv
<1>6. /\ PEs' = PEs /\ (Solo' <=> Solo) /\ (Ranked' <=> Ranked)
      /\ local_ranks(p)' = local_ranks(p)
  BY <1>1, StartRigid
<1>7. /\ pc[p] \in Mid /\ pc'[p] \in Mid /\ pc'[p] \notin Early \cup Up
  BY <1>1, <1>3 DEF Early, Mid, Up, Left, Leaving
<1>8. SeenAt(p)' /\ CheckedAt(p)'
  BY <1>1, <1>2, <1>3 DEF SeenAt, Learns, CheckedAt, same_base, neighbour
<1>9. Distinct => RanksAt(p)' /\ TableAt(p)'
  <2>1. RanksAt(p) => RanksAt(p)'
    BY <1>1, <1>3, <1>6 DEF RanksAt
  <2>2. xpmem_startup(p)' = xpmem_startup(p)
    BY <1>1, <1>6 DEF xpmem_startup, get_node_size, get_node_rank, on_node
  <2>3. TableAt(p)'
    BY <1>1, <1>4, <2>2 DEF TableAt
  <2> QED
    BY <1>2, <2>1, <2>3 DEF Learns
<1>10. Past(p)' => Past(p)
  BY <1>1, <1>6, <1>7 DEF Past
<1>11. fence[p] <= fence'[p] /\ fence'[p] = fence[p] /\ UNCHANGED <<build, base, kv, server>>
       /\ node'[p].alloc = node[p].alloc
  BY <1>1, <1>2 DEF LcTypes
<1> QED
  BY <1>5, <1>7, <1>8, <1>9, <1>10, <1>11, LateLearns

(* The entry of the last barrier of shmem_internal_init, without PMIx. *)
LEMMA InitReadyLearns ==
  ASSUME LcTypes, LcTypes', StartInv, NEW p \in PEs, init_ready(p), build.runtime # "pmix"
  PROVE  StartInv'
<1>1. /\ UNCHANGED <<build, base, kv, server, node, peers>> /\ Goto(p, "barrier")
      /\ pc[p] = "ready" /\ fence' = [fence EXCEPT ![p] = @ + 1]
  BY DEF init_ready, At, runtime_barrier, barrier_in
<1>2. p \in AllPEs /\ Learns(p) /\ fence \in [AllPEs -> Nat]
  BY JobPEs DEF StartInv, LcTypes
<1>3. pc'[p] = "barrier" /\ \A q \in AllPEs \ {p} : pc'[q] = pc[q]
  <2>1. "barrier" \in Points
    BY DEF Points
  <2> QED
    BY <1>1, <2>1, GotoIs
<1>4. fence'[p] = fence[p] + 1 /\ \A q \in AllPEs \ {p} : fence'[q] = fence[q]
  BY <1>1, <1>2
<1>5. Others(p) /\ StartTypes'
  BY <1>1, <1>3, <1>4 DEF Others, StartTypes, StartInv
<1>6. /\ PEs' = PEs /\ (Solo' <=> Solo) /\ (Ranked' <=> Ranked)
      /\ local_ranks(p)' = local_ranks(p)
  BY <1>1, StartRigid
<1>7. /\ pc[p] \in Mid /\ pc'[p] \notin Early \cup Up \cup Mid
      /\ pc[p] \in ShrPoints /\ pc'[p] \in ShrPoints
  BY <1>1, <1>3 DEF Early, Mid, Up, Left, Leaving, ShrPoints, TeamPoints
<1>8. SeenAt(p)' /\ CheckedAt(p)'
  BY <1>1, <1>2, <1>3 DEF SeenAt, Learns, CheckedAt, same_base, neighbour
<1>9. Distinct => RanksAt(p)' /\ TableAt(p)'
  <2>1. RanksAt(p) => RanksAt(p)'
    BY <1>1, <1>6, <1>7 DEF RanksAt
  <2>2. xpmem_startup(p)' = xpmem_startup(p)
    BY <1>1, <1>6 DEF xpmem_startup, get_node_size, get_node_rank, on_node
  <2>3. TableAt(p) => TableAt(p)'
    BY <1>1, <1>7, <2>2 DEF TableAt
  <2> QED
    BY <1>2, <2>1, <2>3 DEF Learns
<1>10. Past(p)' => Past(p)
  BY <1>2, <1>6, <1>7 DEF Past, Learns, FenceAt
<1>11. fence[p] <= fence'[p] /\ UNCHANGED <<build, base, kv, server>>
       /\ node'[p].alloc = node[p].alloc
  BY <1>1, <1>2, <1>4
<1> QED
  BY <1>5, <1>7, <1>8, <1>9, <1>10, <1>11, LateLearns

(* The end of the on-node transport. *)
LEMMA ShrFiniLearns ==
  ASSUME LcTypes, LcTypes', StartInv, NEW p \in PEs, shr_transport_fini(p)
  PROVE  StartInv'
<1>1. /\ UNCHANGED <<build, base, kv, server, fence, node>> /\ Goto(p, "heap_fini")
      /\ pc[p] = "shr_fini" /\ peers' = [peers EXCEPT ![p] = <<>>]
  BY DEF shr_transport_fini, At, rtVars
<1>2. p \in AllPEs /\ Learns(p) /\ peers = [q \in AllPEs |-> peers[q]]
  BY JobPEs DEF StartInv, StartTypes
<1>3. pc'[p] = "heap_fini" /\ \A q \in AllPEs \ {p} : pc'[q] = pc[q]
  <2>1. "heap_fini" \in Points
    BY DEF Points, Up, Left, Leaving
  <2> QED
    BY <1>1, <2>1, GotoIs
<1>4. /\ peers' = [q \in AllPEs |-> peers'[q]] /\ \A q \in AllPEs \ {p} : peers'[q] = peers[q]
  BY <1>1, <1>2
<1>5. Others(p) /\ StartTypes'
  BY <1>1, <1>3, <1>4 DEF Others, StartTypes, StartInv
<1>6. Solo' <=> Solo
  BY <1>1, StartRigid
<1>7. /\ pc'[p] \notin Early \cup Mid \cup ShrPoints /\ pc[p] \in Up /\ pc[p] \notin Mid
  BY <1>1, <1>3 DEF Early, Mid, Up, Left, Leaving, ShrPoints, TeamPoints
<1>8. SeenAt(p)' /\ CheckedAt(p)' /\ RanksAt(p)' /\ TableAt(p)'
  BY <1>1, <1>2, <1>3, <1>7 DEF SeenAt, Learns, CheckedAt, same_base, neighbour, RanksAt, TableAt
<1>9. Past(p)' => Past(p)
  BY <1>1, <1>6, <1>7 DEF Past
<1>10. fence[p] <= fence'[p] /\ UNCHANGED <<build, base, kv, server>>
       /\ node'[p].alloc = node[p].alloc
  BY <1>1, <1>2 DEF LcTypes
<1> QED
  BY <1>5, <1>7, <1>8, <1>9, <1>10, LateLearns

(* At the start nothing is published and nothing known. *)
LEMMA StartBegins == Init => StartInv
<1> SUFFICES ASSUME Init PROVE StartInv
  OBVIOUS
<1>1. LcTypes
  BY InitHolds DEF LifecycleInv
<1>2. PEs \subseteq AllPEs
  BY <1>1, JobPEs
<1>3. /\ kv = [p \in AllPEs |-> <<>>] /\ fence = [p \in AllPEs |-> 0]
      /\ node = [p \in AllPEs |-> [alloc |-> FALSE, rank |-> <<>>]]
      /\ pc = [p \in AllPEs |-> "out"] /\ peers = [p \in AllPEs |-> <<>>]
  BY DEF Init, RtInit
<1>4. StartTypes
  <2>1. <<>> \in Seq(KeyNames)
    OBVIOUS
  <2> QED
    BY <1>3, <2>1 DEF StartTypes
<1>5. ASSUME NEW p \in PEs PROVE Learns(p)
  <2>1. /\ pc[p] = "out" /\ fence[p] = 0 /\ kv[p] = <<>> /\ node[p].alloc = FALSE
    BY <1>2, <1>3
  <2>2. pc[p] \notin Mid \cup ShrPoints
    BY <2>1 DEF Mid, ShrPoints, TeamPoints
  <2>3. PutAt(p)
    <3>1. SoFar(p) = <<>> /\ Range(<<>>) = {}
      BY <2>1 DEF SoFar, Range
    <3> QED
      BY <2>1, <3>1 DEF PutAt, Entries
  <2> QED
    BY <2>1, <2>2, <2>3 DEF Learns, FenceAt, AllocAt, PastAt, Past, SeenAt, CheckedAt,
       RanksAt, TableAt
<1>6. ASSUME NEW p \in PEs PROVE pc[p] \notin Up
  BY <1>2, <1>3 DEF Up, Left, Leaving
<1> QED
  BY <1>4, <1>5, <1>6 DEF StartInv

(* Every step keeps the invariant. *)
LEMMA StartKeeps == LifecycleInv /\ LifecycleInv' /\ StartInv /\ [Next]_vars => StartInv'
<1> SUFFICES ASSUME LcTypes, LcTypes', LocalInv, StartInv, [Next]_vars PROVE StartInv'
  BY DEF LifecycleInv
<1>1. ASSUME UNCHANGED <<build, rtVars, base, pc, peers>> PROVE StartInv'
  <2>1. 0 \in PEs
    BY JobPEs
  <2>2. Idles(0)
    BY <1>1 DEF Idles, rtVars
  <2> QED
    BY <2>1, <2>2, IdleLearns
<1>2. ASSUME NEW p \in PEs, init_step(p) PROVE StartInv'
  <2>1. CASE \/ start(p) \/ init_heap(p) \/ transport_startup(p) \/ collectives_init(p)
             \/ team_init(p) \/ init_return(p) \/ (init_ready(p) /\ build.runtime = "pmix")
    BY <2>1, StartIdles, IdleLearns
  <2>2. CASE \/ init_runtime(p) \/ transport_init(p) \/ shr_transport_init(p) \/ exchange(p)
             \/ exchange_done(p) \/ shr_transport_startup(p)
             \/ init_ready(p) /\ build.runtime # "pmix"
    BY <2>2, InitRuntimeLearns, PutLearns, ExchangeLearns, ExchangeDoneLearns,
       ShrStartupLearns, InitReadyLearns
  <2> QED
    BY <1>2, <2>1, <2>2 DEF init_step
<1>3. ASSUME NEW p \in PEs,
             shut_step(p) \/ mpi_step(p) \/ fault(p) \/ user_step(p) \/ kill(p)
      PROVE  StartInv'
  BY <1>3, EndIdles, IdleLearns, ShrFiniLearns
<1>4. ASSUME NEW m \in net, deliver(m) PROVE StartInv'
  BY <1>1, <1>4 DEF deliver
<1>5. CASE UNCHANGED vars
  BY <1>1, <1>5 DEF vars, lcVars
<1> QED
  BY <1>2, <1>3, <1>4, <1>5, NextOf

(* Hence it holds throughout. *)
LEMMA StartInvariant == Spec => []StartInv
  BY StartBegins, StartKeeps, Invariant, PTL DEF Spec

-----------------------------------------------------------------------------
(* What follows for the addresses.                                         *)

(* The row and the column of a place in a table with rows of length b. *)
LEMMA RowOf ==
  ASSUME NEW n \in Nat, NEW b \in Nat \ {0}, NEW i \in 0 .. n * b - 1
  PROVE  i \div b \in 0 .. n - 1 /\ i % b \in 0 .. b - 1
<1>1. /\ i \div b \in Nat /\ i % b \in 0 .. b - 1 /\ i = (i \div b) * b + (i % b)
  OBVIOUS
<1>2. PICK d \in Nat : d = i \div b
  BY <1>1
<1>3. d * b <= i /\ i < n * b
  BY <1>1, <1>2
<1>4. d < n
  <2> SUFFICES ASSUME d >= n PROVE FALSE
    BY <1>2
  <2>1. PICK e \in Nat : d = n + e
    <3>1. d - n \in Nat /\ d = n + (d - n)
      BY <1>2
    <3> QED
      BY <3>1
  <2>2. d * b = n * b + e * b /\ e * b \in Nat /\ n * b \in Nat
    BY <2>1
  <2> QED
    BY <1>3, <2>2
<1> QED
  BY <1>1, <1>2, <1>4

(* The place of column r in row q. *)
LEMMA PlaceOf ==
  ASSUME NEW n \in Nat, NEW b \in Nat \ {0}, NEW q \in 0 .. n - 1, NEW r \in 0 .. b - 1
  PROVE  /\ q * b + r \in 0 .. n * b - 1 /\ q * b \in Nat
         /\ (q * b + r) \div b = q /\ (q * b + r) % b = r
<1>1. (q * b + r) \div b = q /\ (q * b + r) % b = r /\ q * b \in Nat
  OBVIOUS
<1>2. PICK e \in Nat : n = q + 1 + e
  <2>1. n - q - 1 \in Nat /\ n = q + 1 + (n - q - 1)
    OBVIOUS
  <2> QED
    BY <2>1
<1>3. n * b = q * b + b + e * b /\ e * b \in Nat
  BY <1>2
<1> QED
  BY <1>1, <1>3

(* The search in kv_store_all finds q's own entry when the rows are alike. *)
LEMMA MpiGets ==
  ASSUME NEW K \in Seq(KeyNames), NEW p \in PEs, NEW q \in PEs, NEW k \in Range(K),
         build.n \in Nat \ {0}, \A r \in PEs : kv[r] = K
  PROVE  mpi_get(p, q, k) = {entry(q, k)}
<1>1. PICK j \in 1 .. Len(K) : K[j] = k
  BY DEF Range
<1>2. PICK b \in Nat \ {0} : b = Len(K)
  BY <1>1
<1>3. PICK n \in Nat \ {0} : n = build.n /\ PEs = 0 .. n - 1
  BY DEF PEs
<1> DEFINE all == kv_store_all(p)
<1> DEFINE hits == {i \in 0 .. n * b - 1 : i >= q * b /\ all[i].key = k}
<1>4. /\ DOMAIN all = 0 .. n * b - 1
      /\ \A i \in 0 .. n * b - 1 :
           all[i] = entry(i \div b, kv[i \div b][1 + (i % b)])
  BY <1>2, <1>3 DEF kv_store_all
<1>5. ASSUME NEW i \in 0 .. n * b - 1
      PROVE  all[i].key = K[1 + (i % b)] /\ all[i] = entry(i \div b, all[i].key)
  <2>1. kv[i \div b] = K
    BY <1>3, RowOf
  <2>2. PICK d, c : d = i \div b /\ c = 1 + (i % b)
    OBVIOUS
  <2>3. all[i] = entry(d, K[c])
    BY <1>4, <2>1, <2>2
  <2> HIDE DEF all
  <2> QED
    BY <2>2, <2>3 DEF entry
<1>6. mpi_get(p, q, k) = {all[i] : i \in {h \in hits : \A g \in hits : h =< g}}
  BY <1>2, <1>4 DEF mpi_get
<1> HIDE DEF all
<1>7. PICK c \in 0 .. b - 1 : j = 1 + c
  <2>1. j - 1 \in 0 .. b - 1 /\ j = 1 + (j - 1)
    BY <1>1, <1>2
  <2> QED
    BY <2>1
<1>8. q \in 0 .. n - 1 /\ n * b \in Nat /\ q * b \in Nat
  BY <1>3
<1>9. PICK x \in 0 .. n * b - 1 : x = q * b + c /\ x % b = c
  BY <1>7, <1>8, PlaceOf
<1>10. x \in hits
  <2>1. all[x].key = k
    BY <1>1, <1>5, <1>7, <1>9
  <2>2. x >= q * b
    BY <1>7, <1>8, <1>9
  <2> QED
    BY <2>1, <2>2
<1>11. hits \subseteq Nat
  BY <1>8
<1> HIDE DEF hits
<1>12. PICK m \in hits : \A g \in hits : m <= g
  BY <1>10, <1>11, LeastNumber
<1>13. {h \in hits : \A g \in hits : h =< g} = {m}
  <2>1. ASSUME NEW h \in hits, \A g \in hits : h =< g PROVE h = m
    <3>1. h \in Nat /\ m \in Nat /\ h =< m /\ m <= h
      BY <1>11, <1>12, <2>1
    <3> QED
      BY <3>1
  <2> QED
    BY <1>12, <2>1
<1>14. all[m] = entry(q, k)
  <2>1. m \in 0 .. n * b - 1 /\ m >= q * b /\ all[m].key = k
    BY <1>12 DEF hits
  <2>2. m <= q * b + c
    BY <1>9, <1>10, <1>12
  <2>3. PICK r \in 0 .. b - 1 : m = q * b + r
    <3>1. m - q * b \in 0 .. b - 1 /\ m = q * b + (m - q * b)
      BY <1>7, <1>8, <2>1, <2>2
    <3> QED
      BY <3>1
  <2>4. m \div b = q
    <3>1. (q * b + r) \div b = q
      BY <1>8, PlaceOf
    <3> QED
      BY <2>3, <3>1
  <2> QED
    BY <1>5, <2>1, <2>4
<1> QED
  BY <1>6, <1>13, <1>14

(* What has to hold of a job: under MPI all PEs publish the same keys, which  *)
(* mpi_get relies on when it counts in rows of its own length; under PMI the  *)
(* names of two hosts are no prefixes of each other, which is how             *)
(* populate_node compares them.                                               *)
Alike   == build.runtime = "mpi" => \A p, q \in PEs : Keys(p) = Keys(q)
(* The jobs the theorem is about. *)
Regular == Alike /\ Distinct

(* An entry that is published is found, as it was put. *)
LEMMA GetIs ==
  ASSUME LcTypes, StartInv, Alike, NEW p \in PEs, NEW q \in PEs, NEW k,
         \A r \in PEs : Past(r),
         k \in Range(Keys(q)) \/ (k \in HostKeys /\ build.runtime \in {"pmi", "pmi2"})
  PROVE  runtime_get(p, q, k) = {entry(q, k)}
<1>1. /\ build.runtime \in {"pmi", "pmi2", "pmix", "mpi"} /\ build.n \in Nat \ {0}
  BY JobPEs
<1>2. \A r \in PEs : Published(r)
  BY DEF StartInv, Learns, PastAt
<1>3. CASE build.runtime = "mpi"
  <2>1. PICK K \in Seq(KeyNames) : K = Keys(q)
    BY KeysAre
  <2>2. \A r \in PEs : kv[r] = K
    BY <1>2, <1>3, <2>1 DEF Published, Alike
  <2>3. k \in Range(K)
    BY <1>3, <2>1
  <2>4. mpi_get(p, q, k) = {entry(q, k)}
    BY <1>1, <2>2, <2>3, MpiGets
  <2> QED
    BY <1>3, <2>4 DEF runtime_get
<1>4. CASE build.runtime # "mpi"
  <2>1. entry(q, k) \in server
    BY <1>2, <1>4 DEF Published, Entries
  <2>2. {e \in server : e = entry(q, k)} = {entry(q, k)}
    BY <2>1
  <2> QED
    BY <1>1, <1>4, <2>2 DEF runtime_get, pmi_get, PMI_KVS_Get, pmi2_get, pmix_get
<1> QED
  BY <1>3, <1>4

(* What a PE reads of q is among what q publishes. *)
LEMMA ReadsArePuts ==
  ASSUME LcTypes, NEW p \in PEs, NEW q \in PEs
  PROVE  transport_reads(p, q) \cup shr_reads(p, q) \subseteq Range(Keys(q))
<1>1. /\ transport_publish(q) \in Seq(KeyNames) /\ shr_publish \in Seq(KeyNames)
      /\ build.transport \in {"ofi", "portals4", "ucx"}
      /\ build.shr \in {"none", "xpmem", "cma"}
  BY KeysAre, LifecycleAssumption DEF LcTypes
<1>2. Range(Keys(q)) = Range(transport_publish(q)) \cup Range(shr_publish)
  BY <1>1, RangeOfBoth DEF Keys
<1>3. shr_reads(p, q) \subseteq Range(shr_publish)
  <2>1. CASE build.shr = "xpmem"
    BY <2>1 DEF shr_reads, shr_publish, xpmem_reads
  <2>2. CASE build.shr = "cma"
    BY <2>2 DEF shr_reads, shr_publish, cma_reads
  <2>3. CASE build.shr = "none"
    BY <2>3 DEF shr_reads
  <2> QED
    BY <1>1, <2>1, <2>2, <2>3
<1>4. transport_reads(p, q) \subseteq Range(transport_publish(q))
  <2>1. CASE build.transport = "ofi"
    <3>1. /\ transport_reads(p, q) = Range(publish_mr_info) \cup Range(publish_av_info)
          /\ transport_publish(q) = publish_mr_info \o publish_av_info
      BY <2>1 DEF transport_reads, ofi_reads, populate_mr_tables, populate_av,
         transport_publish, ofi_publish
    <3>2. publish_mr_info \in Seq(KeyNames) /\ publish_av_info \in Seq(KeyNames)
      <4>1. /\ <<"fi_heap_key", "fi_data_key">> \in Seq(KeyNames)
            /\ <<"fi_heap_addr", "fi_data_addr">> \in Seq(KeyNames)
            /\ <<"fi_epname">> \in Seq(KeyNames) /\ <<>> \in Seq(KeyNames)
        BY DEF KeyNames
      <4> QED
        BY <4>1 DEF publish_mr_info, publish_av_info
    <3> QED
      BY <3>1, <3>2, RangeOfBoth
  <2>2. CASE build.transport = "portals4"
    <3>1. /\ <<"portals4-procid">> \in Seq(KeyNames) /\ <<"portals4-bases">> \in Seq(KeyNames)
          /\ <<>> \in Seq(KeyNames)
      BY DEF KeyNames
    <3>2. /\ "portals4-procid" \in Range(<<"portals4-procid">>)
          /\ "portals4-bases" \in Range(<<"portals4-bases">>)
      BY DEF Range
    <3>3. portals4_reads(p, q) \subseteq Range(portals4_publish)
      <4>1. PICK t \in Seq(KeyNames) : t = IF build.rva THEN <<"portals4-bases">> ELSE <<>>
        BY <3>1
      <4>2. Range(portals4_publish) = Range(<<"portals4-procid">>) \cup Range(t)
        BY <3>1, <4>1, RangeOfBoth DEF portals4_publish
      <4>3. build.rva => "portals4-bases" \in Range(t)
        BY <3>2, <4>1
      <4> QED
        BY <3>2, <4>2, <4>3 DEF portals4_reads
    <3> QED
      BY <2>2, <3>3 DEF transport_reads, transport_publish
  <2>3. CASE build.transport = "ucx"
    BY <2>3 DEF transport_reads, ucx_reads, transport_publish
  <2> QED
    BY <1>1, <2>1, <2>2, <2>3
<1> QED
  BY <1>2, <1>3, <1>4

(* Hence every get of start-up finds what was put. *)
LEMMA GetsAreRight ==
  ASSUME LcTypes, StartInv, Alike
  PROVE  GetsFindPuts
<1> SUFFICES ASSUME NEW p \in PEs, NEW q \in PEs
    PROVE  /\ pc[p] = "exchanged" /\ fence_out(p) /\ reads_hostnames(p) =>
                \A k \in Range(put_hostname) : runtime_get(p, q, k) = {entry(q, k)}
           /\ pc[p] = "tstart" =>
                \A k \in transport_reads(p, q) : runtime_get(p, q, k) = {entry(q, k)}
           /\ pc[p] = "sstart" /\ build.shr # "none" /\ q \in on_node(p) =>
                \A k \in shr_reads(p, q) : runtime_get(p, q, k) = {entry(q, k)}
  BY DEF GetsFindPuts
<1>1. Learns(p)
  BY DEF StartInv
<1>2. ASSUME pc[p] = "exchanged", fence_out(p), reads_hostnames(p), NEW k \in Range(put_hostname)
      PROVE  runtime_get(p, q, k) = {entry(q, k)}
  <2>1. Ranked /\ build.runtime \in {"pmi", "pmi2"} /\ ~ Solo
    BY <1>1, <1>2 DEF reads_hostnames, Learns, AllocAt, Ranked
  <2>2. fence[p] = 1 /\ \A r \in PEs : fence[r] >= 1
    BY <1>1, <1>2, <2>1 DEF Learns, FenceAt, Mid, fence_out
  <2>3. \A r \in PEs : Past(r)
    BY <2>1, <2>2 DEF Past
  <2>4. k \in HostKeys
    BY <1>2, <2>1 DEF HostKeys
  <2> QED
    BY <2>1, <2>3, <2>4, GetIs
<1>3. ASSUME pc[p] \in {"tstart", "sstart"}, NEW k \in transport_reads(p, q) \cup shr_reads(p, q)
      PROVE  runtime_get(p, q, k) = {entry(q, k)}
  <2>1. \A r \in PEs : Past(r)
    BY <1>1, <1>3 DEF Learns, SeenAt
  <2>2. k \in Range(Keys(q))
    BY ReadsArePuts
  <2> QED
    BY <2>1, <2>2, GetIs
<1> QED
  BY <1>2, <1>3

(* Equal bases at all neighbours are equal bases everywhere. *)
LEMMA BasesAreSymmetric ==
  ASSUME LcTypes, StartInv
  PROVE  BasesSymmetric
<1> SUFFICES ASSUME InitWaits, build.transport = "portals4", build.rva,
                    NEW u \in PEs, pc[u] = "user"
             PROVE  \A p \in PEs : base[p] = base[0]
  BY DEF BasesSymmetric
<1>1. PICK n \in Nat \ {0} : n = build.n /\ PEs = 0 .. n - 1
  BY JobPEs DEF PEs
<1>2. CASE n = 1
  BY <1>1, <1>2
<1>3. CASE n # 1
  <2>1. \A q \in PEs : fence[q] >= 2
    <3>1. Meets /\ pc[u] \in Up
      BY <1>1, <1>3 DEF Up, InitWaits, Meets
    <3> QED
      BY <3>1 DEF StartInv
  <2>2. \A q \in PEs : base[(q + 1) % n] = base[q]
    BY <1>1, <2>1 DEF StartInv, Learns, CheckedAt, same_base, neighbour
  <2> SUFFICES ASSUME NEW p \in PEs, base[p] # base[0] PROVE FALSE
    OBVIOUS
  <2> DEFINE Off == {q \in PEs : base[q] # base[0]}
  <2>3. Off \subseteq Nat /\ p \in Off
    BY <1>1
  <2>4. \A q \in Off : q \in PEs /\ base[q] # base[0]
    OBVIOUS
  <2>5. \A q \in PEs : q \notin Off => base[q] = base[0]
    OBVIOUS
  <2> HIDE DEF Off
  <2>6. PICK q \in Off : \A r \in Off : q <= r
    BY <2>3, LeastNumber
  <2>7. q \in 1 .. n - 1
    BY <1>1, <2>4, <2>6
  <2>8. PICK r \in 0 .. n - 2 : q = r + 1
    <3>1. q - 1 \in 0 .. n - 2 /\ q = (q - 1) + 1
      BY <2>7
    <3> QED
      BY <3>1
  <2>9. r \in PEs /\ r \notin Off /\ (r + 1) % n = r + 1
    <3>1. r \in PEs /\ r \in Nat /\ r < q /\ r + 1 \in 0 .. n - 1
      BY <1>1, <2>8
    <3>2. r \notin Off
      <4>1. q \in Nat
        BY <2>3
      <4> QED
        BY <2>6, <3>1, <4>1
    <3>3. (r + 1) % n = r + 1
      BY <3>1
    <3> QED
      BY <3>1, <3>2, <3>3
  <2>10. base[q] = base[r] /\ base[r] = base[0]
    BY <2>2, <2>5, <2>8, <2>9
  <2> QED
    BY <2>4, <2>6, <2>10
<1> QED
  BY <1>2, <1>3

(* The rank of a PE among those of its host: below their number, and its own. *)
LEMMA RanksAre ==
  ASSUME NEW n \in Nat \ {0}, NEW S \in SUBSET (0 .. n - 1), NEW q \in S
  PROVE  /\ Cardinality({r \in 0 .. q - 1 : r \in S}) \in 0 .. Cardinality(S) - 1
         /\ \A p \in S : p < q => Cardinality({r \in 0 .. p - 1 : r \in S})
                                    < Cardinality({r \in 0 .. q - 1 : r \in S})
<1>1. IsFiniteSet(S)
  <2>1. IsFiniteSet(0 .. n - 1)
    BY FS_Interval
  <2> QED
    BY <2>1, FS_Subset
<1>2. ASSUME NEW A, A \subseteq S, NEW B, B \subseteq A, NEW x \in A, x \notin B
      PROVE  /\ Cardinality(B) \in Nat /\ Cardinality(A) \in Nat
             /\ Cardinality(B) < Cardinality(A)
  <2>1. IsFiniteSet(A) /\ IsFiniteSet(B)
    BY <1>1, <1>2, FS_Subset
  <2>2. Cardinality(A) \in Nat /\ Cardinality(B) \in Nat
    BY <2>1, FS_CardinalityType
  <2>3. Cardinality(B) <= Cardinality(A) /\ (Cardinality(B) = Cardinality(A) => B = A)
    BY <1>2, <2>1, FS_Subset
  <2> QED
    BY <1>2, <2>2, <2>3
<1>3. Cardinality({r \in 0 .. q - 1 : r \in S}) \in 0 .. Cardinality(S) - 1
  <2> DEFINE B == {r \in 0 .. q - 1 : r \in S}
  <2>1. B \subseteq S /\ q \notin B
    OBVIOUS
  <2>2. S \subseteq S /\ q \in S
    OBVIOUS
  <2> HIDE DEF B
  <2>3. Cardinality(B) \in Nat /\ Cardinality(S) \in Nat /\ Cardinality(B) < Cardinality(S)
    BY <1>2, <2>1, <2>2
  <2>4. Cardinality(B) \in 0 .. Cardinality(S) - 1
    BY <2>3
  <2> QED
    BY <2>4 DEF B
<1>4. ASSUME NEW p \in S, p < q
      PROVE  Cardinality({r \in 0 .. p - 1 : r \in S}) < Cardinality({r \in 0 .. q - 1 : r \in S})
  <2> DEFINE B == {r \in 0 .. p - 1 : r \in S}
  <2> DEFINE A == {r \in 0 .. q - 1 : r \in S}
  <2>1. A \subseteq S /\ B \subseteq A /\ p \in A /\ p \notin B
    BY <1>4
  <2> HIDE DEF A, B
  <2>2. Cardinality(B) < Cardinality(A)
    BY <1>2, <2>1
  <2> QED
    BY <2>2 DEF A, B
<1> QED
  BY <1>3, <1>4

(* The table of the on-node transport holds the PEs of the host, by rank. *)
LEMMA PeersAreRight ==
  ASSUME LcTypes, LocalInv, StartInv, Distinct
  PROVE  NodePeers
<1> SUFFICES ASSUME NEW p \in PEs, "shr" \in up[p], build.shr # "none", pc[p] # "aborted"
    PROVE  /\ on_node(p) = {q \in PEs : Host[q] = Host[p]}
           /\ \A q \in on_node(p) : get_node_rank(p, q) \in DOMAIN peers[p]
                                    /\ peers[p][get_node_rank(p, q)] = q
  BY DEF NodePeers
<1>1. pc[p] \in ShrPoints /\ Learns(p) /\ build.ranks
  BY LifecycleAssumption DEF LocalInv, Local, LayersAt, StartInv, LcTypes, Ends
<1>2. peers[p] = xpmem_startup(p)
  BY <1>1 DEF Learns, TableAt
<1>3. PICK n \in Nat \ {0} : n = build.n /\ PEs = 0 .. n - 1
  BY JobPEs DEF PEs
<1>4. CASE Solo
  <2>1. p = 0 /\ PEs = {0}
    BY <1>3, <1>4 DEF Solo
  <2>2. /\ \A q : get_node_rank(p, q) = 0
        /\ get_node_size(p) = 1
    BY <1>4 DEF Solo, get_node_rank, get_node_size
  <2>3. on_node(p) = {0} /\ {q \in PEs : Host[q] = Host[p]} = {0}
    BY <2>1, <2>2 DEF on_node
  <2>4. 0 .. get_node_size(p) - 1 = {0}
    BY <2>2
  <2>5. peers[p] = [r \in {0} |-> CHOOSE q \in {0} : 0 = r]
    BY <1>2, <2>2, <2>3, <2>4 DEF xpmem_startup
  <2>6. (CHOOSE q \in {0} : 0 = 0) = 0
    OBVIOUS
  <2> QED
    BY <2>2, <2>3, <2>5, <2>6
<1>5. CASE ~ Solo
  <2> DEFINE S == {q \in PEs : Host[q] = Host[p]}
  <2> DEFINE rank(q) == Cardinality({r \in 0 .. q - 1 : r \in S})
  <2>1. node[p].rank = local_ranks(p)
    BY <1>1, <1>5 DEF Ranked, Learns, RanksAt
  <2>2. \A q \in PEs : get_node_rank(p, q) = node[p].rank[q]
    BY <1>5 DEF Solo, get_node_rank
  <2>3. get_node_size(p) = Cardinality({q \in PEs : node[p].rank[q] # -1})
    BY <1>5 DEF Solo, get_node_size
  <2>4. ASSUME NEW q \in PEs
        PROVE  node[p].rank[q] = IF q \in S THEN rank(q) ELSE -1
    <3>1. {r \in 0 .. q - 1 : Host[r] = Host[p]} = {r \in 0 .. q - 1 : r \in S}
      BY <1>3
    <3>2. local_ranks(p)[q] = IF Host[q] = Host[p]
                 THEN Cardinality({r \in 0 .. q - 1 : Host[r] = Host[p]}) ELSE -1
      BY DEF local_ranks
    <3> QED
      BY <2>1, <3>1, <3>2
  <2>5. ASSUME NEW q \in S
        PROVE  rank(q) \in 0 .. Cardinality(S) - 1 /\ \A r \in S : r < q => rank(r) < rank(q)
    <3>1. S \in SUBSET (0 .. n - 1)
      BY <1>3
    <3> HIDE DEF S
    <3> QED
      BY <3>1, RanksAre
  <2>6. S \subseteq PEs
    OBVIOUS
  <2> HIDE DEF S, rank
  <2>7. \A q \in PEs : node[p].rank[q] # -1 <=> q \in S
    BY <2>4, <2>5
  <2>8. on_node(p) = S /\ get_node_size(p) = Cardinality(S)
    <3>1. {q \in PEs : node[p].rank[q] # -1} = S
      BY <2>6, <2>7
    <3> QED
      BY <2>2, <2>3, <3>1 DEF on_node
  <2>9. \A q \in S : get_node_rank(p, q) = rank(q)
    BY <2>2, <2>4, <2>6
  <2>10. ASSUME NEW q \in S
         PROVE  rank(q) \in DOMAIN peers[p] /\ peers[p][rank(q)] = q
    <3>1. rank(q) \in 0 .. get_node_size(p) - 1
      BY <2>5, <2>8
    <3>2. /\ DOMAIN peers[p] = 0 .. get_node_size(p) - 1
          /\ peers[p][rank(q)] = CHOOSE r \in S : get_node_rank(p, r) = rank(q)
      BY <1>2, <2>8, <3>1 DEF xpmem_startup
    <3>3. ASSUME NEW r \in S, get_node_rank(p, r) = rank(q) PROVE r = q
      <4>1. rank(r) = rank(q) /\ rank(q) \in Int
        BY <2>5, <2>9, <3>3
      <4>2. ~(r < q) /\ ~(q < r) /\ r \in Int /\ q \in Int
        BY <1>3, <2>5, <2>6, <4>1
      <4> QED
        BY <4>2
    <3>4. (CHOOSE r \in S : get_node_rank(p, r) = rank(q)) = q
      BY <2>9, <3>3
    <3> QED
      BY <3>1, <3>2, <3>4
  <2>11. \A q \in on_node(p) : get_node_rank(p, q) \in DOMAIN peers[p]
                               /\ peers[p][get_node_rank(p, q)] = q
    BY <2>8, <2>9, <2>10
  <2> QED
    BY <2>8, <2>11 DEF S
<1> QED
  BY <1>4, <1>5

(* What start-up learns about the other PEs is right, in any job of that     *)
(* kind: every address it gets is the one that was put, all bases are equal, *)
(* and the on-node transport knows the PEs of the host, each by its rank.    *)
THEOREM PeersAreKnown == Spec => [](Regular => PeersKnown)
<1>1. LifecycleInv /\ StartInv => (Regular => PeersKnown)
  BY GetsAreRight, BasesAreSymmetric, PeersAreRight DEF LifecycleInv, Regular, PeersKnown
<1> QED
  BY <1>1, Invariant, StartInvariant, PTL
=============================================================================
