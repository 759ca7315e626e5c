------------------------------- MODULE Teams -------------------------------
(***************************************************************************)
(* Teams and their pSync blocks (shmem_team.c, and the team wrappers of    *)
(* collectives_c.c4).                                                      *)
(*                                                                         *)
(* Every PE keeps a bit mask of the pSync indices it believes free         *)
(* (psync_pool_avail) and, for every team it is a member of, the team's    *)
(* index (psync_idx) and which of the team's two collective pSyncs are     *)
(* free (psync_avail).  Nothing about this is stored centrally: the PEs    *)
(* agree because splitting a team ANDs the masks of the new members, and   *)
(* because they all make the same collective calls on a team in the same   *)
(* order.                                                                  *)
(*                                                                         *)
(* The program is a log of calls.  Every PE makes the calls of the log on  *)
(* the teams it belongs to, in log order (the OpenSHMEM rule); a PE that   *)
(* has made them all may add one.  Inside a call the PE runs one or more   *)
(* collectives on pSync blocks; of each collective the model keeps who has *)
(* entered it, with which block and value, and who has left, under the     *)
(* leaving rule of the algorithm (collectives.c).  Blocks are counted in   *)
(* units of SHMEM_SYNC_SIZE from shmem_internal_psync_pool.                *)
(***************************************************************************)
EXTENDS Integers, Sequences, FiniteSets, FiniteSetsExt

CONSTANTS
    num_pes,      \* PEs of the job
    TEAMS_MAX,    \* pSync indices (SHMEM_TEAMS_MAX)
    Nodes,        \* SHMEM_TEAM_SHARED: the PEs of each node
    Children,     \* sets of PEs the program asks splits for
    Programs,     \* the sets of calls a program may be made of
    MaxCalls      \* bound on the length of the log

PE == 0 .. num_pes - 1
Ops == {"sync", "bcast", "reduce", "split", "destroy"}

ASSUME TeamsAssumption ==
    /\ num_pes \in Nat \ {0}
    /\ TEAMS_MAX \in Nat /\ TEAMS_MAX >= 2
    /\ UNION Nodes = PE
    /\ \A A, B \in Nodes : A = B \/ A \cap B = {}
    /\ \A C \in Children : C # {} /\ C \subseteq PE
    /\ Programs \subseteq SUBSET Ops
    /\ MaxCalls \in Nat

VARIABLES
    log,          \* the calls of the program, in order
    at,           \* last log entry each PE has started
    pc,           \* collective each PE is in, or "idle"
    avail,        \* psync_pool_avail of each PE
    psync_idx,    \* psync_idx of each PE's teams
    psync_avail,  \* psync_avail of each PE's teams
    entered,      \* who entered which collective, with which block and value
    left,         \* who has left which collective
    ret           \* value each PE's split calls returned

vars == << log, at, pc, avail, psync_idx, psync_avail, entered, left, ret >>

None == -1
N_PSYNCS_PER_TEAM == 2
SHMEM_TEAM_WORLD == 0
SHMEM_TEAM_SHARED == 1
TeamIds == 0 .. MaxCalls + 1                \* the team made by entry n is n + 1
Phases == {"quiesce", "op", "barrier", "max"}

World == [id |-> SHMEM_TEAM_WORLD, mem |-> PE]
SharedOf(p) == [id |-> SHMEM_TEAM_SHARED, mem |-> CHOOSE A \in Nodes : p \in A]
Made(n) == [id |-> n + 1, mem |-> log[n].child]

\* The teams PE p holds a handle of.
Handles(p) ==
    {t \in {World, SharedOf(p)} \cup {Made(n) : n \in {m \in DOMAIN log : log[m].op = "split"}} :
        psync_idx[p][t.id] # None}

(***************************************************************************)
(* Where a collective's pSync is.                                          *)
(***************************************************************************)
\* choose_psync, a free pSync: &psync_pool[(psync_idx + i) * PSYNC_CHUNK_SIZE]
chosen_block(idx, i) == (idx + i) * N_PSYNCS_PER_TEAM
\* choose_psync after quiescing: &psync_pool[psync_idx * SHMEM_SYNC_SIZE]
quiesced_block(idx) == idx
\* shmem_internal_psync_barrier_pool[psync_idx * SHMEM_SYNC_SIZE]
barrier_block(idx) == TEAMS_MAX * N_PSYNCS_PER_TEAM + idx

(***************************************************************************)
(* Collectives in progress.                                                *)
(***************************************************************************)
\* The members of collective ph of call n.
Members(n, ph) == IF ph = "op" /\ log[n].op = "split"
                  THEN log[n].child ELSE log[n].team.mem

Entries(n, ph) == {e \in entered : e.n = n /\ e.ph = ph}
Inside(n, ph) == {e.pe : e \in Entries(n, ph)}
Left(n, ph) == {e.pe : e \in {x \in left : x.n = n /\ x.ph = ph}}
AllIn(n, ph) == Inside(n, ph) = Members(n, ph)

enter(p, n, ph, b, v) ==
    /\ pc' = [pc EXCEPT ![p] = ph]
    /\ entered' = entered \cup {[n |-> n, ph |-> ph, pe |-> p, block |-> b, val |-> v]}

leave(p, n, ph) == left' = left \cup {[n |-> n, ph |-> ph, pe |-> p]}

(***************************************************************************)
(* shmem_internal_bcast_linear with complete = 1: the root sends without   *)
(* waiting, the others return (and acknowledge) once its flag is there,    *)
(* the root once all have.  shmem_internal_op_to_all_linear: nobody        *)
(* returns before the root has everybody's contribution.  Syncs and        *)
(* barriers: nobody returns before everybody has entered.                  *)
(***************************************************************************)
\* Mutated form: the root waits for PE_size acknowledgements, not PE_size - 1.
bcast_returns_own_ack(p, n) ==
    IF p = log[n].root THEN Left(n, "op") = log[n].team.mem
                       ELSE log[n].root \in Inside(n, "op")

bcast_returns(p, n) ==
    LET root == log[n].root IN
    IF p = root THEN Left(n, "op") = log[n].team.mem \ {root}
                ELSE root \in Inside(n, "op")

may_leave(p, n, ph) ==
    IF ph = "op" /\ log[n].op = "bcast" THEN bcast_returns(p, n)
                                        ELSE AllIn(n, ph)

\* The sets contributed to the AND reduction, reduced.
psync_pool_avail_reduced(n) ==
    {i \in 0 .. TEAMS_MAX - 1 : \A e \in Entries(n, "op") : i \in e.val}

----------------------------------------------------------------------------
\* shmem_internal_team_init
Init ==
    /\ log = << >>
    /\ at = [p \in PE |-> 0]
    /\ pc = [p \in PE |-> "idle"]
    /\ avail = [p \in PE |-> (0 .. TEAMS_MAX - 1) \ {SHMEM_TEAM_WORLD, SHMEM_TEAM_SHARED}]
    /\ psync_idx = [p \in PE |-> [t \in TeamIds |->
                      IF t \in {SHMEM_TEAM_WORLD, SHMEM_TEAM_SHARED} THEN t ELSE None]]
    /\ psync_avail = [p \in PE |-> [t \in TeamIds |-> {0, 1}]]
    /\ entered = {}
    /\ left = {}
    /\ ret = [p \in PE |-> [n \in 1 .. MaxCalls |-> None]]

(***************************************************************************)
(* The calls.  next_call(p, n): entry n is the next one p has to make.     *)
(***************************************************************************)
next_call(p, n) ==
    /\ pc[p] = "idle"
    /\ n \in DOMAIN log
    /\ n = Min({m \in DOMAIN log : m > at[p] /\ p \in log[m].team.mem} \cup {MaxCalls + 1})

\* The program of a PE that has made every call of the log makes another one.
Calls(p) ==
    LET made == {log[n].op : n \in DOMAIN log}
        next == UNION {P \in Programs : made \subseteq P}
    IN  UNION {[op : next \cap {"sync", "reduce"}, team : {t}]
               \cup [op : next \cap {"bcast"}, team : {t}, root : t.mem]
               \cup [op : next \cap {"split"}, team : {t}, child : {C \in Children : C \subseteq t.mem}]
               \cup [op : next \cap {"destroy"}, team : {t} \ {World, SharedOf(p)}] :
               t \in Handles(p)}

program(p) ==
    /\ pc[p] = "idle"
    /\ Len(log) < MaxCalls
    /\ ~ \E n \in DOMAIN log : n > at[p] /\ p \in log[n].team.mem
    /\ \E c \in Calls(p) : log' = Append(log, c)
    /\ UNCHANGED << at, pc, avail, psync_idx, psync_avail, entered, left, ret >>

\* What follows choose_psync in call n with block b: the wrapped collective,
\* or in a split the AND reduction over the new members; the rest of the
\* parent team goes straight to the barrier.
run_chosen(p, n, b) ==
    IF p \in Members(n, "op")
    THEN enter(p, n, "op", b, IF log[n].op = "split" THEN avail[p] ELSE {})
    ELSE enter(p, n, "barrier", barrier_block(psync_idx[p][log[n].team.id]), {})

\* choose_psync with a pSync still marked available.
choose_psync(p, n) ==
    LET t == log[n].team.id
        i == Min(psync_avail[p][t])
    IN  /\ psync_avail[p][t] # {}
        /\ psync_avail' = [psync_avail EXCEPT ![p][t] = @ \ {i}]
        /\ run_chosen(p, n, chosen_block(psync_idx[p][t], i))

\* choose_psync with none: quiet and sync over the whole team first.
choose_psync_quiesce(p, n) ==
    LET t == log[n].team.id IN
    /\ psync_avail[p][t] = {}
    /\ enter(p, n, "quiesce", barrier_block(psync_idx[p][t]), {})
    /\ UNCHANGED psync_avail

quiesced(p) ==
    LET n == at[p]
        t == log[n].team.id
    IN  /\ pc[p] = "quiesce"
        /\ may_leave(p, n, "quiesce")
        /\ leave(p, n, "quiesce")
        /\ psync_avail' = [psync_avail EXCEPT ![p][t] = {0, 1} \ {0}]
        /\ run_chosen(p, n, quiesced_block(psync_idx[p][t]))
        /\ UNCHANGED << log, at, avail, psync_idx, ret >>

\* shmem_*_reduce, shmem_*_broadcast, shmem_team_split_strided up to the
\* first collective they run.
team_call(p) ==
    \E n \in 1 .. MaxCalls :
        /\ next_call(p, n)
        /\ log[n].op \in {"bcast", "reduce", "split"}
        /\ at' = [at EXCEPT ![p] = n]
        /\ choose_psync(p, n) \/ choose_psync_quiesce(p, n)
        /\ UNCHANGED << log, avail, psync_idx, left, ret >>

\* shmem_team_sync
team_sync(p) ==
    \E n \in 1 .. MaxCalls :
        /\ next_call(p, n)
        /\ log[n].op = "sync"
        /\ at' = [at EXCEPT ![p] = n]
        /\ enter(p, n, "barrier", barrier_block(psync_idx[p][log[n].team.id]), {})
        /\ UNCHANGED << log, avail, psync_idx, psync_avail, left, ret >>

\* shmem_internal_team_destroy: local to the PE.
team_destroy(p) ==
    \E n \in 1 .. MaxCalls :
        /\ next_call(p, n)
        /\ log[n].op = "destroy"
        /\ at' = [at EXCEPT ![p] = n]
        /\ avail' = [avail EXCEPT ![p] = @ \cup {psync_idx[p][log[n].team.id]}]
        /\ psync_idx' = [psync_idx EXCEPT ![p][log[n].team.id] = None]
        /\ UNCHANGED << log, pc, psync_avail, entered, left, ret >>

\* Mutated form: release_psyncs frees the pSyncs after every collective.
release_psyncs_any(p, t) == psync_avail' = [psync_avail EXCEPT ![p][t] = {0, 1}]

\* release_psyncs after a broadcast or reduction does nothing.
release_psyncs(p, t) == UNCHANGED psync_avail

\* shmem_*_broadcast or shmem_*_reduce returns.
coll_return(p) ==
    LET n == at[p] IN
    /\ pc[p] = "op"
    /\ log[n].op # "split"
    /\ may_leave(p, n, "op")
    /\ leave(p, n, "op")
    /\ pc' = [pc EXCEPT ![p] = "idle"]
    /\ release_psyncs(p, log[n].team.id)
    /\ UNCHANGED << log, at, avail, psync_idx, entered, ret >>

\* Mutated form: the bit of the index is not cleared.
split_reserve_keep(p, n) ==
    LET free == psync_pool_avail_reduced(n) IN
    IF free = {}
    THEN UNCHANGED << avail, psync_idx >>
    ELSE /\ psync_idx' = [psync_idx EXCEPT ![p][n + 1] = Min(free)]
         /\ UNCHANGED avail

\* A member of the new team has the reduced mask: it takes the least index
\* all members have free, if any, and goes on to the parent's barrier.
split_reserve(p, n) ==
    LET free == psync_pool_avail_reduced(n) IN
    IF free = {}
    THEN UNCHANGED << avail, psync_idx >>
    ELSE /\ avail' = [avail EXCEPT ![p] = @ \ {Min(free)}]
         /\ psync_idx' = [psync_idx EXCEPT ![p][n + 1] = Min(free)]

split_reduced(p) ==
    LET n == at[p]
        t == log[n].team.id
    IN  /\ pc[p] = "op"
        /\ log[n].op = "split"
        /\ may_leave(p, n, "op")
        /\ leave(p, n, "op")
        /\ split_reserve(p, n)
        /\ release_psyncs(p, t)
        /\ enter(p, n, "barrier", barrier_block(psync_idx[p][t]), {})
        /\ UNCHANGED << log, at, ret >>

\* The sync or the barrier ends; release_psyncs(SYNC) frees both pSyncs.  A
\* split then takes the first one for the MAX reduction of team_ret_val.
barrier_return(p) ==
    LET n == at[p]
        t == log[n].team.id
        team_ret_val == IF p \in log[n].child /\ psync_idx[p][n + 1] = None THEN 1 ELSE 0
    IN  /\ pc[p] = "barrier"
        /\ may_leave(p, n, "barrier")
        /\ leave(p, n, "barrier")
        /\ IF log[n].op = "sync"
           THEN /\ pc' = [pc EXCEPT ![p] = "idle"]
                /\ psync_avail' = [psync_avail EXCEPT ![p][t] = {0, 1}]
                /\ UNCHANGED entered
           ELSE /\ psync_avail' = [psync_avail EXCEPT ![p][t] = {0, 1} \ {0}]
                /\ enter(p, n, "max", chosen_block(psync_idx[p][t], 0), {team_ret_val})
        /\ UNCHANGED << log, at, avail, psync_idx, ret >>

\* Mutated form: the PE returns its own team_ret_val.
split_ret_own(p, n) == Max(UNION {e.val : e \in {x \in Entries(n, "max") : x.pe = p}})

\* *team_ret_val_reduced
split_ret(p, n) == Max(UNION {e.val : e \in Entries(n, "max")})

split_return(p) ==
    LET n == at[p] IN
    /\ pc[p] = "max"
    /\ may_leave(p, n, "max")
    /\ leave(p, n, "max")
    /\ ret' = [ret EXCEPT ![p][n] = split_ret(p, n)]
    /\ pc' = [pc EXCEPT ![p] = "idle"]
    /\ release_psyncs(p, log[n].team.id)
    /\ UNCHANGED << log, at, avail, psync_idx, entered >>

\* A call the others have made, or the next collective of a call.
step(p) ==
    \/ team_call(p) \/ team_sync(p) \/ team_destroy(p)
    \/ quiesced(p) \/ coll_return(p)
    \/ split_reduced(p) \/ barrier_return(p) \/ split_return(p)

Next == \E p \in PE : program(p) \/ step(p)

Spec == Init /\ [][Next]_vars

----------------------------------------------------------------------------
(***************************************************************************)
(* Properties.                                                             *)
(***************************************************************************)
\* The masks hold indices below TEAMS_MAX, a team's index is one of them or
\* none, and a split returns 0 or 1 (shmem_internal_team_t and its statics).
TypeOK ==
    /\ \A n \in DOMAIN log : log[n].op \in Ops /\ log[n].team.mem \subseteq PE
    /\ at \in [PE -> 0 .. MaxCalls]
    /\ pc \in [PE -> Phases \cup {"idle"}]
    /\ avail \in [PE -> SUBSET (0 .. TEAMS_MAX - 1)]
    /\ psync_idx \in [PE -> [TeamIds -> 0 .. TEAMS_MAX - 1 \cup {None}]]
    /\ psync_avail \in [PE -> [TeamIds -> SUBSET {0, 1}]]
    /\ ret \in [PE -> [1 .. MaxCalls -> {0, 1, None}]]

\* The distributed bookkeeping of pSync indices agrees: at every PE the
\* indices its teams hold are pairwise different and are exactly the ones its
\* mask has reserved, and the members of a team hold the same index for it
\* (split_strided reserves from an AND of masks nobody may change meanwhile).
PsyncOwnership ==
    /\ TypeOK
    /\ \A p \in PE, t, u \in TeamIds :
          t # u /\ psync_idx[p][t] # None => psync_idx[p][t] # psync_idx[p][u]
    /\ \A p \in PE :
          avail[p] = (0 .. TEAMS_MAX - 1) \ {psync_idx[p][t] : t \in TeamIds}
    /\ \A p, q \in PE, t \in TeamIds :
          psync_idx[p][t] # None /\ psync_idx[q][t] # None
            => psync_idx[p][t] = psync_idx[q][t]

\* Two different collectives on one pSync block while some PE, a member of
\* both, has left neither.  Syncs of one team may follow each other at once on
\* the same block (SyncLinear, SyncTree and SyncDissem show it).
Collide(e, f) ==
    /\ e.block = f.block
    /\ << e.n, e.ph >> # << f.n, f.ph >>
    /\ ~ /\ {e.ph, f.ph} \subseteq {"quiesce", "barrier"}
         /\ log[e.n].team = log[f.n].team
    /\ (Members(e.n, e.ph) \ Left(e.n, e.ph)) \cap (Members(f.n, f.ph) \ Left(f.n, f.ph)) # {}

idx_of(e) == IF log[e.n].team.id \in {SHMEM_TEAM_WORLD, SHMEM_TEAM_SHARED}
             THEN log[e.n].team.id
             ELSE LET m == log[e.n].team.id - 1 IN Min(psync_pool_avail_reduced(m))

\* All who enter one collective do so on the same pSync block, and two
\* collectives on teams of the same pSync index, one of them perhaps made
\* after the other was destroyed, never use a block at the same time at one PE:
\* back-to-back collectives alternate between two blocks and quiesce the
\* team before they use the first one again (choose_psync, release_psyncs).
OwnPsyncSafe ==
    \A e, f \in entered :
        /\ e.n = f.n /\ e.ph = f.ph => e.block = f.block
        /\ idx_of(e) = idx_of(f) => ~ Collide(e, f)

\* choose_psync "returns a psync from the given team that can be safely used
\* for the specified collective operation": the root of a broadcast does not
\* send its flag into a block that the PE it is sent to still has to use for
\* an earlier collective.
PsyncSafe ==
    \A e, f \in entered :
        e.n < f.n /\ log[f.n].op = "bcast" /\ f.ph = "op" /\ f.pe = log[f.n].root => ~ Collide(e, f)

\* All members of the parent team get the same result from a split, and when
\* it is 0 exactly the requested PEs have the new team, else nobody has:
\* split_strided's last reduction "assures all PEs return the same value".
SplitAllOrNothing ==
    \A n \in DOMAIN log : log[n].op = "split" =>
        LET done == {p \in PE : ret[p][n] # None}
            ended == {p \in PE : at[p] > n}
        IN  /\ \A p, q \in done : ret[p][n] = ret[q][n]
            /\ \A p \in done \ ended :
                  (psync_idx[p][n + 1] # None) <=> (ret[p][n] = 0 /\ p \in log[n].child)

\* A PE inside a collective team call does not wait for ever: in every state
\* where a PE is in one, some PE can take its next step, of this call or of one
\* it has still to make (choose_psync, split_strided and the collectives all
\* wait for other members).  The log is finite and no step of a PE is ever
\* undone, so with PEs that keep running every call returns.
NobodyStuck ==
    (\E p \in PE : pc[p] # "idle") => ENABLED (\E p \in PE : step(p))
=============================================================================
