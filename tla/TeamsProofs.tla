---------------------------- MODULE TeamsProofs -----------------------------
(***************************************************************************)
(* Proofs about the creation of teams, for any number of PEs, calls and    *)
(* pSync blocks: at every PE the teams hold different blocks, the ones its *)
(* mask has reserved, and the members of a team the same (PsyncOwnership); *)
(* a split succeeds at all its members or at none (SplitAllOrNothing).     *)
(*                                                                         *)
(* The PEs make the calls of log in its order, each at its own pace.       *)
(* TeamsInv says what a PE's place in the log implies.  LogInv: a call is  *)
(* on a default team or on one that an earlier split made.  PlaceInv and   *)
(* EntryInv: a PE's contribution to a collective is in entered once it has *)
(* got there, and not before.  ContributedInv: in the reduction its mask   *)
(* is what it contributed, so that no index leaves its mask between the    *)
(* reduction and the reservation.  TakenInv and HeldInv: a member past the *)
(* reduction has the least index of the reduced mask, until its call of    *)
(* destroy.  ResultInv: what the members of a split return is what the     *)
(* same reduced mask says.                                                 *)
(*                                                                         *)
(* PsyncOwnership follows: the index a member reserves is in the reduced   *)
(* mask, hence in its own, which is still the one it contributed; no team  *)
(* of its holds it, and every other member computes the same one.          *)
(***************************************************************************)
EXTENDS Teams, WellFoundedInduction, TLAPS

-----------------------------------------------------------------------------
(* The inductive invariant.                                                *)

AnyTeam == [id : TeamIds, mem : SUBSET PE]
AnyCall ==
  [op : {"sync", "reduce", "destroy"}, team : AnyTeam]
  \cup [op : {"bcast"}, team : AnyTeam, root : PE]
  \cup [op : {"split"}, team : AnyTeam, child : SUBSET PE]
Default == {SHMEM_TEAM_WORLD, SHMEM_TEAM_SHARED}

(* All the new members have contributed to the reduction of split n, and   *)
(* it found an index.                                                      *)
Reserves(n) == AllIn(n, "op") /\ psync_pool_avail_reduced(n) # {}

(* A call is on a default team or on one that an earlier split made and    *)
(* no earlier call destroys.                                               *)
SoundCall(n) ==
  /\ log[n].op = "split" => log[n].child # {} /\ log[n].child \subseteq log[n].team.mem
  /\ log[n].team.id \in Default \/
       \E m \in 1 .. n - 1 : /\ log[n].team.id = m + 1
                             /\ log[m].op = "split" /\ log[n].team.mem = log[m].child
                             /\ Reserves(m)
  /\ log[n].op = "destroy" => log[n].team.id \notin Default
  /\ \A m \in 1 .. n - 1 : log[m].op = "destroy" => log[m].team.id # log[n].team.id

LogInv ==
  /\ log \in Seq(AnyCall) /\ Len(log) <= MaxCalls
  /\ \A n \in 1 .. Len(log) : SoundCall(n)

(* Where a PE is, and in which calls it can be there. *)
PlaceInv ==
  \A p \in PE :
    /\ at[p] \in 0 .. Len(log)
    /\ pc[p] # "idle" => at[p] # 0 /\ p \in log[at[p]].team.mem
    /\ pc[p] = "quiesce" => log[at[p]].op \in {"bcast", "reduce", "split"}
    /\ pc[p] = "op" => /\ log[at[p]].op \in {"bcast", "reduce", "split"}
                       /\ p \in Members(at[p], "op")
    /\ pc[p] = "barrier" => log[at[p]].op \in {"sync", "split"}
    /\ pc[p] = "max" => log[at[p]].op = "split"

(* p is past the reduction of split n. *)
Past(p, n) == at[p] > n \/ (at[p] = n /\ pc[p] \notin {"quiesce", "op"})

(* An entry is of a member that has got to that collective. *)
EntryInv ==
  \A e \in entered :
    /\ e.n \in 1 .. Len(log) /\ e.ph \in Phases
    /\ e.pe \in Members(e.n, e.ph) /\ e.pe \in PE
    /\ at[e.pe] >= e.n
    /\ at[e.pe] = e.n /\ e.ph = "op" => pc[e.pe] # "quiesce"
    /\ at[e.pe] = e.n /\ e.ph = "max" => pc[e.pe] \in {"max", "idle"}

(* In the reduction of a split a PE's mask is what it has contributed. *)
ContributedInv ==
  \A p \in PE : pc[p] = "op" /\ log[at[p]].op = "split" =>
    \E e \in Entries(at[p], "op") : e.pe = p /\ e.val = avail[p]

(* A member past the split has its index, unless it destroyed the team. *)
TakenInv ==
  \A p \in PE, n \in 1 .. Len(log) :
    log[n].op = "split" /\ p \in log[n].child /\ Past(p, n) =>
      /\ AllIn(n, "op")
      /\ \/ psync_pool_avail_reduced(n) = {}
         \/ psync_idx[p][n + 1] # None
         \/ \E m \in 1 .. Len(log) : /\ m <= at[p] /\ log[m].op = "destroy"
                                     /\ log[m].team.id = n + 1

(* The index of a team is the least of the reduced mask, and the team has  *)
(* not been destroyed by this PE.                                          *)
Held(p, t) ==
  /\ t - 1 \in 1 .. Len(log) /\ log[t - 1].op = "split"
  /\ p \in log[t - 1].child /\ Past(p, t - 1) /\ Reserves(t - 1)
  /\ psync_idx[p][t] = Min(psync_pool_avail_reduced(t - 1))
  /\ \A m \in 1 .. Len(log) : log[m].op = "destroy" /\ log[m].team.id = t => at[p] < m

HeldInv ==
  \A p \in PE :
    /\ \A t \in Default : psync_idx[p][t] = t
    /\ \A t \in TeamIds \ Default : psync_idx[p][t] # None => Held(p, t)

(* What a split has its members reduce, and return. *)
Failure(n) == IF psync_pool_avail_reduced(n) = {} THEN 1 ELSE 0
ResultInv ==
  /\ \A e \in entered : e.ph = "max" =>
       /\ log[e.n].op = "split"
       /\ e.val = {IF e.pe \in log[e.n].child THEN Failure(e.n) ELSE 0}
  /\ \A p \in PE : pc[p] = "max" => \E e \in Entries(at[p], "max") : e.pe = p
  /\ \A p \in PE, n \in 1 .. MaxCalls : ret[p][n] # None =>
       /\ n \in 1 .. Len(log) /\ log[n].op = "split" /\ AllIn(n, "max")
       /\ ret[p][n] = Failure(n)
       /\ at[p] >= n /\ (at[p] = n => pc[p] = "idle")

TeamsInv ==
  /\ TypeOK /\ LogInv /\ PlaceInv /\ EntryInv /\ ContributedInv /\ TakenInv /\ HeldInv
  /\ PsyncOwnership /\ ResultInv

-----------------------------------------------------------------------------
(* Lemmas on the operators.                                                *)

Less == OpToRel(<, Nat)
(* The order of the naturals, as the relation the library reasons about. *)
LEMMA LessIsWellFounded == IsWellFoundedOn(Less, Nat)
  BY NatLessThanWellFounded DEF Less
(* It is the order. *)
LEMMA LessMeaning == \A m, n \in Nat : m < n => <<m, n>> \in Less
  BY DEF Less, OpToRel

(* Min is the minimum, of an infinite set of naturals too. *)
LEMMA MinIsLeast ==
  ASSUME NEW S, S \subseteq Nat, S # {}
  PROVE  Min(S) \in S /\ \A y \in S : Min(S) <= y
<1>1. PICK x \in S : \A y \in S : <<y, x>> \notin Less
  BY LessIsWellFounded, WFMin
<1>2. ASSUME NEW y \in S PROVE x <= y
  <2>1. x \in Nat /\ y \in Nat /\ <<y, x>> \notin Less
    BY <1>1
  <2>2. ~ (y < x)
    BY <2>1, LessMeaning
  <2> QED
    BY <2>1, <2>2
<1> QED
  BY <1>2 DEF Min

(* The entries of a log. *)
LEMMA LogCall ==
  ASSUME LogInv, NEW n \in 1 .. Len(log)
  PROVE  /\ log[n] \in AnyCall /\ log[n].op \in Ops /\ SoundCall(n)
         /\ log[n].team \in AnyTeam /\ log[n].team.mem \subseteq PE /\ log[n].team.id \in TeamIds
         /\ n \in Nat /\ n <= MaxCalls
<1>1. log[n] \in AnyCall /\ n \in Nat /\ n <= MaxCalls /\ SoundCall(n)
  BY TeamsAssumption DEF LogInv
<1>2. log[n].op \in Ops /\ log[n].team \in AnyTeam
  BY <1>1 DEF AnyCall, Ops
<1>3. log[n].team.mem \subseteq PE /\ log[n].team.id \in TeamIds
  BY <1>2 DEF AnyTeam
<1> QED
  BY <1>1, <1>2, <1>3

(* next_call skips the calls on teams the PE is not in, and no other. *)
IsNext(p, n) ==
  /\ n \in 1 .. Len(log) /\ at[p] < n /\ p \in log[n].team.mem
  /\ \A m \in 1 .. Len(log) : at[p] < m /\ m < n => p \notin log[m].team.mem

(* The next call of a PE. *)
LEMMA NextCall ==
  ASSUME TeamsInv, NEW p \in PE, NEW n, next_call(p, n)
  PROVE  pc[p] = "idle" /\ IsNext(p, n)
<1> DEFINE S == {m \in DOMAIN log : m > at[p] /\ p \in log[m].team.mem} \cup {MaxCalls + 1}
<1>1. DOMAIN log = 1 .. Len(log) /\ Len(log) \in Nat /\ Len(log) <= MaxCalls
  BY DEF TeamsInv, LogInv
<1>2. S \subseteq Nat /\ S # {}
  BY <1>1, TeamsAssumption
<1>3. n = Min(S) /\ n \in 1 .. Len(log) /\ pc[p] = "idle"
  BY <1>1 DEF next_call
<1>4. n \in S /\ \A y \in S : n <= y
  <2> HIDE DEF S
  <2> QED
    BY <1>2, <1>3, MinIsLeast
<1>5. n # MaxCalls + 1
  BY <1>1, <1>3, TeamsAssumption
<1>6. ASSUME NEW m \in 1 .. Len(log), at[p] < m, m < n, p \in log[m].team.mem PROVE FALSE
  <2>1. m \in S /\ m \in Nat /\ n \in Nat
    BY <1>6, <1>1, <1>3, TeamsAssumption DEF TeamsInv, PlaceInv
  <2> HIDE DEF S
  <2> QED
    BY <2>1, <1>4, <1>6
<1>7. at[p] < n /\ p \in log[n].team.mem
  BY <1>4, <1>5, <1>1, TeamsAssumption DEF TeamsInv, PlaceInv
<1> QED
  BY <1>3, <1>6, <1>7 DEF IsNext

-----------------------------------------------------------------------------
(* What every step of a PE in the calls of the log has in common.          *)

Order == {<<"quiesce", "op">>, <<"quiesce", "barrier">>, <<"op", "barrier">>, <<"op", "idle">>,
          <<"barrier", "max">>, <<"barrier", "idle">>, <<"max", "idle">>}

Enters(p, e) ==
  /\ e.pe = p /\ e.n = at'[p] /\ e.ph = pc'[p]
  /\ e.n \in 1 .. Len(log) /\ e.ph \in Phases /\ p \in Members(e.n, e.ph)

Moves(p) ==
  /\ log' = log /\ at' \in [PE -> 0 .. MaxCalls] /\ pc' \in [PE -> Phases \cup {"idle"}]
  /\ \A q \in PE \ {p} : at'[q] = at[q] /\ pc'[q] = pc[q]
  /\ \/ at'[p] = at[p] /\ <<pc[p], pc'[p]>> \in Order
     \/ pc[p] = "idle" /\ IsNext(p, at'[p])
  /\ log[at'[p]].op = "split" /\ pc'[p] \notin {"quiesce", "op"} =>
       \/ p \notin log[at'[p]].child
       \/ at'[p] = at[p] /\ pc[p] \in {"op", "barrier", "max"}
  /\ \/ entered' = entered
     \/ \E e : Enters(p, e) /\ entered' = entered \cup {e}

(* A collective call begins. *)
LEMMA TeamCallMoves == ASSUME TeamsInv, NEW p \in PE, team_call(p) PROVE Moves(p)
<1>1. PICK n \in 1 .. MaxCalls :
         /\ next_call(p, n)
         /\ log[n].op \in {"bcast", "reduce", "split"}
         /\ at' = [at EXCEPT ![p] = n]
         /\ choose_psync(p, n) \/ choose_psync_quiesce(p, n)
         /\ log' = log
  BY DEF team_call
<1>2. pc[p] = "idle" /\ IsNext(p, n) /\ n \in 1 .. Len(log) /\ p \in log[n].team.mem
  BY <1>1, NextCall DEF IsNext
<1>3. at \in [PE -> 0 .. MaxCalls] /\ pc \in [PE -> Phases \cup {"idle"}]
  BY DEF TeamsInv, TypeOK
<1>4. at' \in [PE -> 0 .. MaxCalls] /\ at'[p] = n /\ \A q \in PE \ {p} : at'[q] = at[q]
  BY <1>1, <1>3, TeamsAssumption
<1>5. \E ph \in Phases : \E b, v : /\ enter(p, n, ph, b, v) /\ p \in Members(n, ph)
                                   /\ ph \notin {"quiesce", "op"} => p \notin Members(n, "op")
  <2>1. CASE choose_psync_quiesce(p, n)
    <3>1. \E b, v : enter(p, n, "quiesce", b, v)
      BY <2>1 DEF choose_psync_quiesce
    <3> QED
      BY <3>1, <1>2 DEF Phases, Members
  <2>2. CASE choose_psync(p, n)
    <3>1. CASE p \in Members(n, "op")
      <4>1. \E b, v : enter(p, n, "op", b, v)
        BY <2>2, <3>1 DEF choose_psync, run_chosen
      <4> QED
        BY <4>1, <3>1 DEF Phases
    <3>2. CASE p \notin Members(n, "op")
      <4>1. \E b, v : enter(p, n, "barrier", b, v)
        BY <2>2, <3>2 DEF choose_psync, run_chosen
      <4>2. p \in Members(n, "barrier")
        BY <1>2 DEF Members
      <4> QED
        BY <4>1, <4>2, <3>2 DEF Phases
    <3> QED
      BY <3>1, <3>2
  <2> QED
    BY <1>1, <2>1, <2>2
<1>6. PICK ph \in Phases : \E b, v : /\ enter(p, n, ph, b, v) /\ p \in Members(n, ph)
                                     /\ ph \notin {"quiesce", "op"} => p \notin Members(n, "op")
  BY <1>5
<1>7. pc' \in [PE -> Phases \cup {"idle"}] /\ pc'[p] = ph /\ \A q \in PE \ {p} : pc'[q] = pc[q]
  BY <1>6, <1>3 DEF enter
<1>8. \E e : Enters(p, e) /\ entered' = entered \cup {e}
  BY <1>2, <1>4, <1>6, <1>7 DEF enter, Enters
<1>9. log[n].op = "split" /\ ph \notin {"quiesce", "op"} => p \notin log[n].child
  BY <1>6 DEF Members
<1> QED
  BY <1>1, <1>2, <1>4, <1>7, <1>8, <1>9 DEF Moves

(* team_sync begins. *)
LEMMA TeamSyncMoves == ASSUME TeamsInv, NEW p \in PE, team_sync(p) PROVE Moves(p)
<1>1. PICK n \in 1 .. MaxCalls :
         /\ next_call(p, n) /\ log[n].op = "sync"
         /\ at' = [at EXCEPT ![p] = n] /\ log' = log
         /\ enter(p, n, "barrier", barrier_block(psync_idx[p][log[n].team.id]), {})
  BY DEF team_sync
<1>2. pc[p] = "idle" /\ IsNext(p, n) /\ n \in 1 .. Len(log) /\ p \in log[n].team.mem
  BY <1>1, NextCall DEF IsNext
<1>3. at \in [PE -> 0 .. MaxCalls] /\ pc \in [PE -> Phases \cup {"idle"}]
  BY DEF TeamsInv, TypeOK
<1>4. at' \in [PE -> 0 .. MaxCalls] /\ at'[p] = n /\ \A q \in PE \ {p} : at'[q] = at[q]
  BY <1>1, <1>3, TeamsAssumption
<1>5. /\ pc' \in [PE -> Phases \cup {"idle"}] /\ pc'[p] = "barrier"
      /\ \A q \in PE \ {p} : pc'[q] = pc[q]
  BY <1>1, <1>3 DEF enter, Phases
<1>6. \E e : Enters(p, e) /\ entered' = entered \cup {e}
  BY <1>1, <1>2, <1>4, <1>5 DEF enter, Enters, Members, Phases
<1> QED
  BY <1>1, <1>2, <1>4, <1>5, <1>6 DEF Moves

(* A team is destroyed. *)
LEMMA TeamDestroyMoves == ASSUME TeamsInv, NEW p \in PE, team_destroy(p) PROVE Moves(p)
<1>1. PICK n \in 1 .. MaxCalls :
         /\ next_call(p, n) /\ log[n].op = "destroy"
         /\ at' = [at EXCEPT ![p] = n] /\ log' = log /\ pc' = pc /\ entered' = entered
  BY DEF team_destroy
<1>2. pc[p] = "idle" /\ IsNext(p, n) /\ n \in 1 .. Len(log)
  BY <1>1, NextCall DEF IsNext
<1>3. at \in [PE -> 0 .. MaxCalls] /\ pc \in [PE -> Phases \cup {"idle"}]
  BY DEF TeamsInv, TypeOK
<1>4. at' \in [PE -> 0 .. MaxCalls] /\ at'[p] = n /\ \A q \in PE \ {p} : at'[q] = at[q]
  BY <1>1, <1>3, TeamsAssumption
<1> QED
  BY <1>1, <1>2, <1>3, <1>4 DEF Moves

(* The other steps go on in the call the PE is in. *)
LEMMA GoesOnMoves ==
  ASSUME TeamsInv, NEW p \in PE, log' = log, at' = at,
         NEW ph \in Phases \cup {"idle"}, pc' = [pc EXCEPT ![p] = ph],
         <<pc[p], ph>> \in Order,
         log[at[p]].op = "split" /\ ph \notin {"quiesce", "op"} =>
           p \notin log[at[p]].child \/ pc[p] \in {"op", "barrier", "max"},
         entered' = entered \/
           (ph \in Phases /\ p \in Members(at[p], ph) /\ \E b, v : enter(p, at[p], ph, b, v))
  PROVE  Moves(p)
<1>1. at \in [PE -> 0 .. MaxCalls] /\ pc \in [PE -> Phases \cup {"idle"}]
  BY DEF TeamsInv, TypeOK
<1>2. pc' \in [PE -> Phases \cup {"idle"}] /\ pc'[p] = ph /\ \A q \in PE \ {p} : pc'[q] = pc[q]
  BY <1>1
<1>3. pc[p] # "idle" /\ at[p] \in 1 .. Len(log)
  BY DEF Order, TeamsInv, PlaceInv, LogInv
<1>4. CASE entered' = entered
  BY <1>1, <1>2, <1>3, <1>4 DEF Moves
<1>5. CASE ph \in Phases /\ p \in Members(at[p], ph) /\ \E b, v : enter(p, at[p], ph, b, v)
  <2>1. PICK b, v : enter(p, at[p], ph, b, v)
    BY <1>5
  <2>2. \E e : Enters(p, e) /\ entered' = entered \cup {e}
    BY <2>1, <1>2, <1>3, <1>5 DEF enter, Enters
  <2> QED
    BY <1>1, <1>2, <1>3, <2>2 DEF Moves
<1> QED
  BY <1>4, <1>5

(* The sync before a collective is over. *)
LEMMA QuiescedMoves == ASSUME TeamsInv, NEW p \in PE, quiesced(p) PROVE Moves(p)
<1>1. /\ pc[p] = "quiesce" /\ log' = log /\ at' = at
      /\ \E b : run_chosen(p, at[p], b)
  BY DEF quiesced
<1>2. at[p] \in 1 .. Len(log) /\ p \in log[at[p]].team.mem
  BY <1>1 DEF TeamsInv, PlaceInv, LogInv
<1>3. CASE p \in Members(at[p], "op")
  <2>1. PICK b, v : enter(p, at[p], "op", b, v)
    BY <1>1, <1>3 DEF run_chosen
  <2> QED
    BY <1>1, <1>3, <2>1, GoesOnMoves DEF Order, Phases, enter
<1>4. CASE p \notin Members(at[p], "op")
  <2>1. PICK b, v : enter(p, at[p], "barrier", b, v)
    BY <1>1, <1>4 DEF run_chosen
  <2>2. p \in Members(at[p], "barrier")
    BY <1>2 DEF Members
  <2>3. log[at[p]].op = "split" => p \notin log[at[p]].child
    BY <1>4 DEF Members
  <2> QED
    BY <1>1, <2>1, <2>2, <2>3, GoesOnMoves DEF Order, Phases, enter
<1> QED
  BY <1>3, <1>4

(* A collective returns. *)
LEMMA CollReturnMoves == ASSUME TeamsInv, NEW p \in PE, coll_return(p) PROVE Moves(p)
  BY GoesOnMoves DEF coll_return, Order, Phases

(* The reduction of the masks is over. *)
LEMMA SplitReducedMoves == ASSUME TeamsInv, NEW p \in PE, split_reduced(p) PROVE Moves(p)
<1>1. /\ pc[p] = "op" /\ log' = log /\ at' = at
      /\ \E b : enter(p, at[p], "barrier", b, {})
  BY DEF split_reduced
<1>2. p \in Members(at[p], "barrier")
  BY <1>1 DEF TeamsInv, PlaceInv, Members
<1> QED
  BY <1>1, <1>2, GoesOnMoves DEF Order, Phases, enter

(* The barrier that follows the reservation is over. *)
LEMMA BarrierReturnMoves == ASSUME TeamsInv, NEW p \in PE, barrier_return(p) PROVE Moves(p)
<1>1. /\ pc[p] = "barrier" /\ log' = log /\ at' = at
      /\ \/ pc' = [pc EXCEPT ![p] = "idle"] /\ entered' = entered
         \/ \E b, v : enter(p, at[p], "max", b, v)
  BY DEF barrier_return
<1>2. p \in Members(at[p], "max")
  BY <1>1 DEF TeamsInv, PlaceInv, Members
<1> QED
  BY <1>1, <1>2, GoesOnMoves DEF Order, Phases, enter

(* A split returns. *)
LEMMA SplitReturnMoves == ASSUME TeamsInv, NEW p \in PE, split_return(p) PROVE Moves(p)
  BY GoesOnMoves DEF split_return, Order, Phases

-----------------------------------------------------------------------------
(* What a step keeps.                                                      *)

(* A reduction that everyone has entered stays as it is. *)
LEMMA MovesFreeze ==
  ASSUME TeamsInv, NEW p \in PE, Moves(p),
         NEW n \in 1 .. Len(log), NEW ph \in {"op", "max"}, AllIn(n, ph)
  PROVE  Entries(n, ph)' = Entries(n, ph) /\ AllIn(n, ph)'
<1>1. log' = log
  BY DEF Moves
<1>2. entered' = entered \/ \E e : Enters(p, e) /\ entered' = entered \cup {e}
  BY DEF Moves
<1>3. Entries(n, ph)' = Entries(n, ph)
  <2>1. CASE entered' = entered
    BY <2>1 DEF Entries
  <2>2. CASE \E e : Enters(p, e) /\ entered' = entered \cup {e}
    <3>1. PICK e : Enters(p, e) /\ entered' = entered \cup {e}
      BY <2>2
    <3>2. ASSUME e.n = n, e.ph = ph PROVE FALSE
      <4>1. PICK f \in entered : f.n = n /\ f.ph = ph /\ f.pe = p
        BY <3>1, <3>2 DEF Enters, AllIn, Inside, Entries
      <4>2. at[p] >= n /\ (at[p] = n /\ ph = "op" => pc[p] # "quiesce")
                       /\ (at[p] = n /\ ph = "max" => pc[p] \in {"max", "idle"})
        BY <4>1 DEF TeamsInv, EntryInv
      <4>3. at'[p] = n /\ pc'[p] = ph
        BY <3>1, <3>2 DEF Enters
      <4>4. \/ at'[p] = at[p] /\ <<pc[p], pc'[p]>> \in Order
            \/ IsNext(p, at'[p])
        BY DEF Moves
      <4>5. at[p] \in Nat
        BY DEF TeamsInv, PlaceInv, LogInv
      <4>6. ~ IsNext(p, n)
        BY <4>2, <4>5 DEF IsNext
      <4> QED
        BY <4>2, <4>3, <4>4, <4>6 DEF Order
    <3> QED
      BY <3>1, <3>2 DEF Entries
  <2> QED
    BY <1>2, <2>1, <2>2
<1> QED
  BY <1>1, <1>3 DEF AllIn, Inside, Members

(* Once all members have contributed, the reduced mask and what follows from it stay. *)
LEMMA MovesReserves ==
  ASSUME TeamsInv, NEW p \in PE, Moves(p), NEW n \in 1 .. Len(log), AllIn(n, "op")
  PROVE  /\ AllIn(n, "op")' /\ psync_pool_avail_reduced(n)' = psync_pool_avail_reduced(n)
         /\ Failure(n)' = Failure(n) /\ (Reserves(n) => Reserves(n)')
<1>1. Entries(n, "op")' = Entries(n, "op") /\ AllIn(n, "op")'
  BY MovesFreeze
<1>2. psync_pool_avail_reduced(n)' = psync_pool_avail_reduced(n)
  BY <1>1 DEF psync_pool_avail_reduced
<1> QED
  BY <1>1, <1>2 DEF Failure, Reserves

(* A PE does not go back. *)
LEMMA MovesPast ==
  ASSUME TeamsInv, NEW p \in PE, Moves(p), NEW q \in PE, NEW n \in 1 .. Len(log), Past(q, n)
  PROVE  Past(q, n)'
<1>1. CASE q # p
  BY <1>1 DEF Moves, Past
<1>2. CASE q = p
  <2>1. at[p] \in Nat /\ n \in Nat
    BY DEF TeamsInv, PlaceInv, LogInv
  <2>2. CASE at'[p] = at[p] /\ <<pc[p], pc'[p]>> \in Order
    BY <1>2, <2>1, <2>2 DEF Past, Order
  <2>3. CASE IsNext(p, at'[p])
    <3>1. at'[p] > at[p] /\ at'[p] \in Nat
      BY <2>3, <2>1 DEF IsNext, TeamsInv, LogInv
    <3> QED
      BY <1>2, <3>1, <2>1 DEF Past
  <2> QED
    BY <2>2, <2>3 DEF Moves
<1> QED
  BY <1>1, <1>2

(* A member gets past a split in one way only: out of its reduction. *)
LEMMA MovesPastSplit ==
  ASSUME TeamsInv, NEW p \in PE, Moves(p), NEW q \in PE, NEW n \in 1 .. Len(log),
         log[n].op = "split", q \in log[n].child, Past(q, n)', ~ Past(q, n)
  PROVE  q = p /\ at[p] = n /\ pc[p] = "op" /\ at' = at
<1>1. q = p
  BY DEF Moves, Past
<1>2. at[p] \in Nat /\ n \in Nat /\ p \in log[n].team.mem
  BY <1>1, LogCall DEF TeamsInv, PlaceInv, LogInv, SoundCall
<1>3. at'[p] = at[p]
  <2> SUFFICES ASSUME IsNext(p, at'[p]) PROVE FALSE
    BY DEF Moves
  <2>1. at'[p] \in Nat /\ at'[p] > at[p]
    BY <1>2 DEF IsNext, TeamsInv, LogInv
  <2>2. ~ (n < at'[p])
    <3> SUFFICES ASSUME n < at'[p] PROVE FALSE
      OBVIOUS
    <3>1. at[p] < n
      <4>1. ~ (at[p] = n)
        BY DEF Moves, Past, IsNext
      <4> QED
        BY <4>1, <1>1, <1>2 DEF Past
    <3> QED
      BY <3>1, <1>2 DEF IsNext
  <2>3. at'[p] = n
    BY <2>1, <2>2, <1>1, <1>2 DEF Past
  <2> QED
    BY <2>3, <2>1, <1>1, <1>2 DEF Moves, Past
<1>4. at[p] = n
  BY <1>1, <1>2, <1>3 DEF Past
<1>5. pc[p] = "op"
  BY <1>1, <1>2, <1>3, <1>4 DEF Moves, Past
<1>6. at \in [PE -> 0 .. MaxCalls] /\ at' \in [PE -> 0 .. MaxCalls]
  BY DEF Moves, TeamsInv, TypeOK
<1> QED
  BY <1>1, <1>3, <1>4, <1>5, <1>6 DEF Moves

(* The log stays well formed. *)
LEMMA MovesLog == ASSUME TeamsInv, NEW p \in PE, Moves(p) PROVE LogInv'
<1>1. log' = log
  BY DEF Moves
<1>2. ASSUME NEW n \in 1 .. Len(log) PROVE SoundCall(n)'
  <2>1. SoundCall(n)
    BY LogCall DEF TeamsInv
  <2>2. ASSUME NEW m \in 1 .. n - 1, Reserves(m) PROVE Reserves(m)'
    <3>1. m \in 1 .. Len(log)
      BY DEF TeamsInv, LogInv
    <3> QED
      BY <2>2, <3>1, MovesReserves DEF Reserves
  <2> QED
    BY <1>1, <2>1, <2>2 DEF SoundCall
<1> QED
  BY <1>1, <1>2 DEF TeamsInv, LogInv

(* Contributions are made at their place. *)
LEMMA MovesEntry == ASSUME TeamsInv, NEW p \in PE, Moves(p) PROVE EntryInv'
<1>1. log' = log
  BY DEF Moves
<1>2. at[p] \in Nat
  BY DEF TeamsInv, PlaceInv, LogInv
<1>3. ASSUME NEW e \in entered
      PROVE  /\ e.n \in 1 .. Len(log) /\ e.ph \in Phases
             /\ e.pe \in Members(e.n, e.ph) /\ e.pe \in PE
             /\ at'[e.pe] >= e.n
             /\ at'[e.pe] = e.n /\ e.ph = "op" => pc'[e.pe] # "quiesce"
             /\ at'[e.pe] = e.n /\ e.ph = "max" => pc'[e.pe] \in {"max", "idle"}
  <2>1. /\ e.n \in 1 .. Len(log) /\ e.ph \in Phases /\ e.n \in Nat
        /\ e.pe \in Members(e.n, e.ph) /\ e.pe \in PE
        /\ at[e.pe] >= e.n
        /\ at[e.pe] = e.n /\ e.ph = "op" => pc[e.pe] # "quiesce"
        /\ at[e.pe] = e.n /\ e.ph = "max" => pc[e.pe] \in {"max", "idle"}
    BY DEF TeamsInv, EntryInv, LogInv
  <2>2. CASE e.pe # p
    BY <2>1, <2>2 DEF Moves
  <2>3. CASE e.pe = p /\ at'[p] = at[p] /\ <<pc[p], pc'[p]>> \in Order
    BY <2>1, <2>3 DEF Order
  <2>4. CASE e.pe = p /\ IsNext(p, at'[p])
    <3>1. at'[p] \in Nat /\ at'[p] > at[p]
      BY <2>4, <1>2 DEF IsNext, TeamsInv, LogInv
    <3> QED
      BY <2>1, <2>4, <3>1, <1>2
  <2> QED
    BY <2>2, <2>3, <2>4 DEF Moves
<1>4. ASSUME NEW e, Enters(p, e)
      PROVE  /\ e.n \in 1 .. Len(log) /\ e.ph \in Phases
             /\ e.pe \in Members(e.n, e.ph) /\ e.pe \in PE
             /\ at'[e.pe] >= e.n
             /\ at'[e.pe] = e.n /\ e.ph = "op" => pc'[e.pe] # "quiesce"
             /\ at'[e.pe] = e.n /\ e.ph = "max" => pc'[e.pe] \in {"max", "idle"}
  BY <1>4 DEF Enters, TeamsInv, LogInv
<1>5. \A n, ph : Members(n, ph)' = Members(n, ph)
  BY <1>1 DEF Members
<1>6. CASE entered' = entered
  BY <1>1, <1>3, <1>5, <1>6 DEF EntryInv
<1>7. CASE \E e : Enters(p, e) /\ entered' = entered \cup {e}
  BY <1>1, <1>3, <1>4, <1>5, <1>7 DEF EntryInv
<1> QED
  BY <1>6, <1>7 DEF Moves

(* A team keeps its index until its destruction. *)
LEMMA MovesHeld ==
  ASSUME TeamsInv, NEW p \in PE, Moves(p),
         NEW q \in PE, NEW t \in TeamIds \ Default,
         psync_idx[q][t] # None, psync_idx'[q][t] = psync_idx[q][t],
         q = p /\ at'[p] # at[p] /\ log[at'[p]].op = "destroy" => log[at'[p]].team.id # t
  PROVE  Held(q, t)'
<1>1. Held(q, t) /\ t \in Nat
  BY TeamsAssumption DEF TeamsInv, HeldInv, TeamIds
<1>2. log' = log
  BY DEF Moves
<1>3. t - 1 \in 1 .. Len(log) /\ AllIn(t - 1, "op")
  BY <1>1 DEF Held, Reserves
<1>4. /\ Reserves(t - 1)'
      /\ psync_pool_avail_reduced(t - 1)' = psync_pool_avail_reduced(t - 1)
  BY <1>1, <1>3, MovesReserves DEF Held
<1>5. Past(q, t - 1)'
  BY <1>1, <1>3, MovesPast DEF Held
<1>6. ASSUME NEW m \in 1 .. Len(log), log[m].op = "destroy", log[m].team.id = t
      PROVE  at'[q] < m
  <2>1. at[q] < m
    BY <1>6, <1>1 DEF Held
  <2>2. q \in log[m].team.mem
    <3>1. SoundCall(m)
      BY LogCall DEF TeamsInv
    <3>2. PICK k \in 1 .. m - 1 : t = k + 1 /\ log[m].team.mem = log[k].child
      BY <3>1, <1>6 DEF SoundCall
    <3>3. k = t - 1
      BY <3>2, <1>1
    <3> QED
      BY <3>2, <3>3, <1>1 DEF Held
  <2>3. CASE at'[q] = at[q]
    BY <2>1, <2>3
  <2>4. CASE at'[q] # at[q]
    <3>1. q = p /\ IsNext(p, at'[p])
      BY <2>4 DEF Moves
    <3>2. m # at'[p]
      BY <3>1, <2>4, <1>6
    <3>3. at'[p] \in Nat /\ m \in Nat
      BY <3>1 DEF IsNext, TeamsInv, LogInv
    <3>4. ~ (m < at'[p])
      BY <3>1, <2>1, <2>2 DEF IsNext
    <3> QED
      BY <3>1, <3>2, <3>3, <3>4
  <2> QED
    BY <2>3, <2>4
<1> QED
  BY <1>1, <1>2, <1>3, <1>4, <1>5, <1>6 DEF Held

(* A member past the reduction keeps the index it took. *)
LEMMA MovesTaken ==
  ASSUME TeamsInv, NEW p \in PE, Moves(p),
         NEW q \in PE, NEW n \in 1 .. Len(log), log[n].op = "split", q \in log[n].child,
         Past(q, n), psync_idx'[q][n + 1] = psync_idx[q][n + 1]
  PROVE  /\ AllIn(n, "op")'
         /\ \/ psync_pool_avail_reduced(n)' = {}
            \/ psync_idx'[q][n + 1] # None
            \/ \E m \in 1 .. Len(log) : /\ m <= at'[q] /\ log[m].op = "destroy"
                                        /\ log[m].team.id = n + 1
<1>1. /\ AllIn(n, "op")
      /\ \/ psync_pool_avail_reduced(n) = {}
         \/ psync_idx[q][n + 1] # None
         \/ \E m \in 1 .. Len(log) : /\ m <= at[q] /\ log[m].op = "destroy"
                                     /\ log[m].team.id = n + 1
  BY DEF TeamsInv, TakenInv
<1>2. AllIn(n, "op")' /\ psync_pool_avail_reduced(n)' = psync_pool_avail_reduced(n)
  BY <1>1, MovesReserves
<1>3. at'[q] \in Nat /\ at[q] \in Nat /\ at[q] <= at'[q]
  <2>1. at[q] \in Nat
    BY DEF TeamsInv, PlaceInv, LogInv
  <2>2. CASE at'[q] # at[q]
    <3>1. q = p /\ IsNext(p, at'[p])
      BY <2>2 DEF Moves
    <3> QED
      BY <3>1, <2>1 DEF IsNext, TeamsInv, LogInv
  <2> QED
    BY <2>1, <2>2
<1>4. \A m \in 1 .. Len(log) : m <= at[q] => m <= at'[q]
  BY <1>3 DEF TeamsInv, LogInv
<1> QED
  BY <1>1, <1>2, <1>4

(* Steps that neither reserve nor release an index. *)
LEMMA PlainInv ==
  ASSUME TeamsInv, NEW p \in PE, Moves(p), avail' = avail, psync_idx' = psync_idx,
         at'[p] # at[p] => log[at'[p]].op # "destroy",
         pc[p] = "op" => log[at[p]].op # "split",
         psync_avail' \in [PE -> [TeamIds -> SUBSET {0, 1}]],
         ret' \in [PE -> [1 .. MaxCalls -> {0, 1, None}]]
  PROVE  TypeOK' /\ LogInv' /\ EntryInv' /\ TakenInv' /\ HeldInv' /\ PsyncOwnership'
<1>1. LogInv' /\ EntryInv' /\ log' = log
  BY MovesLog, MovesEntry DEF Moves
<1>2. TypeOK'
  <2>1. at' \in [PE -> 0 .. MaxCalls] /\ pc' \in [PE -> Phases \cup {"idle"}]
    BY DEF Moves
  <2> QED
    BY <1>1, <2>1 DEF TeamsInv, TypeOK
<1>3. PsyncOwnership'
  BY <1>2 DEF TeamsInv, PsyncOwnership
<1>4. HeldInv'
  <2>1. ASSUME NEW q \in PE, NEW t \in TeamIds \ Default, psync_idx[q][t] # None
        PROVE  Held(q, t)'
    BY <2>1, MovesHeld
  <2> QED
    BY <2>1 DEF TeamsInv, HeldInv
<1>5. TakenInv'
  <2> SUFFICES ASSUME NEW q \in PE, NEW n \in 1 .. Len(log),
                      log[n].op = "split", q \in log[n].child, Past(q, n)'
               PROVE  /\ AllIn(n, "op")'
                      /\ \/ psync_pool_avail_reduced(n)' = {}
                         \/ psync_idx'[q][n + 1] # None
                         \/ \E m \in 1 .. Len(log) : /\ m <= at'[q] /\ log[m].op = "destroy"
                                                     /\ log[m].team.id = n + 1
    BY <1>1 DEF TakenInv
  <2>1. Past(q, n)
    <3> SUFFICES ASSUME ~ Past(q, n) PROVE FALSE
      OBVIOUS
    <3> QED
      BY MovesPastSplit
  <2> QED
    BY <2>1, MovesTaken
<1> QED
  BY <1>1, <1>2, <1>3, <1>4, <1>5

(* The place of a PE in its call. *)
LEMMA MovesPlace ==
  ASSUME TeamsInv, NEW p \in PE, Moves(p),
         pc'[p] # "idle" /\ at'[p] # 0 => p \in log[at'[p]].team.mem,
         pc'[p] = "quiesce" => log[at'[p]].op \in {"bcast", "reduce", "split"},
         pc'[p] = "op" => /\ log[at'[p]].op \in {"bcast", "reduce", "split"}
                          /\ p \in Members(at'[p], "op"),
         pc'[p] = "barrier" => log[at'[p]].op \in {"sync", "split"},
         pc'[p] = "max" => log[at'[p]].op = "split"
  PROVE  PlaceInv'
<1>1. log' = log /\ \A n, ph : Members(n, ph)' = Members(n, ph)
  BY DEF Moves, Members
<1>2. at[p] \in 0 .. Len(log) /\ (pc[p] # "idle" => at[p] # 0)
  BY DEF TeamsInv, PlaceInv
<1>3. at'[p] \in 0 .. Len(log) /\ (pc'[p] # "idle" => at'[p] # 0)
  <2>1. CASE at'[p] = at[p] /\ <<pc[p], pc'[p]>> \in Order
    BY <2>1, <1>2 DEF Order
  <2>2. CASE IsNext(p, at'[p])
    BY <2>2 DEF IsNext, TeamsInv, LogInv
  <2> QED
    BY <2>1, <2>2 DEF Moves
<1>4. ASSUME NEW q \in PE, q # p
      PROVE  at'[q] = at[q] /\ pc'[q] = pc[q]
  BY <1>4 DEF Moves
<1>5. ASSUME NEW q \in PE
      PROVE  /\ at'[q] \in 0 .. Len(log)
             /\ pc'[q] # "idle" => at'[q] # 0 /\ q \in log[at'[q]].team.mem
             /\ pc'[q] = "quiesce" => log[at'[q]].op \in {"bcast", "reduce", "split"}
             /\ pc'[q] = "op" => /\ log[at'[q]].op \in {"bcast", "reduce", "split"}
                                 /\ q \in Members(at'[q], "op")
             /\ pc'[q] = "barrier" => log[at'[q]].op \in {"sync", "split"}
             /\ pc'[q] = "max" => log[at'[q]].op = "split"
  <2>1. CASE q = p
    BY <2>1, <1>3
  <2>2. CASE q # p
    BY <2>2, <1>4 DEF TeamsInv, PlaceInv
  <2> QED
    BY <2>1, <2>2
<1> QED
  BY <1>1, <1>5 DEF PlaceInv, Members

(* The mask of a PE in the reduction stays the one it contributed. *)
LEMMA MovesContributed ==
  ASSUME TeamsInv, NEW p \in PE, Moves(p),
         \A q \in PE \ {p} : avail'[q] = avail[q],
         pc'[p] = "op" /\ log[at'[p]].op = "split" =>
           \E e \in entered' : e.n = at'[p] /\ e.ph = "op" /\ e.pe = p /\ e.val = avail'[p]
  PROVE  ContributedInv'
<1>1. log' = log /\ entered \subseteq entered'
  BY DEF Moves
<1>2. ASSUME NEW q \in PE, pc'[q] = "op", log[at'[q]].op = "split"
      PROVE  \E e \in entered' : e.n = at'[q] /\ e.ph = "op" /\ e.pe = q /\ e.val = avail'[q]
  <2>1. CASE q = p
    BY <2>1, <1>2
  <2>2. CASE q # p
    <3>1. at'[q] = at[q] /\ pc'[q] = pc[q] /\ avail'[q] = avail[q]
      BY <2>2 DEF Moves
    <3>2. \E e \in entered : e.n = at[q] /\ e.ph = "op" /\ e.pe = q /\ e.val = avail[q]
      BY <3>1, <1>2 DEF TeamsInv, ContributedInv, Entries
    <3> QED
      BY <3>1, <3>2, <1>1
  <2> QED
    BY <2>1, <2>2
<1> QED
  BY <1>1, <1>2 DEF ContributedInv, Entries

(* A member that has got to the last reduction is past the first. *)
LEMMA MaxIsPast ==
  ASSUME TeamsInv, NEW e \in entered, e.ph = "max", e.pe \in log[e.n].child
  PROVE  AllIn(e.n, "op")
<1>1. e.n \in 1 .. Len(log) /\ log[e.n].op = "split" /\ e.pe \in PE
  BY DEF TeamsInv, EntryInv, ResultInv
<1>2. at[e.pe] >= e.n /\ (at[e.pe] = e.n => pc[e.pe] \in {"max", "idle"})
  BY DEF TeamsInv, EntryInv
<1>3. at[e.pe] \in Nat /\ e.n \in Nat
  BY <1>1 DEF TeamsInv, LogInv, PlaceInv
<1>4. Past(e.pe, e.n)
  BY <1>2, <1>3 DEF Past
<1> QED
  BY <1>1, <1>4 DEF TeamsInv, TakenInv

(* The second reduction of a split follows the first. *)
LEMMA AllInMax ==
  ASSUME TeamsInv, NEW n \in 1 .. Len(log), log[n].op = "split", AllIn(n, "max")
  PROVE  AllIn(n, "op")
<1>1. log[n].child # {} /\ log[n].child \subseteq log[n].team.mem
  BY LogCall DEF TeamsInv, SoundCall
<1>2. PICK q \in log[n].child : q \in Members(n, "max")
  BY <1>1 DEF Members
<1>3. PICK e \in entered : e.n = n /\ e.ph = "max" /\ e.pe = q
  BY <1>2 DEF AllIn, Inside, Entries
<1> QED
  BY <1>2, <1>3, MaxIsPast

(* What the result of a split is, once everyone is in the last reduction. *)
LEMMA SplitRet ==
  ASSUME TeamsInv, NEW n \in 1 .. Len(log), log[n].op = "split", AllIn(n, "max"), NEW p
  PROVE  split_ret(p, n) = Failure(n)
<1> DEFINE V == UNION {e.val : e \in Entries(n, "max")}
<1>1. log[n].child # {} /\ log[n].child \subseteq log[n].team.mem
  BY LogCall DEF TeamsInv, SoundCall
<1>2. PICK q \in log[n].child : q \in Members(n, "max")
  BY <1>1 DEF Members
<1>3. PICK e \in Entries(n, "max") : e.pe = q
  BY <1>2 DEF AllIn, Inside
<1>4. e.val = {Failure(n)}
  BY <1>2, <1>3 DEF TeamsInv, ResultInv, Entries
<1>5. Failure(n) \in V
  BY <1>3, <1>4
<1>6. ASSUME NEW v \in V PROVE v = Failure(n) \/ v = 0
  <2>1. PICK f \in Entries(n, "max") : v \in f.val
    BY <1>6
  <2>2. f.val = {IF f.pe \in log[n].child THEN Failure(n) ELSE 0}
    BY <2>1 DEF TeamsInv, ResultInv, Entries
  <2> QED
    BY <2>1, <2>2
<1>7. Failure(n) \in {0, 1}
  BY DEF Failure
<1>8. split_ret(p, n) = Max(V)
  BY DEF split_ret
<1>9. Max(V) \in V /\ \A v \in V : Max(V) >= v
  <2>1. \E x \in V : \A y \in V : x >= y
    BY <1>5, <1>6, <1>7
  <2> QED
    BY <2>1 DEF Max
<1> HIDE DEF V
<1> QED
  BY <1>5, <1>6, <1>7, <1>8, <1>9

(* The results of a split agree with the reduced mask. *)
LEMMA MovesResult ==
  ASSUME TeamsInv, NEW p \in PE, Moves(p),
         \A e : Enters(p, e) /\ entered' = entered \cup {e} /\ e.ph = "max" =>
           \/ e \in entered
           \/ /\ log[e.n].op = "split" /\ (p \in log[e.n].child => AllIn(e.n, "op"))
              /\ e.val = {IF p \in log[e.n].child THEN Failure(e.n) ELSE 0},
         pc'[p] = "max" => \E e : Enters(p, e) /\ entered' = entered \cup {e},
         \A q \in PE, n \in 1 .. MaxCalls : ret'[q][n] = ret[q][n] \/
           (q = p /\ n = at[p] /\ at' = at /\ pc[p] = "max" /\ pc'[p] = "idle" /\ AllIn(n, "max")
              /\ ret'[q][n] = Failure(n))
  PROVE  ResultInv'
<1>1. log' = log /\ entered \subseteq entered'
  BY DEF Moves
<1>2. ASSUME NEW e \in entered, e.ph = "max"
      PROVE  /\ log[e.n].op = "split"
             /\ e.val = {IF e.pe \in log[e.n].child THEN Failure(e.n)' ELSE 0}
  <2>1. /\ log[e.n].op = "split" /\ e.n \in 1 .. Len(log)
        /\ e.val = {IF e.pe \in log[e.n].child THEN Failure(e.n) ELSE 0}
    BY <1>2 DEF TeamsInv, ResultInv, EntryInv
  <2>2. CASE e.pe \in log[e.n].child
    BY <1>2, <2>1, <2>2, MaxIsPast, MovesReserves
  <2> QED
    BY <2>1, <2>2
<1>3. ASSUME NEW e, Enters(p, e), entered' = entered \cup {e}, e.ph = "max"
      PROVE  /\ log[e.n].op = "split"
             /\ e.val = {IF e.pe \in log[e.n].child THEN Failure(e.n)' ELSE 0}
  <2>1. CASE e \in entered
    BY <1>2, <1>3, <2>1
  <2>2. CASE /\ log[e.n].op = "split" /\ (p \in log[e.n].child => AllIn(e.n, "op"))
             /\ e.val = {IF p \in log[e.n].child THEN Failure(e.n) ELSE 0}
    <3>1. e.pe = p /\ e.n \in 1 .. Len(log)
      BY <1>3 DEF Enters
    <3>2. p \in log[e.n].child => Failure(e.n)' = Failure(e.n)
      BY <2>2, <3>1, MovesReserves
    <3> QED
      BY <2>2, <3>1, <3>2
  <2> QED
    BY <1>3, <2>1, <2>2
<1>4. ASSUME NEW e \in entered', e.ph = "max"
      PROVE  /\ log[e.n].op = "split"
             /\ e.val = {IF e.pe \in log[e.n].child THEN Failure(e.n)' ELSE 0}
  BY <1>2, <1>3, <1>4 DEF Moves
<1>5. ASSUME NEW q \in PE, pc'[q] = "max"
      PROVE  \E e \in entered' : e.n = at'[q] /\ e.ph = "max" /\ e.pe = q
  <2>1. CASE q = p
    BY <1>5, <2>1 DEF Enters
  <2>2. CASE q # p
    <3>1. at'[q] = at[q] /\ pc'[q] = pc[q]
      BY <2>2 DEF Moves
    <3>2. \E e \in Entries(at[q], "max") : e.pe = q
      BY <3>1, <1>5 DEF TeamsInv, ResultInv
    <3> QED
      BY <3>1, <3>2, <1>1 DEF Entries
  <2> QED
    BY <2>1, <2>2
<1>6. ASSUME NEW q \in PE, NEW n \in 1 .. MaxCalls, ret'[q][n] # None
      PROVE  /\ n \in 1 .. Len(log) /\ log[n].op = "split" /\ AllIn(n, "max")'
             /\ ret'[q][n] = Failure(n)'
             /\ at'[q] >= n /\ (at'[q] = n => pc'[q] = "idle")
  <2>1. at[q] \in Nat /\ n \in Nat /\ at[q] \in 0 .. Len(log)
    BY TeamsAssumption DEF TeamsInv, PlaceInv, LogInv
  <2>2. /\ n \in 1 .. Len(log) /\ log[n].op = "split" /\ AllIn(n, "max")
        /\ ret'[q][n] = Failure(n)
    <3>1. CASE ret'[q][n] = ret[q][n]
      BY <1>6, <3>1 DEF TeamsInv, ResultInv
    <3>2. CASE q = p /\ n = at[p] /\ pc[p] = "max" /\ AllIn(n, "max") /\ ret'[q][n] = Failure(n)
      BY <3>2, <2>1 DEF TeamsInv, PlaceInv, LogInv
    <3> QED
      BY <3>1, <3>2
  <2>3. AllIn(n, "max")' /\ Failure(n)' = Failure(n)
    BY <2>2, AllInMax, MovesFreeze, MovesReserves
  <2>4. at'[q] >= n /\ (at'[q] = n => pc'[q] = "idle")
    <3>1. CASE ret'[q][n] # ret[q][n]
      BY <3>1, <2>1
    <3>2. CASE ret'[q][n] = ret[q][n]
      <4>1. at[q] >= n /\ (at[q] = n => pc[q] = "idle")
        BY <1>6, <3>2 DEF TeamsInv, ResultInv
      <4>2. CASE at'[q] = at[q] /\ pc'[q] = pc[q]
        BY <4>1, <4>2
      <4>3. CASE q = p /\ at'[q] = at[q] /\ <<pc[p], pc'[p]>> \in Order
        BY <4>1, <4>3 DEF Order
      <4>4. CASE q = p /\ IsNext(p, at'[p])
        <5>1. at'[p] \in Nat /\ at'[p] > at[p]
          BY <4>4, <2>1 DEF IsNext, TeamsInv, LogInv
        <5> QED
          BY <5>1, <4>1, <4>4, <2>1
      <4> QED
        BY <4>2, <4>3, <4>4 DEF Moves
    <3> QED
      BY <3>1, <3>2
  <2> QED
    BY <2>2, <2>3, <2>4
<1> QED
  BY <1>1, <1>4, <1>5, <1>6 DEF ResultInv, Entries

-----------------------------------------------------------------------------
(* The steps, one by one.                                                  *)

(* A collective call keeps the invariant. *)
LEMMA TeamCallInv == ASSUME TeamsInv, NEW p \in PE, team_call(p) PROVE TeamsInv'
<1>1. PICK n \in 1 .. MaxCalls :
         /\ next_call(p, n)
         /\ log[n].op \in {"bcast", "reduce", "split"}
         /\ at' = [at EXCEPT ![p] = n]
         /\ choose_psync(p, n) \/ choose_psync_quiesce(p, n)
         /\ UNCHANGED << log, avail, psync_idx, left, ret >>
  BY DEF team_call
<1>2. Moves(p) /\ pc[p] = "idle" /\ IsNext(p, n)
  BY <1>1, TeamCallMoves, NextCall
<1>3. at'[p] = n /\ n \in 1 .. Len(log) /\ p \in log[n].team.mem
  BY <1>1, <1>2 DEF TeamsInv, TypeOK, IsNext
<1>4. psync_avail' \in [PE -> [TeamIds -> SUBSET {0, 1}]]
  <2>1. psync_avail \in [PE -> [TeamIds -> SUBSET {0, 1}]] /\ log[n].team.id \in TeamIds
    BY <1>3, LogCall DEF TeamsInv, TypeOK
  <2>2. CASE choose_psync_quiesce(p, n)
    BY <2>1, <2>2 DEF choose_psync_quiesce
  <2>3. CASE choose_psync(p, n)
    <3>1. PICK i : psync_avail' = [psync_avail EXCEPT ![p][log[n].team.id] = @ \ {i}]
      BY <2>3 DEF choose_psync
    <3> QED
      BY <2>1, <3>1
  <2> QED
    BY <1>1, <2>2, <2>3
<1>5. ret' \in [PE -> [1 .. MaxCalls -> {0, 1, None}]]
  BY <1>1 DEF TeamsInv, TypeOK
<1>6. TypeOK' /\ LogInv' /\ EntryInv' /\ TakenInv' /\ HeldInv' /\ PsyncOwnership'
  BY <1>1, <1>2, <1>3, <1>4, <1>5, PlainInv
<1>7. /\ pc'[p] \in {"quiesce", "op", "barrier"}
      /\ pc'[p] = "op" => p \in Members(n, "op")
      /\ pc'[p] = "barrier" => p \notin Members(n, "op")
      /\ pc'[p] = "op" /\ log[n].op = "split" =>
           \E e \in entered' : e.n = n /\ e.ph = "op" /\ e.pe = p /\ e.val = avail[p]
  <2>1. pc \in [PE -> Phases \cup {"idle"}]
    BY DEF TeamsInv, TypeOK
  <2>2. CASE choose_psync_quiesce(p, n)
    BY <2>1, <2>2 DEF choose_psync_quiesce, enter
  <2>3. CASE choose_psync(p, n)
    <3>1. PICK b : run_chosen(p, n, b)
      BY <2>3 DEF choose_psync
    <3>2. CASE p \in Members(n, "op")
      <4>1. enter(p, n, "op", b, IF log[n].op = "split" THEN avail[p] ELSE {})
        BY <3>1, <3>2 DEF run_chosen
      <4>2. pc'[p] = "op"
        BY <4>1, <2>1 DEF enter
      <4>3. ASSUME log[n].op = "split"
            PROVE  \E e \in entered' : e.n = n /\ e.ph = "op" /\ e.pe = p /\ e.val = avail[p]
        <5>1. enter(p, n, "op", b, avail[p])
          BY <4>1, <4>3
        <5>2. [n |-> n, ph |-> "op", pe |-> p, block |-> b, val |-> avail[p]] \in entered'
          BY <5>1 DEF enter
        <5> QED
          BY <5>2
      <4> QED
        BY <3>2, <4>2, <4>3
    <3>3. CASE p \notin Members(n, "op")
      BY <3>1, <3>3, <2>1 DEF run_chosen, enter
    <3> QED
      BY <3>2, <3>3
  <2> QED
    BY <1>1, <2>2, <2>3
<1>8. pc'[p] = "barrier" => log[n].op = "split"
  BY <1>7, <1>3, <1>1 DEF Members
<1>9. PlaceInv'
  BY <1>1, <1>2, <1>3, <1>7, <1>8, MovesPlace
<1>10. ContributedInv'
  BY <1>1, <1>2, <1>3, <1>7, MovesContributed
<1>11. ResultInv'
  BY <1>1, <1>2, <1>7, MovesResult DEF Enters
<1> QED
  BY <1>6, <1>9, <1>10, <1>11 DEF TeamsInv

(* So does team_sync, *)
LEMMA TeamSyncInv == ASSUME TeamsInv, NEW p \in PE, team_sync(p) PROVE TeamsInv'
<1>1. PICK n \in 1 .. MaxCalls :
         /\ next_call(p, n) /\ log[n].op = "sync"
         /\ at' = [at EXCEPT ![p] = n]
         /\ enter(p, n, "barrier", barrier_block(psync_idx[p][log[n].team.id]), {})
         /\ UNCHANGED << log, avail, psync_idx, psync_avail, left, ret >>
  BY DEF team_sync
<1>2. Moves(p) /\ pc[p] = "idle" /\ IsNext(p, n)
  BY <1>1, TeamSyncMoves, NextCall
<1>3. at'[p] = n /\ pc'[p] = "barrier" /\ p \in log[n].team.mem
  BY <1>1, <1>2 DEF TeamsInv, TypeOK, IsNext, enter
<1>4. TypeOK' /\ LogInv' /\ EntryInv' /\ TakenInv' /\ HeldInv' /\ PsyncOwnership'
  <2>1. /\ psync_avail' \in [PE -> [TeamIds -> SUBSET {0, 1}]]
        /\ ret' \in [PE -> [1 .. MaxCalls -> {0, 1, None}]]
    BY <1>1 DEF TeamsInv, TypeOK
  <2> QED
    BY <1>1, <1>2, <1>3, <2>1, PlainInv
<1>5. PlaceInv'
  BY <1>1, <1>2, <1>3, MovesPlace
<1>6. ContributedInv'
  BY <1>1, <1>2, <1>3, MovesContributed
<1>7. ResultInv'
  BY <1>1, <1>2, <1>3, MovesResult DEF Enters
<1> QED
  BY <1>4, <1>5, <1>6, <1>7 DEF TeamsInv

(* the end of the sync before a collective, *)
LEMMA QuiescedInv == ASSUME TeamsInv, NEW p \in PE, quiesced(p) PROVE TeamsInv'
<1> DEFINE t == log[at[p]].team.id
<1>1. /\ pc[p] = "quiesce"
      /\ psync_avail' = [psync_avail EXCEPT ![p][t] = {0, 1} \ {0}]
      /\ \E b : run_chosen(p, at[p], b)
      /\ UNCHANGED << log, at, avail, psync_idx, ret >>
  BY DEF quiesced
<1>2. Moves(p)
  BY QuiescedMoves
<1>3. /\ at[p] \in 1 .. Len(log) /\ p \in log[at[p]].team.mem
      /\ log[at[p]].op \in {"bcast", "reduce", "split"}
  BY <1>1 DEF TeamsInv, PlaceInv, LogInv
<1>4. TypeOK' /\ LogInv' /\ EntryInv' /\ TakenInv' /\ HeldInv' /\ PsyncOwnership'
  <2>1. psync_avail \in [PE -> [TeamIds -> SUBSET {0, 1}]] /\ t \in TeamIds
    BY <1>3, LogCall DEF TeamsInv, TypeOK
  <2>2. /\ psync_avail' \in [PE -> [TeamIds -> SUBSET {0, 1}]]
        /\ ret' \in [PE -> [1 .. MaxCalls -> {0, 1, None}]]
    <3> HIDE DEF t
    <3> QED
      BY <1>1, <2>1 DEF TeamsInv, TypeOK
  <2> QED
    BY <1>1, <1>2, <2>2, PlainInv
<1>5. /\ pc'[p] \in {"op", "barrier"}
      /\ pc'[p] = "op" => p \in Members(at[p], "op")
      /\ pc'[p] = "barrier" => p \notin Members(at[p], "op")
      /\ pc'[p] = "op" /\ log[at[p]].op = "split" =>
           \E e \in entered' : e.n = at[p] /\ e.ph = "op" /\ e.pe = p /\ e.val = avail[p]
  <2>1. pc \in [PE -> Phases \cup {"idle"}]
    BY DEF TeamsInv, TypeOK
  <2>2. PICK b : run_chosen(p, at[p], b)
    BY <1>1
  <2>3. CASE p \in Members(at[p], "op")
    <3>1. enter(p, at[p], "op", b, IF log[at[p]].op = "split" THEN avail[p] ELSE {})
      BY <2>2, <2>3 DEF run_chosen
    <3>2. pc'[p] = "op"
      BY <3>1, <2>1 DEF enter
    <3>3. ASSUME log[at[p]].op = "split"
          PROVE  \E e \in entered' : e.n = at[p] /\ e.ph = "op" /\ e.pe = p /\ e.val = avail[p]
      <4>1. enter(p, at[p], "op", b, avail[p])
        BY <3>1, <3>3
      <4>2. [n |-> at[p], ph |-> "op", pe |-> p, block |-> b, val |-> avail[p]] \in entered'
        BY <4>1 DEF enter
      <4> QED
        BY <4>2
    <3> QED
      BY <2>3, <3>2, <3>3
  <2>4. CASE p \notin Members(at[p], "op")
    BY <2>1, <2>2, <2>4 DEF run_chosen, enter
  <2> QED
    BY <2>3, <2>4
<1>6. pc'[p] = "barrier" => log[at[p]].op = "split"
  BY <1>5, <1>3 DEF Members
<1>7. PlaceInv'
  BY <1>1, <1>2, <1>3, <1>5, <1>6, MovesPlace
<1>8. ContributedInv'
  BY <1>1, <1>2, <1>5, MovesContributed
<1>9. ResultInv'
  BY <1>1, <1>2, <1>5, MovesResult DEF Enters
<1> QED
  BY <1>4, <1>7, <1>8, <1>9 DEF TeamsInv

(* the return of a collective, *)
LEMMA CollReturnInv == ASSUME TeamsInv, NEW p \in PE, coll_return(p) PROVE TeamsInv'
<1>1. /\ pc[p] = "op" /\ log[at[p]].op # "split" /\ pc' = [pc EXCEPT ![p] = "idle"]
      /\ UNCHANGED << log, at, avail, psync_idx, psync_avail, entered, ret >>
  BY DEF coll_return, release_psyncs
<1>2. Moves(p) /\ pc'[p] = "idle"
  BY <1>1, CollReturnMoves DEF TeamsInv, TypeOK
<1>3. TypeOK' /\ LogInv' /\ EntryInv' /\ TakenInv' /\ HeldInv' /\ PsyncOwnership'
  <2>1. /\ psync_avail' \in [PE -> [TeamIds -> SUBSET {0, 1}]]
        /\ ret' \in [PE -> [1 .. MaxCalls -> {0, 1, None}]]
    BY <1>1 DEF TeamsInv, TypeOK
  <2> QED
    BY <1>1, <1>2, <2>1, PlainInv
<1>4. PlaceInv'
  BY <1>1, <1>2, MovesPlace
<1>5. ContributedInv'
  BY <1>1, <1>2, MovesContributed
<1>6. ResultInv'
  BY <1>1, <1>2, MovesResult DEF Enters
<1> QED
  BY <1>3, <1>4, <1>5, <1>6 DEF TeamsInv

(* The result a PE brings to the last reduction is whether it got an index. *)
LEMMA BarrierReturnInv == ASSUME TeamsInv, NEW p \in PE, barrier_return(p) PROVE TeamsInv'
<1> DEFINE t == log[at[p]].team.id
           v == IF p \in log[at[p]].child /\ psync_idx[p][at[p] + 1] = None THEN 1 ELSE 0
<1>1. /\ pc[p] = "barrier"
      /\ \/ /\ log[at[p]].op = "sync" /\ pc' = [pc EXCEPT ![p] = "idle"]
            /\ psync_avail' = [psync_avail EXCEPT ![p][t] = {0, 1}] /\ entered' = entered
         \/ /\ log[at[p]].op # "sync"
            /\ psync_avail' = [psync_avail EXCEPT ![p][t] = {0, 1} \ {0}]
            /\ \E b : enter(p, at[p], "max", b, {v})
      /\ UNCHANGED << log, at, avail, psync_idx, ret >>
  BY DEF barrier_return
<1>2. Moves(p)
  BY BarrierReturnMoves
<1>3. /\ at[p] \in 1 .. Len(log) /\ p \in log[at[p]].team.mem
      /\ log[at[p]].op \in {"sync", "split"} /\ at[p] \in Nat
  BY <1>1 DEF TeamsInv, PlaceInv, LogInv
<1>4. TypeOK' /\ LogInv' /\ EntryInv' /\ TakenInv' /\ HeldInv' /\ PsyncOwnership'
  <2>1. psync_avail \in [PE -> [TeamIds -> SUBSET {0, 1}]] /\ t \in TeamIds
    BY <1>3, LogCall DEF TeamsInv, TypeOK
  <2>2. /\ psync_avail' \in [PE -> [TeamIds -> SUBSET {0, 1}]]
        /\ ret' \in [PE -> [1 .. MaxCalls -> {0, 1, None}]]
    <3>1. psync_avail' = [psync_avail EXCEPT ![p][t] = {0, 1}] \/
          psync_avail' = [psync_avail EXCEPT ![p][t] = {0, 1} \ {0}]
      BY <1>1
    <3> HIDE DEF t
    <3>2. psync_avail' \in [PE -> [TeamIds -> SUBSET {0, 1}]]
      BY <3>1, <2>1
    <3> QED
      BY <3>2, <1>1 DEF TeamsInv, TypeOK
  <2> QED
    BY <1>1, <1>2, <2>2, PlainInv
<1>5. pc'[p] \in {"idle", "max"} /\ (pc'[p] = "max" => log[at[p]].op = "split")
  BY <1>1, <1>3 DEF enter, TeamsInv, TypeOK
<1>6. PlaceInv'
  BY <1>1, <1>2, <1>3, <1>5, MovesPlace
<1>7. ContributedInv'
  BY <1>1, <1>2, <1>5, MovesContributed
<1>8. ASSUME log[at[p]].op = "split", p \in log[at[p]].child
      PROVE  AllIn(at[p], "op") /\ v = Failure(at[p])
  <2>1. Past(p, at[p])
    BY <1>1 DEF Past
  <2>2. AllIn(at[p], "op")
    BY <2>1, <1>3, <1>8 DEF TeamsInv, TakenInv
  <2>3. ASSUME NEW m \in 1 .. Len(log), m <= at[p], log[m].team.id = at[p] + 1,
               log[m].op = "destroy"
        PROVE  FALSE
    <3>1. SoundCall(m) /\ m \in Nat
      BY LogCall DEF TeamsInv
    <3>2. log[m].team.id \notin Default
      BY <3>1, <2>3 DEF SoundCall
    <3>3. PICK k \in 1 .. m - 1 : log[m].team.id = k + 1
      BY <3>1, <3>2 DEF SoundCall
    <3> QED
      BY <3>1, <3>3, <2>3, <1>3
  <2>4. CASE psync_idx[p][at[p] + 1] = None
    <3>1. psync_pool_avail_reduced(at[p]) = {}
      BY <2>1, <2>3, <2>4, <1>3, <1>8 DEF TeamsInv, TakenInv
    <3> QED
      BY <2>2, <2>4, <3>1, <1>8 DEF Failure
  <2>5. CASE psync_idx[p][at[p] + 1] # None
    <3>1. at[p] + 1 \in TeamIds \ Default
      BY <1>3, LogCall, TeamsAssumption DEF TeamIds, Default, SHMEM_TEAM_WORLD,
         SHMEM_TEAM_SHARED, TeamsInv
    <3>2. Held(p, at[p] + 1) /\ (at[p] + 1) - 1 = at[p]
      BY <2>5, <3>1, <1>3 DEF TeamsInv, HeldInv
    <3>3. psync_pool_avail_reduced(at[p]) # {}
      BY <3>2 DEF Held, Reserves
    <3> QED
      BY <2>2, <2>5, <3>3 DEF Failure
  <2> QED
    BY <2>4, <2>5
<1>9. ResultInv'
  <2>1. ASSUME NEW e, Enters(p, e), entered' = entered \cup {e}, e.ph = "max"
        PROVE  \/ e \in entered
               \/ /\ log[e.n].op = "split" /\ (p \in log[e.n].child => AllIn(e.n, "op"))
                  /\ e.val = {IF p \in log[e.n].child THEN Failure(e.n) ELSE 0}
    <3>1. CASE e \in entered
      BY <3>1
    <3>2. CASE e \notin entered
      <4>1. PICK b : enter(p, at[p], "max", b, {v})
        BY <1>1, <2>1, <3>2
      <4>2. log[at[p]].op = "split"
        BY <1>1, <1>3, <2>1, <3>2
      <4>3. e = [n |-> at[p], ph |-> "max", pe |-> p, block |-> b, val |-> {v}]
        <5> HIDE DEF v
        <5> QED
          BY <4>1, <2>1, <3>2 DEF enter
      <4>4. e.n = at[p] /\ e.val = {v}
        BY <4>3
      <4>5. p \notin log[at[p]].child => v = 0
        OBVIOUS
      <4> HIDE DEF v
      <4> QED
        BY <4>2, <4>4, <4>5, <1>8
    <3> QED
      BY <3>1, <3>2
  <2>2. ASSUME pc'[p] = "max" PROVE \E e : Enters(p, e) /\ entered' = entered \cup {e}
    <3>1. PICK b : enter(p, at[p], "max", b, {v})
      BY <1>1, <2>2 DEF TeamsInv, TypeOK
    <3>2. p \in Members(at[p], "max")
      BY <1>3 DEF Members
    <3> HIDE DEF v
    <3>3. Enters(p, [n |-> at[p], ph |-> "max", pe |-> p, block |-> b, val |-> {v}])
      BY <1>1, <1>3, <2>2, <3>2 DEF Enters, Phases
    <3> QED
      BY <3>1, <3>3 DEF enter
  <2> QED
    BY <1>1, <1>2, <2>1, <2>2, MovesResult
<1> QED
  BY <1>4, <1>6, <1>7, <1>9 DEF TeamsInv

(* and the return of a split. *)
LEMMA SplitReturnInv == ASSUME TeamsInv, NEW p \in PE, split_return(p) PROVE TeamsInv'
<1>1. /\ pc[p] = "max" /\ may_leave(p, at[p], "max") /\ pc' = [pc EXCEPT ![p] = "idle"]
      /\ ret' = [ret EXCEPT ![p][at[p]] = split_ret(p, at[p])]
      /\ UNCHANGED << log, at, avail, psync_idx, psync_avail, entered >>
  BY DEF split_return, release_psyncs
<1>2. Moves(p) /\ pc'[p] = "idle"
  BY <1>1, SplitReturnMoves DEF TeamsInv, TypeOK
<1>3. /\ at[p] \in 1 .. Len(log) /\ log[at[p]].op = "split" /\ at[p] \in 1 .. MaxCalls
      /\ AllIn(at[p], "max")
  <2>1. at[p] \in 1 .. Len(log) /\ log[at[p]].op = "split"
    BY <1>1 DEF TeamsInv, PlaceInv, LogInv
  <2>2. at[p] \in 1 .. MaxCalls
    BY <2>1, LogCall, TeamsAssumption DEF TeamsInv
  <2> QED
    BY <2>1, <2>2, <1>1 DEF may_leave
<1>4. split_ret(p, at[p]) = Failure(at[p]) /\ Failure(at[p]) \in {0, 1}
  BY <1>3, SplitRet DEF Failure
<1>5. TypeOK' /\ LogInv' /\ EntryInv' /\ TakenInv' /\ HeldInv' /\ PsyncOwnership'
  <2>1. /\ psync_avail' \in [PE -> [TeamIds -> SUBSET {0, 1}]]
        /\ ret' \in [PE -> [1 .. MaxCalls -> {0, 1, None}]]
    BY <1>1, <1>3, <1>4 DEF TeamsInv, TypeOK
  <2> QED
    BY <1>1, <1>2, <2>1, PlainInv
<1>6. PlaceInv'
  BY <1>1, <1>2, MovesPlace
<1>7. ContributedInv'
  BY <1>1, <1>2, MovesContributed
<1>8. ResultInv'
  <2>1. ASSUME NEW q \in PE, NEW n \in 1 .. MaxCalls
        PROVE  \/ ret'[q][n] = ret[q][n]
               \/ (q = p /\ n = at[p] /\ at' = at /\ pc[p] = "max" /\ pc'[p] = "idle"
                   /\ AllIn(n, "max") /\ ret'[q][n] = Failure(n))
    <3>1. ret \in [PE -> [1 .. MaxCalls -> {0, 1, None}]]
      BY DEF TeamsInv, TypeOK
    <3> QED
      BY <1>1, <1>2, <1>3, <1>4, <3>1
  <2> QED
    BY <1>1, <1>2, <2>1, MovesResult DEF Enters
<1> QED
  BY <1>5, <1>6, <1>7, <1>8 DEF TeamsInv

(* A member of a new team takes the least index that all contributed; its  *)
(* mask is what it contributed, so the index was free, and the members     *)
(* before it took the same one.                                            *)
LEMMA SplitReducedInv == ASSUME TeamsInv, NEW p \in PE, split_reduced(p) PROVE TeamsInv'
<1>0. PICK n \in 0 .. Len(log) : n = at[p]
  BY DEF TeamsInv, PlaceInv
<1> USE <1>0
<1> DEFINE free == psync_pool_avail_reduced(n)
<1>1. /\ pc[p] = "op" /\ log[n].op = "split" /\ may_leave(p, n, "op")
      /\ split_reserve(p, n) /\ psync_avail' = psync_avail
      /\ \E b : enter(p, n, "barrier", b, {})
      /\ UNCHANGED << log, at, ret >>
  BY DEF split_reduced, release_psyncs
<1>2. Moves(p) /\ pc'[p] = "barrier"
  BY <1>1, SplitReducedMoves DEF TeamsInv, TypeOK, enter
<1>3. /\ n \in 1 .. Len(log) /\ n \in Nat /\ n <= MaxCalls /\ p \in log[n].team.mem
      /\ p \in log[n].child /\ AllIn(n, "op")
  <2>1. n \in 1 .. Len(log) /\ p \in log[n].team.mem /\ p \in Members(n, "op")
    BY <1>1 DEF TeamsInv, PlaceInv, LogInv
  <2>2. AllIn(n, "op")
    BY <1>1 DEF may_leave
  <2> QED
    BY <2>1, <2>2, <1>1, LogCall DEF Members, TeamsInv
<1>4. n + 1 \in TeamIds \ Default /\ (n + 1) - 1 = n
  BY <1>3, TeamsAssumption DEF TeamIds, Default, SHMEM_TEAM_WORLD, SHMEM_TEAM_SHARED
<1>5. /\ avail \in [PE -> SUBSET (0 .. TEAMS_MAX - 1)]
      /\ psync_idx \in [PE -> [TeamIds -> 0 .. TEAMS_MAX - 1 \cup {None}]]
  BY DEF TeamsInv, TypeOK
<1>6. LogInv' /\ EntryInv' /\ log' = log /\ at' = at
  BY <1>1, <1>2, MovesLog, MovesEntry
<1>7. /\ at' \in [PE -> 0 .. MaxCalls] /\ pc' \in [PE -> Phases \cup {"idle"}]
      /\ psync_avail' \in [PE -> [TeamIds -> SUBSET {0, 1}]]
      /\ ret' \in [PE -> [1 .. MaxCalls -> {0, 1, None}]]
  BY <1>1, <1>2 DEF Moves, TeamsInv, TypeOK
<1>8. PlaceInv'
  BY <1>1, <1>2, <1>3, MovesPlace
<1>9. ResultInv'
  BY <1>1, <1>2, MovesResult DEF Enters
<1>10. CASE free = {}
  <2>1. avail' = avail /\ psync_idx' = psync_idx
    BY <1>1, <1>10 DEF split_reserve
  <2>2. TypeOK' /\ PsyncOwnership'
    BY <2>1, <1>6, <1>7 DEF TeamsInv, TypeOK, PsyncOwnership
  <2>3. HeldInv'
    <3>1. ASSUME NEW q \in PE, NEW t \in TeamIds \ Default, psync_idx[q][t] # None
          PROVE  Held(q, t)'
      BY <3>1, <2>1, <1>2, <1>6, MovesHeld
    <3> QED
      BY <2>1, <3>1 DEF TeamsInv, HeldInv
  <2>4. TakenInv'
    <3> SUFFICES ASSUME NEW q \in PE, NEW m \in 1 .. Len(log),
                        log[m].op = "split", q \in log[m].child, Past(q, m)'
                 PROVE  /\ AllIn(m, "op")'
                        /\ \/ psync_pool_avail_reduced(m)' = {}
                           \/ psync_idx'[q][m + 1] # None
                           \/ \E k \in 1 .. Len(log) : /\ k <= at'[q] /\ log[k].op = "destroy"
                                                       /\ log[k].team.id = m + 1
      BY <1>6 DEF TakenInv
    <3>1. CASE Past(q, m)
      BY <3>1, <2>1, <1>2, MovesTaken
    <3>2. CASE ~ Past(q, m)
      <4>1. m = n
        BY <3>2, <1>2, MovesPastSplit
      <4> QED
        BY <4>1, <1>2, <1>3, <1>10, MovesReserves
    <3> QED
      BY <3>1, <3>2
  <2>5. ContributedInv'
    BY <2>1, <1>2, MovesContributed
  <2> QED
    BY <2>2, <2>3, <2>4, <2>5, <1>6, <1>8, <1>9 DEF TeamsInv
<1>11. CASE free # {}
  <2> DEFINE i == Min(free)
  <2>1. /\ avail' = [avail EXCEPT ![p] = @ \ {i}]
        /\ psync_idx' = [psync_idx EXCEPT ![p][n + 1] = i]
    BY <1>1, <1>11 DEF split_reserve
  <2>2. free \subseteq avail[p] /\ free \subseteq 0 .. TEAMS_MAX - 1
    <3>1. PICK e \in Entries(n, "op") : e.pe = p /\ e.val = avail[p]
      BY <1>1 DEF TeamsInv, ContributedInv
    <3> QED
      BY <3>1 DEF psync_pool_avail_reduced
  <2>3. i \in free
    <3>1. free \subseteq Nat
      BY <2>2, TeamsAssumption
    <3> HIDE DEF free
    <3> QED
      BY <3>1, <1>11, MinIsLeast
  <2>4. i \in avail[p] /\ i \in 0 .. TEAMS_MAX - 1 /\ i # None
    BY <2>2, <2>3, TeamsAssumption DEF None
  <2>5. psync_idx[p][n + 1] = None
    <3> SUFFICES ASSUME psync_idx[p][n + 1] # None PROVE FALSE
      OBVIOUS
    <3>1. Held(p, n + 1)
      BY <1>4 DEF TeamsInv, HeldInv
    <3> QED
      BY <3>1, <1>1, <1>3, <1>4 DEF Held, Past
  <2>6. /\ avail' \in [PE -> SUBSET (0 .. TEAMS_MAX - 1)]
        /\ psync_idx' \in [PE -> [TeamIds -> 0 .. TEAMS_MAX - 1 \cup {None}]]
        /\ avail'[p] = avail[p] \ {i} /\ psync_idx'[p][n + 1] = i
        /\ \A q \in PE \ {p} : avail'[q] = avail[q] /\ psync_idx'[q] = psync_idx[q]
        /\ \A t \in TeamIds : t # n + 1 => psync_idx'[p][t] = psync_idx[p][t]
    <3> HIDE DEF i
    <3> QED
      BY <2>1, <2>4, <1>4, <1>5
  <2>7. TypeOK'
    BY <2>6, <1>6, <1>7 DEF TeamsInv, TypeOK
  <2>8. \A q \in PE : psync_idx[q][n + 1] # None => psync_idx[q][n + 1] = i
    BY <1>4 DEF TeamsInv, HeldInv, Held
  <2>9. avail[p] = (0 .. TEAMS_MAX - 1) \ {psync_idx[p][t] : t \in TeamIds}
    BY DEF TeamsInv, PsyncOwnership
  <2>10. \A t \in TeamIds : psync_idx[p][t] # i
    BY <2>4, <2>9
  <2> HIDE DEF i, free
  <2>11. PsyncOwnership'
    <3>1. ASSUME NEW q \in PE, NEW t \in TeamIds, NEW u \in TeamIds, t # u,
                 psync_idx'[q][t] # None
          PROVE  psync_idx'[q][t] # psync_idx'[q][u]
      <4>1. psync_idx[q][t] # None => psync_idx[q][t] # psync_idx[q][u]
        BY <3>1 DEF TeamsInv, PsyncOwnership
      <4> QED
        BY <4>1, <3>1, <2>6, <2>10
    <3>2. ASSUME NEW q \in PE
          PROVE  avail'[q] = (0 .. TEAMS_MAX - 1) \ {psync_idx'[q][t] : t \in TeamIds}
      <4>1. CASE q # p
        BY <4>1, <2>6 DEF TeamsInv, PsyncOwnership
      <4>2. CASE q = p
        <5>1. \A t \in TeamIds : psync_idx'[p][t] = IF t = n + 1 THEN i ELSE psync_idx[p][t]
          BY <2>6
        <5>2. None \notin 0 .. TEAMS_MAX - 1
          BY DEF None
        <5>3. ASSUME NEW x \in 0 .. TEAMS_MAX - 1
              PROVE  (\E t \in TeamIds : x = psync_idx'[p][t]) <=>
                       x = i \/ \E t \in TeamIds : x = psync_idx[p][t]
          BY <5>1, <5>2, <2>5, <1>4
        <5>4. avail'[p] = (0 .. TEAMS_MAX - 1) \ {psync_idx'[p][t] : t \in TeamIds}
          BY <5>3, <2>6, <2>9
        <5> QED
          BY <4>2, <5>4
      <4> QED
        BY <4>1, <4>2
    <3>3. ASSUME NEW q \in PE, NEW r \in PE, NEW t \in TeamIds,
                 psync_idx'[q][t] # None, psync_idx'[r][t] # None
          PROVE  psync_idx'[q][t] = psync_idx'[r][t]
      <4>1. psync_idx[q][t] # None /\ psync_idx[r][t] # None => psync_idx[q][t] = psync_idx[r][t]
        BY DEF TeamsInv, PsyncOwnership
      <4>2. CASE t # n + 1
        BY <4>1, <4>2, <3>3, <2>6
      <4>3. CASE t = n + 1
        BY <4>3, <3>3, <2>6, <2>8
      <4> QED
        BY <4>2, <4>3
    <3> QED
      BY <2>7, <3>1, <3>2, <3>3 DEF PsyncOwnership
  <2>12. Held(p, n + 1)'
    <3>1. Reserves(n) /\ Reserves(n)' /\ psync_pool_avail_reduced(n)' = free
      BY <1>2, <1>3, <1>11, MovesReserves DEF Reserves, free
    <3>2. Past(p, n)'
      BY <1>2, <1>6 DEF Past
    <3>3. ASSUME NEW m \in 1 .. Len(log), log[m].op = "destroy", log[m].team.id = n + 1
          PROVE  at'[p] < m
      <4>1. SoundCall(m) /\ m \in Nat
        BY LogCall DEF TeamsInv
      <4>2. PICK k \in 1 .. m - 1 : log[m].team.id = k + 1
        BY <4>1, <3>3 DEF SoundCall
      <4> QED
        BY <4>1, <4>2, <3>3, <1>3, <1>6
    <3>4. psync_idx'[p][n + 1] = Min(psync_pool_avail_reduced(n)')
      BY <3>1, <2>6 DEF i
    <3> QED
      BY <3>1, <3>2, <3>3, <3>4, <1>1, <1>3, <1>4, <1>6 DEF Held
  <2>13. HeldInv'
    <3>1. ASSUME NEW q \in PE, NEW t \in TeamIds \ Default, psync_idx'[q][t] # None
          PROVE  Held(q, t)'
      <4>1. CASE q = p /\ t = n + 1
        BY <4>1, <2>12
      <4>2. CASE ~ (q = p /\ t = n + 1)
        <5>1. psync_idx'[q][t] = psync_idx[q][t]
          BY <4>2, <2>6
        <5> QED
          BY <5>1, <3>1, <1>2, <1>6, MovesHeld
      <4> QED
        BY <4>1, <4>2
    <3>2. ASSUME NEW q \in PE, NEW t \in Default PROVE psync_idx'[q][t] = t
      <4>1. psync_idx[q][t] = t /\ t \in TeamIds /\ t # n + 1
        BY <1>3, TeamsAssumption
           DEF TeamsInv, HeldInv, Default, TeamIds, SHMEM_TEAM_WORLD, SHMEM_TEAM_SHARED
      <4> QED
        BY <4>1, <2>6
    <3> QED
      BY <3>1, <3>2 DEF HeldInv
  <2>14. TakenInv'
    <3> SUFFICES ASSUME NEW q \in PE, NEW m \in 1 .. Len(log),
                        log[m].op = "split", q \in log[m].child, Past(q, m)'
                 PROVE  /\ AllIn(m, "op")'
                        /\ \/ psync_pool_avail_reduced(m)' = {}
                           \/ psync_idx'[q][m + 1] # None
                           \/ \E k \in 1 .. Len(log) : /\ k <= at'[q] /\ log[k].op = "destroy"
                                                       /\ log[k].team.id = m + 1
      BY <1>6 DEF TakenInv
    <3>1. CASE Past(q, m)
      <4>1. m + 1 \in TeamIds /\ m \in Nat
        BY LogCall, TeamsAssumption DEF TeamsInv, TeamIds
      <4>2. ~ (q = p /\ m = n)
        BY <3>1, <1>1, <1>3 DEF Past
      <4>3. psync_idx'[q][m + 1] = psync_idx[q][m + 1]
        BY <4>1, <4>2, <2>6, <1>3
      <4> QED
        BY <3>1, <4>3, <1>2, MovesTaken
    <3>2. CASE ~ Past(q, m)
      <4>1. m = n /\ q = p
        BY <3>2, <1>2, MovesPastSplit
      <4> QED
        BY <4>1, <1>2, <1>3, <2>4, <2>6, MovesReserves
    <3> QED
      BY <3>1, <3>2
  <2>15. ContributedInv'
    BY <2>6, <1>2, MovesContributed
  <2> QED
    BY <2>7, <2>11, <2>13, <2>14, <2>15, <1>6, <1>8, <1>9 DEF TeamsInv
<1> QED
  BY <1>10, <1>11

(* The team a PE destroys is one it holds: it made every earlier call on   *)
(* its teams, the split included, and nobody calls for a second destroy.   *)
LEMMA TeamDestroyInv == ASSUME TeamsInv, NEW p \in PE, team_destroy(p) PROVE TeamsInv'
<1>1. PICK n \in 1 .. MaxCalls :
         /\ next_call(p, n) /\ log[n].op = "destroy"
         /\ at' = [at EXCEPT ![p] = n]
         /\ avail' = [avail EXCEPT ![p] = @ \cup {psync_idx[p][log[n].team.id]}]
         /\ psync_idx' = [psync_idx EXCEPT ![p][log[n].team.id] = None]
         /\ UNCHANGED << log, pc, psync_avail, entered, left, ret >>
  BY DEF team_destroy
<1>2. Moves(p) /\ pc[p] = "idle" /\ IsNext(p, n)
  BY <1>1, TeamDestroyMoves, NextCall
<1>3. /\ n \in 1 .. Len(log) /\ p \in log[n].team.mem /\ at'[p] = n /\ SoundCall(n)
      /\ at[p] \in Nat /\ n \in Nat /\ at[p] < n /\ at'[p] # at[p] /\ log[n].team.id \in TeamIds
  BY <1>1, <1>2, LogCall, TeamsAssumption DEF TeamsInv, TypeOK, IsNext
<1>4. PICK k \in 1 .. n - 1 : /\ log[n].team.id = k + 1 /\ log[k].op = "split"
                              /\ log[n].team.mem = log[k].child /\ Reserves(k)
  BY <1>1, <1>3 DEF SoundCall
<1>5. k \in 1 .. Len(log) /\ k \in Nat /\ k < n /\ p \in log[k].child
  BY <1>3, <1>4 DEF TeamsInv, LogInv
<1>6. PICK t \in TeamIds \ Default : t = k + 1 /\ t = log[n].team.id
  BY <1>1, <1>3, <1>4 DEF SoundCall
<1>7. Past(p, k)
  <2>1. p \in log[k].team.mem
    BY <1>4, <1>5, LogCall DEF TeamsInv, SoundCall
  <2>2. ~ (at[p] < k)
    BY <2>1, <1>2, <1>5 DEF IsNext
  <2> QED
    BY <2>2, <1>2, <1>3, <1>5 DEF Past
<1>8. psync_idx[p][t] # None
  <2> SUFFICES ASSUME psync_idx[p][t] = None PROVE FALSE
    OBVIOUS
  <2>1. PICK m \in 1 .. Len(log) : m <= at[p] /\ log[m].op = "destroy" /\ log[m].team.id = t
    BY <1>4, <1>5, <1>6, <1>7 DEF TeamsInv, TakenInv, Reserves
  <2>2. m \in 1 .. n - 1
    BY <2>1, <1>3 DEF TeamsInv, LogInv
  <2> QED
    BY <2>1, <2>2, <1>3, <1>6 DEF SoundCall
<1>9. /\ avail \in [PE -> SUBSET (0 .. TEAMS_MAX - 1)]
      /\ psync_idx \in [PE -> [TeamIds -> 0 .. TEAMS_MAX - 1 \cup {None}]]
  BY DEF TeamsInv, TypeOK
<1>10. PICK i \in 0 .. TEAMS_MAX - 1 : i = psync_idx[p][t]
  BY <1>8, <1>9
<1>11. /\ avail' \in [PE -> SUBSET (0 .. TEAMS_MAX - 1)]
       /\ psync_idx' \in [PE -> [TeamIds -> 0 .. TEAMS_MAX - 1 \cup {None}]]
       /\ avail'[p] = avail[p] \cup {i} /\ psync_idx'[p][t] = None
       /\ \A q \in PE \ {p} : avail'[q] = avail[q] /\ psync_idx'[q] = psync_idx[q]
       /\ \A u \in TeamIds : u # t => psync_idx'[p][u] = psync_idx[p][u]
  BY <1>1, <1>6, <1>9, <1>10
<1>12. LogInv' /\ EntryInv' /\ log' = log
  BY <1>1, <1>2, MovesLog, MovesEntry
<1>13. TypeOK'
  <2>1. at' \in [PE -> 0 .. MaxCalls] /\ pc' \in [PE -> Phases \cup {"idle"}]
    BY <1>2 DEF Moves
  <2> QED
    BY <2>1, <1>1, <1>11, <1>12 DEF TeamsInv, TypeOK
<1>14. PsyncOwnership'
  <2>1. ASSUME NEW q \in PE, NEW u \in TeamIds, NEW v \in TeamIds, u # v,
               psync_idx'[q][u] # None
        PROVE  psync_idx'[q][u] # psync_idx'[q][v]
    <3>1. psync_idx[q][u] # None => psync_idx[q][u] # psync_idx[q][v]
      BY <2>1 DEF TeamsInv, PsyncOwnership
    <3> QED
      BY <3>1, <2>1, <1>11
  <2>2. ASSUME NEW q \in PE
        PROVE  avail'[q] = (0 .. TEAMS_MAX - 1) \ {psync_idx'[q][u] : u \in TeamIds}
    <3>1. avail[q] = (0 .. TEAMS_MAX - 1) \ {psync_idx[q][u] : u \in TeamIds}
      BY DEF TeamsInv, PsyncOwnership
    <3>2. CASE q # p
      BY <3>1, <3>2, <1>11
    <3>3. CASE q = p
      <4>1. \A u \in TeamIds : psync_idx'[p][u] = IF u = t THEN None ELSE psync_idx[p][u]
        BY <1>11
      <4>2. \A u \in TeamIds : u # t => psync_idx[p][u] # i
        BY <1>8, <1>10 DEF TeamsInv, PsyncOwnership
      <4>3. None \notin 0 .. TEAMS_MAX - 1
        BY DEF None
      <4>4. ASSUME NEW x \in 0 .. TEAMS_MAX - 1
            PROVE  (\E u \in TeamIds : x = psync_idx'[p][u]) <=>
                     x # i /\ \E u \in TeamIds : x = psync_idx[p][u]
        BY <4>1, <4>2, <4>3, <1>10
      <4>5. avail'[p] = (0 .. TEAMS_MAX - 1) \ {psync_idx'[p][u] : u \in TeamIds}
        BY <4>4, <3>1, <3>3, <1>10, <1>11
      <4> QED
        BY <3>3, <4>5
    <3> QED
      BY <3>2, <3>3
  <2>3. ASSUME NEW q \in PE, NEW r \in PE, NEW u \in TeamIds,
               psync_idx'[q][u] # None, psync_idx'[r][u] # None
        PROVE  psync_idx'[q][u] = psync_idx'[r][u]
    <3>1. psync_idx[q][u] # None /\ psync_idx[r][u] # None => psync_idx[q][u] = psync_idx[r][u]
      BY DEF TeamsInv, PsyncOwnership
    <3> QED
      BY <3>1, <2>3, <1>11
  <2> QED
    BY <1>13, <2>1, <2>2, <2>3 DEF PsyncOwnership
<1>15. HeldInv'
  <2>1. ASSUME NEW q \in PE, NEW u \in TeamIds \ Default, psync_idx'[q][u] # None
        PROVE  Held(q, u)'
    <3>1. psync_idx'[q][u] = psync_idx[q][u] /\ ~ (q = p /\ u = t)
      BY <2>1, <1>11
    <3> QED
      BY <3>1, <2>1, <1>2, <1>3, <1>6, MovesHeld
  <2>2. ASSUME NEW q \in PE, NEW u \in Default PROVE psync_idx'[q][u] = u
    <3>1. psync_idx[q][u] = u /\ u \in TeamIds /\ u # t
      BY TeamsAssumption
         DEF TeamsInv, HeldInv, Default, TeamIds, SHMEM_TEAM_WORLD, SHMEM_TEAM_SHARED
    <3> QED
      BY <3>1, <1>11
  <2> QED
    BY <2>1, <2>2 DEF HeldInv
<1>16. TakenInv'
  <2> SUFFICES ASSUME NEW q \in PE, NEW m \in 1 .. Len(log),
                      log[m].op = "split", q \in log[m].child, Past(q, m)'
               PROVE  /\ AllIn(m, "op")'
                      /\ \/ psync_pool_avail_reduced(m)' = {}
                         \/ psync_idx'[q][m + 1] # None
                         \/ \E j \in 1 .. Len(log) : /\ j <= at'[q] /\ log[j].op = "destroy"
                                                     /\ log[j].team.id = m + 1
    BY <1>12 DEF TakenInv
  <2>1. Past(q, m)
    <3> SUFFICES ASSUME ~ Past(q, m) PROVE FALSE
      OBVIOUS
    <3> QED
      BY <1>2, <1>3, MovesPastSplit
  <2>2. CASE q = p /\ m = k
    <3>1. AllIn(m, "op")'
      BY <2>2, <1>2, <1>4, <1>5, MovesReserves DEF Reserves
    <3> QED
      BY <3>1, <2>2, <1>1, <1>3, <1>4
  <2>3. CASE ~ (q = p /\ m = k)
    <3>1. m + 1 \in TeamIds /\ m \in Nat
      BY LogCall, TeamsAssumption DEF TeamsInv, TeamIds
    <3>2. psync_idx'[q][m + 1] = psync_idx[q][m + 1]
      BY <3>1, <2>3, <1>5, <1>6, <1>11
    <3> QED
      BY <3>2, <2>1, <1>2, MovesTaken
  <2> QED
    BY <2>2, <2>3
<1>17. PlaceInv'
  BY <1>1, <1>2, MovesPlace
<1>18. ContributedInv'
  BY <1>1, <1>2, <1>11, MovesContributed
<1>19. ResultInv'
  BY <1>1, <1>2, MovesResult DEF Enters
<1> QED
  BY <1>12, <1>13, <1>14, <1>15, <1>16, <1>17, <1>18, <1>19 DEF TeamsInv

(* A call the program adds is on a team that the PE holds, and that nobody *)
(* has asked to destroy: the PE is a member and has made every call so far. *)
LEMMA HandleTeam ==
  ASSUME TeamsInv, NEW p \in PE, NEW t \in Handles(p)
  PROVE  /\ t \in AnyTeam
         /\ \/ t \in {World, SharedOf(p)} /\ t.id \in Default
            \/ \E n \in 1 .. Len(log) : /\ t.id = n + 1 /\ t.mem = log[n].child
                                        /\ t.id \in TeamIds \ Default
                                        /\ log[n].op = "split" /\ Held(p, n + 1)
<1>1. t \in {World, SharedOf(p)} \/ \E n \in DOMAIN log : log[n].op = "split" /\ t = Made(n)
  BY DEF Handles
<1>2. CASE t = World
  <2>1. t.id = 0 /\ t \in AnyTeam
    BY <1>2, TeamsAssumption DEF World, SHMEM_TEAM_WORLD, AnyTeam, TeamIds
  <2> QED
    BY <1>2, <2>1 DEF Default, SHMEM_TEAM_WORLD
<1>3. CASE t = SharedOf(p)
  <2>1. \E A \in Nodes : p \in A
    BY TeamsAssumption
  <2>2. (CHOOSE A \in Nodes : p \in A) \subseteq PE
    BY <2>1, TeamsAssumption
  <2>3. t.id = 1 /\ t \in AnyTeam
    BY <1>3, <2>2, TeamsAssumption DEF SharedOf, SHMEM_TEAM_SHARED, AnyTeam, TeamIds
  <2> QED
    BY <1>3, <2>3 DEF Default, SHMEM_TEAM_SHARED
<1>4. CASE \E n \in DOMAIN log : log[n].op = "split" /\ t = Made(n)
  <2>1. PICK n \in 1 .. Len(log) : log[n].op = "split" /\ t = Made(n)
    BY <1>4 DEF TeamsInv, LogInv
  <2>2. log[n] \in AnyCall /\ n \in Nat /\ n <= MaxCalls /\ n >= 1
    BY LogCall DEF TeamsInv
  <2>3. log[n].child \subseteq PE
    BY <2>1, <2>2, LogCall DEF TeamsInv, SoundCall
  <2>4. n + 1 \in TeamIds \ Default
    BY <2>2, TeamsAssumption DEF TeamIds, Default, SHMEM_TEAM_WORLD, SHMEM_TEAM_SHARED
  <2>5. t.id = n + 1 /\ t.mem = log[n].child /\ t \in AnyTeam
    BY <2>1, <2>3, <2>4 DEF Made, AnyTeam
  <2>6. psync_idx[p][n + 1] # None
    BY <2>5 DEF Handles
  <2>7. Held(p, n + 1)
    BY <2>4, <2>6 DEF TeamsInv, HeldInv
  <2> QED
    BY <2>1, <2>4, <2>5, <2>7
<1> QED
  BY <1>1, <1>2, <1>3, <1>4

(* What a correct program calls. *)
LEMMA ProgramCall ==
  ASSUME TeamsInv, NEW p \in PE, NEW c \in Calls(p)
  PROVE  /\ c \in AnyCall /\ c.team \in Handles(p)
         /\ c.op = "split" => c.child # {} /\ c.child \subseteq c.team.mem
         /\ c.op = "destroy" => c.team \notin {World, SharedOf(p)}
<1> DEFINE made == {log[n].op : n \in DOMAIN log}
           next == UNION {P \in Programs : made \subseteq P}
<1>1. PICK t \in Handles(p) :
         \/ c \in [op : next \cap {"sync", "reduce"}, team : {t}]
         \/ c \in [op : next \cap {"bcast"}, team : {t}, root : t.mem]
         \/ c \in [op : next \cap {"split"}, team : {t},
                   child : {C \in Children : C \subseteq t.mem}]
         \/ c \in [op : next \cap {"destroy"}, team : {t} \ {World, SharedOf(p)}]
  BY DEF Calls
<1> HIDE DEF next, made
<1>2. t \in AnyTeam /\ t.mem \subseteq PE
  BY HandleTeam DEF AnyTeam
<1>3. CASE c \in [op : next \cap {"sync", "reduce"}, team : {t}]
  BY <1>2, <1>3 DEF AnyCall
<1>4. CASE c \in [op : next \cap {"bcast"}, team : {t}, root : t.mem]
  BY <1>2, <1>4 DEF AnyCall
<1>5. CASE c \in [op : next \cap {"split"}, team : {t},
                  child : {C \in Children : C \subseteq t.mem}]
  <2>1. c.team = t /\ c.op = "split" /\ c.child \in Children /\ c.child \subseteq t.mem
    BY <1>5
  <2>2. c.child # {} /\ c.child \subseteq PE
    BY <2>1, <1>2, TeamsAssumption
  <2>3. c \in [op : {"split"}, team : AnyTeam, child : SUBSET PE]
    BY <1>2, <1>5, <2>2
  <2> QED
    BY <2>1, <2>2, <2>3 DEF AnyCall
<1>6. CASE c \in [op : next \cap {"destroy"}, team : {t} \ {World, SharedOf(p)}]
  BY <1>2, <1>6 DEF AnyCall
<1> QED
  BY <1>1, <1>3, <1>4, <1>5, <1>6

(* The program appends a call to the log. *)
LEMMA ProgramInv == ASSUME TeamsInv, NEW p \in PE, program(p) PROVE TeamsInv'
<1>1. PICK c \in Calls(p) : log' = Append(log, c)
  BY DEF program
<1>2. UNCHANGED << at, pc, avail, psync_idx, psync_avail, entered, left, ret >>
  BY DEF program
<1>3. /\ c \in AnyCall /\ c.team \in Handles(p)
      /\ c.op = "split" => c.child # {} /\ c.child \subseteq c.team.mem
      /\ c.op = "destroy" => c.team \notin {World, SharedOf(p)}
  BY ProgramCall
<1>4. PICK N \in Nat : N = Len(log)
  BY DEF TeamsInv, LogInv
<1>5. /\ log' \in Seq(AnyCall) /\ Len(log') = N + 1 /\ log'[N + 1] = c
      /\ \A n \in 1 .. N : log'[n] = log[n]
      /\ N + 1 <= MaxCalls /\ DOMAIN log' = 1 .. N + 1 /\ DOMAIN log = 1 .. N
  BY <1>1, <1>3, <1>4, TeamsAssumption DEF TeamsInv, LogInv, program
<1>6. ASSUME NEW n \in 1 .. N
      PROVE  /\ \A ph : /\ Members(n, ph)' = Members(n, ph)
                        /\ Entries(n, ph)' = Entries(n, ph)
                        /\ AllIn(n, ph)' = AllIn(n, ph)
             /\ psync_pool_avail_reduced(n)' = psync_pool_avail_reduced(n)
             /\ Failure(n)' = Failure(n) /\ Reserves(n)' = Reserves(n)
  <2>1. ASSUME NEW ph
        PROVE  Members(n, ph)' = Members(n, ph) /\ Entries(n, ph)' = Entries(n, ph)
    BY <1>2, <1>5 DEF Members, Entries
  <2>2. ASSUME NEW ph PROVE AllIn(n, ph)' = AllIn(n, ph)
    BY <2>1 DEF AllIn, Inside
  <2>3. psync_pool_avail_reduced(n)' = psync_pool_avail_reduced(n)
    BY <2>1 DEF psync_pool_avail_reduced
  <2> QED
    BY <2>1, <2>2, <2>3 DEF Failure, Reserves
<1>7. \A q \in PE : at[q] \in 0 .. N /\ at[q] \in Nat /\ at[q] < N + 1
  BY <1>4 DEF TeamsInv, PlaceInv
<1>8. \A q \in PE : \A n : Past(q, n)' = Past(q, n)
  BY <1>2 DEF Past
<1>9. ASSUME NEW n \in 1 .. N PROVE SoundCall(n)'
  <2>1. SoundCall(n)
    BY <1>4 DEF TeamsInv, LogInv
  <2>2. \A m \in 1 .. n - 1 : m \in 1 .. N
    BY <1>4
  <2> QED
    BY <2>1, <2>2, <1>5, <1>6 DEF SoundCall
<1>10. SoundCall(N + 1)'
  <2>1. \A m \in 1 .. (N + 1) - 1 : m \in 1 .. N
    BY <1>4
  <2>2. CASE c.team \in {World, SharedOf(p)} /\ c.team.id \in Default
    <3>1. \A m \in 1 .. N : log[m].op = "destroy" => log[m].team.id \notin Default
      BY <1>4 DEF TeamsInv, LogInv, SoundCall
    <3> QED
      BY <2>1, <2>2, <3>1, <1>3, <1>5 DEF SoundCall
  <2>3. CASE \E n \in 1 .. Len(log) : /\ c.team.id = n + 1 /\ c.team.mem = log[n].child
                                      /\ c.team.id \in TeamIds \ Default
                                      /\ log[n].op = "split" /\ Held(p, n + 1)
    <3>1. PICK n \in 1 .. N : /\ c.team.id = n + 1 /\ c.team.mem = log[n].child
                              /\ c.team.id \in TeamIds \ Default
                              /\ log[n].op = "split" /\ Held(p, n + 1)
      BY <2>3, <1>4
    <3>2. n \in Nat /\ (n + 1) - 1 = n /\ p \in log[n].child /\ Reserves(n)
      BY <3>1, <1>4 DEF Held
    <3>3. ASSUME NEW m \in 1 .. N, log[m].op = "destroy", log[m].team.id = c.team.id
          PROVE  FALSE
      <4>1. SoundCall(m) /\ at[p] < m /\ m \in Nat
        BY <1>4, <3>1, <3>3 DEF TeamsInv, LogInv, Held
      <4>2. PICK k \in 1 .. m - 1 : log[m].team.id = k + 1 /\ log[m].team.mem = log[k].child
        BY <4>1, <3>1, <3>3 DEF SoundCall
      <4>3. k = n
        BY <4>2, <3>1, <3>2, <3>3
      <4>4. p \in log[m].team.mem
        BY <4>2, <4>3, <3>2
      <4> QED
        BY <4>1, <4>4, <1>5, <1>7 DEF program
    <3>4. n \in 1 .. (N + 1) - 1 /\ Reserves(n)'
      BY <3>1, <3>2, <1>6
    <3> QED
      BY <2>1, <3>1, <3>3, <3>4, <1>3, <1>5 DEF SoundCall
  <2> QED
    BY <1>3, <2>2, <2>3, HandleTeam
<1>11. LogInv'
  BY <1>5, <1>9, <1>10 DEF LogInv
<1>12. TypeOK'
  <2>1. ASSUME NEW n \in DOMAIN log' PROVE log'[n].op \in Ops /\ log'[n].team.mem \subseteq PE
    <3>1. log'[n] \in AnyCall
      BY <1>5
    <3>2. log'[n].op \in Ops /\ log'[n].team \in AnyTeam
      BY <3>1 DEF AnyCall, Ops
    <3> QED
      BY <3>2 DEF AnyTeam
  <2> QED
    BY <2>1, <1>2 DEF TeamsInv, TypeOK
<1>13. PsyncOwnership'
  BY <1>2, <1>12 DEF TeamsInv, PsyncOwnership
<1>14. PlaceInv'
  <2>1. ASSUME NEW q \in PE, at[q] # 0
        PROVE  log'[at[q]] = log[at[q]] /\ Members(at[q], "op")' = Members(at[q], "op")
    <3>1. at[q] \in 1 .. N
      BY <2>1, <1>7
    <3>2. log'[at[q]] = log[at[q]]
      BY <3>1, <1>5
    <3> QED
      BY <3>2, <1>2 DEF Members
  <2>2. ASSUME NEW q \in PE
        PROVE  /\ at[q] \in 0 .. N + 1
               /\ pc[q] # "idle" => at[q] # 0 /\ q \in log'[at[q]].team.mem
               /\ pc[q] = "quiesce" => log'[at[q]].op \in {"bcast", "reduce", "split"}
               /\ pc[q] = "op" => /\ log'[at[q]].op \in {"bcast", "reduce", "split"}
                                  /\ q \in Members(at[q], "op")'
               /\ pc[q] = "barrier" => log'[at[q]].op \in {"sync", "split"}
               /\ pc[q] = "max" => log'[at[q]].op = "split"
    BY <2>1, <1>7 DEF TeamsInv, PlaceInv
  <2> QED
    BY <2>2, <1>2, <1>5 DEF PlaceInv
<1>15. EntryInv'
  BY <1>2, <1>4, <1>5, <1>6 DEF TeamsInv, EntryInv
<1>16. ContributedInv'
  <2>1. ASSUME NEW q \in PE, pc[q] = "op", log'[at[q]].op = "split"
        PROVE  \E e \in entered : e.n = at[q] /\ e.ph = "op" /\ e.pe = q /\ e.val = avail[q]
    <3>1. at[q] \in 1 .. N
      BY <2>1, <1>7 DEF TeamsInv, PlaceInv
    <3> QED
      BY <3>1, <2>1, <1>5 DEF TeamsInv, ContributedInv, Entries
  <2> QED
    BY <2>1, <1>2 DEF ContributedInv, Entries
<1>17. TakenInv'
  <2>1. ASSUME NEW q \in PE, NEW n \in 1 .. N + 1, log'[n].op = "split", q \in log'[n].child,
               Past(q, n)
        PROVE  /\ AllIn(n, "op")'
               /\ \/ psync_pool_avail_reduced(n)' = {}
                  \/ psync_idx[q][n + 1] # None
                  \/ \E m \in 1 .. N + 1 : /\ m <= at[q] /\ log'[m].op = "destroy"
                                           /\ log'[m].team.id = n + 1
    <3>1. n \in 1 .. N
      BY <2>1, <1>4, <1>7 DEF Past
    <3>2. log'[n] = log[n] /\ \A m \in 1 .. N : log'[m] = log[m] /\ m \in 1 .. N + 1
      BY <3>1, <1>5
    <3> QED
      BY <3>1, <3>2, <2>1, <1>4, <1>6 DEF TeamsInv, TakenInv
  <2> QED
    BY <2>1, <1>2, <1>5, <1>8 DEF TakenInv
<1>18. HeldInv'
  <2>1. ASSUME NEW q \in PE, NEW t \in TeamIds \ Default, psync_idx[q][t] # None
        PROVE  Held(q, t)'
    <3>1. Held(q, t)
      BY <2>1 DEF TeamsInv, HeldInv
    <3>2. t - 1 \in 1 .. N /\ t - 1 \in 1 .. N + 1
      BY <3>1, <1>4 DEF Held
    <3>3. ASSUME NEW m \in 1 .. N + 1, log'[m].op = "destroy", log'[m].team.id = t
          PROVE  at[q] < m
      BY <3>1, <3>3, <1>4, <1>5, <1>7 DEF Held
    <3> QED
      BY <3>1, <3>2, <3>3, <1>2, <1>5, <1>6, <1>8 DEF Held
  <2> QED
    BY <2>1, <1>2 DEF TeamsInv, HeldInv
<1>19. ResultInv'
  <2>1. ASSUME NEW e \in entered, e.ph = "max"
        PROVE  /\ log'[e.n].op = "split"
               /\ e.val = {IF e.pe \in log'[e.n].child THEN Failure(e.n)' ELSE 0}
    <3>1. e.n \in 1 .. N
      BY <1>4 DEF TeamsInv, EntryInv
    <3> QED
      BY <3>1, <2>1, <1>5, <1>6 DEF TeamsInv, ResultInv
  <2>2. ASSUME NEW q \in PE, NEW n \in 1 .. MaxCalls, ret[q][n] # None
        PROVE  /\ n \in 1 .. N + 1 /\ log'[n].op = "split" /\ AllIn(n, "max")'
               /\ ret[q][n] = Failure(n)'
               /\ at[q] >= n /\ (at[q] = n => pc[q] = "idle")
    <3>1. n \in 1 .. N
      BY <2>2, <1>4 DEF TeamsInv, ResultInv
    <3> QED
      BY <3>1, <2>2, <1>5, <1>6 DEF TeamsInv, ResultInv
  <2>3. ASSUME NEW q \in PE, pc[q] = "max"
        PROVE  \E e \in entered : e.n = at[q] /\ e.ph = "max" /\ e.pe = q
    BY <2>3 DEF TeamsInv, ResultInv, Entries
  <2> QED
    BY <2>1, <2>2, <2>3, <1>2, <1>5 DEF ResultInv, Entries
<1> QED
  BY <1>11, <1>12, <1>13, <1>14, <1>15, <1>16, <1>17, <1>18, <1>19 DEF TeamsInv

-----------------------------------------------------------------------------
(* Before the first call there are the predefined teams only. *)
LEMMA TeamsInit == Init => TeamsInv
<1> SUFFICES ASSUME Init PROVE TeamsInv
  OBVIOUS
<1> USE TeamsAssumption DEF Init
<1>1. /\ log = << >> /\ Len(log) = 0 /\ DOMAIN log = {} /\ log \in Seq(AnyCall)
      /\ 1 .. Len(log) = {}
  OBVIOUS
<1>2. /\ psync_idx \in [PE -> [TeamIds -> 0 .. TEAMS_MAX - 1 \cup {None}]]
      /\ \A p \in PE, t \in TeamIds : psync_idx[p][t] = IF t \in {0, 1} THEN t ELSE None
      /\ 0 \in TeamIds /\ 1 \in TeamIds
  BY DEF TeamIds, SHMEM_TEAM_WORLD, SHMEM_TEAM_SHARED
<1>3. TypeOK
  BY <1>1, <1>2 DEF TypeOK
<1>4. PsyncOwnership
  <2>1. \A p \in PE, t, u \in TeamIds :
          t # u /\ psync_idx[p][t] # None => psync_idx[p][t] # psync_idx[p][u]
    BY <1>2 DEF None
  <2>2. ASSUME NEW p \in PE
        PROVE  avail[p] = (0 .. TEAMS_MAX - 1) \ {psync_idx[p][t] : t \in TeamIds}
    <3>1. avail[p] = (0 .. TEAMS_MAX - 1) \ {0, 1}
      BY DEF SHMEM_TEAM_WORLD, SHMEM_TEAM_SHARED
    <3>2. ASSUME NEW x \in 0 .. TEAMS_MAX - 1
          PROVE  (\E t \in TeamIds : x = psync_idx[p][t]) <=> x \in {0, 1}
      BY <1>2 DEF None
    <3> QED
      BY <3>1, <3>2
  <2> QED
    BY <1>2, <1>3, <2>1, <2>2 DEF PsyncOwnership
<1>5. LogInv /\ TakenInv
  BY <1>1 DEF LogInv, TakenInv
<1>6. PlaceInv /\ EntryInv /\ ContributedInv
  BY <1>1 DEF PlaceInv, EntryInv, ContributedInv
<1>7. HeldInv
  BY <1>2 DEF HeldInv, Default, SHMEM_TEAM_WORLD, SHMEM_TEAM_SHARED
<1>8. ResultInv
  BY <1>1 DEF ResultInv
<1> QED
  BY <1>3, <1>4, <1>5, <1>6, <1>7, <1>8 DEF TeamsInv

(* Nothing changes. *)
LEMMA TeamsStutter == TeamsInv /\ UNCHANGED vars => TeamsInv'
<1> SUFFICES ASSUME TeamsInv, UNCHANGED vars PROVE TeamsInv'
  OBVIOUS
<1> USE DEF vars
<1>1. \A n, ph : Members(n, ph)' = Members(n, ph) /\ Entries(n, ph)' = Entries(n, ph)
  BY DEF Members, Entries
<1>2. \A n, ph : AllIn(n, ph)' = AllIn(n, ph)
  BY <1>1 DEF AllIn, Inside
<1>3. \A n : psync_pool_avail_reduced(n)' = psync_pool_avail_reduced(n)
  BY <1>1 DEF psync_pool_avail_reduced
<1>4. \A n : Reserves(n)' = Reserves(n) /\ Failure(n)' = Failure(n)
  BY <1>2, <1>3 DEF Reserves, Failure
<1>5. \A p, n : Past(p, n)' = Past(p, n)
  BY DEF Past
<1>6. LogInv'
  BY <1>4 DEF TeamsInv, LogInv, SoundCall
<1>7. TypeOK' /\ PsyncOwnership'
  BY DEF TeamsInv, TypeOK, PsyncOwnership
<1>8. PlaceInv' /\ EntryInv' /\ ContributedInv'
  BY <1>1 DEF TeamsInv, PlaceInv, EntryInv, ContributedInv
<1>9. TakenInv'
  BY <1>2, <1>3, <1>5 DEF TeamsInv, TakenInv
<1>10. HeldInv'
  BY <1>3, <1>4, <1>5 DEF TeamsInv, HeldInv, Held
<1>11. ResultInv'
  BY <1>1, <1>2, <1>4 DEF TeamsInv, ResultInv
<1> QED
  BY <1>6, <1>7, <1>8, <1>9, <1>10, <1>11 DEF TeamsInv

(* The invariant holds throughout. *)
LEMMA TeamsInvariant == Spec => []TeamsInv
<1>1. Init => TeamsInv
  BY TeamsInit
<1>2. TeamsInv /\ [Next]_vars => TeamsInv'
  <2> SUFFICES ASSUME TeamsInv, [Next]_vars PROVE TeamsInv'
    OBVIOUS
  <2>1. CASE UNCHANGED vars
    BY <2>1, TeamsStutter
  <2>2. ASSUME NEW p \in PE, program(p) \/ step(p) PROVE TeamsInv'
    BY <2>2, ProgramInv, TeamCallInv, TeamSyncInv, TeamDestroyInv, QuiescedInv, CollReturnInv,
       SplitReducedInv, BarrierReturnInv, SplitReturnInv DEF step
  <2> QED
    BY <2>1, <2>2 DEF Next
<1> QED
  BY <1>1, <1>2, PTL DEF Spec

(* The PEs agree on who owns which pSync index, for any number of PEs and  *)
(* indices, any sets of PEs to split off and programs of any length: at a  *)
(* PE the indices of its teams differ and are those its psync_pool_avail   *)
(* has given away, and the members of a team hold the same one, although   *)
(* shmem_internal_team_split_strided and _destroy change only the caller's *)
(* mask and the PEs are in different calls.                                *)
THEOREM TeamsAgreeOnPsyncs == Spec => []PsyncOwnership
<1>1. TeamsInv => PsyncOwnership
  BY DEF TeamsInv
<1> QED
  BY <1>1, TeamsInvariant, PTL

(* Every member of the parent team gets the same result from a split, and  *)
(* exactly the PEs asked for hold the new team when it is 0, nobody when   *)
(* it is not: the last reduction of split_strided is of the failures of    *)
(* the members, and all or none of them found an index.                    *)
THEOREM SplitsAreAllOrNothing == Spec => []SplitAllOrNothing
<1>1. TeamsInv => SplitAllOrNothing
  <2> SUFFICES ASSUME TeamsInv, NEW n \in DOMAIN log, log[n].op = "split"
               PROVE  /\ \A p, q \in {r \in PE : ret[r][n] # None} : ret[p][n] = ret[q][n]
                      /\ \A p \in {r \in PE : ret[r][n] # None} \ {r \in PE : at[r] > n} :
                            (psync_idx[p][n + 1] # None) <=>
                              (ret[p][n] = 0 /\ p \in log[n].child)
    BY DEF SplitAllOrNothing
  <2>1. n \in 1 .. Len(log) /\ n \in Nat /\ n \in 1 .. MaxCalls
    BY LogCall, TeamsAssumption DEF TeamsInv, LogInv
  <2>2. ASSUME NEW p \in PE, ret[p][n] # None
        PROVE  ret[p][n] = Failure(n) /\ AllIn(n, "op") /\ at[p] \in Nat /\ at[p] >= n
               /\ (at[p] = n => pc[p] = "idle")
    <3>1. /\ ret[p][n] = Failure(n) /\ AllIn(n, "max") /\ at[p] >= n
          /\ (at[p] = n => pc[p] = "idle")
      BY <2>1, <2>2 DEF TeamsInv, ResultInv
    <3> QED
      BY <3>1, <2>1, AllInMax DEF TeamsInv, PlaceInv, LogInv
  <2>3. ASSUME NEW p \in PE, ret[p][n] # None, ~ (at[p] > n)
        PROVE  (psync_idx[p][n + 1] # None) <=> (ret[p][n] = 0 /\ p \in log[n].child)
    <3>1. Past(p, n) /\ at[p] = n
      BY <2>1, <2>2, <2>3 DEF Past
    <3>2. n + 1 \in TeamIds \ Default /\ (n + 1) - 1 = n
      BY <2>1, TeamsAssumption DEF TeamIds, Default, SHMEM_TEAM_WORLD, SHMEM_TEAM_SHARED
    <3>3. ASSUME psync_idx[p][n + 1] # None
          PROVE  ret[p][n] = 0 /\ p \in log[n].child
      <4>1. Held(p, n + 1)
        BY <3>2, <3>3 DEF TeamsInv, HeldInv
      <4> QED
        BY <4>1, <3>2, <2>2, <2>3 DEF Held, Reserves, Failure
    <3>4. ASSUME ret[p][n] = 0, p \in log[n].child, psync_idx[p][n + 1] = None PROVE FALSE
      <4>1. psync_pool_avail_reduced(n) # {}
        BY <3>4, <2>2, <2>3 DEF Failure
      <4>2. PICK m \in 1 .. Len(log) : /\ m <= at[p] /\ log[m].op = "destroy"
                                       /\ log[m].team.id = n + 1
        BY <4>1, <3>1, <3>4, <2>1 DEF TeamsInv, TakenInv
      <4>3. SoundCall(m) /\ m \in Nat
        BY LogCall DEF TeamsInv
      <4>4. PICK k \in 1 .. m - 1 : log[m].team.id = k + 1
        BY <4>2, <4>3 DEF SoundCall
      <4> QED
        BY <4>2, <4>3, <4>4, <3>1, <2>1
    <3> QED
      BY <3>3, <3>4
  <2> QED
    BY <2>2, <2>3
<1> QED
  BY <1>1, TeamsInvariant, PTL

-----------------------------------------------------------------------------
(***************************************************************************)
(* Proof that every collective on a team has its pSync block to itself     *)
(* (OwnPsyncSafe), for any number of PEs, calls and blocks.                *)
(*                                                                         *)
(* The members of a team never tell each other which block they use: each  *)
(* works it out from its own psync_avail.  Pre defines that set from the   *)
(* log alone: the last call on the team decides (a sync frees both blocks, *)
(* a split leaves the second, a broadcast or reduction takes one), so all  *)
(* members compute the same.  PsyncInv says that a PE's place in the log   *)
(* determines what it has entered and left (InsideInv, LeftInv), with      *)
(* which block (BlockInv) and what is available to it between calls        *)
(* (AvailInv); that an available block is one all members are through with *)
(* (FreeInv), hence that a block comes back only then (ClearInv), because  *)
(* nobody leaves a sync before all have entered it (PassedInv); and that   *)
(* what a PE offers a new team is no index of a team it still has (ValInv).*)
(*                                                                         *)
(* A step of a PE in a call, whichever it is, goes from one collective of  *)
(* the call to the next one there is for that PE (Walk).  The proof shows  *)
(* that each of the eight actions is such a step and then treats Walk.     *)
(***************************************************************************)

(* The collectives a PE goes through in call n, in their order.            *)

Rank(c) == IF c = "quiesce" THEN 1 ELSE IF c = "op" THEN 2 ELSE IF c = "barrier" THEN 3
           ELSE IF c = "max" THEN 4 ELSE 5

(* p has come to collective ph of call n; p is through with it. *)
Reached(p, n, ph) == at[p] > n \/ (at[p] = n /\ Rank(pc[p]) >= Rank(ph))
Done(p, n, ph)    == at[p] > n \/ (at[p] = n /\ Rank(pc[p]) > Rank(ph))

(* The pSync index of a team: the least of the reduced mask. *)
Idx(t) == IF t \in Default THEN t ELSE Min(psync_pool_avail_reduced(t - 1))

(* The calls on team t that p makes, but for the last, destroy. *)
On(p, t, m) == log[m].team.id = t /\ p \in log[m].team.mem /\ log[m].op # "destroy"

(* The blocks of its team a call leaves available: a sync both, a split,   *)
(* which ends with a reduction on the first, the second, and another one   *)
(* the second unless it has used that.                                     *)
Fin(m) ==
  CASE log[m].op = "sync" -> {0, 1}
    [] log[m].op = "split" -> {1}
    [] OTHER -> {i \in {1} : \A e \in Entries(m, "op") :
                               e.block # chosen_block(Idx(log[m].team.id), 1)}

(* The blocks of team t that are available at p after the calls up to k. *)
Pre(p, t, k) ==
  {i \in {0, 1} : \A m \in 1 .. Len(log) :
     /\ On(p, t, m) /\ m <= k
     /\ \A j \in 1 .. Len(log) : On(p, t, j) /\ j <= k => j <= m
     => i \in Fin(m)}

(* Which collectives there are in call n for p. *)
Occurs(p, n, ph) ==
  /\ p \in log[n].team.mem
  /\ ph = "quiesce" => /\ log[n].op \in {"bcast", "reduce", "split"}
                       /\ Pre(p, log[n].team.id, n - 1) = {}
  /\ ph = "op" => log[n].op \in {"bcast", "reduce", "split"} /\ p \in Members(n, "op")
  /\ ph = "barrier" => log[n].op \in {"sync", "split"}
  /\ ph = "max" => log[n].op = "split"

(* The block of collective ph of call n. *)
OpBlock(p, n) ==
  LET x == Idx(log[n].team.id)
      pre == Pre(p, log[n].team.id, n - 1)
  IN  IF 0 \in pre THEN chosen_block(x, 0)
      ELSE IF 1 \in pre THEN chosen_block(x, 1) ELSE quiesced_block(x)
BlockOf(p, n, ph) ==
  IF ph \in {"quiesce", "barrier"} THEN barrier_block(Idx(log[n].team.id))
  ELSE IF ph = "op" THEN OpBlock(p, n)
  ELSE chosen_block(Idx(log[n].team.id), 0)

-----------------------------------------------------------------------------
(* The inductive invariant.                                                *)

(* The default teams have their members. *)
SharedInv ==
  \A n \in 1 .. Len(log) :
    /\ log[n].team.id = SHMEM_TEAM_WORLD => log[n].team.mem = PE
    /\ log[n].team.id = SHMEM_TEAM_SHARED => log[n].team.mem \in Nodes

(* Who has entered and who has left which collective. *)
InsideInv ==
  \A p \in PE, n \in 1 .. Len(log), ph \in Phases :
    p \in Inside(n, ph) <=> Occurs(p, n, ph) /\ Reached(p, n, ph)

LeftInv ==
  \A p \in PE, n \in 1 .. Len(log), ph \in Phases :
    p \in Left(n, ph) <=> Occurs(p, n, ph) /\ Done(p, n, ph)

(* Nobody leaves a sync or barrier before all are inside. *)
PassedInv ==
  /\ \A x \in left : x.n \in 1 .. Len(log)
  /\ \A p \in PE, n \in 1 .. Len(log), c \in {"quiesce", "barrier"} :
       p \in Left(n, c) => AllIn(n, c)

(* With which block. *)
BlockInv == \A e \in entered : e.block = BlockOf(e.pe, e.n, e.ph)

(* What is available at a PE that has no block of team t to take or free   *)
(* before its next call on it.                                             *)
Settled(p, t) ==
  \/ pc[p] = "idle" \/ log[at[p]].team.id # t
  \/ pc[p] = "max" \/ (pc[p] = "op" /\ log[at[p]].op # "split")

AvailInv ==
  \A p \in PE, t \in TeamIds :
    Settled(p, t) => psync_avail[p][t] = Pre(p, t, at[p])

(* All members have left a collective on a block that is available. *)
AllLeft(n, ph) == Members(n, ph) \subseteq Left(n, ph)
Pool == {"op", "max"}

FreeInv ==
  \A p \in PE, t \in TeamIds, e \in entered, i \in {0, 1} :
    /\ Settled(p, t) /\ i \in psync_avail[p][t]
    /\ e.ph \in Pool /\ On(p, t, e.n) /\ e.n <= at[p]
    /\ e.block = chosen_block(Idx(t), i)
    => AllLeft(e.n, e.ph)

(* They have left the earlier of two collectives on the same block. *)
Before(e, f) == e.n < f.n \/ (e.n = f.n /\ e.ph = "op" /\ f.ph = "max")
ClearInv ==
  \A e, f \in entered :
    /\ e.ph \in Pool /\ f.ph \in Pool /\ log[e.n].team = log[f.n].team
    /\ Before(e, f) /\ e.block = f.block
    => AllLeft(e.n, e.ph)

(* What a PE contributes to the reduction of a split is the index of no    *)
(* team of its that it has not destroyed.                                  *)
ValInv ==
  \A e \in entered : e.ph = "op" /\ log[e.n].op = "split" =>
    /\ e.val \cap Default = {}
    /\ \A m \in 1 .. e.n - 1 :
         log[m].op = "split" /\ e.pe \in log[m].child /\ Reserves(m) /\ Idx(m + 1) \in e.val
           => \E d \in 1 .. Len(log) : d <= at[e.pe] /\ log[d].op = "destroy"
                                       /\ log[d].team.id = m + 1

PsyncInv ==
  /\ SharedInv /\ InsideInv /\ LeftInv /\ PassedInv /\ BlockInv /\ AvailInv /\ FreeInv
  /\ ClearInv /\ ValInv

-----------------------------------------------------------------------------
(* Lemmas on these definitions.                                            *)

(* Numbers are numbers. *)
LEMMA Numbers ==
  ASSUME TeamsInv
  PROVE  /\ Len(log) \in Nat /\ MaxCalls \in Nat /\ TEAMS_MAX \in Nat /\ TEAMS_MAX >= 2
         /\ \A q \in PE : at[q] \in Nat /\ at[q] <= Len(log)
         /\ \A q \in PE : pc[q] \in Phases \cup {"idle"}
         /\ at \in [PE -> 0 .. MaxCalls]
         /\ psync_avail \in [PE -> [TeamIds -> SUBSET {0, 1}]]
<1>1. Len(log) \in Nat /\ at \in [PE -> 0 .. MaxCalls] /\ pc \in [PE -> Phases \cup {"idle"}]
  BY DEF TeamsInv, LogInv, TypeOK
<1>2. \A q \in PE : at[q] \in Nat /\ at[q] <= Len(log)
  BY <1>1 DEF TeamsInv, PlaceInv
<1> QED
  BY <1>1, <1>2, TeamsAssumption DEF TeamsInv, TypeOK

(* Two calls on teams of the same id that share a member are on one team. *)
LEMMA SameTeam ==
  ASSUME TeamsInv, SharedInv, NEW m \in 1 .. Len(log), NEW n \in 1 .. Len(log),
         log[m].team.id = log[n].team.id, NEW p, p \in log[m].team.mem, p \in log[n].team.mem
  PROVE  log[m].team = log[n].team
<1>1. /\ log[m].team \in AnyTeam /\ log[n].team \in AnyTeam /\ SoundCall(m) /\ SoundCall(n)
      /\ m \in Nat /\ n \in Nat
  BY LogCall DEF TeamsInv
<1>2. log[m].team.mem = log[n].team.mem
  <2>1. CASE log[n].team.id = SHMEM_TEAM_WORLD
    BY <2>1 DEF SharedInv
  <2>2. CASE log[n].team.id = SHMEM_TEAM_SHARED
    BY <2>2, TeamsAssumption DEF SharedInv
  <2>3. CASE log[n].team.id \notin Default
    <3>1. PICK j \in 1 .. m - 1 : log[m].team.id = j + 1 /\ log[m].team.mem = log[j].child
      BY <1>1, <2>3 DEF SoundCall
    <3>2. PICK k \in 1 .. n - 1 : log[n].team.id = k + 1 /\ log[n].team.mem = log[k].child
      BY <1>1, <2>3 DEF SoundCall
    <3>3. j + 1 = k + 1
      BY <3>1, <3>2, Zenon
    <3>4. j = k
      BY <1>1, <3>3
    <3> QED
      BY <3>1, <3>2, <3>4
  <2> QED
    BY <2>1, <2>2, <2>3 DEF Default
<1> QED
  BY <1>1, <1>2 DEF AnyTeam

(* The members of a team make the same calls on it, *)
LEMMA OnSame ==
  ASSUME TeamsInv, SharedInv, NEW n \in 1 .. Len(log), NEW p \in log[n].team.mem,
         NEW q \in log[n].team.mem, NEW m \in 1 .. Len(log)
  PROVE  On(p, log[n].team.id, m) <=> On(q, log[n].team.id, m)
<1>1. ASSUME On(p, log[n].team.id, m) PROVE On(q, log[n].team.id, m)
  BY <1>1, SameTeam DEF On
<1>2. ASSUME On(q, log[n].team.id, m) PROVE On(p, log[n].team.id, m)
  BY <1>2, SameTeam DEF On
<1> QED
  BY <1>1, <1>2

(* and so find the same blocks. *)
LEMMA PreSame ==
  ASSUME TeamsInv, SharedInv, NEW n \in 1 .. Len(log), NEW p \in log[n].team.mem,
         NEW q \in log[n].team.mem
  PROVE  /\ \A k : Pre(p, log[n].team.id, k) = Pre(q, log[n].team.id, k)
         /\ OpBlock(p, n) = OpBlock(q, n)
         /\ \A ph : BlockOf(p, n, ph) = BlockOf(q, n, ph)
<1>1. ASSUME NEW k PROVE Pre(p, log[n].team.id, k) = Pre(q, log[n].team.id, k)
  <2>1. \A m \in 1 .. Len(log) : On(p, log[n].team.id, m) <=> On(q, log[n].team.id, m)
    BY OnSame
  <2> QED
    BY <2>1, Zenon DEF Pre
<1>2. OpBlock(p, n) = OpBlock(q, n)
  BY <1>1 DEF OpBlock
<1> QED
  BY <1>1, <1>2 DEF BlockOf

(* The blocks a call leaves are of the two of its team, and the first only *)
(* together with the second.                                               *)
LEMMA FinShape == \A m : Fin(m) \in {{0, 1}, {1}, {}}
<1> TAKE m
<1>1. CASE log[m].op = "sync"
  BY <1>1 DEF Fin
<1>2. CASE log[m].op = "split"
  BY <1>2 DEF Fin
<1>3. CASE log[m].op # "sync" /\ log[m].op # "split"
  <2>1. Fin(m) = {i \in {1} : \A e \in Entries(m, "op") :
                                e.block # chosen_block(Idx(log[m].team.id), 1)}
    BY <1>3 DEF Fin
  <2> QED
    BY <2>1
<1> QED
  BY <1>1, <1>2, <1>3

(* The last call on a team decides. *)
LEMMA PreIsLast ==
  ASSUME NEW p, NEW t, NEW k, NEW m \in 1 .. Len(log), On(p, t, m), m <= k,
         \A j \in 1 .. Len(log) : On(p, t, j) /\ j <= k => j <= m
  PROVE  Pre(p, t, k) = Fin(m)
<1>1. ASSUME NEW i \in 1 .. Len(log), On(p, t, i), i <= k,
             \A j \in 1 .. Len(log) : On(p, t, j) /\ j <= k => j <= i
      PROVE  i = m
  <2>1. i <= m /\ m <= i
    BY <1>1
  <2> QED
    BY <2>1
<1>2. Fin(m) \subseteq {0, 1}
  BY FinShape
<1>3. ASSUME NEW i \in {0, 1} PROVE i \in Pre(p, t, k) <=> i \in Fin(m)
  BY <1>1 DEF Pre
<1>4. Pre(p, t, k) \subseteq {0, 1}
  BY DEF Pre
<1> QED
  BY <1>2, <1>3, <1>4

(* Calls on other teams do not matter. *)
LEMMA PreSkips ==
  ASSUME NEW p, NEW t, NEW k, NEW j,
         \A m \in 1 .. Len(log) : On(p, t, m) => (m <= k <=> m <= j)
  PROVE  Pre(p, t, k) = Pre(p, t, j)
<1>1. ASSUME NEW m \in 1 .. Len(log)
      PROVE  (/\ On(p, t, m) /\ m <= k
              /\ \A i \in 1 .. Len(log) : On(p, t, i) /\ i <= k => i <= m)
             <=> (/\ On(p, t, m) /\ m <= j
                  /\ \A i \in 1 .. Len(log) : On(p, t, i) /\ i <= j => i <= m)
  OBVIOUS
<1> QED
  BY <1>1 DEF Pre

(* With the first block the second is available too. *)
LEMMA PreShape ==
  ASSUME NEW p, NEW t, NEW k
  PROVE  Pre(p, t, k) \in {{0, 1}, {1}, {}}
<1>1. ASSUME 0 \in Pre(p, t, k) PROVE 1 \in Pre(p, t, k)
  <2>1. ASSUME NEW m \in 1 .. Len(log), 0 \in Fin(m) PROVE 1 \in Fin(m)
    BY <2>1, FinShape
  <2> QED
    BY <1>1, <2>1 DEF Pre
<1>2. Pre(p, t, k) \subseteq {0, 1}
  BY DEF Pre
<1> QED
  BY <1>1, <1>2

(* The index of a team that is called on is one of the pool, and stays. *)
LEMMA IdxOfCall ==
  ASSUME TeamsInv, NEW n \in 1 .. Len(log)
  PROVE  /\ Idx(log[n].team.id) \in 0 .. TEAMS_MAX - 1
         /\ log[n].team.id \notin Default =>
              /\ log[n].team.id - 1 \in 1 .. n - 1 /\ Reserves(log[n].team.id - 1)
              /\ log[log[n].team.id - 1].op = "split"
              /\ log[n].team.mem = log[log[n].team.id - 1].child
<1>1. SoundCall(n) /\ log[n].team.id \in TeamIds /\ TEAMS_MAX \in Nat /\ TEAMS_MAX >= 2
  BY LogCall, Numbers DEF TeamsInv
<1>2. CASE log[n].team.id \in Default
  BY <1>1, <1>2 DEF Idx, Default, SHMEM_TEAM_WORLD, SHMEM_TEAM_SHARED
<1>3. CASE log[n].team.id \notin Default
  <2>1. PICK m \in 1 .. n - 1 : /\ log[n].team.id = m + 1
                                /\ log[m].op = "split" /\ log[n].team.mem = log[m].child
                                /\ Reserves(m)
    BY <1>1, <1>3 DEF SoundCall
  <2>2. (m + 1) - 1 = m
    BY <2>1
  <2>3. psync_pool_avail_reduced(m) \subseteq 0 .. TEAMS_MAX - 1
        /\ psync_pool_avail_reduced(m) # {}
    BY <2>1 DEF psync_pool_avail_reduced, Reserves
  <2>4. Min(psync_pool_avail_reduced(m)) \in 0 .. TEAMS_MAX - 1
    <3>1. psync_pool_avail_reduced(m) \subseteq Nat
      BY <1>1, <2>3
    <3> QED
      BY <2>3, <3>1, MinIsLeast
  <2> QED
    BY <1>3, <2>1, <2>2, <2>4 DEF Idx
<1> QED
  BY <1>2, <1>3

(* No step changes it. *)
LEMMA IdxKept ==
  ASSUME TeamsInv, NEW p \in PE, Moves(p), NEW n \in 1 .. Len(log)
  PROVE  Idx(log[n].team.id)' = Idx(log[n].team.id)
<1>1. log' = log
  BY DEF Moves
<1>2. CASE log[n].team.id \in Default
  BY <1>1, <1>2 DEF Idx
<1>3. CASE log[n].team.id \notin Default
  <2>1. PICK m \in 1 .. Len(log) : m = log[n].team.id - 1 /\ AllIn(m, "op")
    BY <1>3, IdxOfCall, Numbers DEF Reserves
  <2>2. psync_pool_avail_reduced(m)' = psync_pool_avail_reduced(m)
    BY <2>1, MovesReserves
  <2> QED
    BY <1>1, <1>3, <2>1, <2>2 DEF Idx
<1> QED
  BY <1>2, <1>3

(* A PE in a call on a team, or about to make it, holds the team's index. *)
LEMMA HoldsIdx ==
  ASSUME TeamsInv, NEW p \in PE, NEW n \in 1 .. Len(log), p \in log[n].team.mem,
         \/ pc[p] = "idle" /\ IsNext(p, n)
         \/ pc[p] # "idle" /\ at[p] = n /\ log[n].op # "destroy"
  PROVE  psync_idx[p][log[n].team.id] = Idx(log[n].team.id)
<1>1. n \in Nat /\ log[n].team.id \in TeamIds /\ SoundCall(n) /\ at[p] \in Nat /\ at[p] <= n
  BY LogCall, Numbers DEF TeamsInv, IsNext
<1>2. CASE log[n].team.id \in Default
  BY <1>2 DEF TeamsInv, HeldInv, Idx
<1>3. CASE log[n].team.id \notin Default
  <2>1. PICK m \in 1 .. n - 1 : m = log[n].team.id - 1
    BY <1>3, IdxOfCall
  <2>2. /\ m \in 1 .. Len(log) /\ Reserves(m) /\ log[m].op = "split" /\ m < n /\ m \in Nat
        /\ p \in log[m].child /\ log[n].team.id = m + 1
    <3>1. Reserves(m) /\ log[m].op = "split" /\ p \in log[m].child
      BY <1>3, <2>1, IdxOfCall
    <3>2. PICK u \in Nat : u = log[n].team.id
      BY <1>1 DEF TeamIds
    <3>3. u = m + 1 /\ m \in Nat /\ m < n
      BY <1>1, <2>1, <3>2
    <3>4. m \in 1 .. Len(log)
      BY <1>1, <2>1, Numbers
    <3> QED
      BY <3>1, <3>2, <3>3, <3>4
  <2>3. p \in log[m].team.mem
    BY <2>2, LogCall DEF TeamsInv, SoundCall
  <2>4. Past(p, m)
    <3>1. CASE at[p] = n
      BY <3>1, <2>2 DEF Past
    <3>2. CASE pc[p] = "idle" /\ IsNext(p, n)
      <4>1. ~ (at[p] < m)
        BY <3>2, <2>2, <2>3 DEF IsNext
      <4> QED
        BY <4>1, <3>2, <2>2, <1>1 DEF Past
    <3> QED
      BY <3>1, <3>2
  <2>5. psync_idx[p][m + 1] # None
    <3> SUFFICES ASSUME psync_idx[p][m + 1] = None PROVE FALSE
      OBVIOUS
    <3>1. PICK d \in 1 .. Len(log) : d <= at[p] /\ log[d].op = "destroy" /\ log[d].team.id = m + 1
      BY <2>2, <2>4 DEF TeamsInv, TakenInv, Reserves
    <3>2. d \in 1 .. n - 1
      <4>1. d # n
        BY <3>1, <1>1 DEF IsNext
      <4> QED
        BY <4>1, <3>1, <1>1, Numbers
    <3> QED
      BY <3>1, <3>2, <1>1, <2>2 DEF SoundCall
  <2>6. Held(p, m + 1)
    BY <1>1, <1>3, <2>2, <2>5 DEF TeamsInv, HeldInv
  <2> QED
    BY <1>3, <2>2, <2>6 DEF Held, Idx
<1> QED
  BY <1>2, <1>3

-----------------------------------------------------------------------------
(* What a step of p through the collectives of a call does.                *)

Entry(p, v) ==
  [n |-> at'[p], ph |-> pc'[p], pe |-> p, block |-> BlockOf(p, at'[p], pc'[p]), val |-> v]

(* From where it is, p goes to the next collective there is for it. *)
Route(p) ==
  /\ pc[p] # "idle" => Occurs(p, at'[p], pc[p])
  /\ pc'[p] # "idle" => Occurs(p, at'[p], pc'[p])
  /\ \A ph \in Phases :
       (pc[p] = "idle" \/ Rank(pc[p]) < Rank(ph)) /\ Rank(ph) < Rank(pc'[p])
         => ~ Occurs(p, at'[p], ph)

Records(p) ==
  /\ left' = IF pc[p] = "idle" THEN left
             ELSE left \cup {[n |-> at'[p], ph |-> pc[p], pe |-> p]}
  /\ pc'[p] = "idle" => entered' = entered
  /\ pc'[p] # "idle" =>
       \E v : /\ entered' = entered \cup {Entry(p, v)}
              /\ pc'[p] = "op" /\ log[at'[p]].op = "split" => v = avail[p]

(* The pSyncs it takes and releases. *)
Takes(p) ==
  LET t == log[at'[p]].team.id IN
  /\ \A q \in PE, u \in TeamIds : q # p \/ u # t => psync_avail'[q][u] = psync_avail[q][u]
  /\ pc[p] = "idle" /\ pc'[p] = "op" =>
       /\ psync_avail[p][t] # {}
       /\ psync_avail'[p][t] = psync_avail[p][t] \ {IF 0 \in psync_avail[p][t] THEN 0 ELSE 1}
  /\ pc[p] = "quiesce" \/ pc'[p] = "max" => psync_avail'[p][t] = {1}
  /\ pc[p] = "barrier" /\ pc'[p] = "idle" => psync_avail'[p][t] = {0, 1}
  /\ pc[p] \in {"op", "max"} \/ (pc[p] = "idle" /\ pc'[p] = "idle") =>
       psync_avail'[p][t] = psync_avail[p][t]

Walk(p) ==
  /\ Moves(p) /\ at'[p] \in 1 .. Len(log) /\ p \in log[at'[p]].team.mem
  /\ at[p] <= at'[p]
  /\ pc[p] = "idle" => IsNext(p, at'[p])
  /\ pc[p] # "idle" => at'[p] = at[p] /\ Rank(pc[p]) < Rank(pc'[p])
  /\ pc[p] = "idle" /\ pc'[p] = "idle" => log[at'[p]].op = "destroy"
  /\ pc[p] = "barrier" /\ pc'[p] = "idle" => log[at'[p]].op = "sync"
  /\ pc[p] \in {"quiesce", "barrier"} => AllIn(at'[p], pc[p])
  /\ Route(p) /\ Records(p) /\ Takes(p)

(* What p finds available when it makes its next call on a team. *)
LEMMA NextPre ==
  ASSUME TeamsInv, AvailInv, NEW p \in PE, NEW n \in 1 .. Len(log), pc[p] = "idle", IsNext(p, n)
  PROVE  psync_avail[p][log[n].team.id] = Pre(p, log[n].team.id, n - 1)
<1>1. log[n].team.id \in TeamIds /\ n \in Nat /\ at[p] \in Nat /\ at[p] < n
  BY LogCall, Numbers DEF TeamsInv, IsNext
<1>2. psync_avail[p][log[n].team.id] = Pre(p, log[n].team.id, at[p])
  BY <1>1 DEF AvailInv, Settled
<1>3. \A m \in 1 .. Len(log) : On(p, log[n].team.id, m) => (m <= n - 1 <=> m <= at[p])
  <2> SUFFICES ASSUME NEW m \in 1 .. Len(log), p \in log[m].team.mem
               PROVE  m <= n - 1 <=> m <= at[p]
    BY DEF On
  <2>1. m \in Nat /\ ~ (at[p] < m /\ m < n)
    BY Numbers DEF IsNext
  <2> QED
    BY <1>1, <2>1
<1> QED
  BY <1>2, <1>3, PreSkips

(* The least of the two. *)
LEMMA MinOfTwo ==
  ASSUME NEW S \in SUBSET {0, 1}, S # {}
  PROVE  Min(S) = IF 0 \in S THEN 0 ELSE 1
<1>1. Min(S) \in S /\ \A y \in S : Min(S) <= y
  <2>1. S \subseteq Nat
    OBVIOUS
  <2> QED
    BY <2>1, MinIsLeast
<1>2. Min(S) = 0 \/ Min(S) = 1
  BY <1>1
<1>3. ASSUME Min(S) = 1 PROVE 0 \notin S
  BY <1>1, <1>3
<1> QED
  BY <1>1, <1>2, <1>3

(* A call that runs a collective at once, or after a sync. *)
LEMMA RunChosen ==
  ASSUME TeamsInv, NEW p \in PE, NEW n \in 1 .. Len(log), NEW b, run_chosen(p, n, b), at'[p] = n,
         p \in log[n].team.mem, log[n].op \in {"bcast", "reduce", "split"},
         psync_idx[p][log[n].team.id] = Idx(log[n].team.id), b = OpBlock(p, n)
  PROVE  /\ pc'[p] \in {"op", "barrier"} /\ Occurs(p, n, pc'[p])
         /\ pc'[p] = "barrier" => ~ Occurs(p, n, "op")
         /\ \E v : /\ entered' = entered \cup {Entry(p, v)}
                   /\ pc'[p] = "op" /\ log[n].op = "split" => v = avail[p]
<1>1. pc \in [PE -> Phases \cup {"idle"}]
  BY DEF TeamsInv, TypeOK
<1>2. CASE p \in Members(n, "op")
  <2>1. PICK v : /\ enter(p, n, "op", b, v) /\ (log[n].op = "split" => v = avail[p])
    BY <1>2 DEF run_chosen
  <2>2. pc'[p] = "op"
    BY <1>1, <2>1 DEF enter
  <2>3. BlockOf(p, n, "op") = b
    BY DEF BlockOf
  <2>4. entered' = entered \cup {Entry(p, v)}
    BY <2>1, <2>2, <2>3 DEF enter, Entry
  <2> QED
    BY <1>2, <2>1, <2>2, <2>4 DEF Occurs
<1>3. CASE p \notin Members(n, "op")
  <2>1. enter(p, n, "barrier", barrier_block(Idx(log[n].team.id)), {})
    BY <1>3 DEF run_chosen
  <2>2. pc'[p] = "barrier"
    BY <1>1, <2>1 DEF enter
  <2>3. BlockOf(p, n, "barrier") = barrier_block(Idx(log[n].team.id))
    BY DEF BlockOf
  <2>4. entered' = entered \cup {Entry(p, {})}
    BY <2>1, <2>2, <2>3 DEF enter, Entry
  <2>5. log[n].op = "split"
    BY <1>3 DEF Members
  <2> QED
    BY <1>3, <2>2, <2>4, <2>5 DEF Occurs
<1> QED
  BY <1>2, <1>3

(* A collective call: choose_psync finds a free pSync, or quiesces. *)
LEMMA TeamCallWalks ==
  ASSUME TeamsInv, PsyncInv, NEW p \in PE, team_call(p)
  PROVE  Walk(p)
<1>1. PICK n \in 1 .. MaxCalls :
         /\ next_call(p, n)
         /\ log[n].op \in {"bcast", "reduce", "split"}
         /\ at' = [at EXCEPT ![p] = n]
         /\ choose_psync(p, n) \/ choose_psync_quiesce(p, n)
         /\ UNCHANGED << log, avail, psync_idx, left, ret >>
  BY DEF team_call
<1>2. /\ Moves(p) /\ pc[p] = "idle" /\ IsNext(p, n) /\ n \in 1 .. Len(log)
      /\ p \in log[n].team.mem /\ at[p] < n /\ at[p] \in Nat /\ n \in Nat
  BY <1>1, TeamCallMoves, NextCall, Numbers DEF IsNext
<1>3. at'[p] = n /\ left' = left
  BY <1>1, Numbers
<1> DEFINE t == log[n].team.id
<1>4. /\ t \in TeamIds /\ psync_avail \in [PE -> [TeamIds -> SUBSET {0, 1}]]
      /\ psync_avail[p][t] \in SUBSET {0, 1} /\ pc \in [PE -> Phases \cup {"idle"}]
  BY <1>2, LogCall, Numbers DEF TeamsInv, TypeOK
<1>5. psync_avail[p][t] = Pre(p, t, n - 1)
  BY <1>2, NextPre DEF PsyncInv
<1>6. psync_idx[p][t] = Idx(t)
  BY <1>2, HoldsIdx
<1>7. CASE choose_psync_quiesce(p, n)
  <2>1. /\ psync_avail[p][t] = {} /\ psync_avail' = psync_avail
        /\ enter(p, n, "quiesce", barrier_block(Idx(t)), {})
    BY <1>6, <1>7 DEF choose_psync_quiesce
  <2>2. pc'[p] = "quiesce"
    BY <1>4, <2>1 DEF enter
  <2>3. entered' = entered \cup {Entry(p, {})}
    <3>1. BlockOf(p, n, "quiesce") = barrier_block(Idx(t))
      BY DEF BlockOf
    <3> QED
      BY <1>3, <2>1, <2>2, <3>1 DEF enter, Entry
  <2>4. Records(p)
    BY <1>2, <1>3, <2>2, <2>3 DEF Records
  <2>5. Takes(p)
    BY <1>2, <1>3, <2>1, <2>2 DEF Takes
  <2>6. Route(p)
    BY <1>1, <1>2, <1>3, <1>5, <2>1, <2>2 DEF Route, Occurs, Rank
  <2> QED
    BY <1>2, <1>3, <2>2, <2>4, <2>5, <2>6 DEF Walk
<1>8. CASE choose_psync(p, n)
  <2>1. PICK i : i = IF 0 \in psync_avail[p][t] THEN 0 ELSE 1
    OBVIOUS
  <2>2. i = Min(psync_avail[p][t]) /\ psync_avail[p][t] # {}
    BY <1>4, <1>8, <2>1, MinOfTwo DEF choose_psync
  <2>3. /\ psync_avail' = [psync_avail EXCEPT ![p][t] = @ \ {i}]
        /\ run_chosen(p, n, chosen_block(Idx(t), i))
    BY <1>6, <1>8, <2>2 DEF choose_psync
  <2>4. chosen_block(Idx(t), i) = OpBlock(p, n)
    <3>1. 0 \notin psync_avail[p][t] => 1 \in psync_avail[p][t]
      BY <1>4, <2>2
    <3> QED
      BY <1>5, <2>1, <3>1 DEF OpBlock
  <2>5. /\ pc'[p] \in {"op", "barrier"} /\ Occurs(p, n, pc'[p])
        /\ pc'[p] = "barrier" => ~ Occurs(p, n, "op")
        /\ \E v : /\ entered' = entered \cup {Entry(p, v)}
                  /\ pc'[p] = "op" /\ log[n].op = "split" => v = avail[p]
    BY <1>1, <1>2, <1>3, <1>6, <2>3, <2>4, RunChosen
  <2>6. ~ Occurs(p, n, "quiesce")
    BY <1>5, <2>2 DEF Occurs
  <2>7. Records(p)
    BY <1>2, <1>3, <2>5 DEF Records
  <2>8. Takes(p)
    <3>1. psync_avail'[p][t] = psync_avail[p][t] \ {i}
      BY <1>4, <2>3
    <3>2. \A q \in PE, u \in TeamIds : q # p \/ u # t => psync_avail'[q][u] = psync_avail[q][u]
      BY <1>4, <2>3
    <3> QED
      BY <1>2, <1>3, <2>1, <2>2, <2>5, <3>1, <3>2 DEF Takes
  <2>9. Route(p)
    BY <1>2, <1>3, <2>5, <2>6 DEF Route, Rank, Phases
  <2> QED
    BY <1>2, <1>3, <2>5, <2>7, <2>8, <2>9 DEF Walk
<1> QED
  BY <1>1, <1>7, <1>8

(* The place of a PE in a call. *)
LEMMA InCall ==
  ASSUME TeamsInv, NEW p \in PE, pc[p] # "idle"
  PROVE  /\ at[p] \in 1 .. Len(log) /\ at[p] \in Nat /\ p \in log[at[p]].team.mem
         /\ log[at[p]].op # "destroy" /\ log[at[p]].team.id \in TeamIds
         /\ psync_idx[p][log[at[p]].team.id] = Idx(log[at[p]].team.id)
         /\ psync_avail \in [PE -> [TeamIds -> SUBSET {0, 1}]]
         /\ pc \in [PE -> Phases \cup {"idle"}]
<1>1. at[p] \in 1 .. Len(log) /\ at[p] \in Nat /\ p \in log[at[p]].team.mem
  BY Numbers DEF TeamsInv, PlaceInv
<1>2. pc[p] \in {"quiesce", "op", "barrier", "max"}
  BY Numbers DEF Phases
<1>3. log[at[p]].op # "destroy"
  BY <1>2 DEF TeamsInv, PlaceInv
<1>4. psync_idx[p][log[at[p]].team.id] = Idx(log[at[p]].team.id)
  BY <1>1, <1>3, HoldsIdx
<1> QED
  BY <1>1, <1>3, <1>4, LogCall DEF TeamsInv, TypeOK

(* shmem_team_sync begins. *)
LEMMA TeamSyncWalks ==
  ASSUME TeamsInv, PsyncInv, NEW p \in PE, team_sync(p)
  PROVE  Walk(p)
<1>1. PICK n \in 1 .. MaxCalls :
         /\ next_call(p, n) /\ log[n].op = "sync"
         /\ at' = [at EXCEPT ![p] = n]
         /\ enter(p, n, "barrier", barrier_block(psync_idx[p][log[n].team.id]), {})
         /\ UNCHANGED << log, avail, psync_idx, psync_avail, left, ret >>
  BY DEF team_sync
<1>2. /\ Moves(p) /\ pc[p] = "idle" /\ IsNext(p, n) /\ n \in 1 .. Len(log)
      /\ p \in log[n].team.mem /\ at[p] < n /\ at[p] \in Nat /\ n \in Nat
  BY <1>1, TeamSyncMoves, NextCall, Numbers DEF IsNext
<1>3. at'[p] = n /\ left' = left /\ pc'[p] = "barrier"
  BY <1>1, Numbers DEF TeamsInv, TypeOK, enter
<1>4. psync_idx[p][log[n].team.id] = Idx(log[n].team.id)
  BY <1>2, HoldsIdx
<1>5. entered' = entered \cup {Entry(p, {})}
  <2>1. BlockOf(p, n, "barrier") = barrier_block(Idx(log[n].team.id))
    BY DEF BlockOf
  <2> QED
    BY <1>1, <1>3, <1>4, <2>1 DEF enter, Entry
<1>6. Records(p)
  BY <1>2, <1>3, <1>5 DEF Records
<1>7. Takes(p)
  BY <1>1, <1>2, <1>3 DEF Takes
<1>8. Route(p)
  BY <1>1, <1>2, <1>3 DEF Route, Occurs, Rank, Phases
<1> QED
  BY <1>2, <1>3, <1>6, <1>7, <1>8 DEF Walk

(* A team is destroyed. *)
LEMMA TeamDestroyWalks ==
  ASSUME TeamsInv, PsyncInv, NEW p \in PE, team_destroy(p)
  PROVE  Walk(p)
<1>1. PICK n \in 1 .. MaxCalls :
         /\ next_call(p, n) /\ log[n].op = "destroy"
         /\ at' = [at EXCEPT ![p] = n]
         /\ UNCHANGED << log, pc, psync_avail, entered, left, ret >>
  BY DEF team_destroy
<1>2. /\ Moves(p) /\ pc[p] = "idle" /\ IsNext(p, n) /\ n \in 1 .. Len(log)
      /\ p \in log[n].team.mem /\ at[p] < n /\ at[p] \in Nat /\ n \in Nat
  BY <1>1, TeamDestroyMoves, NextCall, Numbers DEF IsNext
<1>3. at'[p] = n /\ left' = left /\ pc'[p] = "idle" /\ entered' = entered
  BY <1>1, <1>2, Numbers
<1>4. Records(p)
  BY <1>2, <1>3 DEF Records
<1>5. Takes(p)
  BY <1>1, <1>2, <1>3 DEF Takes
<1>6. Route(p)
  BY <1>1, <1>2, <1>3 DEF Route, Occurs, Rank, Phases
<1> QED
  BY <1>1, <1>2, <1>3, <1>4, <1>5, <1>6 DEF Walk

(* The sync before a collective ends. *)
LEMMA QuiescedWalks ==
  ASSUME TeamsInv, PsyncInv, NEW p \in PE, quiesced(p)
  PROVE  Walk(p)
<1> DEFINE n == at[p]
           t == log[n].team.id
<1>1. /\ pc[p] = "quiesce" /\ may_leave(p, n, "quiesce") /\ leave(p, n, "quiesce")
      /\ psync_avail' = [psync_avail EXCEPT ![p][t] = {0, 1} \ {0}]
      /\ run_chosen(p, n, quiesced_block(psync_idx[p][t]))
      /\ at' = at
  BY DEF quiesced
<1>2. /\ Moves(p) /\ n \in 1 .. Len(log) /\ n \in Nat /\ p \in log[n].team.mem
      /\ t \in TeamIds /\ psync_idx[p][t] = Idx(t)
      /\ psync_avail \in [PE -> [TeamIds -> SUBSET {0, 1}]]
  BY <1>1, QuiescedMoves, InCall
<1>3. log[n].op \in {"bcast", "reduce", "split"} /\ at'[p] = n
  BY <1>1 DEF TeamsInv, PlaceInv
<1>4. Occurs(p, n, "quiesce") /\ Pre(p, t, n - 1) = {}
  <2>1. \E e \in entered : e.n = n /\ e.ph = "quiesce" /\ e.pe = p
    BY <1>1, <1>2 DEF may_leave, AllIn, Inside, Entries, Members
  <2>2. p \in Inside(n, "quiesce")
    BY <2>1 DEF Inside, Entries
  <2>3. Occurs(p, n, "quiesce")
    BY <1>2, <2>2 DEF PsyncInv, InsideInv, Phases
  <2> QED
    BY <2>3 DEF Occurs
<1>5. quiesced_block(psync_idx[p][t]) = OpBlock(p, n)
  BY <1>2, <1>4 DEF OpBlock
<1>6. /\ pc'[p] \in {"op", "barrier"} /\ Occurs(p, n, pc'[p])
      /\ pc'[p] = "barrier" => ~ Occurs(p, n, "op")
      /\ \E v : /\ entered' = entered \cup {Entry(p, v)}
                /\ pc'[p] = "op" /\ log[n].op = "split" => v = avail[p]
  BY <1>1, <1>2, <1>3, <1>5, RunChosen
<1>7. Records(p)
  BY <1>1, <1>3, <1>6 DEF Records, leave
<1>8. Takes(p)
  <2> HIDE DEF t
  <2>1. psync_avail'[p][t] = {1}
    BY <1>1, <1>2
  <2>2. \A q \in PE, u \in TeamIds : q # p \/ u # t => psync_avail'[q][u] = psync_avail[q][u]
    BY <1>1, <1>2
  <2> QED
    BY <1>1, <1>3, <1>6, <2>1, <2>2 DEF Takes, t
<1>9. Route(p)
  BY <1>1, <1>3, <1>4, <1>6 DEF Route, Rank, Phases
<1>10. AllIn(n, "quiesce")
  BY <1>1 DEF may_leave
<1> QED
  BY <1>1, <1>2, <1>3, <1>6, <1>7, <1>8, <1>9, <1>10 DEF Walk, Rank

(* A broadcast or reduction returns. *)
LEMMA CollReturnWalks ==
  ASSUME TeamsInv, PsyncInv, NEW p \in PE, coll_return(p)
  PROVE  Walk(p)
<1> DEFINE n == at[p]
<1>1. /\ pc[p] = "op" /\ log[n].op # "split" /\ leave(p, n, "op")
      /\ pc' = [pc EXCEPT ![p] = "idle"] /\ at' = at /\ psync_avail' = psync_avail
      /\ entered' = entered
  BY DEF coll_return, release_psyncs
<1>2. /\ Moves(p) /\ n \in 1 .. Len(log) /\ n \in Nat /\ p \in log[n].team.mem
      /\ pc'[p] = "idle" /\ at'[p] = n
  BY <1>1, CollReturnMoves, InCall
<1>3. log[n].op \in {"bcast", "reduce"} /\ p \in Members(n, "op")
  BY <1>1 DEF TeamsInv, PlaceInv
<1>4. Records(p)
  BY <1>1, <1>2 DEF Records, leave
<1>5. Takes(p)
  BY <1>1, <1>2 DEF Takes
<1>6. Route(p)
  BY <1>1, <1>2, <1>3 DEF Route, Occurs, Rank, Phases
<1> QED
  BY <1>1, <1>2, <1>4, <1>5, <1>6 DEF Walk, Rank

(* A member of the new team goes on to the barrier of a split. *)
LEMMA SplitReducedWalks ==
  ASSUME TeamsInv, PsyncInv, NEW p \in PE, split_reduced(p)
  PROVE  Walk(p)
<1> DEFINE n == at[p]
           t == log[n].team.id
<1>1. /\ pc[p] = "op" /\ log[n].op = "split" /\ leave(p, n, "op")
      /\ enter(p, n, "barrier", barrier_block(psync_idx[p][t]), {})
      /\ at' = at /\ psync_avail' = psync_avail
  BY DEF split_reduced, release_psyncs
<1>2. /\ Moves(p) /\ n \in 1 .. Len(log) /\ n \in Nat /\ p \in log[n].team.mem
      /\ pc'[p] = "barrier" /\ at'[p] = n /\ psync_idx[p][t] = Idx(t)
  BY <1>1, SplitReducedMoves, InCall DEF enter
<1>3. p \in Members(n, "op")
  BY <1>1 DEF TeamsInv, PlaceInv
<1>4. entered' = entered \cup {Entry(p, {})}
  <2>1. BlockOf(p, n, "barrier") = barrier_block(Idx(t))
    BY DEF BlockOf
  <2> QED
    BY <1>1, <1>2, <2>1 DEF enter, Entry
<1>5. Records(p)
  BY <1>1, <1>2, <1>4 DEF Records, leave
<1>6. Takes(p)
  BY <1>1, <1>2 DEF Takes
<1>7. Route(p)
  BY <1>1, <1>2, <1>3 DEF Route, Occurs, Rank, Phases
<1> QED
  BY <1>1, <1>2, <1>5, <1>6, <1>7 DEF Walk, Rank

(* The barrier ends: shmem_team_sync returns, a split goes on. *)
LEMMA BarrierReturnWalks ==
  ASSUME TeamsInv, PsyncInv, NEW p \in PE, barrier_return(p)
  PROVE  Walk(p)
<1> DEFINE n == at[p]
           t == log[n].team.id
<1>1. /\ pc[p] = "barrier" /\ may_leave(p, n, "barrier") /\ leave(p, n, "barrier") /\ at' = at
      /\ \/ /\ log[n].op = "sync" /\ pc' = [pc EXCEPT ![p] = "idle"]
            /\ psync_avail' = [psync_avail EXCEPT ![p][t] = {0, 1}]
            /\ entered' = entered
         \/ /\ log[n].op # "sync"
            /\ psync_avail' = [psync_avail EXCEPT ![p][t] = {0, 1} \ {0}]
            /\ \E v : enter(p, n, "max", chosen_block(psync_idx[p][t], 0), v)
  BY DEF barrier_return
<1>2. /\ Moves(p) /\ n \in 1 .. Len(log) /\ n \in Nat /\ p \in log[n].team.mem
      /\ at'[p] = n /\ psync_idx[p][t] = Idx(t) /\ t \in TeamIds
      /\ psync_avail \in [PE -> [TeamIds -> SUBSET {0, 1}]]
      /\ pc \in [PE -> Phases \cup {"idle"}]
  BY <1>1, BarrierReturnMoves, InCall
<1>3. log[n].op \in {"sync", "split"} /\ AllIn(n, "barrier")
  BY <1>1 DEF TeamsInv, PlaceInv, may_leave
<1>4. \A q \in PE, u \in TeamIds : q # p \/ u # t => psync_avail'[q][u] = psync_avail[q][u]
  <2> HIDE DEF t
  <2> QED
    BY <1>1, <1>2
<1>5. CASE log[n].op = "sync"
  <2>1. pc'[p] = "idle" /\ entered' = entered
    BY <1>1, <1>2, <1>5
  <2>2. psync_avail'[p][t] = {0, 1}
    <3> HIDE DEF t
    <3> QED
      BY <1>1, <1>2, <1>5
  <2>3. Records(p)
    BY <1>1, <1>2, <2>1 DEF Records, leave
  <2>4. Takes(p)
    BY <1>1, <1>2, <1>4, <2>1, <2>2 DEF Takes
  <2>5. Route(p)
    BY <1>1, <1>2, <1>5, <2>1 DEF Route, Occurs, Rank, Phases
  <2> QED
    BY <1>1, <1>2, <1>3, <1>5, <2>1, <2>3, <2>4, <2>5 DEF Walk, Rank
<1>6. CASE log[n].op = "split"
  <2>1. PICK v : enter(p, n, "max", chosen_block(Idx(t), 0), v)
    BY <1>1, <1>2, <1>6
  <2>2. pc'[p] = "max"
    BY <1>2, <2>1 DEF enter
  <2>3. psync_avail'[p][t] = {1}
    <3> HIDE DEF t
    <3> QED
      BY <1>1, <1>2, <1>6
  <2>4. entered' = entered \cup {Entry(p, v)}
    <3>1. BlockOf(p, n, "max") = chosen_block(Idx(t), 0)
      BY DEF BlockOf
    <3> QED
      BY <1>2, <2>1, <2>2, <3>1 DEF enter, Entry
  <2>5. Records(p)
    BY <1>1, <1>2, <2>2, <2>4 DEF Records, leave
  <2>6. Takes(p)
    BY <1>1, <1>2, <1>4, <2>2, <2>3 DEF Takes
  <2>7. Route(p)
    BY <1>1, <1>2, <1>6, <2>2 DEF Route, Occurs, Rank, Phases
  <2> QED
    BY <1>1, <1>2, <1>3, <1>6, <2>2, <2>5, <2>6, <2>7 DEF Walk, Rank
<1> QED
  BY <1>3, <1>5, <1>6

(* A split returns. *)
LEMMA SplitReturnWalks ==
  ASSUME TeamsInv, PsyncInv, NEW p \in PE, split_return(p)
  PROVE  Walk(p)
<1> DEFINE n == at[p]
<1>1. /\ pc[p] = "max" /\ leave(p, n, "max") /\ pc' = [pc EXCEPT ![p] = "idle"] /\ at' = at
      /\ psync_avail' = psync_avail /\ entered' = entered
  BY DEF split_return, release_psyncs
<1>2. /\ Moves(p) /\ n \in 1 .. Len(log) /\ n \in Nat /\ p \in log[n].team.mem
      /\ pc'[p] = "idle" /\ at'[p] = n
  BY <1>1, SplitReturnMoves, InCall
<1>3. log[n].op = "split"
  BY <1>1 DEF TeamsInv, PlaceInv
<1>4. Records(p)
  BY <1>1, <1>2 DEF Records, leave
<1>5. Takes(p)
  BY <1>1, <1>2 DEF Takes
<1>6. Route(p)
  BY <1>1, <1>2, <1>3 DEF Route, Occurs, Rank, Phases
<1> QED
  BY <1>1, <1>2, <1>4, <1>5, <1>6 DEF Walk, Rank

(* Every step of a PE in its calls is of this kind. *)
LEMMA StepWalks ==
  ASSUME TeamsInv, PsyncInv, NEW p \in PE, step(p)
  PROVE  Walk(p)
  BY TeamCallWalks, TeamSyncWalks, TeamDestroyWalks, QuiescedWalks, CollReturnWalks,
     SplitReducedWalks, BarrierReturnWalks, SplitReturnWalks DEF step

-----------------------------------------------------------------------------
(* What such a step keeps.                                                 *)

(* The facts about the place of the PE that is used below. *)
LEMMA WalkFacts ==
  ASSUME TeamsInv, NEW p \in PE, Walk(p)
  PROVE  /\ log' = log /\ at'[p] \in 1 .. Len(log) /\ at'[p] \in Nat /\ at[p] \in Nat
         /\ at[p] <= at'[p] /\ p \in log[at'[p]].team.mem
         /\ pc'[p] \in Phases \cup {"idle"} /\ pc[p] \in Phases \cup {"idle"}
         /\ \A q \in PE \ {p} : at'[q] = at[q] /\ pc'[q] = pc[q]
         /\ \A q \in PE : at'[q] \in Nat /\ pc'[q] \in Phases \cup {"idle"}
         /\ pc[p] = "idle" => at[p] < at'[p]
         /\ \A m \in 1 .. Len(log) : m < at'[p] /\ p \in log[m].team.mem =>
              m < at[p] \/ (m = at[p] /\ pc[p] = "idle")
<1>1. Moves(p) /\ at'[p] \in 1 .. Len(log) /\ p \in log[at'[p]].team.mem /\ at[p] <= at'[p]
  BY DEF Walk
<1>2. /\ log' = log /\ at' \in [PE -> 0 .. MaxCalls] /\ pc' \in [PE -> Phases \cup {"idle"}]
      /\ \A q \in PE \ {p} : at'[q] = at[q] /\ pc'[q] = pc[q]
  BY <1>1 DEF Moves
<1>3. at[p] \in Nat /\ at'[p] \in Nat /\ \A q \in PE : at'[q] \in Nat
  BY <1>1, <1>2, Numbers
<1>4. pc[p] = "idle" => at[p] < at'[p]
  BY DEF Walk, IsNext
<1>5. ASSUME NEW m \in 1 .. Len(log), m < at'[p], p \in log[m].team.mem
      PROVE  m < at[p] \/ (m = at[p] /\ pc[p] = "idle")
  <2>1. m \in Nat
    BY Numbers
  <2>2. CASE pc[p] = "idle"
    <3>1. ~ (at[p] < m)
      BY <1>5, <2>2 DEF Walk, IsNext
    <3> QED
      BY <1>3, <2>1, <2>2, <3>1
  <2>3. CASE pc[p] # "idle"
    BY <1>5, <2>3 DEF Walk
  <2> QED
    BY <2>2, <2>3
<1> QED
  BY <1>1, <1>2, <1>3, <1>4, <1>5, Numbers

(* The entry a step adds. *)
LEMMA NewEntry ==
  ASSUME TeamsInv, NEW p \in PE, Walk(p), NEW f \in entered', f \notin entered
  PROVE  /\ pc'[p] # "idle" /\ f.n = at'[p] /\ f.ph = pc'[p] /\ f.pe = p
         /\ f.block = BlockOf(p, at'[p], pc'[p])
         /\ pc'[p] = "op" /\ log[at'[p]].op = "split" => f.val = avail[p]
<1>1. pc'[p] # "idle"
  BY DEF Walk, Records
<1>2. PICK v : /\ entered' = entered \cup {Entry(p, v)}
               /\ pc'[p] = "op" /\ log[at'[p]].op = "split" => v = avail[p]
  BY <1>1 DEF Walk, Records
<1>3. f = Entry(p, v)
  BY <1>2
<1> QED
  BY <1>1, <1>2, <1>3 DEF Entry

(* It removes none. *)
LEMMA EntriesGrow ==
  ASSUME NEW p \in PE, Walk(p)
  PROVE  entered \subseteq entered' /\ left \subseteq left'
  BY DEF Walk, Records

(* Who is inside, and who has left. *)
LEMMA InsideGrows ==
  ASSUME TeamsInv, NEW p \in PE, Walk(p), NEW q, NEW m, NEW ph
  PROVE  q \in Inside(m, ph)' <=>
           q \in Inside(m, ph) \/ (q = p /\ m = at'[p] /\ ph = pc'[p] /\ ph # "idle")
<1>1. q \in Inside(m, ph) <=> \E e \in entered : e.n = m /\ e.ph = ph /\ e.pe = q
  BY DEF Inside, Entries
<1>2. q \in Inside(m, ph)' <=> \E e \in entered' : e.n = m /\ e.ph = ph /\ e.pe = q
  BY DEF Inside, Entries
<1>3. ASSUME q = p, m = at'[p], ph = pc'[p], ph # "idle"
      PROVE  \E e \in entered' : e.n = m /\ e.ph = ph /\ e.pe = q
  <2>1. PICK v : entered' = entered \cup {Entry(p, v)}
    BY <1>3 DEF Walk, Records
  <2>2. Entry(p, v).n = m /\ Entry(p, v).ph = ph /\ Entry(p, v).pe = q
    BY <1>3 DEF Entry
  <2> QED
    BY <2>1, <2>2
<1> QED
  BY <1>1, <1>2, <1>3, NewEntry, EntriesGrow

(* The same for those who have left. *)
LEMMA LeftGrows ==
  ASSUME TeamsInv, NEW p \in PE, Walk(p), NEW q, NEW m, NEW ph
  PROVE  q \in Left(m, ph)' <=>
           q \in Left(m, ph) \/ (q = p /\ m = at'[p] /\ ph = pc[p] /\ ph # "idle")
<1>1. q \in Left(m, ph) <=> \E e \in left : e.n = m /\ e.ph = ph /\ e.pe = q
  BY DEF Left
<1>2. q \in Left(m, ph)' <=> \E e \in left' : e.n = m /\ e.ph = ph /\ e.pe = q
  BY DEF Left
<1>3. left' = IF pc[p] = "idle" THEN left
              ELSE left \cup {[n |-> at'[p], ph |-> pc[p], pe |-> p]}
  BY DEF Walk, Records
<1>4. CASE pc[p] = "idle"
  BY <1>1, <1>2, <1>3, <1>4
<1>5. CASE pc[p] # "idle"
  <2>1. PICK r : r = [n |-> at'[p], ph |-> pc[p], pe |-> p]
    OBVIOUS
  <2>2. r.n = at'[p] /\ r.ph = pc[p] /\ r.pe = p
    BY <2>1
  <2>3. left' = left \cup {r}
    BY <1>3, <1>5, <2>1
  <2> QED
    BY <1>1, <1>2, <1>5, <2>2, <2>3
<1> QED
  BY <1>4, <1>5

(* What p has left a call with is known once p has entered its collective: *)
(* all enter it with the same block.                                       *)
LEMMA FinKept ==
  ASSUME TeamsInv, PsyncInv, NEW p \in PE, Walk(p), NEW m \in 1 .. Len(log), NEW q \in PE,
         q \in log[m].team.mem, Reached(q, m, "op"), log[m].op # "destroy"
  PROVE  Fin(m)' = Fin(m)
<1>1. log' = log /\ log[m].op \in Ops /\ Moves(p)
  BY WalkFacts, LogCall DEF TeamsInv, Walk
<1>2. CASE log[m].op = "sync"
  BY <1>1, <1>2 DEF Fin
<1>3. CASE log[m].op = "split"
  BY <1>1, <1>3 DEF Fin
<1>4. CASE log[m].op \in {"bcast", "reduce"}
  <2> DEFINE x == chosen_block(Idx(log[m].team.id), 1)
  <2>1. Idx(log[m].team.id)' = Idx(log[m].team.id)
    BY <1>1, IdxKept
  <2>2. PICK f \in entered : f.n = m /\ f.ph = "op" /\ f.pe = q
    <3>1. Occurs(q, m, "op")
      BY <1>4 DEF Occurs, Members
    <3>2. q \in Inside(m, "op")
      BY <3>1 DEF PsyncInv, InsideInv, Phases
    <3> QED
      BY <3>2 DEF Inside, Entries
  <2>3. f.block = OpBlock(q, m)
    BY <2>2 DEF PsyncInv, BlockInv, BlockOf
  <2>4. ASSUME NEW e \in entered', e \notin entered, e.n = m, e.ph = "op"
        PROVE  e.block = f.block
    <3>1. e.block = BlockOf(p, m, "op") /\ m = at'[p]
      BY <2>4, NewEntry
    <3>2. p \in log[m].team.mem
      BY <3>1, WalkFacts
    <3>3. OpBlock(p, m) = OpBlock(q, m)
      BY <3>2, PreSame DEF PsyncInv
    <3> QED
      BY <2>3, <3>1, <3>3 DEF BlockOf
  <2>5. (\A e \in Entries(m, "op")' : e.block # x) <=> (\A e \in Entries(m, "op") : e.block # x)
    BY <2>2, <2>4, EntriesGrow DEF Entries
  <2>6. Fin(m) = {i \in {1} : \A e \in Entries(m, "op") : e.block # x}
    BY <1>4 DEF Fin
  <2>7. Fin(m)' = {i \in {1} : \A e \in Entries(m, "op")' : e.block # x}
    BY <1>1, <1>4, <2>1 DEF Fin, chosen_block
  <2> QED
    BY <2>5, <2>6, <2>7
<1> QED
  BY <1>1, <1>2, <1>3, <1>4 DEF Ops

(* The calls on team t up to k are known to q. *)
Known(q, t, k) ==
  \A m \in 1 .. Len(log) : On(q, t, m) /\ m <= k => Reached(q, m, "op")

(* What they have left stays. *)
LEMMA PreKept ==
  ASSUME TeamsInv, PsyncInv, NEW p \in PE, Walk(p), NEW q \in PE, NEW t, NEW k, Known(q, t, k)
  PROVE  Pre(q, t, k)' = Pre(q, t, k)
<1>1. log' = log
  BY WalkFacts
<1>2. \A m \in 1 .. Len(log) : On(q, t, m)' = On(q, t, m)
  BY <1>1 DEF On
<1>3. ASSUME NEW m \in 1 .. Len(log), On(q, t, m), m <= k PROVE Fin(m)' = Fin(m)
  <2>1. Reached(q, m, "op") /\ q \in log[m].team.mem /\ log[m].op # "destroy"
    BY <1>3 DEF Known, On
  <2> QED
    BY <2>1, FinKept
<1>4. ASSUME NEW i \in {0, 1} PROVE i \in Pre(q, t, k)' <=> i \in Pre(q, t, k)
  BY <1>1, <1>2, <1>3 DEF Pre
<1>5. Pre(q, t, k) \subseteq {0, 1} /\ Pre(q, t, k)' \subseteq {0, 1}
  BY DEF Pre
<1> QED
  BY <1>4, <1>5

(* Whoever is in a call knows the calls before. *)
LEMMA KnownBefore ==
  ASSUME TeamsInv, NEW p \in PE, Walk(p), NEW q \in PE, NEW n \in 1 .. Len(log), n <= at'[q], NEW t
  PROVE  Known(q, t, n - 1)
<1> SUFFICES ASSUME NEW m \in 1 .. Len(log), q \in log[m].team.mem, m <= n - 1
             PROVE  Reached(q, m, "op")
  BY DEF Known, On
<1>1. m \in Nat /\ n \in Nat /\ at'[q] \in Nat /\ m < at'[q] /\ at[q] \in Nat
  BY Numbers, WalkFacts
<1>2. CASE q # p
  BY <1>1, <1>2, WalkFacts DEF Reached
<1>3. CASE q = p
  <2>1. m < at[p] \/ (m = at[p] /\ pc[p] = "idle")
    BY <1>1, <1>3, WalkFacts
  <2> QED
    BY <1>1, <1>3, <2>1 DEF Reached, Rank
<1> QED
  BY <1>2, <1>3

(* Which collectives there are in a call that has been begun. *)
LEMMA OccursKept ==
  ASSUME TeamsInv, PsyncInv, NEW p \in PE, Walk(p), NEW q \in PE, NEW n \in 1 .. Len(log),
         n <= at'[q], NEW ph
  PROVE  /\ Occurs(q, n, ph)' <=> Occurs(q, n, ph)
         /\ BlockOf(q, n, ph)' = BlockOf(q, n, ph)
<1>1. log' = log /\ Moves(p)
  BY WalkFacts DEF Walk
<1>2. Pre(q, log[n].team.id, n - 1)' = Pre(q, log[n].team.id, n - 1)
  <2>1. PICK t : t = log[n].team.id
    OBVIOUS
  <2>2. Known(q, t, n - 1)
    BY KnownBefore
  <2>3. Pre(q, t, n - 1)' = Pre(q, t, n - 1)
    BY <2>2, PreKept
  <2> QED
    BY <1>1, <2>1, <2>3
<1>3. Idx(log[n].team.id)' = Idx(log[n].team.id)
  BY <1>1, IdxKept
<1>4. Members(n, "op")' = Members(n, "op")
  BY <1>1 DEF Members
<1>5. Occurs(q, n, ph)' <=> Occurs(q, n, ph)
  BY <1>1, <1>2, <1>4 DEF Occurs
<1>6. OpBlock(q, n)' = OpBlock(q, n)
  BY <1>1, <1>2, <1>3 DEF OpBlock, chosen_block, quiesced_block
<1> QED
  BY <1>1, <1>3, <1>5, <1>6 DEF BlockOf, barrier_block, chosen_block

(* The order of the collectives of a call. *)
LEMMA RankFacts ==
  /\ \A c \in Phases \cup {"idle"} : Rank(c) \in Nat
  /\ \A c, d \in Phases \cup {"idle"} : Rank(c) = Rank(d) => c = d
  /\ \A c \in Phases : Rank(c) < Rank("idle")
  BY DEF Rank, Phases

(* p enters the collectives there are for it, and only them. *)
LEMMA WalkInside ==
  ASSUME TeamsInv, PsyncInv, NEW p \in PE, Walk(p)
  PROVE  InsideInv'
<1>1. log' = log
  BY WalkFacts
<1> SUFFICES ASSUME NEW q \in PE, NEW m \in 1 .. Len(log), NEW ph \in Phases
             PROVE  q \in Inside(m, ph)' <=> Occurs(q, m, ph)' /\ Reached(q, m, ph)'
  BY <1>1 DEF InsideInv
<1>2. q \in Inside(m, ph) <=> Occurs(q, m, ph) /\ Reached(q, m, ph)
  BY DEF PsyncInv, InsideInv
<1>3. m \in Nat /\ at[q] \in Nat /\ at'[q] \in Nat /\ ph # "idle"
  BY Numbers, WalkFacts DEF Phases
<1>4. Reached(q, m, ph)' <=> at'[q] > m \/ (at'[q] = m /\ Rank(pc'[q]) >= Rank(ph))
  BY DEF Reached
<1>5. m <= at'[q] => (Occurs(q, m, ph)' <=> Occurs(q, m, ph))
  BY OccursKept
<1>6. CASE q # p
  <2>1. q \in Inside(m, ph)' <=> q \in Inside(m, ph)
    BY <1>6, InsideGrows
  <2>2. Reached(q, m, ph)' <=> Reached(q, m, ph)
    BY <1>6, WalkFacts DEF Reached
  <2> QED
    BY <1>2, <1>3, <1>4, <1>5, <2>1, <2>2
<1>7. CASE q = p /\ m > at'[p]
  <2>1. ~ Reached(q, m, ph)' /\ ~ Reached(q, m, ph)
    BY <1>3, <1>4, <1>7, WalkFacts DEF Reached
  <2>2. q \notin Inside(m, ph)'
    BY <1>2, <1>3, <1>7, <2>1, InsideGrows
  <2> QED
    BY <2>1, <2>2
<1>8. CASE q = p /\ m < at'[p]
  <2>1. q \in Inside(m, ph)' <=> q \in Inside(m, ph)
    BY <1>3, <1>8, InsideGrows
  <2>2. Occurs(q, m, ph) => Reached(q, m, ph)
    <3> SUFFICES ASSUME p \in log[m].team.mem PROVE Reached(p, m, ph)
      BY <1>8 DEF Occurs
    <3>1. m < at[p] \/ (m = at[p] /\ pc[p] = "idle")
      BY <1>8, WalkFacts
    <3> QED
      BY <1>3, <1>8, <3>1, RankFacts DEF Reached
  <2> QED
    BY <1>2, <1>3, <1>4, <1>5, <1>8, <2>1, <2>2
<1>9. CASE q = p /\ m = at'[p]
  <2>1. q \in Inside(m, ph)' <=> q \in Inside(m, ph) \/ ph = pc'[p]
    BY <1>3, <1>9, InsideGrows
  <2>2. pc'[p] # "idle" => Occurs(p, m, pc'[p])
    BY <1>9 DEF Walk, Route
  <2>3. (pc[p] = "idle" \/ Rank(pc[p]) < Rank(ph)) /\ Rank(ph) < Rank(pc'[p]) => ~ Occurs(p, m, ph)
    BY <1>9 DEF Walk, Route
  <2>4. pc[p] \in Phases \cup {"idle"} /\ pc'[p] \in Phases \cup {"idle"}
    BY WalkFacts
  <2>5. /\ Rank(ph) \in Nat /\ Rank(pc[p]) \in Nat /\ Rank(pc'[p]) \in Nat
        /\ Rank(ph) = Rank(pc'[p]) => ph = pc'[p]
    BY <2>4, RankFacts
  <2>6. CASE pc[p] = "idle"
    <3>1. ~ Reached(p, m, ph)
      BY <1>3, <1>9, <2>6, WalkFacts DEF Reached
    <3> QED
      BY <1>2, <1>3, <1>4, <1>5, <1>9, <2>1, <2>2, <2>3, <2>5, <2>6, <3>1
  <2>7. CASE pc[p] # "idle"
    <3>1. at[p] = m /\ Rank(pc[p]) < Rank(pc'[p])
      BY <1>9, <2>7 DEF Walk
    <3>2. Reached(p, m, ph) <=> Rank(pc[p]) >= Rank(ph)
      BY <1>3, <1>9, <3>1 DEF Reached
    <3> QED
      BY <1>2, <1>3, <1>4, <1>5, <1>9, <2>1, <2>2, <2>3, <2>5, <3>1, <3>2
  <2> QED
    BY <2>6, <2>7
<1> QED
  BY <1>3, <1>6, <1>7, <1>8, <1>9

(* It has left the ones before. *)
LEMMA WalkLeft ==
  ASSUME TeamsInv, PsyncInv, NEW p \in PE, Walk(p)
  PROVE  LeftInv'
<1>1. log' = log
  BY WalkFacts
<1> SUFFICES ASSUME NEW q \in PE, NEW m \in 1 .. Len(log), NEW ph \in Phases
             PROVE  q \in Left(m, ph)' <=> Occurs(q, m, ph)' /\ Done(q, m, ph)'
  BY <1>1 DEF LeftInv
<1>2. q \in Left(m, ph) <=> Occurs(q, m, ph) /\ Done(q, m, ph)
  BY DEF PsyncInv, LeftInv
<1>3. m \in Nat /\ at[q] \in Nat /\ at'[q] \in Nat /\ ph # "idle"
  BY Numbers, WalkFacts DEF Phases
<1>4. Done(q, m, ph)' <=> at'[q] > m \/ (at'[q] = m /\ Rank(pc'[q]) > Rank(ph))
  BY DEF Done
<1>5. m <= at'[q] => (Occurs(q, m, ph)' <=> Occurs(q, m, ph))
  BY OccursKept
<1>6. CASE q # p
  <2>1. q \in Left(m, ph)' <=> q \in Left(m, ph)
    BY <1>6, LeftGrows
  <2>2. Done(q, m, ph)' <=> Done(q, m, ph)
    BY <1>6, WalkFacts DEF Done
  <2> QED
    BY <1>2, <1>3, <1>4, <1>5, <2>1, <2>2
<1>7. CASE q = p /\ m > at'[p]
  <2>1. ~ Done(q, m, ph)' /\ ~ Done(q, m, ph)
    BY <1>3, <1>4, <1>7, WalkFacts DEF Done
  <2>2. q \notin Left(m, ph)'
    BY <1>2, <1>3, <1>7, <2>1, LeftGrows
  <2> QED
    BY <2>1, <2>2
<1>8. CASE q = p /\ m < at'[p]
  <2>1. q \in Left(m, ph)' <=> q \in Left(m, ph)
    BY <1>3, <1>8, LeftGrows
  <2>2. Occurs(q, m, ph) => Done(q, m, ph)
    <3> SUFFICES ASSUME p \in log[m].team.mem PROVE Done(p, m, ph)
      BY <1>8 DEF Occurs
    <3>1. m < at[p] \/ (m = at[p] /\ pc[p] = "idle")
      BY <1>8, WalkFacts
    <3> QED
      BY <1>3, <1>8, <3>1, RankFacts DEF Done
  <2> QED
    BY <1>2, <1>3, <1>4, <1>5, <1>8, <2>1, <2>2
<1>9. CASE q = p /\ m = at'[p]
  <2>1. q \in Left(m, ph)' <=> q \in Left(m, ph) \/ ph = pc[p]
    BY <1>3, <1>9, LeftGrows
  <2>2. pc[p] # "idle" => Occurs(p, m, pc[p])
    BY <1>9 DEF Walk, Route
  <2>3. (pc[p] = "idle" \/ Rank(pc[p]) < Rank(ph)) /\ Rank(ph) < Rank(pc'[p]) => ~ Occurs(p, m, ph)
    BY <1>9 DEF Walk, Route
  <2>4. pc[p] \in Phases \cup {"idle"} /\ pc'[p] \in Phases \cup {"idle"}
    BY WalkFacts
  <2>5. /\ Rank(ph) \in Nat /\ Rank(pc[p]) \in Nat /\ Rank(pc'[p]) \in Nat
        /\ Rank(ph) = Rank(pc[p]) => ph = pc[p]
    BY <2>4, RankFacts
  <2>6. CASE pc[p] = "idle"
    <3>1. ~ Done(p, m, ph)
      BY <1>3, <1>9, <2>6, WalkFacts DEF Done
    <3> QED
      BY <1>2, <1>3, <1>4, <1>5, <1>9, <2>1, <2>3, <2>5, <2>6, <3>1
  <2>7. CASE pc[p] # "idle"
    <3>1. at[p] = m /\ Rank(pc[p]) < Rank(pc'[p])
      BY <1>9, <2>7 DEF Walk
    <3>2. Done(p, m, ph) <=> Rank(pc[p]) > Rank(ph)
      BY <1>3, <1>9, <3>1 DEF Done
    <3> QED
      BY <1>2, <1>3, <1>4, <1>5, <1>9, <2>1, <2>2, <2>3, <2>5, <2>7, <3>1, <3>2
  <2> QED
    BY <2>6, <2>7
<1> QED
  BY <1>3, <1>6, <1>7, <1>8, <1>9

(* The blocks of the collectives are as they were when they were entered. *)
LEMMA WalkBlocks ==
  ASSUME TeamsInv, PsyncInv, NEW p \in PE, Walk(p)
  PROVE  BlockInv' /\ SharedInv'
<1>1. log' = log
  BY WalkFacts
<1>2. ASSUME NEW e \in entered' PROVE e.block = BlockOf(e.pe, e.n, e.ph)'
  <2>1. CASE e \in entered
    <3>1. e.pe \in PE /\ e.n \in 1 .. Len(log) /\ at[e.pe] >= e.n
      BY <2>1 DEF TeamsInv, EntryInv
    <3>2. e.n <= at'[e.pe]
      <4>1. at'[e.pe] >= at[e.pe] /\ at[e.pe] \in Nat /\ at'[e.pe] \in Nat /\ e.n \in Nat
        <5>1. at[e.pe] \in Nat /\ e.n \in Nat
          BY <3>1, Numbers
        <5>2. CASE e.pe = p
          BY <5>1, <5>2, WalkFacts
        <5>3. CASE e.pe # p
          BY <3>1, <5>1, <5>3, WalkFacts
        <5> QED
          BY <5>2, <5>3
      <4> QED
        BY <3>1, <4>1
    <3>3. BlockOf(e.pe, e.n, e.ph)' = BlockOf(e.pe, e.n, e.ph)
      BY <3>1, <3>2, OccursKept
    <3> QED
      BY <2>1, <3>3 DEF PsyncInv, BlockInv
  <2>2. CASE e \notin entered
    <3>1. e.n = at'[p] /\ e.pe = p /\ e.block = BlockOf(e.pe, e.n, e.ph)
      BY <2>2, NewEntry
    <3>2. BlockOf(e.pe, e.n, e.ph)' = BlockOf(e.pe, e.n, e.ph)
      BY <3>1, OccursKept, WalkFacts
    <3> QED
      BY <3>1, <3>2
  <2> QED
    BY <2>1, <2>2
<1> QED
  BY <1>1, <1>2 DEF BlockInv, PsyncInv, SharedInv

(* Nobody leaves a sync or barrier before all are inside. *)
LEMMA WalkPassed ==
  ASSUME TeamsInv, PsyncInv, NEW p \in PE, Walk(p)
  PROVE  PassedInv'
<1>1. log' = log /\ at'[p] \in 1 .. Len(log) /\ Moves(p)
  BY WalkFacts DEF Walk
<1>2. ASSUME NEW x \in left' PROVE x.n \in 1 .. Len(log)
  <2>1. CASE x \in left
    BY <2>1 DEF PsyncInv, PassedInv
  <2>2. CASE x \notin left
    <3>1. x = [n |-> at'[p], ph |-> pc[p], pe |-> p]
      BY <2>2 DEF Walk, Records
    <3> QED
      BY <1>1, <3>1
  <2> QED
    BY <2>1, <2>2
<1>3. ASSUME NEW q \in PE, NEW n \in 1 .. Len(log), NEW c \in {"quiesce", "barrier"},
             q \in Left(n, c)'
      PROVE  AllIn(n, c)'
  <2>1. AllIn(n, c)
    <3>1. CASE q \in Left(n, c)
      BY <3>1 DEF PsyncInv, PassedInv
    <3>2. CASE q \notin Left(n, c)
      <4>1. n = at'[p] /\ c = pc[p]
        BY <1>3, <3>2, LeftGrows
      <4> QED
        BY <4>1 DEF Walk
    <3> QED
      BY <3>1, <3>2
  <2>2. Members(n, c)' = Members(n, c)
    BY <1>1 DEF Members
  <2>3. Inside(n, c) \subseteq Inside(n, c)'
    BY InsideGrows
  <2>4. Inside(n, c)' \subseteq Members(n, c)
    <3> SUFFICES ASSUME NEW r \in Inside(n, c)' PROVE r \in Members(n, c)
      OBVIOUS
    <3>1. CASE r \in Inside(n, c)
      BY <2>1, <3>1 DEF AllIn
    <3>2. CASE r \notin Inside(n, c)
      <4>1. r = p /\ n = at'[p] /\ c = pc'[p]
        BY <3>2, InsideGrows
      <4> QED
        BY <4>1, WalkFacts DEF Members
    <3> QED
      BY <3>1, <3>2
  <2> QED
    BY <2>1, <2>2, <2>3, <2>4 DEF AllIn
<1> QED
  BY <1>1, <1>2, <1>3 DEF PassedInv

-----------------------------------------------------------------------------
(* The pSyncs that are available.                                          *)

(* A PE that is not in the middle of a call on t knows the calls on t. *)
LEMMA SettledKnown ==
  ASSUME TeamsInv, NEW q \in PE, NEW t, Settled(q, t)
  PROVE  Known(q, t, at[q])
<1> SUFFICES ASSUME NEW m \in 1 .. Len(log), On(q, t, m), m <= at[q]
             PROVE  Reached(q, m, "op")
  BY DEF Known
<1>1. m \in Nat /\ at[q] \in Nat
  BY Numbers
<1>2. CASE m < at[q]
  BY <1>1, <1>2 DEF Reached
<1>3. CASE m = at[q]
  <2>1. pc[q] \in {"idle", "max", "op"}
    BY <1>3 DEF Settled, On
  <2> QED
    BY <1>1, <1>3, <2>1 DEF Reached, Rank
<1> QED
  BY <1>1, <1>2, <1>3

(* If q makes no call on t in the step, what is available there stays. *)
LEMMA AvailStays ==
  ASSUME TeamsInv, PsyncInv, NEW p \in PE, Walk(p), NEW q \in PE, NEW t \in TeamIds,
         Settled(q, t), psync_avail'[q][t] = psync_avail[q][t],
         \A m \in 1 .. Len(log) : On(q, t, m) => (m <= at[q] <=> m <= at'[q])
  PROVE  psync_avail'[q][t] = Pre(q, t, at[q])'
<1>1. PICK k : k = at'[q]
  OBVIOUS
<1>2. PICK j : j = at[q]
  OBVIOUS
<1>3. psync_avail[q][t] = Pre(q, t, j)
  BY <1>2 DEF PsyncInv, AvailInv
<1>4. Pre(q, t, j) = Pre(q, t, k)
  BY <1>1, <1>2, PreSkips
<1>5. Known(q, t, k)
  <2>1. Known(q, t, j)
    BY <1>2, SettledKnown
  <2> QED
    BY <1>1, <1>2, <2>1 DEF Known
<1>6. Pre(q, t, k)' = Pre(q, t, k)
  BY <1>5, PreKept
<1> QED
  BY <1>1, <1>3, <1>4, <1>6

(* Which steps those are. *)
Stays(p, q, t) ==
  \/ q # p \/ t # log[at'[p]].team.id \/ log[at'[p]].op = "destroy"
  \/ pc'[p] = "idle" /\ pc[p] \in {"op", "max"}

(* A call on t is not among them. *)
LEMMA StaysMeans ==
  ASSUME TeamsInv, PsyncInv, NEW p \in PE, Walk(p), NEW q \in PE, NEW t \in TeamIds,
         Settled(q, t)', Stays(p, q, t)
  PROVE  /\ Settled(q, t) /\ psync_avail'[q][t] = psync_avail[q][t]
         /\ \A m \in 1 .. Len(log) : On(q, t, m) => (m <= at[q] <=> m <= at'[q])
<1>1. log' = log /\ Takes(p) /\ Route(p)
  BY WalkFacts DEF Walk
<1>2. CASE q # p
  <2>1. at'[q] = at[q] /\ pc'[q] = pc[q]
    BY <1>2, WalkFacts
  <2>2. Settled(q, t)
    BY <1>1, <2>1 DEF Settled
  <2> QED
    BY <1>1, <1>2, <2>1, <2>2 DEF Takes
<1>3. CASE q = p /\ (t # log[at'[p]].team.id \/ log[at'[p]].op = "destroy")
  <2>1. Settled(p, t)
    <3>1. CASE pc[p] = "idle"
      BY <3>1 DEF Settled
    <3>2. CASE pc[p] # "idle"
      <4>1. at'[p] = at[p]
        BY <3>2 DEF Walk
      <4>2. log[at[p]].op # "destroy"
        BY <3>2 DEF TeamsInv, PlaceInv, TypeOK, Phases
      <4> QED
        BY <1>3, <4>1, <4>2 DEF Settled
    <3> QED
      BY <3>1, <3>2
  <2>2. psync_avail'[p][t] = psync_avail[p][t]
    <3>1. CASE t # log[at'[p]].team.id
      BY <1>1, <3>1 DEF Takes
    <3>2. CASE t = log[at'[p]].team.id /\ log[at'[p]].op = "destroy"
      <4>1. pc[p] = "idle"
        <5>1. pc[p] # "idle" => at'[p] = at[p]
          BY DEF Walk
        <5> QED
          BY <3>2, <5>1 DEF TeamsInv, PlaceInv, TypeOK, Phases
      <4>2. pc'[p] = "idle"
        BY <1>1, <3>2, WalkFacts DEF Route, Occurs, Phases
      <4> QED
        BY <1>1, <3>2, <4>1, <4>2 DEF Takes
    <3> QED
      BY <1>3, <3>1, <3>2
  <2>3. ASSUME NEW m \in 1 .. Len(log), On(p, t, m) PROVE m <= at[p] <=> m <= at'[p]
    <3>1. m # at'[p] /\ p \in log[m].team.mem
      BY <1>3, <2>3 DEF On
    <3>2. m \in Nat /\ at[p] \in Nat /\ at'[p] \in Nat /\ at[p] <= at'[p]
      BY WalkFacts, Numbers
    <3>3. m < at'[p] => m <= at[p]
      BY <3>1, <3>2, WalkFacts
    <3> QED
      BY <3>1, <3>2, <3>3
  <2> QED
    BY <1>3, <2>1, <2>2, <2>3
<1>4. CASE q = p /\ pc'[p] = "idle" /\ pc[p] \in {"op", "max"}
  <2>1. at'[p] = at[p]
    BY <1>4 DEF Walk
  <2>2. pc[p] = "op" => log[at[p]].op # "split"
    <3>1. ASSUME pc[p] = "op" PROVE ~ Occurs(p, at'[p], "barrier")
      BY <1>1, <1>4, <3>1 DEF Route, Rank, Phases
    <3> QED
      BY <2>1, <3>1, WalkFacts DEF Occurs
  <2>3. Settled(p, t)
    BY <1>4, <2>2 DEF Settled
  <2>4. psync_avail'[p][t] = psync_avail[p][t]
    BY <1>1, <1>4 DEF Takes
  <2> QED
    BY <1>4, <2>1, <2>3, <2>4
<1> QED
  BY <1>2, <1>3, <1>4 DEF Stays

(* The others: p has entered a collective, or left a sync. *)
LEMMA NotStays ==
  ASSUME TeamsInv, PsyncInv, NEW p \in PE, Walk(p), NEW q \in PE, NEW t \in TeamIds,
         Settled(q, t)', ~ Stays(p, q, t)
  PROVE  /\ q = p /\ t = log[at'[p]].team.id /\ On(p, t, at'[p])
         /\ \/ /\ pc[p] = "barrier" /\ pc'[p] = "idle" /\ log[at'[p]].op = "sync"
            \/ /\ pc[p] = "barrier" /\ pc'[p] = "max" /\ log[at'[p]].op = "split"
            \/ /\ pc[p] \in {"idle", "quiesce"} /\ pc'[p] = "op"
               /\ log[at'[p]].op \in {"bcast", "reduce"}
<1>1. log' = log /\ p \in log[at'[p]].team.mem /\ Route(p) /\ Moves(p)
  BY WalkFacts DEF Walk
<1>2. /\ q = p /\ t = log[at'[p]].team.id /\ log[at'[p]].op # "destroy"
      /\ ~ (pc'[p] = "idle" /\ pc[p] \in {"op", "max"})
  BY DEF Stays
<1>3. pc[p] = "idle" => pc'[p] # "idle"
  BY <1>2 DEF Walk
<1>4. pc'[p] \in {"idle", "max"} \/ (pc'[p] = "op" /\ log[at'[p]].op # "split")
  BY <1>1, <1>2 DEF Settled
<1>5. pc[p] # "idle" => <<pc[p], pc'[p]>> \in Order
  BY <1>1 DEF Moves
<1>6. CASE pc'[p] = "idle"
  <2>1. pc[p] = "barrier"
    BY <1>2, <1>3, <1>5, <1>6 DEF Order
  <2> QED
    BY <1>1, <1>2, <1>6, <2>1 DEF On, Walk
<1>7. CASE pc'[p] = "max"
  <2>1. log[at'[p]].op = "split"
    BY <1>1, <1>7 DEF Route, Occurs
  <2>2. pc[p] = "barrier"
    <3>1. Occurs(p, at'[p], "barrier")
      BY <1>1, <2>1 DEF Occurs
    <3>2. pc[p] # "idle"
      BY <1>1, <1>7, <3>1 DEF Route, Rank, Phases
    <3> QED
      BY <1>5, <1>7, <3>2 DEF Order
  <2> QED
    BY <1>1, <1>2, <1>7, <2>1, <2>2 DEF On
<1>8. CASE pc'[p] = "op" /\ log[at'[p]].op # "split"
  <2>1. log[at'[p]].op \in {"bcast", "reduce"}
    BY <1>1, <1>8 DEF Route, Occurs
  <2>2. pc[p] \in {"idle", "quiesce"}
    BY <1>5, <1>8 DEF Order
  <2> QED
    BY <1>1, <1>2, <1>8, <2>1, <2>2 DEF On
<1> QED
  BY <1>4, <1>6, <1>7, <1>8

(* What p's last call on a team has left, in the new state. *)
LEMMA PreOfCall ==
  ASSUME TeamsInv, NEW p \in PE, Walk(p), NEW n, n = at'[p], NEW t, On(p, t, n)
  PROVE  Pre(p, t, n)' = {i \in {0, 1} : i \in Fin(n)'}
<1>1. log' = log /\ n \in Nat /\ n \in 1 .. Len(log)
  BY WalkFacts
<1>2. \A m \in 1 .. Len(log) : On(p, t, m)' = On(p, t, m)
  BY <1>1 DEF On
<1>3. ASSUME NEW m \in 1 .. Len(log), m <= n,
             \A j \in 1 .. Len(log) : On(p, t, j) /\ j <= n => j <= m
      PROVE  m = n
  <2>1. n <= m
    BY <1>1, <1>3
  <2> QED
    BY <1>1, <1>3, <2>1
<1>4. ASSUME NEW i \in {0, 1} PROVE i \in Pre(p, t, n)' <=> i \in Fin(n)'
  <2>1. i \in Pre(p, t, n)' <=>
          \A m \in 1 .. Len(log) :
            /\ On(p, t, m) /\ m <= n
            /\ \A j \in 1 .. Len(log) : On(p, t, j) /\ j <= n => j <= m
            => i \in Fin(m)'
    BY <1>1, <1>2 DEF Pre
  <2> QED
    BY <2>1, <1>1, <1>3
<1>5. Pre(p, t, n)' \subseteq {0, 1}
  BY DEF Pre
<1> QED
  BY <1>4, <1>5

(* The blocks of one team, and its barrier block, are different. *)
LEMMA BlocksDiffer ==
  ASSUME TeamsInv, NEW x \in 0 .. TEAMS_MAX - 1
  PROVE  /\ chosen_block(x, 0) # chosen_block(x, 1)
         /\ quiesced_block(x) # chosen_block(x, 1)
         /\ barrier_block(x) \notin {chosen_block(x, 0), chosen_block(x, 1), quiesced_block(x)}
<1>1. x \in Nat /\ TEAMS_MAX \in Nat /\ TEAMS_MAX >= 2 /\ x <= TEAMS_MAX - 1
  BY Numbers
<1> QED
  BY <1>1 DEF chosen_block, quiesced_block, barrier_block, N_PSYNCS_PER_TEAM

(* All who enter the collective of a call enter it with the same block. *)
LEMMA FinOfCall ==
  ASSUME TeamsInv, PsyncInv, NEW p \in PE, Walk(p), pc'[p] = "op",
         NEW n, n = at'[p], log[n].op \in {"bcast", "reduce"}
  PROVE  Fin(n)' = IF OpBlock(p, n) = chosen_block(Idx(log[n].team.id), 1) THEN {} ELSE {1}
<1>1. n \in 1 .. Len(log)
  BY WalkFacts
<1>2. log' = log /\ Moves(p) /\ p \in log[n].team.mem
  BY <1>1, WalkFacts DEF Walk
<1>3. Idx(log[n].team.id)' = Idx(log[n].team.id)
  BY <1>1, <1>2, IdxKept
<1>4. ASSUME NEW e \in entered', e.n = n, e.ph = "op" PROVE e.block = OpBlock(p, n)
  <2>1. CASE e \in entered
    <3>1. e.pe \in Members(n, "op") /\ e.block = BlockOf(e.pe, n, "op")
      BY <1>4, <2>1 DEF TeamsInv, EntryInv, PsyncInv, BlockInv
    <3>2. e.pe \in log[n].team.mem
      BY <1>1, <3>1 DEF Members
    <3>3. OpBlock(e.pe, n) = OpBlock(p, n)
      BY <1>1, <1>2, <3>2, PreSame DEF PsyncInv
    <3> QED
      BY <3>1, <3>3 DEF BlockOf
  <2>2. CASE e \notin entered
    BY <1>1, <2>2, NewEntry DEF BlockOf
  <2> QED
    BY <2>1, <2>2
<1>5. \E e \in entered' : e.n = n /\ e.ph = "op"
  <2>1. p \in Inside(n, "op")'
    BY <1>1, InsideGrows
  <2> QED
    BY <2>1 DEF Inside, Entries
<1>6. PICK x : x = chosen_block(Idx(log[n].team.id), 1)
  OBVIOUS
<1>7. Fin(n)' = {i \in {1} : \A e \in Entries(n, "op")' : e.block # x}
  BY <1>1, <1>2, <1>3, <1>6 DEF Fin, chosen_block
<1>8. (\A e \in Entries(n, "op")' : e.block # x) <=> OpBlock(p, n) # x
  BY <1>4, <1>5 DEF Entries
<1> QED
  BY <1>6, <1>7, <1>8

(* What a PE takes is the block its collective uses. *)
LEMMA TakesBlock ==
  ASSUME TeamsInv, PsyncInv, NEW p \in PE, Walk(p), pc'[p] = "op",
         NEW t, t = log[at'[p]].team.id, NEW x, x = Idx(t)
  PROVE  /\ x \in 0 .. TEAMS_MAX - 1
         /\ \/ /\ pc[p] = "idle" /\ psync_avail[p][t] = {0, 1} /\ psync_avail'[p][t] = {1}
               /\ OpBlock(p, at'[p]) = chosen_block(x, 0)
            \/ /\ pc[p] = "idle" /\ psync_avail[p][t] = {1} /\ psync_avail'[p][t] = {}
               /\ OpBlock(p, at'[p]) = chosen_block(x, 1)
            \/ /\ pc[p] = "quiesce" /\ psync_avail'[p][t] = {1}
               /\ OpBlock(p, at'[p]) = quiesced_block(x)
<1>1. PICK n \in 1 .. Len(log) : n = at'[p]
  BY WalkFacts
<1>2. Moves(p) /\ Takes(p) /\ Route(p) /\ x \in 0 .. TEAMS_MAX - 1
  BY <1>1, IdxOfCall DEF Walk
<1>3. PICK pre : pre = Pre(p, t, n - 1)
  OBVIOUS
<1>4. pre \in {{0, 1}, {1}, {}}
  BY <1>3, PreShape
<1>5. OpBlock(p, n) = IF 0 \in pre THEN chosen_block(x, 0)
                      ELSE IF 1 \in pre THEN chosen_block(x, 1) ELSE quiesced_block(x)
  BY <1>1, <1>3 DEF OpBlock
<1>6. CASE pc[p] = "idle"
  <2>1. psync_avail[p][t] = pre
    <3>1. IsNext(p, n)
      BY <1>1, <1>6 DEF Walk
    <3> QED
      BY <1>1, <1>3, <1>6, <3>1, NextPre DEF PsyncInv
  <2>2. /\ pre # {}
        /\ psync_avail'[p][t] = pre \ {IF 0 \in pre THEN 0 ELSE 1}
    BY <1>1, <1>2, <1>6, <2>1 DEF Takes
  <2>3. CASE pre = {0, 1}
    <3>1. pre \ {IF 0 \in pre THEN 0 ELSE 1} = {1}
      BY <2>3
    <3> QED
      BY <1>1, <1>2, <1>5, <1>6, <2>1, <2>2, <2>3, <3>1
  <2>4. CASE pre = {1}
    <3>1. pre \ {IF 0 \in pre THEN 0 ELSE 1} = {}
      BY <2>4
    <3> QED
      BY <1>1, <1>2, <1>5, <1>6, <2>1, <2>2, <2>4, <3>1
  <2> QED
    BY <1>4, <2>2, <2>3, <2>4
<1>7. CASE pc[p] # "idle"
  <2>1. pc[p] = "quiesce"
    BY <1>2, <1>7 DEF Moves, Order
  <2>2. pre = {}
    BY <1>1, <1>2, <1>3, <2>1 DEF Route, Occurs
  <2> QED
    BY <1>1, <1>2, <1>5, <2>1, <2>2 DEF Takes
<1> QED
  BY <1>6, <1>7

(* A PE that is not in the middle of a call on a team has the blocks       *)
(* available that its last call on it has left.                            *)
LEMMA WalkAvail ==
  ASSUME TeamsInv, PsyncInv, NEW p \in PE, Walk(p)
  PROVE  AvailInv'
<1> SUFFICES ASSUME NEW q \in PE, NEW t \in TeamIds, Settled(q, t)'
             PROVE  psync_avail'[q][t] = Pre(q, t, at[q])'
  BY DEF AvailInv
<1>1. CASE Stays(p, q, t)
  <2>1. /\ Settled(q, t) /\ psync_avail'[q][t] = psync_avail[q][t]
        /\ \A m \in 1 .. Len(log) : On(q, t, m) => (m <= at[q] <=> m <= at'[q])
    BY <1>1, StaysMeans
  <2> QED
    BY <2>1, AvailStays
<1>2. CASE ~ Stays(p, q, t)
  <2>1. /\ q = p /\ t = log[at'[p]].team.id /\ On(p, t, at'[p])
        /\ \/ /\ pc[p] = "barrier" /\ pc'[p] = "idle" /\ log[at'[p]].op = "sync"
           \/ /\ pc[p] = "barrier" /\ pc'[p] = "max" /\ log[at'[p]].op = "split"
           \/ /\ pc[p] \in {"idle", "quiesce"} /\ pc'[p] = "op"
              /\ log[at'[p]].op \in {"bcast", "reduce"}
    BY <1>2, NotStays
  <2>2. PICK n : n = at'[p]
    OBVIOUS
  <2>3. log' = log /\ Takes(p) /\ n \in Nat
    BY <2>2, WalkFacts DEF Walk
  <2>4. Pre(p, t, n)' = {i \in {0, 1} : i \in Fin(n)'}
    BY <2>1, <2>2, PreOfCall
  <2>5. psync_avail'[p][t] = Fin(n)'
    <3>1. CASE pc[p] = "barrier" /\ pc'[p] = "idle" /\ log[at'[p]].op = "sync"
      BY <2>1, <2>2, <2>3, <3>1 DEF Takes, Fin
    <3>2. CASE pc[p] = "barrier" /\ pc'[p] = "max" /\ log[at'[p]].op = "split"
      BY <2>1, <2>2, <2>3, <3>2 DEF Takes, Fin
    <3>3. CASE pc'[p] = "op" /\ log[at'[p]].op \in {"bcast", "reduce"}
      <4>1. PICK x : x = Idx(t)
        OBVIOUS
      <4>2. Fin(n)' = IF OpBlock(p, n) = chosen_block(x, 1) THEN {} ELSE {1}
        BY <2>1, <2>2, <3>3, <4>1, FinOfCall
      <4>3. /\ x \in 0 .. TEAMS_MAX - 1
            /\ \/ /\ psync_avail'[p][t] = {1} /\ OpBlock(p, n) = chosen_block(x, 0)
               \/ /\ psync_avail'[p][t] = {} /\ OpBlock(p, n) = chosen_block(x, 1)
               \/ /\ psync_avail'[p][t] = {1} /\ OpBlock(p, n) = quiesced_block(x)
        BY <2>1, <2>2, <3>3, <4>1, TakesBlock
      <4> QED
        BY <4>2, <4>3, BlocksDiffer
    <3> QED
      BY <2>1, <3>1, <3>2, <3>3
  <2>6. psync_avail'[p][t] \subseteq {0, 1}
    <3>1. CASE pc'[p] = "op"
      <4>1. PICK x : x = Idx(t)
        OBVIOUS
      <4>2. psync_avail'[p][t] \in {{1}, {}}
        BY <2>1, <3>1, <4>1, TakesBlock
      <4> QED
        BY <4>2
    <3>2. CASE pc'[p] # "op"
      <4>1. psync_avail'[p][t] \in {{1}, {0, 1}}
        BY <2>1, <2>3, <3>2 DEF Takes
      <4> QED
        BY <4>1
    <3> QED
      BY <3>1, <3>2
  <2> QED
    BY <2>1, <2>2, <2>4, <2>5, <2>6
<1> QED
  BY <1>1, <1>2

-----------------------------------------------------------------------------
(* A block is used again when all are through with it.                     *)

(* Nobody comes back into a collective. *)
LEMMA AllLeftStays ==
  ASSUME TeamsInv, NEW p \in PE, Walk(p), NEW m, NEW ph, AllLeft(m, ph)
  PROVE  AllLeft(m, ph)'
<1>1. Members(m, ph)' = Members(m, ph)
  BY WalkFacts DEF Members
<1>2. Left(m, ph) \subseteq Left(m, ph)'
  BY LeftGrows
<1> QED
  BY <1>1, <1>2 DEF AllLeft

(* A collective that one member has entered is there for all its members. *)
LEMMA MemberOccurs ==
  ASSUME TeamsInv, PsyncInv, NEW e \in entered, NEW r \in Members(e.n, e.ph)
  PROVE  /\ Occurs(r, e.n, e.ph) /\ r \in log[e.n].team.mem /\ r \in PE
         /\ log[e.n].op # "destroy"
<1>1. /\ e.n \in 1 .. Len(log) /\ e.ph \in Phases
      /\ e.pe \in Members(e.n, e.ph) /\ e.pe \in PE
  BY DEF TeamsInv, EntryInv
<1>2. Members(e.n, e.ph) \subseteq log[e.n].team.mem /\ log[e.n].team.mem \subseteq PE
  <2>1. SoundCall(e.n) /\ log[e.n].team.mem \subseteq PE
    BY <1>1, LogCall DEF TeamsInv
  <2> QED
    BY <2>1 DEF Members, SoundCall
<1>3. Occurs(e.pe, e.n, e.ph)
  <2>1. e.pe \in Inside(e.n, e.ph)
    BY DEF Inside, Entries
  <2> QED
    BY <1>1, <2>1 DEF PsyncInv, InsideInv
<1>4. Pre(r, log[e.n].team.id, e.n - 1) = Pre(e.pe, log[e.n].team.id, e.n - 1)
  BY <1>1, <1>2, PreSame DEF PsyncInv
<1>5. Occurs(r, e.n, e.ph)
  BY <1>2, <1>3, <1>4 DEF Occurs
<1>6. log[e.n].op # "destroy"
  BY <1>1, <1>3 DEF Occurs, Phases
<1> QED
  BY <1>2, <1>5, <1>6

(* When all are in a sync or barrier, all are through with what came before. *)
LEMMA Flushed ==
  ASSUME TeamsInv, PsyncInv, NEW n \in 1 .. Len(log), NEW c \in {"quiesce", "barrier"},
         AllIn(n, c), NEW e \in entered, log[e.n].team = log[n].team,
         e.n < n \/ (e.n = n /\ Rank(e.ph) < Rank(c))
  PROVE  AllLeft(e.n, e.ph)
<1> SUFFICES ASSUME NEW r \in Members(e.n, e.ph) PROVE r \in Left(e.n, e.ph)
  BY DEF AllLeft
<1>1. /\ Occurs(r, e.n, e.ph) /\ r \in log[n].team.mem /\ r \in PE
      /\ e.n \in 1 .. Len(log) /\ e.ph \in Phases
  BY MemberOccurs DEF TeamsInv, EntryInv
<1>2. r \in Inside(n, c)
  BY <1>1 DEF AllIn, Members
<1>3. Reached(r, n, c)
  BY <1>1, <1>2 DEF PsyncInv, InsideInv, Phases
<1>4. /\ n \in Nat /\ e.n \in Nat /\ at[r] \in Nat /\ pc[r] \in Phases \cup {"idle"}
      /\ Rank(pc[r]) \in Nat /\ Rank(e.ph) \in Nat /\ Rank(c) \in Nat
  BY <1>1, Numbers, RankFacts DEF Phases
<1>5. Done(r, e.n, e.ph)
  BY <1>3, <1>4 DEF Done, Reached
<1> QED
  BY <1>1, <1>5 DEF PsyncInv, LeftInv

(* When p comes to a collective, whoever of the team is past it has been in *)
(* it, with the same block, and it is not over.                            *)
LEMMA Latecomer ==
  ASSUME TeamsInv, PsyncInv, NEW p \in PE, Walk(p), pc'[p] \in Pool, NEW q \in PE,
         q \in log[at'[p]].team.mem,
         \/ at[q] > at'[p]
         \/ at[q] = at'[p] /\ Settled(q, log[at'[p]].team.id)
  PROVE  /\ ~ AllLeft(at'[p], pc'[p])
         /\ \E g \in entered : /\ g.n = at'[p] /\ g.ph = pc'[p] /\ g.pe = q
                               /\ g.block = BlockOf(p, at'[p], pc'[p])
<1>1. PICK n \in 1 .. Len(log) : n = at'[p]
  BY WalkFacts
<1>2. PICK ph \in Pool : ph = pc'[p]
  OBVIOUS
<1>3. /\ n \in Nat /\ at[p] \in Nat /\ at[q] \in Nat /\ at[p] <= n /\ p \in log[n].team.mem
      /\ pc[p] = "idle" => at[p] < n
  BY <1>1, Numbers, WalkFacts
<1>4. Occurs(p, n, ph) /\ ph \in Phases
  BY <1>1, <1>2 DEF Walk, Route, Pool, Phases
<1>5. ASSUME NEW c \in Phases, Rank(c) >= Rank(ph) PROVE ~ Reached(p, n, c)
  <2>1. Rank(c) \in Nat /\ Rank(ph) \in Nat /\ Rank(pc[p]) \in Nat
    BY <1>4, RankFacts, WalkFacts
  <2>2. pc[p] = "idle" \/ Rank(pc[p]) < Rank(ph)
    BY <1>2 DEF Walk
  <2> QED
    BY <1>3, <1>5, <2>1, <2>2 DEF Reached
<1>6. ~ AllLeft(n, ph)
  <2>1. p \in Members(n, ph)
    BY <1>4 DEF Occurs, Members
  <2>2. ~ Done(p, n, ph)
    <3>1. ~ Reached(p, n, ph) /\ Rank(ph) \in Nat /\ Rank(pc[p]) \in Nat
      BY <1>4, <1>5, RankFacts, WalkFacts
    <3> QED
      BY <3>1 DEF Done, Reached
  <2>3. p \notin Left(n, ph)
    BY <1>4, <2>2 DEF PsyncInv, LeftInv
  <2> QED
    BY <2>1, <2>3 DEF AllLeft
<1>7. \/ at[q] > n
      \/ at[q] = n /\ (pc[q] \in {"idle", "max"} \/ (pc[q] = "op" /\ log[n].op # "split"))
  BY <1>1 DEF Settled
<1>8. q \in Members(n, ph)
  <2> SUFFICES ASSUME q \notin Members(n, ph) PROVE FALSE
    OBVIOUS
  <2>1. ph = "op" /\ log[n].op = "split"
    BY <1>1 DEF Members
  <2>2. Occurs(q, n, "barrier") /\ Done(q, n, "barrier")
    BY <1>1, <1>3, <1>7, <2>1 DEF Occurs, Done, Rank
  <2>3. q \in Left(n, "barrier")
    BY <2>2 DEF PsyncInv, LeftInv, Phases
  <2>4. AllIn(n, "barrier")
    BY <2>3 DEF PsyncInv, PassedInv
  <2>5. p \in Inside(n, "barrier")
    BY <1>3, <2>4 DEF AllIn, Members
  <2>6. Reached(p, n, "barrier")
    BY <2>5 DEF PsyncInv, InsideInv, Phases
  <2> QED
    BY <1>5, <2>1, <2>6 DEF Rank, Phases
<1>9. Occurs(q, n, ph) /\ Reached(q, n, ph)
  <2>1. Occurs(q, n, ph)
    BY <1>1, <1>4, <1>8 DEF Occurs, Pool
  <2>2. ph = "max" => log[n].op = "split"
    BY <1>4 DEF Occurs
  <2>3. ph \in {"op", "max"}
    BY DEF Pool
  <2> QED
    BY <1>3, <1>7, <2>1, <2>2, <2>3 DEF Reached, Rank
<1>10. q \in Inside(n, ph)
  BY <1>4, <1>9 DEF PsyncInv, InsideInv
<1>11. PICK g \in entered : g.n = n /\ g.ph = ph /\ g.pe = q
  BY <1>10 DEF Inside, Entries
<1>12. g.block = BlockOf(q, n, ph)
  BY <1>11 DEF PsyncInv, BlockInv
<1>13. BlockOf(q, n, ph) = BlockOf(p, n, ph)
  BY <1>1, <1>3, PreSame DEF PsyncInv
<1> QED
  BY <1>1, <1>2, <1>6, <1>11, <1>12, <1>13

(* A step that takes or frees a pSync of the team: no collective with an   *)
(* available block is under way.                                           *)
LEMMA FreeOfCall ==
  ASSUME TeamsInv, PsyncInv, NEW p \in PE, Walk(p), NEW t \in TeamIds,
         Settled(p, t)', ~ Stays(p, p, t), NEW e \in entered, NEW i \in psync_avail'[p][t],
         e.ph \in Pool, On(p, t, e.n), e.n <= at'[p], e.block = chosen_block(Idx(t), i)
  PROVE  AllLeft(e.n, e.ph)
<1>1. PICK n \in 1 .. Len(log) : n = at'[p]
  BY WalkFacts
<1>2. /\ t = log[n].team.id /\ On(p, t, n)
      /\ \/ /\ pc[p] = "barrier" /\ pc'[p] = "idle" /\ log[n].op = "sync"
         \/ /\ pc[p] = "barrier" /\ pc'[p] = "max" /\ log[n].op = "split"
         \/ /\ pc[p] \in {"idle", "quiesce"} /\ pc'[p] = "op" /\ log[n].op \in {"bcast", "reduce"}
  BY <1>1, NotStays
<1>3. /\ e.n \in 1 .. Len(log) /\ e.ph \in Phases /\ e.n \in Nat /\ n \in Nat
      /\ e.pe \in Members(e.n, e.ph) /\ e.pe \in PE
      /\ e.block = BlockOf(e.pe, e.n, e.ph) /\ Occurs(e.pe, e.n, e.ph)
  <2>1. e.n \in 1 .. Len(log) /\ e.ph \in Phases /\ e.pe \in Members(e.n, e.ph) /\ e.pe \in PE
    BY DEF TeamsInv, EntryInv
  <2> QED
    BY <2>1, MemberOccurs, Numbers DEF PsyncInv, BlockInv
<1>4. log[e.n].team = log[n].team
  BY <1>2, <1>3, SameTeam DEF On, PsyncInv
<1>5. PICK x \in 0 .. TEAMS_MAX - 1 : x = Idx(t)
  BY <1>2, IdxOfCall
<1>6. e.pe \in log[n].team.mem /\ p \in log[n].team.mem
  BY <1>2, <1>3, <1>4, MemberOccurs DEF On
<1>7. CASE pc[p] \in {"quiesce", "barrier"} /\ (e.n < n \/ (e.n = n /\ Rank(e.ph) < Rank(pc[p])))
  <2>1. AllIn(n, pc[p])
    BY <1>1, <1>7 DEF Walk
  <2> QED
    BY <1>4, <1>7, <2>1, Flushed
<1>8. CASE pc[p] = "idle" /\ e.n < n
  <2>1. pc'[p] = "op" /\ psync_avail'[p][t] \subseteq psync_avail[p][t]
    <3>1. pc'[p] = "op"
      BY <1>2, <1>8
    <3>2. \/ psync_avail[p][t] = {0, 1} /\ psync_avail'[p][t] = {1}
          \/ psync_avail'[p][t] = {}
      BY <1>1, <1>2, <1>5, <1>8, <3>1, TakesBlock
    <3> QED
      BY <3>1, <3>2
  <2>2. Settled(p, t) /\ i \in psync_avail[p][t]
    BY <1>8, <2>1 DEF Settled
  <2>3. e.n <= at[p]
    BY <1>1, <1>3, <1>8, WalkFacts DEF On
  <2>4. psync_avail[p][t] \subseteq {0, 1}
    BY Numbers
  <2> QED
    BY <2>2, <2>3, <2>4 DEF PsyncInv, FreeInv
<1>9. CASE e.n = n /\ log[n].op = "sync"
  BY <1>3, <1>9 DEF Occurs, Pool
<1>10. CASE e.n = n /\ log[n].op = "split"
  <2>1. pc[p] = "barrier" /\ pc'[p] = "max"
    BY <1>2, <1>10
  <2>2. i = 1
    BY <1>1, <1>2, <2>1 DEF Walk, Takes
  <2>3. e.ph # "max"
    <3> SUFFICES ASSUME e.ph = "max" PROVE FALSE
      OBVIOUS
    <3>1. e.block = chosen_block(x, 0)
      BY <1>2, <1>3, <1>5, <1>10 DEF BlockOf
    <3> QED
      BY <1>5, <2>2, <3>1, BlocksDiffer
  <2>4. e.ph = "op" /\ Rank(e.ph) < Rank(pc[p])
    BY <2>1, <2>3 DEF Pool, Rank
  <2> QED
    BY <1>7, <1>10, <2>1, <2>4
<1>11. CASE e.n = n /\ log[n].op \in {"bcast", "reduce"}
  <2>1. e.ph = "op" /\ pc'[p] = "op"
    BY <1>2, <1>3, <1>11 DEF Occurs, Pool
  <2>2. e.block = OpBlock(p, n)
    <3>1. BlockOf(e.pe, n, "op") = BlockOf(p, n, "op")
      BY <1>6, PreSame DEF PsyncInv
    <3> QED
      BY <1>3, <1>11, <2>1, <3>1 DEF BlockOf
  <2>3. \/ psync_avail'[p][t] = {1} /\ OpBlock(p, n) = chosen_block(x, 0)
        \/ psync_avail'[p][t] = {}
        \/ psync_avail'[p][t] = {1} /\ OpBlock(p, n) = quiesced_block(x)
    BY <1>1, <1>2, <1>5, <2>1, TakesBlock
  <2>4. i = 1 /\ e.block \in {chosen_block(x, 0), quiesced_block(x)}
    BY <2>2, <2>3
  <2> QED
    BY <1>5, <2>4, BlocksDiffer
<1> QED
  BY <1>1, <1>2, <1>3, <1>7, <1>8, <1>9, <1>10, <1>11

(* What a PE finds available nobody of the team is using. *)
LEMMA WalkFree ==
  ASSUME TeamsInv, PsyncInv, NEW p \in PE, Walk(p)
  PROVE  FreeInv'
<1> SUFFICES ASSUME NEW q \in PE, NEW t \in TeamIds, NEW e \in entered', NEW i \in {0, 1},
                    Settled(q, t)', i \in psync_avail'[q][t], e.ph \in Pool,
                    On(q, t, e.n)', e.n <= at'[q], e.block = chosen_block(Idx(t)', i)
             PROVE  AllLeft(e.n, e.ph)'
  BY DEF FreeInv, chosen_block
<1>1. log' = log /\ On(q, t, e.n) /\ Moves(p)
  BY WalkFacts DEF On, Walk
<1>2. e.n \in 1 .. Len(log)
  <2>1. CASE e \in entered
    BY <2>1 DEF TeamsInv, EntryInv
  <2>2. CASE e \notin entered
    BY <2>2, NewEntry, WalkFacts
  <2> QED
    BY <2>1, <2>2
<1>3. Idx(t)' = Idx(t)
  <2>1. Idx(log[e.n].team.id)' = Idx(log[e.n].team.id)
    BY <1>1, <1>2, IdxKept
  <2> QED
    BY <1>1, <2>1 DEF On
<1>4. CASE e \in entered
  <2>1. CASE Stays(p, q, t)
    <3>1. /\ Settled(q, t) /\ psync_avail'[q][t] = psync_avail[q][t] /\ e.n <= at[q]
      BY <1>1, <1>2, <2>1, StaysMeans
    <3>2. AllLeft(e.n, e.ph)
      BY <1>1, <1>3, <1>4, <3>1 DEF PsyncInv, FreeInv
    <3> QED
      BY <3>2, AllLeftStays
  <2>2. CASE ~ Stays(p, q, t)
    <3>1. q = p
      BY <2>2, NotStays
    <3>2. AllLeft(e.n, e.ph)
      BY <1>1, <1>3, <1>4, <2>2, <3>1, FreeOfCall
    <3> QED
      BY <3>2, AllLeftStays
  <2> QED
    BY <2>1, <2>2
<1>5. CASE e \notin entered
  <2>1. /\ e.n = at'[p] /\ e.ph = pc'[p] /\ e.pe = p /\ e.block = BlockOf(p, e.n, pc'[p])
        /\ pc'[p] \in Pool
    BY <1>5, NewEntry
  <2>2. t = log[e.n].team.id /\ q \in log[e.n].team.mem
    BY <1>1 DEF On
  <2>3. CASE q = p
    <3>1. PICK x : x = Idx(t)
      OBVIOUS
    <3>2. CASE pc'[p] = "op"
      <4>1. /\ x \in 0 .. TEAMS_MAX - 1
            /\ \/ psync_avail'[p][t] = {1} /\ OpBlock(p, at'[p]) = chosen_block(x, 0)
               \/ psync_avail'[p][t] = {}
               \/ psync_avail'[p][t] = {1} /\ OpBlock(p, at'[p]) = quiesced_block(x)
        <5>1. t = log[at'[p]].team.id
          BY <2>1, <2>2
        <5> QED
          BY <3>1, <3>2, <5>1, TakesBlock
      <4>2. e.block = OpBlock(p, at'[p])
        BY <2>1, <3>2 DEF BlockOf
      <4>3. i = 1 /\ e.block \in {chosen_block(x, 0), quiesced_block(x)}
        BY <2>3, <4>1, <4>2
      <4> QED
        BY <1>3, <3>1, <4>1, <4>3, BlocksDiffer
    <3>3. CASE pc'[p] = "max"
      <4>1. i = 1
        BY <2>1, <2>2, <2>3, <3>3 DEF Walk, Takes
      <4>2. e.block = chosen_block(x, 0)
        BY <2>1, <2>2, <3>1, <3>3 DEF BlockOf
      <4>3. x \in 0 .. TEAMS_MAX - 1
        BY <1>2, <2>2, <3>1, IdxOfCall
      <4> QED
        BY <1>3, <3>1, <4>1, <4>2, <4>3, BlocksDiffer
    <3> QED
      BY <2>1, <3>2, <3>3 DEF Pool
  <2>4. CASE q # p
    <3>1. at'[q] = at[q] /\ pc'[q] = pc[q]
      BY <2>4, WalkFacts
    <3>2. Settled(q, t)
      BY <1>1, <3>1 DEF Settled
    <3>3. psync_avail'[q][t] = psync_avail[q][t]
      BY <2>4 DEF Walk, Takes
    <3>4. at[q] > e.n \/ at[q] = e.n
      BY <1>2, <3>1, Numbers
    <3>5. PICK g \in entered : /\ g.n = e.n /\ g.ph = e.ph /\ g.pe = q /\ g.block = e.block
                               /\ ~ AllLeft(e.n, e.ph)
      BY <2>1, <2>2, <3>2, <3>4, Latecomer
    <3>6. e.n <= at[q]
      BY <3>1
    <3>7. AllLeft(g.n, g.ph)
      BY <1>1, <1>3, <3>2, <3>3, <3>5, <3>6 DEF PsyncInv, FreeInv
    <3> QED
      BY <3>5, <3>7
  <2> QED
    BY <2>3, <2>4
<1> QED
  BY <1>4, <1>5

(* A PE enters a collective with a block that all are through with. *)
LEMMA WalkClear ==
  ASSUME TeamsInv, PsyncInv, NEW p \in PE, Walk(p)
  PROVE  ClearInv'
<1> SUFFICES ASSUME NEW e \in entered', NEW f \in entered', e.ph \in Pool, f.ph \in Pool,
                    log'[e.n].team = log'[f.n].team, Before(e, f), e.block = f.block
             PROVE  AllLeft(e.n, e.ph)'
  BY DEF ClearInv, Before
<1>1. log' = log /\ log[e.n].team = log[f.n].team
  BY WalkFacts
<1>2. CASE e \in entered /\ f \in entered
  <2>1. AllLeft(e.n, e.ph)
    BY <1>1, <1>2 DEF PsyncInv, ClearInv
  <2> QED
    BY <2>1, AllLeftStays
<1>3. CASE e \in entered /\ f \notin entered
  <2>1. PICK n \in 1 .. Len(log) : n = at'[p]
    BY WalkFacts
  <2>2. /\ f.n = n /\ f.ph = pc'[p] /\ f.block = BlockOf(p, n, pc'[p]) /\ pc'[p] \in Pool
        /\ n \in Nat /\ p \in log[n].team.mem /\ Moves(p)
    BY <1>3, <2>1, NewEntry, WalkFacts DEF Walk
  <2>3. e.n \in 1 .. Len(log) /\ e.n \in Nat /\ e.pe \in Members(e.n, e.ph)
    BY <1>3, Numbers DEF TeamsInv, EntryInv
  <2>4. log[e.n].op # "destroy"
    BY <1>3, <2>3, MemberOccurs
  <2>5. AllLeft(e.n, e.ph)
    <3>1. CASE pc'[p] = "max"
      <4>1. pc[p] = "barrier"
        <5>1. Occurs(p, n, "max")
          BY <2>1, <3>1 DEF Walk, Route
        <5>2. Occurs(p, n, "barrier")
          BY <5>1 DEF Occurs
        <5>3. pc[p] # "idle"
          BY <2>1, <3>1, <5>2 DEF Walk, Route, Rank, Phases
        <5> QED
          BY <2>2, <3>1, <5>3 DEF Moves, Order
      <4>2. AllIn(n, "barrier")
        BY <2>1, <4>1 DEF Walk
      <4>3. e.n < n \/ (e.n = n /\ Rank(e.ph) < Rank("barrier"))
        BY <2>2 DEF Before, Rank
      <4> QED
        BY <1>1, <1>3, <2>2, <4>2, <4>3, Flushed
    <3>2. CASE pc'[p] = "op" /\ pc[p] = "quiesce"
      <4>1. AllIn(n, "quiesce")
        BY <2>1, <3>2 DEF Walk
      <4>2. e.n < n
        BY <2>2, <3>2 DEF Before
      <4> QED
        BY <1>1, <1>3, <2>2, <4>1, <4>2, Flushed
    <3>3. CASE pc'[p] = "op" /\ pc[p] = "idle"
      <4>1. PICK t \in TeamIds : t = log[n].team.id
        BY LogCall DEF TeamsInv
      <4>2. \E i \in {0, 1} : i \in psync_avail[p][t] /\ OpBlock(p, n) = chosen_block(Idx(t), i)
        <5>1. PICK x : x = Idx(t)
          OBVIOUS
        <5>2. \/ psync_avail[p][t] = {0, 1} /\ OpBlock(p, n) = chosen_block(x, 0)
              \/ psync_avail[p][t] = {1} /\ OpBlock(p, n) = chosen_block(x, 1)
          BY <2>1, <3>3, <4>1, <5>1, TakesBlock
        <5> QED
          BY <5>1, <5>2
      <4>3. Settled(p, t)
        BY <3>3 DEF Settled
      <4>4. e.n < n
        BY <2>2, <3>3 DEF Before
      <4>5. On(p, t, e.n) /\ e.n <= at[p]
        BY <1>1, <2>1, <2>2, <2>3, <2>4, <4>1, <4>4, WalkFacts DEF On
      <4>6. e.block = OpBlock(p, n)
        BY <2>2, <3>3 DEF BlockOf
      <4> QED
        BY <1>3, <4>2, <4>3, <4>5, <4>6 DEF PsyncInv, FreeInv
    <3>4. pc'[p] = "op" => pc[p] \in {"idle", "quiesce"}
      BY <2>2 DEF Moves, Order
    <3> QED
      BY <2>2, <3>1, <3>2, <3>3, <3>4 DEF Pool
  <2> QED
    BY <2>5, AllLeftStays
<1>4. CASE e \notin entered /\ f \in entered
  <2>1. e.n = at'[p] /\ e.ph = pc'[p] /\ e.block = BlockOf(p, e.n, pc'[p]) /\ pc'[p] \in Pool
    BY <1>4, NewEntry
  <2>2. /\ f.n \in 1 .. Len(log) /\ f.pe \in PE /\ f.pe \in Members(f.n, f.ph)
        /\ at[f.pe] >= f.n /\ (at[f.pe] = f.n /\ f.ph = "max" => pc[f.pe] \in {"max", "idle"})
    BY <1>4 DEF TeamsInv, EntryInv
  <2>3. f.pe \in log[e.n].team.mem
    BY <1>1, <1>4, <2>2, MemberOccurs
  <2>4. f.n \in Nat /\ e.n \in Nat /\ at[f.pe] \in Nat
    BY <2>1, <2>2, Numbers, WalkFacts
  <2>5. at[f.pe] > e.n \/ (at[f.pe] = e.n /\ Settled(f.pe, log[e.n].team.id))
    BY <2>2, <2>4 DEF Before, Settled
  <2>6. PICK g \in entered : /\ g.n = e.n /\ g.ph = e.ph /\ g.block = e.block
                             /\ ~ AllLeft(e.n, e.ph)
    BY <2>1, <2>2, <2>3, <2>5, Latecomer
  <2>7. Before(g, f)
    BY <2>6 DEF Before
  <2>8. AllLeft(g.n, g.ph)
    BY <1>1, <1>4, <2>6, <2>7 DEF PsyncInv, ClearInv
  <2> QED
    BY <2>6, <2>8
<1>5. CASE e \notin entered /\ f \notin entered
  <2>1. e.n = at'[p] /\ f.n = at'[p] /\ e.ph = f.ph /\ at'[p] \in Nat
    BY <1>5, NewEntry, WalkFacts
  <2> QED
    BY <2>1 DEF Before
<1> QED
  BY <1>2, <1>3, <1>4, <1>5

(* A PE contributes the indices it has not reserved. *)
LEMMA WalkVal ==
  ASSUME TeamsInv, PsyncInv, NEW p \in PE, Walk(p)
  PROVE  ValInv'
<1>1. log' = log /\ Moves(p)
  BY WalkFacts DEF Walk
<1>2. ASSUME NEW r \in PE, NEW m \in 1 .. Len(log), log[m].op = "split", r \in log[m].child,
             Past(r, m), Reserves(m)'
      PROVE  Reserves(m) /\ Idx(m + 1)' = Idx(m + 1)
  <2>1. AllIn(m, "op")
    BY <1>2 DEF TeamsInv, TakenInv
  <2>2. psync_pool_avail_reduced(m)' = psync_pool_avail_reduced(m)
    BY <1>1, <2>1, MovesReserves
  <2>3. (m + 1) - 1 = m
    BY Numbers
  <2> QED
    BY <1>2, <2>1, <2>2, <2>3 DEF Reserves, Idx
<1> SUFFICES ASSUME NEW e \in entered', e.ph = "op", log[e.n].op = "split"
             PROVE  /\ e.val \cap Default = {}
                    /\ \A m \in 1 .. e.n - 1 :
                         /\ log[m].op = "split" /\ e.pe \in log[m].child /\ Reserves(m)'
                         /\ Idx(m + 1)' \in e.val
                         => \E d \in 1 .. Len(log) : /\ d <= at'[e.pe] /\ log[d].op = "destroy"
                                                     /\ log[d].team.id = m + 1
  BY <1>1 DEF ValInv
<1>3. CASE e \in entered
  <2>1. /\ e.n \in 1 .. Len(log) /\ e.pe \in PE /\ at[e.pe] >= e.n
    BY <1>3 DEF TeamsInv, EntryInv
  <2>2. ASSUME NEW m \in 1 .. e.n - 1, log[m].op = "split", e.pe \in log[m].child, Reserves(m)',
               Idx(m + 1)' \in e.val
        PROVE  \E d \in 1 .. Len(log) : /\ d <= at'[e.pe] /\ log[d].op = "destroy"
                                        /\ log[d].team.id = m + 1
    <3>1. m \in 1 .. Len(log) /\ m \in Nat /\ e.n \in Nat /\ at[e.pe] \in Nat /\ m < e.n
      BY <2>1, Numbers
    <3>2. Past(e.pe, m)
      BY <2>1, <3>1 DEF Past
    <3>3. Reserves(m) /\ Idx(m + 1) \in e.val
      BY <1>2, <2>1, <2>2, <3>1, <3>2
    <3>4. PICK d \in 1 .. Len(log) : /\ d <= at[e.pe] /\ log[d].op = "destroy"
                                     /\ log[d].team.id = m + 1
      BY <1>3, <2>2, <3>3 DEF PsyncInv, ValInv
    <3>5. at[e.pe] <= at'[e.pe] /\ at'[e.pe] \in Nat
      BY <2>1, <3>1, WalkFacts
    <3>6. d <= at'[e.pe]
      BY <3>1, <3>4, <3>5, Numbers
    <3> QED
      BY <3>4, <3>6
  <2>3. e.val \cap Default = {}
    BY <1>3 DEF PsyncInv, ValInv
  <2> QED
    BY <2>2, <2>3
<1>4. CASE e \notin entered
  <2>1. e.n = at'[p] /\ e.pe = p /\ e.val = avail[p] /\ e.n \in 1 .. Len(log)
    BY <1>4, NewEntry, WalkFacts
  <2>2. avail[p] = (0 .. TEAMS_MAX - 1) \ {psync_idx[p][t] : t \in TeamIds}
    BY DEF TeamsInv, PsyncOwnership
  <2>3. \A t \in Default : t \in TeamIds /\ psync_idx[p][t] = t
    BY TeamsAssumption DEF TeamsInv, HeldInv, Default, TeamIds, SHMEM_TEAM_WORLD, SHMEM_TEAM_SHARED
  <2>4. e.val \cap Default = {}
    BY <2>1, <2>2, <2>3
  <2>5. ASSUME NEW m \in 1 .. e.n - 1, log[m].op = "split", p \in log[m].child, Reserves(m)',
               Idx(m + 1)' \in avail[p]
        PROVE  \E d \in 1 .. Len(log) : /\ d <= at'[p] /\ log[d].op = "destroy"
                                        /\ log[d].team.id = m + 1
    <3>1. /\ m \in 1 .. Len(log) /\ m \in Nat /\ e.n \in Nat /\ m < e.n /\ at[p] \in Nat
          /\ at'[p] \in Nat /\ at[p] <= at'[p]
      BY <2>1, Numbers, WalkFacts
    <3>2. p \in log[m].team.mem
      BY <2>5, <3>1, LogCall DEF TeamsInv, SoundCall
    <3>3. Past(p, m)
      <4>1. m < at[p] \/ (m = at[p] /\ pc[p] = "idle")
        BY <2>1, <3>1, <3>2, WalkFacts
      <4> QED
        BY <3>1, <4>1 DEF Past
    <3>4. Reserves(m) /\ Idx(m + 1) \in avail[p]
      BY <1>2, <2>5, <3>1, <3>3
    <3>5. m + 1 \in TeamIds \ Default /\ (m + 1) - 1 = m
      BY <3>1, LogCall, TeamsAssumption
         DEF TeamsInv, TeamIds, Default, SHMEM_TEAM_WORLD, SHMEM_TEAM_SHARED
    <3>6. psync_idx[p][m + 1] = None
      <4> SUFFICES ASSUME psync_idx[p][m + 1] # None PROVE FALSE
        OBVIOUS
      <4>1. Held(p, m + 1)
        BY <3>5 DEF TeamsInv, HeldInv
      <4>2. psync_idx[p][m + 1] = Idx(m + 1)
        BY <3>5, <4>1 DEF Held, Idx
      <4> QED
        BY <2>2, <3>4, <3>5, <4>2
    <3>7. PICK d \in 1 .. Len(log) : /\ d <= at[p] /\ log[d].op = "destroy"
                                     /\ log[d].team.id = m + 1
      BY <2>5, <3>1, <3>3, <3>4, <3>6 DEF TeamsInv, TakenInv, Reserves
    <3>8. d <= at'[p]
      BY <3>1, <3>7, Numbers
    <3> QED
      BY <3>7, <3>8
  <2> QED
    BY <2>1, <2>4, <2>5
<1> QED
  BY <1>3, <1>4

(* A step of a PE in the calls of the log keeps the invariant. *)
LEMMA StepKeeps ==
  ASSUME TeamsInv, PsyncInv, NEW p \in PE, step(p)
  PROVE  PsyncInv'
<1>1. Walk(p)
  BY StepWalks
<1> QED
  BY <1>1, WalkInside, WalkLeft, WalkPassed, WalkBlocks, WalkAvail, WalkFree, WalkClear, WalkVal
     DEF PsyncInv

-----------------------------------------------------------------------------
(* The program appends a call: nothing that has happened changes.          *)
LEMMA ProgramKeeps ==
  ASSUME TeamsInv, PsyncInv, NEW p \in PE, program(p)
  PROVE  PsyncInv'
<1>1. PICK c \in Calls(p) : log' = Append(log, c)
  BY DEF program
<1>2. UNCHANGED << at, pc, avail, psync_idx, psync_avail, entered, left, ret >>
  BY DEF program
<1>3. c.team \in Handles(p) /\ c \in AnyCall
  BY ProgramCall
<1>4. PICK N \in Nat : N = Len(log)
  BY Numbers
<1>5. /\ Len(log') = N + 1 /\ log'[N + 1] = c
      /\ \A n \in 1 .. N : log'[n] = log[n] /\ n \in 1 .. N + 1
  BY <1>1, <1>3, <1>4 DEF TeamsInv, LogInv
<1>6. \A n, ph : /\ Entries(n, ph)' = Entries(n, ph) /\ Inside(n, ph)' = Inside(n, ph)
                 /\ Left(n, ph)' = Left(n, ph)
  <2>1. \A n, ph : Entries(n, ph)' = Entries(n, ph) /\ Left(n, ph)' = Left(n, ph)
    BY <1>2 DEF Entries, Left
  <2> QED
    BY <2>1 DEF Inside
<1>7. ASSUME NEW n \in 1 .. N
      PROVE  \A ph : /\ Members(n, ph)' = Members(n, ph) /\ AllIn(n, ph)' = AllIn(n, ph)
                     /\ AllLeft(n, ph)' = AllLeft(n, ph)
  <2>1. \A ph : Members(n, ph)' = Members(n, ph)
    BY <1>5 DEF Members
  <2> QED
    BY <2>1, <1>6 DEF AllIn, AllLeft
<1>8. \A n : psync_pool_avail_reduced(n)' = psync_pool_avail_reduced(n)
  BY <1>6 DEF psync_pool_avail_reduced
<1>9. \A t : Idx(t)' = Idx(t)
  BY <1>8 DEF Idx
<1>10. ASSUME NEW q, NEW t, NEW m \in 1 .. N
       PROVE  On(q, t, m)' = On(q, t, m) /\ Fin(m)' = Fin(m)
  <2>1. On(q, t, m)' = On(q, t, m)
    BY <1>5 DEF On
  <2>2. Idx(log[m].team.id)' = Idx(log[m].team.id)
    BY <1>5, <1>8 DEF Idx
  <2>3. Fin(m)' = Fin(m)
    BY <1>5, <1>6, <2>2 DEF Fin, chosen_block
  <2> QED
    BY <2>1, <2>3
<1>11. ASSUME NEW q, NEW t, NEW k, k <= N, k \in Nat PROVE Pre(q, t, k)' = Pre(q, t, k)
  <2>1. \A m \in 1 .. N + 1 : m <= k => m \in 1 .. N
    BY <1>11
  <2>2. \A m \in 1 .. N : m \in 1 .. N + 1
    BY <1>5
  <2>3. ASSUME NEW m \in 1 .. N
        PROVE  (\A j \in 1 .. N + 1 : On(q, t, j)' /\ j <= k => j <= m)
               <=> (\A j \in 1 .. N : On(q, t, j) /\ j <= k => j <= m)
    BY <1>10, <2>1, <2>2
  <2>4. ASSUME NEW i \in {0, 1} PROVE i \in Pre(q, t, k)' <=> i \in Pre(q, t, k)
    <3>1. i \in Pre(q, t, k)' <=>
            \A m \in 1 .. N + 1 :
              /\ On(q, t, m)' /\ m <= k
              /\ \A j \in 1 .. N + 1 : On(q, t, j)' /\ j <= k => j <= m
              => i \in Fin(m)'
      BY <1>5 DEF Pre
    <3>2. i \in Pre(q, t, k) <=>
            \A m \in 1 .. N :
              /\ On(q, t, m) /\ m <= k
              /\ \A j \in 1 .. N : On(q, t, j) /\ j <= k => j <= m
              => i \in Fin(m)
      BY <1>4 DEF Pre
    <3> QED
      BY <1>10, <2>1, <2>2, <2>3, <3>1, <3>2
  <2>5. Pre(q, t, k) \subseteq {0, 1} /\ Pre(q, t, k)' \subseteq {0, 1}
    BY DEF Pre
  <2> QED
    BY <2>4, <2>5
<1>12. ASSUME NEW q, NEW n \in 1 .. N, NEW ph
       PROVE  Occurs(q, n, ph)' = Occurs(q, n, ph) /\ BlockOf(q, n, ph)' = BlockOf(q, n, ph)
  <2>1. PICK t : t = log[n].team.id
    OBVIOUS
  <2>2. log'[n] = log[n] /\ Members(n, "op")' = Members(n, "op")
    BY <1>5, <1>7
  <2>3. Pre(q, t, n - 1)' = Pre(q, t, n - 1)
    BY <1>11
  <2>4. Pre(q, log[n].team.id, n - 1)' = Pre(q, log[n].team.id, n - 1)
    BY <2>1, <2>2, <2>3
  <2>5. Idx(log[n].team.id)' = Idx(log[n].team.id)
    BY <1>9, <2>1, <2>2
  <2>6. Occurs(q, n, ph)' = Occurs(q, n, ph)
    BY <2>2, <2>4 DEF Occurs
  <2>7. OpBlock(q, n)' = OpBlock(q, n)
    BY <2>4, <2>5 DEF OpBlock, chosen_block, quiesced_block
  <2> QED
    BY <2>5, <2>6, <2>7 DEF BlockOf, barrier_block, chosen_block
<1>13. /\ \A q, n, ph : Reached(q, n, ph)' = Reached(q, n, ph) /\ Done(q, n, ph)' = Done(q, n, ph)
       /\ \A q \in PE : at[q] \in Nat /\ at[q] <= N
  BY <1>2, <1>4, Numbers DEF Reached, Done
<1>14. ASSUME NEW q \in PE, NEW t PROVE Settled(q, t)' = Settled(q, t)
  <2>1. CASE at[q] \in 1 .. N
    BY <1>2, <1>5, <2>1 DEF Settled
  <2>2. CASE at[q] = 0
    BY <1>2, <2>2 DEF Settled, TeamsInv, PlaceInv
  <2> QED
    BY <1>13, <2>1, <2>2
<1>15. \A e \in entered : e.n \in 1 .. N /\ e.pe \in PE
  BY <1>4 DEF TeamsInv, EntryInv
<1>16. SharedInv'
  <2>1. \/ c.team \in {World, SharedOf(p)}
        \/ c.team.id \notin Default
    BY <1>3, HandleTeam
  <2>2. /\ c.team.id = SHMEM_TEAM_WORLD => c.team.mem = PE
        /\ c.team.id = SHMEM_TEAM_SHARED => c.team.mem \in Nodes
    <3>1. CASE c.team = World
      BY <3>1 DEF World, SHMEM_TEAM_WORLD, SHMEM_TEAM_SHARED
    <3>2. CASE c.team = SharedOf(p)
      <4>1. \E A \in Nodes : p \in A
        BY TeamsAssumption
      <4>2. c.team.id = 1 /\ c.team.mem \in Nodes
        BY <3>2, <4>1 DEF SharedOf, SHMEM_TEAM_SHARED
      <4> QED
        BY <4>2 DEF SHMEM_TEAM_WORLD
    <3>3. CASE c.team.id \notin Default
      BY <3>3 DEF Default
    <3> QED
      BY <2>1, <3>1, <3>2, <3>3
  <2>3. ASSUME NEW n \in 1 .. N + 1
        PROVE  /\ log'[n].team.id = SHMEM_TEAM_WORLD => log'[n].team.mem = PE
               /\ log'[n].team.id = SHMEM_TEAM_SHARED => log'[n].team.mem \in Nodes
    <3>1. CASE n \in 1 .. N
      BY <1>4, <1>5, <3>1 DEF PsyncInv, SharedInv
    <3>2. CASE n = N + 1
      BY <1>5, <2>2, <3>2
    <3> QED
      BY <1>4, <3>1, <3>2
  <2> QED
    BY <1>5, <2>3 DEF SharedInv
<1>17. InsideInv'
  <2> SUFFICES ASSUME NEW q \in PE, NEW n \in 1 .. N + 1, NEW ph \in Phases
               PROVE  q \in Inside(n, ph)' <=> Occurs(q, n, ph)' /\ Reached(q, n, ph)'
    BY <1>5 DEF InsideInv
  <2>1. CASE n \in 1 .. N
    BY <1>4, <1>6, <1>12, <1>13, <2>1 DEF PsyncInv, InsideInv
  <2>2. CASE n = N + 1
    <3>1. ~ Reached(q, n, ph)
      BY <1>13, <2>2 DEF Reached
    <3>2. q \notin Inside(n, ph)
      BY <1>15, <2>2 DEF Inside, Entries
    <3> QED
      BY <1>6, <1>13, <3>1, <3>2
  <2> QED
    BY <2>1, <2>2
<1>18. LeftInv'
  <2> SUFFICES ASSUME NEW q \in PE, NEW n \in 1 .. N + 1, NEW ph \in Phases
               PROVE  q \in Left(n, ph)' <=> Occurs(q, n, ph)' /\ Done(q, n, ph)'
    BY <1>5 DEF LeftInv
  <2>1. CASE n \in 1 .. N
    BY <1>4, <1>6, <1>12, <1>13, <2>1 DEF PsyncInv, LeftInv
  <2>2. CASE n = N + 1
    <3>1. ~ Done(q, n, ph)
      BY <1>13, <2>2 DEF Done
    <3>2. q \notin Left(n, ph)
      BY <1>4, <2>2 DEF Left, PsyncInv, PassedInv
    <3> QED
      BY <1>6, <1>13, <3>1, <3>2
  <2> QED
    BY <2>1, <2>2
<1>19. PassedInv'
  <2>1. ASSUME NEW q \in PE, NEW n \in 1 .. N + 1, NEW ph \in {"quiesce", "barrier"},
               q \in Left(n, ph)
        PROVE  AllIn(n, ph)'
    <3>1. n \in 1 .. N
      BY <1>4, <2>1 DEF Left, PsyncInv, PassedInv
    <3> QED
      BY <1>4, <1>7, <2>1, <3>1 DEF PsyncInv, PassedInv
  <2>2. \A x \in left : x.n \in 1 .. N + 1
    BY <1>4, <1>5 DEF PsyncInv, PassedInv
  <2> QED
    BY <1>2, <1>5, <1>6, <2>1, <2>2 DEF PassedInv
<1>20. BlockInv'
  BY <1>2, <1>12, <1>15 DEF PsyncInv, BlockInv
<1>21. AvailInv'
  <2> SUFFICES ASSUME NEW q \in PE, NEW t \in TeamIds, Settled(q, t)
               PROVE  psync_avail'[q][t] = Pre(q, t, at[q])'
    BY <1>14 DEF AvailInv
  <2>1. PICK k : k = at[q]
    OBVIOUS
  <2>2. Pre(q, t, k)' = Pre(q, t, k)
    BY <1>11, <1>13, <2>1
  <2> QED
    BY <1>2, <2>1, <2>2 DEF PsyncInv, AvailInv
<1>22. FreeInv'
  <2> SUFFICES ASSUME NEW q \in PE, NEW t \in TeamIds, NEW e \in entered, NEW i \in {0, 1},
                      Settled(q, t)', i \in psync_avail'[q][t], e.ph \in Pool,
                      On(q, t, e.n)', e.n <= at'[q], e.block = chosen_block(Idx(t)', i)
               PROVE  AllLeft(e.n, e.ph)'
    BY <1>2 DEF FreeInv, chosen_block
  <2>1. e.n \in 1 .. N
    BY <1>15
  <2>2. Settled(q, t) /\ On(q, t, e.n) /\ Idx(t)' = Idx(t)
    BY <1>9, <1>10, <1>14, <2>1
  <2>3. AllLeft(e.n, e.ph)
    BY <1>2, <2>2 DEF PsyncInv, FreeInv
  <2> QED
    BY <1>7, <2>1, <2>3
<1>23. ClearInv'
  <2> SUFFICES ASSUME NEW e \in entered, NEW f \in entered, e.ph \in Pool, f.ph \in Pool,
                      log'[e.n].team = log'[f.n].team, Before(e, f), e.block = f.block
               PROVE  AllLeft(e.n, e.ph)'
    BY <1>2 DEF ClearInv, Before
  <2>1. log[e.n].team = log[f.n].team /\ e.n \in 1 .. N
    BY <1>5, <1>15
  <2>2. AllLeft(e.n, e.ph)
    BY <2>1 DEF PsyncInv, ClearInv
  <2> QED
    BY <1>7, <2>1, <2>2
<1>24. ValInv'
  <2> SUFFICES ASSUME NEW e \in entered, e.ph = "op", log'[e.n].op = "split"
               PROVE  /\ e.val \cap Default = {}
                      /\ \A m \in 1 .. e.n - 1 :
                           /\ log'[m].op = "split" /\ e.pe \in log'[m].child /\ Reserves(m)'
                           /\ Idx(m + 1)' \in e.val
                           => \E d \in 1 .. N + 1 : /\ d <= at[e.pe] /\ log'[d].op = "destroy"
                                                    /\ log'[d].team.id = m + 1
    BY <1>2, <1>5 DEF ValInv
  <2>1. e.n \in 1 .. N /\ log[e.n].op = "split"
    BY <1>5, <1>15
  <2>2. ASSUME NEW m \in 1 .. e.n - 1, log'[m].op = "split", e.pe \in log'[m].child,
               Reserves(m)', Idx(m + 1)' \in e.val
        PROVE  \E d \in 1 .. N + 1 : /\ d <= at[e.pe] /\ log'[d].op = "destroy"
                                     /\ log'[d].team.id = m + 1
    <3>1. m \in 1 .. N
      BY <1>4, <2>1
    <3>2. Reserves(m) /\ log[m].op = "split" /\ e.pe \in log[m].child /\ Idx(m + 1) \in e.val
      BY <1>5, <1>7, <1>8, <1>9, <2>2, <3>1 DEF Reserves
    <3>3. PICK d \in 1 .. N : /\ d <= at[e.pe] /\ log[d].op = "destroy"
                              /\ log[d].team.id = m + 1
      BY <1>4, <2>1, <3>2 DEF PsyncInv, ValInv
    <3> QED
      BY <1>5, <3>3
  <2> QED
    BY <2>1, <2>2 DEF PsyncInv, ValInv
<1> QED
  BY <1>16, <1>17, <1>18, <1>19, <1>20, <1>21, <1>22, <1>23, <1>24 DEF PsyncInv

-----------------------------------------------------------------------------
(* Before the first call both pSyncs of every team are available. *)
LEMMA PsyncInit == Init => PsyncInv
<1> SUFFICES ASSUME Init PROVE PsyncInv
  OBVIOUS
<1> USE DEF Init
<1>1. log = << >> /\ Len(log) = 0 /\ 1 .. Len(log) = {} /\ entered = {} /\ left = {}
  OBVIOUS
<1>2. SharedInv /\ InsideInv /\ LeftInv /\ PassedInv
  BY <1>1 DEF SharedInv, InsideInv, LeftInv, PassedInv
<1>3. BlockInv /\ FreeInv /\ ClearInv /\ ValInv
  BY <1>1 DEF BlockInv, FreeInv, ClearInv, ValInv
<1>4. AvailInv
  <2> SUFFICES ASSUME NEW p \in PE, NEW t \in TeamIds
               PROVE  psync_avail[p][t] = Pre(p, t, at[p])
    BY DEF AvailInv
  <2>1. Pre(p, t, at[p]) = {0, 1}
    BY <1>1 DEF Pre
  <2> QED
    BY <2>1
<1> QED
  BY <1>2, <1>3, <1>4 DEF PsyncInv

(* Nothing changes. *)
LEMMA PsyncStutter == PsyncInv /\ UNCHANGED vars => PsyncInv'
<1> SUFFICES ASSUME PsyncInv, UNCHANGED vars PROVE PsyncInv'
  OBVIOUS
<1> USE DEF vars
<1>1. \A n, ph : /\ Members(n, ph)' = Members(n, ph) /\ Entries(n, ph)' = Entries(n, ph)
                 /\ Left(n, ph)' = Left(n, ph)
  BY DEF Members, Entries, Left
<1>2. \A n, ph : Inside(n, ph)' = Inside(n, ph)
  BY <1>1 DEF Inside
<1>3. \A n, ph : AllIn(n, ph)' = AllIn(n, ph) /\ AllLeft(n, ph)' = AllLeft(n, ph)
  BY <1>1, <1>2 DEF AllIn, AllLeft
<1>4. \A n : psync_pool_avail_reduced(n)' = psync_pool_avail_reduced(n)
  BY <1>1 DEF psync_pool_avail_reduced
<1>5. \A n : Reserves(n)' = Reserves(n)
  BY <1>3, <1>4 DEF Reserves
<1>6. \A t : Idx(t)' = Idx(t)
  BY <1>4 DEF Idx
<1>7. \A q, t, m : On(q, t, m)' = On(q, t, m)
  BY DEF On
<1>8. ASSUME NEW m PROVE Fin(m)' = Fin(m)
  <2>1. Idx(log[m].team.id)' = Idx(log[m].team.id)
    BY <1>4 DEF Idx
  <2> QED
    BY <1>1, <2>1 DEF Fin, chosen_block
<1>9. \A q, t, k : Pre(q, t, k)' = Pre(q, t, k)
  BY <1>7, <1>8 DEF Pre
<1>10. ASSUME NEW q, NEW n, NEW ph
       PROVE  Occurs(q, n, ph)' = Occurs(q, n, ph) /\ BlockOf(q, n, ph)' = BlockOf(q, n, ph)
  <2>1. PICK t : t = log[n].team.id
    OBVIOUS
  <2>2. Pre(q, t, n - 1)' = Pre(q, t, n - 1)
    BY <1>9
  <2>3. Pre(q, log[n].team.id, n - 1)' = Pre(q, log[n].team.id, n - 1)
    BY <2>1, <2>2
  <2>4. Idx(log[n].team.id)' = Idx(log[n].team.id)
    BY <1>6, <2>1
  <2>5. Occurs(q, n, ph)' = Occurs(q, n, ph)
    BY <1>1, <2>3 DEF Occurs
  <2>6. OpBlock(q, n)' = OpBlock(q, n)
    BY <2>3, <2>4 DEF OpBlock, chosen_block, quiesced_block
  <2> QED
    BY <2>4, <2>5, <2>6 DEF BlockOf, barrier_block, chosen_block
<1>11. \A q, n, ph : Reached(q, n, ph)' = Reached(q, n, ph) /\ Done(q, n, ph)' = Done(q, n, ph)
  BY DEF Reached, Done
<1>12. \A q, t : Settled(q, t)' = Settled(q, t)
  BY DEF Settled
<1>13. SharedInv' /\ InsideInv' /\ LeftInv' /\ PassedInv'
  BY <1>1, <1>2, <1>3, <1>10, <1>11 DEF PsyncInv, SharedInv, InsideInv, LeftInv, PassedInv
<1>14. BlockInv'
  BY <1>10 DEF PsyncInv, BlockInv
<1>15. AvailInv'
  <2> SUFFICES ASSUME NEW q \in PE, NEW t \in TeamIds, Settled(q, t)
               PROVE  psync_avail'[q][t] = Pre(q, t, at[q])'
    BY <1>12 DEF AvailInv
  <2>1. PICK k : k = at[q]
    OBVIOUS
  <2>2. Pre(q, t, k)' = Pre(q, t, k)
    BY <1>9
  <2> QED
    BY <2>1, <2>2 DEF PsyncInv, AvailInv
<1>16. FreeInv'
  BY <1>3, <1>6, <1>7, <1>12 DEF PsyncInv, FreeInv, chosen_block
<1>17. ClearInv'
  BY <1>3 DEF PsyncInv, ClearInv, Before
<1>18. ValInv'
  BY <1>5, <1>6 DEF PsyncInv, ValInv
<1> QED
  BY <1>13, <1>14, <1>15, <1>16, <1>17, <1>18 DEF PsyncInv

(* The invariant holds throughout. *)
LEMMA PsyncInvariant == Spec => [](TeamsInv /\ PsyncInv)
<1>1. Init => PsyncInv
  BY PsyncInit
<1>2. TeamsInv /\ PsyncInv /\ [Next]_vars => PsyncInv'
  <2> SUFFICES ASSUME TeamsInv, PsyncInv, [Next]_vars PROVE PsyncInv'
    OBVIOUS
  <2>1. CASE UNCHANGED vars
    BY <2>1, PsyncStutter
  <2>2. ASSUME NEW p \in PE, program(p) \/ step(p) PROVE PsyncInv'
    BY <2>2, ProgramKeeps, StepKeeps
  <2> QED
    BY <2>1, <2>2 DEF Next
<1> QED
  BY <1>1, <1>2, TeamsInvariant, PTL DEF Spec

-----------------------------------------------------------------------------
(* A team has got the index of an earlier one that r was in only because r *)
(* had destroyed that one, and so was through with its collectives.        *)
LEMMA LaterTeam ==
  ASSUME TeamsInv, PsyncInv, NEW e \in entered, NEW f \in entered,
         NEW r \in Members(e.n, e.ph), r \in Members(f.n, f.ph),
         log[f.n].team.id \notin Default,
         log[e.n].team.id \in Default \/ log[e.n].team.id < log[f.n].team.id,
         Idx(log[e.n].team.id) = Idx(log[f.n].team.id)
  PROVE  r \in Left(e.n, e.ph)
<1>1. /\ e.n \in 1 .. Len(log) /\ f.n \in 1 .. Len(log) /\ e.n \in Nat /\ f.n \in Nat
      /\ e.ph \in Phases
  BY Numbers DEF TeamsInv, EntryInv
<1>2. /\ Occurs(r, e.n, e.ph) /\ r \in log[e.n].team.mem /\ r \in PE
      /\ log[e.n].op # "destroy" /\ r \in log[f.n].team.mem
  BY MemberOccurs
<1>3. /\ log[e.n].team.id \in TeamIds /\ log[f.n].team.id \in TeamIds
      /\ SoundCall(e.n) /\ at[r] \in Nat
  BY <1>1, <1>2, LogCall, Numbers DEF TeamsInv
<1>4. PICK k \in 1 .. f.n - 1 : k = log[f.n].team.id - 1
  BY <1>1, IdxOfCall
<1>5. /\ k \in 1 .. Len(log) /\ k \in Nat /\ Reserves(k) /\ log[k].op = "split"
      /\ r \in log[k].child /\ log[f.n].team.id = k + 1
  <2>1. Reserves(k) /\ log[k].op = "split" /\ r \in log[k].child
    BY <1>1, <1>2, <1>4, IdxOfCall
  <2>2. PICK u \in Nat : u = log[f.n].team.id
    BY <1>3 DEF TeamIds
  <2>3. u = k + 1 /\ k \in Nat
    BY <1>1, <1>4, <2>2
  <2>4. k \in 1 .. Len(log)
    BY <1>1, <1>4, Numbers
  <2> QED
    BY <2>1, <2>2, <2>3, <2>4
<1>6. PICK g \in entered : g.n = k /\ g.ph = "op" /\ g.pe = r
  <2>1. r \in Inside(k, "op")
    BY <1>5 DEF Reserves, AllIn, Members
  <2> QED
    BY <2>1 DEF Inside, Entries
<1>7. Idx(k + 1) \in g.val
  <2>1. Idx(k + 1) = Min(psync_pool_avail_reduced(k))
    BY <1>4, <1>5 DEF Idx
  <2>2. /\ psync_pool_avail_reduced(k) # {} /\ psync_pool_avail_reduced(k) \subseteq Nat
    BY <1>5, Numbers DEF Reserves, psync_pool_avail_reduced
  <2>3. Min(psync_pool_avail_reduced(k)) \in psync_pool_avail_reduced(k)
    BY <2>2, MinIsLeast
  <2>4. g \in Entries(k, "op")
    BY <1>6 DEF Entries
  <2> QED
    BY <2>1, <2>3, <2>4 DEF psync_pool_avail_reduced
<1>8. log[e.n].team.id \notin Default
  <2> SUFFICES ASSUME log[e.n].team.id \in Default PROVE FALSE
    OBVIOUS
  <2>1. Idx(log[e.n].team.id) \in Default
    BY DEF Idx
  <2>2. g.val \cap Default = {}
    BY <1>5, <1>6 DEF PsyncInv, ValInv
  <2> QED
    BY <1>5, <1>7, <2>1, <2>2
<1>9. PICK m \in 1 .. e.n - 1 : m = log[e.n].team.id - 1
  BY <1>1, <1>8, IdxOfCall
<1>10. /\ m \in Nat /\ Reserves(m) /\ log[m].op = "split" /\ r \in log[m].child
       /\ log[e.n].team.id = m + 1 /\ m \in 1 .. k - 1
  <2>1. Reserves(m) /\ log[m].op = "split" /\ r \in log[m].child
    BY <1>1, <1>2, <1>8, <1>9, IdxOfCall
  <2>2. PICK u \in Nat : u = log[e.n].team.id
    BY <1>3 DEF TeamIds
  <2>3. u = m + 1 /\ m \in Nat /\ m >= 1
    BY <1>1, <1>9, <2>2
  <2>4. u < k + 1
    BY <1>5, <1>8, <2>2
  <2> QED
    BY <1>5, <2>1, <2>2, <2>3, <2>4
<1>11. PICK d \in 1 .. Len(log) : d <= at[r] /\ log[d].op = "destroy" /\ log[d].team.id = m + 1
  BY <1>5, <1>6, <1>7, <1>10 DEF PsyncInv, ValInv
<1>12. e.n < d /\ d \in Nat
  <2>1. d # e.n /\ d \in Nat
    BY <1>2, <1>11, Numbers
  <2>2. d \notin 1 .. e.n - 1
    BY <1>3, <1>10, <1>11 DEF SoundCall
  <2> QED
    BY <1>1, <1>11, <2>1, <2>2
<1>13. Done(r, e.n, e.ph)
  BY <1>1, <1>3, <1>11, <1>12 DEF Done
<1> QED
  BY <1>1, <1>2, <1>13 DEF PsyncInv, LeftInv

(* All who enter one collective do so on one pSync block, and no block is  *)
(* used for two collectives at once at any PE as long as each team's index *)
(* is its own: alternating between two blocks, quiescing the team before   *)
(* the first is used again, and giving an index to a new team only after   *)
(* all its members have destroyed the one that had it, are enough, for any *)
(* number of PEs and blocks and any program (choose_psync, release_psyncs, *)
(* shmem_internal_team_split_strided).                                     *)
THEOREM CollectivesOwnTheirPsync == Spec => []OwnPsyncSafe
<1>1. TeamsInv /\ PsyncInv => OwnPsyncSafe
  <2> SUFFICES ASSUME TeamsInv, PsyncInv, NEW e \in entered, NEW f \in entered
               PROVE  /\ e.n = f.n /\ e.ph = f.ph => e.block = f.block
                      /\ idx_of(e) = idx_of(f) => ~ Collide(e, f)
    BY DEF OwnPsyncSafe
  <2>1. /\ e.n \in 1 .. Len(log) /\ f.n \in 1 .. Len(log) /\ e.n \in Nat /\ f.n \in Nat
        /\ e.ph \in Phases /\ f.ph \in Phases
        /\ e.pe \in Members(e.n, e.ph) /\ f.pe \in Members(f.n, f.ph)
        /\ e.block = BlockOf(e.pe, e.n, e.ph) /\ f.block = BlockOf(f.pe, f.n, f.ph)
    BY Numbers DEF TeamsInv, EntryInv, PsyncInv, BlockInv
  <2>2. ASSUME e.n = f.n, e.ph = f.ph PROVE e.block = f.block
    <3>1. e.pe \in log[e.n].team.mem /\ f.pe \in log[e.n].team.mem
      BY <2>1, <2>2, MemberOccurs
    <3> QED
      BY <2>1, <2>2, <3>1, PreSame DEF PsyncInv
  <2>3. ASSUME idx_of(e) = idx_of(f), Collide(e, f) PROVE FALSE
    <3>1. PICK r : /\ r \in Members(e.n, e.ph) /\ r \notin Left(e.n, e.ph)
                   /\ r \in Members(f.n, f.ph) /\ r \notin Left(f.n, f.ph)
      BY <2>3 DEF Collide
    <3>2. r \in log[e.n].team.mem /\ r \in log[f.n].team.mem
      BY <3>1, MemberOccurs
    <3>3. Idx(log[e.n].team.id) = Idx(log[f.n].team.id)
      BY <2>3 DEF idx_of, Idx, Default
    <3>4. PICK x \in 0 .. TEAMS_MAX - 1 : x = Idx(log[e.n].team.id)
      BY <2>1, IdxOfCall
    <3>5. ASSUME NEW g \in {e, f}
          PROVE  IF g.ph \in Pool
                 THEN g.block \in {chosen_block(x, 0), chosen_block(x, 1), quiesced_block(x)}
                 ELSE g.block = barrier_block(x) /\ g.ph \in {"quiesce", "barrier"}
      <4>1. g.block = BlockOf(g.pe, g.n, g.ph) /\ g.ph \in Phases /\ Idx(log[g.n].team.id) = x
        BY <2>1, <3>3, <3>4
      <4> QED
        BY <4>1 DEF BlockOf, OpBlock, Pool, Phases
    <3>6. e.block = f.block /\ << e.n, e.ph >> # << f.n, f.ph >>
      BY <2>3 DEF Collide
    <3>7. CASE log[e.n].team.id = log[f.n].team.id
      <4>1. log[e.n].team = log[f.n].team
        BY <2>1, <3>2, <3>7, SameTeam DEF PsyncInv
      <4>2. CASE e.ph \notin Pool /\ f.ph \notin Pool
        BY <2>3, <3>5, <4>1, <4>2 DEF Collide
      <4>3. CASE (e.ph \in Pool /\ f.ph \notin Pool) \/ (e.ph \notin Pool /\ f.ph \in Pool)
        BY <3>5, <3>6, <4>3, BlocksDiffer
      <4>4. CASE e.ph \in Pool /\ f.ph \in Pool
        <5>1. Before(e, f) \/ Before(f, e)
          BY <2>1, <3>6, <4>4 DEF Before, Pool
        <5>2. AllLeft(e.n, e.ph) \/ AllLeft(f.n, f.ph)
          BY <3>6, <4>1, <4>4, <5>1 DEF PsyncInv, ClearInv
        <5> QED
          BY <3>1, <5>2 DEF AllLeft
      <4> QED
        BY <4>2, <4>3, <4>4
    <3>8. CASE log[e.n].team.id # log[f.n].team.id
      <4>1. log[e.n].team.id \in Nat /\ log[f.n].team.id \in Nat
        BY <2>1, LogCall DEF TeamsInv, TeamIds
      <4>2. ~ (log[e.n].team.id \in Default /\ log[f.n].team.id \in Default)
        BY <3>3, <3>8 DEF Idx
      <4>3. \/ /\ log[f.n].team.id \notin Default
               /\ log[e.n].team.id \in Default \/ log[e.n].team.id < log[f.n].team.id
            \/ /\ log[e.n].team.id \notin Default
               /\ log[f.n].team.id \in Default \/ log[f.n].team.id < log[e.n].team.id
        BY <3>8, <4>1, <4>2
      <4> QED
        BY <3>1, <3>3, <4>3, LaterTeam
    <3> QED
      BY <3>7, <3>8
  <2> QED
    BY <2>2, <2>3
<1> QED
  BY <1>1, PsyncInvariant, PTL
=============================================================================
