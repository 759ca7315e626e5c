----------------------------- MODULE WaitUntil -----------------------------
(***************************************************************************)
(* Point-to-point waits (shmem_synchronization.h, synchronization_c.c4):   *)
(* one PE waits until variables that others write remotely satisfy a       *)
(* comparison.  A single-threaded program may sleep until the transport's  *)
(* counter of received operations moves; the others poll.                  *)
(***************************************************************************)
EXTENDS Integers, FiniteSets

CONSTANTS
    Elems,      \* how many variables the call is about
    MaxUpdates  \* bound: remote updates

Idx == 0 .. Elems - 1
None == -1                    \* SIZE_MAX

VARIABLES
    single,    \* shmem_internal_thread_level = SHMEM_THREAD_SINGLE, and no hard polling
    var,       \* whether each variable satisfies the comparison
    updates,   \* updates delivered so far
    uncounted, \* ... of which the counter does not know yet
    cntr,      \* the transport's counter of received operations
    call,      \* "all" (wait_until is this with one variable) or "any"
    ignored,   \* the variables whose status is set
    pc,
    i,         \* the loop's index
    start,     \* start_idx of wait_until_any
    target,    \* target_cntr + 1
    found      \* the index wait_until_any returns

vars == <<single, var, updates, uncounted, cntr, call, ignored, pc, i, start, target, found>>
input == <<single, call, ignored, start>>
net == <<var, updates, uncounted, cntr>>
----------------------------------------------------------------------------
(* The network (external): an update is visible before it is counted. *)

\* An update may make a variable satisfy the comparison, or no longer do so.
Deliver(v) ==
    /\ updates < MaxUpdates
    /\ var' = [var EXCEPT ![v] = ~@]
    /\ updates' = updates + 1 /\ uncounted' = uncounted + 1
    /\ UNCHANGED <<cntr, pc, i, target, found>> /\ UNCHANGED input

CountIt ==
    /\ uncounted > 0
    /\ uncounted' = uncounted - 1 /\ cntr' = cntr + 1
    /\ UNCHANGED <<var, updates, pc, i, target, found>> /\ UNCHANGED input
----------------------------------------------------------------------------
Goto(l) == pc' = l
Local == UNCHANGED net /\ UNCHANGED input

\* num_ignored = nelems: return at once.
Enter ==
    /\ pc = "enter"
    /\ Goto(IF ignored = Idx THEN "done" ELSE IF call = "all" THEN "all" ELSE "any")
    /\ UNCHANGED <<i, target, found>> /\ Local

\* The loop of wait_until_all over the variables that are not ignored.
wait_until_all ==
    /\ pc = "all"
    /\ \/ i = Elems /\ Goto("done") /\ UNCHANGED i
       \/ i < Elems /\ i \in ignored /\ i' = i + 1 /\ UNCHANGED pc
       \/ i < Elems /\ i \notin ignored /\ Goto("test") /\ UNCHANGED i
    /\ UNCHANGED <<target, found>> /\ Local

NextElem == i' = i + 1 /\ Goto("all")

\* SHMEM_WAIT_UNTIL_POLL, and the first test of SHMEM_WAIT_UNTIL_BLOCK.
SHMEM_WAIT_UNTIL_POLL ==
    /\ pc = "test"
    /\ IF var[i] THEN NextElem
       ELSE UNCHANGED i /\ Goto(IF single THEN "get" ELSE "test")
    /\ UNCHANGED <<target, found>> /\ Local

\* Mutated form: no second test after the counter is read.
AfterGet_blocked == "blocked"

\* The rest of SHMEM_WAIT_UNTIL_BLOCK: read the counter, test again, sleep
\* until the counter has moved.
AfterGet == "retest"
SHMEM_WAIT_UNTIL_BLOCK ==
    \/ /\ pc = "get"                 \* shmem_transport_received_cntr_get
       /\ target' = cntr + 1
       /\ Goto(AfterGet)
       /\ UNCHANGED <<i, found>> /\ Local
    \/ /\ pc = "retest"
       /\ IF var[i] THEN NextElem ELSE Goto("blocked") /\ UNCHANGED i
       /\ UNCHANGED <<target, found>> /\ Local
    \/ /\ pc = "blocked"             \* shmem_transport_received_cntr_wait
       /\ cntr >= target
       /\ Goto("test")
       /\ UNCHANGED <<i, target, found>> /\ Local

\* wait_until_any: round the variables from a random one, until one does.
wait_until_any ==
    /\ pc = "any"
    /\ LET idx == (i + start) % Elems IN
       IF i = Elems THEN i' = 0 /\ UNCHANGED <<pc, found>>       \* probe, again
       ELSE IF idx \notin ignored /\ var[idx]
            THEN found' = idx /\ Goto("done") /\ UNCHANGED i
            ELSE i' = i + 1 /\ UNCHANGED <<pc, found>>
    /\ UNCHANGED target /\ Local

\* It has returned, or nobody will write to the variable any more.
Finished ==
    /\ pc = "done" \/ (pc = "blocked" /\ updates = MaxUpdates /\ uncounted = 0 /\ ~var[i])
    /\ UNCHANGED vars
----------------------------------------------------------------------------
Init ==
    /\ single \in BOOLEAN /\ call \in {"all", "any"}
    /\ ignored \in SUBSET Idx /\ start \in Idx
    /\ var = [v \in Idx |-> FALSE]
    /\ updates = 0 /\ uncounted = 0 /\ cntr = 0
    /\ pc = "enter" /\ i = 0 /\ target = 0 /\ found = None

Next ==
    \/ \E v \in Idx : Deliver(v)
    \/ CountIt
    \/ Enter \/ wait_until_all \/ SHMEM_WAIT_UNTIL_POLL \/ SHMEM_WAIT_UNTIL_BLOCK
    \/ wait_until_any
    \/ Finished

Spec == Init /\ [][Next]_vars
----------------------------------------------------------------------------
\* No lost wake-up: a PE that sleeps although the variable it waits for has
\* the value is about to be woken, because the update is still to be counted
\* or has been since the counter was read.
NoLostWakeup ==
    pc = "blocked" /\ var[i] => uncounted > 0 \/ cntr >= target
============================================================================
