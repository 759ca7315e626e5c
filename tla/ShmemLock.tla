------------------------------ MODULE ShmemLock ------------------------------
(***************************************************************************)
(* The distributed MCS queue lock of src/src/shmem_lock.h.                 *)
(*                                                                         *)
(* lock_t has two words.  "last" is used on PE 0 only and holds the number *)
(* (PE + 1) of the PE that joined the queue last, 0 when the lock is free. *)
(* "data" is used on every PE: its low 31 bits (NEXT) name the PE queued   *)
(* behind this one, its top bit (SIGNAL) is set by the predecessor that    *)
(* hands the lock over.                                                    *)
(*                                                                         *)
(* The remote atomics that return a value (swap, cswap, mswap, fetch) are  *)
(* one step each: the caller sits in shmem_internal_get_wait until the     *)
(* value is back.  atomic_set and put return before they have taken effect *)
(* at the target: they stay in "pending" until Deliver applies them.       *)
(***************************************************************************)
EXTENDS Integers, Sequences

CONSTANT num_pes             \* shmem_internal_num_pes

ASSUME NumPEsAssumption == num_pes \in Nat \ {0}

PEs == 0 .. num_pes - 1

VARIABLES
  last,      \* lock->last on PE 0
  data,      \* lock->data on each PE
  pending,   \* non-blocking operations a PE has issued that are not complete
  pc,        \* where each PE is in the lock calls
  curr,      \* the local "curr" of set_lock: the previous last, while used
  cur_data,  \* the local "cur_data" of the two wait loops, while used
  queue      \* history variable: the PEs in the order of their swap of last

vars == <<last, data, pending, pc, curr, cur_data, queue>>

-----------------------------------------------------------------------------
(* The lock words *)

Word == [next : 0 .. num_pes, signal : BOOLEAN]

Zero == [next |-> 0, signal |-> FALSE]

(* Mutated form: a plain swap of the word, losing a signal that is there. *)
mswap_next_unmasked(w, me) == [next |-> me, signal |-> FALSE]

(* mswap under NEXT_MASK: the signal bit is not touched. *)
mswap_next(w, me) == [w EXCEPT !.next = me]

(* mswap under SIGNAL_MASK: the next field is not touched. *)
mswap_signal(w) == [w EXCEPT !.signal = TRUE]

-----------------------------------------------------------------------------
(* Program points *)

Waiting   == {"set_fetch", "set_wait"}
Releasing == {"clear_cswap", "clear_fetch", "clear_wait", "clear_signal"}
Owning    == {"held"} \cup Releasing
Queued    == {"set_mswap"} \cup Waiting \cup Owning
Outside   == {"idle", "set_swap", "test_cswap"}

Goto(p, l) == pc' = [pc EXCEPT ![p] = l]

Init ==
  /\ last = 0
  /\ data = [p \in PEs |-> Zero]
  /\ pending = [p \in PEs |-> {}]
  /\ pc = [p \in PEs |-> "idle"]
  /\ curr = [p \in PEs |-> 0]
  /\ cur_data = [p \in PEs |-> Zero]
  /\ queue = <<>>

(* shmem_internal_quiet returns once nothing this PE issued is outstanding. *)
quiet(p) == pending[p] = {}

(* The network applies an operation that is still outstanding. *)
Deliver(p) ==
  \E op \in pending[p] :
    /\ pending' = [pending EXCEPT ![p] = @ \ {op}]
    /\ data' = IF op = "reset" THEN [data EXCEPT ![p] = Zero] ELSE data
    /\ UNCHANGED <<last, pc, curr, cur_data, queue>>

-----------------------------------------------------------------------------
(* shmem_set_lock *)

(* atomic_set of the caller's own data word, before it may be queued. *)
set_reset(p) ==
  /\ pc[p] = "idle"
  /\ pending' = [pending EXCEPT ![p] = @ \cup {"reset"}]
  /\ Goto(p, "set_swap")
  /\ UNCHANGED <<last, data, curr, cur_data, queue>>

(* Mutated form: swap before the reset of the data word is complete. *)
set_swap_no_quiet(p) ==
  /\ pc[p] = "set_swap"
  /\ curr' = [curr EXCEPT ![p] = last]
  /\ last' = p + 1
  /\ queue' = Append(queue, p)
  /\ Goto(p, IF last = 0 THEN "held" ELSE "set_mswap")
  /\ UNCHANGED <<data, pending, cur_data>>

(* quiet, then swap(last, me): this is where the PE joins the queue. *)
set_swap(p) ==
  /\ pc[p] = "set_swap"
  /\ quiet(p)
  /\ curr' = [curr EXCEPT ![p] = last]
  /\ last' = p + 1
  /\ queue' = Append(queue, p)
  /\ Goto(p, IF last = 0 THEN "held" ELSE "set_mswap")
  /\ UNCHANGED <<data, pending, cur_data>>

(* Write the caller's number into the predecessor's NEXT field. *)
set_mswap(p) ==
  /\ pc[p] = "set_mswap"
  /\ data' = [data EXCEPT ![curr[p] - 1] = mswap_next(@, p + 1)]
  /\ curr' = [curr EXCEPT ![p] = 0]
  /\ Goto(p, "set_fetch")
  /\ UNCHANGED <<last, pending, cur_data, queue>>

(* Mutated form: any change of the word, a link included, ends the wait. *)
set_fetch_any_bit(p) ==
  /\ pc[p] = "set_fetch"
  /\ cur_data' = [cur_data EXCEPT ![p] = IF data[p] # Zero THEN Zero ELSE data[p]]
  /\ Goto(p, IF data[p] # Zero THEN "held" ELSE "set_wait")
  /\ UNCHANGED <<last, data, pending, curr, queue>>

(* One turn of the wait loop: leave it if SIGNAL is set in what was read. *)
set_fetch(p) ==
  /\ pc[p] = "set_fetch"
  /\ cur_data' = [cur_data EXCEPT ![p] = IF data[p].signal THEN Zero ELSE data[p]]
  /\ Goto(p, IF data[p].signal THEN "held" ELSE "set_wait")
  /\ UNCHANGED <<last, data, pending, curr, queue>>

(* SHMEM_WAIT(&lock->data, cur_data): sleep until the word changes. *)
set_wait(p) ==
  /\ pc[p] = "set_wait"
  /\ data[p] # cur_data[p]
  /\ cur_data' = [cur_data EXCEPT ![p] = Zero]
  /\ Goto(p, "set_fetch")
  /\ UNCHANGED <<last, data, pending, curr, queue>>

-----------------------------------------------------------------------------
(* shmem_test_lock *)

test_reset(p) ==
  /\ pc[p] = "idle"
  /\ pending' = [pending EXCEPT ![p] = @ \cup {"reset"}]
  /\ Goto(p, "test_cswap")
  /\ UNCHANGED <<last, data, curr, cur_data, queue>>

(* quiet, then cswap(last, 0 -> me): returns 0 holding the lock, else 1. *)
test_cswap(p) ==
  /\ pc[p] = "test_cswap"
  /\ quiet(p)
  /\ last' = IF last = 0 THEN p + 1 ELSE last
  /\ queue' = IF last = 0 THEN Append(queue, p) ELSE queue
  /\ Goto(p, IF last = 0 THEN "held" ELSE "idle")
  /\ UNCHANGED <<data, pending, curr, cur_data>>

-----------------------------------------------------------------------------
(* The critical section: the client issues puts to the protected data. *)

critical_put(p) ==
  /\ pc[p] = "held"
  /\ pending' = [pending EXCEPT ![p] = @ \cup {"put"}]
  /\ UNCHANGED <<last, data, pc, curr, cur_data, queue>>

-----------------------------------------------------------------------------
(* shmem_clear_lock *)

clear_call(p) ==
  /\ pc[p] = "held"
  /\ Goto(p, "clear_cswap")
  /\ UNCHANGED <<last, data, pending, curr, cur_data, queue>>

(* Mutated form: the lock is given away before the puts are complete. *)
clear_cswap_no_quiet(p) ==
  /\ pc[p] = "clear_cswap"
  /\ last' = IF last = p + 1 THEN 0 ELSE last
  /\ queue' = IF last = p + 1 THEN Tail(queue) ELSE queue
  /\ Goto(p, IF last = p + 1 THEN "idle" ELSE "clear_fetch")
  /\ UNCHANGED <<data, pending, curr, cur_data>>

(* Mutated form: swap instead of compare-and-swap. *)
clear_swap(p) ==
  /\ pc[p] = "clear_cswap"
  /\ quiet(p)
  /\ last' = 0
  /\ queue' = IF last = p + 1 THEN Tail(queue) ELSE queue
  /\ Goto(p, IF last = p + 1 THEN "idle" ELSE "clear_fetch")
  /\ UNCHANGED <<data, pending, curr, cur_data>>

(* Mutated form: -1 instead of 0 as the mark of a free lock. *)
clear_cswap_minus_one(p) ==
  /\ pc[p] = "clear_cswap"
  /\ quiet(p)
  /\ last' = IF last = p + 1 THEN -1 ELSE last
  /\ queue' = IF last = p + 1 THEN Tail(queue) ELSE queue
  /\ Goto(p, IF last = p + 1 THEN "idle" ELSE "clear_fetch")
  /\ UNCHANGED <<data, pending, curr, cur_data>>

(* quiet, then cswap(last, me -> 0): the lock is free if nobody is behind. *)
clear_cswap(p) ==
  /\ pc[p] = "clear_cswap"
  /\ quiet(p)
  /\ last' = IF last = p + 1 THEN 0 ELSE last
  /\ queue' = IF last = p + 1 THEN Tail(queue) ELSE queue
  /\ Goto(p, IF last = p + 1 THEN "idle" ELSE "clear_fetch")
  /\ UNCHANGED <<data, pending, curr, cur_data>>

(* Somebody is behind: one turn of the loop that waits for its number. *)
clear_fetch(p) ==
  /\ pc[p] = "clear_fetch"
  /\ cur_data' = [cur_data EXCEPT ![p] = data[p]]
  /\ Goto(p, IF data[p].next # 0 THEN "clear_signal" ELSE "clear_wait")
  /\ UNCHANGED <<last, data, pending, curr, queue>>

clear_wait(p) ==
  /\ pc[p] = "clear_wait"
  /\ data[p] # cur_data[p]
  /\ cur_data' = [cur_data EXCEPT ![p] = Zero]
  /\ Goto(p, "clear_fetch")
  /\ UNCHANGED <<last, data, pending, curr, queue>>

(* Set SIGNAL at the successor: the lock changes hands. *)
clear_signal(p) ==
  /\ pc[p] = "clear_signal"
  /\ data' = [data EXCEPT ![cur_data[p].next - 1] = mswap_signal(@)]
  /\ queue' = Tail(queue)
  /\ cur_data' = [cur_data EXCEPT ![p] = Zero]
  /\ Goto(p, "idle")
  /\ UNCHANGED <<last, pending, curr>>

-----------------------------------------------------------------------------
SetLock(p)   == set_swap(p) \/ set_mswap(p) \/ set_fetch(p) \/ set_wait(p)
ClearLock(p) == \/ clear_call(p)  \/ clear_cswap(p) \/ clear_fetch(p)
                \/ clear_wait(p)  \/ clear_signal(p)
Call(p)      == set_reset(p) \/ test_reset(p) \/ critical_put(p)

Next ==
  \E p \in PEs :
    Call(p) \/ SetLock(p) \/ test_cswap(p) \/ ClearLock(p) \/ Deliver(p)

(* A PE inside a call keeps running, the network delivers what it was     *)
(* given, and a client that got the lock clears it some day.  Nobody is   *)
(* obliged to ask for the lock.                                           *)
Fairness ==
  \A p \in PEs :
    /\ WF_vars(SetLock(p))
    /\ WF_vars(test_cswap(p))
    /\ WF_vars(ClearLock(p))
    /\ WF_vars(Deliver(p))

Spec == Init /\ [][Next]_vars /\ Fairness

-----------------------------------------------------------------------------
(* Properties *)

(* The words of lock_t and the locals of the calls keep their ranges: last *)
(* is 0 or the number of a PE, a data word a link and a signal bit.        *)
TypeOK ==
  /\ last \in 0 .. num_pes
  /\ data \in [PEs -> Word]
  /\ pending \in [PEs -> SUBSET {"reset", "put"}]
  /\ pc \in [PEs -> Outside \cup Queued]
  /\ curr \in [PEs -> 0 .. num_pes]
  /\ cur_data \in [PEs -> Word]
  /\ queue \in Seq(PEs)

(* At most one PE is between the return of set_lock (or a test_lock that  *)
(* returned 0) and the step of clear_lock that gives the lock away.       *)
MutualExclusion ==
  \A p, q \in PEs : pc[p] \in Owning /\ pc[q] \in Owning => p = q

(* What a critical section put is complete before any other PE enters:    *)
(* the quiet at the top of clear_lock runs before the lock word changes.  *)
CriticalPutsComplete ==
  \A p, q \in PEs :
    pc[p] \in Owning /\ "put" \in pending[q] => p = q

(* Every set_lock that has begun returns with the lock, whatever the      *)
(* other PEs' set_lock, test_lock and clear_lock calls do meanwhile.      *)
SetLockReturns == \A p \in PEs : pc[p] = "set_swap" ~> pc[p] = "held"

(* A clear_lock call always finds its successor and returns. *)
ClearLockReturns == \A p \in PEs : pc[p] = "clear_cswap" ~> pc[p] = "idle"

(* Every set_lock returns with the lock and every clear_lock returns: no   *)
(* link and no signal is lost in the word that the two share.              *)
LockCallsReturn == SetLockReturns /\ ClearLockReturns

-----------------------------------------------------------------------------
(* Refinement: the MCS lock serves its waiters in the order of their swap. *)

Phase(p) == CASE pc[p] \in Outside -> "out"
              [] pc[p] \in Owning -> "owner"
              [] OTHER -> "waiting"

Fifo == INSTANCE FifoLock WITH phase <- [p \in PEs |-> Phase(p)]

(* Every behaviour of the lock calls is one of the first-in first-out     *)
(* lock: the owner is the head of the queue and hands over to the next.   *)
FifoSpec == Fifo!FifoSpec

-----------------------------------------------------------------------------
(* The inductive invariant: how the words of the lock encode the queue. *)

Distinct ==
  \A i, j \in 1 .. Len(queue) : queue[i] = queue[j] => i = j

Members ==
  /\ \A p \in PEs :
       pc[p] \in Queued => \E i \in 1 .. Len(queue) : queue[i] = p
  /\ \A i \in 1 .. Len(queue) : pc[queue[i]] \in Queued

LastIsTail ==
  /\ queue = <<>> => last = 0
  /\ queue # <<>> => last = queue[Len(queue)] + 1

OwnerIsHead ==
  \A p \in PEs : pc[p] \in Owning => queue # <<>> /\ queue[1] = p

(* The next field of the i-th PE: set as soon as its successor has done its *)
(* mswap; until then the successor remembers whose field it has to set.     *)
Link(i) ==
  /\ pc[queue[i + 1]] = "set_mswap"
       => curr[queue[i + 1]] = queue[i] + 1 /\ data[queue[i]].next = 0
  /\ pc[queue[i + 1]] # "set_mswap" => data[queue[i]].next = queue[i + 1] + 1

Links ==
  /\ \A i \in 1 .. Len(queue) - 1 : Link(i)
  /\ queue # <<>> => data[queue[Len(queue)]].next = 0

(* Signal bits: set exactly when a waiter has become the head. *)
Signals ==
  \A p \in PEs :
    /\ pc[p] = "set_mswap" => queue[1] # p
    /\ pc[p] \in {"set_mswap"} \cup Waiting /\ queue[1] # p => ~ data[p].signal
    /\ pc[p] \in Waiting /\ queue[1] = p => data[p].signal

(* Locals are not stale when they are used. *)
Locals ==
  \A p \in PEs :
    pc[p] = "clear_signal" =>
      cur_data[p].next # 0 /\ cur_data[p].next = data[p].next

(* Nothing outstanding can still reach a word the queue depends on. *)
Pendings ==
  \A p \in PEs :
    /\ "put" \in pending[p] => pc[p] \in {"held", "clear_cswap"}
    /\ "reset" \in pending[p] => pc[p] \in {"set_swap", "test_cswap"}
    /\ pc[p] \in {"set_swap", "test_cswap"} /\ "reset" \notin pending[p]
         => data[p] = Zero

(* The lock words and the locals always encode the one queue of callers:  *)
(* last is its tail, each NEXT names the successor as soon as it has      *)
(* linked itself, SIGNAL is set exactly on a waiter that became the head, *)
(* and no reset is outstanding on a word that is part of the queue.       *)
QueueEncoding ==
  /\ Distinct
  /\ Members
  /\ LastIsTail
  /\ OwnerIsHead
  /\ Links
  /\ Signals
  /\ Locals
  /\ Pendings
=============================================================================
