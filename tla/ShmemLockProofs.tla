-------------------------- MODULE ShmemLockProofs --------------------------
(***************************************************************************)
(* Proofs about ShmemLock for every number of PEs: type correctness, the   *)
(* encoding of the queue by the lock words, and from it mutual exclusion,  *)
(* the completion of the critical section's puts, and that the lock is     *)
(* the first-in first-out one of FifoLock, but for its liveness.           *)
(***************************************************************************)
EXTENDS ShmemLock, SequenceTheorems, TLAPS

Inv == TypeOK /\ QueueEncoding

(* The program points a PE can be at, by name. *)
LEMMA Points ==
  /\ Queued = {"set_mswap", "set_fetch", "set_wait", "held", "clear_cswap",
               "clear_fetch", "clear_wait", "clear_signal"}
  /\ Owning = {"held", "clear_cswap", "clear_fetch", "clear_wait",
               "clear_signal"}
  /\ Waiting = {"set_fetch", "set_wait"}
  /\ Outside = {"idle", "set_swap", "test_cswap"}
BY DEF Queued, Owning, Waiting, Releasing, Outside

(* A word is a record of a next field and a signal bit. *)
LEMMA WordFields ==
  ASSUME NEW w \in Word, NEW me \in 0 .. num_pes
  PROVE  /\ w.next \in 0 .. num_pes
         /\ w.signal \in BOOLEAN
         /\ mswap_next(w, me) \in Word
         /\ mswap_next(w, me).next = me
         /\ mswap_next(w, me).signal = w.signal
         /\ mswap_signal(w) \in Word
         /\ mswap_signal(w).next = w.next
         /\ mswap_signal(w).signal = TRUE
BY DEF Word, mswap_next, mswap_signal

(* The zero word has no successor and no signal. *)
LEMMA ZeroFields == Zero \in Word /\ Zero.next = 0 /\ Zero.signal = FALSE
BY NumPEsAssumption DEF Zero, Word

(* Appending to a sequence of PEs. *)
LEMMA AppendFacts ==
  ASSUME NEW s \in Seq(PEs), NEW p \in PEs
  PROVE  /\ Append(s, p) \in Seq(PEs)
         /\ Append(s, p) # <<>>
         /\ Len(Append(s, p)) = Len(s) + 1
         /\ \A i \in 1 .. Len(s) : Append(s, p)[i] = s[i]
         /\ Append(s, p)[Len(s) + 1] = p
OBVIOUS

(* The elements and the length of a sequence of PEs. *)
LEMMA SeqFacts ==
  ASSUME NEW s \in Seq(PEs)
  PROVE  /\ Len(s) \in Nat
         /\ \A i \in 1 .. Len(s) : s[i] \in PEs
         /\ s = <<>> <=> Len(s) = 0
OBVIOUS

(* Dropping the head of a sequence of PEs. *)
LEMMA TailFacts ==
  ASSUME NEW s \in Seq(PEs), s # <<>>
  PROVE  /\ Tail(s) \in Seq(PEs)
         /\ Len(s) \in Nat
         /\ Len(s) >= 1
         /\ Len(Tail(s)) = Len(s) - 1
         /\ \A i \in 1 .. Len(s) - 1 : Tail(s)[i] = s[i + 1]
         /\ Tail(s) = <<>> <=> Len(s) = 1
<1>1. /\ Tail(s) \in Seq(PEs)
      /\ Len(Tail(s)) = Len(s) - 1
      /\ \A i \in 1 .. Len(Tail(s)) : Tail(s)[i] = s[i + 1]
  BY HeadTailProperties
<1>2. Len(s) \in Nat \ {0}
  BY EmptySeq
<1>3. Tail(s) = <<>> <=> Len(Tail(s)) = 0
  BY <1>1, SeqFacts
<1> QED
  BY <1>1, <1>2, <1>3

(* PE numbers are integers, and PE + 1 is a valid value of last. *)
LEMMA PEFacts ==
  /\ \A p \in PEs : p \in Nat /\ p + 1 \in 1 .. num_pes
  /\ \A n \in 0 .. num_pes : n # 0 => n - 1 \in PEs
  /\ num_pes \in Nat
BY NumPEsAssumption DEF PEs

(* The initial state has an empty queue. *)
LEMMA InitInv == Init => Inv
<1>1. Init => TypeOK
  BY ZeroFields, NumPEsAssumption DEF Init, TypeOK, Outside
<1>2. Init => QueueEncoding
  BY Points, ZeroFields DEF Init, QueueEncoding, Distinct, Members, LastIsTail, OwnerIsHead,
     Links, Signals, Locals, Pendings
<1> QED
  BY <1>1, <1>2 DEF Inv


(* Where the queued PEs are: facts about the elements of the queue. *)
LEMMA QueueFacts ==
  ASSUME Inv
  PROVE  /\ queue \in Seq(PEs)
         /\ Len(queue) \in Nat
         /\ queue = <<>> <=> Len(queue) = 0
         /\ \A i \in 1 .. Len(queue) : queue[i] \in PEs /\ pc[queue[i]] \in Queued
         /\ \A i, j \in 1 .. Len(queue) : queue[i] = queue[j] => i = j
         /\ \A q \in PEs : pc[q] \in Queued => \E i \in 1 .. Len(queue) : queue[i] = q
         /\ \A q \in PEs : pc[q] \in Queued => queue # <<>>
         /\ \A i \in 1 .. Len(queue) - 1 : Link(i)
         /\ \A i \in 1 .. Len(queue) : i # 1 => pc[queue[i]] \notin Owning
<1>1. queue \in Seq(PEs)
  BY DEF Inv, TypeOK
<1>2. /\ Len(queue) \in Nat
      /\ queue = <<>> <=> Len(queue) = 0
      /\ \A i \in 1 .. Len(queue) : queue[i] \in PEs
  BY <1>1, SeqFacts
<1>3. \A i \in 1 .. Len(queue) : i # 1 => pc[queue[i]] \notin Owning
  BY <1>2 DEF Inv, QueueEncoding, OwnerIsHead, Distinct
<1> QED
  BY <1>1, <1>2, <1>3 DEF Inv, QueueEncoding, Members, Distinct, Links

(* A step that leaves the queue, the words and curr alone, and moves p     *)
(* between points that are both before or both after its mswap, keeps the  *)
(* links.                                                                  *)
LEMMA LinksKept ==
  ASSUME Inv, NEW p \in PEs, NEW l, pc' = [pc EXCEPT ![p] = l],
         UNCHANGED <<data, curr, queue>>,
         l # "set_mswap", pc[p] # "set_mswap"
  PROVE  Links'
<1> USE QueueFacts DEF Inv, TypeOK
<1>1. ASSUME NEW i \in 1 .. Len(queue) - 1
      PROVE  Link(i)'
  <2>1. Link(i) /\ i \in 1 .. Len(queue) /\ i + 1 \in 1 .. Len(queue)
    OBVIOUS
  <2> QED
    BY <2>1 DEF Link
<1>2. queue # <<>> => data[queue[Len(queue)]].next = 0
  BY DEF QueueEncoding, Links
<1> QED
  BY <1>1, <1>2 DEF Links


(* A caller of set_lock is not queued yet. *)
LEMMA set_reset_Inv ==
  ASSUME Inv, NEW p \in PEs, set_reset(p)
  PROVE  Inv'
<1> USE DEF Inv, QueueEncoding, Queued, Owning, Waiting, Releasing, Outside, Goto, set_reset
<1>1. TypeOK'
  BY PEFacts, ZeroFields, WordFields DEF TypeOK
<1>2. Distinct'
  BY DEF Distinct
<1>3. Members'
  BY SeqFacts DEF TypeOK, Members
<1>4. LastIsTail'
  BY DEF LastIsTail
<1>5. OwnerIsHead'
  BY DEF TypeOK, OwnerIsHead
<1>6. Links'
  BY LinksKept DEF TypeOK, Links
<1>7. Signals'
  BY DEF TypeOK, Signals
<1>8. Locals'
  BY DEF TypeOK, Locals
<1>9. Pendings'
  BY DEF TypeOK, Pendings
<1> QED
  BY <1>1, <1>2, <1>3, <1>4, <1>5, <1>6, <1>7, <1>8, <1>9

(* A caller of test_lock is not queued yet. *)
LEMMA test_reset_Inv ==
  ASSUME Inv, NEW p \in PEs, test_reset(p)
  PROVE  Inv'
<1> USE DEF Inv, QueueEncoding, Queued, Owning, Waiting, Releasing, Outside, Goto, test_reset
<1>1. TypeOK'
  BY PEFacts, ZeroFields, WordFields DEF TypeOK
<1>2. Distinct'
  BY DEF Distinct
<1>3. Members'
  BY SeqFacts DEF TypeOK, Members
<1>4. LastIsTail'
  BY DEF LastIsTail
<1>5. OwnerIsHead'
  BY DEF TypeOK, OwnerIsHead
<1>6. Links'
  BY LinksKept DEF TypeOK, Links
<1>7. Signals'
  BY DEF TypeOK, Signals
<1>8. Locals'
  BY DEF TypeOK, Locals
<1>9. Pendings'
  BY DEF TypeOK, Pendings
<1> QED
  BY <1>1, <1>2, <1>3, <1>4, <1>5, <1>6, <1>7, <1>8, <1>9

(* A put changes neither the words nor the queue. *)
LEMMA critical_put_Inv ==
  ASSUME Inv, NEW p \in PEs, critical_put(p)
  PROVE  Inv'
<1> USE DEF Inv, QueueEncoding, Queued, Owning, Waiting, Releasing, Outside, Goto, critical_put
<1>1. TypeOK'
  BY PEFacts, ZeroFields, WordFields DEF TypeOK
<1>2. Distinct'
  BY DEF Distinct
<1>3. Members'
  BY SeqFacts DEF TypeOK, Members
<1>4. LastIsTail'
  BY DEF LastIsTail
<1>5. OwnerIsHead'
  BY DEF TypeOK, OwnerIsHead
<1>6. Links'
  BY LinksKept DEF TypeOK, Links
<1>7. Signals'
  BY DEF TypeOK, Signals
<1>8. Locals'
  BY DEF TypeOK, Locals
<1>9. Pendings'
  BY DEF TypeOK, Pendings
<1> QED
  BY <1>1, <1>2, <1>3, <1>4, <1>5, <1>6, <1>7, <1>8, <1>9

(* The owner stays the owner while it calls clear_lock. *)
LEMMA clear_call_Inv ==
  ASSUME Inv, NEW p \in PEs, clear_call(p)
  PROVE  Inv'
<1> USE DEF Inv, QueueEncoding, Queued, Owning, Waiting, Releasing, Outside, Goto, clear_call
<1>1. TypeOK'
  BY PEFacts, ZeroFields, WordFields DEF TypeOK
<1>2. Distinct'
  BY DEF Distinct
<1>3. Members'
  BY SeqFacts DEF TypeOK, Members
<1>4. LastIsTail'
  BY DEF LastIsTail
<1>5. OwnerIsHead'
  BY DEF TypeOK, OwnerIsHead
<1>6. Links'
  BY LinksKept DEF TypeOK, Links
<1>7. Signals'
  BY DEF TypeOK, Signals
<1>8. Locals'
  BY DEF TypeOK, Locals
<1>9. Pendings'
  BY DEF TypeOK, Pendings
<1> QED
  BY <1>1, <1>2, <1>3, <1>4, <1>5, <1>6, <1>7, <1>8, <1>9

(* Waking up changes no word. *)
LEMMA set_wait_Inv ==
  ASSUME Inv, NEW p \in PEs, set_wait(p)
  PROVE  Inv'
<1> USE DEF Inv, QueueEncoding, Queued, Owning, Waiting, Releasing, Outside, Goto, set_wait
<1>1. TypeOK'
  BY PEFacts, ZeroFields, WordFields DEF TypeOK
<1>2. Distinct'
  BY DEF Distinct
<1>3. Members'
  BY SeqFacts DEF TypeOK, Members
<1>4. LastIsTail'
  BY DEF LastIsTail
<1>5. OwnerIsHead'
  BY DEF TypeOK, OwnerIsHead
<1>6. Links'
  BY LinksKept DEF TypeOK, Links
<1>7. Signals'
  BY DEF TypeOK, Signals
<1>8. Locals'
  BY DEF TypeOK, Locals
<1>9. Pendings'
  BY DEF TypeOK, Pendings
<1> QED
  BY <1>1, <1>2, <1>3, <1>4, <1>5, <1>6, <1>7, <1>8, <1>9

(* Reading the own word changes no word. *)
LEMMA clear_fetch_Inv ==
  ASSUME Inv, NEW p \in PEs, clear_fetch(p)
  PROVE  Inv'
<1> USE DEF Inv, QueueEncoding, Queued, Owning, Waiting, Releasing, Outside, Goto, clear_fetch
<1>1. TypeOK'
  BY PEFacts, ZeroFields, WordFields DEF TypeOK
<1>2. Distinct'
  BY DEF Distinct
<1>3. Members'
  BY SeqFacts DEF TypeOK, Members
<1>4. LastIsTail'
  BY DEF LastIsTail
<1>5. OwnerIsHead'
  BY DEF TypeOK, OwnerIsHead
<1>6. Links'
  BY LinksKept DEF TypeOK, Links
<1>7. Signals'
  BY DEF TypeOK, Signals
<1>8. Locals'
  BY DEF TypeOK, Locals
<1>9. Pendings'
  BY DEF TypeOK, Pendings
<1> QED
  BY <1>1, <1>2, <1>3, <1>4, <1>5, <1>6, <1>7, <1>8, <1>9

(* Waking up changes no word. *)
LEMMA clear_wait_Inv ==
  ASSUME Inv, NEW p \in PEs, clear_wait(p)
  PROVE  Inv'
<1> USE DEF Inv, QueueEncoding, Queued, Owning, Waiting, Releasing, Outside, Goto, clear_wait
<1>1. TypeOK'
  BY PEFacts, ZeroFields, WordFields DEF TypeOK
<1>2. Distinct'
  BY DEF Distinct
<1>3. Members'
  BY SeqFacts DEF TypeOK, Members
<1>4. LastIsTail'
  BY DEF LastIsTail
<1>5. OwnerIsHead'
  BY DEF TypeOK, OwnerIsHead
<1>6. Links'
  BY LinksKept DEF TypeOK, Links
<1>7. Signals'
  BY DEF TypeOK, Signals
<1>8. Locals'
  BY DEF TypeOK, Locals
<1>9. Pendings'
  BY DEF TypeOK, Pendings
<1> QED
  BY <1>1, <1>2, <1>3, <1>4, <1>5, <1>6, <1>7, <1>8, <1>9

(* The waiter that finds its signal bit set is the head of the queue. *)
LEMMA set_fetch_Inv ==
  ASSUME Inv, NEW p \in PEs, set_fetch(p)
  PROVE  Inv'
<1> USE DEF Inv, QueueEncoding, Queued, Owning, Waiting, Releasing, Outside, Goto, set_fetch
<1>1. TypeOK'
  BY PEFacts, ZeroFields, WordFields DEF TypeOK
<1>2. Distinct'
  BY DEF Distinct
<1>3. Members'
  BY SeqFacts DEF TypeOK, Members
<1>4. LastIsTail'
  BY DEF LastIsTail
<1>5. OwnerIsHead'
  BY QueueFacts DEF TypeOK, OwnerIsHead, Signals
<1>6. Links'
  BY LinksKept DEF TypeOK, Links
<1>7. Signals'
  BY DEF TypeOK, Signals
<1>8. Locals'
  BY DEF TypeOK, Locals
<1>9. Pendings'
  BY DEF TypeOK, Pendings
<1> QED
  BY <1>1, <1>2, <1>3, <1>4, <1>5, <1>6, <1>7, <1>8, <1>9

(* The new waiter links itself behind its predecessor. *)
LEMMA set_mswap_Inv ==
  ASSUME Inv, NEW p \in PEs, set_mswap(p)
  PROVE  Inv'
<1> USE DEF Inv, QueueEncoding, Queued, Owning, Waiting, Releasing, Outside, Goto, set_mswap
<1>k. PICK k \in 2 .. Len(queue) :
         /\ p = queue[k]
         /\ k - 1 \in 1 .. Len(queue) - 1
         /\ queue[k - 1] \in PEs
         /\ queue[k - 1] # p
         /\ curr[p] - 1 = queue[k - 1]
         /\ data[queue[k - 1]].next = 0
  <2>1. PICK k \in 1 .. Len(queue) : queue[k] = p
    BY QueueFacts
  <2>2. k # 1
    BY <2>1 DEF Signals
  <2>3. /\ k - 1 \in 1 .. Len(queue) - 1
        /\ k - 1 \in 1 .. Len(queue)
        /\ (k - 1) + 1 = k
    BY <2>1, <2>2, QueueFacts
  <2>4. Link(k - 1)
    BY <2>3, QueueFacts
  <2>5. queue[k - 1] \in PEs /\ queue[k - 1] # p
    BY <2>1, <2>3, QueueFacts
  <2>6. queue[(k - 1) + 1] = p
    BY <2>1, <2>3
  <2>7. curr[p] = queue[k - 1] + 1 /\ data[queue[k - 1]].next = 0
    BY <2>4, <2>6 DEF Link
  <2>8. curr[p] - 1 = queue[k - 1]
    BY <2>5, <2>7, PEFacts
  <2>9. k \in 2 .. Len(queue)
    BY <2>2, <2>3, QueueFacts
  <2> QED
    BY <2>1, <2>3, <2>5, <2>7, <2>8, <2>9
<1>d. /\ data' \in [PEs -> Word]
      /\ data'[queue[k - 1]].next = p + 1
      /\ \A q \in PEs : q # queue[k - 1] => data'[q] = data[q]
      /\ \A q \in PEs : data'[q].signal = data[q].signal
  <2>1. \A q \in PEs : data[q] \in Word
    BY DEF TypeOK
  <2>2. p + 1 \in 0 .. num_pes
    BY PEFacts
  <2>3. data[queue[k - 1]] \in Word
    BY <1>k, <2>1
  <2>4. PICK w \in Word :
          /\ data' = [data EXCEPT ![queue[k - 1]] = w]
          /\ w.next = p + 1
          /\ w.signal = data[queue[k - 1]].signal
    <3> DEFINE v == mswap_next(data[queue[k - 1]], p + 1)
    <3>1. v \in Word /\ v.next = p + 1 /\ v.signal = data[queue[k - 1]].signal
      BY <2>2, <2>3 DEF mswap_next, Word
    <3>2. data' = [data EXCEPT ![queue[k - 1]] = v]
      BY <1>k
    <3> HIDE DEF v
    <3> QED
      BY <3>1, <3>2
  <2> QED
    BY <1>k, <2>4 DEF TypeOK
<1>1. TypeOK'
  BY <1>d, NumPEsAssumption DEF TypeOK
<1>2. Distinct'
  BY DEF Distinct
<1>3. Members'
  BY SeqFacts DEF TypeOK, Members
<1>4. LastIsTail'
  BY DEF LastIsTail
<1>5. OwnerIsHead'
  BY DEF TypeOK, OwnerIsHead
<1>6. Links'
  <2>1. ASSUME NEW i \in 1 .. Len(queue) - 1
        PROVE  Link(i)'
    <3>1. /\ Link(i) /\ i \in 1 .. Len(queue) /\ i + 1 \in 1 .. Len(queue)
          /\ queue[i] \in PEs /\ queue[i + 1] \in PEs
      BY QueueFacts
    <3>2. CASE i = k - 1
      <4>1. queue[i + 1] = p
        BY <3>2, <1>k
      <4> QED
        BY <3>1, <3>2, <4>1, <1>k, <1>d DEF Link, TypeOK
    <3>3. CASE i # k - 1
      <4>1. queue[i] # queue[k - 1] /\ queue[i + 1] # p
        BY <3>1, <3>3, <1>k, QueueFacts
      <4>2. /\ data'[queue[i]] = data[queue[i]]
            /\ pc'[queue[i + 1]] = pc[queue[i + 1]]
            /\ curr'[queue[i + 1]] = curr[queue[i + 1]]
        BY <3>1, <4>1, <1>d DEF TypeOK
      <4> QED
        BY <3>1, <4>2 DEF Link
    <3> QED
      BY <3>2, <3>3
  <2>2. /\ Len(queue) \in 1 .. Len(queue)
        /\ queue[Len(queue)] # queue[k - 1]
        /\ queue[Len(queue)] \in PEs
    BY <1>k, QueueFacts
  <2>3. data'[queue[Len(queue)]].next = 0
    BY <2>2, <1>d, QueueFacts DEF Links
  <2> QED
    BY <2>1, <2>3 DEF Links
<1>7. Signals'
  BY <1>d DEF TypeOK, Signals
<1>8. Locals'
  <2> SUFFICES ASSUME NEW q \in PEs, pc'[q] = "clear_signal"
               PROVE  cur_data'[q].next # 0 /\ cur_data'[q].next = data'[q].next
    BY DEF Locals
  <2>1. pc[q] = "clear_signal"
    BY DEF TypeOK
  <2>2. cur_data[q].next # 0 /\ cur_data[q].next = data[q].next
    BY <2>1 DEF Locals
  <2>3. q # queue[k - 1]
    BY <2>2, <1>k
  <2> QED
    BY <2>2, <2>3, <1>d
<1>9. Pendings'
  <2> SUFFICES ASSUME NEW q \in PEs
               PROVE  /\ "put" \in pending'[q] => pc'[q] \in {"held", "clear_cswap"}
                      /\ "reset" \in pending'[q] => pc'[q] \in {"set_swap", "test_cswap"}
                      /\ pc'[q] \in {"set_swap", "test_cswap"} /\ "reset" \notin pending'[q]
                           => data'[q] = Zero
    BY DEF Pendings
  <2>1. pc[queue[k - 1]] \in Queued
    BY <1>k, QueueFacts
  <2>2. pc'[q] \in {"set_swap", "test_cswap"} => data'[q] = data[q]
    BY <2>1, <1>d, <1>k DEF TypeOK
  <2> QED
    BY <2>2 DEF TypeOK, Pendings
<1> QED
  BY <1>1, <1>2, <1>3, <1>4, <1>5, <1>6, <1>7, <1>8, <1>9

(* An operation completes: a reset only ever reaches a word outside the queue. *)
LEMMA Deliver_Inv ==
  ASSUME Inv, NEW p \in PEs, Deliver(p)
  PROVE  Inv'
<1> USE DEF Inv, QueueEncoding, Queued, Owning, Waiting, Releasing, Outside, Goto
<1> PICK op \in pending[p] :
       /\ pending' = [pending EXCEPT ![p] = @ \ {op}]
       /\ data' = IF op = "reset" THEN [data EXCEPT ![p] = Zero] ELSE data
       /\ UNCHANGED <<last, pc, curr, cur_data, queue>>
  BY DEF Deliver
<1>d. \A q \in PEs : pc[q] \in Queued => data'[q] = data[q]
  BY DEF TypeOK, Pendings
<1>1. TypeOK'
  BY PEFacts, ZeroFields, WordFields DEF TypeOK
<1>2. Distinct'
  BY DEF Distinct
<1>3. Members'
  BY SeqFacts DEF TypeOK, Members
<1>4. LastIsTail'
  BY DEF LastIsTail
<1>5. OwnerIsHead'
  BY DEF TypeOK, OwnerIsHead
<1>6. Links'
  <2>1. \A i \in 1 .. Len(queue) : data'[queue[i]] = data[queue[i]]
    BY <1>d, QueueFacts
  <2>2. ASSUME NEW i \in 1 .. Len(queue) - 1
        PROVE  Link(i)'
    <3>1. Link(i) /\ i \in 1 .. Len(queue)
      BY QueueFacts
    <3> QED
      BY <2>1, <3>1 DEF Link
  <2>3. queue # <<>> => Len(queue) \in 1 .. Len(queue)
    BY QueueFacts
  <2> QED
    BY <2>1, <2>2, <2>3 DEF Links
<1>7. Signals'
  BY <1>d DEF Signals
<1>8. Locals'
  BY <1>d DEF Locals
<1>9. Pendings'
  BY DEF TypeOK, Pendings
<1> QED
  BY <1>1, <1>2, <1>3, <1>4, <1>5, <1>6, <1>7, <1>8, <1>9

(* A PE joins at the tail. *)
LEMMA set_swap_Inv ==
  ASSUME Inv, NEW p \in PEs, set_swap(p)
  PROVE  Inv'
<1> USE DEF Inv, QueueEncoding, Queued, Owning, Waiting, Releasing, Outside, Goto, set_swap
<1>a. last = 0 => queue = <<>>
  BY QueueFacts, PEFacts DEF LastIsTail
<1>b. queue = <<>> => last = 0
  BY DEF LastIsTail
<1>c. data[p] = Zero
  BY DEF Pendings, quiet
<1>e. \A i \in 1 .. Len(queue) : queue[i] # p
  BY QueueFacts
<1>f. /\ queue' \in Seq(PEs)
      /\ queue' # <<>>
      /\ Len(queue') = Len(queue) + 1
      /\ \A i \in 1 .. Len(queue) : queue'[i] = queue[i]
      /\ queue'[Len(queue) + 1] = p
  BY QueueFacts, AppendFacts
<1>1. TypeOK'
  BY <1>f, PEFacts DEF TypeOK
<1>2. Distinct'
  BY <1>e, <1>f, QueueFacts DEF Distinct
<1>3. Members'
  <2>1. \A i \in 1 .. Len(queue') : pc'[queue'[i]] \in Queued
    <3> TAKE i \in 1 .. Len(queue')
    <3>1. CASE i \in 1 .. Len(queue)
      BY <3>1, <1>e, <1>f, QueueFacts DEF TypeOK
    <3>2. CASE i = Len(queue) + 1
      BY <3>2, <1>f DEF TypeOK
    <3> QED
      BY <3>1, <3>2, <1>f, QueueFacts
  <2>2. ASSUME NEW q \in PEs, pc'[q] \in Queued
        PROVE  \E i \in 1 .. Len(queue') : queue'[i] = q
    <3>1. CASE q = p
      BY <3>1, <1>f, QueueFacts
    <3>2. CASE q # p
      <4>1. PICK i \in 1 .. Len(queue) : queue[i] = q
        BY <2>2, <3>2, QueueFacts DEF TypeOK
      <4> QED
        BY <4>1, <1>f, QueueFacts
    <3> QED
      BY <3>1, <3>2
  <2> QED
    BY <2>1, <2>2 DEF Members
<1>4. LastIsTail'
  BY <1>f, QueueFacts DEF LastIsTail
<1>5. OwnerIsHead'
  <2>1. queue # <<>> => queue'[1] = queue[1]
    BY <1>f, QueueFacts
  <2>2. queue = <<>> => queue'[1] = p
    BY <1>f, QueueFacts
  <2>3. queue = <<>> => \A q \in PEs : pc[q] \notin Owning
    BY DEF OwnerIsHead
  <2> QED
    BY <2>1, <2>2, <2>3, <1>a, <1>b, <1>f DEF OwnerIsHead, TypeOK
<1>6. Links'
  <2>1. ASSUME NEW i \in 1 .. Len(queue') - 1
        PROVE  Link(i)'
    <3>1. i \in 1 .. Len(queue) /\ queue'[i] = queue[i] /\ queue[i] \in PEs
      BY <1>f, QueueFacts
    <3>2. CASE i = Len(queue)
      <4>1. queue'[i + 1] = p
        BY <3>2, <1>f
      <4>2. queue # <<>>
        BY <3>1, <3>2, QueueFacts
      <4>3. last = queue[i] + 1 /\ data[queue[i]].next = 0
        BY <3>2, <4>2 DEF LastIsTail, Links
      <4>4. last # 0
        BY <3>1, <4>3, PEFacts
      <4>5. pc'[p] = "set_mswap" /\ curr'[p] = queue[i] + 1
        BY <4>3, <4>4 DEF TypeOK
      <4> QED
        BY <3>1, <4>1, <4>3, <4>5 DEF Link
    <3>3. CASE i # Len(queue)
      <4>1. /\ i \in 1 .. Len(queue) - 1
            /\ i + 1 \in 1 .. Len(queue)
            /\ queue'[i + 1] = queue[i + 1]
            /\ queue[i + 1] \in PEs
            /\ queue[i + 1] # p
        BY <3>1, <3>3, <1>e, <1>f, QueueFacts
      <4>2. Link(i)
        BY <4>1, QueueFacts
      <4>3. /\ pc'[queue[i + 1]] = pc[queue[i + 1]]
            /\ curr'[queue[i + 1]] = curr[queue[i + 1]]
        BY <4>1 DEF TypeOK
      <4> QED
        BY <3>1, <4>1, <4>2, <4>3 DEF Link
    <3> QED
      BY <3>2, <3>3
  <2>2. data'[queue'[Len(queue')]].next = 0
    BY <1>c, <1>f, ZeroFields
  <2> QED
    BY <2>1, <2>2 DEF Links
<1>7. Signals'
  <2>1. queue # <<>> => queue'[1] = queue[1]
    BY <1>f, QueueFacts
  <2>2. queue = <<>> => pc'[p] = "held"
    BY <1>b DEF TypeOK
  <2>3. queue # <<>> => queue'[1] # p
    BY <2>1, <1>e, QueueFacts
  <2>4. ~ data[p].signal
    BY <1>c, ZeroFields
  <2>5. queue = <<>> => \A q \in PEs : pc[q] \notin Queued
    BY QueueFacts
  <2> QED
    BY <2>1, <2>2, <2>3, <2>4, <2>5 DEF Signals, TypeOK
<1>8. Locals'
  BY DEF TypeOK, Locals
<1>9. Pendings'
  BY DEF TypeOK, Pendings, quiet
<1> QED
  BY <1>1, <1>2, <1>3, <1>4, <1>5, <1>6, <1>7, <1>8, <1>9

(* A successful test joins an empty queue; a failed one changes nothing. *)
LEMMA test_cswap_Inv ==
  ASSUME Inv, NEW p \in PEs, test_cswap(p)
  PROVE  Inv'
<1> USE DEF Inv, QueueEncoding, Queued, Owning, Waiting, Releasing, Outside, Goto, test_cswap
<1>a. last = 0 => queue = <<>>
  BY QueueFacts, PEFacts DEF LastIsTail
<1>b. queue = <<>> => last = 0
  BY DEF LastIsTail
<1>c. data[p] = Zero
  BY DEF Pendings, quiet
<1>e. \A i \in 1 .. Len(queue) : queue[i] # p
  BY QueueFacts
<1>g. CASE last # 0
  <2>1. /\ pc' = [pc EXCEPT ![p] = "idle"]
        /\ UNCHANGED <<last, data, pending, curr, cur_data, queue>>
    BY <1>g
  <2>2. TypeOK'
    BY <2>1 DEF TypeOK
  <2>3. Distinct' /\ LastIsTail' /\ OwnerIsHead' /\ Signals' /\ Locals'
    BY <2>1 DEF TypeOK, Distinct, LastIsTail, OwnerIsHead, Signals, Locals
  <2>4. Members'
    BY <2>1, QueueFacts DEF Members, TypeOK
  <2>5. Links'
    BY <2>1, LinksKept
  <2>6. Pendings'
    BY <2>1 DEF TypeOK, Pendings, quiet
  <2> QED
    BY <2>2, <2>3, <2>4, <2>5, <2>6
<1>h. CASE last = 0
  <2>1. /\ pc' = [pc EXCEPT ![p] = "held"]
        /\ last' = p + 1
        /\ UNCHANGED <<data, pending, curr, cur_data>>
    BY <1>h
  <2>2. /\ queue = <<>> /\ queue' = Append(queue, p)
        /\ \A q \in PEs : pc[q] \notin Queued
    BY <1>h, <1>a, QueueFacts
  <2>3. /\ queue' \in Seq(PEs) /\ queue' # <<>>
        /\ Len(queue') = 1 /\ queue'[1] = p
    BY <2>2, QueueFacts, AppendFacts
  <2>4. TypeOK'
    BY <2>1, <2>3, PEFacts DEF TypeOK
  <2>5. Distinct' /\ LastIsTail' /\ OwnerIsHead' /\ Members'
    BY <2>1, <2>2, <2>3 DEF TypeOK, Distinct, LastIsTail, OwnerIsHead, Members
  <2>6. Signals' /\ Locals'
    BY <2>1, <2>2, <2>3 DEF TypeOK, Signals, Locals
  <2>7. Links'
    BY <2>1, <2>3, <1>c, ZeroFields DEF Links
  <2>8. Pendings'
    BY <2>1 DEF TypeOK, Pendings, quiet
  <2> QED
    BY <2>4, <2>5, <2>6, <2>7, <2>8
<1> QED
  BY <1>g, <1>h

(* The owner leaves a queue that holds nobody else. *)
LEMMA clear_cswap_Inv ==
  ASSUME Inv, NEW p \in PEs, clear_cswap(p)
  PROVE  Inv'
<1> USE DEF Inv, QueueEncoding, Queued, Owning, Waiting, Releasing, Outside, Goto, clear_cswap
<1>a. queue # <<>> /\ queue[1] = p /\ Len(queue) \in Nat \ {0}
  BY QueueFacts DEF OwnerIsHead
<1>b. CASE last # p + 1
  <2>1. /\ pc' = [pc EXCEPT ![p] = "clear_fetch"]
        /\ UNCHANGED <<last, data, pending, curr, cur_data, queue>>
    BY <1>b
  <2>2. TypeOK'
    BY <2>1 DEF TypeOK
  <2>3. Distinct' /\ LastIsTail' /\ OwnerIsHead' /\ Signals' /\ Locals'
    BY <2>1 DEF TypeOK, Distinct, LastIsTail, OwnerIsHead, Signals, Locals
  <2>4. Members'
    BY <2>1, QueueFacts DEF Members, TypeOK
  <2>5. Links'
    BY <2>1, LinksKept
  <2>6. Pendings'
    BY <2>1 DEF TypeOK, Pendings, quiet
  <2> QED
    BY <2>2, <2>3, <2>4, <2>5, <2>6
<1>c. CASE last = p + 1
  <2>1. /\ pc' = [pc EXCEPT ![p] = "idle"]
        /\ last' = 0
        /\ queue' = Tail(queue)
        /\ UNCHANGED <<data, pending, curr, cur_data>>
    BY <1>c
  <2>2. queue[Len(queue)] = p
    BY <1>a, <1>c, QueueFacts, PEFacts DEF LastIsTail
  <2>3. Len(queue) = 1
    <3>1. 1 \in 1 .. Len(queue) /\ Len(queue) \in 1 .. Len(queue)
      BY <1>a
    <3> QED
      BY <1>a, <2>2, <3>1, QueueFacts
  <2>4. queue' = <<>> /\ queue' \in Seq(PEs) /\ Len(queue') = 0
    BY <1>a, <2>1, <2>3, QueueFacts, TailFacts
  <2>5. \A q \in PEs : pc'[q] \notin Queued
    BY <1>a, <2>1, <2>3, QueueFacts DEF TypeOK
  <2>6. TypeOK'
    BY <2>1, <2>4, PEFacts DEF TypeOK
  <2>7. Distinct' /\ LastIsTail' /\ OwnerIsHead' /\ Members'
    BY <2>1, <2>4, <2>5 DEF Distinct, LastIsTail, OwnerIsHead, Members
  <2>8. Signals' /\ Locals' /\ Links'
    BY <2>4, <2>5 DEF Signals, Locals, Links
  <2>9. Pendings'
    BY <2>1 DEF TypeOK, Pendings, quiet
  <2> QED
    BY <2>6, <2>7, <2>8, <2>9
<1> QED
  BY <1>b, <1>c

(* The owner leaves and its successor becomes the head, with its bit set. *)
LEMMA clear_signal_Inv ==
  ASSUME Inv, NEW p \in PEs, clear_signal(p)
  PROVE  Inv'
<1> USE DEF Inv, QueueEncoding, Queued, Owning, Waiting, Releasing, Outside, Goto, clear_signal
<1>a. /\ queue # <<>> /\ queue[1] = p
      /\ cur_data[p].next # 0 /\ cur_data[p].next = data[p].next
  BY DEF OwnerIsHead, Locals
<1>b. Len(queue) \in Nat /\ Len(queue) >= 2
  <2>1. Len(queue) # 1
    BY <1>a DEF Links
  <2>2. Len(queue) \in Nat /\ Len(queue) # 0
    BY <1>a, QueueFacts
  <2> QED
    <3>1. \A n \in Nat : n # 0 /\ n # 1 => n >= 2
      OBVIOUS
    <3> QED
      BY <2>1, <2>2, <3>1
<1>c. /\ queue' \in Seq(PEs)
      /\ Len(queue') = Len(queue) - 1
      /\ queue' # <<>>
      /\ \A i \in 1 .. Len(queue') : queue'[i] = queue[i + 1] /\ i + 1 \in 1 .. Len(queue)
  BY <1>a, <1>b, QueueFacts, TailFacts
<1> DEFINE q == queue[2]
<1>e. /\ q \in PEs /\ q # p /\ pc[q] \in Waiting
      /\ data[p].next = q + 1
  <2>1. 2 \in 1 .. Len(queue) /\ 1 \in 1 .. Len(queue) - 1 /\ 1 \in 1 .. Len(queue)
    BY <1>b, QueueFacts
  <2>2. q \in PEs /\ q # p /\ pc[q] \in Queued /\ pc[q] \notin Owning
    BY <1>a, <2>1, QueueFacts
  <2>3. Link(1) /\ 1 + 1 = 2
    BY <2>1, QueueFacts
  <2>4. pc[q] # "set_mswap" /\ data[p].next = q + 1
    BY <1>a, <2>3 DEF Link
  <2> QED
    BY <2>2, <2>4
<1>f. PICK w \in Word :
        /\ data' = [data EXCEPT ![q] = w]
        /\ w.next = data[q].next
        /\ w.signal = TRUE
  <2>1. cur_data[p].next - 1 = q
    BY <1>a, <1>e, PEFacts
  <2>2. data[q] \in Word
    BY <1>e DEF TypeOK
  <2>3. 0 \in 0 .. num_pes
    BY PEFacts
  <2> DEFINE v == mswap_signal(data[q])
  <2>4. v \in Word /\ v.next = data[q].next /\ v.signal = TRUE
    BY <2>2, <2>3, WordFields
  <2>5. data' = [data EXCEPT ![q] = v]
    BY <2>1
  <2> HIDE DEF v
  <2> QED
    BY <2>4, <2>5
<1> HIDE DEF q
<1>g. /\ data' \in [PEs -> Word]
      /\ \A r \in PEs : data'[r].next = data[r].next
      /\ \A r \in PEs : r # q => data'[r] = data[r]
      /\ data'[q].signal = TRUE
  <2>1. data \in [PEs -> Word] /\ q \in PEs
    BY <1>e DEF TypeOK
  <2> QED
    BY ONLY <2>1, <1>f
<1>h. queue'[1] = q
  BY <1>b, <1>c, QueueFacts DEF q
<1>1. TypeOK'
  BY <1>c, <1>g, ZeroFields DEF TypeOK
<1>2. Distinct'
  BY <1>c, QueueFacts DEF Distinct
<1>3. Members'
  <2>1. \A i \in 1 .. Len(queue') : pc'[queue'[i]] \in Queued
    <3> TAKE i \in 1 .. Len(queue')
    <3>1. queue'[i] = queue[i + 1] /\ i + 1 \in 1 .. Len(queue) /\ i + 1 # 1
      BY <1>c, QueueFacts
    <3>2. 1 \in 1 .. Len(queue)
      BY <1>b, QueueFacts
    <3>3. queue[i + 1] # p
      BY <1>a, <3>1, <3>2, QueueFacts
    <3> QED
      BY <3>1, <3>3, QueueFacts DEF TypeOK
  <2>2. ASSUME NEW r \in PEs, pc'[r] \in Queued
        PROVE  \E i \in 1 .. Len(queue') : queue'[i] = r
    <3>1. r # p /\ pc[r] \in Queued
      BY <2>2 DEF TypeOK
    <3>2. PICK i \in 1 .. Len(queue) : queue[i] = r
      BY <3>1, QueueFacts
    <3>3. i # 1
      BY <1>a, <3>1, <3>2
    <3>4. i - 1 \in 1 .. Len(queue') /\ (i - 1) + 1 = i
      BY <1>c, <3>2, <3>3, QueueFacts
    <3>5. queue'[i - 1] = queue[(i - 1) + 1]
      BY <3>4, <1>c
    <3> QED
      BY <3>2, <3>4, <3>5
  <2> QED
    BY <2>1, <2>2 DEF Members
<1>4. LastIsTail'
  <2>1. Len(queue') \in 1 .. Len(queue') /\ Len(queue') + 1 = Len(queue)
    BY <1>b, <1>c, QueueFacts
  <2>2. queue'[Len(queue')] = queue[Len(queue)]
    BY <1>c, <2>1
  <2> QED
    BY <1>a, <1>c, <2>2 DEF LastIsTail
<1>5. OwnerIsHead'
  <2>1. \A r \in PEs : r # p => pc[r] \notin Owning
    BY <1>a DEF OwnerIsHead
  <2> QED
    BY <2>1 DEF OwnerIsHead, TypeOK
<1>6. Links'
  <2>1. ASSUME NEW i \in 1 .. Len(queue') - 1
        PROVE  Link(i)'
    <3>1. /\ i + 1 \in 1 .. Len(queue) - 1
          /\ i \in 1 .. Len(queue') /\ i + 1 \in 1 .. Len(queue')
          /\ i + 1 \in 1 .. Len(queue) /\ (i + 1) + 1 \in 1 .. Len(queue)
          /\ (i + 1) + 1 # 1 /\ 1 \in 1 .. Len(queue)
      BY <1>c, QueueFacts
    <3>2. queue'[i] = queue[i + 1] /\ queue'[i + 1] = queue[(i + 1) + 1]
      BY <3>1, <1>c
    <3>3. Link(i + 1)
      BY <3>1, QueueFacts
    <3>4. queue[i + 1] \in PEs /\ queue[(i + 1) + 1] \in PEs /\ queue[(i + 1) + 1] # p
      BY <1>a, <3>1, QueueFacts
    <3>5. pc'[queue[(i + 1) + 1]] = pc[queue[(i + 1) + 1]]
      BY <3>4 DEF TypeOK
    <3>6. data'[queue[i + 1]].next = data[queue[i + 1]].next
      BY <3>4, <1>g
    <3> QED
      BY <3>2, <3>3, <3>5, <3>6 DEF Link
  <2>2. Len(queue') \in 1 .. Len(queue') /\ Len(queue') + 1 = Len(queue) /\ Len(queue) \in 1 .. Len(queue)
    BY <1>b, <1>c, QueueFacts
  <2>3. queue'[Len(queue')] = queue[Len(queue)]
    BY <1>c, <2>2
  <2>4. data'[queue[Len(queue)]].next = 0
    BY <1>a, <1>g, <2>2, QueueFacts DEF Links
  <2> QED
    BY <2>1, <2>3, <2>4 DEF Links
<1>7. Signals'
  <2>1. ASSUME NEW r \in PEs, r # q, pc'[r] \in Queued
        PROVE  r # p /\ pc'[r] = pc[r] /\ data'[r] = data[r]
    BY <2>1, <1>g DEF TypeOK
  <2>2. pc'[q] = pc[q]
    BY <1>e DEF TypeOK
  <2> QED
    BY <1>a, <1>e, <1>g, <1>h, <2>1, <2>2 DEF Signals
<1>8. Locals'
  <2>1. \A r \in PEs : pc'[r] # "clear_signal"
    BY <1>a DEF OwnerIsHead, TypeOK
  <2> QED
    BY <2>1 DEF Locals
<1>9. Pendings'
  BY <1>e, <1>g DEF TypeOK, Pendings
<1> QED
  BY <1>1, <1>2, <1>3, <1>4, <1>5, <1>6, <1>7, <1>8, <1>9

(* Every step of the system preserves the encoding of the queue. *)
LEMMA NextInv == Inv /\ [Next]_vars => Inv'
<1> SUFFICES ASSUME Inv, [Next]_vars PROVE Inv'
  OBVIOUS
<1>1. ASSUME NEW p \in PEs, Call(p) PROVE Inv'
  BY <1>1, set_reset_Inv, test_reset_Inv, critical_put_Inv DEF Call
<1>2. ASSUME NEW p \in PEs, SetLock(p) PROVE Inv'
  BY <1>2, set_swap_Inv, set_mswap_Inv, set_fetch_Inv, set_wait_Inv DEF SetLock
<1>3. ASSUME NEW p \in PEs, ClearLock(p) PROVE Inv'
  BY <1>3, clear_call_Inv, clear_cswap_Inv, clear_fetch_Inv, clear_wait_Inv,
     clear_signal_Inv DEF ClearLock
<1>4. CASE UNCHANGED vars
  BY <1>4 DEF vars, Inv, TypeOK, QueueEncoding, Distinct, Members, LastIsTail,
     OwnerIsHead, Links, Link, Signals, Locals, Pendings
<1> QED
  BY <1>1, <1>2, <1>3, <1>4, test_cswap_Inv, Deliver_Inv DEF Next

(* The types of the lock words and of the callers' locals hold in every     *)
(* reachable state, for every number of PEs.                                *)
THEOREM TypeCorrect == Spec => []TypeOK
<1>1. Inv => TypeOK
  BY DEF Inv
<1> QED
  BY InitInv, NextInv, <1>1, PTL DEF Spec

(* The words of the lock always encode the queue of callers (shmem_lock.h):  *)
(* last is its tail, NEXT fields its links, the signal bit its head.         *)
THEOREM LockEncodesQueue == Spec => []QueueEncoding
<1>1. Inv => QueueEncoding
  BY DEF Inv
<1> QED
  BY InitInv, NextInv, <1>1, PTL DEF Spec

(* Two PEs never hold the lock at once, between set_lock or a successful     *)
(* test_lock and the hand-over in clear_lock, for every number of PEs.       *)
THEOREM LockExcludes == Spec => []MutualExclusion
<1>1. Inv => MutualExclusion
  BY DEF Inv, QueueEncoding, OwnerIsHead, MutualExclusion
<1> QED
  BY InitInv, NextInv, <1>1, PTL DEF Spec

(* When a PE owns the lock, no put of an earlier critical section is still   *)
(* on its way: clear_lock's quiet precedes the release.                      *)
THEOREM LockOrdersPuts == Spec => []CriticalPutsComplete
<1>1. Inv => CriticalPutsComplete
  BY DEF Inv, QueueEncoding, OwnerIsHead, Pendings, CriticalPutsComplete, Owning, Releasing
<1> QED
  BY InitInv, NextInv, <1>1, PTL DEF Spec

-----------------------------------------------------------------------------
(* The lock implements FifoLock, but for its liveness.                     *)

PhaseAt(l) == IF l \in Outside THEN "out" ELSE IF l \in Owning THEN "owner" ELSE "waiting"
phase == [p \in PEs |-> Phase(p)]

(* The phase of a PE follows from where it is in the lock calls. *)
LEMMA PhaseIs == TypeOK => phase = [p \in PEs |-> PhaseAt(pc[p])]
<1> SUFFICES ASSUME TypeOK PROVE phase = [p \in PEs |-> PhaseAt(pc[p])]
  OBVIOUS
<1>1. ASSUME NEW p \in PEs PROVE Phase(p) = PhaseAt(pc[p])
  BY DEF Phase, PhaseAt, Outside, Owning, Releasing
<1> QED
  BY <1>1 DEF phase

(* A step of one PE changes the phase of that PE, to the one of its new    *)
(* point.                                                                  *)
LEMMA PhaseMoves ==
  ASSUME TypeOK, TypeOK', NEW p \in PEs, NEW l, Goto(p, l)
  PROVE  /\ phase' = [phase EXCEPT ![p] = PhaseAt(l)]
         /\ phase[p] = PhaseAt(pc[p])
<1>1. /\ phase = [q \in PEs |-> PhaseAt(pc[q])]
      /\ phase' = [q \in PEs |-> PhaseAt(pc'[q])]
  <2>1. ASSUME NEW q \in PEs PROVE Phase(q)' = PhaseAt(pc'[q])
    BY DEF Phase, PhaseAt, Outside, Owning, Releasing
  <2> QED
    BY <2>1, PhaseIs DEF phase
<1>2. pc' = [pc EXCEPT ![p] = l] /\ pc \in [PEs -> Outside \cup Queued]
  BY DEF Goto, TypeOK
<1> QED
  BY <1>1, <1>2

(* A step between points of one phase that leaves the queue alone is a     *)
(* stutter of the abstract lock.                                           *)
LEMMA PhaseStutters ==
  ASSUME TypeOK, TypeOK', NEW p \in PEs, NEW l, Goto(p, l), queue' = queue,
         PhaseAt(l) = PhaseAt(pc[p])
  PROVE  UNCHANGED Fifo!fifoVars
<1>1. phase' = [phase EXCEPT ![p] = phase[p]]
  BY PhaseMoves
<1>2. phase' = phase
  BY <1>1 DEF phase
<1> QED
  BY <1>2 DEF Fifo!fifoVars, phase

(* The swap of last, or the cswap of test_lock, is where a PE joins. *)
LEMMA Joins ==
  ASSUME Inv, TypeOK', NEW p \in PEs, pc[p] \in {"set_swap", "test_cswap"},
         queue' = Append(queue, p),
         NEW l, l = (IF last = 0 THEN "held" ELSE "set_mswap"), Goto(p, l)
  PROVE  Fifo!Join(p)
<1>1. last = 0 <=> queue = <<>>
  <2>1. queue # <<>> => queue[Len(queue)] \in PEs
    BY QueueFacts DEF Inv, TypeOK
  <2> QED
    BY <2>1, PEFacts DEF Inv, QueueEncoding, LastIsTail
<1>2. phase' = [phase EXCEPT ![p] = PhaseAt(l)] /\ phase[p] = PhaseAt(pc[p])
  BY PhaseMoves DEF Inv
<1>3. phase[p] = "out" /\ PhaseAt(l) = IF queue = <<>> THEN "owner" ELSE "waiting"
  BY <1>1, <1>2 DEF PhaseAt, Outside, Owning, Releasing
<1>4. phase' = [phase EXCEPT ![p] = IF queue = <<>> THEN "owner" ELSE "waiting"]
  BY <1>2, <1>3
<1> QED
  BY <1>3, <1>4 DEF Fifo!Join, phase

(* The owner is the head of the queue, and takes its leave. *)
LEMMA Leaves ==
  ASSUME Inv, TypeOK', NEW p \in PEs, pc[p] \in Owning, queue' = Tail(queue), Goto(p, "idle")
  PROVE  Fifo!Leave(p)
<1>1. queue # <<>> /\ queue[1] = p
  BY DEF Inv, QueueEncoding, OwnerIsHead
<1>2. Head(queue) = p
  BY <1>1 DEF Inv, TypeOK
<1>3. phase' = [phase EXCEPT ![p] = PhaseAt("idle")] /\ phase[p] = PhaseAt(pc[p])
  BY PhaseMoves DEF Inv
<1>4. PhaseAt("idle") = "out" /\ phase[p] = "owner"
  BY <1>3, Points DEF PhaseAt
<1> QED
  BY <1>2, <1>3, <1>4 DEF Fifo!Leave, phase

(* A waiter that reads the signal bit in its word is the head. *)
LEMMA Enters ==
  ASSUME Inv, TypeOK', NEW p \in PEs, pc[p] = "set_fetch", data[p].signal, queue' = queue,
         Goto(p, "held")
  PROVE  Fifo!Enter(p)
<1>1. queue[1] = p
  BY Points DEF Inv, QueueEncoding, Signals
<1>2. queue # <<>>
  BY QueueFacts, Points
<1>3. Head(queue) = p
  BY <1>1, <1>2 DEF Inv, TypeOK
<1>4. phase' = [phase EXCEPT ![p] = PhaseAt("held")] /\ phase[p] = PhaseAt(pc[p])
  BY PhaseMoves DEF Inv
<1>5. PhaseAt("held") = "owner" /\ phase[p] = "waiting"
  BY <1>4, Points DEF PhaseAt
<1> QED
  BY <1>3, <1>4, <1>5 DEF Fifo!Enter, phase

(* The initial state is the abstract one. *)
LEMMA FifoInitHolds == Init => Fifo!FifoInit
<1> SUFFICES ASSUME Init PROVE Fifo!FifoInit
  OBVIOUS
<1>1. \A p \in PEs : Phase(p) = "out"
  BY DEF Init, Phase, Outside, Owning, Releasing
<1>2. queue = <<>> /\ [p \in PEs |-> Phase(p)] = [p \in PEs |-> "out"]
  BY <1>1 DEF Init
<1> QED
  BY <1>2 DEF Fifo!FifoInit

(* Every step of the lock calls is a step of the abstract lock, or none. *)
LEMMA FifoStep == Inv /\ Inv' /\ [Next]_vars => [Fifo!FifoNext]_(Fifo!fifoVars)
<1> SUFFICES ASSUME Inv, Inv', [Next]_vars PROVE Fifo!FifoNext \/ UNCHANGED Fifo!fifoVars
  OBVIOUS
<1> USE DEF Inv
<1>1. CASE UNCHANGED vars
  <2>1. queue' = queue /\ pc' = pc
    BY <1>1 DEF vars
  <2> QED
    BY <2>1 DEF Fifo!fifoVars, Phase
<1>2. ASSUME NEW p \in PEs, critical_put(p) \/ Deliver(p) PROVE UNCHANGED Fifo!fifoVars
  <2>1. queue' = queue /\ pc' = pc
    BY <1>2 DEF critical_put, Deliver
  <2> QED
    BY <2>1 DEF Fifo!fifoVars, Phase
<1>3. ASSUME NEW p \in PEs,
             \/ set_reset(p) \/ test_reset(p) \/ set_mswap(p) \/ set_wait(p)
             \/ clear_call(p) \/ clear_fetch(p) \/ clear_wait(p)
      PROVE  UNCHANGED Fifo!fifoVars
  <2>1. queue' = queue /\ \E l : Goto(p, l) /\ PhaseAt(l) = PhaseAt(pc[p])
    <3> USE Points DEF PhaseAt
    <3>1. CASE set_reset(p) \/ test_reset(p)
      BY <3>1 DEF set_reset, test_reset
    <3>2. CASE set_mswap(p) \/ set_wait(p)
      BY <3>2 DEF set_mswap, set_wait
    <3>3. CASE clear_call(p) \/ clear_fetch(p) \/ clear_wait(p)
      BY <3>3 DEF clear_call, clear_fetch, clear_wait
    <3> QED
      BY <1>3, <3>1, <3>2, <3>3
  <2> QED
    BY <2>1, PhaseStutters
<1>4. ASSUME NEW p \in PEs, set_swap(p) PROVE Fifo!FifoNext
  BY <1>4, Joins DEF set_swap, Fifo!FifoNext
<1>5. ASSUME NEW p \in PEs, set_fetch(p) PROVE Fifo!FifoNext \/ UNCHANGED Fifo!fifoVars
  <2>1. CASE data[p].signal
    BY <1>5, <2>1, Enters DEF set_fetch, Fifo!FifoNext
  <2>2. CASE ~ data[p].signal
    <3>1. PhaseAt("set_wait") = PhaseAt(pc[p]) /\ Goto(p, "set_wait") /\ queue' = queue
      BY <1>5, <2>2, Points DEF set_fetch, PhaseAt
    <3> QED
      BY <3>1, PhaseStutters
  <2> QED
    BY <2>1, <2>2
<1>6. ASSUME NEW p \in PEs, test_cswap(p) PROVE Fifo!FifoNext \/ UNCHANGED Fifo!fifoVars
  <2>1. CASE last = 0
    BY <1>6, <2>1, Joins DEF test_cswap, Fifo!FifoNext
  <2>2. CASE last # 0
    <3>1. PhaseAt("idle") = PhaseAt(pc[p]) /\ Goto(p, "idle") /\ queue' = queue
      BY <1>6, <2>2, Points DEF test_cswap, PhaseAt
    <3> QED
      BY <3>1, PhaseStutters
  <2> QED
    BY <2>1, <2>2
<1>7. ASSUME NEW p \in PEs, clear_cswap(p) PROVE Fifo!FifoNext \/ UNCHANGED Fifo!fifoVars
  <2>1. CASE last = p + 1
    BY <1>7, <2>1, Leaves, Points DEF clear_cswap, Fifo!FifoNext
  <2>2. CASE last # p + 1
    <3>1. PhaseAt("clear_fetch") = PhaseAt(pc[p]) /\ Goto(p, "clear_fetch") /\ queue' = queue
      BY <1>7, <2>2, Points DEF clear_cswap, PhaseAt
    <3> QED
      BY <3>1, PhaseStutters
  <2> QED
    BY <2>1, <2>2
<1>8. ASSUME NEW p \in PEs, clear_signal(p) PROVE Fifo!FifoNext
  BY <1>8, Leaves, Points DEF clear_signal, Fifo!FifoNext
<1> QED
  BY <1>1, <1>2, <1>3, <1>4, <1>5, <1>6, <1>7, <1>8 DEF Next, Call, SetLock, ClearLock

(* The safety of the refinement: whatever set_lock, test_lock and            *)
(* clear_lock calls the PEs make, the lock goes from one to the next in the  *)
(* order of their swaps of last, and never to a PE that has not joined.      *)
THEOREM LockIsFifo == Spec => Fifo!FifoInit /\ [][Fifo!FifoNext]_(Fifo!fifoVars)
<1>1. Spec => []Inv
  BY InitInv, NextInv, PTL DEF Spec
<1> QED
  BY <1>1, FifoInitHolds, FifoStep, PTL DEF Spec
=============================================================================
