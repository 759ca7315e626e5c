---------------------------- MODULE SymmetricHeap ---------------------------
(***************************************************************************)
(* The collective allocation calls of src/src/symmetric_heap_c.c, each PE  *)
(* with its own allocator.  As OpenSHMEM demands, all PEs make the same    *)
(* calls with the same arguments in the same order, each in its own time.  *)
(* A PE may access a block on any other PE, at the block's address in its  *)
(* own heap, from the return of the call that allocates the block to the   *)
(* call that frees it.                                                     *)
(***************************************************************************)
EXTENDS Dlmalloc

CONSTANTS
  num_pes,
  AllocCalls,     \* allocating calls the program may make
  ReallocSizes,   \* sizes it may ask shmem_realloc for
  MaxBlocks,      \* how many blocks the program holds at a time
  MaxAhead,       \* how many calls a PE may be ahead of another
  MaxCalls        \* how many calls the program makes

ASSUME CallsAssumption ==
  /\ {num_pes, MaxBlocks, MaxAhead, MaxCalls} \subseteq Nat \ {0} /\ ReallocSizes \subseteq Nat
  /\ AllocCalls \subseteq [op : {"malloc", "calloc", "align"}, bytes : Nat, align : Nat]

PE == 0 .. num_pes - 1

VARIABLES
  calls,     \* how many calls the program has come to
  todo,      \* by PE: calls that another PE has made and it has not
  call,      \* by PE: the call it is in
  heap,      \* by PE: the malloc_state
  pc,        \* by PE: where it is inside its call
  barriers,  \* by PE: barriers it has entered and the last PE has not
  ret,       \* by PE: the pointer the call is given, then the one it gets
  held       \* by PE: the blocks the program has got, numbered alike on all

vars == <<calls, todo, call, heap, pc, barriers, ret, held>>

NoCall == [op |-> "none", bytes |-> 0, align |-> 16, block |-> 0]

Init ==
  /\ calls = 0
  /\ todo = [p \in PE |-> <<>>]
  /\ call = [p \in PE |-> NoCall]
  /\ heap = [p \in PE |-> gm]
  /\ pc = [p \in PE |-> "user"]
  /\ barriers = [p \in PE |-> 0]
  /\ ret = [p \in PE |-> NULL]
  /\ held = [p \in PE |-> [b \in {} |-> NULL]]

(* What a PE that holds the blocks B may call. *)
Calls(B) ==
       {c \in {[NoCall EXCEPT !.op = a.op, !.bytes = a.bytes, !.align = a.align] : a \in AllocCalls} :
          Cardinality(B) < MaxBlocks}
  \cup {[NoCall EXCEPT !.op = "free", !.block = b] : b \in B}
  \cup {[NoCall EXCEPT !.op = "realloc", !.block = b, !.bytes = n] : b \in B, n \in ReallocSizes}

Goto(p, l) == pc' = [pc EXCEPT ![p] = l]

Drop(H, b) == [x \in DOMAIN H \ {b} |-> H[x]]

(* The early returns of a call that has nothing to do. *)
trivial(c) == c.op \in {"malloc", "calloc", "align"} /\ (c.bytes = 0 \/ c.align = 0)

(* Mutated form: shmem_free releases the block first. *)
entry_free_at_once(c) == IF c.op = "realloc" THEN "barrier_before" ELSE "alloc"

(* shmem_free and shmem_realloc enter a barrier before they touch the heap. *)
entry(c) == IF c.op \in {"free", "realloc"} THEN "barrier_before" ELSE "alloc"

(* One more barrier for p; only the differences between PEs count. *)
Arrive(B, p) ==
  LET C == [B EXCEPT ![p] = @ + 1]
      low == CHOOSE n \in {C[q] : q \in PE} : \A q \in PE : n <= C[q]
  IN  [q \in PE |-> C[q] - low]

barrier_all(p) == \A q \in PE : barriers[q] >= barriers[p]

(* The PE that is ahead chooses the next call, the others follow. *)
begin(p, c) ==
  /\ call' = [call EXCEPT ![p] = IF trivial(c) THEN NoCall ELSE c]
  /\ Goto(p, IF trivial(c) THEN "user" ELSE entry(c))
  /\ barriers' = IF ~ trivial(c) /\ entry(c) = "barrier_before" THEN Arrive(barriers, p) ELSE barriers
  /\ ret' = [ret EXCEPT ![p] = IF c.block = 0 THEN NULL ELSE held[p][c.block].mem]
  /\ UNCHANGED <<heap, held>>

call_first(p) ==
  /\ pc[p] = "user" /\ todo[p] = <<>>
  /\ calls < MaxCalls /\ calls' = calls + 1
  /\ \A q \in PE : Len(todo[q]) < MaxAhead
  /\ \E c \in Calls(DOMAIN held[p]) :
       /\ begin(p, c)
       /\ todo' = [q \in PE |-> IF q = p THEN <<>> ELSE Append(todo[q], c)]

call_next(p) ==
  /\ pc[p] = "user" /\ todo[p] # <<>>
  /\ begin(p, Head(todo[p]))
  /\ todo' = [todo EXCEPT ![p] = Tail(@)]
  /\ UNCHANGED calls

barrier_before(p) ==
  /\ pc[p] = "barrier_before"
  /\ barrier_all(p)
  /\ Goto(p, "alloc")
  /\ UNCHANGED <<calls, todo, call, heap, barriers, ret, held>>

(* The call on the allocator, under shmem_internal_mutex_alloc. *)
allocate(m, c, ptr) ==
  CASE c.op = "malloc"  -> dlmalloc(m, c.bytes)
    [] c.op = "calloc"  -> dlcalloc(m, 1, c.bytes)
    [] c.op = "align"   -> dlmemalign(m, c.align, c.bytes)
    [] c.op = "free"    -> [m |-> dlfree(m, ptr), mem |-> NULL]
    [] c.op = "realloc" -> IF c.bytes = 0 THEN [m |-> dlfree(m, ptr), mem |-> NULL]
                           ELSE dlrealloc(m, ptr, c.bytes)

(* shmem_free is done with it; the others enter the barrier behind. *)
alloc(p) ==
  /\ pc[p] = "alloc"
  /\ LET got == allocate(heap[p], call[p], ret[p]) IN
     /\ heap' = [heap EXCEPT ![p] = got.m]
     /\ ret' = [ret EXCEPT ![p] = got.mem]
  /\ IF call[p].op = "free"
     THEN /\ Goto(p, "user") /\ UNCHANGED barriers
          /\ held' = [held EXCEPT ![p] = Drop(@, call[p].block)]
          /\ call' = [call EXCEPT ![p] = NoCall]
     ELSE /\ Goto(p, "barrier_after") /\ UNCHANGED <<held, call>>
          /\ barriers' = Arrive(barriers, p)
  /\ UNCHANGED <<calls, todo>>

(* The program's books: a new block gets the first free number; one that     *)
(* shmem_realloc could not grow is still there.                              *)
keep(B, c, mem) ==
  LET rest == IF mem = NULL /\ c.bytes # 0 THEN B ELSE Drop(B, c.block)
      b    == CHOOSE n \in 1 .. MaxBlocks : n \notin DOMAIN rest /\ \A k \in 1 .. n - 1 : k \in DOMAIN rest
  IN  IF mem = NULL THEN rest
      ELSE (b :> [mem |-> mem, bytes |-> c.bytes, align |-> c.align]) @@ rest

barrier_after(p) ==
  /\ pc[p] = "barrier_after"
  /\ barrier_all(p)
  /\ Goto(p, "user")
  /\ held' = [held EXCEPT ![p] = keep(@, call[p], ret[p])]
  /\ call' = [call EXCEPT ![p] = NoCall]
  /\ ret' = [ret EXCEPT ![p] = NULL]
  /\ UNCHANGED <<calls, todo, heap, barriers>>

step(p) == barrier_before(p) \/ alloc(p) \/ barrier_after(p)

(* The only state in which nothing is left to do: a call that does not come  *)
(* back on some PE, say because another one has returned from its own        *)
(* without a barrier, is a deadlock.                                         *)
Finished ==
  /\ calls = MaxCalls /\ \A p \in PE : pc[p] = "user" /\ todo[p] = <<>>
  /\ UNCHANGED vars

Next == (\E p \in PE : call_first(p) \/ call_next(p) \/ step(p)) \/ Finished

Spec == Init /\ [][Next]_vars

-----------------------------------------------------------------------------
(* The blocks that p may use on any PE just now. *)
Usable(p) == DOMAIN held[p] \ {call[p].block}

InBins(m, p) ==
  \/ \E s \in DOMAIN m.small : \E i \in 1 .. Len(m.small[s]) : m.small[s][i] = p
  \/ p \in Chunks(m.trees)

(* do_check_top_chunk *)
check_top_chunk(m) ==
  /\ chunksize(m, m.top) = m.topsize /\ m.topsize > 0
  /\ m.top + m.topsize = m.seg.base + m.seg.size - TOP_FOOT_SIZE
  /\ ~ cinuse(m, m.top) /\ pinuse(m, m.top) /\ ~ pinuse(m, m.top + m.topsize)
  /\ ~ InBins(m, m.top)

(* do_check_inuse_chunk *)
check_inuse_chunk(m, p) ==
  /\ pinuse(m, next_chunk(m, p))
  /\ ~ pinuse(m, p) => next_chunk(m, p - m.chunk[p].prev_foot) = p
  /\ ~ InBins(m, p) /\ p # m.dv

(* do_check_free_chunk: never two free chunks side by side. *)
check_free_chunk(m, p) ==
  LET next == next_chunk(m, p) IN
  /\ m.chunk[p].size >= MIN_CHUNK_SIZE
  /\ m.chunk[next].prev_foot = m.chunk[p].size /\ ~ pinuse(m, next)
  /\ pinuse(m, p) /\ (next = m.top \/ cinuse(m, next))
  /\ (p = m.dv) # InBins(m, p)

(* do_check_smallbin, do_check_tree: what is in a bin is a free chunk of the *)
(* size the bin is for, once.                                                *)
check_bins(m) ==
  /\ \A s \in DOMAIN m.small : \A i \in 1 .. Len(m.small[s]) :
       /\ m.small[s][i] \in DOMAIN m.chunk /\ chunksize(m, m.small[s][i]) = s
       /\ \A j \in 1 .. i - 1 : m.small[s][j] # m.small[s][i]
  /\ \A k \in DOMAIN m.trees : \A i \in 1 .. Len(m.trees[k].ring) :
       /\ m.trees[k].ring[i] \in DOMAIN m.chunk
       /\ chunksize(m, m.trees[k].ring[i]) = m.trees[k].size

(* do_check_malloc_state, traverse_and_check *)
check_malloc_state(m) ==
  m.top # NULL =>
    LET end == m.seg.base + m.seg.size IN
    /\ m.seg.base \in DOMAIN m.chunk /\ pinuse(m, m.seg.base)
    /\ \A p \in DOMAIN m.chunk : p >= m.seg.base /\ next_chunk(m, p) \in DOMAIN m.chunk \cup {end}
    /\ check_top_chunk(m) /\ check_bins(m)
    /\ m.dvsize = (IF m.dv = NULL THEN 0 ELSE chunksize(m, m.dv))
    /\ \A p \in DOMAIN m.chunk \ {m.top, m.top + m.topsize} :
         IF cinuse(m, p) THEN check_inuse_chunk(m, p) ELSE check_free_chunk(m, p)

(* The segment ends at the heap's cursor, inside the heap: what get_next     *)
(* returns always extends the one segment, so that sys_alloc never comes to  *)
(* its code for a foreign sbrk, for new segments or for prepending, also     *)
(* after requests that were refused and after memory was given back.         *)
SegmentFollowsCursor ==
  \A p \in PE :
    LET m == heap[p] IN
    /\ m.curr >= HeapBase /\ m.curr <= HeapBase + HeapLength
    /\ m.seg.size = m.footprint /\ m.footprint <= m.max_footprint
    /\ m.top # NULL => m.seg.base = HeapBase /\ m.seg.base + m.seg.size = m.curr

(* Between any two calls the allocator's headers tile the segment without    *)
(* gap or overlap, all boundary tags agree with their neighbours, no two     *)
(* free chunks are adjacent, every free chunk is top, victim or in the bin   *)
(* of its size (the assertions of do_check_malloc_state, which the build     *)
(* leaves out), no call of a correct program is refused as misuse, and the   *)
(* segment follows the cursor.                                               *)
HeapConsistent ==
  /\ \A p \in PE : check_malloc_state(heap[p]) /\ ~ heap[p].usage_error
  /\ SegmentFollowsCursor

(* A block that one PE may use is, at that address, an allocated chunk of    *)
(* sufficient size and alignment on every PE, and no other block is there:   *)
(* shmem_malloc's barrier comes behind the allocation, shmem_free's before   *)
(* the release, shmem_realloc has both, and the allocators answer alike.     *)
RemoteBlockValid ==
  \A p, q \in PE : \A b \in Usable(p) :
    LET c == mem2chunk(held[p][b].mem) IN
    /\ c \in DOMAIN heap[q].chunk /\ cinuse(heap[q], c)
    /\ 16 * chunksize(heap[q], c) >= held[p][b].bytes + 8
    /\ (16 * held[p][b].mem) % held[p][b].align = 0
    /\ \A d \in Usable(q) : (d = b) = (held[q][d].mem = held[p][b].mem)

(* Nothing is lost: when the program has freed all its blocks, the whole     *)
(* segment is the top chunk again, whatever was split and joined before.     *)
AllFreedIsTop ==
  \A p \in PE :
    pc[p] = "user" /\ held[p] = <<>> /\ heap[p].top # NULL =>
      /\ heap[p].top = heap[p].seg.base /\ heap[p].dv = NULL
      /\ \A s \in DOMAIN heap[p].small : heap[p].small[s] = <<>>
      /\ heap[p].trees = NoTree
=============================================================================
