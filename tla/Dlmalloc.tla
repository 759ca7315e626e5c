------------------------------ MODULE Dlmalloc ------------------------------
(***************************************************************************)
(* The allocator of src/src/malloc.c as this library builds it (lines      *)
(* 539-561): memory comes from shmem_internal_get_next only, contiguous,   *)
(* without mmap, footers or locks.  Every call is a function from the      *)
(* malloc_state m of a PE to the state and the address that it returns.    *)
(*                                                                         *)
(* Addresses and chunk sizes are in units of MALLOC_ALIGNMENT, 16 bytes,   *)
(* of which all chunk sizes are multiples; requests are in bytes.  m.chunk *)
(* holds the headers of the chunks by address, with the boundary tag       *)
(* prev_foot that is there when the chunk before is free.  A header that   *)
(* falls inside a chunk is forgotten, so that to read it is an error.      *)
(***************************************************************************)
EXTENDS TreeBin

CONSTANTS
  HeapBase,         \* shmem_internal_heap_base, aligned to pages and not 0
  HeapLength,       \* shmem_internal_heap_length
  Granularity,      \* of requests to get_next, the page size
  TrimThreshold,
  MaxRequest        \* MAX_REQUEST, in bytes

ASSUME HeapAssumption ==
  /\ {HeapBase, HeapLength, Granularity, TrimThreshold, MaxRequest} \subseteq Nat \ {0}
  /\ HeapBase % Granularity = 0

NULL == 0
CMFAIL == -1
MAX_SIZE_T == 2 ^ SIZE_BITS

MIN_CHUNK_SIZE    == 2
TOP_FOOT_SIZE     == 5     \* a segment record and a minimal chunk
SYS_ALLOC_PADDING == TOP_FOOT_SIZE + 1

chunk2mem(p)   == p + 1
mem2chunk(mem) == mem - 1

(* 8 bytes of overhead, rounded up to the alignment. *)
pad_request(bytes)  == (bytes + 8 + 15) \div 16
request2size(bytes) == IF bytes < 23 THEN MIN_CHUNK_SIZE ELSE pad_request(bytes)

align_up(n, unit) == ((n + unit - 1) \div unit) * unit

is_small(s) == s < MIN_LARGE_SIZE

(* malloc_state before the first request. *)
gm ==
  [chunk |-> [a \in {} |-> 0],                         \* headers
   small |-> [s \in MIN_CHUNK_SIZE .. MIN_LARGE_SIZE - 1 |-> <<>>],
   trees |-> NoTree,
   dv |-> NULL, dvsize |-> 0,                          \* designated victim
   top |-> NULL, topsize |-> 0,
   seg |-> [base |-> NULL, size |-> 0],
   trim_check |-> 0, contiguous |-> TRUE,
   footprint |-> 0, max_footprint |-> 0,
   curr |-> HeapBase,                                  \* shmem_internal_heap_curr
   usage_error |-> FALSE]

-----------------------------------------------------------------------------
(* Heads and feet. *)
cinuse(m, p)     == m.chunk[p].cinuse
pinuse(m, p)     == m.chunk[p].pinuse
chunksize(m, p)  == m.chunk[p].size
next_chunk(m, p) == p + m.chunk[p].size

(* Write the head of p.  What is inside the chunk is no header any more. *)
Head_(m, p, s, c, pi) ==
  LET foot == IF pi \/ p \notin DOMAIN m.chunk THEN 0 ELSE m.chunk[p].prev_foot
      h    == [size |-> s, cinuse |-> c, pinuse |-> pi, prev_foot |-> foot]
  IN  [m EXCEPT !.chunk = [a \in (DOMAIN @ \ (p + 1 .. p + s - 1)) \cup {p} |->
                             IF a = p THEN h ELSE @[a]]]

set_pinuse(m, p) ==
  IF p \in DOMAIN m.chunk
  THEN [m EXCEPT !.chunk[p].pinuse = TRUE, !.chunk[p].prev_foot = 0]
  ELSE Head_(m, p, 0, FALSE, TRUE)

clear_pinuse(m, p)  == [m EXCEPT !.chunk[p].pinuse = FALSE]
set_foot(m, p, s)   == [m EXCEPT !.chunk[p + s].prev_foot = s]

set_inuse(m, p, s) ==
  set_pinuse(Head_(m, p, s, TRUE, pinuse(m, p)), p + s)
set_inuse_and_pinuse(m, p, s) ==
  set_pinuse(Head_(m, p, s, TRUE, TRUE), p + s)
set_size_and_pinuse_of_inuse_chunk(m, p, s) ==
  Head_(m, p, s, TRUE, TRUE)
set_size_and_pinuse_of_free_chunk(m, p, s) ==
  set_foot(Head_(m, p, s, FALSE, TRUE), p, s)
(* Mutated form: the bit of the chunk behind is not cleared. *)
set_free_with_pinuse_stale(m, p, s, n) ==
  set_size_and_pinuse_of_free_chunk(m, p, s)

set_free_with_pinuse(m, p, s, n) ==
  set_size_and_pinuse_of_free_chunk(clear_pinuse(m, n), p, s)

-----------------------------------------------------------------------------
(* Bins: a small size is a stack, the large ones are tries. *)
insert_small_chunk(m, p, s) == [m EXCEPT !.small[s] = <<p>> \o @]
unlink_small_chunk(m, p, s) == [m EXCEPT !.small[s] = SelectSeq(@, LAMBDA q : q # p)]

insert_chunk(m, p, s) ==
  IF is_small(s) THEN insert_small_chunk(m, p, s)
  ELSE [m EXCEPT !.trees = insert_large_chunk(@, p, s)]

unlink_chunk(m, p, s) ==
  IF is_small(s) THEN unlink_small_chunk(m, p, s)
  ELSE [m EXCEPT !.trees = unlink_large_chunk(@, p)]

(* The old victim goes to a bin; it is small whenever this is called. *)
replace_dv(m, p, s) ==
  LET binned == IF m.dvsize = 0 THEN m ELSE insert_small_chunk(m, m.dv, m.dvsize)
  IN  [binned EXCEPT !.dv = p, !.dvsize = s]

set_dv(m, p, s)  == [m EXCEPT !.dv = p, !.dvsize = s]
set_top(m, p, s) == [Head_(m, p, s, FALSE, TRUE) EXCEPT !.top = p, !.topsize = s]

-----------------------------------------------------------------------------
(* Memory from the symmetric heap: a request beyond the end is refused and   *)
(* the cursor put back.                                                      *)
get_next(m, incr) ==
  LET curr == m.curr + incr
  IN  IF curr < HeapBase THEN [m |-> [m EXCEPT !.curr = HeapBase], br |-> m.curr]
      ELSE IF curr - HeapBase > HeapLength THEN [m |-> m, br |-> CMFAIL]
      ELSE [m |-> [m EXCEPT !.curr = curr], br |-> m.curr]

(* The top chunk, and behind it, at the end of the segment, the fake chunk   *)
(* that covers the overhead.                                                 *)
init_top(m, p, psize) ==
  LET below == [m EXCEPT !.chunk = [a \in {a \in DOMAIN @ : a <= p} |-> @[a]]]
  IN  [Head_(set_top(below, p, psize), p + psize, TOP_FOOT_SIZE, FALSE, FALSE)
         EXCEPT !.trim_check = TrimThreshold]

Fail(m)     == [m |-> m, mem |-> NULL]
Give(m, p)  == [m |-> m, mem |-> chunk2mem(p)]

split_top(m, nb) ==
  LET p == m.top IN
  Give(set_size_and_pinuse_of_inuse_chunk(set_top(m, p + nb, m.topsize - nb), p, nb), p)

(* What get_next gave extends the one segment and its top; then the request  *)
(* is cut from top.                                                          *)
use_space(m, br, tsize, nb) ==
  LET fp     == m.footprint + tsize
      grown  == [m EXCEPT !.footprint = fp,
                          !.max_footprint = IF fp > @ THEN fp ELSE @,
                          !.seg = [base |-> IF m.top = NULL THEN br ELSE @.base,
                                   size |-> @.size + tsize]]
      cut(t) == IF nb < t.topsize THEN split_top(t, nb) ELSE Fail(t)
  IN  cut(IF m.top = NULL THEN init_top(grown, br, tsize - TOP_FOOT_SIZE)
          ELSE init_top(grown, m.top, m.topsize + tsize))

(* First ask for what is missing beyond top; if the heap has not got it, ask *)
(* for the whole request, now and ever after.  As nobody else moves the      *)
(* heap's cursor, what is got always extends the one segment.                *)
sys_alloc(m, nb) ==
  LET asize == align_up(nb + SYS_ALLOC_PADDING, Granularity)
      ssize == IF m.top = NULL THEN asize
               ELSE align_up(nb - m.topsize + SYS_ALLOC_PADDING, Granularity)
      whole(got)  == IF got.br = CMFAIL THEN Fail(got.m)
                     ELSE use_space(got.m, got.br, asize, nb)
      beyond(got) == IF got.br = CMFAIL
                     THEN whole(get_next([m EXCEPT !.contiguous = FALSE], asize))
                     ELSE use_space(got.m, got.br, ssize, nb)
  IN  IF nb = MAX_SIZE_T THEN Fail(m)
      ELSE IF m.contiguous THEN beyond(get_next(m, ssize))
      ELSE whole(get_next(m, asize))

(* Return whole units of top to the heap, and give up trimming if that does  *)
(* not work.                                                                 *)
sys_trim(m) ==
  LET pad      == TOP_FOOT_SIZE
      extra    == ((m.topsize - pad + Granularity - 1) \div Granularity - 1) * Granularity
      shrunk   == IF m.topsize > pad /\ m.curr = m.seg.base + m.seg.size
                  THEN get_next(m, -extra).m ELSE m
      released == m.curr - shrunk.curr
  IN  IF released # 0
      THEN init_top([shrunk EXCEPT !.seg.size = @ - released, !.footprint = @ - released],
                    m.top, m.topsize - released)
      ELSE [m EXCEPT !.trim_check = IF m.topsize > @ THEN MAX_SIZE_T ELSE @]

-----------------------------------------------------------------------------
(* malloc *)

(* Take a chunk of size s out of its bin, and split off what is left over if *)
(* that makes a chunk; rest(m, r, rsize) says where the rest goes.           *)
carve(m, p, s, nb, rest(_, _, _)) ==
  LET out == unlink_chunk(m, p, s)
  IN  IF s - nb < MIN_CHUNK_SIZE THEN Give(set_inuse_and_pinuse(out, p, s), p)
      ELSE Give(rest(set_size_and_pinuse_of_free_chunk(
                       set_size_and_pinuse_of_inuse_chunk(out, p, nb), p + nb, s - nb),
                     p + nb, s - nb), p)

tmalloc_small(m, nb) ==
  LET at == best_small(m.trees) IN
  carve(m, head_of(m.trees, at), m.trees[at].size, nb, replace_dv)

(* Only if what fits best in the bins fits better than the victim. *)
tmalloc_large(m, nb) ==
  LET fit == {at \in best_large(m.trees, nb) : m.dvsize < nb \/ m.trees[at].size < m.dvsize}
      take(at) == carve(m, head_of(m.trees, at), m.trees[at].size, nb, insert_chunk)
  IN  IF fit = {} THEN Fail(m) ELSE take(CHOOSE at \in fit : TRUE)

(* From the victim, from top, or from the system. *)
split_dv(m, nb) ==
  LET p == m.dv
      rsize == m.dvsize - nb
  IN  IF rsize >= MIN_CHUNK_SIZE
      THEN Give(set_size_and_pinuse_of_inuse_chunk(
                  set_size_and_pinuse_of_free_chunk(set_dv(m, p + nb, rsize), p + nb, rsize),
                  p, nb), p)
      ELSE Give(set_inuse_and_pinuse(set_dv(m, NULL, 0), p, m.dvsize), p)

malloc_rest(m, nb) ==
  IF nb <= m.dvsize THEN split_dv(m, nb)
  ELSE IF nb < m.topsize THEN split_top(m, nb)
  ELSE sys_alloc(m, nb)

(* The bins of neighbouring indices are 8 bytes apart, so that only every    *)
(* other one is ever used: a fit without remainder is one of the same size.  *)
malloc_small(m, nb) ==
  LET larger == {s \in DOMAIN m.small : s >= nb /\ m.small[s] # <<>>}
      take(s) == carve(m, Head(m.small[s]), s, nb, replace_dv)
  IN  IF m.small[nb] # <<>> THEN take(nb)
      ELSE IF nb > m.dvsize /\ larger # {} THEN take(CHOOSE s \in larger : \A r \in larger : s <= r)
      ELSE IF nb > m.dvsize /\ m.trees # NoTree THEN tmalloc_small(m, nb)
      ELSE malloc_rest(m, nb)

malloc_large(m, nb) ==
  LET binned(got) == IF got.mem # NULL THEN got ELSE malloc_rest(m, nb)
  IN  IF nb # MAX_SIZE_T /\ m.trees # NoTree THEN binned(tmalloc_large(m, nb))
      ELSE malloc_rest(m, nb)

malloc_padded(m, nb) == IF is_small(nb) THEN malloc_small(m, nb) ELSE malloc_large(m, nb)

dlmalloc(m, bytes) ==
  malloc_padded(m, IF bytes >= MaxRequest THEN MAX_SIZE_T ELSE request2size(bytes))

-----------------------------------------------------------------------------
(* free *)

(* dispose_chunk, which dlfree repeats: join the chunk with a free one       *)
(* before it and a free one behind it, and make it top, victim or binned.    *)
dispose_chunk(m, p0, psize0) ==
  LET next  == p0 + psize0
      back  == ~ pinuse(m, p0)
      p     == IF back THEN p0 - m.chunk[p0].prev_foot ELSE p0
      psize == next - p
      m1    == IF back /\ p # m.dv THEN unlink_chunk(m, p, m.chunk[p0].prev_foot) ELSE m
      nsize == chunksize(m, next)
  IN  IF back /\ p = m.dv /\ cinuse(m, next) /\ pinuse(m, next)
      THEN set_free_with_pinuse([m1 EXCEPT !.dvsize = psize], p, psize, next)
      ELSE IF cinuse(m, next)
      THEN insert_chunk(set_free_with_pinuse(m1, p, psize, next), p, psize)
      ELSE IF next = m.top
      THEN LET m2 == IF p = m.dv THEN set_dv(m1, NULL, 0) ELSE m1
           IN  set_top(m2, p, m.topsize + psize)
      ELSE IF next = m.dv
      THEN set_size_and_pinuse_of_free_chunk(set_dv(m1, p, m.dvsize + psize), p, m.dvsize + psize)
      ELSE LET m2 == set_size_and_pinuse_of_free_chunk(
                       unlink_chunk(m1, next, nsize), p, psize + nsize)
           IN  IF p = m.dv THEN [m2 EXCEPT !.dvsize = psize + nsize]
               ELSE insert_chunk(m2, p, psize + nsize)

(* A pointer that fails the checks aborts the program. *)
usage_error(m) == [m EXCEPT !.usage_error = TRUE]

dlfree(m, mem) ==
  LET p == mem2chunk(mem)
      trim(freed) == IF freed.top # m.top /\ freed.topsize > freed.trim_check
                     THEN sys_trim(freed) ELSE freed
  IN  IF mem = NULL THEN m
      ELSE IF p \notin DOMAIN m.chunk \/ ~ cinuse(m, p) \/ ~ pinuse(m, next_chunk(m, p))
      THEN usage_error(m)
      ELSE trim(dispose_chunk(m, p, chunksize(m, p)))

dlcalloc(m, n_elements, elem_size) == dlmalloc(m, n_elements * elem_size)

-----------------------------------------------------------------------------
(* realloc and memalign *)

(* Mutated form: the rest stays marked in use and is lost. *)
split_inuse_leak(m, p, s, nb) ==
  set_inuse(set_inuse(m, p, nb), p + nb, s - nb)

(* Keep the first nb units of the chunk in use at p, of size s, and dispose  *)
(* of the rest.                                                              *)
split_inuse(m, p, s, nb) ==
  dispose_chunk(set_inuse(set_inuse(m, p, nb), p + nb, s - nb), p + nb, s - nb)

(* In place, by cutting or by extension into whatever is free behind; the    *)
(* state and whether it could be done.                                       *)
try_realloc_chunk(m, p, nb) ==
  LET oldsize == chunksize(m, p)
      next    == p + oldsize
      nsize   == IF next = m.top THEN m.topsize
                 ELSE IF next = m.dv THEN m.dvsize ELSE chunksize(m, next)
      both    == oldsize + nsize
      Did(m2) == [m |-> m2, ok |-> TRUE]
  IN  IF oldsize >= nb
      THEN Did(IF oldsize - nb >= MIN_CHUNK_SIZE THEN split_inuse(m, p, oldsize, nb) ELSE m)
      ELSE IF next = m.top
      THEN IF both > nb THEN Did(set_inuse(set_top(m, p + nb, both - nb), p, nb))
           ELSE [m |-> m, ok |-> FALSE]
      ELSE IF cinuse(m, next) \/ both < nb THEN [m |-> m, ok |-> FALSE]
      ELSE IF next = m.dv
      THEN IF both - nb >= MIN_CHUNK_SIZE
           THEN Did(clear_pinuse(set_size_and_pinuse_of_free_chunk(
                      set_inuse(set_dv(m, p + nb, both - nb), p, nb), p + nb, both - nb), p + both))
           ELSE Did(set_inuse(set_dv(m, NULL, 0), p, both))
      ELSE LET out == unlink_chunk(m, next, nsize)
           IN  IF both - nb < MIN_CHUNK_SIZE THEN Did(set_inuse(out, p, both))
               ELSE Did(split_inuse(out, p, both, nb))

(* Otherwise a new block, to which the contents are copied. *)
dlrealloc(m, oldmem, bytes) ==
  LET move(new) == IF new.mem = NULL THEN new
                   ELSE [m |-> dlfree(new.m, oldmem), mem |-> new.mem]
      in_place(try) == IF try.ok THEN [m |-> try.m, mem |-> oldmem]
                       ELSE move(dlmalloc(try.m, bytes))
  IN  IF oldmem = NULL THEN dlmalloc(m, bytes)
      ELSE IF bytes >= MaxRequest THEN Fail(m)
      ELSE in_place(try_realloc_chunk(m, mem2chunk(oldmem), request2size(bytes)))

(* Of a block that is large enough to find an aligned address in it, what is *)
(* before that, at least a minimal chunk, is disposed of, and what is behind.*)
memalign_pos(mem, al) ==
  LET p  == mem2chunk(mem)
      br == mem2chunk(align_up(mem, al))
  IN  IF mem % al = 0 THEN p ELSE IF br - p >= MIN_CHUNK_SIZE THEN br ELSE br + al

cut_leader(m, p, pos) ==
  IF pos = p THEN m
  ELSE dispose_chunk(Head_(Head_(m, p, pos - p, TRUE, pinuse(m, p)),
                           pos, chunksize(m, p) - (pos - p), TRUE, TRUE),
                     p, pos - p)

cut_trailer(m, p, nb) ==
  IF chunksize(m, p) > nb + MIN_CHUNK_SIZE THEN split_inuse(m, p, chunksize(m, p), nb) ELSE m

internal_memalign(m, al, nb, bytes) ==
  LET cut(got, pos) == Give(cut_trailer(cut_leader(got.m, mem2chunk(got.mem), pos), pos, nb), pos)
      use(got) == IF got.mem = NULL THEN got ELSE cut(got, memalign_pos(got.mem, al))
  IN  IF bytes >= MaxRequest - 16 * al THEN Fail(m)
      ELSE use(dlmalloc(m, 16 * (nb + al + MIN_CHUNK_SIZE) - 8))

(* A power of two of units, two at least. *)
alignment_units(alignment) ==
  LET powers == {a \in {2 ^ k : k \in 1 .. SIZE_BITS} : 16 * a >= alignment}
  IN  CHOOSE a \in powers : \A b \in powers : a <= b

dlmemalign(m, alignment, bytes) ==
  IF alignment <= 16 THEN dlmalloc(m, bytes) 
  ELSE internal_memalign(m, alignment_units(alignment), request2size(bytes), bytes)
=============================================================================
