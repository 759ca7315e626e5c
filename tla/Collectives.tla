----------------------------- MODULE Collectives -----------------------------
(***************************************************************************)
(* The data collectives of src/src/collectives.c and the choice among them *)
(* in shmem_collectives.h.  Each operator gives what PE p does in its call. *)
(* s is the slot at which the part of pSync that the algorithm gets starts. *)
(***************************************************************************)
EXTENDS CollMachine

CONSTANTS COLL_CROSSOVER, COLL_SIZE_CROSSOVER, tree_radix

ASSUME CrossoverAssumption ==
  COLL_CROSSOVER \in Nat /\ COLL_SIZE_CROSSOVER \in Nat /\ tree_radix \in Nat \ {0, 1}

Others(p) == PEs \ {p}

If(cond, calls) == IF cond THEN calls ELSE <<>>

(* body(1), ..., body(n), one after the other. *)
For(n, body(_)) == FlattenSeq([i \in 1 .. n |-> body(i)])

(* The active set is the whole job: the tree of collectives_init. *)
is_full(root) == PE_size = num_pes /\ root = 0

parent(p, root) ==
  IF is_full(root) THEN full_parent(num_pes, tree_radix, p)
  ELSE kary_parent(tree_radix, PE_start, PE_stride, PE_size, root, p)

children(p, root) ==
  IF is_full(root) THEN full_children(num_pes, tree_radix, p)
  ELSE kary_children(tree_radix, PE_start, PE_stride, PE_size, root, p)

num_children(p, root) == Cardinality(children(p, root))

-----------------------------------------------------------------------------
bcast_linear(p, tgt, src, len, root, s, complete) ==
  IF PE_size = 1 \/ len = 0 THEN <<>>
  ELSE IF p = PE(root)
  THEN Put_nb(Others(p), Block(tgt, 0, src, 0, len)) \o Fence
       \o Put_scalar(Others(p), s, 1)
       \o If(complete, WaitUntil(s, "eq", PE_size - 1) \o Clear(p, s))
  ELSE WaitUntil(s, "ne", 0) \o Clear(p, s) \o If(complete, Atomic(PE(root), s, 1))

(* What an inner PE's word holds when all children have acknowledged: also   *)
(* the one that came with the data.                                          *)
bcast_acks(p, root) == num_children(p, root) + (IF parent(p, root) = p THEN 0 ELSE 1)

bcast_tree(p, tgt, src, len, root, s, complete) ==
  IF PE_size = 1 \/ len = 0 THEN <<>>
  ELSE IF num_children(p, root) # 0
  THEN If(parent(p, root) # p,
          WaitUntil(s, "ne", 0) \o If(complete, Atomic(parent(p, root), s, 1)))
       \o Put_nb(children(p, root),
                 Block(tgt, 0, IF parent(p, root) = p THEN src ELSE tgt, 0, len))
       \o Fence \o Put_scalar(children(p, root), s, 1)
       \o If(complete, WaitUntil(s, "eq", bcast_acks(p, root)))
       \o Clear(p, s)
  ELSE WaitUntil(s, "ne", 0)
       \o If(complete, Atomic(parent(p, root), s, 1))
       \o Clear(p, s)

bcast(p, tgt, src, len, root, s, complete, type) ==
  IF type = "linear" \/ (type = "auto" /\ PE_size < COLL_CROSSOVER)
  THEN bcast_linear(p, tgt, src, len, root, s, complete)
  ELSE bcast_tree(p, tgt, src, len, root, s, complete)

-----------------------------------------------------------------------------
op_to_all_linear(p, tgt, src, count, bcast_type) ==
  IF count = 0 THEN <<>>
  ELSE (IF p = PE_start
        THEN Put_nb({p}, Block(tgt, 0, src, 0, count)) \o Quiet
             \o Put_scalar(Others(p), 0, 1)
             \o WaitUntil(0, "eq", PE_size - 1) \o Clear(p, 0)
        ELSE WaitUntil(0, "ne", 0) \o Clear(p, 0)
             \o Atomicv(PE_start, Block(tgt, 0, src, 0, count)) \o Fence
             \o Atomic(PE_start, 0, 1))
       \o bcast(p, tgt, tgt, count, 0, 2, FALSE, bcast_type)

(* Elements are spread over the chunks; the first count % PE_size get one    *)
(* more.  A chunk can be empty.                                              *)
chunk_extra(c, count) == IF c < count % PE_size THEN 1 ELSE 0
chunk_count(c, count) == (count \div PE_size) + chunk_extra(c, count)
chunk_disp(c, count) ==
  c * chunk_count(c, count) + (IF chunk_extra(c, count) = 1 THEN 0 ELSE count % PE_size)

chunk(tgt, src, c, count) ==
  Block(tgt, chunk_disp(c, count), src, chunk_disp(c, count), chunk_count(c, count))

right(p) == PE((rank(p) + 1) % PE_size)

(* The working part of the ring, with src apart from the target. *)
ring_rounds(p, tgt, src, count) ==
  For(PE_size - 1, LAMBDA i :
        Put_nbi({right(p)}, chunk(tgt, IF i = 1 THEN src ELSE tgt,
                                  (rank(p) - (i - 1) + PE_size) % PE_size, count))
        \o Fence \o Atomic(right(p), 0, 1)
        \o WaitUntil(0, "ge", i)
        \o Reduce_local(chunk(tgt, src, (rank(p) - i + PE_size) % PE_size, count)))
  \o Clear(p, 0)
  \o For(PE_size - 1, LAMBDA i :
           Put_nbi({right(p)}, chunk(tgt, tgt, (rank(p) + 2 - i + PE_size) % PE_size, count))
           \o Fence \o Atomic(right(p), 1, 1)
           \o WaitUntil(1, "ge", i))
  \o Clear(p, 1)

(* Mutated form: the in-place reduction does not wait for the others' copies. *)
op_to_all_ring_no_sync(p, tgt, src, count) ==
  IF count = 0 THEN <<>>
  ELSE IF PE_size = 1 THEN If(tgt # src, Memcpy(Block(tgt, 0, src, 0, count)))
  ELSE IF tgt = src
  THEN Memcpy(Block(tmp, 0, tgt, 0, count)) \o ring_rounds(p, tgt, tmp, count)
  ELSE ring_rounds(p, tgt, src, count)

op_to_all_ring(p, tgt, src, count) ==
  IF count = 0 THEN <<>>
  ELSE IF PE_size = 1 THEN If(tgt # src, Memcpy(Block(tgt, 0, src, 0, count)))
  ELSE IF tgt = src
  THEN Memcpy(Block(tmp, 0, tgt, 0, count)) \o Sync \o ring_rounds(p, tgt, tmp, count)
  ELSE ring_rounds(p, tgt, src, count)

op_to_all_tree(p, tgt, src, count, bcast_type) ==
  IF PE_size = 1 THEN If(tgt # src, Memcpy(Block(tgt, 0, src, 0, count)))
  ELSE IF count = 0 THEN <<>>
  ELSE If(num_children(p, 0) # 0,
          Put_nb({p}, Block(tgt, 0, src, 0, count)) \o Quiet
          \o Put_scalar(children(p, 0), 1, 1)
          \o WaitUntil(0, "eq", num_children(p, 0)) \o Clear(p, 0))
       \o If(parent(p, 0) # p,
             WaitUntil(1, "ne", 0) \o Clear(p, 1)
             \o Atomicv(parent(p, 0),
                        Block(tgt, 0, IF num_children(p, 0) = 0 THEN src ELSE tgt, 0, count))
             \o Fence \o Atomic(parent(p, 0), 0, 1))
       \o bcast(p, tgt, tgt, count, 0, 2, FALSE, bcast_type)

-----------------------------------------------------------------------------
(* Recursive doubling: the PEs past the largest power of two hand their      *)
(* contribution to a partner and get the result back.                        *)
log2_proc == CHOOSE l \in 1 .. PE_size : 2 ^ l <= PE_size /\ PE_size < 2 ^ (l + 1)
pow2_proc == 2 ^ log2_proc
xor(i, d) == IF (i \div d) % 2 = 1 THEN i - d ELSE i + d

ps_target_ready == 1
ps_data_ready   == 2
extra_slot      == NumSlots - 2

send_current(peer, tgt, count, s) ==
  Put_nb({peer}, Block(tgt, 0, current, 0, count)) \o Fence
  \o Put_scalar({peer}, s, ps_data_ready)

pairwise(p, peer, tgt, count, s) ==
  (IF p < peer
   THEN Put_scalar({peer}, s, ps_target_ready) \o WaitUntil(s, "eq", ps_data_ready)
        \o send_current(peer, tgt, count, s)
   ELSE WaitUntil(s, "eq", ps_target_ready) \o send_current(peer, tgt, count, s)
        \o WaitUntil(s, "eq", ps_data_ready))
  \o Reduce_local(Block(current, 0, tgt, 0, count))

op_to_all_recdbl_sw(p, tgt, src, count) ==
  IF PE_size = 1 THEN If(tgt # src, Memcpy(Block(tgt, 0, src, 0, count)))
  ELSE IF count = 0 THEN <<>>
  ELSE Memcpy(Block(current, 0, src, 0, count))
       \o (IF rank(p) >= pow2_proc
           THEN WaitUntil(extra_slot, "eq", ps_target_ready)
                \o send_current(PE(rank(p) - pow2_proc), tgt, count, extra_slot)
                \o WaitUntil(extra_slot, "eq", ps_data_ready)
           ELSE If(rank(p) < PE_size - pow2_proc,
                   Put_scalar({PE(rank(p) + pow2_proc)}, extra_slot, ps_target_ready)
                   \o WaitUntil(extra_slot, "eq", ps_data_ready)
                   \o Reduce_local(Block(current, 0, tgt, 0, count)))
                \o For(log2_proc, LAMBDA i :
                         pairwise(p, PE(xor(rank(p), 2 ^ (i - 1))), tgt, count, i - 1))
                \o If(rank(p) < PE_size - pow2_proc,
                      send_current(PE(rank(p) + pow2_proc), tgt, count, extra_slot))
                \o Memcpy(Block(tgt, 0, current, 0, count)))
       \o Reset(Slots)

(* atomic: shmem_transport_atomic_supported(op, datatype). *)
op_to_all(p, tgt, src, count, type, bcast_type, atomic_supported) ==
  CASE type = "ring" \/ (type = "auto" /\ ~atomic_supported /\ count >= COLL_SIZE_CROSSOVER) ->
         op_to_all_ring(p, tgt, src, count)
    [] atomic_supported /\ (type = "linear" \/ (type = "auto" /\ PE_size < COLL_CROSSOVER)) ->
         op_to_all_linear(p, tgt, src, count, bcast_type)
    [] atomic_supported /\ (type = "tree" \/ (type = "auto" /\ PE_size >= COLL_CROSSOVER)) ->
         op_to_all_tree(p, tgt, src, count, bcast_type)
    [] OTHER -> op_to_all_recdbl_sw(p, tgt, src, count)

-----------------------------------------------------------------------------
circular_iter_next(curr) ==
  IF curr + PE_stride > PE_start + PE_stride * (PE_size - 1) THEN PE_start ELSE curr + PE_stride

(* The PEs of the round-robin loop, from the one after p, ending with p. *)
round_robin(p) ==
  LET peer[i \in 1 .. PE_size] == circular_iter_next(IF i = 1 THEN p ELSE peer[i - 1])
  IN  peer

(* lens[i]: what PE i has to give; collect adds up the lengths on the way. *)
collect_linear(p, tgt, src, lens) ==
  IF PE_size = 1 THEN If(tgt # src, Memcpy(Block(tgt, 0, src, 0, lens[1])))
  ELSE (IF p = PE_start THEN Put_length(PE_start + PE_stride, lens[1])
        ELSE WaitUntil(1, "eq", 1) \o Get_offset
             \o If(p < PE_start + PE_stride * (PE_size - 1),
                   Put_length(p + PE_stride, lens[rank(p) + 1])))
       \o If(lens[rank(p) + 1] > 0,
             For(PE_size, LAMBDA i :
                   Put_nbi({round_robin(p)[i]}, Block(tgt, 0, src, 0, lens[rank(p) + 1]))))
       \o Barrier
       \o Reset(Slots)

fcollect_linear(p, tgt, src, len, bcast_type) ==
  (IF p = PE_start
   THEN If(src # tgt, Memcpy(Block(tgt, 0, src, 0, len))) \o Atomic(p, 0, 1)
        \o WaitUntil(0, "eq", PE_size) \o Clear(p, 0)
   ELSE Put_nb({PE_start}, Block(tgt, rank(p) * len, src, 0, len)) \o Fence
        \o Atomic(PE_start, 0, 1))
  \o bcast(p, tgt, tgt, len * PE_size, 0, 1, FALSE, bcast_type)

fcollect_ring(p, tgt, src, len) ==
  IF len = 0 THEN <<>>
  ELSE Memcpy(Block(tgt, rank(p) * len, src, 0, len))
       \o For(PE_size - 1, LAMBDA i :
                LET at == ((rank(p) + 1 - i + PE_size) % PE_size) * len
                IN  Put_nb({right(p)}, Block(tgt, at, tgt, at, len)) \o Fence
                    \o Atomic(right(p), 0, 1) \o WaitUntil(0, "ge", i))
       \o Clear(p, 0)

(* Where the blocks that PE p has before round i start: further down when   *)
(* the peer of the round before was a lower one.                            *)
curr_offset(p, i) ==
  LET curr[k \in 1 .. i] ==
        IF k = 1 THEN rank(p)
        ELSE curr[k - 1] - (IF rank(p) > xor(rank(p), 2 ^ (k - 2)) THEN 2 ^ (k - 2) ELSE 0)
  IN  curr[i]

(* Mutated form: nothing waits for the last decrements. *)
fcollect_recdbl_no_quiet(p, tgt, src, len) ==
  IF len = 0 THEN <<>>
  ELSE Memcpy(Block(tgt, rank(p) * len, src, 0, len))
       \o For(IF PE_size = 1 THEN 0 ELSE log2_proc, LAMBDA i :
                LET d    == 2 ^ (i - 1)
                    at   == curr_offset(p, i) * len
                    peer == PE(xor(rank(p), d))
                IN  Put_nb({peer}, Block(tgt, at, tgt, at, d * len)) \o Fence
                    \o Atomic(peer, i - 1, 1) \o WaitUntil(i - 1, "ne", 0)
                    \o Atomic(p, i - 1, -1))

fcollect_recdbl(p, tgt, src, len) ==
  IF len = 0 THEN <<>>
  ELSE Memcpy(Block(tgt, rank(p) * len, src, 0, len))
       \o For(IF PE_size = 1 THEN 0 ELSE log2_proc, LAMBDA i :
                LET d    == 2 ^ (i - 1)
                    at   == curr_offset(p, i) * len
                    peer == PE(xor(rank(p), d))
                IN  Put_nb({peer}, Block(tgt, at, tgt, at, d * len)) \o Fence
                    \o Atomic(peer, i - 1, 1) \o WaitUntil(i - 1, "ne", 0)
                    \o Atomic(p, i - 1, -1))
       \o Quiet

is_pow2(n) == \E l \in 0 .. n : 2 ^ l = n

fcollect(p, tgt, src, len, type, bcast_type) ==
  CASE type = "linear" -> fcollect_linear(p, tgt, src, len, bcast_type)
    [] type = "recdbl" /\ is_pow2(PE_size) -> fcollect_recdbl(p, tgt, src, len)
    [] OTHER -> fcollect_ring(p, tgt, src, len)

(* The barrier's pSync words are set back once more by the caller. *)
alltoall(p, tgt, src, len) ==
  IF len = 0 THEN <<>>
  ELSE For(PE_size, LAMBDA i :
             Put_nbi({round_robin(p)[i]},
                     Block(tgt, rank(p) * len, src, rank(round_robin(p)[i]) * len, len)))
       \o Barrier \o Reset(Slots)

(* Elements dst apart in the target and sst apart in the source. *)
alltoalls(p, tgt, src, dst, sst, nelems) ==
  IF nelems = 0 THEN <<>>
  ELSE For(PE_size, LAMBDA i : For(nelems, LAMBDA k :
             Put_nb({round_robin(p)[i]},
                    Block(tgt, (rank(p) * nelems + k - 1) * dst,
                          src, (rank(round_robin(p)[i]) * nelems + k - 1) * sst, 1))))
       \o Barrier \o Reset(Slots)
=============================================================================
