------------------------------ MODULE Runtime ------------------------------
(***************************************************************************)
(* The runtime layer under start-up: the key-value store through which the *)
(* PEs of a job publish their addresses, the fence that makes the entries  *)
(* visible, and the table of node ranks.  src/runtime-pmi.c,               *)
(* src/runtime-pmi2.c, src/runtime-pmix.c and src/runtime-mpi.c implement  *)
(* one interface; the process manager behind them is external, except the  *)
(* client side of the simple PMI wire protocol (pmi-simple/simple_pmi.c).  *)
(*                                                                         *)
(* The value a PE puts under a key is abstracted to the pair of the two;   *)
(* what a get returns is the set of the values it finds, so that a missing *)
(* entry is the empty set.  A PMI request and its reply are one step: the  *)
(* client blocks in GetResponse between them.                              *)
(***************************************************************************)
EXTENDS Integers, Sequences, FiniteSets, SequencesExt

CONSTANTS
  AllPEs,        \* the PEs of the largest job: 0 .. n - 1
  Host           \* the host name of each PE, a sequence of characters

VARIABLES
  build,         \* rigid: job size, runtime, transport, on-node transport...
  kv,            \* per PE, the keys it has put and not yet committed
  server,        \* the entries the process manager holds
  fence,         \* per PE, how many barriers, fences or gathers it entered
  node           \* per PE, location_array / node_ranks and node_size

rtVars == <<kv, server, fence, node>>

PEs == 0 .. build.n - 1

entry(p, k) == [pe |-> p, key |-> k]

-----------------------------------------------------------------------------
(* shmem_runtime_init: which runtimes keep a table of node ranks.          *)

pmi_init(p)  == node' = [node EXCEPT ![p].alloc = build.n > 1 /\ build.ranks]
pmi2_init(p) == node' = [node EXCEPT ![p].alloc = build.ranks]
pmix_init(p) == node' = [node EXCEPT ![p].alloc = build.ranks]
mpi_init(p)  == node' = [node EXCEPT ![p].alloc = build.n > 1 /\ build.ranks]

runtime_init(p) ==
  CASE build.runtime = "pmi"  -> pmi_init(p)
    [] build.runtime = "pmi2" -> pmi2_init(p)
    [] build.runtime = "pmix" -> pmix_init(p)
    [] build.runtime = "mpi"  -> mpi_init(p)

-----------------------------------------------------------------------------
(* shmem_runtime_put of a sequence of keys, as one layer puts them.        *)

PMI_KVS_Put(p, keys) == server' = server \cup {entry(p, k) : k \in Range(keys)}

(* A job of one PE uses a hash table in the process, with the same effect. *)
pmi_put(p, keys) == PMI_KVS_Put(p, keys) /\ UNCHANGED kv

(* Visible to the others once they are fenced. *)
pmi2_put(p, keys) == kv' = [kv EXCEPT ![p] = @ \o keys] /\ UNCHANGED server
pmix_put(p, keys) == kv' = [kv EXCEPT ![p] = @ \o keys] /\ UNCHANGED server

(* MAX_KV_COUNT counts keys and values. *)
MAX_KV_COUNT == 20
mpi_put(p, keys) ==
  /\ 2 * (Len(kv[p]) + Len(keys)) =< MAX_KV_COUNT
  /\ kv' = [kv EXCEPT ![p] = @ \o keys]
  /\ UNCHANGED server

runtime_put(p, keys) ==
  CASE build.runtime = "pmi"  -> pmi_put(p, keys)
    [] build.runtime = "pmi2" -> pmi2_put(p, keys)
    [] build.runtime = "pmix" -> pmix_put(p, keys)
    [] build.runtime = "mpi"  -> mpi_put(p, keys)

-----------------------------------------------------------------------------
(* shmem_runtime_get.                                                      *)

PMI_KVS_Get(q, k) == {e \in server : e = entry(q, k)}

pmi_get(q, k)  == PMI_KVS_Get(q, k)
pmi2_get(q, k) == {e \in server : e = entry(q, k)}
pmix_get(q, k) == {e \in server : e = entry(q, k)}

(* kv_store_all, as PE p indexes it: every PE's pairs, kv_length apart. *)
kv_store_all(p) ==
  [i \in 0 .. build.n * Len(kv[p]) - 1 |->
     entry(i \div Len(kv[p]), kv[i \div Len(kv[p])][1 + (i % Len(kv[p]))])]

mpi_get(p, q, k) ==
  LET all  == kv_store_all(p)
      hits == {i \in DOMAIN all : i >= q * Len(kv[p]) /\ all[i].key = k}
  IN  {all[i] : i \in {j \in hits : \A h \in hits : j =< h}}

runtime_get(p, q, k) ==
  CASE build.runtime = "pmi"  -> pmi_get(q, k)
    [] build.runtime = "pmi2" -> pmi2_get(q, k)
    [] build.runtime = "pmix" -> pmix_get(q, k)
    [] build.runtime = "mpi"  -> mpi_get(p, q, k)

-----------------------------------------------------------------------------
(* Fences and barriers.  A PE enters; the process manager lets it go on    *)
(* when every PE of the job has entered as often.                          *)

barrier_in(p) == fence' = [fence EXCEPT ![p] = @ + 1]

(* Mutated form: the process manager does not wait for the others. *)
fence_out_alone(p) == TRUE
fence_out(p) == \A q \in PEs : fence[q] >= fence[p]

(* What the fence of PMI2 promises is that the gets after it find the puts *)
(* before it.  Nothing is put between the exchange and the last barrier of *)
(* start-up, so that a PE may leave that one at any time.                  *)
barrier_out(p) == build.runtime = "pmi2" \/ fence_out(p)

-----------------------------------------------------------------------------
(* Node ranks.  populate_node compares as many characters as the peer's    *)
(* name has.                                                               *)

put_hostname == <<"hostname_len", "hostname">>

populate_node(p) ==
  LET local(q) == IsPrefix(Host[q], Host[p])
  IN  [q \in PEs |-> IF local(q) THEN Cardinality({r \in 0 .. q - 1 : local(r)}) ELSE -1]

(* What MPI_Comm_split_type and PMIX_LOCAL_PEERS say: external. *)
local_ranks(p) ==
  [q \in PEs |-> IF Host[q] = Host[p]
                 THEN Cardinality({r \in 0 .. q - 1 : Host[r] = Host[p]}) ELSE -1]

get_node_rank(p, q) == IF build.n = 1 /\ build.runtime \in {"pmi", "mpi"} THEN 0
                       ELSE node[p].rank[q]
get_node_size(p)    == IF build.n = 1 /\ build.runtime \in {"pmi", "mpi"} THEN 1
                       ELSE Cardinality({q \in PEs : node[p].rank[q] # -1})

-----------------------------------------------------------------------------
(* shmem_runtime_exchange in two steps: everything up to the entry into    *)
(* the fence, and everything after it.                                     *)

commit(p, keys) ==
  server' = server \cup {entry(p, k) : k \in Range(kv[p] \o keys)}

hostname_keys(p) == IF node[p].alloc THEN put_hostname ELSE <<>>

pmi_exchange(p)  == PMI_KVS_Put(p, hostname_keys(p)) /\ barrier_in(p) /\ UNCHANGED <<kv, node>>
pmi2_exchange(p) == commit(p, hostname_keys(p)) /\ barrier_in(p) /\ UNCHANGED <<kv, node>>

(* The ranks come from the process manager before the fence. *)
pmix_exchange(p) ==
  /\ node' = IF node[p].alloc THEN [node EXCEPT ![p].rank = local_ranks(p)] ELSE node
  /\ commit(p, <<>>) /\ barrier_in(p) /\ UNCHANGED kv

mpi_exchange(p) ==
  /\ node' = IF node[p].alloc THEN [node EXCEPT ![p].rank = local_ranks(p)] ELSE node
  /\ barrier_in(p) /\ UNCHANGED <<kv, server>>

(* A job of one PE returns at once from the PMI and the MPI exchange. *)
runtime_exchange(p) ==
  CASE build.n = 1 /\ build.runtime \in {"pmi", "mpi"} -> UNCHANGED rtVars
    [] build.n > 1 /\ build.runtime = "pmi"  -> pmi_exchange(p)
    [] build.runtime = "pmi2" -> pmi2_exchange(p)
    [] build.runtime = "pmix" -> pmix_exchange(p)
    [] build.n > 1 /\ build.runtime = "mpi"  -> mpi_exchange(p)

(* PMI and PMI2 look the host names up: populate_node fails without them.  *)
reads_hostnames(p) == build.runtime \in {"pmi", "pmi2"} /\ node[p].alloc

exchanged(p) ==
  /\ fence_out(p)
  /\ reads_hostnames(p) => \A q \in PEs, k \in Range(put_hostname) : runtime_get(p, q, k) # {}
  /\ node' = IF reads_hostnames(p) THEN [node EXCEPT ![p].rank = populate_node(p)] ELSE node
  /\ UNCHANGED <<kv, server, fence>>

runtime_barrier(p) == barrier_in(p) /\ UNCHANGED <<kv, server, node>>

RtInit ==
  /\ kv = [p \in AllPEs |-> <<>>]
  /\ server = {}
  /\ fence = [p \in AllPEs |-> 0]
  /\ node = [p \in AllPEs |-> [alloc |-> FALSE, rank |-> <<>>]]
=============================================================================
