---------------------------- MODULE MCLifecycle ----------------------------
(* TLC instance of Lifecycle: four PEs at most, on two hosts. *)
EXTENDS Lifecycle

MCAllPEs == 0 .. 3

(* PE 1 is on a host of its own; no name is the beginning of another. *)
MCHost == [p \in MCAllPEs |-> IF p = 1 THEN <<1, 3>> ELSE <<1, 2>>]

Same   == [p \in MCAllPEs |-> 1]
Uneven == [p \in MCAllPEs |-> 1 + (p % 2)]

Job(n, runtime, transport, shr) ==
  [n |-> n, runtime |-> runtime, transport |-> transport, shr |-> shr, rva |-> FALSE,
   ranks |-> shr # "none", chunks |-> Same, barrier |-> "linear", radix |-> 2,
   ops |-> {"put"}, faults |-> TRUE]

(* Every runtime, every transport and every on-node transport; singletons  *)
(* and jobs of two to four PEs, of which the last has a PE between the     *)
(* root of the barrier's tree and a leaf; shareable contexts with and      *)
(* without UCX.                                                            *)
MCBuilds ==
  {Job(1, "pmi", "ofi", "none"),
   [Job(1, "mpi", "portals4", "cma") EXCEPT !.rva = TRUE],
   Job(1, "pmi2", "ucx", "xpmem"),
   Job(1, "pmix", "ofi", "cma"),
   [Job(2, "pmi", "ucx", "none") EXCEPT !.ranks = TRUE, !.chunks = Uneven,
                                        !.ops = {"put", "ctxput"}],
   Job(2, "mpi", "ucx", "none"),
   [Job(2, "mpi", "ofi", "none") EXCEPT !.barrier = "tree", !.ops = {"put", "ctxput"}],
   Job(2, "pmi2", "portals4", "xpmem"),
   [Job(2, "pmi2", "ofi", "none") EXCEPT !.rva = TRUE],
   Job(2, "pmix", "ofi", "cma"),
   [Job(3, "mpi", "ofi", "xpmem") EXCEPT !.ops = {}],
   [Job(3, "pmi", "portals4", "cma") EXCEPT !.rva = TRUE],
   [Job(4, "pmi", "ofi", "none") EXCEPT !.barrier = "tree", !.ops = {}, !.faults = FALSE]}
=============================================================================
