------------------------------- MODULE MCSync -------------------------------
(* The algorithms and both shapes of the tree, each on an active set of its *)
(* own.                                                                     *)
EXTENDS ShmemSync

J(type, first, stride, size, n, calls) ==
  [barrier_type |-> type, PE_start |-> first, PE_stride |-> stride,
   PE_size |-> size, num_pes |-> n, calls |-> calls]

MCJobs ==
  {J("linear", 1, 2, 4, 8, <<"barrier", "sync", "barrier">>),
   J("auto", 3, 1, 1, 8, <<"barrier", "sync">>),
   J("auto", 1, 1, 2, 4, <<"sync", "barrier", "sync">>),
   J("auto", 0, 1, 4, 4, <<"barrier", "sync", "barrier">>),
   J("tree", 1, 2, 4, 8, <<"barrier", "sync", "barrier">>),
   J("dissem", 0, 2, 3, 6, <<"sync", "barrier", "sync">>)}
=============================================================================
