------------------------------- MODULE MCHeap -------------------------------
(* Two PEs and a heap of a few pages of eight units, in which sizes from    *)
(* four units on are large, so that the tries, the victim, trimming and the *)
(* end of the heap are all reached within a few calls.                      *)
EXTENDS SymmetricHeap

A(op, bytes, align) == [op |-> op, bytes |-> bytes, align |-> align]

MCAllocCalls ==
  {A("malloc", 0, 16), A("malloc", 24, 16), A("malloc", 40, 16), A("malloc", 1000, 16),
   A("calloc", 100, 16), A("align", 20, 64), A("align", 20, 0)}
=============================================================================
