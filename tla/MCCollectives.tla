---------------------------- MODULE MCCollectives ----------------------------
EXTENDS CollectiveCalls

(* Active sets: all of a job, every second PE of one, one PE. *)
Set(n)  == [num_pes |-> n, PE_start |-> 0, PE_stride |-> 1, PE_size |-> n]
Odd3    == [num_pes |-> 6, PE_start |-> 1, PE_stride |-> 2, PE_size |-> 3]
Odd2    == [num_pes |-> 4, PE_start |-> 1, PE_stride |-> 2, PE_size |-> 2]

Call == [op |-> "bcast", type |-> "auto", bcast_type |-> "auto", root |-> 0, lens |-> <<1, 1, 1>>,
         inplace |-> FALSE, atomic |-> TRUE, dst |-> 1, sst |-> 1]

Same(n, l) == [i \in 1 .. n |-> l]
B(type, root, n)      == [Call EXCEPT !.type = type, !.root = root, !.lens = Same(n, 1)]
Red(type, n, l, inpl) == [Call EXCEPT !.op = "reduce", !.type = type, !.lens = Same(n, l),
                                      !.inplace = inpl, !.atomic = type \in {"linear", "tree"}]
Coll(lens)            == [Call EXCEPT !.op = "collect", !.lens = lens]
FC(type, n, l)        == [Call EXCEPT !.op = "fcollect", !.type = type, !.lens = Same(n, l)]
A2A(n, l)             == [Call EXCEPT !.op = "alltoall", !.lens = Same(n, l)]
A2As(n, l)            == [Call EXCEPT !.op = "alltoalls", !.lens = Same(n, l), !.dst = 2, !.sst = 1]

Do(set, calls) == [set EXCEPT !.num_pes = @] @@ [calls |-> calls]

MCJobs ==
  {Do(Odd3, <<B("linear", 1, 3), B("tree", 2, 3)>>),
   Do(Set(4), <<B("tree", 0, 4)>>),
   Do(Odd3, <<Red("linear", 3, 1, TRUE)>>),
   Do(Odd3, <<Red("ring", 3, 3, TRUE)>>),
   Do(Set(2), <<Red("ring", 2, 1, FALSE), Red("ring", 2, 3, TRUE)>>),
   Do(Odd3, <<Red("tree", 3, 1, FALSE)>>),
   Do(Set(4), <<Red("tree", 4, 1, TRUE)>>),
   Do(Set(3), <<Red("recdbl", 3, 1, TRUE)>>),
   Do(Set(2), <<Red("auto", 2, 1, TRUE), Red("recdbl", 2, 1, FALSE)>>),
   Do(Odd3, <<Coll(<<2, 0, 1>>)>>),
   Do(Set(2), <<Coll(<<1, 2>>), A2A(2, 1)>>),
   Do(Odd3, <<FC("linear", 3, 1)>>),
   Do(Set(3), <<FC("recdbl", 3, 1)>>),
   Do(Set(4), <<FC("recdbl", 4, 1)>>),
   Do(Set(3), <<A2A(3, 1)>>),
   Do(Odd2, <<A2As(2, 2)>>),
   Do(Set(1), <<B("linear", 0, 1), Red("recdbl", 1, 1, FALSE), Coll(<<1>>), FC("linear", 1, 1), A2A(1, 1)>>)}
=============================================================================
