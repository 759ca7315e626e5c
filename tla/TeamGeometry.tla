---------------------------- MODULE TeamGeometry ----------------------------
(***************************************************************************)
(* Which PEs a team consists of: the arithmetic of src/src/shmem_team.c    *)
(* and of shmem_internal_pe_in_active_set as operators.  A team is its     *)
(* triplet of start, stride and size; -1 is the answer for "not a member". *)
(***************************************************************************)
EXTENDS Integers, FiniteSets

Team(start, stride, size) == [start |-> start, stride |-> stride, size |-> size]

(* The PE number in the world of a team's PE. *)
team_pe(team, pe) == team.start + team.stride * pe

MembersOf(team) == {team_pe(team, i) : i \in 0 .. team.size - 1}

pe_in_active_set(pe, start, stride, size) ==
  LET n == (pe - start) \div stride
  IN  IF pe < start \/ (pe - start) % stride # 0 \/ n >= size THEN -1 ELSE n

translate_pe(src, pe, dest) ==
  IF pe > src.size THEN -1
  ELSE pe_in_active_set(team_pe(src, pe), dest.start, dest.stride, dest.size)

-----------------------------------------------------------------------------
(* split_strided: the triplets it refuses, and the team the others make. *)

split_refused(parent, start, stride, size, num_pes) ==
  LET first == team_pe(parent, start)
  IN  \/ start < 0 \/ start >= parent.size
      \/ size <= 0 \/ size > parent.size
      \/ stride < 1
      \/ first >= num_pes \/ first + stride * (size - 1) >= num_pes

split_strided(parent, start, stride, size) ==
  Team(team_pe(parent, start), stride, size)

-----------------------------------------------------------------------------
(* split_2d: the rows and the columns of a grid of width xrange. *)

ceil_div(a, b) == (a + b - 1) \div b

xteams(parent, range) ==
  LET xrange == IF range > parent.size THEN parent.size ELSE range
      num    == ceil_div(parent.size, xrange)
      xsize(i) == IF i = num - 1 /\ parent.size % xrange # 0
                  THEN parent.size % xrange ELSE xrange
  IN  [i \in 0 .. num - 1 |-> split_strided(parent, i * xrange, parent.stride, xsize(i))]

(* Mutated form: the columns of an incomplete last row are not longer. *)
yteams_short(parent, range) ==
  LET xrange == IF range > parent.size THEN parent.size ELSE range
  IN  [i \in 0 .. xrange - 1 |->
         split_strided(parent, i, xrange * parent.stride, parent.size \div xrange)]

yteams(parent, range) ==
  LET xrange == IF range > parent.size THEN parent.size ELSE range
      yrange == parent.size \div xrange
      ysize(i) == IF i < parent.size % xrange THEN yrange + 1 ELSE yrange
  IN  [i \in 0 .. xrange - 1 |->
         split_strided(parent, i, xrange * parent.stride, ysize(i))]

-----------------------------------------------------------------------------
(* SHMEM_TEAM_SHARED: the PEs of a node, visited in ascending order.        *)

Unset == -1

(* Mutated form: the stride is taken from 0, not from the first PE. *)
check_for_linear_stride_absolute(pe, acc) ==
  IF acc.start = Unset THEN [acc EXCEPT !.start = pe, !.size = @ + 1]
  ELSE IF acc.stride = Unset
       THEN [acc EXCEPT !.stride = pe, !.size = @ + 1]
  ELSE IF (pe - acc.start) % acc.stride # 0 THEN [acc EXCEPT !.ok = FALSE]
       ELSE [acc EXCEPT !.size = @ + 1]

(* One PE joins; the answer -1 is the field ok. *)
check_for_linear_stride(pe, acc) ==
  IF acc.start = Unset THEN [acc EXCEPT !.start = pe, !.size = @ + 1]
  ELSE IF acc.stride = Unset
       THEN [acc EXCEPT !.stride = pe - acc.start, !.size = @ + 1]
  ELSE IF (pe - acc.start) % acc.stride # 0 THEN [acc EXCEPT !.ok = FALSE]
       ELSE [acc EXCEPT !.size = @ + 1]

(* The loop over all PEs: stops at the first PE that does not fit. *)
linear_stride(node, num_pes) ==
  LET none == [start |-> Unset, stride |-> Unset, size |-> 0, ok |-> TRUE]
      after[k \in 0 .. num_pes] ==
        IF k = 0 THEN none
        ELSE IF k - 1 \in node /\ after[k - 1].ok
             THEN check_for_linear_stride(k - 1, after[k - 1])
             ELSE after[k - 1]
  IN  after[num_pes]

(* The team that PE me takes for SHMEM_TEAM_SHARED. *)
shared_team(node, num_pes, me) ==
  LET acc == linear_stride(node, num_pes)
  IN  IF ~ acc.ok THEN Team(me, 1, 1)
      ELSE Team(acc.start, IF acc.stride = Unset THEN 1 ELSE acc.stride, acc.size)
=============================================================================
