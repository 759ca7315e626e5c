------------------------------ MODULE MCTeams ------------------------------
(***************************************************************************)
(* Instances of Teams: three PEs, two of which share a node.               *)
(***************************************************************************)
EXTENDS Teams

TwoNodes == {{0, 1}, {2}}
OneNode == {PE}
SomeChildren == {{0, 1}, {1, 2}}
AllPEs == {PE}

\* Programs that make and destroy teams with reductions on them, and programs
\* of broadcasts and syncs in a row.
TwoPrograms == {{"split", "destroy", "reduce"}, {"bcast", "sync"}}
Broadcasts == {{"bcast"}}
=============================================================================
