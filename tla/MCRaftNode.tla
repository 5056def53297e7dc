----------------------------- MODULE MCRaftNode -----------------------------
(* Small instances of RaftNode for TLC. *)
EXTENDS RaftNodeInv, TLC

CONSTANTS n1, n2, n3, n4

(* Every node lists every other node. *)
Mesh2 == n1 :> <<n2>> @@ n2 :> <<n1>>
Mesh3 == n1 :> <<n2, n3>> @@ n2 :> <<n1, n3>> @@ n3 :> <<n1, n2>>
Mesh4 == n1 :> <<n2, n3, n4>> @@ n2 :> <<n1, n3, n4>>
           @@ n3 :> <<n1, n2, n4>> @@ n4 :> <<n1, n2, n3>>

(***************************************************************************)
(* With Mesh2 the two nodes are alike, and so are the commands always:     *)
(* nothing in RaftNode compares or orders either.                          *)
(***************************************************************************)
Symmetry2 == Permutations({n1, n2}) \cup Permutations(Command)
=============================================================================
