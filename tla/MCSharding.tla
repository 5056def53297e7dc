----------------------------- MODULE MCSharding -----------------------------
(* Routers and hashes for model checking Sharding. *)
EXTENDS Sharding, TLC

CONSTANTS n1, n2, n3, k1, k2, f1

(* Every server knows all of them, in the order of its own configuration. *)
Same2 == n1 :> <<n1, n2>> @@ n2 :> <<n2, n1>>

(* Each server misses another one. *)
Ring3 == n1 :> <<n2, n1>> @@ n2 :> <<n3, n2>> @@ n3 :> <<n1, n3>>

(* The owner of k1 is the last node, that of other keys the first. *)
Scores2 == [k \in Key |-> IF k = k1 THEN n1 :> 1 @@ n2 :> 2
                          ELSE n1 :> 2 @@ n2 :> 1]
Scores3 == [k \in Key |-> IF k = k1 THEN n1 :> 1 @@ n2 :> 2 @@ n3 :> 3
                          ELSE n1 :> 3 @@ n2 :> 1 @@ n3 :> 2]

(***************************************************************************)
(* Every database has been used before: also those of servers that do not  *)
(* own the key, which an earlier list may have sent it to.                 *)
(***************************************************************************)
Used == [n \in Node |-> [k \in Key |-> IF k = k1 THEN f1 ELSE NoFrame]]

=============================================================================
