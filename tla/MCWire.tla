------------------------------- MODULE MCWire -------------------------------
(* Small instances of Wire for TLC. *)
EXTENDS Wire

(* Lengths with one and with two digits, the limit, and one above it. *)
Messages == {<<2>>, <<3, 3, 2>>, <<2, 3, 3, 3, 2>>, [k \in 1..12 |-> 3],
             [k \in 1..13 |-> 2]}
Ping == <<3, 2, 2, 3>>
=============================================================================
