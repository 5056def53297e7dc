------------------------------ MODULE KeyStore ------------------------------
(***************************************************************************)
(* What a cluster promises the clients of STORE and GET: it behaves like   *)
(* one store.  A call takes effect at one moment after it was sent, and at *)
(* most once; the client learns the result of that moment, or nothing; and *)
(* an error means that the call has had no effect and never will.          *)
(***************************************************************************)
EXTENDS Naturals, Sequences

CONSTANTS
    Key, Frame,
    NoFrame,    \* no frame under this key
    Initial,    \* what is there at the start
    MaxCalls    \* bound: calls

(***************************************************************************)
(*   store  the frame under each key                                       *)
(*   calls  the calls in the order they were sent: op is "STORE", "GET" or *)
(*          "OTHER" (a command that asks nothing of the store), status is  *)
(*          "pending", "effective" or "void" (will never take effect),     *)
(*          result what the effect gave, reply what the client was told    *)
(***************************************************************************)
VARIABLES store, calls

vars == <<store, calls>>

None == "none"
Stored == "ok"
Failed == "error"

Init ==
    /\ store = Initial
    /\ calls = << >>

Invoke(op, k, f) ==
    /\ Len(calls) < MaxCalls
    /\ calls' = Append(calls, [op |-> op, key |-> k, frame |-> f,
                               status |-> "pending",
                               result |-> None, reply |-> None])
    /\ UNCHANGED store

(* A STORE writes its frame; a GET finds the one that is there. *)
ResultOf(c) == IF c.op = "STORE" THEN Stored ELSE store[c.key]

(* The one moment of a call; the client may be told at once. *)
TakeEffect(i) ==
    LET c == calls[i] IN
    /\ c.op # "OTHER"
    /\ c.status = "pending"
    /\ \E told \in {None, ResultOf(c)} :
         calls' = [calls EXCEPT ![i].status = "effective",
                                ![i].result = ResultOf(c), ![i].reply = told]
    /\ store' = IF c.op = "STORE" THEN [store EXCEPT ![c.key] = c.frame]
                ELSE store

(* The client is told the result, however long ago that was. *)
Respond(i) ==
    /\ calls[i].status = "effective"
    /\ calls[i].reply = None
    /\ calls' = [calls EXCEPT ![i].reply = calls[i].result]
    /\ UNCHANGED store

(* The call is lost on its way. *)
Lose(i) ==
    /\ calls[i].status = "pending"
    /\ \E told \in {None, Failed} :
         calls' = [calls EXCEPT ![i].status = "void", ![i].reply = told]
    /\ UNCHANGED store

Next ==
    \/ \E op \in {"STORE", "GET", "OTHER"}, k \in Key, f \in Frame \cup {NoFrame} :
         Invoke(op, k, f)
    \/ \E i \in 1..Len(calls) : TakeEffect(i) \/ Respond(i) \/ Lose(i)

Spec == Init /\ [][Next]_vars

=============================================================================
