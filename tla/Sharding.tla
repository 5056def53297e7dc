------------------------------ MODULE Sharding ------------------------------
(***************************************************************************)
(* The storage commands of yolo_server: STORE and GET as Connection.cpp    *)
(* serves them, the rendezvous hashing of ShardRouter::pickNode, and       *)
(* forwardToNode, which passes a command on to the node that owns the key. *)
(*                                                                         *)
(* The router is a parameter of a Connection: each node has the list of    *)
(* nodes that were healthy when its Server was constructed, and the list   *)
(* never changes.  Lists of different nodes may therefore differ.          *)
(*                                                                         *)
(* Every forward opens a socket of its own, so a reply never answers       *)
(* another request; but the socket is non-blocking and recvMessage may run *)
(* before the reply is there.  Parsing of the commands and the bytes of    *)
(* the frames are left out.                                                *)
(***************************************************************************)
EXTENDS Naturals, Sequences, FiniteSets

CONSTANTS
    Node,        \* the servers
    Key,         \* image ids
    Frame,       \* the frames clients store
    NoFrame,     \* no frame under this key
    Router,      \* m_router.m_nodes of each server
    Score,       \* hash of "key#node.id"
    OnDisk,      \* what each server's database holds when it is opened
    DbMayFail,   \* may RocksDB fail a put or a get?
    MaxRequests  \* bound: commands sent by clients

Listed(n) == {Router[n][k] : k \in 1..Len(Router[n])}

(* The configuration files list the server itself, which counts as healthy. *)
ASSUME RouterAssumption ==
    /\ Router \in [Node -> Seq(Node)]
    /\ \A n \in Node : n \in Listed(n)

(* Hashes of different strings are taken to differ. *)
ASSUME ScoreAssumption ==
    /\ Score \in [Key -> [Node -> Nat]]
    /\ \A k \in Key : \A m, n \in Node : Score[k][m] = Score[k][n] => m = n

(* A database may be new or have been written by earlier runs. *)
ASSUME OnDiskAssumption == OnDisk \in [Node -> [Key -> Frame \cup {NoFrame}]]

ASSUME OtherAssumption ==
    /\ NoFrame \notin Frame
    /\ DbMayFail \in BOOLEAN
    /\ MaxRequests \in Nat

(***************************************************************************)
(*   requests  the commands sent so far; before is the set of commands     *)
(*             that had been acknowledged when this one was sent (history) *)
(*   hops      for each command the Connections it has reached, each on    *)
(*             the server it was forwarded to by the one before            *)
(*   db        RocksDB of each server                                      *)
(***************************************************************************)
VARIABLES requests, hops, db

vars == <<requests, hops, db>>

(***************************************************************************)
(* "EMPTY" is a STORE without payload, "BAD" a command that does not parse *)
(* or is unknown.                                                          *)
(***************************************************************************)
Op == {"STORE", "GET", "PING", "EMPTY", "BAD"}

Answer == [kind : {"none", "ok", "pong", "error", "frame"}, frame : Frame \cup {NoFrame}]

NoAnswer == [kind |-> "none", frame |-> NoFrame]
StoreOk == [kind |-> "ok", frame |-> NoFrame]
Pong == [kind |-> "pong", frame |-> NoFrame]
Error == [kind |-> "error", frame |-> NoFrame]
Found(f) == [kind |-> "frame", frame |-> f]

(***************************************************************************)
(* A Connection has not read the command yet ("sent"), waits for the       *)
(* server it forwarded to ("waiting"), has sent a reply ("answered"), is   *)
(* done with the command without a reply ("silent"), or was closed before  *)
(* the command was there ("lost").                                         *)
(***************************************************************************)
Hop == [node : Node,
        state : {"sent", "waiting", "answered", "silent", "lost"},
        reply : Answer]

TypeOK ==
    /\ requests \in Seq([op : Op, key : Key, frame : Frame \cup {NoFrame},
                         before : SUBSET Nat])
    /\ hops \in Seq(Seq(Hop))
    /\ Len(hops) = Len(requests)
    /\ db \in [Node -> [Key -> Frame \cup {NoFrame}]]

(* The servers accept commands: each has opened its database. *)
Init ==
    /\ requests = << >>
    /\ hops = << >>
    /\ db = OnDisk

-----------------------------------------------------------------------------
(* Mutant: the first node of the list. *)
pickNode_First(n, k) == Router[n][1]

(* The node with the highest score in n's list; all of them are healthy. *)
pickNode(n, k) ==
    CHOOSE p \in Listed(n) : \A q \in Listed(n) : Score[k][q] <= Score[k][p]

(* Connection d of command i is in the given state. *)
At(i, d, state) ==
    /\ i \in 1..Len(requests)
    /\ d \in 1..Len(hops[i])
    /\ hops[i][d].state = state

Local(i, d) == pickNode(hops[i][d].node, requests[i].key) = hops[i][d].node

(* A routed command: handleStore and handleGet ask the router. *)
Routed(i) == requests[i].op \in {"STORE", "GET"}

Goto(i, d, state, reply) ==
    hops' = [hops EXCEPT ![i][d].state = state, ![i][d].reply = reply]

Acknowledged ==
    {i \in 1..Len(requests) : hops[i][1].reply.kind \in {"ok", "frame"}}

-----------------------------------------------------------------------------
(* A client connects to server n and sends a command. *)
Send(n, op, k, f) ==
    /\ Len(requests) < MaxRequests
    /\ (op = "STORE") = (f # NoFrame)
    /\ requests' = Append(requests, [op |-> op, key |-> k, frame |-> f,
                                     before |-> Acknowledged])
    /\ hops' = Append(hops,
                 <<[node |-> n, state |-> "sent", reply |-> NoAnswer]>>)
    /\ UNCHANGED db

(***************************************************************************)
(* Connection::handle runs before the command has arrived: recvMessage     *)
(* returns false and the connection is closed.                             *)
(***************************************************************************)
CloseEarly(i, d) ==
    /\ At(i, d, "sent")
    /\ Goto(i, d, "lost", NoAnswer)
    /\ UNCHANGED <<requests, db>>

(* handleStore finds no payload and returns. *)
StoreMissingPayload(i, d) ==
    /\ At(i, d, "sent")
    /\ requests[i].op = "EMPTY"
    /\ Goto(i, d, "silent", NoAnswer)
    /\ UNCHANGED <<requests, db>>

(* handlePing *)
Ping(i, d) ==
    /\ At(i, d, "sent")
    /\ requests[i].op = "PING"
    /\ Goto(i, d, "answered", Pong)
    /\ UNCHANGED <<requests, db>>

(* The replies that begin with ERROR: unknown command, invalid payload. *)
Refuse(i, d) ==
    /\ At(i, d, "sent")
    /\ requests[i].op = "BAD"
    /\ Goto(i, d, "answered", Error)
    /\ UNCHANGED <<requests, db>>

(* handleStore on the owner: the result of put is not looked at. *)
StoreLocal(i, d) ==
    LET n == hops[i][d].node IN
    /\ At(i, d, "sent")
    /\ requests[i].op = "STORE"
    /\ Local(i, d)
    /\ \/ db' = [db EXCEPT ![n][requests[i].key] = requests[i].frame]
       \/ DbMayFail /\ UNCHANGED db
    /\ Goto(i, d, "answered", StoreOk)
    /\ UNCHANGED requests

(* What RocksDBStorage::get returns: a failed read looks like a missing key. *)
get(n, k) == {db[n][k]} \cup (IF DbMayFail THEN {NoFrame} ELSE {})

(* Mutant: a key that is not there is reported in a way of its own. *)
GetLocal_NotFound(i, d) ==
    /\ At(i, d, "sent")
    /\ requests[i].op = "GET"
    /\ Local(i, d)
    /\ \E f \in get(hops[i][d].node, requests[i].key) :
         Goto(i, d, "answered",
              IF f = NoFrame THEN [kind |-> "missing", frame |-> f] ELSE Found(f))
    /\ UNCHANGED <<requests, db>>

(***************************************************************************)
(* handleGet on the owner.  A missing key yields a default frame, whose    *)
(* empty image_id tells it from a stored one; its width and height are not *)
(* initialised.                                                            *)
(***************************************************************************)
GetLocal(i, d) ==
    /\ At(i, d, "sent")
    /\ requests[i].op = "GET"
    /\ Local(i, d)
    /\ \E f \in get(hops[i][d].node, requests[i].key) :
         Goto(i, d, "answered", Found(f))
    /\ UNCHANGED <<requests, db>>

-----------------------------------------------------------------------------
(* forwardToNode *)

(* The connection is made and the command is sent on. *)
Forward(i, d) ==
    /\ At(i, d, "sent")
    /\ Routed(i)
    /\ ~Local(i, d)
    /\ LET p == pickNode(hops[i][d].node, requests[i].key) IN
         hops' = [hops EXCEPT
                    ![i] = Append([hops[i] EXCEPT ![d].state = "waiting"],
                                  [node |-> p, state |-> "sent",
                                   reply |-> NoAnswer])]
    /\ UNCHANGED <<requests, db>>

(* connectWithRetry gives up: CONNECT_FAILED. *)
ForwardFails(i, d) ==
    /\ At(i, d, "sent")
    /\ Routed(i)
    /\ ~Local(i, d)
    /\ Goto(i, d, "answered", Error)
    /\ UNCHANGED <<requests, db>>

(* FD_FIALED, no socket or a bad address, counts as a success. *)
ForwardNoSocket(i, d) ==
    /\ At(i, d, "sent")
    /\ Routed(i)
    /\ ~Local(i, d)
    /\ Goto(i, d, "silent", NoAnswer)
    /\ UNCHANGED <<requests, db>>

(* The reply of the next server is there and is passed back. *)
Relay(i, d) ==
    /\ At(i, d, "waiting")
    /\ hops[i][d + 1].state = "answered"
    /\ Goto(i, d, "answered", hops[i][d + 1].reply)
    /\ UNCHANGED <<requests, db>>

(* Mutant: the socket blocks until something arrives. *)
RelayFails_Blocking(i, d) ==
    /\ At(i, d, "waiting")
    /\ hops[i][d + 1].state = "silent"
    /\ Goto(i, d, "silent", NoAnswer)
    /\ UNCHANGED <<requests, db>>

(* Mutant: RECV_FAILED is reported like CONNECT_FAILED. *)
RelayFails_Reported(i, d) ==
    /\ At(i, d, "waiting")
    /\ Goto(i, d, "answered", Error)
    /\ UNCHANGED <<requests, db>>

(***************************************************************************)
(* recvMessage returns false, because the reply is not there yet or will   *)
(* never come: RECV_FAILED, which counts as a success.                     *)
(***************************************************************************)
RelayFails(i, d) ==
    /\ At(i, d, "waiting")
    /\ Goto(i, d, "silent", NoAnswer)
    /\ UNCHANGED <<requests, db>>

-----------------------------------------------------------------------------
(* What the worker that runs Connection d of command i does next. *)
Handle(i, d) ==
    \/ CloseEarly(i, d)
    \/ StoreMissingPayload(i, d)
    \/ Ping(i, d)
    \/ Refuse(i, d)
    \/ StoreLocal(i, d)
    \/ GetLocal(i, d)
    \/ Forward(i, d)
    \/ ForwardFails(i, d)
    \/ ForwardNoSocket(i, d)
    \/ Relay(i, d)
    \/ RelayFails(i, d)

Next ==
    \/ \E n \in Node, op \in Op, k \in Key, f \in Frame \cup {NoFrame} :
         Send(n, op, k, f)
    \/ \E i \in 1..Len(requests) : \E d \in 1..Len(hops[i]) : Handle(i, d)

Spec == Init /\ [][Next]_vars

(***************************************************************************)
(* A worker that runs a Connection goes on: its sockets do not block and   *)
(* connectWithRetry ends after five attempts.  NoRevisit bounds d.         *)
(***************************************************************************)
FairSpec ==
    Spec /\ \A i \in 1..MaxRequests, d \in 1..Cardinality(Node) :
              WF_vars(Handle(i, d))

-----------------------------------------------------------------------------
(* Properties *)

(***************************************************************************)
(* forwardToNode never sends a command back to a server it has already     *)
(* been on, although the servers' lists differ and none of them knows      *)
(* where the command has been: forwarding cannot go round in circles.      *)
(***************************************************************************)
NoRevisit ==
    \A i \in 1..Len(requests) : \A c, d \in 1..Len(hops[i]) :
       hops[i][c].node = hops[i][d].node => c = d

(***************************************************************************)
(* Every Connection gets done with every command, so that its worker is    *)
(* free for the next one, whatever the other servers do.                   *)
(***************************************************************************)
WorkersFree ==
    \A i \in 1..MaxRequests :
       i <= Len(requests) ~>
         /\ i <= Len(requests)
         /\ \A d \in 1..Len(hops[i]) :
              hops[i][d].state \in {"answered", "silent", "lost"}

Stores(k) == {i \in 1..Len(requests) :
                requests[i].op = "STORE" /\ requests[i].key = k}

(* With the same list on all servers: the one that has key k. *)
Owner(k) == pickNode(CHOOSE n \in Node : TRUE, k)

(***************************************************************************)
(* With the same list on all servers a GET through any of them sees the    *)
(* STOREs acknowledged before it: it returns what the owner's database     *)
(* held at the start only if there are none, and otherwise the frame of a  *)
(* STORE that was not acknowledged before a later STORE was even sent,     *)
(* however late the forwarded commands are carried out.                    *)
(***************************************************************************)
ReadsAcknowledged ==
    \A g \in 1..Len(requests) :
       requests[g].op = "GET" /\ hops[g][1].reply.kind = "frame" =>
         LET k == requests[g].key
             f == hops[g][1].reply.frame
             acked == Stores(k) \cap requests[g].before
         IN \/ acked = {} /\ f = OnDisk[Owner(k)][k]
            \/ \E w \in Stores(k) :
                   /\ requests[w].frame = f
                   /\ \A s \in acked : w \notin requests[s].before

(***************************************************************************)
(* The mapping to one store: the frame under a key is the one its owner    *)
(* has.  A command has taken effect when some Connection of it has the     *)
(* owner's answer, and never will when its last Connection is done and     *)
(* none has.                                                               *)
(***************************************************************************)
Told(a) ==
    CASE a.kind = "ok" -> "ok"
      [] a.kind = "frame" -> a.frame
      [] a.kind = "error" -> "error"
      [] OTHER -> "none"

CallOf(i) ==
    LET answers == {hops[i][d].reply : d \in 1..Len(hops[i])}
        effects == {a \in answers : a.kind \in {"ok", "frame"}}
        over == hops[i][Len(hops[i])].state # "sent"
    IN [op |-> IF Routed(i) THEN requests[i].op ELSE "OTHER",
        key |-> requests[i].key, frame |-> requests[i].frame,
        status |-> IF effects # {} THEN "effective"
                   ELSE IF over THEN "void" ELSE "pending",
        result |-> IF effects = {} THEN "none"
                   ELSE Told(CHOOSE a \in effects : TRUE),
        reply |-> Told(hops[i][1].reply)]

Store == INSTANCE KeyStore WITH
    MaxCalls <- MaxRequests,
    Initial <- [k \in Key |-> OnDisk[Owner(k)][k]],
    store <- [k \in Key |-> db[Owner(k)][k]],
    calls <- [i \in 1..Len(requests) |-> CallOf(i)]

(***************************************************************************)
(* Servers with the same list are together one linearizable store: every   *)
(* STORE and GET, forwarded or not, takes effect at most once and between  *)
(* its request and its reply, and after an ERROR it never will, although a *)
(* forwarder may have given up on a command that the owner still reads.    *)
(***************************************************************************)
OneStore == Store!Spec

=============================================================================
