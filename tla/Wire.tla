-------------------------------- MODULE Wire --------------------------------
(***************************************************************************)
(* The wire protocol of yolo_server, byte by byte: sendMessage on one end  *)
(* of a connection, recvMessage as Connection::handle calls it on the      *)
(* other, and the bytes that checkNodeHealth sends.  The socket is         *)
(* non-blocking, so that MSG_WAITALL has no effect and recv takes what is  *)
(* there.                                                                  *)
(*                                                                         *)
(* Numbers are scaled down, their proportions kept: a header is four bytes *)
(* and big-endian; a byte of text in one of its first two places makes a   *)
(* length above MAX_MESSAGE_SIZE, one in the third place does not (with    *)
(* 256, 'A' and 1 MB in the code, 4, 2 and 12 in the runs).                *)
(***************************************************************************)
EXTENDS Naturals, Sequences

CONSTANTS
    Base,              \* values of a byte
    Text,              \* the bytes messages consist of
    Message,           \* the messages sent: sequences of bytes of text
    PingBytes,         \* the heartbeat of checkNodeHealth
    MAX_MESSAGE_SIZE,
    Fragmented,        \* may a send be taken or arrive in parts?
    MaxMessages        \* bound: messages sent

ASSUME WireAssumption ==
    /\ Base \in Nat /\ Text \subseteq 1..(Base - 1)
    /\ Message \subseteq Seq(Text)
    /\ \A m \in Message : m # << >>
    /\ PingBytes \in Seq(Text) /\ Len(PingBytes) = 4
    /\ MAX_MESSAGE_SIZE \in Nat
    /\ \A t \in Text : t * Base <= MAX_MESSAGE_SIZE
    /\ \A t \in Text : MAX_MESSAGE_SIZE < t * Base * Base
    /\ Fragmented \in BOOLEAN
    /\ MaxMessages \in Nat

(***************************************************************************)
(*   sender   "idle" between calls of sendMessage, "body" between its two  *)
(*            sends, or "probe": the other end is checkNodeHealth          *)
(*   message  what sendMessage was called with last                        *)
(*   calls    how often it was called                                      *)
(*   sent     the messages it has sent in full                             *)
(*   net      the bytes under way, one sequence per call of send           *)
(*   inbox    the bytes that have arrived and are not read                 *)
(*   reader   where Connection::handle is: about to read a "header" or a   *)
(*            "body" of size len, or "closed"                              *)
(*   data     the buffer, which handle uses for all its messages           *)
(*   received the messages recvMessage has returned                        *)
(***************************************************************************)
VARIABLES sender, message, calls, sent, net, inbox, reader, len, data, received

senderVars == <<sender, message, calls, sent>>
readerVars == <<reader, len, data, received>>
vars == <<senderVars, net, inbox, readerVars>>

Init ==
    /\ sender = "idle"
    /\ message = << >>
    /\ calls = 0
    /\ sent = << >>
    /\ net = << >>
    /\ inbox = << >>
    /\ reader = "header"
    /\ len = 0
    /\ data = << >>
    /\ received = << >>

-----------------------------------------------------------------------------
(* htonl: four bytes, the most significant first. *)
Header(n) ==
    <<n \div (Base * Base * Base), (n \div (Base * Base)) % Base,
      (n \div Base) % Base, n % Base>>

(* ntohl, on a buffer that was zero before recv wrote bytes into it. *)
Length(bytes) ==
    LET byte(k) == IF k <= Len(bytes) THEN bytes[k] ELSE 0 IN
    ((byte(1) * Base + byte(2)) * Base + byte(3)) * Base + byte(4)

(* What one send puts on its way: all of it, or a first part. *)
Taken(bytes) ==
    {bytes} \cup (IF Fragmented THEN {SubSeq(bytes, 1, k) : k \in 1..(Len(bytes) - 1)}
                  ELSE {})

(* sendMessage, its first send; when that is short the call fails. *)
SendHeader(m) ==
    /\ sender = "idle"
    /\ calls < MaxMessages
    /\ calls' = calls + 1
    /\ message' = m
    /\ \E bytes \in Taken(Header(Len(m))) :
         /\ net' = Append(net, bytes)
         /\ sender' = IF Len(bytes) = 4 THEN "body" ELSE "idle"
    /\ UNCHANGED <<sent, inbox, readerVars>>

(* Its second send.  Whatever it returns, the connection may be used on. *)
SendBody ==
    /\ sender = "body"
    /\ \E bytes \in Taken(message) :
         /\ net' = Append(net, bytes)
         /\ sent' = IF bytes = message THEN Append(sent, message) ELSE sent
    /\ sender' = "idle"
    /\ UNCHANGED <<message, calls, inbox, readerVars>>

(* checkNodeHealth, on a connection of its own, sends PING as it is. *)
SendProbe ==
    /\ sender = "idle"
    /\ calls = 0
    /\ net' = <<PingBytes>>
    /\ sender' = "probe"
    /\ UNCHANGED <<message, calls, sent, inbox, readerVars>>

(* Bytes arrive in the order they were sent. *)
Arrive ==
    /\ net # << >>
    /\ \E bytes \in Taken(Head(net)) :
         /\ inbox' = inbox \o bytes
         /\ net' = LET rest == SubSeq(Head(net), Len(bytes) + 1, Len(Head(net)))
                   IN IF rest = << >> THEN Tail(net) ELSE <<rest>> \o Tail(net)
    /\ UNCHANGED <<senderVars, readerVars>>

-----------------------------------------------------------------------------
(* recvMessage in Connection::handle *)

(* recv into size bytes: what it takes, and what is left to read. *)
Got(size) == SubSeq(inbox, 1, IF size < Len(inbox) THEN size ELSE Len(inbox))
Rest(size) == IF size < Len(inbox) THEN SubSeq(inbox, size + 1, Len(inbox))
              ELSE << >>

(* std::vector::resize keeps what is there and adds zeros. *)
Resized(v, size) == [k \in 1..size |-> IF k <= Len(v) THEN v[k] ELSE 0]

(* recv returns 0 or an error: handle leaves its loop and closes. *)
RecvNothing ==
    /\ reader # "closed"
    /\ inbox = << >>
    /\ reader' = "closed"
    /\ UNCHANGED <<senderVars, net, inbox, len, data, received>>

(* Mutant: the limit itself is not allowed. *)
ValidLength_Below(n) == n # 0 /\ n < MAX_MESSAGE_SIZE
ValidLength(n) == n # 0 /\ n <= MAX_MESSAGE_SIZE

(* The length: a short read counts, with zeros for what is missing. *)
RecvHeader ==
    /\ reader = "header"
    /\ inbox # << >>
    /\ LET n == Length(Got(4)) IN
         IF ValidLength(n)
         THEN /\ reader' = "body"
              /\ len' = n
              /\ data' = Resized(data, n)
         ELSE /\ reader' = "closed"
              /\ UNCHANGED <<len, data>>
    /\ inbox' = Rest(4)
    /\ UNCHANGED <<senderVars, net, received>>

(* Mutant: the rest of the buffer is read along with the body. *)
RecvBody_WholeBuffer ==
    /\ reader = "body"
    /\ inbox # << >>
    /\ data' = inbox
    /\ inbox' = << >>
    /\ received' = Append(received, data')
    /\ reader' = "header"
    /\ UNCHANGED <<senderVars, net, len>>

(* The body: a short read counts, and leaves the end of data as it was. *)
RecvBody ==
    /\ reader = "body"
    /\ inbox # << >>
    /\ data' = Got(len) \o SubSeq(data, Len(Got(len)) + 1, len)
    /\ inbox' = Rest(len)
    /\ received' = Append(received, data')
    /\ reader' = "header"
    /\ UNCHANGED <<senderVars, net, len>>

Receive == RecvNothing \/ RecvHeader \/ RecvBody

Next ==
    \/ \E m \in Message : SendHeader(m)
    \/ SendBody
    \/ SendProbe
    \/ Arrive
    \/ Receive

Spec == Init /\ [][Next]_vars

(* The worker that runs Connection::handle makes no blocking call. *)
FairSpec == Spec /\ WF_vars(Receive)

-----------------------------------------------------------------------------
(* Properties *)

Channel == INSTANCE MessageChannel WITH
    delivered <- received,
    open <- reader # "closed"

(***************************************************************************)
(* Every message that recvMessage returns is the next one that was sent,   *)
(* whole and unchanged (Protocol.h:12, a complete message is read), and    *)
(* neither the reused buffer, a header whose body is late, an oversized    *)
(* message nor the unframed bytes of a health probe make it return         *)
(* anything else.                                                          *)
(***************************************************************************)
WholeMessages == Channel!Spec

(* The bytes of the first message not yet received are all there. *)
Arrived(i) ==
    /\ Len(received) = i - 1 /\ i <= Len(sent)
    /\ reader = "header"
    /\ Len(sent[i]) <= MAX_MESSAGE_SIZE
    /\ Len(inbox) >= 4 + Len(sent[i])

(***************************************************************************)
(* A message that is there when handle looks for it is handled: up to and  *)
(* including MAX_MESSAGE_SIZE no message is refused, and reading one never *)
(* spoils the next.                                                        *)
(***************************************************************************)
ArrivedIsReceived == \A i \in 1..MaxMessages : Arrived(i) ~> Len(received) >= i

=============================================================================
