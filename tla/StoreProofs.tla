---------------------------- MODULE StoreProofs -----------------------------
(***************************************************************************)
(* Servers that have the same list are together one linearizable store     *)
(* (Sharding implements KeyStore), and a GET sees what was acknowledged    *)
(* before it was sent.  A command is forwarded once at most, to the owner  *)
(* of its key; its effect, if it has one, is what the last of its          *)
(* Connections has answered.                                               *)
(***************************************************************************)
EXTENDS ShardingProofs

(* All servers list the same nodes, in whatever order. *)
SameLists == \A m, n \in Node : Listed(m) = Listed(n)

LastHop(i) == hops[i][Len(hops[i])]

(* The answers that only the owner of a key gives. *)
Effect(a) == a.kind \in {"ok", "frame"}

(***************************************************************************)
(* The Connections of command i: one, or one and the owner's.  Only a      *)
(* Connection that has answered has a reply, an answer of the first of two *)
(* is the owner's, and the owner answers nothing but what it did.          *)
(***************************************************************************)
CommandInv(i) ==
    /\ Len(hops[i]) \in {1, 2}
    /\ \A c \in 1..Len(hops[i]) :
          hops[i][c].state # "answered" => hops[i][c].reply = NoAnswer
    /\ Len(hops[i]) = 2 =>
          /\ Routed(i)
          /\ hops[i][2].node = Owner(requests[i].key)
          /\ hops[i][2].state = "answered" => Effect(hops[i][2].reply)
          /\ hops[i][1].state = "answered" =>
                /\ hops[i][2].state = "answered"
                /\ hops[i][1].reply = hops[i][2].reply

StoreInv == ForwardInv /\ \A i \in 1..Len(requests) : CommandInv(i)

-----------------------------------------------------------------------------
(* The owner of a key *)

(* Every server picks the same node. *)
LEMMA AllPickOwner ==
    ASSUME SameLists, NEW n \in Node, NEW k \in Key
    PROVE  pickNode(n, k) = Owner(k) /\ Owner(k) \in Node
<1> DEFINE m == CHOOSE x \in Node : TRUE
<1>1. m \in Node
  OBVIOUS
<1>2. Listed(n) = Listed(m)
  BY <1>1 DEF SameLists
<1>3. pickNode(n, k) = pickNode(m, k)
  BY <1>2 DEF pickNode
<1> QED
  BY <1>1, <1>3, PickedIsBetter DEF Owner

-----------------------------------------------------------------------------
(* What the handlers do to the Connections of a command *)

(* The types of a command and of its Connections. *)
LEMMA CommandTypes ==
    ASSUME ForwardInv, NEW i \in 1..Len(requests)
    PROVE  /\ requests[i] \in Request /\ requests[i].key \in Key
           /\ requests[i].before \subseteq Nat
           /\ Len(requests) \in Nat /\ Len(hops) = Len(requests)
           /\ DOMAIN hops = 1..Len(requests)
           /\ hops[i] \in Seq(Hop) /\ Len(hops[i]) \in Nat /\ Len(hops[i]) >= 1
           /\ hops[i] \in [1..Len(hops[i]) -> Hop]
           /\ \A d \in 1..Len(hops[i]) :
                 /\ hops[i][d] \in Hop /\ hops[i][d].node \in Node
                 /\ hops[i][d].reply \in Answer
<1>1. /\ hops \in Seq(Seq(Hop)) /\ Len(hops) = Len(requests)
      /\ requests \in Seq(Request) /\ Len(hops[i]) >= 1
  BY DEF ForwardInv, TypeOK, Request, HasHop
<1>2. Len(requests) \in Nat /\ DOMAIN hops = 1..Len(requests)
  BY <1>1, LenProperties
<1>3. requests[i] \in Request /\ hops[i] \in Seq(Hop)
  BY <1>1, ElementOfSeq
<1>4. requests[i].key \in Key /\ requests[i].before \subseteq Nat
  BY <1>3 DEF Request
<1>5. Len(hops[i]) \in Nat /\ hops[i] \in [1..Len(hops[i]) -> Hop]
  BY <1>3, LenProperties
<1>6. \A d \in 1..Len(hops[i]) : hops[i][d] \in Hop
  BY <1>5
<1>7. \A d \in 1..Len(hops[i]) :
         hops[i][d].node \in Node /\ hops[i][d].reply \in Answer
  BY <1>6 DEF Hop
<1> QED
  BY <1>1, <1>2, <1>3, <1>4, <1>5, <1>6, <1>7

(* Connection d of command i has got done: nothing else has changed. *)
Done(i, d, state, reply) ==
    /\ requests' = requests
    /\ \A j \in 1..Len(requests) : j # i => hops'[j] = hops[j]
    /\ Len(hops'[i]) = Len(hops[i])
    /\ \A c \in 1..Len(hops[i]) : c # d => hops'[i][c] = hops[i][c]
    /\ hops'[i][d].node = hops[i][d].node
    /\ hops'[i][d].state = state /\ hops'[i][d].reply = reply

(* Goto spelled out. *)
LEMMA GotoIsDone ==
    ASSUME ForwardInv, NEW i \in 1..Len(requests), NEW d \in 1..Len(hops[i]),
           NEW state, NEW reply, Goto(i, d, state, reply), requests' = requests
    PROVE  Done(i, d, state, reply)
<1>1. /\ DOMAIN hops = 1..Len(requests) /\ Len(hops[i]) \in Nat
      /\ hops[i] \in Seq(Hop) /\ hops[i] \in [1..Len(hops[i]) -> Hop]
      /\ hops[i][d] \in Hop
  BY CommandTypes
<1>2. PICK h : h = [hops[i][d] EXCEPT !.state = state, !.reply = reply]
  OBVIOUS
<1>3. h.node = hops[i][d].node /\ h.state = state /\ h.reply = reply
  BY <1>1, <1>2 DEF Hop
<1>4. PICK s : s = [hops[i] EXCEPT ![d] = h]
  OBVIOUS
<1>5. /\ DOMAIN s = 1..Len(hops[i]) /\ s[d] = h
      /\ \A c \in 1..Len(hops[i]) : c # d => s[c] = hops[i][c]
  BY <1>1, <1>4
<1>6. hops' = [hops EXCEPT ![i] = s]
  BY <1>2, <1>4 DEF Goto
<1>7. hops'[i] = s /\ \A j \in 1..Len(requests) : j # i => hops'[j] = hops[j]
  BY <1>1, <1>6
<1>8. Len(s) = Len(hops[i])
  <2>1. s \in Seq(Hop \cup {h})
    BY <1>1, <1>4
  <2> QED
    BY <1>1, <1>5, <2>1
<1> QED
  BY <1>3, <1>5, <1>7, <1>8 DEF Done

(***************************************************************************)
(* The five things that can happen to a command: it takes effect on the    *)
(* owner, it is lost, it is forwarded to the owner, the owner's answer is  *)
(* passed back, or the forwarder gives up waiting for that answer.         *)
(***************************************************************************)
TakesEffect(i, d, r) ==
    LET k == requests[i].key IN
    /\ d = Len(hops[i]) /\ hops[i][d].state = "sent" /\ Routed(i)
    /\ Done(i, d, "answered", r)
    /\ \/ /\ requests[i].op = "STORE" /\ r = StoreOk
          /\ db' = [db EXCEPT ![Owner(k)][k] = requests[i].frame]
       \/ requests[i].op = "GET" /\ r = Found(db[Owner(k)][k]) /\ db' = db

IsLost(i, d, state, r) ==
    /\ d = Len(hops[i]) /\ hops[i][d].state = "sent" /\ db' = db
    /\ Done(i, d, state, r)
    /\ state # "sent" /\ r \in {NoAnswer, Error, Pong}
    /\ state # "answered" => r = NoAnswer
    /\ Len(hops[i]) = 2 => state = "lost"

IsForwarded(i) ==
    /\ Len(hops[i]) = 1 /\ hops[i][1].state = "sent" /\ Routed(i)
    /\ requests' = requests /\ db' = db
    /\ \A j \in 1..Len(requests) : j # i => hops'[j] = hops[j]
    /\ Len(hops'[i]) = 2
    /\ hops'[i][1].state = "waiting" /\ hops'[i][1].reply = hops[i][1].reply
    /\ hops'[i][2] = [node |-> Owner(requests[i].key), state |-> "sent",
                      reply |-> NoAnswer]

IsRelayed(i) ==
    /\ Len(hops[i]) = 2 /\ hops[i][1].state = "waiting"
    /\ hops[i][2].state = "answered" /\ db' = db
    /\ Done(i, 1, "answered", hops[i][2].reply)

IsGivenUp(i) ==
    /\ Len(hops[i]) = 2 /\ hops[i][1].state = "waiting" /\ db' = db
    /\ Done(i, 1, "silent", NoAnswer)

Happens(i) ==
    \/ \E d, r : TakesEffect(i, d, r)
    \/ \E d, state, r : IsLost(i, d, state, r)
    \/ IsForwarded(i)
    \/ IsRelayed(i)
    \/ IsGivenUp(i)

(* forwardToNode, by a Connection that is not on the owner. *)
LEMMA ForwardDoes ==
    ASSUME StoreInv, SameLists, NEW i \in 1..Len(requests),
           NEW d \in 1..Len(hops[i]), Forward(i, d), Len(hops[i]) = 1
    PROVE  IsForwarded(i)
<1>1. /\ DOMAIN hops = 1..Len(requests)
      /\ hops[i] \in Seq(Hop) /\ hops[i] \in [1..Len(hops[i]) -> Hop]
      /\ requests[i].key \in Key /\ hops[i][d] \in Hop /\ hops[i][d].node \in Node
  BY CommandTypes DEF StoreInv
<1>2. d = 1 /\ hops[i][1].state = "sent" /\ Routed(i)
  BY DEF Forward, At
<1>3. pickNode(hops[i][1].node, requests[i].key) = Owner(requests[i].key)
      /\ Owner(requests[i].key) \in Node
  BY <1>1, <1>2, AllPickOwner
<1>4. PICK h : h = [hops[i][1] EXCEPT !.state = "waiting"]
  OBVIOUS
<1>5. h \in Hop /\ h.state = "waiting" /\ h.reply = hops[i][1].reply
  BY <1>1, <1>2, <1>4 DEF Hop
<1>6. PICK s : s = [hops[i] EXCEPT ![1] = h]
  OBVIOUS
<1>7. s \in Seq(Hop) /\ Len(s) = 1 /\ s[1] = h
  <2>1. s \in Seq(Hop) /\ Len(s) = Len(hops[i])
    BY <1>1, <1>2, <1>5, <1>6, ExceptSeq
  <2>2. s[1] = h
    BY <1>1, <1>2, <1>6
  <2> QED
    BY <2>1, <2>2
<1>8. PICK g : g = [node |-> Owner(requests[i].key), state |-> "sent",
                    reply |-> NoAnswer]
  OBVIOUS
<1>9. g \in Hop
  BY <1>3, <1>8 DEF Hop, Answer, NoAnswer
<1>10. PICK t : t = Append(s, g)
  OBVIOUS
<1>11. Len(t) = 2 /\ t[1] = h /\ t[2] = g
  <2>1. /\ Len(t) = Len(s) + 1 /\ t[Len(s) + 1] = g
        /\ \A c \in 1..Len(s) : t[c] = s[c]
    <3>1. s \in Seq(Hop) /\ g \in Hop
      BY <1>7, <1>9
    <3> QED
      BY <1>10, <3>1, AppendProperties
  <2>2. Len(s) + 1 = 2 /\ 1 \in 1..Len(s)
    BY <1>7
  <2> QED
    BY <1>7, <2>1, <2>2
<1>12. hops' = [hops EXCEPT ![i] = t] /\ requests' = requests /\ db' = db
  BY <1>2, <1>3, <1>4, <1>6, <1>8, <1>10 DEF Forward
<1>13. hops'[i] = t /\ \A j \in 1..Len(requests) : j # i => hops'[j] = hops[j]
  BY <1>1, <1>12
<1> QED
  BY <1>2, <1>5, <1>8, <1>11, <1>12, <1>13 DEF IsForwarded

(* A Connection that has not read its command is the last one. *)
LEMMA SentFacts ==
    ASSUME StoreInv, SameLists, NEW i \in 1..Len(requests),
           NEW d \in 1..Len(hops[i]), At(i, d, "sent")
    PROVE  /\ d = Len(hops[i]) /\ hops[i][d].state = "sent"
           /\ hops[i][d].reply = NoAnswer
           /\ Len(hops[i]) = 1 \/ Len(hops[i]) = 2
           /\ Len(hops[i]) = 2 => Routed(i) /\ Local(i, d)
           /\ Local(i, d) => hops[i][d].node = Owner(requests[i].key)
<1>1. /\ CommandInv(i) /\ requests[i].key \in Key /\ hops[i][d].node \in Node
      /\ d = Len(hops[i]) /\ hops[i][d].state = "sent"
  BY CommandTypes DEF StoreInv, At, ForwardInv, SentIsLast
<1>2. pickNode(hops[i][d].node, requests[i].key) = Owner(requests[i].key)
  BY <1>1, AllPickOwner
<1>3. hops[i][d].reply = NoAnswer
  BY <1>1 DEF CommandInv
<1>4. Len(hops[i]) = 1 \/ Len(hops[i]) = 2
  BY <1>1 DEF CommandInv
<1>5. Len(hops[i]) = 2 => Routed(i) /\ Local(i, d)
  BY <1>1, <1>2 DEF CommandInv, Local
<1> QED
  BY <1>1, <1>2, <1>3, <1>4, <1>5 DEF Local

(* Whatever a handler does is one of the five. *)
LEMMA HandleDoes ==
    ASSUME StoreInv, SameLists, ~DbMayFail, NEW i \in 1..Len(requests),
           NEW d \in 1..Len(hops[i]), Handle(i, d)
    PROVE  Happens(i)
<1>1. ForwardInv /\ CommandInv(i)
  BY DEF StoreInv
<1>2. ASSUME At(i, d, "sent"), db' = db, requests' = requests,
             NEW state \in {"answered", "silent", "lost"},
             NEW r \in {NoAnswer, Error, Pong},
             state # "answered" => r = NoAnswer,
             Len(hops[i]) = 2 => state = "lost", Goto(i, d, state, r)
      PROVE  Happens(i)
  <2>1. IsLost(i, d, state, r)
    BY <1>1, <1>2, SentFacts, GotoIsDone DEF IsLost
  <2> QED
    BY <2>1 DEF Happens
<1>3. CASE CloseEarly(i, d)
  BY <1>2, <1>3 DEF CloseEarly
<1>4. CASE StoreMissingPayload(i, d) \/ Ping(i, d) \/ Refuse(i, d)
  <2>1. At(i, d, "sent") /\ ~Routed(i)
    BY <1>4 DEF StoreMissingPayload, Ping, Refuse, Routed
  <2>2. Len(hops[i]) # 2
    BY <2>1, SentFacts
  <2> QED
    BY <1>2, <1>4, <2>1, <2>2 DEF StoreMissingPayload, Ping, Refuse
<1>5. CASE ForwardFails(i, d) \/ ForwardNoSocket(i, d)
  <2>1. At(i, d, "sent") /\ ~Local(i, d)
    BY <1>5 DEF ForwardFails, ForwardNoSocket
  <2>2. Len(hops[i]) # 2
    BY <2>1, SentFacts
  <2> QED
    BY <1>2, <1>5, <2>1, <2>2 DEF ForwardFails, ForwardNoSocket
<1>6. CASE Forward(i, d)
  <2>1. Len(hops[i]) = 1
    BY <1>6, SentFacts DEF Forward
  <2> QED
    BY <1>6, <2>1, ForwardDoes DEF Happens
<1>7. CASE StoreLocal(i, d)
  <2>1. At(i, d, "sent") /\ Local(i, d) /\ requests[i].op = "STORE"
    BY <1>7 DEF StoreLocal
  <2>2. hops[i][d].node = Owner(requests[i].key)
    BY <2>1, SentFacts
  <2>3. /\ db' = [db EXCEPT ![Owner(requests[i].key)][requests[i].key]
                               = requests[i].frame]
        /\ Goto(i, d, "answered", StoreOk) /\ requests' = requests
    BY <1>7, <2>2 DEF StoreLocal
  <2>4. TakesEffect(i, d, StoreOk)
    BY <1>1, <2>1, <2>3, SentFacts, GotoIsDone DEF TakesEffect, Routed
  <2> QED
    BY <2>4 DEF Happens
<1>8. CASE GetLocal(i, d)
  <2>1. At(i, d, "sent") /\ Local(i, d) /\ requests[i].op = "GET"
    BY <1>8 DEF GetLocal
  <2>2. hops[i][d].node = Owner(requests[i].key)
    BY <2>1, SentFacts
  <2> DEFINE r == Found(db[Owner(requests[i].key)][requests[i].key])
  <2>3. Goto(i, d, "answered", r) /\ requests' = requests /\ db' = db
    BY <1>8, <2>2 DEF GetLocal, get
  <2> HIDE DEF r
  <2>4. Done(i, d, "answered", r)
    BY <1>1, <2>3, GotoIsDone
  <2>5. TakesEffect(i, d, r)
    BY <2>1, <2>3, <2>4, SentFacts DEF TakesEffect, Routed, r
  <2> QED
    BY <2>5 DEF Happens
<1>9. CASE Relay(i, d) \/ RelayFails(i, d)
  <2>1. /\ hops[i][d].state = "waiting" /\ d < Len(hops[i])
        /\ db' = db /\ requests' = requests
    BY <1>1, <1>9 DEF Relay, RelayFails, At, ForwardInv, WaitingIsNotLast
  <2>2. Len(hops[i]) = 2 /\ d = 1
    <3>1. Len(hops[i]) = 1 \/ Len(hops[i]) = 2
      BY <1>1 DEF CommandInv
    <3>2. d \in Nat /\ d >= 1
      BY <1>1, CommandTypes
    <3>3. ASSUME NEW l \in Nat, l = 1 \/ l = 2, d < l
          PROVE  l = 2 /\ d = 1
      BY <3>2, <3>3
    <3> QED
      BY <2>1, <3>1, <3>3
  <2>3. CASE Relay(i, d)
    <3>1. hops[i][2].state = "answered" /\ Goto(i, 1, "answered", hops[i][2].reply)
      BY <2>2, <2>3 DEF Relay
    <3>2. IsRelayed(i)
      BY <1>1, <2>1, <2>2, <3>1, GotoIsDone DEF IsRelayed
    <3> QED
      BY <3>2 DEF Happens
  <2>4. CASE RelayFails(i, d)
    <3>1. Goto(i, 1, "silent", NoAnswer)
      BY <2>2, <2>4 DEF RelayFails
    <3>2. IsGivenUp(i)
      BY <1>1, <2>1, <2>2, <3>1, GotoIsDone DEF IsGivenUp
    <3> QED
      BY <3>2 DEF Happens
  <2> QED
    BY <1>9, <2>3, <2>4
<1> QED
  BY <1>3, <1>4, <1>5, <1>6, <1>7, <1>8, <1>9 DEF Handle

-----------------------------------------------------------------------------
(* Steps preserve the invariant *)

(* The other commands are as they were. *)
LEMMA CommandKept ==
    ASSUME NEW j, CommandInv(j), hops'[j] = hops[j], requests'[j] = requests[j]
    PROVE  CommandInv(j)'
BY DEF CommandInv, Routed

(* Whatever happens to command i, its Connections stay in order. *)
LEMMA CommandAfter ==
    ASSUME StoreInv, NEW i \in 1..Len(requests), Happens(i)
    PROVE  CommandInv(i)'
<1>1. /\ Len(hops[i]) = 1 \/ Len(hops[i]) = 2
      /\ Len(hops[i]) = 2 => 1 \in 1..Len(hops[i]) /\ 2 \in 1..Len(hops[i])
  BY DEF StoreInv, CommandInv
<1>2. CommandInv(i)
  BY DEF StoreInv
<1>3. ASSUME NEW d, NEW r, TakesEffect(i, d, r)
      PROVE  CommandInv(i)'
  <2>1. /\ d = Len(hops[i]) /\ hops[i][d].state = "sent"
        /\ Done(i, d, "answered", r) /\ Routed(i)
    BY <1>3 DEF TakesEffect
  <2>2. Effect(r)
    BY <1>3 DEF TakesEffect, Effect, StoreOk, Found
  <2>3. CASE Len(hops[i]) = 1
    BY <1>2, <2>1, <2>3 DEF CommandInv, Done
  <2>4. CASE Len(hops[i]) = 2
    <3>1. /\ requests' = requests /\ Len(hops'[i]) = 2
          /\ hops'[i][1] = hops[i][1]
          /\ hops'[i][2].state = "answered" /\ hops'[i][2].reply = r
          /\ hops'[i][2].node = hops[i][2].node
      BY <2>1, <2>4 DEF Done
    <3>2. hops[i][1].state # "answered"
      BY <1>2, <2>1, <2>4 DEF CommandInv
    <3> QED
      BY <1>2, <2>2, <2>4, <3>1, <3>2 DEF CommandInv, Routed
  <2> QED
    BY <1>1, <2>3, <2>4
<1>4. ASSUME NEW d, NEW state, NEW r, IsLost(i, d, state, r)
      PROVE  CommandInv(i)'
  <2>1. /\ d = Len(hops[i]) /\ hops[i][d].state = "sent"
        /\ Done(i, d, state, r)
        /\ state # "answered" => r = NoAnswer
        /\ Len(hops[i]) = 2 => state = "lost"
    BY <1>4 DEF IsLost
  <2>3. CASE Len(hops[i]) = 1
    BY <1>2, <2>1, <2>3 DEF CommandInv, Done
  <2>4. CASE Len(hops[i]) = 2
    <3>1. /\ requests' = requests /\ Len(hops'[i]) = 2
          /\ hops'[i][1] = hops[i][1]
          /\ hops'[i][2].state = "lost" /\ hops'[i][2].reply = NoAnswer
          /\ hops'[i][2].node = hops[i][2].node
      BY <2>1, <2>4 DEF Done
    <3>2. hops[i][1].state # "answered"
      BY <1>2, <2>1, <2>4 DEF CommandInv
    <3> QED
      BY <1>2, <2>4, <3>1, <3>2 DEF CommandInv, Routed
  <2> QED
    BY <1>1, <2>3, <2>4
<1>5. CASE IsForwarded(i)
  <2>1. /\ requests' = requests /\ Len(hops'[i]) = 2 /\ Routed(i)
        /\ hops'[i][1].state = "waiting" /\ hops'[i][1].reply = NoAnswer
        /\ hops'[i][2].node = Owner(requests[i].key)
        /\ hops'[i][2].state = "sent" /\ hops'[i][2].reply = NoAnswer
    BY <1>2, <1>5 DEF CommandInv, IsForwarded
  <2> QED
    BY <2>1 DEF CommandInv, Routed
<1>6. CASE IsRelayed(i)
  <2>1. /\ requests' = requests /\ Len(hops'[i]) = 2 /\ Len(hops[i]) = 2
        /\ hops'[i][1].state = "answered" /\ hops'[i][1].reply = hops[i][2].reply
        /\ hops'[i][2] = hops[i][2] /\ hops[i][2].state = "answered"
    BY <1>1, <1>6 DEF IsRelayed, Done
  <2> QED
    BY <1>2, <2>1 DEF CommandInv, Routed
<1>7. CASE IsGivenUp(i)
  <2>1. /\ requests' = requests /\ Len(hops'[i]) = 2 /\ Len(hops[i]) = 2
        /\ hops'[i][1].state = "silent" /\ hops'[i][1].reply = NoAnswer
        /\ hops'[i][2] = hops[i][2]
    BY <1>1, <1>7 DEF IsGivenUp, Done
  <2> QED
    BY <1>2, <2>1 DEF CommandInv, Routed
<1> QED
  BY <1>3, <1>4, <1>5, <1>6, <1>7 DEF Happens

(* A step of a handler leaves the other commands alone. *)
LEMMA OthersKept ==
    ASSUME NEW i, Happens(i)
    PROVE  /\ requests' = requests
           /\ \A j \in 1..Len(requests) : j # i => hops'[j] = hops[j]
BY DEF Happens, TakesEffect, IsLost, IsForwarded, IsRelayed, IsGivenUp, Done

(* What Send adds. *)
LEMMA SendDoes ==
    ASSUME ForwardInv, NEW n \in Node, NEW op \in Op, NEW k \in Key,
           NEW f \in Frame \cup {NoFrame}, Send(n, op, k, f),
           NEW m, m = Len(requests) + 1
    PROVE  /\ Len(requests) \in Nat /\ Len(requests) < MaxRequests
           /\ Len(requests') = m /\ db' = db
           /\ requests'[m] = [op |-> op, key |-> k, frame |-> f,
                              before |-> Acknowledged]
           /\ hops'[m] = <<[node |-> n, state |-> "sent", reply |-> NoAnswer]>>
           /\ \A j \in 1..Len(requests) :
                 requests'[j] = requests[j] /\ hops'[j] = hops[j]
           /\ 1..m = 1..Len(requests) \cup {m}
<1>1. /\ hops \in Seq(Seq(Hop)) /\ Len(hops) = Len(requests)
      /\ requests \in Seq(Request)
  BY DEF ForwardInv, TypeOK, Request
<1>2. Len(requests) \in Nat
  BY <1>1, LenProperties
<1>3. PICK s : s = <<[node |-> n, state |-> "sent", reply |-> NoAnswer]>>
  OBVIOUS
<1>4. PICK r : r = [op |-> op, key |-> k, frame |-> f, before |-> Acknowledged]
  OBVIOUS
<1>5. s \in Seq(Hop) /\ r \in Request
  <2>1. Acknowledged \subseteq Nat
    BY <1>2 DEF Acknowledged
  <2>2. r \in Request
    BY <1>4, <2>1 DEF Request
  <2>3. PICK h : h = [node |-> n, state |-> "sent", reply |-> NoAnswer]
    OBVIOUS
  <2>4. h \in Hop
    BY <2>3 DEF Hop, Answer, NoAnswer
  <2> QED
    BY <1>3, <2>2, <2>3, <2>4
<1>6. requests' = Append(requests, r) /\ hops' = Append(hops, s) /\ db' = db
      /\ Len(requests) < MaxRequests
  BY <1>3, <1>4 DEF Send
<1>7. /\ Len(requests') = Len(requests) + 1 /\ requests'[Len(requests) + 1] = r
      /\ \A j \in 1..Len(requests) : requests'[j] = requests[j]
  BY <1>1, <1>5, <1>6, AppendProperties
<1>8. /\ hops'[Len(hops) + 1] = s /\ \A j \in 1..Len(hops) : hops'[j] = hops[j]
  BY <1>1, <1>5, <1>6, AppendProperties
<1>9. 1..m = 1..Len(requests) \cup {m}
  BY <1>2
<1> QED
  BY <1>1, <1>2, <1>3, <1>4, <1>6, <1>7, <1>8, <1>9

(***************************************************************************)
(* The Connections of every command stay in order, if all servers have the *)
(* same list.                                                              *)
(***************************************************************************)
LEMMA StoreInvNext ==
    ASSUME StoreInv, SameLists, ~DbMayFail, [Next]_vars
    PROVE  StoreInv'
<1>1. CASE UNCHANGED vars
  <2>1. /\ requests' = requests /\ hops' = hops /\ ForwardInv
        /\ \A j \in 1..Len(requests) : CommandInv(j)
    BY <1>1 DEF vars, StoreInv
  <2>2. \A j \in 1..Len(requests') : CommandInv(j)'
    BY <2>1, CommandKept
  <2>3. ForwardInv'
    BY <1>1, <2>1 DEF vars, ForwardInv, TypeOK, HasHop, SentIsLast,
                WaitingIsNotLast, ScoresIncrease
  <2> QED
    BY <2>2, <2>3 DEF StoreInv
<1>2. ASSUME NEW n \in Node, NEW op \in Op, NEW k \in Key,
             NEW f \in Frame \cup {NoFrame}, Send(n, op, k, f)
      PROVE  StoreInv'
  <2>1. ForwardInv /\ ForwardInv'
    BY <1>2, InvAfterSend DEF StoreInv
  <2>2. PICK m : m = Len(requests) + 1
    OBVIOUS
  <2>3. /\ Len(requests') = m /\ 1..m = 1..Len(requests) \cup {m}
        /\ hops'[m] = <<[node |-> n, state |-> "sent", reply |-> NoAnswer]>>
        /\ \A j \in 1..Len(requests) :
              requests'[j] = requests[j] /\ hops'[j] = hops[j]
    BY <1>2, <2>1, <2>2, SendDoes
  <2>4. CommandInv(m)'
    <3>1. Len(hops'[m]) = 1 /\ hops'[m][1].reply = NoAnswer
      BY <2>3
    <3> QED
      BY <3>1 DEF CommandInv
  <2>5. ASSUME NEW j \in 1..Len(requests)
        PROVE  CommandInv(j)'
    BY <2>3, CommandKept DEF StoreInv
  <2> QED
    BY <2>1, <2>3, <2>4, <2>5 DEF StoreInv
<1>3. ASSUME NEW i \in 1..Len(requests), NEW d \in 1..Len(hops[i]),
             Handle(i, d)
      PROVE  StoreInv'
  <2>1. ForwardInv' /\ Happens(i)
    BY <1>3, InvAfterHandle, HandleDoes DEF StoreInv
  <2>2. /\ requests' = requests
        /\ \A j \in 1..Len(requests) : j # i => hops'[j] = hops[j]
    BY <2>1, OthersKept
  <2>3. CommandInv(i)'
    BY <2>1, CommandAfter
  <2>4. ASSUME NEW j \in 1..Len(requests)
        PROVE  CommandInv(j)'
    BY <2>2, <2>3, CommandKept DEF StoreInv
  <2> QED
    BY <2>1, <2>2, <2>4 DEF StoreInv
<1> QED
  BY <1>1, <1>2, <1>3 DEF Next

(* The inductive invariant of servers with the same list. *)
LEMMA StoreInvariant ==
    ASSUME SameLists, ~DbMayFail
    PROVE  Spec => []StoreInv
<1>1. Init => StoreInv
  <2> SUFFICES ASSUME Init PROVE StoreInv
    OBVIOUS
  <2>1. requests = << >> /\ hops = << >> /\ Len(requests) = 0 /\ Len(hops) = 0
    BY EmptySeq DEF Init
  <2>2. requests \in Seq(Request) /\ hops \in Seq(Seq(Hop))
    BY <2>1, EmptySeq
  <2>3. TypeOK
    BY <2>1, <2>2, OnDiskAssumption DEF TypeOK, Init, Request
  <2>4. 1..Len(requests) = {}
    BY <2>1
  <2> QED
    BY <2>3, <2>4
       DEF StoreInv, ForwardInv, HasHop, SentIsLast, WaitingIsNotLast, ScoresIncrease
<1>2. StoreInv /\ [Next]_vars => StoreInv'
  BY StoreInvNext
<1> QED
  BY <1>1, <1>2, PTL DEF Spec

-----------------------------------------------------------------------------
(* The calls of the abstract store *)

(* What a command q with the Connections s looks like to the client. *)
CallFrom(q, s) ==
    LET last == s[Len(s)] IN
    [op |-> IF q.op \in {"STORE", "GET"} THEN q.op ELSE "OTHER",
     key |-> q.key, frame |-> q.frame,
     status |-> IF Effect(last.reply) THEN "effective"
                ELSE IF last.state # "sent" THEN "void" ELSE "pending",
     result |-> IF Effect(last.reply) THEN Told(last.reply) ELSE "none",
     reply |-> Told(s[1].reply)]

(* The answers of a command's Connections that are an effect. *)
LEMMA OneEffect ==
    ASSUME NEW s, Len(s) = 1 \/ Len(s) = 2,
           Len(s) = 2 => ~Effect(s[1].reply) \/ s[1].reply = s[2].reply
    PROVE  {a \in {s[d].reply : d \in 1..Len(s)} : a.kind \in {"ok", "frame"}}
             = IF Effect(s[Len(s)].reply) THEN {s[Len(s)].reply} ELSE {}
<1>1. CASE Len(s) = 1
  <2>1. 1..Len(s) = {1}
    BY <1>1
  <2> QED
    BY <1>1, <2>1 DEF Effect
<1>2. CASE Len(s) = 2
  <2>1. 1..Len(s) = {1, 2}
    BY <1>2
  <2> QED
    BY <1>2, <2>1 DEF Effect
<1> QED
  BY <1>1, <1>2

(* The mapping is given by the last Connection and the first one. *)
LEMMA CallOfIs ==
    ASSUME NEW i, CommandInv(i)
    PROVE  CallOf(i) = CallFrom(requests[i], hops[i])
<1>1. Len(hops[i]) = 1 \/ Len(hops[i]) = 2
  BY DEF CommandInv
<1>2. Len(hops[i]) = 2 => \/ ~Effect(hops[i][1].reply)
                          \/ hops[i][1].reply = hops[i][2].reply
  BY DEF CommandInv, Effect, NoAnswer
<1> DEFINE E == {a \in {hops[i][d].reply : d \in 1..Len(hops[i])} :
                     a.kind \in {"ok", "frame"}}
           r == hops[i][Len(hops[i])].reply
<1>3. E = IF Effect(r) THEN {r} ELSE {}
  BY <1>1, <1>2, OneEffect
<1>4. CallOf(i) =
        [op |-> IF Routed(i) THEN requests[i].op ELSE "OTHER",
         key |-> requests[i].key, frame |-> requests[i].frame,
         status |-> IF E # {} THEN "effective"
                    ELSE IF hops[i][Len(hops[i])].state # "sent" THEN "void"
                    ELSE "pending",
         result |-> IF E = {} THEN "none" ELSE Told(CHOOSE a \in E : TRUE),
         reply |-> Told(hops[i][1].reply)]
  BY DEF CallOf
<1>5. E # {} <=> Effect(r)
  BY <1>3
<1>6. Effect(r) => (CHOOSE a \in E : TRUE) = r
  BY <1>3
<1> HIDE DEF E
<1> QED
  BY <1>4, <1>5, <1>6 DEF CallFrom, Routed

(* The same in the next state. *)
LEMMA NextCallOfIs ==
    ASSUME NEW i, CommandInv(i)'
    PROVE  CallOf(i)' = CallFrom(requests'[i], hops'[i])
<1>1. Len(hops'[i]) = 1 \/ Len(hops'[i]) = 2
  BY DEF CommandInv
<1>2. Len(hops'[i]) = 2 => \/ ~Effect(hops'[i][1].reply)
                           \/ hops'[i][1].reply = hops'[i][2].reply
  BY DEF CommandInv, Effect, NoAnswer
<1> DEFINE E == {a \in {hops'[i][d].reply : d \in 1..Len(hops'[i])} :
                     a.kind \in {"ok", "frame"}}
           r == hops'[i][Len(hops'[i])].reply
<1>3. E = IF Effect(r) THEN {r} ELSE {}
  BY <1>1, <1>2, OneEffect
<1>4. CallOf(i)' =
        [op |-> IF requests'[i].op \in {"STORE", "GET"} THEN requests'[i].op
                ELSE "OTHER",
         key |-> requests'[i].key, frame |-> requests'[i].frame,
         status |-> IF E # {} THEN "effective"
                    ELSE IF hops'[i][Len(hops'[i])].state # "sent" THEN "void"
                    ELSE "pending",
         result |-> IF E = {} THEN "none" ELSE Told(CHOOSE a \in E : TRUE),
         reply |-> Told(hops'[i][1].reply)]
  BY DEF CallOf, Routed
<1>5. E # {} <=> Effect(r)
  BY <1>3
<1>6. Effect(r) => (CHOOSE a \in E : TRUE) = r
  BY <1>3
<1> HIDE DEF E
<1> QED
  BY <1>4, <1>5, <1>6 DEF CallFrom

(* What the client is told. *)
LEMMA ToldIs ==
    /\ Told(NoAnswer) = "none" /\ Told(Pong) = "none" /\ Told(Error) = "error"
    /\ Told(StoreOk) = "ok" /\ \A f : Told(Found(f)) = f
BY DEF Told, NoAnswer, Pong, Error, StoreOk, Found

(* The last Connection of a forwarded command answers what it did. *)
LEMMA EffectIs ==
    /\ Effect(StoreOk) /\ \A f : Effect(Found(f))
    /\ ~Effect(NoAnswer) /\ ~Effect(Pong) /\ ~Effect(Error)
BY DEF Effect, NoAnswer, Pong, Error, StoreOk, Found

(* A call of command q in the abstract store. *)
Call(q, status, result, reply) ==
    [op |-> IF q.op \in {"STORE", "GET"} THEN q.op ELSE "OTHER",
     key |-> q.key, frame |-> q.frame,
     status |-> status, result |-> result, reply |-> reply]

(* A command whose last Connection has not read it is pending. *)
LEMMA PendingIs ==
    ASSUME NEW i, CommandInv(i), hops[i][Len(hops[i])].state = "sent"
    PROVE  /\ CallOf(i) = Call(requests[i], "pending", "none", "none")
           /\ hops[i][1].reply = NoAnswer
<1>1. Len(hops[i]) = 1 \/ Len(hops[i]) = 2
  BY DEF CommandInv
<1>2. 1 \in 1..Len(hops[i]) /\ Len(hops[i]) \in 1..Len(hops[i])
  BY <1>1
<1>3. hops[i][1].state # "answered"
  BY <1>1 DEF CommandInv
<1>4. hops[i][1].reply = NoAnswer /\ hops[i][Len(hops[i])].reply = NoAnswer
  BY <1>2, <1>3 DEF CommandInv
<1> QED
  BY <1>4, CallOfIs, ToldIs, EffectIs DEF CallFrom, Call

(* A pending call takes effect. *)
LEMMA CallTakesEffect ==
    \A q, r, t : [Call(q, "pending", "none", "none")
                    EXCEPT !.status = "effective", !.result = r, !.reply = t]
                   = Call(q, "effective", r, t)
<1> TAKE q, r, t
<1>1. PICK o : o = IF q.op \in {"STORE", "GET"} THEN q.op ELSE "OTHER"
  OBVIOUS
<1>2. PICK c : c = Call(q, "pending", "none", "none")
  OBVIOUS
<1>3. c = [op |-> o, key |-> q.key, frame |-> q.frame,
           status |-> "pending", result |-> "none", reply |-> "none"]
  BY <1>1, <1>2 DEF Call
<1>4. PICK d : d = [c EXCEPT !.status = "effective"]
  OBVIOUS
<1>5. PICK e : e = [d EXCEPT !.result = r]
  OBVIOUS
<1>6. d = [op |-> o, key |-> q.key, frame |-> q.frame,
           status |-> "effective", result |-> "none", reply |-> "none"]
  BY <1>3, <1>4
<1>7. e = [op |-> o, key |-> q.key, frame |-> q.frame,
           status |-> "effective", result |-> r, reply |-> "none"]
  BY <1>5, <1>6
<1>8. [e EXCEPT !.reply = t] =
          [op |-> o, key |-> q.key, frame |-> q.frame,
           status |-> "effective", result |-> r, reply |-> t]
  BY <1>7
<1>9. [c EXCEPT !.status = "effective", !.result = r, !.reply = t]
        = [e EXCEPT !.reply = t]
  BY <1>4, <1>5
<1>10. [e EXCEPT !.reply = t] = Call(q, "effective", r, t)
  BY <1>1, <1>8 DEF Call
<1> QED
  BY <1>2, <1>9, <1>10

(* A pending call is lost. *)
LEMMA CallIsLost ==
    \A q, t : [Call(q, "pending", "none", "none")
                 EXCEPT !.status = "void", !.reply = t] = Call(q, "void", "none", t)
<1> TAKE q, t
<1>1. PICK o : o = IF q.op \in {"STORE", "GET"} THEN q.op ELSE "OTHER"
  OBVIOUS
<1>2. PICK c : c = Call(q, "pending", "none", "none")
  OBVIOUS
<1>3. c = [op |-> o, key |-> q.key, frame |-> q.frame,
           status |-> "pending", result |-> "none", reply |-> "none"]
  BY <1>1, <1>2 DEF Call
<1>4. PICK d : d = [c EXCEPT !.status = "void"]
  OBVIOUS
<1>5. d = [op |-> o, key |-> q.key, frame |-> q.frame,
           status |-> "void", result |-> "none", reply |-> "none"]
  BY <1>3, <1>4
<1>6. [d EXCEPT !.reply = t] =
          [op |-> o, key |-> q.key, frame |-> q.frame,
           status |-> "void", result |-> "none", reply |-> t]
  BY <1>5
<1>7. [c EXCEPT !.status = "void", !.reply = t] = [d EXCEPT !.reply = t]
  BY <1>4
<1>8. [d EXCEPT !.reply = t] = Call(q, "void", "none", t)
  BY <1>1, <1>6 DEF Call
<1> QED
  BY <1>2, <1>7, <1>8

(* The client of a call is told its result. *)
LEMMA CallIsAnswered ==
    \A q, r : [Call(q, "effective", r, "none") EXCEPT !.reply = r]
                = Call(q, "effective", r, r)
<1> TAKE q, r
<1>1. PICK o : o = IF q.op \in {"STORE", "GET"} THEN q.op ELSE "OTHER"
  OBVIOUS
<1>2. PICK c : c = Call(q, "effective", r, "none")
  OBVIOUS
<1>3. c = [op |-> o, key |-> q.key, frame |-> q.frame,
           status |-> "effective", result |-> r, reply |-> "none"]
  BY <1>1, <1>2 DEF Call
<1>4. [c EXCEPT !.reply = r] =
          [op |-> o, key |-> q.key, frame |-> q.frame,
           status |-> "effective", result |-> r, reply |-> r]
  BY <1>3
<1> QED
  BY <1>1, <1>2, <1>4 DEF Call

(* The moment of a command. *)
LEMMA EffectOnCall ==
    ASSUME StoreInv, NEW i \in 1..Len(requests), NEW d, NEW r,
           TakesEffect(i, d, r), CommandInv(i)'
    PROVE  /\ CallOf(i) = Call(requests[i], "pending", "none", "none")
           /\ \E told \in {"none", Told(r)} :
                CallOf(i)' = Call(requests[i], "effective", Told(r), told)
<1>1. /\ d = Len(hops[i]) /\ hops[i][d].state = "sent"
      /\ Done(i, d, "answered", r) /\ Effect(r)
  BY EffectIs DEF TakesEffect
<1>2. CommandInv(i)
  BY DEF StoreInv
<1>3. /\ CallOf(i) = Call(requests[i], "pending", "none", "none")
      /\ hops[i][1].reply = NoAnswer
  BY <1>1, <1>2, PendingIs
<1>4. Len(hops[i]) = 1 \/ Len(hops[i]) = 2
  BY <1>2 DEF CommandInv
<1>5. /\ requests' = requests
      /\ hops'[i][Len(hops'[i])].reply = r
      /\ hops'[i][1].reply = NoAnswer \/ hops'[i][1].reply = r
  BY <1>1, <1>3, <1>4 DEF Done
<1>6. CallOf(i)' = Call(requests[i], "effective", Told(r), Told(hops'[i][1].reply))
  BY <1>1, <1>5, NextCallOfIs DEF CallFrom, Call
<1> QED
  BY <1>3, <1>5, <1>6, ToldIs

(* A command that is lost is over, whatever its client is told. *)
LEMMA LossOfCall ==
    ASSUME StoreInv, NEW i \in 1..Len(requests), NEW d, NEW state, NEW r,
           IsLost(i, d, state, r), CommandInv(i)'
    PROVE  /\ CallOf(i) = Call(requests[i], "pending", "none", "none")
           /\ \E told \in {"none", "error"} :
                CallOf(i)' = Call(requests[i], "void", "none", told)
<1>1. /\ d = Len(hops[i]) /\ hops[i][d].state = "sent"
      /\ Done(i, d, state, r) /\ ~Effect(r) /\ state # "sent"
      /\ Told(r) \in {"none", "error"}
  BY EffectIs, ToldIs DEF IsLost
<1>2. CommandInv(i)
  BY DEF StoreInv
<1>3. /\ CallOf(i) = Call(requests[i], "pending", "none", "none")
      /\ hops[i][1].reply = NoAnswer
  BY <1>1, <1>2, PendingIs
<1>4. Len(hops[i]) = 1 \/ Len(hops[i]) = 2
  BY <1>2 DEF CommandInv
<1>5. /\ requests' = requests
      /\ hops'[i][Len(hops'[i])].reply = r
      /\ hops'[i][Len(hops'[i])].state = state
      /\ hops'[i][1].reply = NoAnswer \/ hops'[i][1].reply = r
  BY <1>1, <1>3, <1>4 DEF Done
<1>6. CallOf(i)' = Call(requests[i], "void", "none", Told(hops'[i][1].reply))
  BY <1>1, <1>5, NextCallOfIs DEF CallFrom, Call
<1> QED
  BY <1>1, <1>3, <1>5, <1>6, ToldIs

(* Forwarding a command, or giving up on it, is no step of its call. *)
LEMMA CallUntouched ==
    ASSUME StoreInv, NEW i \in 1..Len(requests),
           IsForwarded(i) \/ IsGivenUp(i), CommandInv(i)'
    PROVE  CallOf(i)' = CallOf(i)
<1>1. CommandInv(i)
  BY DEF StoreInv
<1>2. CASE IsForwarded(i)
  <2>1. /\ hops[i][Len(hops[i])].state = "sent" /\ Len(hops'[i]) = 2
        /\ hops'[i][1].reply = hops[i][1].reply /\ requests' = requests
        /\ hops'[i][2].state = "sent" /\ hops'[i][2].reply = NoAnswer
    BY <1>2 DEF IsForwarded
  <2>2. /\ CallOf(i) = Call(requests[i], "pending", "none", "none")
        /\ hops[i][1].reply = NoAnswer
    BY <1>1, <2>1, PendingIs
  <2> QED
    BY <2>1, <2>2, NextCallOfIs, EffectIs, ToldIs DEF CallFrom, Call
<1>3. CASE IsGivenUp(i)
  <2>1. /\ Len(hops[i]) = 2 /\ hops[i][1].state = "waiting"
        /\ Done(i, 1, "silent", NoAnswer)
    BY <1>3 DEF IsGivenUp
  <2>2. hops[i][1].reply = NoAnswer
    BY <1>1, <2>1 DEF CommandInv
  <2>3. /\ Len(hops'[i]) = 2 /\ hops'[i][2] = hops[i][2]
        /\ hops'[i][1].reply = hops[i][1].reply /\ requests' = requests
    BY <2>1, <2>2 DEF Done
  <2> QED
    BY <1>1, <2>1, <2>3, CallOfIs, NextCallOfIs DEF CallFrom
<1> QED
  BY <1>2, <1>3

(* The owner's answer reaches the client. *)
LEMMA RelayToCall ==
    ASSUME StoreInv, NEW i \in 1..Len(requests), IsRelayed(i), CommandInv(i)'
    PROVE  \E r : /\ CallOf(i) = Call(requests[i], "effective", r, "none")
                  /\ CallOf(i)' = Call(requests[i], "effective", r, r)
<1>1. CommandInv(i)
  BY DEF StoreInv
<1>2. /\ Len(hops[i]) = 2 /\ hops[i][1].state = "waiting"
      /\ hops[i][2].state = "answered" /\ Done(i, 1, "answered", hops[i][2].reply)
  BY DEF IsRelayed
<1>3. hops[i][1].reply = NoAnswer /\ Effect(hops[i][2].reply)
  BY <1>1, <1>2 DEF CommandInv
<1>4. /\ Len(hops'[i]) = 2 /\ hops'[i][2] = hops[i][2]
      /\ hops'[i][1].reply = hops[i][2].reply /\ requests' = requests
  BY <1>2 DEF Done
<1>5. CallOf(i) = Call(requests[i], "effective", Told(hops[i][2].reply), "none")
  BY <1>1, <1>2, <1>3, CallOfIs, ToldIs DEF CallFrom, Call
<1>6. CallOf(i)' = Call(requests[i], "effective", Told(hops[i][2].reply),
                        Told(hops[i][2].reply))
  BY <1>3, <1>4, NextCallOfIs DEF CallFrom, Call
<1> QED
  BY <1>5, <1>6

-----------------------------------------------------------------------------
(* The refinement *)

Calls == [i \in 1..Len(requests) |-> CallOf(i)]

Contents == [k \in Key |-> db[Owner(k)][k]]

(* The calls are as many as the commands. *)
LEMMA CallsAreRequests ==
    ASSUME ForwardInv
    PROVE  /\ Len(requests) \in Nat
           /\ Calls \in Seq({CallOf(i) : i \in 1..Len(requests)})
           /\ Len(Calls) = Len(requests)
           /\ DOMAIN Calls = 1..Len(requests)
<1>1. requests \in Seq(Request)
  BY DEF ForwardInv, TypeOK, Request
<1>2. Len(requests) \in Nat
  BY <1>1, LenProperties
<1>3. Calls \in [1..Len(requests) -> {CallOf(i) : i \in 1..Len(requests)}]
  BY DEF Calls
<1>4. Calls \in Seq({CallOf(i) : i \in 1..Len(requests)})
  BY <1>2, <1>3, SeqDef
<1>5. DOMAIN Calls = 1..Len(requests)
  BY <1>3
<1>6. Len(Calls) \in Nat /\ DOMAIN Calls = 1..Len(Calls)
  BY <1>4, LenProperties
<1>7. ASSUME NEW m \in Nat, NEW n \in Nat, 1..m = 1..n
      PROVE  m = n
  <2>1. m > 0 => m \in 1..n
    BY <1>7
  <2>2. n > 0 => n \in 1..m
    BY <1>7
  <2> QED
    BY <2>1, <2>2
<1> QED
  BY <1>2, <1>4, <1>5, <1>6, <1>7

(* A handler changes at most the call of its command. *)
LEMMA OneCallChanges ==
    ASSUME ForwardInv, NEW i \in 1..Len(requests), Happens(i)
    PROVE  Calls' = [Calls EXCEPT ![i] = CallOf(i)']
<1>1. /\ requests' = requests
      /\ \A j \in 1..Len(requests) : j # i => hops'[j] = hops[j]
  BY OthersKept
<1>2. ASSUME NEW j \in 1..Len(requests), j # i
      PROVE  CallOf(j)' = CallOf(j)
  BY <1>1, <1>2 DEF CallOf, Routed
<1>3. Calls' = [j \in 1..Len(requests) |-> CallOf(j)']
  BY <1>1 DEF Calls
<1> QED
  BY <1>2, <1>3 DEF Calls

(* A client's command is a new call. *)
LEMMA SendIsInvoke ==
    ASSUME StoreInv, StoreInv', NEW n \in Node, NEW op \in Op, NEW k \in Key,
           NEW f \in Frame \cup {NoFrame}, Send(n, op, k, f)
    PROVE  \E o \in {"STORE", "GET", "OTHER"} : Store!Invoke(o, k, f)
<1>1. ForwardInv
  BY DEF StoreInv
<1>2. PICK m : m = Len(requests) + 1
  OBVIOUS
<1>3. /\ Len(requests) \in Nat /\ Len(requests) < MaxRequests
      /\ Len(requests') = m /\ db' = db
      /\ requests'[m] = [op |-> op, key |-> k, frame |-> f,
                         before |-> Acknowledged]
      /\ hops'[m] = <<[node |-> n, state |-> "sent", reply |-> NoAnswer]>>
      /\ \A j \in 1..Len(requests) :
            requests'[j] = requests[j] /\ hops'[j] = hops[j]
      /\ 1..m = 1..Len(requests) \cup {m}
  BY <1>1, <1>2, SendDoes
<1>4. PICK o : o = IF op \in {"STORE", "GET"} THEN op ELSE "OTHER"
  OBVIOUS
<1>5. PICK c : c = [op |-> o, key |-> k, frame |-> f, status |-> "pending",
                    result |-> "none", reply |-> "none"]
  OBVIOUS
<1>6. CallOf(m)' = c
  <2>1. CommandInv(m)'
    BY <1>3 DEF StoreInv
  <2>2. /\ Len(hops'[m]) = 1 /\ hops'[m][1].state = "sent"
        /\ hops'[m][1].reply = NoAnswer
    BY <1>3
  <2>3. requests'[m].op = op /\ requests'[m].key = k /\ requests'[m].frame = f
    BY <1>3
  <2> QED
    BY <1>4, <1>5, <2>1, <2>2, <2>3, NextCallOfIs, EffectIs, ToldIs DEF CallFrom
<1>7. ASSUME NEW j \in 1..Len(requests)
      PROVE  CallOf(j)' = CallOf(j)
  <2>1. requests'[j] = requests[j] /\ hops'[j] = hops[j]
    BY <1>3
  <2> QED
    BY ONLY <2>1 DEF CallOf, Routed
<1>8. Calls' = [j \in 1..m |-> IF j <= Len(requests) THEN CallOf(j) ELSE c]
  <2>1. Calls' = [j \in 1..m |-> CallOf(j)']
    BY <1>3 DEF Calls
  <2>2. ASSUME NEW j \in 1..m
        PROVE  CallOf(j)' = IF j <= Len(requests) THEN CallOf(j) ELSE c
    <3>1. j <= Len(requests) => j \in 1..Len(requests)
      BY <1>3
    <3>2. ~(j <= Len(requests)) => j = m
      BY <1>2, <1>3
    <3> QED
      BY <1>6, <1>7, <3>1, <3>2
  <2> QED
    BY <2>1, <2>2
<1>9. Len(Calls) = Len(requests)
  BY <1>1, CallsAreRequests
<1>10. Append(Calls, c) = [j \in 1..m |-> IF j <= Len(requests) THEN CallOf(j) ELSE c]
  <2>1. PICK T : T = {CallOf(j) : j \in 1..Len(requests)} \cup {c}
    OBVIOUS
  <2>2. c \in T /\ {CallOf(j) : j \in 1..Len(requests)} \subseteq T
    BY <2>1
  <2>3. Calls \in Seq(T)
    BY <1>1, <2>2, CallsAreRequests, SeqMonotonic
  <2>4. PICK A : A = Append(Calls, c)
    OBVIOUS
  <2>5. /\ A \in Seq(T) /\ Len(A) = Len(Calls) + 1
        /\ \A j \in 1..Len(Calls) : A[j] = Calls[j]
        /\ A[Len(Calls) + 1] = c
    BY <2>2, <2>3, <2>4, AppendProperties
  <2>6. Len(A) = m /\ A \in [1..m -> T]
    <3>1. Len(A) = m
      BY <1>2, <1>9, <2>5
    <3>2. A \in [1..Len(A) -> T]
      BY <2>5, LenProperties
    <3> QED
      BY <3>1, <3>2
  <2>7. ASSUME NEW j \in 1..m
        PROVE  A[j] = IF j <= Len(requests) THEN CallOf(j) ELSE c
    <3>1. CASE j \in 1..Len(requests)
      <4>1. A[j] = CallOf(j)
        BY <1>9, <2>5, <3>1 DEF Calls
      <4>2. j <= Len(requests)
        BY <1>3, <3>1
      <4> QED
        BY <4>1, <4>2
    <3>2. CASE j = m
      <4>1. A[m] = c
        BY <1>2, <1>9, <2>5
      <4>2. ~(j <= Len(requests))
        BY <1>2, <1>3, <3>2
      <4> QED
        BY <3>2, <4>1, <4>2
    <3> QED
      BY <1>3, <3>1, <3>2
  <2> QED
    BY <2>4, <2>6, <2>7
<1>11. Calls' = Append(Calls, c) /\ Contents' = Contents
  BY <1>3, <1>8, <1>10 DEF Contents
<1>12. Store!Invoke(o, k, f)
  BY <1>3, <1>5, <1>9, <1>11 DEF Store!Invoke, Store!None, Calls, Contents
<1> QED
  BY <1>4, <1>12

(* Every other step is a step of one call, or of none. *)
LEMMA HandleIsCallStep ==
    ASSUME StoreInv, StoreInv', SameLists, NEW i \in 1..Len(requests), Happens(i)
    PROVE  [Store!Next]_(Store!vars)
<1>1. ForwardInv /\ CommandInv(i)
  BY DEF StoreInv
<1>2. requests' = requests
  BY OthersKept
<1>3. CommandInv(i)'
  BY <1>2 DEF StoreInv
<1>4. Calls' = [Calls EXCEPT ![i] = CallOf(i)']
  BY <1>1, OneCallChanges
<1>5. i \in 1..Len(Calls) /\ Calls[i] = CallOf(i) /\ DOMAIN Calls = 1..Len(requests)
  BY <1>1, CallsAreRequests DEF Calls
<1>6. PICK q : q = requests[i]
  OBVIOUS
<1>7. /\ q.key \in Key /\ Owner(q.key) \in Node
      /\ db \in [Node -> [Key -> Frame \cup {NoFrame}]]
  <2>1. hops[i][1].node \in Node /\ q.key \in Key
    BY <1>1, <1>6, CommandTypes
  <2> QED
    BY <1>1, <2>1, AllPickOwner DEF ForwardInv, TypeOK
<1>8. Contents[q.key] = db[Owner(q.key)][q.key]
  BY <1>7 DEF Contents
<1>9. ASSUME NEW d, NEW r, TakesEffect(i, d, r)
      PROVE  Store!TakeEffect(i)
  <2>1. PICK told \in {"none", Told(r)} :
           CallOf(i)' = Call(q, "effective", Told(r), told)
    BY <1>3, <1>6, <1>9, EffectOnCall
  <2>2. CallOf(i) = Call(q, "pending", "none", "none")
    BY <1>3, <1>6, <1>9, EffectOnCall
  <2>3. \/ q.op = "STORE" /\ Told(r) = "ok"
           /\ db' = [db EXCEPT ![Owner(q.key)][q.key] = q.frame]
        \/ q.op = "GET" /\ Told(r) = Contents[q.key] /\ db' = db
    BY <1>6, <1>8, <1>9, ToldIs DEF TakesEffect
  <2>4. Contents' = IF q.op = "STORE" THEN [Contents EXCEPT ![q.key] = q.frame]
                    ELSE Contents
    <3>1. CASE q.op = "STORE"
      <4>1. db' = [db EXCEPT ![Owner(q.key)][q.key] = q.frame]
        BY <2>3, <3>1
      <4>2. ASSUME NEW k \in Key
            PROVE  db'[Owner(k)][k] = IF k = q.key THEN q.frame
                                      ELSE db[Owner(k)][k]
        <5>1. Owner(k) \in Node
          BY <1>7, AllPickOwner
        <5> QED
          BY <1>7, <4>1, <5>1
      <4>3. Contents' = [k \in Key |-> db'[Owner(k)][k]]
        BY DEF Contents
      <4> QED
        BY <1>7, <3>1, <4>2, <4>3 DEF Contents
    <3>2. CASE q.op = "GET"
      BY <2>3, <3>2 DEF Contents
    <3> QED
      BY <2>3, <3>1, <3>2
  <2>5. /\ Calls[i].op = q.op /\ Calls[i].key = q.key
        /\ Calls[i].frame = q.frame /\ Calls[i].status = "pending"
    BY <1>5, <2>2, <2>3 DEF Call
  <2>6. Calls' = [Calls EXCEPT ![i].status = "effective",
                               ![i].result = Told(r), ![i].reply = told]
    <3>1. [Call(q, "pending", "none", "none")
             EXCEPT !.status = "effective", !.result = Told(r), !.reply = told]
            = Call(q, "effective", Told(r), told)
      BY CallTakesEffect, Zenon
    <3> QED
      BY <1>4, <1>5, <2>1, <2>2, <3>1
  <2>7. Store!ResultOf(Calls[i]) = Told(r)
    BY <2>3, <2>5 DEF Store!ResultOf, Store!Stored, Contents
  <2>8. \E t \in {"none", Store!ResultOf(Calls[i])} :
           Calls' = [Calls EXCEPT ![i].status = "effective",
                                  ![i].result = Store!ResultOf(Calls[i]),
                                  ![i].reply = t]
    BY <2>1, <2>6, <2>7
  <2>9. Calls[i].op # "OTHER"
    BY <2>3, <2>5
  <2> QED
    BY <2>4, <2>5, <2>8, <2>9 DEF Store!TakeEffect, Store!None, Calls, Contents
<1>10. ASSUME NEW d, NEW state, NEW r, IsLost(i, d, state, r)
       PROVE  Store!Lose(i)
  <2>1. PICK told \in {"none", "error"} :
           CallOf(i)' = Call(q, "void", "none", told)
    BY <1>3, <1>6, <1>10, LossOfCall
  <2>2. CallOf(i) = Call(q, "pending", "none", "none")
    BY <1>3, <1>6, <1>10, LossOfCall
  <2>3. Contents' = Contents
    BY <1>10 DEF IsLost, Contents
  <2>4. Calls' = [Calls EXCEPT ![i].status = "void", ![i].reply = told]
    <3>1. [Call(q, "pending", "none", "none") EXCEPT !.status = "void",
                                                     !.reply = told]
            = Call(q, "void", "none", told)
      BY CallIsLost, Zenon
    <3> QED
      BY <1>4, <1>5, <2>1, <2>2, <3>1
  <2>5. Calls[i].status = "pending"
    BY <1>5, <2>2 DEF Call
  <2> QED
    BY <2>1, <2>3, <2>4, <2>5
       DEF Store!Lose, Store!None, Store!Failed, Calls, Contents
<1>11. CASE IsForwarded(i) \/ IsGivenUp(i)
  <2>1. CallOf(i)' = CallOf(i)
    BY <1>3, <1>11, CallUntouched
  <2>2. Calls' = Calls
    BY <1>4, <1>5, <2>1 DEF Calls
  <2>3. Contents' = Contents
    BY <1>11 DEF IsForwarded, IsGivenUp, Contents
  <2> QED
    BY <2>2, <2>3 DEF Store!vars, Calls, Contents
<1>12. CASE IsRelayed(i)
  <2>1. PICK r : /\ CallOf(i) = Call(q, "effective", r, "none")
                 /\ CallOf(i)' = Call(q, "effective", r, r)
    BY <1>3, <1>6, <1>12, RelayToCall
  <2>2. Contents' = Contents
    BY <1>12 DEF IsRelayed, Contents
  <2>3. /\ Calls[i].status = "effective" /\ Calls[i].reply = "none"
        /\ Calls[i].result = r
    BY <1>5, <2>1 DEF Call
  <2>4. Calls' = [Calls EXCEPT ![i].reply = Calls[i].result]
    <3>1. [Call(q, "effective", r, "none") EXCEPT !.reply = r]
            = Call(q, "effective", r, r)
      BY CallIsAnswered, Zenon
    <3> QED
      BY <1>4, <1>5, <2>1, <2>3, <3>1
  <2>5. Store!Respond(i)
    BY <2>2, <2>3, <2>4 DEF Store!Respond, Store!None, Calls, Contents
  <2> QED
    BY <1>5, <2>5 DEF Store!Next, Calls
<1>13. ASSUME Store!TakeEffect(i) \/ Store!Lose(i)
       PROVE  Store!Next
  BY <1>5, <1>13 DEF Store!Next, Calls
<1> QED
  BY <1>9, <1>10, <1>11, <1>12, <1>13 DEF Happens

(***************************************************************************)
(* Servers that were given the same list are one linearizable store, for   *)
(* every number of servers, keys, frames and commands.  A GET or STORE     *)
(* takes effect at most once, between its request and its reply; and a     *)
(* command that was answered ERROR never will.                             *)
(***************************************************************************)
THEOREM ServersAreOneStore ==
    ASSUME SameLists, ~DbMayFail, Node # {}
    PROVE  Spec => OneStore
<1>1. Init => Store!Init
  <2> SUFFICES ASSUME Init PROVE Store!Init
    OBVIOUS
  <2>1. /\ requests = << >> /\ Len(requests) = 0
        /\ db = OnDisk
    BY EmptySeq DEF Init
  <2>2. Calls = << >>
    <3>1. 1..Len(requests) = {}
      BY <2>1
    <3> QED
      BY <3>1 DEF Calls
  <2>3. Contents = [k \in Key |-> OnDisk[Owner(k)][k]]
    BY <2>1 DEF Contents
  <2> QED
    BY <2>2, <2>3 DEF Store!Init, Calls, Contents
<1>2. StoreInv /\ StoreInv' /\ [Next]_vars => [Store!Next]_(Store!vars)
  <2> SUFFICES ASSUME StoreInv, StoreInv', [Next]_vars
               PROVE  [Store!Next]_(Store!vars)
    OBVIOUS
  <2>1. CASE UNCHANGED vars
    BY <2>1 DEF vars, Store!vars, CallOf, Routed
  <2>2. ASSUME NEW n \in Node, NEW op \in Op, NEW k \in Key,
               NEW f \in Frame \cup {NoFrame}, Send(n, op, k, f)
        PROVE  Store!Next
    BY <2>2, SendIsInvoke DEF Store!Next
  <2>3. ASSUME NEW i \in 1..Len(requests), NEW d \in 1..Len(hops[i]),
               Handle(i, d)
        PROVE  [Store!Next]_(Store!vars)
    BY <2>3, HandleDoes, HandleIsCallStep
  <2> QED
    BY <2>1, <2>2, <2>3 DEF Next
<1> QED
  BY <1>1, <1>2, StoreInvariant, PTL DEF Spec, OneStore, Store!Spec

-----------------------------------------------------------------------------
(* Reads see what was acknowledged *)

(* The STOREs of key k that have taken effect. *)
Written(k) == {w \in Stores(k) : Effect(LastHop(w).reply)}

(***************************************************************************)
(* Frame f is one that a read may find after the STOREs in A: the frame of *)
(* a STORE that was not acknowledged before one of A was sent, or, if      *)
(* there are none in A, what the owner's database held at the start.       *)
(***************************************************************************)
Fresh(reqs, k, f, A) ==
    \/ A = {} /\ f = OnDisk[Owner(k)][k]
    \/ \E w \in 1..Len(reqs) :
           /\ reqs[w].op = "STORE" /\ reqs[w].key = k /\ reqs[w].frame = f
           /\ \A s \in A : w \notin reqs[s].before

(***************************************************************************)
(* A command knows as acknowledged only commands that are; the owner of a  *)
(* key has a frame that is fresh with respect to all the STOREs that were  *)
(* carried out; and a GET has found a frame that is fresh with respect to  *)
(* those acknowledged before it was sent.                                  *)
(***************************************************************************)
ReadInv ==
    /\ StoreInv
    /\ \A i \in 1..Len(requests) : requests[i].before \subseteq Acknowledged
    /\ \A k \in Key : Fresh(requests, k, db[Owner(k)][k], Written(k))
    /\ \A g \in 1..Len(requests) :
          requests[g].op = "GET" /\ LastHop(g).reply.kind = "frame" =>
            Fresh(requests, requests[g].key, LastHop(g).reply.frame,
                  Stores(requests[g].key) \cap requests[g].before)

(* With fewer STOREs to take into account a frame stays fresh. *)
LEMMA FreshForFewer ==
    ASSUME NEW reqs, NEW k, NEW f, NEW A, NEW B, B \subseteq A, Fresh(reqs, k, f, A)
    PROVE  Fresh(reqs, k, f, B)
BY DEF Fresh

(* An acknowledged command has taken effect. *)
LEMMA AcknowledgedHasEffect ==
    ASSUME StoreInv, NEW i \in Acknowledged
    PROVE  i \in 1..Len(requests) /\ Effect(LastHop(i).reply)
<1>1. i \in 1..Len(requests) /\ CommandInv(i) /\ Effect(hops[i][1].reply)
  BY DEF StoreInv, Acknowledged, Effect
<1>2. Len(hops[i]) = 1 \/ Len(hops[i]) = 2
  BY <1>1 DEF CommandInv
<1>3. Len(hops[i]) = 2 => hops[i][1].reply = hops[i][2].reply
  BY <1>1, EffectIs DEF CommandInv
<1> QED
  BY <1>1, <1>2, <1>3 DEF LastHop

(* Nothing happens to a command that was acknowledged. *)
LEMMA UnansweredBefore ==
    ASSUME StoreInv, NEW i \in 1..Len(requests), Happens(i)
    PROVE  hops[i][1].reply = NoAnswer
<1>1. CommandInv(i)
  BY DEF StoreInv
<1>2. CASE hops[i][Len(hops[i])].state = "sent"
  BY <1>1, <1>2, PendingIs
<1>3. CASE Len(hops[i]) = 2 /\ hops[i][1].state = "waiting"
  BY <1>1, <1>3 DEF CommandInv
<1>4. ASSUME NEW d, NEW r, TakesEffect(i, d, r)
      PROVE  hops[i][Len(hops[i])].state = "sent"
  BY <1>4 DEF TakesEffect
<1>5. ASSUME NEW d, NEW state, NEW r, IsLost(i, d, state, r)
      PROVE  hops[i][Len(hops[i])].state = "sent"
  BY <1>5 DEF IsLost
<1> QED
  BY <1>2, <1>3, <1>4, <1>5 DEF Happens, IsForwarded, IsRelayed, IsGivenUp

(* Only TakesEffect changes what the last Connection says was done. *)
LEMMA LastAnswerKept ==
    ASSUME StoreInv, NEW i \in 1..Len(requests), Happens(i)
    PROVE  \/ \E d, r : TakesEffect(i, d, r)
           \/ db' = db /\ ~Effect(LastHop(i).reply) /\ ~Effect(LastHop(i)'.reply)
           \/ db' = db /\ LastHop(i)'.reply = LastHop(i).reply
<1>1. CommandInv(i)
  BY DEF StoreInv
<1>2. Len(hops[i]) = 1 \/ Len(hops[i]) = 2
  BY <1>1 DEF CommandInv
<1>3. hops[i][Len(hops[i])].state = "sent" => LastHop(i).reply = NoAnswer
  <2>1. Len(hops[i]) \in 1..Len(hops[i])
    <3>1. ASSUME NEW l, l = 1 \/ l = 2 PROVE l \in 1..l
      BY <3>1
    <3> QED
      BY <1>2, <3>1
  <2> QED
    BY <1>1, <2>1 DEF CommandInv, LastHop
<1>4. ASSUME NEW d, NEW state, NEW r, IsLost(i, d, state, r)
      PROVE  db' = db /\ ~Effect(LastHop(i).reply) /\ ~Effect(LastHop(i)'.reply)
  <2>1. /\ hops[i][Len(hops[i])].state = "sent" /\ db' = db
        /\ d = Len(hops[i]) /\ Done(i, d, state, r) /\ ~Effect(r)
    BY <1>4, EffectIs DEF IsLost
  <2>2. LastHop(i)'.reply = r
    BY <2>1 DEF LastHop, Done
  <2> QED
    BY <1>3, <2>1, <2>2, EffectIs
<1>5. CASE IsForwarded(i)
  <2>1. /\ Len(hops[i]) = 1 /\ hops[i][1].state = "sent" /\ db' = db
        /\ Len(hops'[i]) = 2 /\ hops'[i][2].reply = NoAnswer
    BY <1>5 DEF IsForwarded
  <2> QED
    BY <1>3, <2>1 DEF LastHop
<1>6. CASE IsRelayed(i) \/ IsGivenUp(i)
  <2>1. PICK state, r : Len(hops[i]) = 2 /\ Done(i, 1, state, r) /\ db' = db
    <3>1. CASE IsRelayed(i)
      BY <3>1 DEF IsRelayed
    <3>2. CASE IsGivenUp(i)
      BY <3>2 DEF IsGivenUp
    <3> QED
      BY <1>6, <3>1, <3>2
  <2>2. Len(hops'[i]) = 2 /\ hops'[i][2] = hops[i][2]
    <3>1. 2 \in 1..Len(hops[i])
      BY <2>1
    <3> QED
      BY <2>1, <3>1 DEF Done
  <2> QED
    BY <2>1, <2>2 DEF LastHop
<1> QED
  BY <1>4, <1>5, <1>6 DEF Happens

(* A new command: what was fresh stays fresh, and the new one has no reply. *)
LEMMA ReadInvAfterSend ==
    ASSUME ReadInv, StoreInv', NEW n \in Node, NEW op \in Op, NEW k \in Key,
           NEW f \in Frame \cup {NoFrame}, Send(n, op, k, f)
    PROVE  ReadInv'
<1>1. ForwardInv /\ StoreInv
  BY DEF ReadInv, StoreInv
<1>2. PICK m : m = Len(requests) + 1
  OBVIOUS
<1>3. /\ Len(requests) \in Nat /\ Len(requests) < MaxRequests
      /\ Len(requests') = m /\ db' = db
      /\ requests'[m] = [op |-> op, key |-> k, frame |-> f,
                         before |-> Acknowledged]
      /\ hops'[m] = <<[node |-> n, state |-> "sent", reply |-> NoAnswer]>>
      /\ \A j \in 1..Len(requests) :
            requests'[j] = requests[j] /\ hops'[j] = hops[j]
      /\ 1..m = 1..Len(requests) \cup {m}
  BY <1>1, <1>2, SendDoes
<1>4. /\ requests'[m].op = op /\ requests'[m].key = k /\ requests'[m].frame = f
      /\ requests'[m].before = Acknowledged /\ m \notin 1..Len(requests)
      /\ LastHop(m)'.reply = NoAnswer
  BY <1>2, <1>3 DEF LastHop
<1>5. Acknowledged \subseteq Acknowledged'
  BY <1>3 DEF Acknowledged
<1>6. ASSUME NEW j \in 1..Len(requests')
      PROVE  requests'[j].before \subseteq Acknowledged'
  <2>1. CASE j \in 1..Len(requests)
    BY <1>3, <1>5, <2>1 DEF ReadInv
  <2>2. CASE j = m
    BY <1>4, <1>5, <2>2
  <2> QED
    BY <1>3, <2>1, <2>2
<1>7. ASSUME NEW x, NEW g, NEW A, A \subseteq 1..Len(requests),
             Fresh(requests, x, g, A)
      PROVE  Fresh(requests', x, g, A)
  <2>1. CASE A = {} /\ g = OnDisk[Owner(x)][x]
    BY <2>1 DEF Fresh
  <2>2. ASSUME NEW w \in 1..Len(requests),
               requests[w].op = "STORE", requests[w].key = x,
               requests[w].frame = g, \A s \in A : w \notin requests[s].before
        PROVE  Fresh(requests', x, g, A)
    <3>1. w \in 1..Len(requests') /\ requests'[w] = requests[w]
      BY <1>3
    <3>2. \A s \in A : w \notin requests'[s].before
      BY <1>3, <1>7, <2>2
    <3> QED
      BY <2>2, <3>1, <3>2 DEF Fresh
  <2> QED
    BY <1>7, <2>1, <2>2 DEF Fresh
<1>8. ASSUME NEW x \in Key
      PROVE  Fresh(requests', x, db'[Owner(x)][x], Written(x)')
  <2>1. Written(x)' = Written(x) /\ Written(x) \subseteq 1..Len(requests)
    <3>1. \A j \in 1..Len(requests) : LastHop(j)' = LastHop(j)
      BY <1>3 DEF LastHop
    <3>2. Written(x)' = {j \in 1..Len(requests') :
                          /\ requests'[j].op = "STORE" /\ requests'[j].key = x
                          /\ Effect(LastHop(j)'.reply)}
      BY DEF Written, Stores, Effect
    <3>3. Written(x) = {j \in 1..Len(requests) :
                          /\ requests[j].op = "STORE" /\ requests[j].key = x
                          /\ Effect(LastHop(j).reply)}
      BY DEF Written, Stores
    <3>4. ~Effect(LastHop(m)'.reply)
      BY <1>4, EffectIs
    <3> QED
      BY <1>3, <3>1, <3>2, <3>3, <3>4
  <2>2. Fresh(requests, x, db[Owner(x)][x], Written(x))
    BY DEF ReadInv
  <2> QED
    BY <1>3, <1>7, <2>1, <2>2
<1>9. ASSUME NEW g \in 1..Len(requests'), requests'[g].op = "GET",
             LastHop(g)'.reply.kind = "frame"
      PROVE  Fresh(requests', requests'[g].key, LastHop(g)'.reply.frame,
                   Stores(requests[g].key)' \cap requests'[g].before)
  <2>1. g \in 1..Len(requests)
    BY <1>3, <1>4, <1>9 DEF NoAnswer
  <2>2. requests'[g] = requests[g] /\ LastHop(g)' = LastHop(g)
    BY <1>3, <2>1 DEF LastHop
  <2>3. PICK x : x = requests[g].key
    OBVIOUS
  <2>4. requests[g].before \subseteq 1..Len(requests)
    BY <2>1 DEF ReadInv, Acknowledged
  <2>5. Stores(x)' \cap requests[g].before = Stores(x) \cap requests[g].before
    <3>1. Stores(x)' = {j \in 1..Len(requests') :
                          requests'[j].op = "STORE" /\ requests'[j].key = x}
      BY DEF Stores
    <3> QED
      BY <1>3, <2>4, <3>1 DEF Stores
  <2>6. Fresh(requests, x, LastHop(g).reply.frame, Stores(x) \cap requests[g].before)
    BY <1>9, <2>1, <2>2, <2>3 DEF ReadInv
  <2>7. Fresh(requests', x, LastHop(g).reply.frame, Stores(x) \cap requests[g].before)
    BY <1>7, <2>4, <2>6
  <2> QED
    BY <2>2, <2>3, <2>5, <2>7 DEF Stores
<1> QED
  BY <1>6, <1>8, <1>9 DEF ReadInv

(***************************************************************************)
(* A handler: the STORE that is carried out now is known to no command as  *)
(* acknowledged, so its frame is fresh with respect to all of them; and a  *)
(* GET that is carried out finds a frame that is fresh with respect to all *)
(* STOREs that have been, the acknowledged ones among them.                *)
(***************************************************************************)
LEMMA ReadInvAfterHandle ==
    ASSUME ReadInv, StoreInv', SameLists, NEW i \in 1..Len(requests), Happens(i)
    PROVE  ReadInv'
<1>1. StoreInv /\ CommandInv(i)
  BY DEF ReadInv, StoreInv
<1>2. /\ requests' = requests
      /\ \A j \in 1..Len(requests) : j # i => hops'[j] = hops[j]
  BY OthersKept
<1>3. i \notin Acknowledged
  <2>1. hops[i][1].reply = NoAnswer
    BY <1>1, UnansweredBefore
  <2> QED
    BY <2>1 DEF Acknowledged, NoAnswer
<1>4. Acknowledged \subseteq Acknowledged'
  BY <1>2, <1>3 DEF Acknowledged
<1>5. \A j \in 1..Len(requests) : j # i => LastHop(j)' = LastHop(j)
  BY <1>2 DEF LastHop
<1>6. ASSUME NEW x
      PROVE  /\ Stores(x)' = Stores(x)
             /\ Written(x)' = {w \in Stores(x) : Effect(LastHop(w)'.reply)}
  <2>1. Stores(x)' = Stores(x)
    BY <1>2 DEF Stores
  <2>2. Written(x)' = {w \in Stores(x)' : Effect(LastHop(w)'.reply)}
    BY DEF Written, Effect
  <2> QED
    BY <2>1, <2>2
<1>7. \A j \in 1..Len(requests') : requests'[j].before \subseteq Acknowledged'
  BY <1>2, <1>4 DEF ReadInv
<1>8. PICK q : q = requests[i]
  OBVIOUS
<1>9. /\ q.key \in Key /\ Owner(q.key) \in Node
      /\ db \in [Node -> [Key -> Frame \cup {NoFrame}]]
      /\ \A x \in Key : Owner(x) \in Node
  <2>1. hops[i][1].node \in Node /\ q.key \in Key
    BY <1>1, <1>8, CommandTypes DEF StoreInv, CommandInv
  <2> QED
    BY <1>1, <2>1, AllPickOwner DEF StoreInv, ForwardInv, TypeOK
(* The reads that were made earlier. *)
<1>10. ASSUME NEW g \in 1..Len(requests), requests[g].op = "GET",
              LastHop(g).reply.kind = "frame"
       PROVE  Fresh(requests, requests[g].key, LastHop(g).reply.frame,
                    Stores(requests[g].key) \cap requests[g].before)
  BY <1>10 DEF ReadInv
(* It remains to look at the databases and at the reads of this step. *)
<1>11. ASSUME \A x \in Key : Fresh(requests, x, db'[Owner(x)][x], Written(x)'),
              requests[i].op = "GET" /\ LastHop(i)'.reply.kind = "frame" =>
                Fresh(requests, q.key, LastHop(i)'.reply.frame,
                      Stores(q.key) \cap q.before)
       PROVE  ReadInv'
  <2>1. ASSUME NEW g \in 1..Len(requests'), requests'[g].op = "GET",
               LastHop(g)'.reply.kind = "frame"
        PROVE  Fresh(requests', requests'[g].key, LastHop(g)'.reply.frame,
                     Stores(requests[g].key)' \cap requests'[g].before)
    <3>1. Fresh(requests, requests[g].key, LastHop(g)'.reply.frame,
                Stores(requests[g].key) \cap requests[g].before)
      <4>1. CASE g = i
        BY <1>2, <1>8, <1>11, <2>1, <4>1
      <4>2. CASE g # i
        BY <1>2, <1>5, <1>10, <2>1, <4>2
      <4> QED
        BY <4>1, <4>2
    <3>2. Stores(requests[g].key)' = Stores(requests[g].key)
      BY <1>2 DEF Stores
    <3> QED
      BY <1>2, <3>1, <3>2
  <2>2. \A x \in Key : Fresh(requests', x, db'[Owner(x)][x], Written(x)')
    BY <1>2, <1>11
  <2> QED
    BY <1>7, <2>1, <2>2 DEF ReadInv
<1>12. CASE db' = db /\ ~Effect(LastHop(i).reply) /\ ~Effect(LastHop(i)'.reply)
  <2>1. \A x : Written(x)' = Written(x)
    <3> TAKE x
    <3>1. \A w \in Stores(x) : Effect(LastHop(w)'.reply) <=> Effect(LastHop(w).reply)
      BY <1>5, <1>12 DEF Stores
    <3> QED
      BY <1>6, <3>1 DEF Written
  <2>2. LastHop(i)'.reply.kind # "frame"
    BY <1>12 DEF Effect
  <2> QED
    BY <1>11, <1>12, <2>1, <2>2 DEF ReadInv
<1>13. CASE db' = db /\ LastHop(i)'.reply = LastHop(i).reply
  <2>1. \A x : Written(x)' = Written(x)
    <3> TAKE x
    <3>1. \A w \in Stores(x) : Effect(LastHop(w)'.reply) <=> Effect(LastHop(w).reply)
      BY <1>5, <1>13 DEF Stores
    <3> QED
      BY <1>6, <3>1 DEF Written
  <2> QED
    BY <1>8, <1>10, <1>11, <1>13, <2>1 DEF ReadInv
<1>14. ASSUME NEW d, NEW r, TakesEffect(i, d, r)
       PROVE  ReadInv'
  <2>1. LastHop(i)'.reply = r
    BY <1>14 DEF TakesEffect, Done, LastHop
  <2>2. CASE q.op = "STORE"
    <3>1. db' = [db EXCEPT ![Owner(q.key)][q.key] = q.frame]
      BY <1>8, <1>14, <2>2 DEF TakesEffect
    <3>2. ASSUME NEW x \in Key
          PROVE  Fresh(requests, x, db'[Owner(x)][x], Written(x)')
      <4>1. CASE x = q.key
        <5>1. db'[Owner(x)][x] = q.frame
          BY <1>9, <3>1, <4>1
        <5>2. ASSUME NEW s \in Written(x)'
              PROVE  i \notin requests[s].before
          <6>1. s \in 1..Len(requests)
            BY <1>6, <5>2 DEF Stores
          <6> QED
            BY <1>3, <6>1 DEF ReadInv
        <5> QED
          BY <1>8, <2>2, <3>1, <4>1, <5>1, <5>2 DEF Fresh
      <4>2. CASE x # q.key
        <5>1. db'[Owner(x)][x] = db[Owner(x)][x]
          BY <1>9, <3>1, <4>2
        <5>2. Written(x)' = Written(x)
          <6>1. \A w \in Stores(x) : w # i /\ LastHop(w)' = LastHop(w)
            BY <1>5, <1>8, <4>2 DEF Stores
          <6> QED
            BY <1>6, <6>1 DEF Written
        <5> QED
          BY <5>1, <5>2 DEF ReadInv
      <4> QED
        BY <4>1, <4>2
    <3> QED
      BY <1>8, <1>11, <2>2, <3>2
  <2>3. CASE q.op = "GET"
    <3>1. r = Found(db[Owner(q.key)][q.key]) /\ db' = db
      BY <1>8, <1>14, <2>3 DEF TakesEffect
    <3>2. Fresh(requests, q.key, db[Owner(q.key)][q.key], Written(q.key))
      BY <1>9 DEF ReadInv
    <3>3. Stores(q.key) \cap q.before \subseteq Written(q.key)
      <4>1. q.before \subseteq Acknowledged
        BY <1>8 DEF ReadInv
      <4> QED
        BY <1>1, <4>1, AcknowledgedHasEffect DEF Written
    <3>4. Fresh(requests, q.key, db[Owner(q.key)][q.key], Stores(q.key) \cap q.before)
      BY <3>2, <3>3, FreshForFewer
    <3>5. LastHop(i)'.reply.frame = db[Owner(q.key)][q.key]
      BY <2>1, <3>1 DEF Found
    <3>6. \A x : Written(x)' = Written(x)
      <4> TAKE x
      <4>1. \A w \in Stores(x) : w # i /\ LastHop(w)' = LastHop(w)
        BY <1>5, <1>8, <2>3 DEF Stores
      <4> QED
        BY <1>6, <4>1 DEF Written
    <3> QED
      BY <1>8, <1>11, <3>1, <3>4, <3>5, <3>6 DEF ReadInv
  <2> QED
    BY <1>8, <1>14, <2>2, <2>3 DEF TakesEffect
<1> QED
  BY <1>1, <1>12, <1>13, <1>14, LastAnswerKept

(***************************************************************************)
(* Through any of the servers a GET sees the STOREs that were acknowledged *)
(* before it was sent: it returns neither what the database held before    *)
(* them nor a frame that had been overwritten by then.                     *)
(***************************************************************************)
THEOREM GetsSeeAcknowledgedStores ==
    ASSUME SameLists, ~DbMayFail, Node # {}
    PROVE  Spec => []ReadsAcknowledged
<1>1. Init => ReadInv
  <2> SUFFICES ASSUME Init PROVE ReadInv
    OBVIOUS
  <2>1. requests = << >> /\ hops = << >> /\ Len(requests) = 0 /\ Len(hops) = 0
    BY EmptySeq DEF Init
  <2>2. requests \in Seq(Request) /\ hops \in Seq(Seq(Hop))
    BY <2>1, EmptySeq
  <2>3. TypeOK
    BY <2>1, <2>2, OnDiskAssumption DEF TypeOK, Init, Request
  <2>4. 1..Len(requests) = {}
    BY <2>1
  <2>5. StoreInv
    BY <2>3, <2>4
       DEF StoreInv, ForwardInv, HasHop, SentIsLast, WaitingIsNotLast, ScoresIncrease
  <2>6. ASSUME NEW k \in Key
        PROVE  Fresh(requests, k, db[Owner(k)][k], Written(k))
    <3>1. db[Owner(k)][k] = OnDisk[Owner(k)][k]
      BY DEF Init
    <3>2. Written(k) = {}
      BY <2>4 DEF Written, Stores
    <3> QED
      BY <3>1, <3>2 DEF Fresh
  <2> QED
    BY <2>4, <2>5, <2>6 DEF ReadInv
<1>2. StoreInv' /\ ReadInv /\ [Next]_vars => ReadInv'
  <2> SUFFICES ASSUME StoreInv', ReadInv, [Next]_vars PROVE ReadInv'
    OBVIOUS
  <2>1. CASE UNCHANGED vars
    <3>1. requests' = requests /\ hops' = hops /\ db' = db
      BY <2>1 DEF vars
    <3> QED
      BY <3>1 DEF ReadInv, Written, Stores, LastHop, Acknowledged
  <2>2. ASSUME NEW n \in Node, NEW op \in Op, NEW k \in Key,
               NEW f \in Frame \cup {NoFrame}, Send(n, op, k, f)
        PROVE  ReadInv'
    BY <2>2, ReadInvAfterSend
  <2>3. ASSUME NEW i \in 1..Len(requests), NEW d \in 1..Len(hops[i]),
               Handle(i, d)
        PROVE  ReadInv'
    BY <2>3, HandleDoes, ReadInvAfterHandle DEF ReadInv
  <2> QED
    BY <2>1, <2>2, <2>3 DEF Next
<1>3. ReadInv => ReadsAcknowledged
  <2> SUFFICES ASSUME ReadInv, NEW g \in 1..Len(requests),
                      requests[g].op = "GET", hops[g][1].reply.kind = "frame"
               PROVE  LET k == requests[g].key
                          f == hops[g][1].reply.frame
                          acked == Stores(k) \cap requests[g].before
                      IN \/ acked = {} /\ f = OnDisk[Owner(k)][k]
                         \/ \E w \in Stores(k) :
                                /\ requests[w].frame = f
                                /\ \A s \in acked : w \notin requests[s].before
    BY DEF ReadsAcknowledged
  <2>1. CommandInv(g)
    BY DEF ReadInv, StoreInv
  <2>2. Len(hops[g]) = 1 \/ Len(hops[g]) = 2
    BY <2>1 DEF CommandInv
  <2>3. Len(hops[g]) = 2 => hops[g][1].reply = hops[g][2].reply
    BY <2>1 DEF CommandInv, NoAnswer
  <2>4. LastHop(g).reply = hops[g][1].reply
    BY <2>2, <2>3 DEF LastHop
  <2>5. Fresh(requests, requests[g].key, hops[g][1].reply.frame,
              Stores(requests[g].key) \cap requests[g].before)
    BY <2>4 DEF ReadInv
  <2> QED
    BY <2>5 DEF Fresh, Stores
<1> QED
  BY <1>1, <1>2, <1>3, StoreInvariant, PTL DEF Spec

=============================================================================
