--------------------------- MODULE ShardingProofs ---------------------------
(***************************************************************************)
(* Forwarding cannot go round in circles, whatever the servers' lists are. *)
(* Every server passes a command on only to a node with a higher score, so *)
(* the scores increase along the hops of a command.                        *)
(***************************************************************************)
EXTENDS Sharding, TLAPS, SequenceTheorems, FiniteSetTheorems

Request == [op : Op, key : Key, frame : Frame \cup {NoFrame},
            before : SUBSET Nat]

(* Only the last Connection of a command may still have to read it. *)
SentIsLast ==
    \A i \in 1..Len(requests) : \A d \in 1..Len(hops[i]) :
       hops[i][d].state = "sent" => d = Len(hops[i])

(* A Connection that waits has forwarded the command. *)
WaitingIsNotLast ==
    \A i \in 1..Len(requests) : \A d \in 1..Len(hops[i]) :
       hops[i][d].state = "waiting" => d < Len(hops[i])

(* Every command has reached the server its client is connected to. *)
HasHop == \A i \in 1..Len(requests) : Len(hops[i]) >= 1

(* The score of the command's key increases from server to server. *)
ScoresIncrease ==
    \A i \in 1..Len(requests) : \A c, d \in 1..Len(hops[i]) :
       c < d => Score[requests[i].key][hops[i][c].node]
                  < Score[requests[i].key][hops[i][d].node]

ForwardInv ==
    /\ TypeOK
    /\ HasHop
    /\ SentIsLast
    /\ WaitingIsNotLast
    /\ ScoresIncrease

-----------------------------------------------------------------------------
(* What pickNode returns *)

(* The list of a server is a finite set. *)
LEMMA ListedFinite ==
    ASSUME NEW n \in Node
    PROVE  /\ IsFiniteSet(Listed(n))
           /\ Listed(n) \subseteq Node
           /\ n \in Listed(n)
<1>1. Router[n] \in Seq(Node) /\ n \in Listed(n)
  BY RouterAssumption
<1>2. Len(Router[n]) \in Nat /\ Router[n] \in [1..Len(Router[n]) -> Node]
  BY <1>1, LenProperties
<1>3. Router[n] \in Surjection(1..Len(Router[n]), Listed(n))
  BY <1>2 DEF Surjection, Listed
<1>4. IsFiniteSet(1..Len(Router[n]))
  BY <1>2, FS_Interval
<1>5. IsFiniteSet(Listed(n))
  BY <1>3, <1>4, FS_Surjection
<1> QED
  BY <1>1, <1>2, <1>5 DEF Listed

(***************************************************************************)
(* Some node of the list has the highest score: one whose set of better    *)
(* nodes is minimal for inclusion, since a better node would have fewer.   *)
(***************************************************************************)
LEMMA BestExists ==
    ASSUME NEW n \in Node, NEW k \in Key
    PROVE  \E p \in Listed(n) : \A q \in Listed(n) : Score[k][q] <= Score[k][p]
<1> DEFINE L == Listed(n)
           Better(p) == {q \in L : Score[k][q] > Score[k][p]}
           T == {Better(p) : p \in L}
<1>1. IsFiniteSet(L) /\ L \subseteq Node /\ n \in L
  BY ListedFinite
<1>2. \A p \in L : Score[k][p] \in Nat
  BY <1>1, ScoreAssumption
<1>3. IsWellFoundedOn(StrictSubsetOrdering(L), SUBSET L)
  BY <1>1, FS_StrictSubsetOrderingWellFounded, FS_FiniteSubsetsOfFinite
<1>4. T \subseteq SUBSET L /\ T # {}
  BY <1>1
<1> HIDE DEF T, L
<1>5. PICK x \in T : \A y \in T : ~(<<y, x>> \in StrictSubsetOrdering(L))
  BY <1>3, <1>4, WFMin
<1>6. PICK p \in L : x = Better(p)
  BY DEF T
<1>7. ASSUME NEW q \in L, Score[k][q] > Score[k][p]
      PROVE  FALSE
  <2>1. Better(q) \in T
    BY <1>7 DEF T
  <2>2. Better(q) \subseteq Better(p)
    <3> SUFFICES ASSUME NEW r \in L, Score[k][r] > Score[k][q]
                 PROVE  Score[k][r] > Score[k][p]
      OBVIOUS
    <3> QED
      BY <1>2, <1>6, <1>7
  <2>3. q \in Better(p) /\ q \notin Better(q)
    BY <1>2, <1>7
  <2>4. <<Better(q), x>> \in StrictSubsetOrdering(L)
    <3>1. Better(q) \in SUBSET L /\ x \in SUBSET L
      BY <1>6
    <3>2. Better(q) \subseteq x /\ Better(q) # x
      BY <1>6, <2>2, <2>3
    <3> HIDE DEF Better
    <3> QED
      BY <3>1, <3>2 DEF StrictSubsetOrdering
  <2> QED
    BY <1>5, <2>1, <2>4
<1> QED
  BY <1>2, <1>6, <1>7 DEF L

(* A server passes a command only to a node that has a higher score. *)
LEMMA PickedIsBetter ==
    ASSUME NEW n \in Node, NEW k \in Key
    PROVE  /\ pickNode(n, k) \in Node
           /\ pickNode(n, k) # n => Score[k][n] < Score[k][pickNode(n, k)]
<1>1. /\ pickNode(n, k) \in Listed(n)
      /\ \A q \in Listed(n) : Score[k][q] <= Score[k][pickNode(n, k)]
  BY BestExists DEF pickNode
<1>2. Listed(n) \subseteq Node /\ n \in Listed(n)
  BY ListedFinite
<1>3. /\ Score[k][n] \in Nat /\ Score[k][pickNode(n, k)] \in Nat
      /\ Score[k][n] = Score[k][pickNode(n, k)] => n = pickNode(n, k)
  BY <1>1, <1>2, ScoreAssumption
<1> QED
  BY <1>1, <1>2, <1>3

-----------------------------------------------------------------------------
(* Steps preserve the invariant *)

(***************************************************************************)
(* A Connection that has read its command gets done with it: no command    *)
(* changes servers.                                                        *)
(***************************************************************************)
LEMMA InvWhenDone ==
    ASSUME ForwardInv,
           NEW i \in 1..Len(requests), NEW d \in 1..Len(hops[i]),
           NEW state \in {"answered", "silent", "lost"}, NEW reply \in Answer,
           Goto(i, d, state, reply), UNCHANGED requests,
           db' \in [Node -> [Key -> Frame \cup {NoFrame}]]
    PROVE  ForwardInv'
<1>1. /\ hops \in Seq(Seq(Hop)) /\ Len(hops) = Len(requests)
      /\ requests \in Seq(Request)
  BY DEF ForwardInv, TypeOK, Request
<1>2. /\ Len(hops) \in Nat /\ hops \in [1..Len(hops) -> Seq(Hop)]
  BY <1>1, LenProperties
<1>3. hops[i] \in Seq(Hop) /\ Len(hops[i]) \in Nat
      /\ hops[i] \in [1..Len(hops[i]) -> Hop]
  BY <1>1, <1>2, LenProperties
<1>4. PICK h : h = [hops[i][d] EXCEPT !.state = state, !.reply = reply]
  OBVIOUS
<1>5. h \in Hop /\ h.node = hops[i][d].node /\ h.state = state
  BY <1>3, <1>4 DEF Hop
<1>6. PICK s : s = [hops[i] EXCEPT ![d] = h]
  OBVIOUS
<1>7. s \in Seq(Hop) /\ Len(s) = Len(hops[i])
  BY <1>3, <1>5, <1>6, ExceptSeq
<1>8. hops' = [hops EXCEPT ![i] = s]
  BY <1>4, <1>6 DEF Goto
<1>9. hops' \in Seq(Seq(Hop)) /\ Len(hops') = Len(hops)
  BY <1>1, <1>7, <1>8, ExceptSeq
<1>10. ASSUME NEW j \in 1..Len(requests)
       PROVE  /\ Len(hops'[j]) = Len(hops[j])
              /\ \A c \in 1..Len(hops[j]) :
                   /\ hops'[j][c].node = hops[j][c].node
                   /\ \/ hops'[j][c].state = hops[j][c].state
                      \/ hops'[j][c].state \in {"answered", "silent", "lost"}
  <2>1. CASE j = i
    <3>1. hops'[j] = s
      BY <1>1, <1>2, <1>8, <2>1
    <3>2. ASSUME NEW c \in 1..Len(hops[i])
          PROVE  /\ s[c].node = hops[i][c].node
                 /\ \/ s[c].state = hops[i][c].state
                    \/ s[c].state \in {"answered", "silent", "lost"}
      <4>1. CASE c = d
        BY <1>3, <1>5, <1>6, <4>1
      <4>2. CASE c # d
        BY <1>3, <1>6, <4>2
      <4> QED
        BY <4>1, <4>2
    <3> QED
      BY <1>7, <2>1, <3>1, <3>2
  <2>2. CASE j # i
    BY <1>1, <1>2, <1>8, <2>2
  <2> QED
    BY <2>1, <2>2
<1>11. TypeOK'
  BY <1>1, <1>9 DEF TypeOK, Request
<1>12. HasHop'
  BY <1>10 DEF ForwardInv, HasHop
<1>13. SentIsLast'
  BY <1>10 DEF ForwardInv, SentIsLast
<1>14. WaitingIsNotLast'
  BY <1>10 DEF ForwardInv, WaitingIsNotLast
<1>15. ScoresIncrease'
  BY <1>10 DEF ForwardInv, ScoresIncrease
<1> QED
  BY <1>11, <1>12, <1>13, <1>14, <1>15 DEF ForwardInv

(* The first Connection of a new command has no predecessor. *)
LEMMA InvAfterSend ==
    ASSUME ForwardInv, NEW n \in Node, NEW op \in Op, NEW k \in Key,
           NEW f \in Frame \cup {NoFrame}, Send(n, op, k, f)
    PROVE  ForwardInv'
<1>1. /\ hops \in Seq(Seq(Hop)) /\ Len(hops) = Len(requests)
      /\ requests \in Seq(Request)
  BY DEF ForwardInv, TypeOK, Request
<1>2. Len(hops) \in Nat
  BY <1>1, LenProperties
<1>3. PICK h : h = [node |-> n, state |-> "sent", reply |-> NoAnswer]
  OBVIOUS
<1>4. h \in Hop /\ h.state = "sent"
  BY <1>3 DEF Hop, Answer, NoAnswer
<1>5. PICK r : r = [op |-> op, key |-> k, frame |-> f, before |-> Acknowledged]
  OBVIOUS
<1>6. r \in Request
  <2>1. Acknowledged \subseteq Nat
    BY <1>1, <1>2 DEF Acknowledged
  <2> QED
    BY <1>5, <2>1 DEF Request
<1>7. PICK s : s = <<h>>
  OBVIOUS
<1>8. s \in Seq(Hop) /\ Len(s) = 1 /\ s[1] = h
  BY <1>4, <1>7
<1>9. requests' = Append(requests, r) /\ hops' = Append(hops, s) /\ db' = db
  BY <1>3, <1>5, <1>7 DEF Send
<1>10. /\ requests' \in Seq(Request) /\ Len(requests') = Len(requests) + 1
       /\ \A j \in 1..Len(requests) : requests'[j] = requests[j]
  BY <1>1, <1>6, <1>9, AppendProperties
<1>11. /\ hops' \in Seq(Seq(Hop)) /\ Len(hops') = Len(hops) + 1
       /\ \A j \in 1..Len(hops) : hops'[j] = hops[j]
       /\ hops'[Len(hops) + 1] = s
  BY <1>1, <1>8, <1>9, AppendProperties
<1>12. ASSUME NEW j \in 1..Len(requests')
       PROVE  \/ /\ j \in 1..Len(requests)
                 /\ requests'[j] = requests[j] /\ hops'[j] = hops[j]
              \/ hops'[j] = s
  BY <1>1, <1>2, <1>10, <1>11
<1>13. TypeOK'
  BY <1>1, <1>9, <1>10, <1>11 DEF ForwardInv, TypeOK, Request
<1>14. HasHop'
  BY <1>8, <1>12 DEF ForwardInv, HasHop
<1>15. SentIsLast'
  <2> SUFFICES ASSUME NEW j \in 1..Len(requests'), NEW d \in 1..Len(hops'[j]),
                      hops'[j][d].state = "sent"
               PROVE  d = Len(hops'[j])
    BY DEF SentIsLast
  <2>1. CASE hops'[j] = s
    <3>1. Len(hops'[j]) = 1
      BY <1>8, <2>1
    <3> QED
      BY <3>1
  <2>2. CASE j \in 1..Len(requests) /\ hops'[j] = hops[j]
    BY <2>2 DEF ForwardInv, SentIsLast
  <2> QED
    BY <1>12, <2>1, <2>2
<1>16. WaitingIsNotLast'
  BY <1>4, <1>8, <1>12 DEF ForwardInv, WaitingIsNotLast
<1>17. ScoresIncrease'
  <2> SUFFICES ASSUME NEW j \in 1..Len(requests'),
                      NEW c \in 1..Len(hops'[j]), NEW d \in 1..Len(hops'[j]),
                      c < d
               PROVE  Score[requests'[j].key][hops'[j][c].node]
                        < Score[requests'[j].key][hops'[j][d].node]
    BY DEF ScoresIncrease
  <2>1. CASE hops'[j] = s
    <3>1. Len(hops'[j]) = 1
      BY <1>8, <2>1
    <3>2. c = 1 /\ d = 1
      BY <3>1
    <3> QED
      BY <3>2
  <2>2. CASE /\ j \in 1..Len(requests)
             /\ requests'[j] = requests[j] /\ hops'[j] = hops[j]
    BY <2>2 DEF ForwardInv, ScoresIncrease
  <2> QED
    BY <1>12, <2>1, <2>2
<1> QED
  BY <1>13, <1>14, <1>15, <1>16, <1>17 DEF ForwardInv

(***************************************************************************)
(* forwardToNode appends a server with a higher score than the last one,   *)
(* and only the last one forwards.                                         *)
(***************************************************************************)
LEMMA InvAfterForward ==
    ASSUME ForwardInv, NEW i \in 1..Len(requests), NEW d \in 1..Len(hops[i]),
           Forward(i, d)
    PROVE  ForwardInv'
<1>1. /\ hops \in Seq(Seq(Hop)) /\ Len(hops) = Len(requests)
      /\ requests \in Seq(Request)
  BY DEF ForwardInv, TypeOK, Request
<1>2. /\ Len(hops) \in Nat /\ hops \in [1..Len(hops) -> Seq(Hop)]
      /\ requests[i] \in Request
  BY <1>1, LenProperties, ElementOfSeq
<1>3. hops[i] \in Seq(Hop) /\ Len(hops[i]) \in Nat
      /\ hops[i] \in [1..Len(hops[i]) -> Hop]
  BY <1>1, <1>2, LenProperties
<1>4. PICK k : k = requests[i].key
  OBVIOUS
<1>5. PICK n : n = hops[i][d].node
  OBVIOUS
<1>6. PICK p : p = pickNode(n, k)
  OBVIOUS
<1>7. k \in Key /\ n \in Node
  BY <1>2, <1>3, <1>4, <1>5 DEF Request, Hop
<1>8. p \in Node /\ Score[k][n] < Score[k][p]
  BY <1>4, <1>5, <1>6, <1>7, PickedIsBetter DEF Forward, Local
<1>9. PICK h : h = [hops[i][d] EXCEPT !.state = "waiting"]
  OBVIOUS
<1>10. h \in Hop /\ h.node = n /\ h.state = "waiting"
  BY <1>3, <1>5, <1>9 DEF Hop
<1>11. PICK s : s = [hops[i] EXCEPT ![d] = h]
  OBVIOUS
<1>12. s \in Seq(Hop) /\ Len(s) = Len(hops[i])
  BY <1>3, <1>10, <1>11, ExceptSeq
<1>13. PICK g : g = [node |-> p, state |-> "sent", reply |-> NoAnswer]
  OBVIOUS
<1>14. g \in Hop /\ g.node = p /\ g.state = "sent"
  BY <1>8, <1>13 DEF Hop, Answer, NoAnswer
<1>15. PICK t : t = Append(s, g)
  OBVIOUS
<1>16. hops' = [hops EXCEPT ![i] = t] /\ requests' = requests /\ db' = db
  BY <1>4, <1>5, <1>6, <1>9, <1>11, <1>13, <1>15 DEF Forward
<1>17. d = Len(hops[i])
  BY DEF ForwardInv, SentIsLast, Forward, At
<1>18. /\ t \in Seq(Hop) /\ Len(t) = d + 1
       /\ t[d + 1] = g /\ \A c \in 1..d : t[c] = s[c]
  BY <1>12, <1>14, <1>15, <1>17, AppendProperties
<1>19. hops' \in Seq(Seq(Hop)) /\ Len(hops') = Len(hops)
  BY <1>1, <1>16, <1>18, ExceptSeq
<1>20. /\ hops'[i] = t
       /\ \A j \in 1..Len(requests) : j # i => hops'[j] = hops[j]
  BY <1>1, <1>2, <1>16
<1>21. /\ t[d].node = n /\ t[d].state = "waiting"
       /\ t[d + 1].node = p /\ t[d + 1].state = "sent"
       /\ \A c \in 1..d : c # d => t[c] = hops[i][c]
  BY <1>3, <1>10, <1>11, <1>14, <1>17, <1>18
<1>22. d \in Nat /\ d >= 1
       /\ \A c \in 1..(d + 1) : c = d + 1 \/ c = d \/ (c \in 1..d /\ c < d)
  BY <1>3, <1>17
<1>23. TypeOK'
  BY <1>1, <1>16, <1>19 DEF ForwardInv, TypeOK, Request
<1>24. HasHop'
  BY <1>16, <1>18, <1>20, <1>22 DEF ForwardInv, HasHop
<1>25. SentIsLast'
  <2> SUFFICES ASSUME NEW j \in 1..Len(requests), NEW c \in 1..Len(hops'[j]),
                      hops'[j][c].state = "sent"
               PROVE  c = Len(hops'[j])
    BY <1>16 DEF SentIsLast
  <2>1. CASE j # i
    BY <1>20, <2>1 DEF ForwardInv, SentIsLast
  <2>2. CASE j = i
    <3>1. ASSUME c \in 1..d, c < d
          PROVE  FALSE
      BY <1>17, <1>20, <1>21, <1>22, <2>2, <3>1 DEF ForwardInv, SentIsLast
    <3> QED
      BY <1>18, <1>20, <1>21, <1>22, <2>2, <3>1
  <2> QED
    BY <2>1, <2>2
<1>26. WaitingIsNotLast'
  <2> SUFFICES ASSUME NEW j \in 1..Len(requests), NEW c \in 1..Len(hops'[j]),
                      hops'[j][c].state = "waiting"
               PROVE  c < Len(hops'[j])
    BY <1>16 DEF WaitingIsNotLast
  <2>1. CASE j # i
    BY <1>20, <2>1 DEF ForwardInv, WaitingIsNotLast
  <2>2. CASE j = i
    BY <1>18, <1>20, <1>21, <1>22, <2>2
  <2> QED
    BY <2>1, <2>2
<1>27. ScoresIncrease'
  <2> SUFFICES ASSUME NEW j \in 1..Len(requests),
                      NEW b \in 1..Len(hops'[j]), NEW c \in 1..Len(hops'[j]),
                      b < c
               PROVE  Score[requests[j].key][hops'[j][b].node]
                        < Score[requests[j].key][hops'[j][c].node]
    BY <1>16 DEF ScoresIncrease
  <2>1. CASE j # i
    BY <1>20, <2>1 DEF ForwardInv, ScoresIncrease
  <2>2. CASE j = i
    <3>1. b \in 1..d /\ b <= d /\ c \in 1..(d + 1)
      BY <1>18, <1>20, <1>22, <2>2
    <3>2. ASSUME NEW a \in 1..d
          PROVE  /\ t[a].node = hops[i][a].node
                 /\ Score[k][t[a].node] \in Nat
      <4>1. t[a].node = hops[i][a].node
        BY <1>5, <1>21
      <4>2. hops[i][a].node \in Node
        BY <1>3, <1>17 DEF Hop
      <4> QED
        BY <1>7, <4>1, <4>2, ScoreAssumption
    <3>3. CASE c \in 1..d
      <4>1. Score[requests[i].key][hops[i][b].node]
              < Score[requests[i].key][hops[i][c].node]
        BY <1>17, <3>1, <3>3 DEF ForwardInv, ScoresIncrease
      <4> QED
        BY <1>20, <2>2, <3>1, <3>2, <3>3, <4>1
    <3>4. CASE c = d + 1
      <4>1. Score[k][t[b].node] <= Score[k][n]
        <5>1. CASE b = d
          BY <1>21, <3>2, <5>1
        <5>2. CASE b < d
          <6>1. Score[requests[i].key][hops[i][b].node]
                  < Score[requests[i].key][hops[i][d].node]
            BY <1>17, <3>1, <5>2 DEF ForwardInv, ScoresIncrease
          <6>2. Score[k][n] \in Nat
            BY <1>7, ScoreAssumption
          <6>3. t[b].node = hops[i][b].node /\ Score[k][t[b].node] \in Nat
            BY <3>1, <3>2
          <6>4. Score[k][t[b].node] < Score[k][n]
            BY <1>4, <1>5, <6>1, <6>3
          <6> QED
            BY <6>2, <6>3, <6>4
        <5> QED
          BY <1>22, <3>1, <5>1, <5>2
      <4>2. Score[k][n] \in Nat /\ Score[k][p] \in Nat
        BY <1>7, <1>8, ScoreAssumption
      <4>3. Score[k][t[b].node] < Score[k][p]
        BY <1>8, <3>1, <3>2, <4>1, <4>2
      <4> QED
        BY <1>4, <1>20, <1>21, <2>2, <3>4, <4>3
    <3> QED
      BY <1>22, <3>1, <3>3, <3>4
  <2> QED
    BY <2>1, <2>2
<1> QED
  BY <1>23, <1>24, <1>25, <1>26, <1>27 DEF ForwardInv

-----------------------------------------------------------------------------
(* Whatever the worker of a Connection does keeps the invariant. *)
LEMMA InvAfterHandle ==
    ASSUME ForwardInv, NEW i \in 1..Len(requests), NEW d \in 1..Len(hops[i]),
           Handle(i, d)
    PROVE  ForwardInv'
<1>1. /\ db \in [Node -> [Key -> Frame \cup {NoFrame}]]
      /\ hops \in Seq(Seq(Hop)) /\ Len(hops) = Len(requests)
      /\ requests \in Seq(Request)
  BY DEF ForwardInv, TypeOK, Request
<1>2. hops[i] \in Seq(Hop) /\ requests[i] \in Request
  BY <1>1, ElementOfSeq
<1>3. hops[i][d] \in Hop /\ Len(hops[i]) \in Nat
  BY <1>2, ElementOfSeq, LenProperties
<1>4. /\ NoAnswer \in Answer /\ StoreOk \in Answer
      /\ Pong \in Answer /\ Error \in Answer
  BY DEF Answer, NoAnswer, StoreOk, Pong, Error
<1>5. CASE CloseEarly(i, d)
  BY <1>1, <1>4, <1>5, InvWhenDone DEF CloseEarly
<1>6. CASE StoreMissingPayload(i, d)
  BY <1>1, <1>4, <1>6, InvWhenDone DEF StoreMissingPayload
<1>7. CASE Refuse(i, d)
  BY <1>1, <1>4, <1>7, InvWhenDone DEF Refuse
<1>8. CASE StoreLocal(i, d)
  <2>1. db' \in [Node -> [Key -> Frame \cup {NoFrame}]]
    <3>1. hops[i][d].node \in Node /\ requests[i].key \in Key
          /\ requests[i].frame \in Frame \cup {NoFrame}
      BY <1>2, <1>3 DEF Hop, Request
    <3>2. \A n \in Node, k \in Key, f \in Frame \cup {NoFrame} :
            [db EXCEPT ![n][k] = f] \in [Node -> [Key -> Frame \cup {NoFrame}]]
      BY <1>1
    <3>3. \/ db' = db
          \/ db' = [db EXCEPT ![hops[i][d].node][requests[i].key]
                                = requests[i].frame]
      BY <1>8 DEF StoreLocal
    <3>4. [db EXCEPT ![hops[i][d].node][requests[i].key] = requests[i].frame]
            \in [Node -> [Key -> Frame \cup {NoFrame}]]
      BY <3>1, <3>2
    <3> QED
      BY <1>1, <3>3, <3>4
  <2> QED
    BY <1>4, <1>8, <2>1, InvWhenDone DEF StoreLocal
<1>9. CASE GetLocal(i, d)
  <2>1. hops[i][d].node \in Node /\ requests[i].key \in Key
    BY <1>2, <1>3 DEF Hop, Request
  <2>2. db[hops[i][d].node][requests[i].key] \in Frame \cup {NoFrame}
    BY <1>1, <2>1
  <2>3. PICK f \in get(hops[i][d].node, requests[i].key) :
          Goto(i, d, "answered", Found(f))
    BY <1>9 DEF GetLocal
  <2>4. f \in Frame \cup {NoFrame}
    BY <2>2, <2>3 DEF get
  <2>5. Found(f) \in Answer
    BY <2>4 DEF Found, Answer
  <2> QED
    BY <1>1, <1>9, <2>3, <2>5, InvWhenDone DEF GetLocal
<1>10. CASE Forward(i, d)
  BY <1>10, InvAfterForward
<1>11. CASE ForwardFails(i, d)
  BY <1>1, <1>4, <1>11, InvWhenDone DEF ForwardFails
<1>12. CASE ForwardNoSocket(i, d)
  BY <1>1, <1>4, <1>12, InvWhenDone DEF ForwardNoSocket
<1>13. CASE Relay(i, d)
  <2>1. d < Len(hops[i])
    BY <1>13 DEF Relay, At, ForwardInv, WaitingIsNotLast
  <2>2. d + 1 \in 1..Len(hops[i])
    BY <1>3, <2>1
  <2>3. hops[i][d + 1] \in Hop
    BY <1>2, <2>2, ElementOfSeq
  <2>4. hops[i][d + 1].reply \in Answer
    BY <2>3 DEF Hop
  <2> QED
    BY <1>1, <1>13, <2>4, InvWhenDone DEF Relay
<1>14. CASE RelayFails(i, d)
  BY <1>1, <1>4, <1>14, InvWhenDone DEF RelayFails
<1>15. CASE Ping(i, d)
  BY <1>1, <1>4, <1>15, InvWhenDone DEF Ping
<1> QED
  BY <1>5, <1>6, <1>7, <1>8, <1>9, <1>10, <1>11, <1>12, <1>13, <1>14, <1>15
     DEF Handle

(***************************************************************************)
(* The inductive invariant: along the Connections of a command the scores  *)
(* increase, and only the last of them may still forward it.               *)
(***************************************************************************)
THEOREM ForwardInvariant == Spec => []ForwardInv
<1>1. Init => ForwardInv
  <2> SUFFICES ASSUME Init PROVE ForwardInv
    OBVIOUS
  <2>1. requests = << >> /\ hops = << >> /\ Len(requests) = 0 /\ Len(hops) = 0
    BY EmptySeq DEF Init
  <2>2. requests \in Seq(Request) /\ hops \in Seq(Seq(Hop))
    BY <2>1, EmptySeq
  <2>3. TypeOK
    BY <2>1, <2>2, OnDiskAssumption DEF TypeOK, Init, Request
  <2>4. 1..Len(requests) = {}
    BY <2>1
  <2> QED
    BY <2>3, <2>4
       DEF ForwardInv, HasHop, SentIsLast, WaitingIsNotLast, ScoresIncrease
<1>2. ForwardInv /\ [Next]_vars => ForwardInv'
  <2> SUFFICES ASSUME ForwardInv, [Next]_vars PROVE ForwardInv'
    OBVIOUS
  <2>1. CASE UNCHANGED vars
    BY <2>1 DEF vars, ForwardInv, TypeOK, HasHop, SentIsLast,
                WaitingIsNotLast, ScoresIncrease
  <2>2. ASSUME NEW n \in Node, NEW op \in Op, NEW k \in Key,
               NEW f \in Frame \cup {NoFrame}, Send(n, op, k, f)
        PROVE  ForwardInv'
    BY <2>2, InvAfterSend
  <2>3. ASSUME NEW i \in 1..Len(requests), NEW d \in 1..Len(hops[i]),
               Handle(i, d)
        PROVE  ForwardInv'
    BY <2>3, InvAfterHandle
  <2> QED
    BY <2>1, <2>2, <2>3 DEF Next
<1> QED
  BY <1>1, <1>2, PTL DEF Spec

(***************************************************************************)
(* forwardToNode never brings a command back to a server it has been on,   *)
(* for every cluster, every choice of lists and every hash without         *)
(* collisions on the key.                                                  *)
(***************************************************************************)
THEOREM ForwardingNeverReturns == Spec => []NoRevisit
<1>1. ForwardInv => NoRevisit
  <2> SUFFICES ASSUME ForwardInv, NEW i \in 1..Len(requests),
                      NEW c \in 1..Len(hops[i]), NEW d \in 1..Len(hops[i]),
                      hops[i][c].node = hops[i][d].node
               PROVE  c = d
    BY DEF NoRevisit
  <2>1. requests[i] \in Request /\ hops[i] \in Seq(Hop)
    BY ElementOfSeq DEF ForwardInv, TypeOK, Request
  <2>2. hops[i][c] \in Hop /\ Len(hops[i]) \in Nat
    BY <2>1, ElementOfSeq, LenProperties
  <2>3. Score[requests[i].key][hops[i][c].node] \in Nat
    BY <2>1, <2>2, ScoreAssumption DEF Request, Hop
  <2>4. ~(c < d)
    <3> SUFFICES ASSUME c < d PROVE FALSE
      OBVIOUS
    <3>1. Score[requests[i].key][hops[i][c].node]
            < Score[requests[i].key][hops[i][d].node]
      BY DEF ForwardInv, ScoresIncrease
    <3> QED
      BY <2>3, <3>1
  <2>5. ~(d < c)
    <3> SUFFICES ASSUME d < c PROVE FALSE
      OBVIOUS
    <3>1. Score[requests[i].key][hops[i][d].node]
            < Score[requests[i].key][hops[i][c].node]
      BY DEF ForwardInv, ScoresIncrease
    <3> QED
      BY <2>3, <3>1
  <2> QED
    BY <2>2, <2>4, <2>5
<1> QED
  BY <1>1, ForwardInvariant, PTL

(***************************************************************************)
(* Commands, Connections and databases keep their types; in particular     *)
(* Relay always finds the Connection it forwarded to.                      *)
(***************************************************************************)
THEOREM ShardingTypeCorrect == Spec => []TypeOK
<1>1. ForwardInv => TypeOK
  BY DEF ForwardInv
<1> QED
  BY <1>1, ForwardInvariant, PTL

=============================================================================
