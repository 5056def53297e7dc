------------------------ MODULE RaftElectionProofs ------------------------
(***************************************************************************)
(* Votes and elections of RaftNode: one vote per term, elections won with  *)
(* real votes, and what it takes for two nodes to win one term.            *)
(***************************************************************************)
EXTENDS RaftLogProofs

-----------------------------------------------------------------------------
(* One vote per node and term *)

VoteInv == IndexInv /\ VoteRemembered /\ VoteOnce

(* A step that keeps terms, votes and grants keeps what is known of votes. *)
LEMMA VotesWhenKept ==
    ASSUME VoteInv, UNCHANGED <<m_currentTerm, m_votedFor, grants>>
    PROVE  VoteRemembered' /\ VoteOnce'
BY DEF VoteInv, VoteRemembered, VoteOnce

(* A node may forget whom it voted for when its term grows. *)
LEMMA VotesWhenTermGrows ==
    ASSUME VoteInv, NEW n \in Node, NEW t \in Nat, t > m_currentTerm[n],
           m_currentTerm' = [m_currentTerm EXCEPT ![n] = t],
           \A m \in Node : m # n => m_votedFor'[m] = m_votedFor[m],
           grants' = grants
    PROVE  VoteRemembered' /\ VoteOnce'
<1>1. VoteOnce'
  BY DEF VoteInv, VoteOnce
<1>2. VoteRemembered'
  <2> SUFFICES ASSUME NEW g \in grants
               PROVE  /\ g[2] <= m_currentTerm'[g[1]]
                      /\ g[2] = m_currentTerm'[g[1]] => m_votedFor'[g[1]] = g[3]
    BY DEF VoteRemembered
  <2>1. /\ g[1] \in Node /\ g[2] \in Nat /\ m_currentTerm \in [Node -> Nat]
        /\ g[2] <= m_currentTerm[g[1]]
        /\ g[2] = m_currentTerm[g[1]] => m_votedFor[g[1]] = g[3]
    BY DEF VoteInv, IndexInv, TypeOK, VoteRemembered
  <2>2. CASE g[1] = n
    BY <2>1, <2>2
  <2>3. CASE g[1] # n
    BY <2>1, <2>3
  <2> QED
    BY <2>2, <2>3
<1> QED
  BY <1>1, <1>2

(***************************************************************************)
(* A node gives its vote of term t, the term it is in from now on, either  *)
(* because the term is new or because it has given it to nobody else.      *)
(***************************************************************************)
LEMMA VotesWhenGiven ==
    ASSUME VoteInv, NEW n \in Node, NEW t \in Nat, NEW x \in Node,
           \/ t > m_currentTerm[n]
           \/ t = m_currentTerm[n] /\ m_votedFor[n] \in {Nil, x},
           m_currentTerm' = [m_currentTerm EXCEPT ![n] = t],
           m_votedFor' = [m_votedFor EXCEPT ![n] = x],
           grants' = grants \cup {<<n, t, x>>}
    PROVE  VoteRemembered' /\ VoteOnce'
<1>1. /\ m_currentTerm \in [Node -> Nat] /\ m_votedFor \in [Node -> Node \cup {Nil}]
      /\ Nil \notin Node
  BY NodeAssumption DEF VoteInv, IndexInv, TypeOK
<1>2. \A g \in grants : /\ g[1] \in Node /\ g[2] \in Nat /\ g[3] \in Node
                        /\ g[2] <= m_currentTerm[g[1]]
                        /\ g[2] = m_currentTerm[g[1]] => m_votedFor[g[1]] = g[3]
  BY DEF VoteInv, IndexInv, TypeOK, VoteRemembered
<1>3. \A g \in grants : g[1] = n /\ g[2] = t => g[3] = x
  BY <1>1, <1>2
<1>4. VoteOnce'
  <2> DEFINE new == <<n, t, x>>
  <2>1. new[1] = n /\ new[2] = t /\ new[3] = x
    OBVIOUS
  <2> HIDE DEF new
  <2> SUFFICES ASSUME NEW g \in grants \cup {new}, NEW h \in grants \cup {new},
                      g[1] = h[1], g[2] = h[2]
               PROVE  g[3] = h[3]
    BY DEF VoteOnce, new
  <2>2. CASE g \in grants /\ h \in grants
    BY <2>2 DEF VoteInv, VoteOnce
  <2>3. CASE g = new \/ h = new
    BY <1>3, <2>1, <2>3
  <2> QED
    BY <2>2, <2>3
<1>5. VoteRemembered'
  <2> DEFINE new == <<n, t, x>>
  <2>1. new[1] = n /\ new[2] = t /\ new[3] = x
    OBVIOUS
  <2> HIDE DEF new
  <2> SUFFICES ASSUME NEW g \in grants \cup {new}
               PROVE  /\ g[2] <= m_currentTerm'[g[1]]
                      /\ g[2] = m_currentTerm'[g[1]] => m_votedFor'[g[1]] = g[3]
    BY DEF VoteRemembered, new
  <2>2. CASE g = new
    BY <1>1, <2>1, <2>2
  <2>3. CASE g \in grants /\ g[1] = n
    BY <1>1, <1>2, <1>3, <2>3
  <2>4. CASE g \in grants /\ g[1] # n
    BY <1>1, <1>2, <2>4
  <2> QED
    BY <2>2, <2>3, <2>4
<1> QED
  BY <1>4, <1>5

(* Following a reply with a newer term keeps what is known of votes. *)
LEMMA VotesStepDown ==
    ASSUME VoteInv, NEW n \in Node, NEW t \in Nat, t > m_currentTerm[n],
           StepDown(n, t), grants' = grants
    PROVE  VoteRemembered' /\ VoteOnce'
<1>1. /\ m_currentTerm' = [m_currentTerm EXCEPT ![n] = t]
      /\ \A m \in Node : m # n => m_votedFor'[m] = m_votedFor[m]
  BY DEF StepDown, VoteInv, IndexInv, TypeOK
<1> QED
  BY <1>1, VotesWhenTermGrows

(* So does every reply startElection and heartbeatLoop read. *)
LEMMA VotesRecv ==
    ASSUME VoteInv, NEW n \in Node, RecvVote(n) \/ RecvAppend(n)
    PROVE  VoteRemembered' /\ VoteOnce'
<1> DEFINE r == TheReply(n)
<1>1. r \in Reply /\ grants' = grants
  BY TakeReplyType DEF VoteInv, RecvVote, RecvAppend
<1>2. r.term \in Nat
  BY <1>1 DEF Reply, RequestVoteReply, AppendEntriesReply
<1>3. \/ r.term > m_currentTerm[n] /\ StepDown(n, r.term)
      \/ UNCHANGED <<m_currentTerm, m_votedFor>>
  BY DEF RecvVote, RecvAppend, VoteReceived, VoteRefused, AppendAccepted,
         AppendOutdated, AppendMismatch
<1> HIDE DEF r
<1>4. CASE r.term > m_currentTerm[n] /\ StepDown(n, r.term)
  BY <1>1, <1>2, <1>4, VotesStepDown
<1>5. CASE UNCHANGED <<m_currentTerm, m_votedFor>>
  BY <1>1, <1>5, VotesWhenKept
<1> QED
  BY <1>3, <1>4, <1>5

(* handleRequestVote raises the term, then gives the vote or not. *)
LEMMA VotesHandleVote ==
    ASSUME VoteInv, NEW p \in Node, NEW a \in Request, a.type = "RequestVote",
           handleRequestVote(p, a)
    PROVE  VoteRemembered' /\ VoteOnce'
<1>1. a.term \in Nat /\ a.candidateId \in Node
  BY RequestTypes
<1>2. /\ m_currentTerm \in [Node -> Nat] /\ m_currentTerm[p] \in Nat
      /\ m_votedFor \in [Node -> Node \cup {Nil}]
  BY DEF VoteInv, IndexInv, TypeOK
<1>3. CASE VoteGranted(p, a)
  <2>1. \/ a.term > m_currentTerm[p]
        \/ a.term = m_currentTerm[p] /\ m_votedFor[p] \in {Nil, a.candidateId}
    BY <1>1, <1>2, <1>3 DEF VoteGranted
  <2>2. m_currentTerm' = [m_currentTerm EXCEPT ![p] = a.term]
    BY <1>2, <2>1 DEF handleRequestVote
  <2>3. /\ m_votedFor' = [m_votedFor EXCEPT ![p] = a.candidateId]
        /\ grants' = grants \cup {<<p, a.term, a.candidateId>>}
    BY <1>3 DEF handleRequestVote
  <2> QED
    BY <1>1, <2>1, <2>2, <2>3, VotesWhenGiven
<1>4. CASE ~VoteGranted(p, a) /\ a.term > m_currentTerm[p]
  <2>1. /\ m_currentTerm' = [m_currentTerm EXCEPT ![p] = a.term]
        /\ m_votedFor' = [m_votedFor EXCEPT ![p] = Nil]
        /\ grants' = grants
    BY <1>4 DEF handleRequestVote
  <2>2. \A m \in Node : m # p => m_votedFor'[m] = m_votedFor[m]
    BY <1>2, <2>1
  <2> QED
    BY <1>1, <1>4, <2>1, <2>2, VotesWhenTermGrows
<1>5. CASE ~VoteGranted(p, a) /\ ~(a.term > m_currentTerm[p])
  BY <1>5, VotesWhenKept DEF handleRequestVote
<1> QED
  BY <1>3, <1>4, <1>5

(* handleAppendEntries raises the term and leaves m_votedFor alone. *)
LEMMA VotesHandleAppend ==
    ASSUME VoteInv, NEW p \in Node, NEW a \in Request, a.type = "AppendEntries",
           handleAppendEntries(p, a)
    PROVE  VoteRemembered' /\ VoteOnce'
<1>1. a.term \in Nat
  BY RequestTypes
<1>2. m_currentTerm \in [Node -> Nat] /\ m_currentTerm[p] \in Nat
  BY DEF VoteInv, IndexInv, TypeOK
<1>3. m_votedFor' = m_votedFor /\ grants' = grants
  BY DEF handleAppendEntries, Outdated
<1>4. CASE a.term <= m_currentTerm[p]
  <2>1. m_currentTerm' = m_currentTerm
    BY <1>1, <1>2, <1>4 DEF handleAppendEntries, Outdated
  <2> QED
    BY <1>3, <2>1, VotesWhenKept
<1>5. CASE a.term > m_currentTerm[p]
  <2>1. m_currentTerm' = [m_currentTerm EXCEPT ![p] = a.term]
    BY <1>1, <1>2, <1>5 DEF handleAppendEntries, Outdated
  <2> QED
    BY <1>1, <1>3, <1>5, <2>1, VotesWhenTermGrows
<1> QED
  BY <1>1, <1>2, <1>4, <1>5

(* So does either RPC handler, whatever request it is given. *)
LEMMA VotesHandle ==
    ASSUME VoteInv, NEW p \in Node, NEW a \in Request, Handle(p, a)
    PROVE  VoteRemembered' /\ VoteOnce'
BY VotesHandleVote, VotesHandleAppend DEF Handle

(* Every step keeps the vote invariant, as long as nothing restarts. *)
LEMMA VoteStep ==
    ASSUME MaxRestarts = 0
    PROVE  VoteInv /\ [Next]_vars => VoteInv'
<1> SUFFICES ASSUME VoteInv, [Next]_vars PROVE VoteRemembered' /\ VoteOnce'
  BY IndexStep DEF VoteInv
<1>1. ASSUME NEW n \in Node, StartElection(n) PROVE VoteRemembered' /\ VoteOnce'
  <2> DEFINE t == m_currentTerm[n] + 1
  <2>1. t \in Nat /\ t > m_currentTerm[n]
    BY DEF VoteInv, IndexInv, TypeOK
  <2>2. /\ m_currentTerm' = [m_currentTerm EXCEPT ![n] = t]
        /\ m_votedFor' = [m_votedFor EXCEPT ![n] = n]
        /\ grants' = grants \cup {<<n, t, n>>}
    BY <1>1 DEF StartElection
  <2> HIDE DEF t
  <2> QED
    BY <2>1, <2>2, VotesWhenGiven
<1>2. ASSUME NEW n \in Node, RecvVote(n) \/ RecvAppend(n)
      PROVE  VoteRemembered' /\ VoteOnce'
  BY <1>2, VotesRecv
<1>3. ASSUME NEW n \in Node,
             Poll(n) \/ StartHeartbeat(n) \/ WinElection(n) \/ LoseElection(n)
               \/ FinishHeartbeat(n) \/ SendRequest(n) \/ SendFails(n)
               \/ RecvFails(n) \/ RecvWrongKind(n)
      PROVE  VoteRemembered' /\ VoteOnce'
  <2>1. UNCHANGED <<m_currentTerm, m_votedFor, grants>>
    BY <1>3 DEF Poll, StartHeartbeat, WinElection, LoseElection, FinishHeartbeat,
                SendRequest, SendFails, RecvFails, RecvWrongKind, TakeReply,
                vars, nodeVars
  <2> QED
    BY <2>1, VotesWhenKept
<1>4. ASSUME NEW p \in Node, ServeOrphan(p) PROVE VoteRemembered' /\ VoteOnce'
  <2>1. PICK o \in orphans : Handle(p, o[2])
    BY <1>4 DEF ServeOrphan
  <2>2. o[2] \in Request
    BY DEF VoteInv, IndexInv, TypeOK
  <2> QED
    BY <2>1, <2>2, VotesHandle
<1>5. ASSUME NEW n \in Node, Restart(n) PROVE FALSE
  BY <1>5 DEF Restart, VoteInv, IndexInv, TypeOK
<1>6. ASSUME NEW n \in Node, NEW cmd \in Command, SubmitLog(n, cmd)
      PROVE  VoteRemembered' /\ VoteOnce'
  BY <1>6, VotesWhenKept DEF SubmitLog
<1>7. ASSUME NEW n \in Node, NEW p \in Node, ServeRequest(n, p)
      PROVE  VoteRemembered' /\ VoteOnce'
  <2>1. <<n, p>> \in Conn /\ reqs[<<n, p>>] # << >> /\ Handle(p, Head(reqs[<<n, p>>]))
    BY <1>7 DEF ServeRequest, Conn
  <2>2. Head(reqs[<<n, p>>]) \in Request
    BY <2>1, HeadRequest DEF VoteInv
  <2> QED
    BY <2>1, <2>2, VotesHandle
<1>8. ASSUME NEW n \in Node, NEW p \in Node, PeerCloses(n, p) \/ CleanupConnection(n, p)
      PROVE  VoteRemembered' /\ VoteOnce'
  BY <1>8, VotesWhenKept DEF PeerCloses, CleanupConnection, nodeVars
<1>9. CASE UNCHANGED vars
  BY <1>9, VotesWhenKept DEF vars, nodeVars
<1> QED
  BY <1>1, <1>2, <1>3, <1>4, <1>5, <1>6, <1>7, <1>8, <1>9 DEF Next, PassStep

(* A freshly constructed cluster satisfies the vote invariant. *)
LEMMA VoteInit == Init => VoteInv
<1>1. Init => VoteRemembered /\ VoteOnce
  BY DEF Init, VoteRemembered, VoteOnce
<1> QED
  BY <1>1, IndexInit DEF VoteInv

(***************************************************************************)
(* As long as no process restarts, no node votes twice in one term,        *)
(* however late, duplicated by retries or orphaned the requests are.       *)
(***************************************************************************)
THEOREM OneVotePerTerm ==
    ASSUME MaxRestarts = 0
    PROVE  Spec => []VoteOnce
<1>1. VoteInv => VoteOnce
  BY DEF VoteInv
<1> QED
  BY <1>1, VoteInit, VoteStep, PTL DEF Spec

(***************************************************************************)
(* While no process restarts, what a node remembers of its votes is right, *)
(* although handleAppendEntries raises the term and keeps m_votedFor.      *)
(***************************************************************************)
THEOREM VotesAreRemembered ==
    ASSUME MaxRestarts = 0 PROVE Spec => []VoteRemembered
<1>1. VoteInv => VoteRemembered
  BY DEF VoteInv
<1> QED
  BY <1>1, VoteInit, VoteStep, PTL DEF Spec

-----------------------------------------------------------------------------
(* Elections are won with real votes *)

(* What the operations on a queue do to the messages in it. *)
LEMMA UnreadMessages ==
    ASSUME NEW S, NEW queue \in Seq(S)
    PROVE  /\ Unread(<< >>) = {}
           /\ queue # << >> => /\ Head(queue) \in Unread(queue)
                               /\ Unread(Tail(queue)) \subseteq Unread(queue)
           /\ \A x \in S : Unread(Append(queue, x)) \subseteq Unread(queue) \cup {x}
<1>1. Unread(<< >>) = {}
  BY DEF Unread
<1>2. ASSUME queue # << >>
      PROVE  Head(queue) \in Unread(queue) /\ Unread(Tail(queue)) \subseteq Unread(queue)
  <2>1. /\ Len(Tail(queue)) = Len(queue) - 1 /\ Len(queue) \in Nat
        /\ \A k \in 1..Len(Tail(queue)) : Tail(queue)[k] = queue[k + 1]
    BY <1>2, HeadTailProperties
  <2>2. 1 \in 1..Len(queue) /\ Head(queue) = queue[1]
    BY <1>2
  <2>3. \A k \in 1..Len(Tail(queue)) : k + 1 \in 1..Len(queue)
    BY <2>1
  <2> QED
    BY <2>1, <2>2, <2>3 DEF Unread
<1>3. ASSUME NEW x \in S PROVE Unread(Append(queue, x)) \subseteq Unread(queue) \cup {x}
  <2>1. /\ Len(Append(queue, x)) = Len(queue) + 1 /\ Len(queue) \in Nat
        /\ \A k \in 1..Len(queue) : Append(queue, x)[k] = queue[k]
        /\ Append(queue, x)[Len(queue) + 1] = x
    BY AppendProperties
  <2>2. \A k \in 1..Len(Append(queue, x)) : k \in 1..Len(queue) \/ k = Len(queue) + 1
    BY <2>1
  <2> QED
    BY <2>1, <2>2 DEF Unread
<1> QED
  BY <1>1, <1>2, <1>3

(* What every step does to votes and terms, but for the restarted nodes R. *)
TermsGrow(R) ==
    /\ grants \subseteq grants'
    /\ \A n \in Node : m_currentTerm'[n] \in Nat
    /\ \A n \in Node \ R : m_currentTerm'[n] >= m_currentTerm[n]

(* Votes given stay given, and the winner's term does not go back. *)
LEMMA VotersGrow ==
    ASSUME IndexInv, NEW R, TermsGrow(R), NEW n \in Node \ R
    PROVE  VotersOf(n) \subseteq VotersOf(n)'
<1>1. /\ m_currentTerm[n] \in Nat /\ m_currentTerm'[n] \in Nat
      /\ m_currentTerm'[n] >= m_currentTerm[n] /\ grants \subseteq grants'
      /\ \A g \in grants : g[2] \in Nat
  BY DEF TermsGrow, IndexInv, TypeOK
<1>2. ASSUME NEW g \in grants, g[2] <= m_currentTerm[n] PROVE g[2] <= m_currentTerm'[n]
  BY <1>1, <1>2
<1> QED
  BY <1>1, <1>2 DEF VotersOf, VotersUpTo

(* No connection gets a message; those of a restarted node are gone. *)
OnlyRemoves(R) ==
    \A c \in Conn :
       /\ c[1] \in R => Unread(reqs'[c]) = {} /\ Unread(reps'[c]) = {}
       /\ Unread(reqs'[c]) \subseteq Unread(reqs[c])
       /\ Unread(reps'[c]) \subseteq Unread(reps[c])

(* A request that stays asks for its owner, a vote that stays was given. *)
LEMMA BallotsStay ==
    ASSUME IndexInv, ConnBallots, NEW R, TermsGrow(R), NEW c \in Conn, c[1] \notin R
    PROVE  /\ \A r \in Unread(reqs[c]) : AsksForOwner(c, r)'
           /\ \A r \in Unread(reps[c]) : BringsVote(c, r)'
<1>1. c[1] \in Node \ R /\ c \in Conn
  BY DEF Conn
<1>2. VotersOf(c[1]) \subseteq VotersOf(c[1])'
  <2>1. PICK n \in Node \ R : n = c[1]
    BY <1>1
  <2> QED
    BY <2>1, VotersGrow
<1>3. /\ m_currentTerm[c[1]] \in Nat /\ m_currentTerm'[c[1]] \in Nat
      /\ m_currentTerm'[c[1]] >= m_currentTerm[c[1]]
  BY <1>1 DEF TermsGrow, IndexInv, TypeOK
<1>4. ASSUME NEW r \in Unread(reqs[c]) PROVE AsksForOwner(c, r)'
  <2>1. r \in Request /\ AsksForOwner(c, r)
    BY DEF ConnBallots, Unread, IndexInv, TypeOK
  <2>2. r.term \in Nat
    BY <2>1, RequestTypes
  <2> QED
    BY <1>3, <2>1, <2>2 DEF AsksForOwner
<1>5. ASSUME NEW r \in Unread(reps[c]) PROVE BringsVote(c, r)'
  BY <1>2 DEF ConnBallots, BringsVote
<1> QED
  BY <1>4, <1>5

LEMMA BallotsWhenRemoved ==
    ASSUME IndexInv, ConnBallots, NEW R, TermsGrow(R), OnlyRemoves(R)
    PROVE  ConnBallots'
<1> SUFFICES ASSUME NEW c \in Conn
             PROVE  /\ \A r \in Unread(reqs'[c]) : AsksForOwner(c, r)'
                    /\ \A r \in Unread(reps'[c]) : BringsVote(c, r)'
  BY DEF ConnBallots
<1>1. CASE c[1] \in R
  BY <1>1 DEF OnlyRemoves
<1>2. CASE c[1] \notin R
  BY <1>2, BallotsStay DEF OnlyRemoves
<1> QED
  BY <1>1, <1>2

(* The votes counted so far stay votes. *)
LEMMA CountWhenKept ==
    ASSUME IndexInv, BallotInv, NEW R, TermsGrow(R), NEW n \in Node,
           \/ holder'[n] # "election"
           \/ /\ n \notin R /\ holder'[n] = holder[n] /\ votes'[n] = votes[n]
              /\ m_currentTerm'[n] = m_currentTerm[n]
    PROVE  CountsVotes(n)'
<1>1. CASE holder'[n] # "election"
  BY <1>1 DEF CountsVotes
<1>2. CASE /\ n \notin R /\ holder'[n] = holder[n] /\ votes'[n] = votes[n]
           /\ m_currentTerm'[n] = m_currentTerm[n]
  <2>1. VotersOf(n) \subseteq VotersOf(n)'
    BY <1>2, VotersGrow
  <2>2. CountsVotes(n) /\ grants \subseteq grants'
    BY DEF BallotInv, TermsGrow
  <2> QED
    BY <1>2, <2>1, <2>2 DEF CountsVotes
<1> QED
  BY <1>1, <1>2

(* The quorum of startElection is a number. *)
LEMMA MajorityType ==
    ASSUME NEW n \in Node PROVE Majority(n) \in Nat
<1>1. PICK k \in Nat : k = Len(Peers[n])
  BY PeerCount
<1>2. (k + 1) \div 2 + 1 \in Nat
  OBVIOUS
<1> QED
  BY <1>1, <1>2 DEF Majority

(* An election that was won stays won with the votes it was won with. *)
LEMMA WonWhenKept ==
    ASSUME IndexInv, BallotInv, grants \subseteq grants', NEW e \in elected
    PROVE  /\ <<e[2], e[1], e[2]>> \in grants'
           /\ (Cardinality(VotersUpTo(e[2], e[1])) >= Majority(e[2]))'
<1>1. PICK t \in Nat, w \in Node : e[1] = t /\ e[2] = w
  <2>1. e \in Nat \X Node
    BY DEF IndexInv, TypeOK
  <2> QED
    BY <2>1
<1>2. /\ VotersUpTo(w, t) \subseteq VotersUpTo(w, t)'
      /\ VotersUpTo(w, t)' \subseteq Node
  BY DEF VotersUpTo
<1>3. PICK Q \in SUBSET Node : Q = VotersUpTo(w, t)
  BY DEF VotersUpTo
<1>4. PICK P \in SUBSET Node : P = VotersUpTo(w, t)'
  BY <1>2
<1>5. IsFiniteSet(P) /\ IsFiniteSet(Q)
  BY NodeAssumption, FS_Subset
<1>6. /\ Cardinality(Q) \in Nat /\ Cardinality(P) \in Nat
      /\ Cardinality(Q) <= Cardinality(P)
  BY <1>2, <1>3, <1>4, <1>5, FS_Subset, FS_CardinalityType
<1>7. Majority(w) \in Nat /\ Cardinality(Q) >= Majority(w)
  <2>1. Majority(w) \in Nat
    BY MajorityType
  <2> QED
    BY <1>1, <1>3, <2>1 DEF BallotInv, WonWithVotes
<1>8. Cardinality(P) >= Majority(w)
  BY ONLY <1>6, <1>7
<1>9. <<w, t, w>> \in grants
  BY <1>1 DEF BallotInv, WinnersVote
<1> QED
  BY <1>1, <1>4, <1>8, <1>9

LEMMA ElectionsWhenKept ==
    ASSUME IndexInv, BallotInv, grants \subseteq grants', elected' = elected
    PROVE  WinnersVote' /\ WonWithVotes'
BY WonWhenKept DEF WinnersVote, WonWithVotes

(***************************************************************************)
(* Steps that send nothing, win nothing and count nothing.                 *)
(***************************************************************************)
LEMMA BallotWhenKept ==
    ASSUME IndexInv, BallotInv, NEW R, TermsGrow(R), OnlyRemoves(R),
           elected' = elected,
           \A n \in Node :
              \/ holder'[n] # "election"
              \/ /\ n \notin R /\ holder'[n] = holder[n] /\ votes'[n] = votes[n]
                 /\ m_currentTerm'[n] = m_currentTerm[n]
    PROVE  BallotInv'
<1>1. ConnBallots'
  BY BallotsWhenRemoved DEF BallotInv
<1>2. \A n \in Node : CountsVotes(n)'
  BY CountWhenKept
<1>3. WinnersVote' /\ WonWithVotes'
  BY ElectionsWhenKept DEF TermsGrow
<1> QED
  BY <1>1, <1>2, <1>3 DEF BallotInv

(* startElection begins with the candidate's own vote. *)
LEMMA BallotStartElection ==
    ASSUME IndexInv, BallotInv, NEW n \in Node, StartElection(n), TermsGrow({})
    PROVE  BallotInv'
<1>1. /\ m_currentTerm \in [Node -> Nat] /\ votes \in [Node -> SUBSET Node]
      /\ holder \in [Node -> {"free", "election", "heartbeat"}]
  BY DEF IndexInv, TypeOK
<1>2. /\ m_currentTerm' = [m_currentTerm EXCEPT ![n] = m_currentTerm[n] + 1]
      /\ grants' = grants \cup {<<n, m_currentTerm[n] + 1, n>>}
      /\ holder' = [holder EXCEPT ![n] = "election"]
      /\ votes' = [votes EXCEPT ![n] = {n}]
      /\ UNCHANGED <<connVars, elected>>
  BY DEF StartElection
<1>3. ConnBallots'
  <2>1. OnlyRemoves({})
    BY <1>2 DEF OnlyRemoves, connVars
  <2> QED
    BY <2>1, BallotsWhenRemoved DEF BallotInv
<1>4. CountsVotes(n)'
  <2>1. PICK t \in Nat : t = m_currentTerm[n] + 1
    BY <1>1
  <2>2. m_currentTerm'[n] = t /\ votes'[n] = {n} /\ <<n, t, n>> \in grants' /\ t <= t
    BY <1>1, <1>2, <2>1
  <2>3. n \in VotersUpTo(n, t)'
    BY <2>2 DEF VotersUpTo
  <2> QED
    BY <2>2, <2>3 DEF CountsVotes, VotersOf
<1>5. ASSUME NEW m \in Node PROVE CountsVotes(m)'
  <2>1. CASE m = n
    BY <1>4, <2>1
  <2>2. CASE m # n
    BY <1>1, <1>2, <2>2, CountWhenKept
  <2> QED
    BY <2>1, <2>2
<1>6. WinnersVote' /\ WonWithVotes'
  BY <1>2, ElectionsWhenKept
<1> QED
  BY <1>3, <1>5, <1>6 DEF BallotInv

(* The winner's count is a majority of real votes, its own among them. *)
LEMMA BallotWin ==
    ASSUME IndexInv, BallotInv, NEW n \in Node, WinElection(n), TermsGrow({})
    PROVE  BallotInv'
<1>1. /\ m_currentTerm \in [Node -> Nat] /\ votes \in [Node -> SUBSET Node]
      /\ holder \in [Node -> {"free", "election", "heartbeat"}]
      /\ elected \subseteq Nat \X Node
  BY DEF IndexInv, TypeOK
<1>2. /\ holder[n] = "election" /\ Cardinality(votes[n]) >= Majority(n)
      /\ elected' = elected \cup {<<m_currentTerm[n], n>>}
      /\ holder' = [holder EXCEPT ![n] = "free"]
      /\ votes' = [votes EXCEPT ![n] = {}]
      /\ UNCHANGED <<connVars, m_currentTerm, grants>>
  BY DEF WinElection, ElectionOver, Won, Unlock
<1>3. ConnBallots'
  <2>1. OnlyRemoves({})
    BY <1>2 DEF OnlyRemoves, connVars
  <2> QED
    BY <2>1, BallotsWhenRemoved DEF BallotInv
<1>4. ASSUME NEW m \in Node PROVE CountsVotes(m)'
  <2>1. CASE m = n
    BY <1>1, <1>2, <2>1, CountWhenKept
  <2>2. CASE m # n
    BY <1>1, <1>2, <2>2, CountWhenKept
  <2> QED
    BY <2>1, <2>2
<1>5. PICK t \in Nat : t = m_currentTerm[n]
  BY <1>1
<1>6. /\ votes[n] \subseteq VotersUpTo(n, t) /\ <<n, t, n>> \in grants
  BY <1>2, <1>5 DEF BallotInv, CountsVotes, VotersOf
<1>7. Cardinality(VotersUpTo(n, t)) >= Majority(n)
  <2>1. VotersUpTo(n, t) \subseteq Node
    BY DEF VotersUpTo
  <2>2. IsFiniteSet(VotersUpTo(n, t)) /\ IsFiniteSet(votes[n])
    BY <1>6, <2>1, NodeAssumption, FS_Subset
  <2>3. /\ Cardinality(votes[n]) \in Nat /\ Cardinality(VotersUpTo(n, t)) \in Nat
        /\ Cardinality(votes[n]) <= Cardinality(VotersUpTo(n, t))
    BY <1>6, <2>2, FS_Subset, FS_CardinalityType
  <2>4. Majority(n) \in Nat
    BY MajorityType
  <2> QED
    BY ONLY <1>2, <2>3, <2>4
<1>8. VotersUpTo(n, t)' = VotersUpTo(n, t)
  BY <1>2 DEF VotersUpTo
<1>9. ASSUME NEW e \in elected'
      PROVE  /\ <<e[2], e[1], e[2]>> \in grants'
             /\ (Cardinality(VotersUpTo(e[2], e[1])) >= Majority(e[2]))'
  <2>1. CASE e \in elected
    BY <1>2, <2>1, WonWhenKept
  <2>2. CASE e = <<t, n>>
    BY <1>2, <1>6, <1>7, <1>8, <2>2
  <2> QED
    BY <1>2, <1>5, <2>1, <2>2
<1> QED
  BY <1>3, <1>4, <1>9 DEF BallotInv, WinnersVote, WonWithVotes

(* A candidate asks for its own vote, in its present term. *)
LEMMA BallotSendRequest ==
    ASSUME IndexInv, BallotInv, NEW n \in Node, SendRequest(n), TermsGrow({})
    PROVE  BallotInv'
<1>1. PICK c \in Conn : c = CurrentConn(n) /\ c[1] = n
  BY CurrentPeerType DEF SendRequest
<1>2. PICK x \in Request : x = RequestTo(n, CurrentPeer(n))
  <2>1. RequestTo(n, CurrentPeer(n)) \in Request
    BY CurrentPeerType, RequestToType DEF SendRequest, InCall
  <2> QED
    BY <2>1
<1>3. /\ reqs' = reqs \/ reqs' = [reqs EXCEPT ![c] = Append(reqs[c], x)]
      /\ UNCHANGED <<m_currentTerm, holder, votes, reps, elected, grants>>
  BY <1>1, <1>2 DEF SendRequest, nodeVars
<1>4. AsksForOwner(c, x)'
  <2>1. CASE holder[n] = "election"
    <3>1. x.candidateId = n /\ x.term = m_currentTerm[n] /\ m_currentTerm[n] \in Nat
      BY <1>2, <2>1 DEF RequestTo, VoteRequest, IndexInv, TypeOK
    <3>2. x.term <= m_currentTerm'[n]
      BY <1>3, <3>1
    <3> QED
      BY <1>1, <3>1, <3>2 DEF AsksForOwner
  <2>2. CASE holder[n] # "election"
    <3>1. x.type # "RequestVote"
      BY <1>2, <2>2 DEF RequestTo, AppendRequest
    <3> QED
      BY <3>1 DEF AsksForOwner
  <2> QED
    BY <2>1, <2>2
<1>5. reqs \in [Conn -> Seq(Request)]
  BY DEF IndexInv, TypeOK
<1>6. ASSUME NEW d \in Conn
      PROVE  /\ \A r \in Unread(reqs'[d]) : AsksForOwner(d, r)'
             /\ \A r \in Unread(reps'[d]) : BringsVote(d, r)'
  <2>1. /\ \A r \in Unread(reqs[d]) : AsksForOwner(d, r)'
        /\ \A r \in Unread(reps[d]) : BringsVote(d, r)'
    BY BallotsStay DEF BallotInv
  <2>2. reqs'[d] = reqs[d] \/ (d = c /\ reqs'[d] = Append(reqs[d], x))
    BY <1>3, <1>5
  <2>3. Unread(Append(reqs[d], x)) \subseteq Unread(reqs[d]) \cup {x}
    BY <1>5, UnreadMessages
  <2> QED
    BY <1>3, <1>4, <2>1, <2>2, <2>3
<1>7. ConnBallots'
  BY <1>6 DEF ConnBallots
<1>8. \A m \in Node : CountsVotes(m)'
  BY <1>3, CountWhenKept
<1>9. WinnersVote' /\ WonWithVotes'
  BY <1>3, ElectionsWhenKept
<1> QED
  BY <1>7, <1>8, <1>9 DEF BallotInv

(* A reply is read, or lost: the others stay in the connection. *)
LEMMA ReplyRemoved ==
    ASSUME IndexInv, NEW c \in Conn, reqs' = reqs,
           \/ reps' = [reps EXCEPT ![c] = reps[c]]
           \/ reps[c] # << >> /\ reps' = [reps EXCEPT ![c] = Tail(reps[c])]
    PROVE  OnlyRemoves({})
<1> SUFFICES ASSUME NEW d \in Conn PROVE Unread(reps'[d]) \subseteq Unread(reps[d])
  BY DEF OnlyRemoves
<1>1. reps \in [Conn -> Seq(Reply)] /\ reps[d] \in Seq(Reply)
  BY DEF IndexInv, TypeOK
<1>2. reps'[d] = reps[d] \/ (reps[d] # << >> /\ reps'[d] = Tail(reps[d]))
  BY <1>1
<1> QED
  BY <1>1, <1>2, UnreadMessages

(* recvMessage fails. *)
LEMMA BallotRecvFails ==
    ASSUME IndexInv, BallotInv, NEW n \in Node, RecvFails(n), TermsGrow({})
    PROVE  BallotInv'
<1>1. PICK c \in Conn : c = CurrentConn(n)
  BY CurrentPeerType DEF RecvFails
<1>2. /\ \/ reps' = [reps EXCEPT ![c] = reps[c]]
         \/ reps[c] # << >> /\ reps' = [reps EXCEPT ![c] = Tail(reps[c])]
      /\ UNCHANGED <<m_currentTerm, holder, votes, reqs, elected>>
  BY <1>1 DEF RecvFails, releaseConnection, nodeVars
<1>3. OnlyRemoves({})
  BY <1>2, ReplyRemoved
<1> QED
  BY <1>2, <1>3, BallotWhenKept

(* A vote that startElection reads was given to the candidate. *)
LEMMA BallotRecvVote ==
    ASSUME IndexInv, BallotInv, NEW n \in Node, TermsGrow({}),
           TakeReply(n), holder[n] = "election", VoteReceived(n),
           TheReply(n).type = "RequestVoteReply", TheReply(n).voteGranted
    PROVE  BallotInv'
<1>1. PICK c \in Conn, p \in Node : c = CurrentConn(n) /\ p = CurrentPeer(n) /\ c = <<n, p>>
  BY CurrentPeerType DEF TakeReply
<1>2. /\ reps[c] # << >> /\ reps' = [reps EXCEPT ![c] = Tail(reps[c])]
      /\ votes' = [votes EXCEPT ![n] = votes[n] \cup {p}]
      /\ UNCHANGED <<m_currentTerm, holder, reqs, elected, grants>>
  BY <1>1 DEF TakeReply, releaseConnection, VoteReceived
<1>3. OnlyRemoves({})
  BY <1>2, ReplyRemoved
<1>4. p \in VotersOf(n)
  <2>1. reps[c] \in Seq(Reply)
    BY DEF IndexInv, TypeOK
  <2>2. Head(reps[c]) \in Unread(reps[c])
    BY <1>2, <2>1, UnreadMessages
  <2>3. BringsVote(c, Head(reps[c]))
    BY <2>2 DEF BallotInv, ConnBallots
  <2>4. Head(reps[c]).type = "RequestVoteReply" /\ Head(reps[c]).voteGranted
    BY <1>1 DEF TheReply
  <2> QED
    BY <1>1, <2>3, <2>4 DEF BringsVote
<1>5. votes \in [Node -> SUBSET Node]
  BY DEF IndexInv, TypeOK
<1>6. CountsVotes(n)'
  <2>1. VotersOf(n) \subseteq VotersOf(n)'
    BY VotersGrow
  <2>2. CountsVotes(n)
    BY DEF BallotInv
  <2> QED
    BY <1>2, <1>4, <1>5, <2>1, <2>2 DEF CountsVotes
<1>7. ASSUME NEW m \in Node PROVE CountsVotes(m)'
  <2>1. CASE m = n
    BY <1>6, <2>1
  <2>2. CASE m # n
    BY <1>2, <1>5, <2>2, CountWhenKept
  <2> QED
    BY <2>1, <2>2
<1>8. ConnBallots'
  BY <1>3, BallotsWhenRemoved DEF BallotInv
<1>9. WinnersVote' /\ WonWithVotes'
  BY <1>2, ElectionsWhenKept
<1> QED
  BY <1>7, <1>8, <1>9 DEF BallotInv

(* Every other reply ends the call, or the pass. *)
LEMMA BallotRecv ==
    ASSUME IndexInv, BallotInv, NEW n \in Node, TermsGrow({}),
           RecvWrongKind(n) \/ RecvVote(n) \/ RecvAppend(n)
    PROVE  BallotInv'
<1>1. TakeReply(n)
  BY DEF RecvWrongKind, RecvVote, RecvAppend
<1>2. PICK c \in Conn : c = CurrentConn(n)
  BY <1>1, CurrentPeerType DEF TakeReply
<1>3. /\ reps[c] # << >> /\ reps' = [reps EXCEPT ![c] = Tail(reps[c])]
      /\ UNCHANGED <<reqs, elected>>
  BY <1>1, <1>2 DEF TakeReply, releaseConnection
<1>4. OnlyRemoves({})
  BY <1>3, ReplyRemoved
<1>5. CASE UNCHANGED <<m_currentTerm, holder, votes>>
  BY <1>3, <1>4, <1>5, BallotWhenKept
<1>6. CASE StepDown(n, TheReply(n).term)
  <2>1. /\ holder \in [Node -> {"free", "election", "heartbeat"}]
        /\ votes \in [Node -> SUBSET Node] /\ m_currentTerm \in [Node -> Nat]
    BY DEF IndexInv, TypeOK
  <2>2. /\ holder' = [holder EXCEPT ![n] = "free"] /\ votes' = [votes EXCEPT ![n] = {}]
        /\ m_currentTerm' = [m_currentTerm EXCEPT ![n] = TheReply(n).term]
    BY <1>6 DEF StepDown, Unlock
  <2>3. \A m \in Node :
           \/ holder'[m] # "election"
           \/ /\ m \notin {} /\ holder'[m] = holder[m] /\ votes'[m] = votes[m]
              /\ m_currentTerm'[m] = m_currentTerm[m]
    BY <2>1, <2>2
  <2> QED
    BY <1>3, <1>4, <2>3, BallotWhenKept
<1>7. CASE /\ VoteReceived(n) /\ holder[n] = "election"
           /\ TheReply(n).type = "RequestVoteReply" /\ TheReply(n).voteGranted
  BY <1>1, <1>7, BallotRecvVote
<1> QED
  BY <1>5, <1>6, <1>7
     DEF RecvWrongKind, RecvVote, RecvAppend, VoteRefused,
         AppendAccepted, AppendOutdated, AppendMismatch, nodeVars

(* A handler runs while no pass does: nothing is being counted. *)
LEMMA CountWhenHandled ==
    ASSUME IndexInv, BallotInv, TermsGrow({}), NEW p \in Node, holder[p] = "free",
           UNCHANGED passVars, NEW a \in Request, Handle(p, a)
    PROVE  \A m \in Node : CountsVotes(m)'
<1>1. m_currentTerm \in [Node -> Nat]
  BY DEF IndexInv, TypeOK
<1>2. \/ m_currentTerm' = m_currentTerm
      \/ m_currentTerm' = [m_currentTerm EXCEPT ![p] = a.term]
  BY DEF Handle, handleRequestVote, handleAppendEntries
<1> SUFFICES ASSUME NEW m \in Node PROVE CountsVotes(m)'
  OBVIOUS
<1>3. CASE m = p
  BY <1>3, CountWhenKept DEF passVars
<1>4. CASE m # p
  BY <1>1, <1>2, <1>4, CountWhenKept DEF passVars
<1> QED
  BY <1>3, <1>4

(* A granted reply goes to the candidate, whose vote it is. *)
LEMMA BallotServeRequest ==
    ASSUME IndexInv, BallotInv, NEW n \in Node, NEW p \in Node, ServeRequest(n, p),
           TermsGrow({})
    PROVE  BallotInv'
<1>1. PICK c \in Conn : c = <<n, p>> /\ c[1] = n /\ c[2] = p
  <2>1. <<n, p>> \in Conn /\ <<n, p>>[1] = n /\ <<n, p>>[2] = p
    BY DEF Conn
  <2> QED
    BY <2>1
<1>2. reqs \in [Conn -> Seq(Request)] /\ reps \in [Conn -> Seq(Reply)]
  BY DEF IndexInv, TypeOK
<1>3. reqs[c] # << >> /\ Head(reqs[c]) \in Request
  BY <1>1, HeadRequest DEF ServeRequest
<1>4. PICK a \in Request : a = Head(reqs[c])
  BY <1>3
<1>5. PICK x \in Reply : x = ReplyTo(p, a)
  <2>1. ReplyTo(p, a) \in Reply
    BY ReplyToType
  <2> QED
    BY <2>1
<1>6. /\ holder[p] = "free" /\ Handle(p, a)
      /\ reqs' = [reqs EXCEPT ![c] = Tail(reqs[c])]
      /\ reps' = [reps EXCEPT ![c] = Append(reps[c], x)]
      /\ UNCHANGED <<passVars, elected>>
  BY <1>1, <1>4, <1>5 DEF ServeRequest
<1>7. AsksForOwner(c, a)
  <2>1. a \in Unread(reqs[c])
    BY <1>2, <1>3, <1>4, UnreadMessages
  <2> QED
    BY <2>1 DEF BallotInv, ConnBallots
<1>8. BringsVote(c, x)'
  <2> SUFFICES ASSUME x.type = "RequestVoteReply", x.voteGranted
               PROVE  c[2] \in VotersOf(c[1])'
    BY DEF BringsVote
  <2>1. a.type = "RequestVote" /\ VoteGranted(p, a)
    BY <1>5 DEF ReplyTo, RequestVoteReplyTo, AppendEntriesReplyTo
  <2>2. a.term \in Nat /\ a.candidateId = n /\ a.term <= m_currentTerm[n]
    BY <1>1, <1>7, <2>1, RequestTypes DEF AsksForOwner
  <2>3. <<p, a.term, n>> \in grants'
    BY <1>6, <2>1, <2>2 DEF Handle, handleRequestVote
  <2>4. a.term <= m_currentTerm'[n]
    <3>1. /\ m_currentTerm[n] \in Nat /\ m_currentTerm'[n] \in Nat
          /\ m_currentTerm'[n] >= m_currentTerm[n]
      BY DEF TermsGrow, IndexInv, TypeOK
    <3> QED
      BY <2>2, <3>1
  <2>5. p \in VotersOf(n)'
    BY <2>3, <2>4 DEF VotersOf, VotersUpTo
  <2> QED
    BY <1>1, <2>5
<1>9. ASSUME NEW d \in Conn
      PROVE  /\ \A r \in Unread(reqs'[d]) : AsksForOwner(d, r)'
             /\ \A r \in Unread(reps'[d]) : BringsVote(d, r)'
  <2>1. /\ \A r \in Unread(reqs[d]) : AsksForOwner(d, r)'
        /\ \A r \in Unread(reps[d]) : BringsVote(d, r)'
    BY BallotsStay DEF BallotInv
  <2>2. CASE d = c
    <3>1. reqs'[d] = Tail(reqs[d]) /\ reps'[d] = Append(reps[d], x) /\ reqs[d] # << >>
      BY <1>2, <1>3, <1>6, <2>2
    <3>2. Unread(reqs'[d]) \subseteq Unread(reqs[d])
      BY <1>2, <3>1, UnreadMessages
    <3>3. Unread(reps'[d]) \subseteq Unread(reps[d]) \cup {x}
      BY <1>2, <3>1, UnreadMessages
    <3> QED
      BY <1>8, <2>1, <2>2, <3>2, <3>3
  <2>3. CASE d # c
    BY <1>2, <1>6, <2>1, <2>3
  <2> QED
    BY <2>2, <2>3
<1>10. \A m \in Node : CountsVotes(m)'
  BY <1>6, CountWhenHandled
<1>11. WinnersVote' /\ WonWithVotes'
  BY <1>6, ElectionsWhenKept DEF TermsGrow
<1> QED
  BY <1>9, <1>10, <1>11 DEF BallotInv, ConnBallots

(* The same for a request whose caller has gone: the reply goes nowhere. *)
LEMMA BallotServeOrphan ==
    ASSUME IndexInv, BallotInv, NEW p \in Node, ServeOrphan(p), TermsGrow({})
    PROVE  BallotInv'
<1>1. PICK o \in orphans : o[1] = p /\ Handle(p, o[2])
  BY DEF ServeOrphan
<1>2. PICK a \in Request : a = o[2]
  BY DEF IndexInv, TypeOK
<1>3. holder[p] = "free" /\ UNCHANGED <<passVars, reqs, reps, elected>>
  BY DEF ServeOrphan
<1>4. ConnBallots'
  <2>1. OnlyRemoves({})
    BY <1>3 DEF OnlyRemoves
  <2> QED
    BY <2>1, BallotsWhenRemoved DEF BallotInv
<1>5. \A m \in Node : CountsVotes(m)'
  BY <1>1, <1>2, <1>3, CountWhenHandled
<1>6. WinnersVote' /\ WonWithVotes'
  BY <1>3, ElectionsWhenKept DEF TermsGrow
<1> QED
  BY <1>4, <1>5, <1>6 DEF BallotInv

(* Connections come and go. *)
LEMMA BallotConnections ==
    ASSUME IndexInv, BallotInv, NEW n \in Node, NEW p \in Node,
           PeerCloses(n, p) \/ CleanupConnection(n, p), TermsGrow({})
    PROVE  BallotInv'
<1>1. PICK c \in Conn : c = <<n, p>>
  BY DEF Conn
<1>2. /\ reqs' = [reqs EXCEPT ![c] = << >>]
      /\ reps' = reps \/ reps' = [reps EXCEPT ![c] = << >>]
      /\ UNCHANGED <<m_currentTerm, holder, votes, elected>>
  BY <1>1 DEF PeerCloses, CleanupConnection, nodeVars, passVars
<1>3. reqs \in [Conn -> Seq(Request)] /\ reps \in [Conn -> Seq(Reply)]
  BY DEF IndexInv, TypeOK
<1>4. \A d \in Conn : /\ reqs'[d] = reqs[d] \/ reqs'[d] = << >>
                      /\ reps'[d] = reps[d] \/ reps'[d] = << >>
  BY <1>2, <1>3
<1>5. OnlyRemoves({})
  <2>1. Unread(<< >>) = {}
    BY DEF Unread
  <2> QED
    BY <1>4, <2>1 DEF OnlyRemoves
<1> QED
  BY <1>2, <1>5, BallotWhenKept

(* A restarted process has new connections, and forgets its term. *)
LEMMA BallotRestart ==
    ASSUME IndexInv, BallotInv, NEW r \in Node, Restart(r), TermsGrow({r})
    PROVE  BallotInv'
<1>1. /\ reqs' = [c \in Conn |-> IF r \in {c[1], c[2]} THEN << >> ELSE reqs[c]]
      /\ reps' = [c \in Conn |-> IF c[1] = r THEN << >> ELSE reps[c]]
      /\ m_currentTerm' = [m_currentTerm EXCEPT ![r] = 0]
      /\ holder' = [holder EXCEPT ![r] = "free"]
      /\ votes' = [votes EXCEPT ![r] = {}] /\ UNCHANGED elected
  BY DEF Restart, Unlock
<1>2. OnlyRemoves({r})
  <2>1. Unread(<< >>) = {}
    BY DEF Unread
  <2>2. \A c \in Conn : /\ c[1] = r => reqs'[c] = << >> /\ reps'[c] = << >>
                        /\ reqs'[c] = reqs[c] \/ reqs'[c] = << >>
                        /\ reps'[c] = reps[c] \/ reps'[c] = << >>
    BY <1>1
  <2> QED
    BY <2>1, <2>2 DEF OnlyRemoves
<1>3. \A m \in Node :
         \/ holder'[m] # "election"
         \/ /\ m \notin {r} /\ holder'[m] = holder[m] /\ votes'[m] = votes[m]
            /\ m_currentTerm'[m] = m_currentTerm[m]
  BY <1>1 DEF IndexInv, TypeOK
<1> QED
  BY <1>1, <1>2, <1>3, BallotWhenKept

(* The rest of a pass, and commands that come in. *)
LEMMA BallotOther ==
    ASSUME IndexInv, BallotInv, TermsGrow({}), NEW n \in Node,
           \/ Poll(n) \/ StartHeartbeat(n) \/ LoseElection(n) \/ FinishHeartbeat(n)
           \/ SendFails(n) \/ UNCHANGED vars
           \/ \E cmd \in Command : SubmitLog(n, cmd)
    PROVE  BallotInv'
<1>1. UNCHANGED <<m_currentTerm, reqs, reps, elected>>
  BY DEF Poll, StartHeartbeat, LoseElection, FinishHeartbeat, SendFails,
         SubmitLog, vars, nodeVars, connVars
<1>2. \/ UNCHANGED <<holder, votes>>
      \/ holder' = [holder EXCEPT ![n] = "free"] /\ votes' = [votes EXCEPT ![n] = {}]
      \/ holder' = [holder EXCEPT ![n] = "heartbeat"] /\ votes' = votes
  BY DEF Poll, StartHeartbeat, LoseElection, FinishHeartbeat, SendFails,
         SubmitLog, Unlock, vars, passVars
<1>3. OnlyRemoves({})
  BY <1>1 DEF OnlyRemoves
<1>4. \A m \in Node :
         \/ holder'[m] # "election"
         \/ /\ m \notin {} /\ holder'[m] = holder[m] /\ votes'[m] = votes[m]
            /\ m_currentTerm'[m] = m_currentTerm[m]
  BY <1>1, <1>2 DEF IndexInv, TypeOK
<1> QED
  BY <1>1, <1>3, <1>4, BallotWhenKept

(* A vote that was given stays given. *)
LEMMA GrantsKept ==
    ASSUME [Next]_vars PROVE grants \subseteq grants'
<1>1. ASSUME NEW p \in Node, NEW a, Handle(p, a) PROVE grants \subseteq grants'
  BY <1>1 DEF Handle, handleRequestVote, handleAppendEntries
<1> QED
  BY <1>1 DEF Next, vars, Poll, StartElection, StartHeartbeat, PassStep, WinElection,
       LoseElection, FinishHeartbeat, SendRequest, SendFails, RecvFails,
       RecvWrongKind, RecvVote, RecvAppend, TakeReply, ServeOrphan, Restart,
       SubmitLog, ServeRequest, PeerCloses, CleanupConnection

(* Every step keeps the ballots, restarts included. *)
LEMMA BallotStep ==
    ASSUME IndexInv, BallotInv, [Next]_vars PROVE BallotInv'
<1>1. grants \subseteq grants' /\ \A n \in Node : m_currentTerm'[n] \in Nat
  <2>1. IndexInv'
    BY IndexStep
  <2> QED
    BY <2>1, GrantsKept DEF IndexInv, TypeOK
<1>2. CASE (\A n \in Node : LivesOn(n)) /\ ~\E r \in Node : Restart(r)
  <2>1. TermsGrow({})
    BY <1>1, <1>2 DEF TermsGrow, LivesOn, TermKept
  <2>2. ASSUME NEW n \in Node, PassStep(n) PROVE BallotInv'
    BY <2>1, <2>2, BallotWin, BallotSendRequest, BallotRecvFails, BallotRecv,
       BallotOther DEF PassStep
  <2>3. ASSUME NEW n \in Node,
               \/ Poll(n) \/ StartElection(n) \/ StartHeartbeat(n) \/ ServeOrphan(n)
               \/ \E cmd \in Command : SubmitLog(n, cmd)
        PROVE  BallotInv'
    BY <2>1, <2>3, BallotStartElection, BallotServeOrphan, BallotOther
  <2>4. ASSUME NEW n \in Node, NEW p \in Node,
               ServeRequest(n, p) \/ PeerCloses(n, p) \/ CleanupConnection(n, p)
        PROVE  BallotInv'
    BY <2>1, <2>4, BallotServeRequest, BallotConnections
  <2>5. CASE UNCHANGED vars
    BY <2>5 DEF BallotInv, ConnBallots, AsksForOwner, BringsVote, CountsVotes,
                WinnersVote, WonWithVotes, VotersOf, VotersUpTo, vars, nodeVars,
                passVars, connVars
  <2> QED
    BY <1>2, <2>2, <2>3, <2>4, <2>5 DEF Next
<1>3. ASSUME NEW r \in Node, Restart(r) PROVE BallotInv'
  <2>1. /\ m_currentTerm \in [Node -> Nat]
        /\ m_currentTerm' = [m_currentTerm EXCEPT ![r] = 0]
    BY <1>3 DEF Restart, IndexInv, TypeOK
  <2>2. TermsGrow({r})
    BY <1>1, <2>1 DEF TermsGrow
  <2> QED
    BY <1>3, <2>2, BallotRestart
<1>4. CASE \E r \in Node : Restart(r)
  BY <1>3, <1>4
<1>5. CASE ~\E r \in Node : Restart(r)
  <2>1. restarts' = restarts
    BY <1>5 DEF Next, vars, Poll, StartElection, StartHeartbeat, PassStep, WinElection,
       LoseElection, FinishHeartbeat, SendRequest, SendFails, RecvFails,
       RecvWrongKind, RecvVote, RecvAppend, TakeReply, ServeOrphan,
       SubmitLog, ServeRequest, PeerCloses, CleanupConnection
  <2>2. ~\E r \in Node : Restarted(r)
    BY <2>1 DEF Restarted
  <2> QED
    BY <1>2, <1>5, <2>2, NodeStep
<1> QED
  BY <1>4, <1>5

LEMMA BallotInit == Init => BallotInv
<1> SUFFICES ASSUME Init PROVE BallotInv
  OBVIOUS
<1>1. ConnBallots
  <2>1. \A c \in Conn : reqs[c] = << >> /\ reps[c] = << >>
    BY DEF Init
  <2>2. Unread(<< >>) = {}
    BY DEF Unread
  <2> QED
    BY <2>1, <2>2 DEF ConnBallots
<1>2. /\ \A n \in Node : CountsVotes(n)
      /\ WinnersVote /\ WonWithVotes
  BY DEF Init, CountsVotes, WinnersVote, WonWithVotes
<1> QED
  BY <1>1, <1>2 DEF BallotInv

(***************************************************************************)
(* For every cluster, with late, spoilt and orphaned messages and with     *)
(* restarts: whoever wins an election was given the votes of a majority of *)
(* its members, in terms up to the one it won.                             *)
(***************************************************************************)
THEOREM ElectionsNeedVotes == Spec => []WonWithVotes
<1>1. IndexInv /\ BallotInv /\ [Next]_vars => IndexInv' /\ BallotInv'
  BY IndexStep, BallotStep
<1>2. IndexInv /\ BallotInv => WonWithVotes
  BY DEF BallotInv
<1> QED
  BY <1>1, <1>2, IndexInit, BallotInit, PTL DEF Spec

-----------------------------------------------------------------------------
(* Two leaders of one term *)

(* In a full mesh the quorum of startElection is a majority of all nodes. *)
LEMMA MajorityOfNodes ==
    ASSUME FullMesh, NEW n \in Node
    PROVE  /\ IsFiniteSet(Node) /\ Cardinality(Node) \in Nat
           /\ Majority(n) = Cardinality(Node) \div 2 + 1
<1>1. {n} \cup PeerSet(n) = Node
  BY DEF FullMesh
<1>2. Cardinality(Node) = Len(Peers[n]) + 1 /\ IsFiniteSet(Node) /\ Len(Peers[n]) \in Nat
  BY <1>1, PeerCount
<1> QED
  BY <1>2 DEF Majority

(* Some node voted for both winners of one term, or of two terms. *)
LEMMA CommonVoter ==
    ASSUME FullMesh, BallotInv, IndexInv, NEW e \in elected, NEW f \in elected
    PROVE  \E v \in Node : v \in VotersUpTo(e[2], e[1]) /\ v \in VotersUpTo(f[2], f[1])
<1>1. e[2] \in Node /\ f[2] \in Node
  <2>1. e \in Nat \X Node /\ f \in Nat \X Node
    BY DEF IndexInv, TypeOK
  <2> QED
    BY <2>1
<1>2. PICK Q \in SUBSET Node : Q = VotersUpTo(e[2], e[1])
  BY DEF VotersUpTo
<1>3. PICK R \in SUBSET Node : R = VotersUpTo(f[2], f[1])
  BY DEF VotersUpTo
<1>4. /\ IsFiniteSet(Node) /\ Cardinality(Node) \in Nat
      /\ Cardinality(Q) \in Nat /\ Cardinality(R) \in Nat
  BY NodeAssumption, FS_CardinalityType, FS_Subset
<1>5. /\ Cardinality(Q) >= Cardinality(Node) \div 2 + 1
      /\ Cardinality(R) >= Cardinality(Node) \div 2 + 1
  BY <1>1, <1>2, <1>3, MajorityOfNodes DEF BallotInv, WonWithVotes
<1>6. Cardinality(Q) + Cardinality(R) > Cardinality(Node)
  BY ONLY <1>4, <1>5
<1>7. PICK v \in Q : v \in R
  BY <1>4, <1>6, FS_MajoritiesIntersect
<1> QED
  BY <1>2, <1>3, <1>7

(***************************************************************************)
(* The common voter voted once per term, so one of its two votes is older  *)
(* than the term; if it is the winner itself, its own vote is not, and the *)
(* one it gave to the other winner is.                                     *)
(***************************************************************************)
LEMMA SplitHasOldVote ==
    ASSUME FullMesh, VoteInv, BallotInv PROVE SplitNeedsOldVote
<1> SUFFICES ASSUME NEW e \in elected, NEW f \in elected, e[1] = f[1], e[2] # f[2]
             PROVE  \E g \in grants :
                       g[2] < e[1] /\ g[3] \in {e[2], f[2]} /\ g[1] # g[3]
  BY DEF SplitNeedsOldVote
<1>1. e[1] \in Nat /\ \A g \in grants : g[2] \in Nat
  <2>1. e \in Nat \X Node /\ grants \subseteq Node \X Nat \X Node
    BY DEF VoteInv, IndexInv, TypeOK
  <2> QED
    BY <2>1
<1>2. PICK v \in Node : v \in VotersUpTo(e[2], e[1]) /\ v \in VotersUpTo(f[2], f[1])
  BY CommonVoter DEF VoteInv
<1>3. PICK g \in grants : g[1] = v /\ g[2] <= e[1] /\ g[3] = e[2]
  BY <1>2 DEF VotersUpTo
<1>4. PICK h \in grants : h[1] = v /\ h[2] <= e[1] /\ h[3] = f[2]
  BY <1>2 DEF VotersUpTo
<1>5. \A x, y \in grants : x[1] = y[1] /\ x[2] = y[2] => x[3] = y[3]
  BY DEF VoteInv, VoteOnce
<1>6. PICK i \in grants : i[1] = e[2] /\ i[2] = e[1] /\ i[3] = e[2]
  <2>1. <<e[2], e[1], e[2]>> \in grants
    BY DEF BallotInv, WinnersVote
  <2> QED
    BY <2>1
<1>7. PICK j \in grants : j[1] = f[2] /\ j[2] = e[1] /\ j[3] = f[2]
  <2>1. <<f[2], f[1], f[2]>> \in grants
    BY DEF BallotInv, WinnersVote
  <2> QED
    BY <2>1
<1>8. CASE v = e[2]
  <2>1. h[2] # e[1]
    BY <1>4, <1>5, <1>6, <1>8
  <2> QED
    BY <1>1, <1>4, <1>8, <2>1
<1>9. CASE v = f[2]
  <2>1. g[2] # e[1]
    BY <1>3, <1>5, <1>7, <1>9
  <2> QED
    BY <1>1, <1>3, <1>9, <2>1
<1>10. CASE v # e[2] /\ v # f[2]
  <2>1. g[2] # e[1] \/ h[2] # e[1]
    BY <1>3, <1>4, <1>5
  <2> QED
    BY <1>1, <1>3, <1>4, <1>10, <2>1
<1> QED
  BY <1>8, <1>9, <1>10

(***************************************************************************)
(* In a full mesh of any size whose processes do not restart, two nodes    *)
(* become leader of one term only when one of them has a vote that another *)
(* node gave it in an earlier term: the stale reply that startElection     *)
(* counts is the only way.                                                 *)
(***************************************************************************)
THEOREM OnlyOldVotesSplitATerm ==
    ASSUME MaxRestarts = 0, FullMesh
    PROVE  Spec => []SplitNeedsOldVote
<1>1. VoteInv /\ BallotInv /\ [Next]_vars => VoteInv' /\ BallotInv'
  <2>1. VoteInv => IndexInv
    BY DEF VoteInv
  <2> QED
    BY <2>1, VoteStep, BallotStep
<1>2. VoteInv /\ BallotInv => SplitNeedsOldVote
  BY SplitHasOldVote
<1> QED
  BY <1>1, <1>2, VoteInit, BallotInit, PTL DEF Spec

=============================================================================
