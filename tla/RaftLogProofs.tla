--------------------------- MODULE RaftLogProofs ----------------------------
(***************************************************************************)
(* Terms, leadership, the log, the commit index and what reaches RocksDB:  *)
(* what may happen to a node of RaftNode in the life of its process.       *)
(***************************************************************************)
EXTENDS RaftNodeProofs

-----------------------------------------------------------------------------
(* What one step does to one node *)

(* The term does not go back, and the vote changes only from empty or with *)
(* the term.                                                               *)
TermKept(n) ==
    /\ m_currentTerm'[n] >= m_currentTerm[n]
    /\ m_currentTerm'[n] > m_currentTerm[n] \/ m_votedFor[n] \in {Nil, m_votedFor'[n]}

(* A leader has been one in this term already, or has just been elected. *)
LeadershipKept(n) ==
    m_state'[n] = "Leader" =>
      \/ m_state[n] = "Leader" /\ m_currentTerm'[n] = m_currentTerm[n]
      \/ <<m_currentTerm'[n], n>> \in elected'

(* Only the leader's submitLog changes a log, at its end. *)
LogKept(n) ==
    \/ m_logs'[n] = m_logs[n]
    \/ /\ m_state[n] = "Leader"
       /\ Len(m_logs[n]) < MaxLog
       /\ \E cmd \in Command :
            m_logs'[n] = Append(m_logs[n], [term |-> m_currentTerm[n], cmd |-> cmd])
       /\ UNCHANGED <<m_currentTerm, m_commitIndex, puts>>

(* The commit index grows together with what is put into RocksDB. *)
CommitKept(n) ==
    \/ m_commitIndex'[n] = m_commitIndex[n] /\ puts'[n] = puts[n]
    \/ /\ m_commitIndex'[n] > m_commitIndex[n]
       /\ puts'[n] = puts[n] \o Commands(m_logs[n], m_commitIndex[n], m_commitIndex'[n])
       /\ m_logs'[n] = m_logs[n]

LivesOn(n) == TermKept(n) /\ LeadershipKept(n) /\ LogKept(n) /\ CommitKept(n)

(* A node whose own variables are left alone lives on. *)
LEMMA LivesOnWhenKept ==
    ASSUME IndexInv, NEW n \in Node,
           m_state'[n] = m_state[n], m_currentTerm'[n] = m_currentTerm[n],
           m_votedFor'[n] = m_votedFor[n], m_logs'[n] = m_logs[n],
           m_commitIndex'[n] = m_commitIndex[n], puts'[n] = puts[n]
    PROVE  LivesOn(n)
<1>1. m_currentTerm[n] \in Nat
  BY DEF IndexInv, TypeOK
<1> QED
  BY <1>1 DEF LivesOn, TermKept, LeadershipKept, LogKept, CommitKept

(* applyCommittedLogs up to a higher commit index. *)
LEMMA ApplyPuts ==
    ASSUME IndexInv, NEW n \in Node, NEW commit \in Nat, commit > m_commitIndex[n],
           m_commitIndex' = [m_commitIndex EXCEPT ![n] = commit],
           m_logs'[n] = m_logs[n],
           applyCommittedLogs(n, m_logs[n], commit)
    PROVE  \A m \in Node : CommitKept(m)
<1>1. /\ m_lastApplied[n] = m_commitIndex[n]
      /\ m_commitIndex \in [Node -> Nat] /\ puts \in [Node -> Seq(Command)]
  BY DEF IndexInv, IndexSafety, TypeOK
<1>2. puts' = [puts EXCEPT ![n] =
                 puts[n] \o Commands(m_logs[n], m_commitIndex[n], commit)]
  BY <1>1 DEF applyCommittedLogs
<1> QED
  BY <1>1, <1>2 DEF CommitKept

(* A handler of p. *)
LEMMA LivesOnHandle ==
    ASSUME IndexInv, NEW p \in Node, NEW a \in Request, NoEntries(a), Handle(p, a),
           UNCHANGED elected
    PROVE  \A n \in Node : LivesOn(n)
<1>1. /\ m_currentTerm \in [Node -> Nat] /\ a.term \in Nat
      /\ m_state \in [Node -> {"Follower", "Candidate", "Leader"}]
      /\ m_votedFor \in [Node -> Node \cup {Nil}]
      /\ m_logs' = m_logs
  BY RequestTypes, HandleKeepsIndex DEF IndexInv, TypeOK
<1>2. CASE a.type = "RequestVote" /\ handleRequestVote(p, a)
  <2>1. UNCHANGED <<m_logs, m_commitIndex, puts>>
    BY <1>2 DEF handleRequestVote
  <2>2. \A n \in Node : n # p => /\ m_state'[n] = m_state[n]
                                 /\ m_currentTerm'[n] = m_currentTerm[n]
                                 /\ m_votedFor'[n] = m_votedFor[n]
    BY <1>1, <1>2 DEF handleRequestVote
  <2>3. TermKept(p) /\ LeadershipKept(p)
    <3>1. CASE a.term > m_currentTerm[p]
      <4>1. m_currentTerm'[p] = a.term /\ m_state'[p] = "Follower"
        BY <1>1, <1>2, <3>1 DEF handleRequestVote
      <4> QED
        BY <1>1, <3>1, <4>1 DEF TermKept, LeadershipKept
    <3>2. CASE ~(a.term > m_currentTerm[p])
      <4>1. m_currentTerm' = m_currentTerm /\ m_state' = m_state
        BY <1>1, <1>2, <3>2 DEF handleRequestVote
      <4>2. m_votedFor[p] \in {Nil, m_votedFor'[p]}
        BY <1>1, <1>2, <3>2 DEF handleRequestVote, VoteGranted
      <4> QED
        BY <1>1, <4>1, <4>2 DEF TermKept, LeadershipKept
    <3> QED
      BY <3>1, <3>2
  <2> QED
    BY <2>1, <2>2, <2>3, LivesOnWhenKept DEF LivesOn, LogKept, CommitKept
<1>3. CASE a.type = "AppendEntries" /\ handleAppendEntries(p, a)
  <2>1. a.leaderCommit \in Nat /\ a.entries = << >>
    BY <1>3, RequestTypes DEF NoEntries
  <2>2. CASE Outdated(p, a)
    BY <1>3, <2>2, LivesOnWhenKept DEF handleAppendEntries
  <2>3. CASE ~Outdated(p, a)
    <3>1. /\ m_state' = [m_state EXCEPT ![p] = "Follower"]
          /\ m_currentTerm' = [m_currentTerm EXCEPT ![p] = a.term]
          /\ m_votedFor' = m_votedFor
      BY <1>3, <2>3 DEF handleAppendEntries
    <3>2. \A n \in Node : TermKept(n) /\ LeadershipKept(n) /\ LogKept(n)
      BY <1>1, <2>3, <3>1 DEF TermKept, LeadershipKept, LogKept, Outdated
    <3>3. \A n \in Node : CommitKept(n)
      <4> DEFINE commit == Least(a.leaderCommit, Len(m_logs[p]))
      <4>1. \/ UNCHANGED <<m_commitIndex, m_lastApplied, puts>>
            \/ /\ a.leaderCommit > m_commitIndex[p]
               /\ m_commitIndex' = [m_commitIndex EXCEPT ![p] = commit]
               /\ applyCommittedLogs(p, m_logs[p], commit)
        BY <1>3, <2>1, <2>3, MergeNothing DEF handleAppendEntries
      <4>2. /\ m_commitIndex[p] \in Nat /\ m_commitIndex[p] <= Len(m_logs[p])
            /\ m_lastApplied[p] = m_commitIndex[p] /\ Len(m_logs[p]) \in Nat
            /\ m_commitIndex \in [Node -> Nat]
        BY DEF IndexInv, IndexSafety, TypeOK
      <4>3. CASE UNCHANGED <<m_commitIndex, m_lastApplied, puts>>
        BY <4>3 DEF CommitKept
      <4>4. CASE /\ a.leaderCommit > m_commitIndex[p]
                 /\ m_commitIndex' = [m_commitIndex EXCEPT ![p] = commit]
                 /\ applyCommittedLogs(p, m_logs[p], commit)
        <5>1. commit \in Nat /\ commit >= m_commitIndex[p]
          BY <2>1, <4>2, <4>4 DEF Least
        <5> HIDE DEF commit
        <5>2. CASE commit > m_commitIndex[p]
          BY <1>1, <4>4, <5>1, <5>2, ApplyPuts
        <5>3. CASE commit = m_commitIndex[p]
          <6>1. m_commitIndex' = m_commitIndex
            BY <4>2, <4>4, <5>3
          <6>2. ~(m_lastApplied[p] < commit)
            BY <4>2, <5>3
          <6>3. puts' = puts
            BY <4>4, <6>2 DEF applyCommittedLogs
          <6> QED
            BY <6>1, <6>3 DEF CommitKept
        <5> QED
          BY <4>2, <5>1, <5>2, <5>3
      <4> QED
        BY <4>1, <4>3, <4>4
    <3> QED
      BY <3>2, <3>3 DEF LivesOn
  <2> QED
    BY <2>2, <2>3
<1> QED
  BY <1>2, <1>3 DEF Handle

(* A candidate or leader finds that its term is over. *)
LEMMA LivesOnStepDown ==
    ASSUME IndexInv, NEW r \in Node, NEW t \in Nat, t > m_currentTerm[r],
           StepDown(r, t), UNCHANGED <<m_logs, m_commitIndex, puts>>
    PROVE  \A n \in Node : LivesOn(n)
<1>1. /\ m_currentTerm \in [Node -> Nat]
      /\ m_state \in [Node -> {"Follower", "Candidate", "Leader"}]
      /\ m_votedFor \in [Node -> Node \cup {Nil}]
  BY DEF IndexInv, TypeOK
<1> QED
  BY <1>1 DEF StepDown, LivesOn, TermKept, LeadershipKept, LogKept, CommitKept

(* startElection begins, and ends with a win. *)
LEMMA LivesOnElection ==
    ASSUME IndexInv, NEW r \in Node, StartElection(r) \/ WinElection(r)
    PROVE  \A n \in Node : LivesOn(n)
<1>1. /\ m_currentTerm \in [Node -> Nat]
      /\ m_state \in [Node -> {"Follower", "Candidate", "Leader"}]
      /\ m_votedFor \in [Node -> Node \cup {Nil}]
  BY DEF IndexInv, TypeOK
<1>2. CASE StartElection(r)
  BY <1>1, <1>2 DEF StartElection, LivesOn, TermKept, LeadershipKept, LogKept,
                    CommitKept
<1>3. CASE WinElection(r)
  BY <1>1, <1>3 DEF WinElection, LivesOn, TermKept, LeadershipKept, LogKept,
                    CommitKept
<1> QED
  BY <1>2, <1>3

(* startElection reads a vote. *)
LEMMA LivesOnRecvVote ==
    ASSUME IndexInv, NEW r \in Node, RecvVote(r)
    PROVE  \A n \in Node : LivesOn(n)
<1>1. TheReply(r) \in Reply /\ TheReply(r).term \in Nat
  BY TakeReplyType DEF RecvVote, Reply, RequestVoteReply, AppendEntriesReply
<1>2. UNCHANGED <<m_logs, m_commitIndex, puts>>
  BY DEF RecvVote
<1>3. CASE UNCHANGED <<m_state, m_currentTerm, m_votedFor>>
  BY <1>2, <1>3, LivesOnWhenKept
<1>4. CASE TheReply(r).term > m_currentTerm[r] /\ StepDown(r, TheReply(r).term)
  BY <1>1, <1>2, <1>4, LivesOnStepDown
<1> QED
  BY <1>3, <1>4 DEF RecvVote, VoteReceived, VoteRefused

(* The commit index heartbeatLoop computes is a number. *)
LEMMA NewCommitType ==
    ASSUME IndexInv, NEW r \in Node, RecvAppend(r), AppendAccepted(r)
    PROVE  /\ m_matchIndex' \in [Conn -> Nat] /\ Len(m_logs[r]) \in Nat
           /\ NewCommitIndex(r, m_matchIndex') \in Nat
<1>1. m_matchIndex' \in [Conn -> Nat] /\ Len(m_logs[r]) \in Nat
  <2>1. TypeOK /\ TypeOK'
    BY IndexAppendAccepted DEF IndexInv
  <2>2. m_matchIndex' \in [Conn -> Nat]
    BY ONLY <2>1 DEF TypeOK
  <2>3. Len(m_logs[r]) \in Nat
    BY <2>1 DEF TypeOK
  <2> QED
    BY <2>2, <2>3
<1>2. PICK x \in {r} \cup PeerSet(r) :
         NewCommitIndex(r, m_matchIndex') =
            IF x = r THEN Len(m_logs[r]) ELSE m_matchIndex'[<<r, x>>]
  BY <1>1, NewCommitIndexIsMatched
<1>3. <<r, x>> \in Conn
  BY <1>2, PeerCount DEF Conn
<1> QED
  BY <1>1, <1>2, <1>3

(* heartbeatLoop reads a reply. *)
LEMMA LivesOnRecvAppend ==
    ASSUME IndexInv, NEW r \in Node, RecvAppend(r)
    PROVE  \A n \in Node : LivesOn(n)
<1>1. TheReply(r) \in Reply /\ TheReply(r).term \in Nat
  BY TakeReplyType DEF RecvAppend, Reply, RequestVoteReply, AppendEntriesReply
<1>2. UNCHANGED m_logs
  BY DEF RecvAppend
<1>3. CASE AppendMismatch(r)
  BY <1>2, <1>3, LivesOnWhenKept DEF AppendMismatch
<1>4. CASE TheReply(r).term > m_currentTerm[r] /\ AppendOutdated(r)
  BY <1>1, <1>2, <1>4, LivesOnStepDown DEF AppendOutdated
<1>5. CASE AppendAccepted(r)
  <2> DEFINE new == NewCommitIndex(r, m_matchIndex')
  <2>1. new \in Nat
    BY <1>5, NewCommitType
  <2>2. \/ UNCHANGED <<m_commitIndex, m_lastApplied, puts>>
        \/ /\ new > m_commitIndex[r]
           /\ m_commitIndex' = [m_commitIndex EXCEPT ![r] = new]
           /\ applyCommittedLogs(r, m_logs[r], new)
    BY <1>5 DEF AppendAccepted
  <2>3. UNCHANGED <<m_state, m_currentTerm, m_votedFor>>
    BY <1>5 DEF AppendAccepted
  <2> HIDE DEF new
  <2>4. \A n \in Node : CommitKept(n)
    BY <1>2, <2>1, <2>2, ApplyPuts DEF CommitKept
  <2>5. m_currentTerm \in [Node -> Nat]
    BY DEF IndexInv, TypeOK
  <2> QED
    BY <1>2, <2>3, <2>4, <2>5 DEF LivesOn, TermKept, LeadershipKept, LogKept
<1> QED
  BY <1>3, <1>4, <1>5 DEF RecvAppend

(* submitLog. *)
LEMMA LivesOnSubmitLog ==
    ASSUME IndexInv, NEW r \in Node, NEW cmd \in Command, SubmitLog(r, cmd)
    PROVE  \A n \in Node : LivesOn(n)
<1>1. m_currentTerm \in [Node -> Nat] /\ m_logs \in [Node -> Seq(Entry)]
  BY DEF IndexInv, TypeOK
<1>2. /\ m_logs' = [m_logs EXCEPT ![r] =
                      Append(m_logs[r], [term |-> m_currentTerm[r], cmd |-> cmd])]
      /\ m_state[r] = "Leader" /\ Len(m_logs[r]) < MaxLog
      /\ UNCHANGED <<m_state, m_currentTerm, m_votedFor, m_commitIndex, puts>>
  BY DEF SubmitLog
<1> SUFFICES ASSUME NEW n \in Node PROVE LivesOn(n)
  OBVIOUS
<1>3. CASE n # r
  BY <1>1, <1>2, <1>3, LivesOnWhenKept
<1>4. CASE n = r
  <2>1. LogKept(n)
    BY <1>1, <1>2, <1>4 DEF LogKept
  <2> QED
    BY <1>1, <1>2, <2>1 DEF LivesOn, TermKept, LeadershipKept, CommitKept
<1> QED
  BY <1>3, <1>4

(* A restart of r: the other nodes do not notice. *)
LEMMA LivesOnRestart ==
    ASSUME IndexInv, NEW r \in Node, Restart(r)
    PROVE  /\ \A n \in Node \ {r} : LivesOn(n)
           /\ m_state'[r] = "Follower" /\ m_currentTerm'[r] = 0
           /\ m_logs'[r] = << >>
           /\ restarts' = restarts + 1 /\ restarts \in Nat
<1>1. IndexInv /\ TypeOK
  BY DEF IndexInv
<1>2. /\ m_state' = [m_state EXCEPT ![r] = "Follower"]
      /\ m_currentTerm' = [m_currentTerm EXCEPT ![r] = 0]
      /\ m_votedFor' = [m_votedFor EXCEPT ![r] = Nil]
      /\ m_logs' = [m_logs EXCEPT ![r] = << >>]
      /\ m_commitIndex' = [m_commitIndex EXCEPT ![r] = 0]
      /\ restarts' = restarts + 1
      /\ puts' = puts
  BY DEF Restart
<1>3. ASSUME NEW n \in Node, n # r PROVE LivesOn(n)
  BY <1>1, <1>2, <1>3, LivesOnWhenKept DEF TypeOK
<1> QED
  BY <1>1, <1>2, <1>3 DEF TypeOK

(***************************************************************************)
(* Every node lives on in every step, but for the one that restarts.       *)
(***************************************************************************)
Restarted(r) ==
    /\ \A n \in Node \ {r} : LivesOn(n)
    /\ m_state'[r] = "Follower" /\ m_currentTerm'[r] = 0 /\ m_logs'[r] = << >>
    /\ restarts' = restarts + 1 /\ restarts \in Nat

LEMMA NodeStep ==
    ASSUME IndexInv, [Next]_vars
    PROVE  (\A n \in Node : LivesOn(n)) \/ (\E r \in Node : Restarted(r))
<1>1. CASE UNCHANGED <<nodeVars, puts>>
  BY <1>1, LivesOnWhenKept DEF nodeVars
<1>2. ASSUME NEW r \in Node, PassStep(r) PROVE \A n \in Node : LivesOn(n)
  <2>1. CASE UNCHANGED <<nodeVars, puts>>
    BY <2>1, LivesOnWhenKept DEF nodeVars
  <2>2. CASE WinElection(r) \/ RecvVote(r) \/ RecvAppend(r)
    BY <2>2, LivesOnElection, LivesOnRecvVote, LivesOnRecvAppend
  <2> QED
    BY <1>2, <2>1, <2>2
       DEF PassStep, LoseElection, FinishHeartbeat, SendRequest, SendFails,
           RecvFails, RecvWrongKind
<1>3. ASSUME NEW r \in Node, StartElection(r) PROVE \A n \in Node : LivesOn(n)
  BY <1>3, LivesOnElection
<1>4. ASSUME NEW p \in Node, ServeOrphan(p) PROVE \A n \in Node : LivesOn(n)
  <2>1. PICK o \in orphans : o[1] = p /\ Handle(p, o[2])
    BY <1>4 DEF ServeOrphan
  <2>2. o[2] \in Request /\ NoEntries(o[2])
    BY DEF IndexInv, TypeOK, NoEntriesSent
  <2> QED
    BY <1>4, <2>1, <2>2, LivesOnHandle DEF ServeOrphan
<1>5. ASSUME NEW n \in Node, NEW p \in Node, ServeRequest(n, p)
      PROVE  \A m \in Node : LivesOn(m)
  <2>1. /\ <<n, p>> \in Conn /\ reqs[<<n, p>>] # << >>
        /\ Handle(p, Head(reqs[<<n, p>>])) /\ UNCHANGED elected
    BY <1>5 DEF ServeRequest, Conn
  <2>2. Head(reqs[<<n, p>>]) \in Request /\ NoEntries(Head(reqs[<<n, p>>]))
    BY <2>1, HeadRequest
  <2> QED
    BY <2>1, <2>2, LivesOnHandle
<1>6. ASSUME NEW r \in Node, Restart(r) PROVE Restarted(r)
  BY <1>6, LivesOnRestart DEF Restarted
<1>7. ASSUME NEW r \in Node, NEW cmd \in Command, SubmitLog(r, cmd)
      PROVE  \A n \in Node : LivesOn(n)
  BY <1>7, LivesOnSubmitLog
<1>8. ASSUME NEW n \in Node, NEW p \in Node,
             \/ Poll(n) \/ StartHeartbeat(n)
             \/ PeerCloses(n, p) \/ CleanupConnection(n, p)
      PROVE  UNCHANGED <<nodeVars, puts>>
  BY <1>8 DEF Poll, vars, StartHeartbeat, PeerCloses, CleanupConnection
<1>9. CASE UNCHANGED vars
  BY <1>1, <1>9 DEF vars
<1> QED
  BY <1>1, <1>2, <1>3, <1>4, <1>5, <1>6, <1>7, <1>8, <1>9 DEF Next

-----------------------------------------------------------------------------
(* Leadership *)

(* An election that was won stays won. *)
LEMMA ElectedKept ==
    ASSUME [Next]_vars PROVE elected \subseteq elected'
BY DEF Next, vars, Poll, StartElection, StartHeartbeat, PassStep, WinElection,
       LoseElection, FinishHeartbeat, SendRequest, SendFails, RecvFails,
       RecvWrongKind, RecvVote, RecvAppend, TakeReply, ServeOrphan, Restart,
       SubmitLog, ServeRequest, PeerCloses, CleanupConnection

(***************************************************************************)
(* Whoever leads won the election of the term it is in, for every cluster, *)
(* with late replies and restarts.                                         *)
(***************************************************************************)
THEOREM LeadersWereElected == Spec => []LeaderWonItsTerm
<1>1. Init => LeaderWonItsTerm
  BY DEF Init, LeaderWonItsTerm
<1>2. ASSUME IndexInv, LeaderWonItsTerm, [Next]_vars PROVE LeaderWonItsTerm'
  <2>1. ASSUME NEW n \in Node, LivesOn(n), m_state'[n] = "Leader"
        PROVE  <<m_currentTerm'[n], n>> \in elected'
    BY <1>2, <2>1, ElectedKept DEF LeaderWonItsTerm, LivesOn, LeadershipKept
  <2>2. ASSUME NEW r \in Node, Restarted(r), NEW n \in Node, m_state'[n] = "Leader"
        PROVE  <<m_currentTerm'[n], n>> \in elected'
    BY <2>1, <2>2 DEF Restarted
  <2> QED
    BY <1>2, <2>1, <2>2, NodeStep DEF LeaderWonItsTerm
<1> QED
  BY <1>1, <1>2, IndexInvariant, PTL DEF Spec

-----------------------------------------------------------------------------
(* Nothing goes back *)

(* What submitLog appends leaves the entries before it where they are. *)
LEMMA AppendKeepsPrefix ==
    ASSUME NEW S, NEW s \in Seq(S), NEW e \in S, NEW k \in Nat, k <= Len(s)
    PROVE  /\ SubSeq(Append(s, e), 1, k) = SubSeq(s, 1, k)
           /\ Append(s, e) \in Seq(S) /\ Len(Append(s, e)) = Len(s) + 1
           /\ \A i \in 1..k : Append(s, e)[i] = s[i]
<1>1. Append(s, e) \in Seq(S) /\ Len(Append(s, e)) = Len(s) + 1 /\ Len(s) \in Nat
  BY AppendProperties
<1>2. \A i \in 1..k : Append(s, e)[i] = s[i]
  OBVIOUS
<1>3. \A i \in 1..k : Append(s, e)[i] \in S /\ s[i] \in S
  BY <1>2, ElementOfSeq
<1>4. /\ SubSeq(Append(s, e), 1, k) \in Seq(S) /\ SubSeq(s, 1, k) \in Seq(S)
      /\ Len(SubSeq(Append(s, e), 1, k)) = k /\ Len(SubSeq(s, 1, k)) = k
      /\ \A i \in 1..k : SubSeq(Append(s, e), 1, k)[i] = Append(s, e)[i]
      /\ \A i \in 1..k : SubSeq(s, 1, k)[i] = s[i]
  BY <1>1, <1>3, SubSeqProperties
<1> QED
  BY <1>1, <1>2, <1>4, SeqEqual

(* The entries of a log up to the commit index, before and after a step. *)
LEMMA CommittedKept ==
    ASSUME IndexInv, NEW n \in Node, LogKept(n)
    PROVE  /\ SubSeq(m_logs'[n], 1, m_commitIndex[n])
                = SubSeq(m_logs[n], 1, m_commitIndex[n])
           /\ \A i \in 1..m_commitIndex[n] : m_logs'[n][i] = m_logs[n][i]
<1>1. /\ m_logs[n] \in Seq(Entry) /\ m_currentTerm[n] \in Nat
      /\ m_commitIndex[n] \in Nat /\ m_commitIndex[n] <= Len(m_logs[n])
  BY DEF IndexInv, TypeOK, IndexSafety
<1>2. ASSUME NEW cmd \in Command,
             m_logs'[n] = Append(m_logs[n], [term |-> m_currentTerm[n], cmd |-> cmd])
      PROVE  /\ SubSeq(m_logs'[n], 1, m_commitIndex[n])
                  = SubSeq(m_logs[n], 1, m_commitIndex[n])
             /\ \A i \in 1..m_commitIndex[n] : m_logs'[n][i] = m_logs[n][i]
  <2>1. [term |-> m_currentTerm[n], cmd |-> cmd] \in Entry
    BY <1>1 DEF Entry
  <2> QED
    BY <1>1, <1>2, <2>1, AppendKeepsPrefix
<1> QED
  BY <1>1, <1>2 DEF LogKept

(* The step of NeverGoesBack, for one node. *)
GoesOn(n) ==
    restarts' = restarts =>
      /\ m_currentTerm'[n] >= m_currentTerm[n]
      /\ m_commitIndex'[n] >= m_commitIndex[n]
      /\ \/ m_currentTerm'[n] > m_currentTerm[n]
         \/ m_votedFor[n] \in {Nil, m_votedFor'[n]}
      /\ SubSeq(m_logs'[n], 1, m_commitIndex[n])
           = SubSeq(m_logs[n], 1, m_commitIndex[n])

(***************************************************************************)
(* In the life of a process terms and commit indices do not go back, votes *)
(* are not taken back in their term and committed entries stay in place.   *)
(***************************************************************************)
THEOREM NothingGoesBack == Spec => NeverGoesBack
<1>1. ASSUME IndexInv, [Next]_vars PROVE \A n \in Node : GoesOn(n)
  <2>1. ASSUME NEW n \in Node, LivesOn(n) PROVE GoesOn(n)
    <3>1. m_commitIndex[n] \in Nat /\ m_commitIndex'[n] \in Nat
      <4>1. IndexInv'
        BY <1>1, IndexStep
      <4>2. TypeOK /\ TypeOK'
        BY <1>1, <4>1 DEF IndexInv
      <4> QED
        BY <4>2 DEF TypeOK
    <3>2. m_commitIndex'[n] >= m_commitIndex[n]
      <4>1. m_commitIndex'[n] = m_commitIndex[n] \/ m_commitIndex'[n] > m_commitIndex[n]
        BY <2>1 DEF LivesOn, CommitKept
      <4> QED
        BY <3>1, <4>1
    <3> QED
      BY <1>1, <2>1, <3>2, CommittedKept DEF LivesOn, TermKept, GoesOn
  <2>2. ASSUME NEW r \in Node, Restarted(r) PROVE restarts' # restarts
    BY <2>2 DEF Restarted
  <2> QED
    BY <1>1, <2>1, <2>2, NodeStep DEF GoesOn
<1>2. IndexInv /\ [Next]_vars => [\A n \in Node : GoesOn(n)]_vars
  BY <1>1
<1> QED
  BY <1>2, IndexInvariant, PTL DEF Spec, NeverGoesBack, GoesOn

-----------------------------------------------------------------------------
(* What reaches RocksDB *)

(* Two runs of commands that meet are one run. *)
LEMMA CommandsJoin ==
    ASSUME NEW log \in Seq(Entry), NEW c \in Nat, NEW d \in Nat, c <= d,
           d <= Len(log)
    PROVE  Commands(log, 0, c) \o Commands(log, c, d) = Commands(log, 0, d)
<1>1. \A i \in 1..Len(log) : log[i].cmd \in Command
  <2>1. \A i \in 1..Len(log) : log[i] \in Entry
    BY ElementOfSeq
  <2> QED
    BY <2>1 DEF Entry
<1>2. /\ Commands(log, 0, c) \in Seq(Command) /\ Len(Commands(log, 0, c)) = c
      /\ \A i \in 1..c : Commands(log, 0, c)[i] = log[i].cmd
  BY <1>1 DEF Commands
<1>3. /\ Commands(log, c, d) \in Seq(Command) /\ Len(Commands(log, c, d)) = d - c
      /\ \A i \in 1..(d - c) : Commands(log, c, d)[i] = log[c + i].cmd
  BY <1>1 DEF Commands
<1>4. /\ Commands(log, 0, d) \in Seq(Command) /\ Len(Commands(log, 0, d)) = d
      /\ \A i \in 1..d : Commands(log, 0, d)[i] = log[i].cmd
  BY <1>1 DEF Commands
<1> DEFINE both == Commands(log, 0, c) \o Commands(log, c, d)
<1>5. both \in Seq(Command) /\ Len(both) = d
  <2>1. both \in Seq(Command) /\ Len(both) = c + (d - c)
    BY <1>2, <1>3, ConcatProperties
  <2> QED
    BY <2>1
<1>a. \A i \in 1..d : both[i] = IF i <= c THEN Commands(log, 0, c)[i]
                                ELSE Commands(log, c, d)[i - c]
  <2>1. \A i \in 1..(c + (d - c)) :
           both[i] = IF i <= c THEN Commands(log, 0, c)[i]
                     ELSE Commands(log, c, d)[i - c]
    BY <1>2, <1>3, ConcatProperties
  <2>2. c + (d - c) = d
    OBVIOUS
  <2> QED
    BY <2>1, <2>2
<1> HIDE DEF both
<1>6. ASSUME NEW i \in 1..d PROVE both[i] = log[i].cmd
  <2>1. CASE i <= c
    BY <1>2, <1>a, <2>1
  <2>2. CASE i > c
    <3>1. i - c \in 1..(d - c) /\ c + (i - c) = i
      BY <2>2
    <3>2. both[i] = Commands(log, c, d)[i - c]
      BY <1>a, <2>2
    <3> QED
      BY <1>3, <3>1, <3>2
  <2> QED
    BY <2>1, <2>2
<1>7. both = Commands(log, 0, d)
  BY <1>4, <1>5, <1>6, SeqEqual
<1> QED
  BY <1>7 DEF both

(* What one node has put, across a step in which it lives on. *)
LEMMA PutsLiveOn ==
    ASSUME IndexInv, IndexInv', NEW n \in Node, LivesOn(n),
           puts[n] = Commands(m_logs[n], 0, m_lastApplied[n])
    PROVE  puts'[n] = Commands(m_logs'[n], 0, m_lastApplied'[n])
<1>1. /\ m_logs[n] \in Seq(Entry) /\ m_commitIndex[n] \in Nat
      /\ m_lastApplied[n] = m_commitIndex[n] /\ m_commitIndex[n] <= Len(m_logs[n])
  BY DEF IndexInv, TypeOK, IndexSafety
<1>2. /\ m_commitIndex'[n] \in Nat /\ m_lastApplied'[n] = m_commitIndex'[n]
      /\ m_commitIndex'[n] <= Len(m_logs'[n])
  <2>1. TypeOK' /\ IndexSafety'
    BY DEF IndexInv
  <2> QED
    BY ONLY <2>1, n \in Node DEF TypeOK, IndexSafety
<1>3. CASE m_commitIndex'[n] = m_commitIndex[n] /\ puts'[n] = puts[n]
  <2>1. \A i \in 1..m_commitIndex[n] : m_logs'[n][i] = m_logs[n][i]
    BY CommittedKept DEF LivesOn
  <2> QED
    BY <1>1, <1>2, <1>3, <2>1 DEF Commands
<1>4. CASE /\ m_commitIndex'[n] > m_commitIndex[n]
           /\ puts'[n] = puts[n] \o Commands(m_logs[n], m_commitIndex[n], m_commitIndex'[n])
           /\ m_logs'[n] = m_logs[n]
  <2>1. puts[n] = Commands(m_logs[n], 0, m_commitIndex[n])
    BY <1>1
  <2>2. m_commitIndex[n] <= m_commitIndex'[n]
    BY <1>1, <1>2, <1>4
  <2>3. Commands(m_logs[n], 0, m_commitIndex[n])
           \o Commands(m_logs[n], m_commitIndex[n], m_commitIndex'[n])
          = Commands(m_logs[n], 0, m_commitIndex'[n])
    BY <1>1, <1>2, <1>4, <2>2, CommandsJoin
  <2> QED
    BY <1>2, <1>4, <2>1, <2>3
<1> QED
  BY <1>3, <1>4 DEF LivesOn, CommitKept

(***************************************************************************)
(* As long as nothing restarts, every RocksDB holds the committed prefix   *)
(* of its node's log, each entry put once and in order.                    *)
(***************************************************************************)
THEOREM PutsFollowTheLog == Spec => []AppliedInOrder
<1>1. Init => AppliedInOrder
  BY DEF Init, AppliedInOrder, Commands
<1>2. ASSUME IndexInv, IndexInv', AppliedInOrder, [Next]_vars PROVE AppliedInOrder'
  <2>1. ASSUME NEW r \in Node, Restarted(r) PROVE AppliedInOrder'
    BY <2>1 DEF Restarted, AppliedInOrder
  <2>2. ASSUME \A n \in Node : LivesOn(n), restarts' = 0, restarts = 0
        PROVE  AppliedInOrder'
    BY <1>2, <2>2, PutsLiveOn DEF AppliedInOrder
  <2>3. restarts' = restarts \/ \E r \in Node : Restart(r)
    BY <1>2
       DEF Next, vars, Poll, StartElection, StartHeartbeat, PassStep, WinElection,
           LoseElection, FinishHeartbeat, SendRequest, SendFails, RecvFails,
           RecvWrongKind, RecvVote, RecvAppend, TakeReply, ServeOrphan,
           SubmitLog, ServeRequest, PeerCloses, CleanupConnection
  <2>4. ASSUME NEW r \in Node, Restart(r) PROVE AppliedInOrder'
    BY <1>2, <2>4, LivesOnRestart DEF AppliedInOrder
  <2>5. CASE restarts' = restarts
    <3>1. CASE restarts = 0
      BY <1>2, <2>1, <2>2, <2>5, <3>1, NodeStep
    <3>2. CASE restarts # 0
      BY <2>5, <3>2 DEF AppliedInOrder
    <3> QED
      BY <3>1, <3>2
  <2> QED
    BY <2>3, <2>4, <2>5
<1> QED
  BY <1>1, <1>2, IndexInvariant, PTL DEF Spec

-----------------------------------------------------------------------------
(* What a leader commits *)

(***************************************************************************)
(* Only the reply that heartbeatLoop reads raises the commit index of the  *)
(* node whose pass it is: the handlers wait for m_mutex.                   *)
(***************************************************************************)
LEMMA OnlyRepliesCommit ==
    ASSUME IndexInv, [Next]_vars, NEW n \in Node, holder[n] = "heartbeat",
           m_commitIndex'[n] > m_commitIndex[n]
    PROVE  RecvAppend(n) /\ AppendAccepted(n)
<1>1. /\ m_commitIndex \in [Node -> Nat] /\ m_commitIndex[n] \in Nat
      /\ m_lastApplied \in [Node -> Nat]
  BY DEF IndexInv, TypeOK
<1>2. m_commitIndex'[n] # m_commitIndex[n]
  BY <1>1
<1>3. ASSUME NEW p \in Node, holder[p] = "free", NEW a \in Request, NoEntries(a),
             Handle(p, a)
      PROVE  m_commitIndex'[n] = m_commitIndex[n]
  <2>1. n # p
    BY <1>3
  <2>2. \/ m_commitIndex' = m_commitIndex
        \/ \E commit : m_commitIndex' = [m_commitIndex EXCEPT ![p] = commit]
    BY <1>3 DEF Handle, handleRequestVote, handleAppendEntries
  <2> QED
    BY <1>1, <2>1, <2>2
<1>4. ASSUME NEW p \in Node, ServeOrphan(p) PROVE FALSE
  <2>1. PICK o \in orphans : o[1] = p /\ Handle(p, o[2]) /\ holder[p] = "free"
    BY <1>4 DEF ServeOrphan
  <2>2. o[2] \in Request /\ NoEntries(o[2])
    BY DEF IndexInv, TypeOK, NoEntriesSent
  <2> QED
    BY <1>2, <1>3, <2>1, <2>2
<1>5. ASSUME NEW m \in Node, NEW p \in Node, ServeRequest(m, p) PROVE FALSE
  <2>1. /\ <<m, p>> \in Conn /\ reqs[<<m, p>>] # << >> /\ holder[p] = "free"
        /\ Handle(p, Head(reqs[<<m, p>>]))
    BY <1>5 DEF ServeRequest, Conn
  <2>2. Head(reqs[<<m, p>>]) \in Request /\ NoEntries(Head(reqs[<<m, p>>]))
    BY <2>1, HeadRequest
  <2> QED
    BY <1>2, <1>3, <2>1, <2>2
<1>6. ASSUME NEW r \in Node, Restart(r) PROVE FALSE
  <2>1. m_commitIndex' = [m_commitIndex EXCEPT ![r] = 0]
    BY <1>6 DEF Restart
  <2> QED
    BY <1>1, <2>1
<1>7. ASSUME NEW r \in Node, RecvAppend(r) PROVE r = n /\ AppendAccepted(n)
  <2>1. AppendAccepted(r)
    <3>1. CASE AppendMismatch(r) \/ AppendOutdated(r)
      BY <1>2, <3>1 DEF AppendMismatch, AppendOutdated
    <3> QED
      BY <1>7, <3>1 DEF RecvAppend
  <2>2. \/ m_commitIndex' = m_commitIndex
        \/ \E commit : m_commitIndex' = [m_commitIndex EXCEPT ![r] = commit]
    BY <2>1 DEF AppendAccepted
  <2> QED
    BY <1>1, <1>2, <2>1, <2>2
<1>8. ASSUME NEW r \in Node, PassStep(r) PROVE RecvAppend(r)
  BY <1>2, <1>8
     DEF PassStep, WinElection, LoseElection, FinishHeartbeat, SendRequest,
         SendFails, RecvFails, RecvWrongKind, RecvVote, nodeVars
<1>9. ASSUME NEW m \in Node, NEW p \in Node,
             \/ Poll(m) \/ StartElection(m) \/ StartHeartbeat(m)
             \/ PeerCloses(m, p) \/ CleanupConnection(m, p)
      PROVE  FALSE
  BY <1>2, <1>9 DEF Poll, StartElection, StartHeartbeat, PeerCloses,
                    CleanupConnection, nodeVars, vars
<1>10. ASSUME UNCHANGED vars PROVE FALSE
  BY <1>2, <1>10 DEF vars, nodeVars
<1>11. ASSUME NEW m \in Node, NEW cmd \in Command, SubmitLog(m, cmd) PROVE FALSE
  BY <1>2, <1>11 DEF SubmitLog
<1> QED
  BY <1>4, <1>5, <1>6, <1>7, <1>8, <1>9, <1>10, <1>11 DEF Next

(* The step of CommitBacked, for one node. *)
Backed(n) ==
    holder[n] = "heartbeat" /\ m_commitIndex'[n] > m_commitIndex[n] =>
      /\ Cardinality(BelievedHolders(n, m_commitIndex[n]))' >= Majority(n)
      /\ m_logs[n][m_commitIndex'[n]].term = m_currentTerm[n]

(***************************************************************************)
(* In a cluster of an odd number of nodes a leader's heartbeatLoop commits *)
(* only what it believes a majority to hold, and only entries of its own   *)
(* term.  (With an even number it counts one node too few: the middle of   *)
(* an even number of sorted match indices is reached by half of them.)     *)
(***************************************************************************)
THEOREM CommitsAreBacked ==
    ASSUME \A n \in Node : Len(Peers[n]) % 2 = 0
    PROVE  Spec => CommitBacked
<1>1. ASSUME IndexInv, [Next]_vars, NEW n \in Node PROVE Backed(n)
  <2> SUFFICES ASSUME holder[n] = "heartbeat", m_commitIndex'[n] > m_commitIndex[n]
               PROVE  /\ Cardinality(BelievedHolders(n, m_commitIndex[n]))' >= Majority(n)
                      /\ m_logs[n][m_commitIndex'[n]].term = m_currentTerm[n]
    BY DEF Backed
  <2> DEFINE new == NewCommitIndex(n, m_matchIndex')
             members == {n} \cup PeerSet(n)
             reach == {x \in members : (IF x = n THEN Len(m_logs[n])
                                        ELSE m_matchIndex'[<<n, x>>]) >= new}
             held == {n} \cup {p \in PeerSet(n) : m_matchIndex'[<<n, p>>] >= new}
  <2>1. RecvAppend(n) /\ AppendAccepted(n)
    BY <1>1, OnlyRepliesCommit
  <2>2. m_matchIndex' \in [Conn -> Nat] /\ Len(m_logs[n]) \in Nat /\ new \in Nat
    BY <1>1, <2>1, NewCommitType
  <2>3. Cardinality(reach) > Len(Peers[n]) \div 2
    BY <2>2, NewCommitIndexIsMatched
  <2>4. m_commitIndex'[n] = new /\ TermAt(m_logs[n], new) = m_currentTerm[n]
    <3>1. m_commitIndex[n] \in Nat /\ m_commitIndex \in [Node -> Nat]
      BY <1>1 DEF IndexInv, TypeOK
    <3>2. m_commitIndex' # m_commitIndex
      BY <3>1
    <3>3. /\ m_commitIndex' = [m_commitIndex EXCEPT ![n] = new]
          /\ TermAt(m_logs[n], new) = m_currentTerm[n]
      BY <2>1, <3>2 DEF AppendAccepted
    <3> QED
      BY <3>1, <3>3
  <2>5. new # 0
    BY <1>1, <2>2, <2>4 DEF IndexInv, TypeOK
  <2>6. BelievedHolders(n, m_commitIndex[n])' = held
    BY <2>4 DEF BelievedHolders
  <2>7. reach \subseteq held /\ held \subseteq members
    OBVIOUS
  <2>8. /\ Cardinality(reach) <= Cardinality(held)
        /\ Cardinality(reach) \in Nat /\ Cardinality(held) \in Nat
    <3>1. IsFiniteSet(members)
      BY PeerCount
    <3> HIDE DEF members, reach, held
    <3>2. IsFiniteSet(held) /\ IsFiniteSet(reach)
      BY <2>7, <3>1, FS_Subset
    <3> QED
      BY <2>7, <3>2, FS_Subset, FS_CardinalityType
  <2>9. Len(Peers[n]) \div 2 + 1 = Majority(n) /\ Len(Peers[n]) \div 2 \in Nat
    <3>1. Len(Peers[n]) \in Nat /\ Len(Peers[n]) % 2 = 0
      BY PeerCount
    <3>2. \A k \in Nat : k % 2 = 0 => (k + 1) \div 2 = k \div 2 /\ k \div 2 \in Nat
      OBVIOUS
    <3> QED
      BY <3>1, <3>2 DEF Majority
  <2>10. Cardinality(held) >= Majority(n)
    <3>1. \A a, b, h \in Nat : a > h /\ a <= b => b >= h + 1
      OBVIOUS
    <3> HIDE DEF held, reach
    <3>2. Cardinality(held) >= Len(Peers[n]) \div 2 + 1
      BY <2>3, <2>8, <2>9, <3>1
    <3> QED
      BY <2>9, <3>2
  <2>11. m_logs[n][m_commitIndex'[n]].term = m_currentTerm[n]
    BY <2>4, <2>5 DEF TermAt
  <2> QED
    BY <2>6, <2>10, <2>11
<1>2. IndexInv /\ [Next]_vars => [\A n \in Node : Backed(n)]_vars
  BY <1>1
<1> QED
  BY <1>2, IndexInvariant, PTL DEF Spec, CommitBacked, Backed

-----------------------------------------------------------------------------
(* The merge of handleAppendEntries *)

(* A part of a log, entry by entry. *)
LEMMA PartOfLog ==
    ASSUME NEW S, NEW s \in Seq(S), NEW a \in Nat \ {0}, NEW b \in Nat,
           b <= Len(s), a <= b + 1
    PROVE  /\ SubSeq(s, a, b) \in Seq(S) /\ Len(SubSeq(s, a, b)) = b - a + 1
           /\ \A i \in 1..(b - a + 1) : SubSeq(s, a, b)[i] = s[a + i - 1]
<1>1. a \in Int /\ b \in Int /\ \A i \in a..b : s[i] \in S
  BY ElementOfSeq
<1>2. Len(SubSeq(s, a, b)) = IF a <= b THEN b - a + 1 ELSE 0
  BY <1>1, SubSeqProperties
<1> QED
  BY <1>1, <1>2, SubSeqProperties

(* What handleAppendEntries tests for the j-th entry of a request. *)
Same(log, prev, entries, j) ==
    prev + j <= Len(log) /\ log[prev + j].term = entries[j].term

(* The number of entries it skips. *)
Skips(log, prev, entries, k) ==
    /\ \A j \in 1..k : Same(log, prev, entries, j)
    /\ k = Len(entries) \/ ~Same(log, prev, entries, k + 1)

(* There is such a number: its loop stops at the first conflict. *)
LEMMA SomeSkipped ==
    ASSUME NEW log, NEW prev, NEW entries, Len(entries) \in Nat
    PROVE  \E k \in 0..Len(entries) : Skips(log, prev, entries, k)
<1> DEFINE D == {j \in 1..Len(entries) : ~Same(log, prev, entries, j)}
<1>1. CASE D = {}
  <2>1. Skips(log, prev, entries, Len(entries))
    BY <1>1 DEF Skips
  <2> QED
    BY <2>1
<1>2. CASE D # {}
  <2>1. PICK i \in D : \A j \in D : i <= j
    <3>1. D \in SUBSET Nat
      OBVIOUS
    <3> HIDE DEF D
    <3> QED
      BY <1>2, <3>1, LeastNat
  <2>2. i - 1 \in 0..Len(entries) /\ i - 1 + 1 = i
    BY <2>1
  <2>3. \A j \in 1..(i - 1) : Same(log, prev, entries, j)
    BY <2>1
  <2>4. Skips(log, prev, entries, i - 1)
    BY <2>1, <2>2, <2>3 DEF Skips
  <2> QED
    BY <2>2, <2>4
<1> QED
  BY <1>1, <1>2

(* MergedLog in terms of the number of skipped entries. *)
LEMMA MergedLogIs ==
    ASSUME NEW log, NEW prev, NEW entries, Len(entries) \in Nat
    PROVE  \E k \in 0..Len(entries) :
              /\ Skips(log, prev, entries, k)
              /\ MergedLog(log, prev, entries) =
                   IF k = Len(entries) THEN log
                   ELSE SubSeq(log, 1, prev + k)
                          \o SubSeq(entries, k + 1, Len(entries))
<1> DEFINE kept == CHOOSE k \in 0..Len(entries) : Skips(log, prev, entries, k)
<1>1. kept \in 0..Len(entries) /\ Skips(log, prev, entries, kept)
  BY SomeSkipped
<1>2. MergedLog(log, prev, entries) =
         IF kept = Len(entries) THEN log
         ELSE SubSeq(log, 1, prev + kept)
                \o SubSeq(entries, kept + 1, Len(entries))
  BY DEF MergedLog, Skips, Same
<1> QED
  BY <1>1, <1>2

(* Where two matching logs have the same term they are the same so far. *)
LEMMA SameSoFar ==
    ASSUME NEW log \in Seq(Entry), NEW leader \in Seq(Entry),
           LogMatching(leader, log), NEW i \in Nat,
           i <= Len(log), i <= Len(leader), TermAt(log, i) = TermAt(leader, i)
    PROVE  /\ SubSeq(log, 1, i) = SubSeq(leader, 1, i)
           /\ \A j \in 1..i : log[j] = leader[j]
<1>1. CASE i = 0
  <2>1. SubSeq(log, 1, 0) = << >> /\ SubSeq(leader, 1, 0) = << >>
    BY SubSeqEmpty
  <2> QED
    BY <1>1, <2>1
<1>2. CASE i # 0
  <2>1. i \in DOMAIN leader \cap DOMAIN log /\ leader[i].term = log[i].term
    BY <1>2 DEF TermAt
  <2>2. SubSeq(leader, 1, i) = SubSeq(log, 1, i)
    BY <2>1 DEF LogMatching
  <2>3. /\ \A j \in 1..i : SubSeq(log, 1, i)[j] = log[j]
        /\ \A j \in 1..i : SubSeq(leader, 1, i)[j] = leader[j]
    BY PartOfLog
  <2> QED
    BY <2>2, <2>3
<1> QED
  BY <1>1, <1>2

(***************************************************************************)
(* Logs and requests of every length: a request with any run of entries of *)
(* a leader's log whose prevLogIndex matches leaves the log as it was when *)
(* it holds them already, and makes it the leader's up to the last of them *)
(* otherwise, provided the two logs match as Raft's logs do.               *)
(***************************************************************************)
THEOREM MergeIsRight ==
    ASSUME NEW log \in Seq(Entry), NEW leader \in Seq(Entry),
           LogMatching(leader, log)
    PROVE  MergesWith(log, leader)
<1> SUFFICES ASSUME NEW prev \in 0..Len(leader), NEW last \in prev..Len(leader),
                    prev <= Len(log), TermAt(log, prev) = TermAt(leader, prev)
             PROVE  MergesAs(log, leader, prev, last)
  BY DEF MergesWith
<1> DEFINE entries == SubSeq(leader, prev + 1, last)
           len == last - prev
           holds == /\ last <= Len(log)
                    /\ SubSeq(log, 1, last) = SubSeq(leader, 1, last)
<1>1. Len(log) \in Nat /\ Len(leader) \in Nat /\ prev \in Nat /\ last \in Nat
  OBVIOUS
<1>2. /\ entries \in Seq(Entry) /\ Len(entries) = len /\ len \in Nat
      /\ \A j \in 1..len : entries[j] = leader[prev + j]
  <2>1. /\ prev + 1 \in Nat \ {0} /\ prev + 1 <= last + 1
        /\ last - (prev + 1) + 1 = len
        /\ \A j \in 1..len : (prev + 1) + j - 1 = prev + j
    BY <1>1
  <2> QED
    BY <1>1, <2>1, PartOfLog
<1>3. PICK k \in 0..len :
         /\ Skips(log, prev, entries, k)
         /\ MergedLog(log, prev, entries) =
              IF k = len THEN log
              ELSE SubSeq(log, 1, prev + k) \o SubSeq(entries, k + 1, len)
  <2> HIDE DEF entries, len
  <2>1. Len(entries) \in Nat
    BY <1>2
  <2>2. \E k \in 0..Len(entries) :
           /\ Skips(log, prev, entries, k)
           /\ MergedLog(log, prev, entries) =
                IF k = Len(entries) THEN log
                ELSE SubSeq(log, 1, prev + k) \o SubSeq(entries, k + 1, Len(entries))
    BY <2>1, MergedLogIs, Zenon
  <2> QED
    BY <1>2, <2>2, Zenon
<1> HIDE DEF entries
<1>4. prev + k <= Len(log) /\ TermAt(log, prev + k) = TermAt(leader, prev + k)
  <2>1. CASE k = 0
    BY <1>1, <2>1
  <2>2. CASE k # 0
    <3>1. Same(log, prev, entries, k)
      BY <1>3, <2>2 DEF Skips
    <3>2. prev + k # 0
      BY <1>1, <2>2
    <3> QED
      BY <1>1, <1>2, <2>2, <3>1, <3>2 DEF Same, TermAt
  <2> QED
    BY <2>1, <2>2
<1>5. /\ SubSeq(log, 1, prev + k) = SubSeq(leader, 1, prev + k)
      /\ prev + k \in Nat /\ prev + k <= Len(leader)
  BY <1>1, <1>4, SameSoFar
<1>6. CASE k = len
  <2>1. prev + k = last
    BY <1>1, <1>6
  <2>2. holds
    BY <1>4, <1>5, <2>1
  <2> QED
    BY <1>3, <1>6, <2>2 DEF MergesAs, entries
<1>7. CASE k # len
  <2>1. ~Same(log, prev, entries, k + 1) /\ k + 1 \in 1..len
    BY <1>2, <1>3, <1>7 DEF Skips
  <2>2. ~holds
    <3> SUFFICES ASSUME holds PROVE FALSE
      OBVIOUS
    <3>1. prev + (k + 1) \in 1..last
      BY <1>1, <2>1
    <3>2. /\ SubSeq(log, 1, last)[prev + (k + 1)] = log[prev + (k + 1)]
          /\ SubSeq(leader, 1, last)[prev + (k + 1)] = leader[prev + (k + 1)]
      <4>1. /\ 1 \in Nat \ {0} /\ 1 <= last + 1 /\ last - 1 + 1 = last
            /\ 1 + (prev + (k + 1)) - 1 = prev + (k + 1)
        BY <1>1
      <4>2. /\ \A i \in 1..(last - 1 + 1) : SubSeq(log, 1, last)[i] = log[1 + i - 1]
            /\ \A i \in 1..(last - 1 + 1) : SubSeq(leader, 1, last)[i] = leader[1 + i - 1]
        BY <1>1, <4>1, PartOfLog
      <4> QED
        BY <3>1, <4>1, <4>2
    <3>3. log[prev + (k + 1)] = leader[prev + (k + 1)]
      BY <3>2
    <3>4. prev + (k + 1) <= Len(log)
      BY <1>1, <3>1
    <3> QED
      BY <1>2, <2>1, <3>3, <3>4 DEF Same
  <2>3. SubSeq(leader, 1, prev + k) \o SubSeq(entries, k + 1, len)
          = SubSeq(leader, 1, last)
    <3> DEFINE a == SubSeq(leader, 1, prev + k)
               b == SubSeq(entries, k + 1, len)
               c == SubSeq(leader, 1, last)
    <3>1. /\ a \in Seq(Entry) /\ Len(a) = prev + k
          /\ \A i \in 1..(prev + k) : a[i] = leader[i]
      BY <1>5, PartOfLog
    <3>2. /\ b \in Seq(Entry) /\ Len(b) = len - k
          /\ \A i \in 1..(len - k) : b[i] = entries[k + i]
      <4>1. /\ k + 1 \in Nat \ {0} /\ k + 1 <= len + 1 /\ len - (k + 1) + 1 = len - k
            /\ \A i \in 1..(len - k) : (k + 1) + i - 1 = k + i
        BY <1>2
      <4> QED
        BY <1>2, <4>1, PartOfLog
    <3>3. /\ c \in Seq(Entry) /\ Len(c) = last
          /\ \A i \in 1..last : c[i] = leader[i]
      BY <1>1, PartOfLog
    <3>4. /\ a \o b \in Seq(Entry) /\ Len(a \o b) = (prev + k) + (len - k)
          /\ \A i \in 1..((prev + k) + (len - k)) :
                (a \o b)[i] = IF i <= prev + k THEN a[i] ELSE b[i - (prev + k)]
      <4> HIDE DEF a, b
      <4>1. /\ a \o b \in Seq(Entry) /\ Len(a \o b) = Len(a) + Len(b)
            /\ \A i \in 1..(Len(a) + Len(b)) :
                  (a \o b)[i] = IF i <= Len(a) THEN a[i] ELSE b[i - Len(a)]
        BY <3>1, <3>2, ConcatProperties, Zenon
      <4> QED
        BY <3>1, <3>2, <4>1, Zenon
    <3>5. (prev + k) + (len - k) = last
      BY <1>1, <1>2
    <3> HIDE DEF a, b, c
    <3>6. ASSUME NEW i \in 1..last PROVE (a \o b)[i] = c[i]
      <4>1. CASE i <= prev + k
        <5>1. i \in 1..(prev + k)
          BY <1>1, <4>1
        <5>2. (a \o b)[i] = a[i]
          BY <3>4, <3>5, <4>1
        <5> QED
          BY <3>1, <3>3, <5>1, <5>2
      <4>2. CASE ~(i <= prev + k)
        <5>1. /\ i - (prev + k) \in 1..(len - k)
              /\ k + (i - (prev + k)) \in 1..len
              /\ prev + (k + (i - (prev + k))) = i
          BY <1>1, <1>2, <4>2
        <5>2. (a \o b)[i] = b[i - (prev + k)]
          BY <3>4, <3>5, <4>2
        <5>3. b[i - (prev + k)] = entries[k + (i - (prev + k))]
          BY <3>2, <5>1
        <5>4. entries[k + (i - (prev + k))] = leader[i]
          BY <1>2, <5>1
        <5> QED
          BY <3>3, <5>2, <5>3, <5>4
      <4> QED
        BY <4>1, <4>2
    <3>7. a \o b = c
      BY <3>3, <3>4, <3>5, <3>6, SeqEqual
    <3> QED
      BY <3>7 DEF a, b, c
  <2> QED
    BY <1>3, <1>5, <1>7, <2>2, <2>3 DEF MergesAs, entries
<1> QED
  BY <1>6, <1>7

-----------------------------------------------------------------------------
(* Terms *)

(* No message carries a term that no election was started for. *)
MessageTerms ==
    /\ \A c \in Conn :
          /\ \A k \in 1..Len(reqs[c]) : reqs[c][k].term <= MaxTerm
          /\ \A k \in 1..Len(reps[c]) : reps[c][k].term <= MaxTerm
    /\ \A o \in orphans : o[2].term <= MaxTerm

(* Nor is a node in such a term; a candidate has left term 0. *)
NodeTerms ==
    \A n \in Node :
       /\ m_currentTerm[n] <= MaxTerm
       /\ holder[n] = "election" => m_currentTerm[n] >= 1

ElectedTerms == \A e \in elected : e[1] >= 1

TermInv == MessageTerms /\ NodeTerms /\ ElectedTerms

(* What a step may do to the queue of a connection. *)
Moves(S, old, new) ==
    \/ new = old
    \/ new = << >>
    \/ old # << >> /\ new = Tail(old)
    \/ \E x \in S : x.term <= MaxTerm /\ new = Append(old, x)

(* It brings in no later term. *)
LEMMA MovesKeepTerms ==
    ASSUME NEW S, NEW old \in Seq(S), NEW new, Moves(S, old, new),
           \A k \in 1..Len(old) : old[k].term <= MaxTerm
    PROVE  \A k \in 1..Len(new) : new[k].term <= MaxTerm
<1>1. CASE new = old \/ new = << >>
  BY <1>1
<1>2. CASE old # << >> /\ new = Tail(old)
  <2>1. /\ Len(new) = Len(old) - 1 /\ Len(old) \in Nat
        /\ \A k \in 1..Len(new) : new[k] = old[k + 1]
    BY <1>2, HeadTailProperties
  <2> QED
    BY <2>1
<1>3. CASE \E x \in S : x.term <= MaxTerm /\ new = Append(old, x)
  <2>1. PICK x \in S : x.term <= MaxTerm /\ new = Append(old, x)
    BY <1>3
  <2>2. /\ Len(new) = Len(old) + 1 /\ Len(old) \in Nat
        /\ \A k \in 1..Len(old) : new[k] = old[k]
        /\ new[Len(old) + 1] = x
    BY <2>1, AppendProperties
  <2> QED
    BY <2>1, <2>2
<1> QED
  BY <1>1, <1>2, <1>3 DEF Moves

(* Requests that lose their connection keep their term. *)
LEMMA OrphanedTerms ==
    ASSUME MessageTerms, NEW C \in SUBSET Conn
    PROVE  \A o \in Orphaned(C) : o[2].term <= MaxTerm
BY DEF MessageTerms, Orphaned

(* A step that moves queues in these ways keeps MessageTerms. *)
LEMMA MessagesMove ==
    ASSUME IndexInv, MessageTerms, NEW C \in SUBSET Conn,
           \A c \in Conn : Moves(Request, reqs[c], reqs'[c]),
           \A c \in Conn : Moves(Reply, reps[c], reps'[c]),
           orphans' \subseteq orphans \cup Orphaned(C)
    PROVE  MessageTerms'
<1>1. ASSUME NEW c \in Conn
      PROVE  /\ \A k \in 1..Len(reqs'[c]) : reqs'[c][k].term <= MaxTerm
             /\ \A k \in 1..Len(reps'[c]) : reps'[c][k].term <= MaxTerm
  <2>1. reqs[c] \in Seq(Request) /\ reps[c] \in Seq(Reply)
    BY DEF IndexInv, TypeOK
  <2>2. /\ \A k \in 1..Len(reqs[c]) : reqs[c][k].term <= MaxTerm
        /\ \A k \in 1..Len(reps[c]) : reps[c][k].term <= MaxTerm
    BY DEF MessageTerms
  <2>3. \A k \in 1..Len(reqs'[c]) : reqs'[c][k].term <= MaxTerm
    BY <2>1, <2>2, MovesKeepTerms
  <2>4. \A k \in 1..Len(reps'[c]) : reps'[c][k].term <= MaxTerm
    BY <2>1, <2>2, MovesKeepTerms
  <2> QED
    BY <2>3, <2>4
<1>2. \A o \in orphans' : o[2].term <= MaxTerm
  BY OrphanedTerms DEF MessageTerms
<1> QED
  BY <1>1, <1>2 DEF MessageTerms

(* The connections are left alone. *)
LEMMA MessagesKept ==
    ASSUME MessageTerms, UNCHANGED <<reqs, reps, orphans>> PROVE MessageTerms'
BY DEF MessageTerms

(* The terms of the nodes, when none of them moves on. *)
LEMMA NodeTermsKept ==
    ASSUME NodeTerms, m_currentTerm' = m_currentTerm,
           \A n \in Node : holder'[n] = "election" => holder[n] = "election"
    PROVE  NodeTerms'
BY DEF NodeTerms

(* A node takes over the term of a message. *)
LEMMA NodeTermsTaken ==
    ASSUME IndexInv, NodeTerms, NEW r \in Node, NEW t \in Nat, t <= MaxTerm,
           m_currentTerm' = [m_currentTerm EXCEPT ![r] = t],
           holder'[r] # "election",
           \A n \in Node \ {r} : holder'[n] = holder[n]
    PROVE  NodeTerms'
BY DEF IndexInv, TypeOK, NodeTerms

(* A reply that is read has a term that MaxTerm allows. *)
LEMMA TakenTerm ==
    ASSUME IndexInv, MessageTerms, NEW r \in Node, TakeReply(r)
    PROVE  /\ TheReply(r).term \in Nat /\ TheReply(r).term <= MaxTerm
           /\ MessageTerms'
<1> DEFINE c == CurrentConn(r)
<1>1. c \in Conn /\ TheReply(r) \in Reply
  BY TakeReplyType
<1>2. TheReply(r).term \in Nat
  BY <1>1 DEF Reply, RequestVoteReply, AppendEntriesReply
<1>3. reps[c] \in Seq(Reply) /\ reps[c] # << >> /\ reps \in [Conn -> Seq(Reply)]
  BY <1>1 DEF IndexInv, TypeOK, TakeReply
<1>4. TheReply(r).term <= MaxTerm
  <2>1. 1 \in 1..Len(reps[c]) /\ Head(reps[c]) = reps[c][1]
    BY <1>3
  <2> QED
    BY <1>1, <2>1 DEF MessageTerms, TheReply
<1>5. /\ reps' = [reps EXCEPT ![c] = Tail(reps[c])]
      /\ UNCHANGED <<reqs, orphans>>
  BY DEF TakeReply, releaseConnection
<1> HIDE DEF c
<1>6. \A d \in Conn : Moves(Reply, reps[d], reps'[d])
  <2> SUFFICES ASSUME NEW d \in Conn PROVE Moves(Reply, reps[d], reps'[d])
    OBVIOUS
  <2>1. CASE d = c
    BY <1>1, <1>3, <1>5, <2>1 DEF Moves
  <2>2. CASE d # c
    BY <1>1, <1>3, <1>5, <2>2 DEF Moves
  <2> QED
    BY <2>1, <2>2
<1>7. \A d \in Conn : Moves(Request, reqs[d], reqs'[d])
  BY <1>5 DEF Moves
<1>8. MessageTerms'
  <2>1. orphans' \subseteq orphans \cup Orphaned({})
    BY <1>5
  <2> QED
    BY <1>6, <1>7, <2>1, MessagesMove
<1> QED
  BY <1>2, <1>4, <1>8

(* startElection goes to a term that the bound allows. *)
LEMMA TermsStartElection ==
    ASSUME IndexInv, TermInv, NEW r \in Node, StartElection(r) PROVE TermInv'
<1>1. /\ m_currentTerm \in [Node -> Nat]
      /\ holder \in [Node -> {"free", "election", "heartbeat"}]
  BY DEF IndexInv, TypeOK
<1>2. /\ m_currentTerm' = [m_currentTerm EXCEPT ![r] = m_currentTerm[r] + 1]
      /\ holder' = [holder EXCEPT ![r] = "election"]
      /\ m_currentTerm[r] < MaxTerm /\ UNCHANGED <<connVars, elected>>
  BY DEF StartElection
<1>3. NodeTerms'
  BY <1>1, <1>2, BoundAssumption DEF TermInv, NodeTerms
<1>4. MessageTerms'
  BY <1>2, MessagesKept DEF TermInv, connVars
<1>5. ElectedTerms'
  BY <1>2 DEF TermInv, ElectedTerms
<1> QED
  BY <1>3, <1>4, <1>5 DEF TermInv

(* What neither sends nor reads nor moves to another term. *)
LEMMA TermsPassKept ==
    ASSUME IndexInv, TermInv, NEW r \in Node,
           \/ Poll(r) \/ StartHeartbeat(r) \/ LoseElection(r) \/ FinishHeartbeat(r)
           \/ SendFails(r) \/ WinElection(r)
    PROVE  TermInv'
<1>1. holder \in [Node -> {"free", "election", "heartbeat"}]
  BY DEF IndexInv, TypeOK
<1>2. UNCHANGED <<m_currentTerm, reqs, reps, orphans>>
  BY DEF Poll, StartHeartbeat, LoseElection, FinishHeartbeat, SendFails,
         WinElection, vars, nodeVars, connVars
<1>3. \/ holder' = holder
      \/ holder' = [holder EXCEPT ![r] = "free"]
      \/ holder' = [holder EXCEPT ![r] = "heartbeat"]
  BY DEF Poll, StartHeartbeat, LoseElection, FinishHeartbeat, SendFails,
         WinElection, Unlock, vars, passVars
<1>4. NodeTerms'
  BY <1>1, <1>2, <1>3, NodeTermsKept DEF TermInv
<1>5. MessageTerms'
  BY <1>2, MessagesKept DEF TermInv
<1>6. CASE elected' = elected
  BY <1>4, <1>5, <1>6 DEF TermInv, ElectedTerms
<1>7. CASE WinElection(r)
  <2>1. m_currentTerm[r] >= 1
    BY <1>7 DEF WinElection, ElectionOver, TermInv, NodeTerms
  <2>2. elected' = elected \cup {<<m_currentTerm[r], r>>}
    BY <1>7 DEF WinElection
  <2>3. ElectedTerms'
    BY <2>1, <2>2 DEF TermInv, ElectedTerms
  <2> QED
    BY <1>4, <1>5, <2>3 DEF TermInv
<1> QED
  BY <1>6, <1>7 DEF Poll, StartHeartbeat, LoseElection, FinishHeartbeat, SendFails, vars

(* A request carries the sender's term. *)
LEMMA TermsSendRequest ==
    ASSUME IndexInv, TermInv, NEW r \in Node, SendRequest(r) PROVE TermInv'
<1> DEFINE c == CurrentConn(r)
           x == RequestTo(r, CurrentPeer(r))
<1>1. c \in Conn /\ CurrentPeer(r) \in PeerSet(r)
  BY CurrentPeerType DEF SendRequest
<1>2. x \in Request /\ x.term <= MaxTerm
  <2>1. x \in Request
    BY <1>1, RequestToType DEF SendRequest, InCall
  <2>2. x.term = m_currentTerm[r]
    BY DEF RequestTo, VoteRequest, AppendRequest
  <2> QED
    BY <2>1, <2>2 DEF TermInv, NodeTerms
<1>3. /\ reqs' = reqs \/ reqs' = [reqs EXCEPT ![c] = Append(reqs[c], x)]
      /\ UNCHANGED <<m_currentTerm, holder, reps, orphans, elected>>
  BY DEF SendRequest, nodeVars
<1>4. reqs \in [Conn -> Seq(Request)]
  BY DEF IndexInv, TypeOK
<1> HIDE DEF c, x
<1>5. \A d \in Conn : Moves(Request, reqs[d], reqs'[d])
  <2> SUFFICES ASSUME NEW d \in Conn PROVE Moves(Request, reqs[d], reqs'[d])
    OBVIOUS
  <2>1. CASE reqs'[d] = reqs[d]
    BY <2>1 DEF Moves
  <2>2. CASE reqs'[d] = Append(reqs[d], x)
    BY <1>2, <2>2 DEF Moves
  <2> QED
    BY <1>1, <1>3, <1>4, <2>1, <2>2
<1>6. MessageTerms'
  <2>1. orphans' \subseteq orphans \cup Orphaned({})
    BY <1>3
  <2>2. \A d \in Conn : Moves(Reply, reps[d], reps'[d])
    BY <1>3 DEF Moves
  <2> QED
    BY <1>5, <2>1, <2>2, MessagesMove DEF TermInv
<1> QED
  BY <1>3, <1>6, NodeTermsKept DEF TermInv, ElectedTerms

(* recvMessage fails: at most a reply is lost. *)
LEMMA TermsRecvFails ==
    ASSUME IndexInv, TermInv, NEW r \in Node, RecvFails(r) PROVE TermInv'
<1> DEFINE c == CurrentConn(r)
<1>1. c \in Conn
  BY CurrentPeerType DEF RecvFails
<1>2. /\ \/ reps' = [reps EXCEPT ![c] = reps[c]]
         \/ reps[c] # << >> /\ reps' = [reps EXCEPT ![c] = Tail(reps[c])]
      /\ UNCHANGED <<m_currentTerm, holder, reqs, orphans, elected>>
  BY DEF RecvFails, releaseConnection, nodeVars
<1>3. reps \in [Conn -> Seq(Reply)]
  BY DEF IndexInv, TypeOK
<1> HIDE DEF c
<1>4. \A d \in Conn : Moves(Reply, reps[d], reps'[d])
  <2> SUFFICES ASSUME NEW d \in Conn PROVE Moves(Reply, reps[d], reps'[d])
    OBVIOUS
  <2>1. CASE reps'[d] = reps[d]
    BY <2>1 DEF Moves
  <2>2. CASE reps[d] # << >> /\ reps'[d] = Tail(reps[d])
    BY <2>2 DEF Moves
  <2> QED
    BY <1>1, <1>2, <1>3, <2>1, <2>2
<1>5. MessageTerms'
  <2>1. orphans' \subseteq orphans \cup Orphaned({})
    BY <1>2
  <2>2. \A d \in Conn : Moves(Request, reqs[d], reqs'[d])
    BY <1>2 DEF Moves
  <2> QED
    BY <1>4, <2>1, <2>2, MessagesMove DEF TermInv
<1> QED
  BY <1>2, <1>5, NodeTermsKept DEF TermInv, ElectedTerms

(* A reply is read, and its term may be taken over. *)
LEMMA TermsRecv ==
    ASSUME IndexInv, TermInv, NEW r \in Node,
           RecvWrongKind(r) \/ RecvVote(r) \/ RecvAppend(r)
    PROVE  TermInv'
<1>1. TakeReply(r)
  BY DEF RecvWrongKind, RecvVote, RecvAppend
<1>2. TheReply(r).term \in Nat /\ TheReply(r).term <= MaxTerm /\ MessageTerms'
  BY <1>1, TakenTerm DEF TermInv
<1>3. ElectedTerms'
  BY <1>1 DEF TermInv, ElectedTerms, TakeReply
<1>4. CASE UNCHANGED <<m_currentTerm, holder>>
  BY <1>2, <1>3, <1>4, NodeTermsKept DEF TermInv
<1>5. CASE StepDown(r, TheReply(r).term)
  <2>1. /\ holder \in [Node -> {"free", "election", "heartbeat"}]
        /\ holder' = [holder EXCEPT ![r] = "free"]
        /\ m_currentTerm' = [m_currentTerm EXCEPT ![r] = TheReply(r).term]
    BY <1>5 DEF StepDown, Unlock, IndexInv, TypeOK
  <2>2. holder'[r] # "election" /\ \A n \in Node \ {r} : holder'[n] = holder[n]
    BY <2>1
  <2>3. NodeTerms'
    BY <1>2, <2>1, <2>2, NodeTermsTaken DEF TermInv
  <2> QED
    BY <1>2, <1>3, <2>3 DEF TermInv
<1> QED
  BY <1>4, <1>5
     DEF RecvWrongKind, RecvVote, RecvAppend, VoteReceived, VoteRefused,
         AppendAccepted, AppendOutdated, AppendMismatch, nodeVars

(* A handler may take over the term of the request. *)
LEMMA TermsHandle ==
    ASSUME IndexInv, TermInv, NEW p \in Node, holder[p] = "free",
           NEW a \in Request, a.term <= MaxTerm, Handle(p, a),
           UNCHANGED <<passVars, elected>>, MessageTerms'
    PROVE  TermInv'
<1>1. a.term \in Nat
  BY RequestTypes
<1>2. \/ m_currentTerm' = m_currentTerm
      \/ m_currentTerm' = [m_currentTerm EXCEPT ![p] = a.term]
  BY DEF Handle, handleRequestVote, handleAppendEntries
<1>3. NodeTerms'
  BY <1>1, <1>2, NodeTermsKept, NodeTermsTaken DEF TermInv, passVars
<1> QED
  BY <1>3 DEF TermInv, ElectedTerms

(* Its reply carries the request's term or the node's own. *)
LEMMA ReplyTerm ==
    ASSUME IndexInv, NodeTerms, NEW p \in Node, NEW a \in Request, a.term <= MaxTerm
    PROVE  ReplyTo(p, a) \in Reply /\ ReplyTo(p, a).term <= MaxTerm
<1>1. ReplyTo(p, a) \in Reply
  BY ReplyToType
<1>2. ReplyTo(p, a).term \in {a.term, m_currentTerm[p]}
  BY DEF ReplyTo, RequestVoteReplyTo, AppendEntriesReplyTo
<1> QED
  BY <1>1, <1>2 DEF NodeTerms

(* A request is read, handled and answered. *)
LEMMA TermsServeRequest ==
    ASSUME IndexInv, TermInv, NEW n \in Node, NEW p \in Node, ServeRequest(n, p)
    PROVE  TermInv'
<1> DEFINE c == <<n, p>>
           a == Head(reqs[c])
           x == ReplyTo(p, a)
<1>1. c \in Conn /\ reqs \in [Conn -> Seq(Request)] /\ reps \in [Conn -> Seq(Reply)]
  BY DEF Conn, IndexInv, TypeOK
<1>2. /\ reqs[c] # << >> /\ holder[p] = "free" /\ Handle(p, a)
      /\ reqs' = [reqs EXCEPT ![c] = Tail(reqs[c])]
      /\ reps' = [reps EXCEPT ![c] = Append(reps[c], x)]
      /\ UNCHANGED <<passVars, orphans, elected>>
  BY DEF ServeRequest
<1>3. a \in Request
  BY <1>1, <1>2, HeadRequest
<1>4. a.term <= MaxTerm
  <2>1. 1 \in 1..Len(reqs[c]) /\ a = reqs[c][1]
    BY <1>1, <1>2
  <2> QED
    BY <1>1, <2>1 DEF TermInv, MessageTerms
<1>5. x \in Reply /\ x.term <= MaxTerm
  BY <1>3, <1>4, ReplyTerm DEF TermInv
<1> HIDE DEF c, a, x
<1>6. ASSUME NEW d \in Conn
      PROVE  Moves(Request, reqs[d], reqs'[d]) /\ Moves(Reply, reps[d], reps'[d])
  <2>1. CASE d = c
    <3>1. reqs'[d] = Tail(reqs[d]) /\ reps'[d] = Append(reps[d], x)
      BY <1>1, <1>2, <2>1
    <3> QED
      BY <1>2, <1>5, <2>1, <3>1 DEF Moves
  <2>2. CASE d # c
    BY <1>1, <1>2, <2>2 DEF Moves
  <2> QED
    BY <2>1, <2>2
<1>7. MessageTerms'
  <2>1. orphans' \subseteq orphans \cup Orphaned({})
    BY <1>2
  <2> QED
    BY <1>6, <2>1, MessagesMove DEF TermInv
<1> QED
  BY <1>2, <1>3, <1>4, <1>7, TermsHandle

(* The same for a request whose caller has gone. *)
LEMMA TermsServeOrphan ==
    ASSUME IndexInv, TermInv, NEW p \in Node, ServeOrphan(p) PROVE TermInv'
<1>1. PICK o \in orphans : o[1] = p /\ Handle(p, o[2]) /\ orphans' = orphans \ {o}
  BY DEF ServeOrphan
<1>2. o[2] \in Request /\ o[2].term <= MaxTerm
  BY DEF IndexInv, TypeOK, TermInv, MessageTerms
<1>3. holder[p] = "free" /\ UNCHANGED <<passVars, reqs, reps, elected>>
  BY DEF ServeOrphan
<1>4. MessageTerms'
  BY <1>1, <1>3 DEF TermInv, MessageTerms
<1> QED
  BY <1>1, <1>2, <1>3, <1>4, TermsHandle

(* Connections come and go, a command comes in. *)
LEMMA TermsOther ==
    ASSUME IndexInv, TermInv, NEW n \in Node, NEW p \in Node,
           \/ PeerCloses(n, p) \/ CleanupConnection(n, p)
           \/ \E cmd \in Command : SubmitLog(n, cmd)
    PROVE  TermInv'
<1>1. UNCHANGED <<m_currentTerm, holder, elected>>
  BY DEF PeerCloses, CleanupConnection, SubmitLog, nodeVars, passVars
<1>2. NodeTerms' /\ ElectedTerms'
  BY <1>1, NodeTermsKept DEF TermInv, ElectedTerms
<1>3. MessageTerms'
  <2>1. CASE \E cmd \in Command : SubmitLog(n, cmd)
    BY <2>1, MessagesKept DEF SubmitLog, connVars, TermInv
  <2>2. CASE PeerCloses(n, p) \/ CleanupConnection(n, p)
    <3> DEFINE c == <<n, p>>
               C == {c}
    <3>1. /\ reqs' = [reqs EXCEPT ![c] = << >>]
          /\ reps' = reps \/ reps' = [reps EXCEPT ![c] = << >>]
          /\ orphans' \subseteq orphans \cup Orphaned(C)
      BY <2>2 DEF PeerCloses, CleanupConnection
    <3>2. /\ C \in SUBSET Conn /\ reqs \in [Conn -> Seq(Request)]
          /\ reps \in [Conn -> Seq(Reply)]
      BY DEF IndexInv, TypeOK, Conn
    <3> HIDE DEF c, C
    <3>3. \A d \in Conn : /\ reqs'[d] = reqs[d] \/ reqs'[d] = << >>
                          /\ reps'[d] = reps[d] \/ reps'[d] = << >>
      BY <3>1, <3>2
    <3>4. \A d \in Conn : Moves(Request, reqs[d], reqs'[d]) /\ Moves(Reply, reps[d], reps'[d])
      BY <3>3 DEF Moves
    <3> QED
      BY <3>1, <3>2, <3>4, MessagesMove DEF TermInv
  <2> QED
    BY <2>1, <2>2
<1> QED
  BY <1>2, <1>3 DEF TermInv

(* A restarted process is in term 0. *)
LEMMA TermsRestart ==
    ASSUME IndexInv, TermInv, NEW r \in Node, Restart(r) PROVE TermInv'
<1> DEFINE C == {c \in Conn : c[1] = r}
<1>1. /\ reqs' = [c \in Conn |-> IF r \in {c[1], c[2]} THEN << >> ELSE reqs[c]]
      /\ reps' = [c \in Conn |-> IF c[1] = r THEN << >> ELSE reps[c]]
      /\ orphans' \subseteq orphans \cup Orphaned(C)
      /\ m_currentTerm' = [m_currentTerm EXCEPT ![r] = 0]
      /\ holder' = [holder EXCEPT ![r] = "free"] /\ UNCHANGED elected
  BY DEF Restart, Unlock
<1>2. \A d \in Conn : /\ reqs'[d] = reqs[d] \/ reqs'[d] = << >>
                      /\ reps'[d] = reps[d] \/ reps'[d] = << >>
  BY <1>1
<1>3. \A d \in Conn : Moves(Request, reqs[d], reqs'[d]) /\ Moves(Reply, reps[d], reps'[d])
  BY <1>2 DEF Moves
<1>4. C \in SUBSET Conn
  OBVIOUS
<1> HIDE DEF C
<1>5. MessageTerms'
  BY <1>1, <1>3, <1>4, MessagesMove DEF TermInv
<1>6. holder'[r] # "election" /\ \A n \in Node \ {r} : holder'[n] = holder[n]
  BY <1>1 DEF IndexInv, TypeOK
<1>7. NodeTerms'
  <2>1. 0 \in Nat /\ 0 <= MaxTerm /\ NodeTerms
    BY BoundAssumption DEF TermInv
  <2>2. m_currentTerm' = [m_currentTerm EXCEPT ![r] = 0]
    BY <1>1
  <2> QED
    BY <1>6, <2>1, <2>2, NodeTermsTaken
<1> QED
  BY <1>1, <1>5, <1>7 DEF TermInv, ElectedTerms

(* Every step keeps the terms in bounds. *)
LEMMA TermStep ==
    ASSUME IndexInv, TermInv, [Next]_vars PROVE TermInv'
<1>1. ASSUME NEW r \in Node, PassStep(r) PROVE TermInv'
  BY <1>1, TermsPassKept, TermsSendRequest, TermsRecvFails, TermsRecv DEF PassStep
<1>2. ASSUME NEW r \in Node,
             \/ Poll(r) \/ StartElection(r) \/ StartHeartbeat(r)
             \/ ServeOrphan(r) \/ Restart(r)
      PROVE  TermInv'
  BY <1>2, TermsPassKept, TermsStartElection, TermsServeOrphan, TermsRestart
<1>3. ASSUME NEW r \in Node, \E cmd \in Command : SubmitLog(r, cmd) PROVE TermInv'
  BY <1>3, TermsOther
<1>4. ASSUME NEW n \in Node, NEW p \in Node,
             ServeRequest(n, p) \/ PeerCloses(n, p) \/ CleanupConnection(n, p)
      PROVE  TermInv'
  BY <1>4, TermsServeRequest, TermsOther
<1>5. CASE UNCHANGED vars
  BY <1>5 DEF TermInv, MessageTerms, NodeTerms, ElectedTerms, vars, nodeVars,
              passVars, connVars
<1> QED
  BY <1>1, <1>2, <1>3, <1>4, <1>5 DEF Next

(***************************************************************************)
(* The entries of a log: bounded in number, of terms from 1 to the node's  *)
(* own, in the order of their terms.                                       *)
(***************************************************************************)
Ordered(log, term) ==
    /\ \A i \in 1..Len(log) : log[i].term \in 1..term
    /\ \A i, j \in 1..Len(log) : i <= j => log[i].term <= log[j].term

LogTerms ==
    \A n \in Node : Len(m_logs[n]) <= MaxLog /\ Ordered(m_logs[n], m_currentTerm[n])

(* An entry of the present term may follow. *)
LEMMA OrderedAppend ==
    ASSUME NEW log \in Seq(Entry), NEW e \in Entry, e.term >= 1,
           Ordered(log, e.term)
    PROVE  Ordered(Append(log, e), e.term)
<1>1. /\ Len(Append(log, e)) = Len(log) + 1 /\ Len(log) \in Nat
      /\ \A i \in 1..Len(log) : Append(log, e)[i] = log[i]
      /\ Append(log, e)[Len(log) + 1] = e
  BY AppendProperties
<1>2. e.term \in Nat
  BY DEF Entry
<1>3. \A i \in 1..Len(Append(log, e)) : Append(log, e)[i].term \in 1..e.term
  BY <1>1, <1>2 DEF Ordered
<1>4. ASSUME NEW i \in 1..Len(Append(log, e)), NEW j \in 1..Len(Append(log, e)), i <= j
      PROVE  Append(log, e)[i].term <= Append(log, e)[j].term
  <2>1. CASE j <= Len(log)
    BY <1>1, <1>4, <2>1 DEF Ordered
  <2>2. CASE ~(j <= Len(log))
    <3>1. j = Len(log) + 1
      BY <1>1, <2>2
    <3> QED
      BY <1>1, <1>2, <1>3, <3>1
  <2> QED
    BY <2>1, <2>2
<1> QED
  BY <1>3, <1>4 DEF Ordered

(* A later term of the node does not matter. *)
LEMMA OrderedLater ==
    ASSUME NEW log, NEW t \in Nat, NEW u \in Nat, t <= u, Ordered(log, t)
    PROVE  Ordered(log, u)
BY DEF Ordered

(* Every step keeps the logs in order. *)
LEMMA LogTermsStep ==
    ASSUME IndexInv, IndexInv', TermInv, LeaderWonItsTerm, LogTerms, [Next]_vars
    PROVE  LogTerms'
<1>1. /\ m_logs \in [Node -> Seq(Entry)] /\ m_currentTerm \in [Node -> Nat]
  BY DEF IndexInv, TypeOK
<1>2. m_currentTerm' \in [Node -> Nat]
  <2>1. TypeOK'
    BY DEF IndexInv
  <2> QED
    BY ONLY <2>1 DEF TypeOK
<1>3. ASSUME NEW n \in Node, LivesOn(n)
      PROVE  Len(m_logs'[n]) <= MaxLog /\ Ordered(m_logs'[n], m_currentTerm'[n])
  <2>1. Len(m_logs[n]) <= MaxLog /\ Ordered(m_logs[n], m_currentTerm[n])
    BY DEF LogTerms
  <2>2. CASE m_logs'[n] = m_logs[n]
    <3>1. m_currentTerm[n] <= m_currentTerm'[n]
      BY <1>1, <1>2, <1>3 DEF LivesOn, TermKept
    <3> QED
      BY <1>1, <1>2, <2>1, <2>2, <3>1, OrderedLater
  <2>3. CASE /\ m_state[n] = "Leader"
             /\ Len(m_logs[n]) < MaxLog
             /\ \E cmd \in Command :
                  m_logs'[n] = Append(m_logs[n], [term |-> m_currentTerm[n], cmd |-> cmd])
             /\ UNCHANGED <<m_currentTerm, m_commitIndex, puts>>
    <3>1. PICK cmd \in Command :
             m_logs'[n] = Append(m_logs[n], [term |-> m_currentTerm[n], cmd |-> cmd])
      BY <2>3
    <3> DEFINE e == [term |-> m_currentTerm[n], cmd |-> cmd]
    <3>2. e \in Entry /\ e.term = m_currentTerm[n]
      BY <1>1 DEF Entry
    <3>3. m_currentTerm[n] >= 1
      BY <2>3 DEF LeaderWonItsTerm, TermInv, ElectedTerms
    <3> HIDE DEF e
    <3>4. Ordered(Append(m_logs[n], e), m_currentTerm[n])
      BY <1>1, <2>1, <3>2, <3>3, OrderedAppend
    <3>5. Len(Append(m_logs[n], e)) = Len(m_logs[n]) + 1
      BY <1>1, <3>2, AppendProperties
    <3>6. m_logs'[n] = Append(m_logs[n], e)
      BY <3>1 DEF e
    <3>7. Len(m_logs[n]) \in Nat
      BY <1>1
    <3>8. Len(m_logs'[n]) <= MaxLog
      BY <2>3, <3>5, <3>6, <3>7, BoundAssumption
    <3> QED
      BY <2>3, <3>4, <3>6, <3>8
  <2> QED
    BY <1>3, <2>2, <2>3 DEF LivesOn, LogKept
<1>4. ASSUME NEW r \in Node, Restarted(r), NEW n \in Node
      PROVE  Len(m_logs'[n]) <= MaxLog /\ Ordered(m_logs'[n], m_currentTerm'[n])
  <2>1. CASE n # r
    BY <1>3, <1>4, <2>1 DEF Restarted
  <2>2. CASE n = r
    BY <1>4, <2>2, BoundAssumption DEF Restarted, Ordered
  <2> QED
    BY <2>1, <2>2
<1> QED
  BY <1>3, <1>4, NodeStep DEF LogTerms

(* A log in order and in bounds is one of BoundedLogs. *)
LEMMA InBoundedLogs ==
    ASSUME IndexInv, TermInv, LogTerms, NEW n \in Node
    PROVE  m_logs[n] \in BoundedLogs
<1> DEFINE log == m_logs[n]
           E == [term : 1..MaxTerm, cmd : Command]
<1>1. /\ log \in Seq(Entry) /\ Len(log) \in Nat /\ Len(log) <= MaxLog
      /\ m_currentTerm[n] \in Nat /\ m_currentTerm[n] <= MaxTerm
      /\ Ordered(log, m_currentTerm[n])
  BY DEF IndexInv, TypeOK, TermInv, NodeTerms, LogTerms
<1> HIDE DEF log
<1>2. ASSUME NEW i \in 1..Len(log) PROVE log[i] \in E
  <2>1. log[i] \in Entry
    BY <1>1, ElementOfSeq
  <2>2. log[i].term \in 1..MaxTerm
    BY <1>1, BoundAssumption DEF Ordered
  <2> QED
    BY <2>1, <2>2 DEF Entry
<1>3. log \in [1..Len(log) -> E] /\ DOMAIN log = 1..Len(log)
  BY <1>1, <1>2
<1>4. Len(log) \in 0..(MaxLog + 1)
  BY <1>1, BoundAssumption
<1>5. \A i, j \in DOMAIN log : i <= j => log[i].term <= log[j].term
  BY <1>1, <1>3 DEF Ordered
<1>6. log \in UNION {[1..k -> E] : k \in 0..(MaxLog + 1)}
  BY <1>3, <1>4
<1> QED
  BY <1>5, <1>6 DEF BoundedLogs, log

(* BoundedLogs are logs. *)
LEMMA BoundedLogsAreLogs == BoundedLogs \subseteq Seq(Entry)
<1> SUFFICES ASSUME NEW log \in BoundedLogs PROVE log \in Seq(Entry)
  OBVIOUS
<1>1. PICK k \in 0..(MaxLog + 1) : log \in [1..k -> [term : 1..MaxTerm, cmd : Command]]
  BY DEF BoundedLogs
<1>2. k \in Nat
  BY BoundAssumption
<1>3. \A i \in 1..k : log[i] \in Entry
  BY <1>1 DEF Entry
<1> QED
  BY <1>1, <1>2, <1>3

(***************************************************************************)
(* The log of every node, at every time, takes the entries of any matching *)
(* leader's log as handleAppendEntries should: the logs are in order (the  *)
(* invariant LogTerms) and the merge is right for them.                    *)
(***************************************************************************)
THEOREM LogsMergeRight == Spec => []MergeFollowsLeader
<1>1. Init => TermInv /\ LogTerms
  <2> SUFFICES ASSUME Init PROVE TermInv /\ LogTerms
    OBVIOUS
  <2>1. MessageTerms
    BY DEF Init, MessageTerms
  <2>2. NodeTerms /\ ElectedTerms
    BY BoundAssumption DEF Init, NodeTerms, ElectedTerms
  <2>3. LogTerms
    BY BoundAssumption DEF Init, LogTerms, Ordered
  <2> QED
    BY <2>1, <2>2, <2>3 DEF TermInv
<1>2. ASSUME IndexInv, IndexInv', LeaderWonItsTerm, TermInv, LogTerms, [Next]_vars
      PROVE  (TermInv /\ LogTerms)'
  BY <1>2, TermStep, LogTermsStep
<1>3. ASSUME IndexInv, TermInv, LogTerms PROVE MergeFollowsLeader
  <2> SUFFICES ASSUME NEW n \in Node PROVE m_logs[n] \in Mergeable
    BY DEF MergeFollowsLeader
  <2>1. m_logs[n] \in BoundedLogs
    BY <1>3, InBoundedLogs
  <2>2. \A leader \in BoundedLogs :
           LogMatching(leader, m_logs[n]) => MergesWith(m_logs[n], leader)
    BY <2>1, BoundedLogsAreLogs, MergeIsRight
  <2> QED
    BY <2>1, <2>2 DEF Mergeable
<1> QED
  BY <1>1, <1>2, <1>3, IndexInvariant, LeadersWereElected, PTL DEF Spec

=============================================================================
