------------------------------ MODULE RaftNode ------------------------------
(***************************************************************************)
(* The Raft replica of yolo_server (src/src/raft/RaftNode.cpp) together    *)
(* with the way its two background threads talk to the other replicas.     *)
(*                                                                         *)
(* A node's m_mutex is held for the whole of startElection and for one     *)
(* whole pass of heartbeatLoop, including every remote call they make.     *)
(* Such a pass is therefore a sequence of small steps (one send and one    *)
(* receive per peer, in the order of m_peers) that interleave with the     *)
(* other nodes, while the node's own RPC handlers wait for the mutex.      *)
(*                                                                         *)
(* All calls of a node to one peer share one pooled connection, because    *)
(* they are made under m_mutex.  The sockets are non-blocking and neither  *)
(* request nor reply carries an identifier, so a reply that was not there  *)
(* when recv ran stays in the connection and is read by a later call.      *)
(*                                                                         *)
(* Log indices are positions: m_logs[0], the dummy entry, is not stored,   *)
(* so m_logs.size() is Len + 1 and m_logs.back().index is Len.             *)
(***************************************************************************)
EXTENDS Naturals, Sequences, FiniteSets

CONSTANTS
    Node,         \* the replicas
    Nil,          \* the empty m_votedFor
    Command,      \* what a log entry asks RocksDB to put (key and value)
    Peers,        \* m_peers of each node, in order
    Candidates,   \* bound: the nodes whose election timeout may elapse
    MaxTerm,      \* bound: no election beyond this term
    MaxLog,       \* bound: entries in one log
    MaxInFlight,  \* bound: unread messages in all connections
    MaxRestarts   \* bound: process restarts

PeerSet(n) == {Peers[n][k] : k \in 1..Len(Peers[n])}

(***************************************************************************)
(* Server::start passes the router's nodes without the node itself, and    *)
(* ShardRouter::insertNode refuses a second node with the same id.         *)
(***************************************************************************)
ASSUME NodeAssumption == IsFiniteSet(Node) /\ Nil \notin Node

ASSUME PeersAssumption ==
    /\ Peers \in [Node -> Seq(Node)]
    /\ \A n \in Node :
          /\ n \notin PeerSet(n)
          /\ \A j, k \in 1..Len(Peers[n]) : Peers[n][j] = Peers[n][k] => j = k

ASSUME BoundAssumption ==
    /\ Candidates \subseteq Node
    /\ MaxTerm \in Nat /\ MaxLog \in Nat
    /\ MaxInFlight \in Nat /\ MaxRestarts \in Nat

(***************************************************************************)
(* Every node lists every other node.                                      *)
(***************************************************************************)
FullMesh == \A n \in Node : PeerSet(n) = Node \ {n}

VARIABLES
    m_state, m_currentTerm, m_votedFor, m_logs,
    m_commitIndex, m_lastApplied, m_nextIndex, m_matchIndex

nodeVars == <<m_state, m_currentTerm, m_votedFor, m_logs,
              m_commitIndex, m_lastApplied, m_nextIndex, m_matchIndex>>

(***************************************************************************)
(* The pass that holds m_mutex: which loop ("free" when nobody does), the  *)
(* position in m_peers, whether the call to that peer is about to be sent  *)
(* or waits in recv, and the peers that granted their vote.                *)
(***************************************************************************)
VARIABLES holder, at, phase, votes

passVars == <<holder, at, phase, votes>>

(***************************************************************************)
(* The pooled connection <<n, p>> of node n to peer p: the requests p has  *)
(* not read, the replies n has not read, and closed, the connections whose *)
(* far end p has closed while n has not noticed.  A pooled connection with *)
(* nothing in it is not told apart from no connection: getConnection gives *)
(* a usable one in both cases.  orphans are requests in connections whose  *)
(* client end is gone: <<p, request>> may still be read by p, and the      *)
(* reply goes nowhere.                                                     *)
(***************************************************************************)
VARIABLES closed, reqs, reps, orphans

connVars == <<closed, reqs, reps, orphans>>

(***************************************************************************)
(* puts[n]: the commands n has put into RocksDB, oldest first.  History:   *)
(* grants holds <<voter, term, candidate>> for every vote given and        *)
(* elected holds <<term, node>> for every election won.                    *)
(***************************************************************************)
VARIABLES puts, grants, elected, restarts

vars == <<nodeVars, passVars, connVars, puts, grants, elected, restarts>>

-----------------------------------------------------------------------------
Entry == [term : Nat, cmd : Command]

RequestVoteArgs ==
    [type : {"RequestVote"}, term : Nat, candidateId : Node,
     lastLogIndex : Nat, lastLogTerm : Nat]

AppendEntriesArgs ==
    [type : {"AppendEntries"}, term : Nat, leaderId : Node,
     prevLogIndex : Nat, prevLogTerm : Nat,
     entries : Seq(Entry), leaderCommit : Nat]

Request == RequestVoteArgs \cup AppendEntriesArgs

RequestVoteReply ==
    [type : {"RequestVoteReply"}, term : Nat, voteGranted : BOOLEAN]

AppendEntriesReply ==
    [type : {"AppendEntriesReply"}, term : Nat, success : BOOLEAN]

Reply == RequestVoteReply \cup AppendEntriesReply

Conn == Node \X Node

TypeOK ==
    /\ m_state \in [Node -> {"Follower", "Candidate", "Leader"}]
    /\ m_currentTerm \in [Node -> Nat]
    /\ m_votedFor \in [Node -> Node \cup {Nil}]
    /\ m_logs \in [Node -> Seq(Entry)]
    /\ m_commitIndex \in [Node -> Nat]
    /\ m_lastApplied \in [Node -> Nat]
    /\ m_nextIndex \in [Conn -> Nat]
    /\ m_matchIndex \in [Conn -> Nat]
    /\ holder \in [Node -> {"free", "election", "heartbeat"}]
    /\ at \in [Node -> Nat]
    /\ phase \in [Node -> {"send", "recv"}]
    /\ votes \in [Node -> SUBSET Node]
    /\ closed \subseteq Conn
    /\ reqs \in [Conn -> Seq(Request)]
    /\ reps \in [Conn -> Seq(Reply)]
    /\ orphans \subseteq Node \X Request
    /\ puts \in [Node -> Seq(Command)]
    /\ grants \subseteq Node \X Nat \X Node
    /\ elected \subseteq Nat \X Node
    /\ restarts \in Nat

Init ==
    /\ m_state = [n \in Node |-> "Follower"]
    /\ m_currentTerm = [n \in Node |-> 0]
    /\ m_votedFor = [n \in Node |-> Nil]
    /\ m_logs = [n \in Node |-> << >>]
    /\ m_commitIndex = [n \in Node |-> 0]
    /\ m_lastApplied = [n \in Node |-> 0]
    /\ m_nextIndex = [c \in Conn |-> 0]
    /\ m_matchIndex = [c \in Conn |-> 0]
    /\ holder = [n \in Node |-> "free"]
    /\ at = [n \in Node |-> 1]
    /\ phase = [n \in Node |-> "send"]
    /\ votes = [n \in Node |-> {}]
    /\ closed = {}
    /\ reqs = [c \in Conn |-> << >>]
    /\ reps = [c \in Conn |-> << >>]
    /\ orphans = {}
    /\ puts = [n \in Node |-> << >>]
    /\ grants = {}
    /\ elected = {}
    /\ restarts = 0

-----------------------------------------------------------------------------
(* Helpers *)

Least(a, b) == IF a <= b THEN a ELSE b

(* m_logs[i].term, the dummy entry's term being 0. *)
TermAt(log, i) == IF i = 0 THEN 0 ELSE log[i].term

LastTerm(log) == TermAt(log, Len(log))

(* Mutant: half of the cluster is enough. *)
Majority_Half(n) == (Len(Peers[n]) + 1) \div 2

(* A quorum as startElection counts it: m_peers and the node itself. *)
Majority(n) == (Len(Peers[n]) + 1) \div 2 + 1

(* The commands of log entries lo+1 .. hi, in order. *)
Commands(log, lo, hi) == [k \in 1..(hi - lo) |-> log[lo + k].cmd]

(* Mutants: m_lastApplied is not advanced; every put starts from entry 1. *)
applyCommittedLogs_NotAdvanced(n, log, commit) ==
    /\ puts' = [puts EXCEPT ![n] = @ \o Commands(log, m_lastApplied[n], commit)]
    /\ UNCHANGED m_lastApplied
applyCommittedLogs_FromFirst(n, log, commit) ==
    /\ m_lastApplied' = [m_lastApplied EXCEPT ![n] = commit]
    /\ puts' = [puts EXCEPT ![n] = @ \o Commands(log, 0, commit)]

(***************************************************************************)
(* applyCommittedLogs: put every entry after m_lastApplied up to the       *)
(* commit index; a put that fails is only logged, so the control state     *)
(* does not depend on its result.                                          *)
(***************************************************************************)
applyCommittedLogs(n, log, commit) ==
    IF m_lastApplied[n] < commit
    THEN /\ m_lastApplied' = [m_lastApplied EXCEPT ![n] = commit]
         /\ puts' = [puts EXCEPT
                       ![n] = @ \o Commands(log, m_lastApplied[n], commit)]
    ELSE UNCHANGED <<m_lastApplied, puts>>

(***************************************************************************)
(* Node n's current call goes to its at-th peer.                           *)
(***************************************************************************)
CurrentPeer(n) == Peers[n][at[n]]
CurrentConn(n) == <<n, CurrentPeer(n)>>

InCall(n, ph) ==
    /\ holder[n] # "free"
    /\ at[n] <= Len(Peers[n])
    /\ phase[n] = ph

(* The call is over, whatever its result; go on with the next peer. *)
NextPeer(n) ==
    /\ at' = [at EXCEPT ![n] = @ + 1]
    /\ phase' = [phase EXCEPT ![n] = "send"]

(* The pass is over and m_mutex is released. *)
Unlock(n) ==
    /\ holder' = [holder EXCEPT ![n] = "free"]
    /\ at' = [at EXCEPT ![n] = 1]
    /\ phase' = [phase EXCEPT ![n] = "send"]
    /\ votes' = [votes EXCEPT ![n] = {}]

-----------------------------------------------------------------------------
(* The election thread *)

(***************************************************************************)
(* electionLoop finds the timeout elapsed (timers are not modelled: it may *)
(* elapse at any time) and startElection begins.                           *)
(***************************************************************************)
StartElection(n) ==
    /\ n \in Candidates
    /\ holder[n] = "free"
    /\ m_state[n] # "Leader"
    /\ m_currentTerm[n] < MaxTerm
    /\ m_state' = [m_state EXCEPT ![n] = "Candidate"]
    /\ m_currentTerm' = [m_currentTerm EXCEPT ![n] = @ + 1]
    /\ m_votedFor' = [m_votedFor EXCEPT ![n] = n]
    /\ grants' = grants \cup {<<n, m_currentTerm[n] + 1, n>>}
    /\ holder' = [holder EXCEPT ![n] = "election"]
    /\ votes' = [votes EXCEPT ![n] = {n}]
    /\ UNCHANGED <<m_logs, m_commitIndex, m_lastApplied, m_nextIndex,
                   m_matchIndex, at, phase, connVars, puts, elected, restarts>>

(***************************************************************************)
(* electionLoop and heartbeatLoop wake up, take m_mutex and find nothing   *)
(* to do; submitLog on a node that does not lead returns false.            *)
(***************************************************************************)
Poll(n) ==
    /\ holder[n] = "free"
    /\ UNCHANGED vars

(* startElection has asked every peer and counts the votes. *)
ElectionOver(n) ==
    /\ holder[n] = "election"
    /\ at[n] > Len(Peers[n])

Won(n) == Cardinality(votes[n]) >= Majority(n)

(* Become leader: nextIndex and matchIndex of every peer start afresh. *)
WinElection(n) ==
    /\ ElectionOver(n)
    /\ Won(n)
    /\ m_state' = [m_state EXCEPT ![n] = "Leader"]
    /\ m_nextIndex' = [c \in Conn |->
                         IF c[1] = n /\ c[2] \in PeerSet(n)
                         THEN Len(m_logs[n]) + 1 ELSE m_nextIndex[c]]
    /\ m_matchIndex' = [c \in Conn |->
                          IF c[1] = n /\ c[2] \in PeerSet(n)
                          THEN 0 ELSE m_matchIndex[c]]
    /\ elected' = elected \cup {<<m_currentTerm[n], n>>}
    /\ Unlock(n)
    /\ UNCHANGED <<m_currentTerm, m_votedFor, m_logs, m_commitIndex,
                   m_lastApplied, connVars, puts, grants, restarts>>

(* Stay candidate until the next timeout. *)
LoseElection(n) ==
    /\ ElectionOver(n)
    /\ ~Won(n)
    /\ Unlock(n)
    /\ UNCHANGED <<nodeVars, connVars, puts, grants, elected, restarts>>

-----------------------------------------------------------------------------
(* The heartbeat thread *)

StartHeartbeat(n) ==
    /\ holder[n] = "free"
    /\ m_state[n] = "Leader"
    /\ holder' = [holder EXCEPT ![n] = "heartbeat"]
    /\ UNCHANGED <<nodeVars, at, phase, votes, connVars,
                   puts, grants, elected, restarts>>

FinishHeartbeat(n) ==
    /\ holder[n] = "heartbeat"
    /\ at[n] > Len(Peers[n])
    /\ Unlock(n)
    /\ UNCHANGED <<nodeVars, connVars, puts, grants, elected, restarts>>

-----------------------------------------------------------------------------
(* The calling side of an RPC *)

(* Mutant: the index of the last entry, counted without the dummy entry. *)
VoteRequest_NoDummy(n) ==
    [type |-> "RequestVote", term |-> m_currentTerm[n], candidateId |-> n,
     lastLogIndex |-> Len(m_logs[n]) - 1, lastLogTerm |-> LastTerm(m_logs[n])]

VoteRequest(n) ==
    [type |-> "RequestVote", term |-> m_currentTerm[n], candidateId |-> n,
     lastLogIndex |-> Len(m_logs[n]), lastLogTerm |-> LastTerm(m_logs[n])]

(***************************************************************************)
(* heartbeatLoop collects the entries after m_nextIndex in a local vector  *)
(* and never stores it in args: args.entries is always the empty vector.   *)
(***************************************************************************)
AppendRequest(n, p) ==
    LET prev == m_nextIndex[<<n, p>>] - 1 IN
    [type |-> "AppendEntries", term |-> m_currentTerm[n], leaderId |-> n,
     prevLogIndex |-> prev, prevLogTerm |-> TermAt(m_logs[n], prev),
     entries |-> << >>, leaderCommit |-> m_commitIndex[n]]

(* The request of the current call. *)
RequestTo(n, p) ==
    IF holder[n] = "election" THEN VoteRequest(n) ELSE AppendRequest(n, p)

(***************************************************************************)
(* isConnectionValid, given the replies left to read: unread data counts   *)
(* as alive even after a close.                                            *)
(***************************************************************************)
isConnectionValid(c, unread) == c \notin closed \/ unread # << >>

(***************************************************************************)
(* releaseConnection: an invalid connection is closed and forgotten, any   *)
(* other goes back to the pool with everything that is unread in it.       *)
(***************************************************************************)
releaseConnection(c, unread) ==
    /\ reps' = [reps EXCEPT ![c] = unread]
    /\ closed' = IF isConnectionValid(c, unread) THEN closed
                                                 ELSE closed \ {c}

(* The unread messages, each as its connection and a number. *)
InFlight ==
    UNION {{c} \X (1..(Len(reqs[c]) + Len(reps[c]))) : c \in Conn}

(***************************************************************************)
(* getConnection and sendMessage succeed.  A valid pooled connection is    *)
(* reused; a request written to one whose far end is closed is never read. *)
(***************************************************************************)
SendRequest(n) ==
    /\ InCall(n, "send")
    /\ Cardinality(InFlight) + Cardinality(orphans) < MaxInFlight
    /\ reqs' = IF CurrentConn(n) \in closed THEN reqs
               ELSE [reqs EXCEPT ![CurrentConn(n)] =
                       Append(@, RequestTo(n, CurrentPeer(n)))]
    /\ phase' = [phase EXCEPT ![n] = "recv"]
    /\ UNCHANGED <<nodeVars, holder, at, votes, closed, reps, orphans,
                   puts, grants, elected, restarts>>

(* No connection, or sendMessage fails: the peer is skipped. *)
SendFails(n) ==
    /\ InCall(n, "send")
    /\ NextPeer(n)
    /\ UNCHANGED <<nodeVars, holder, votes, connVars,
                   puts, grants, elected, restarts>>

(* Mutant: the socket blocks until a reply comes or the peer closes it. *)
RecvFails_Blocking(n) ==
    /\ InCall(n, "recv")
    /\ ~isConnectionValid(CurrentConn(n), reps[CurrentConn(n)])
    /\ releaseConnection(CurrentConn(n), reps[CurrentConn(n)])
    /\ NextPeer(n)
    /\ UNCHANGED <<nodeVars, holder, votes, reqs, orphans,
                   puts, grants, elected, restarts>>

(***************************************************************************)
(* recvMessage fails: the socket does not block, so nothing has arrived    *)
(* yet (EAGAIN) or the peer has closed it, and what arrives later is left  *)
(* in the connection; or only the length prefix of the reply is there, it  *)
(* is read, and the reply is spoilt.                                       *)
(***************************************************************************)
RecvFails(n) ==
    /\ InCall(n, "recv")
    /\ LET c == CurrentConn(n) IN
         \/ releaseConnection(c, reps[c])
         \/ reps[c] # << >> /\ releaseConnection(c, Tail(reps[c]))
    /\ NextPeer(n)
    /\ UNCHANGED <<nodeVars, holder, votes, reqs, orphans,
                   puts, grants, elected, restarts>>

(* recvMessage returns the oldest unread reply of the connection. *)
TakeReply(n) ==
    /\ InCall(n, "recv")
    /\ reps[CurrentConn(n)] # << >>
    /\ releaseConnection(CurrentConn(n), Tail(reps[CurrentConn(n)]))
    /\ UNCHANGED <<reqs, orphans, grants, elected, restarts>>

TheReply(n) == Head(reps[CurrentConn(n)])

(* A reply to the other kind of request does not parse: the call fails. *)
RecvWrongKind(n) ==
    /\ TakeReply(n)
    /\ TheReply(n).type # (IF holder[n] = "election" THEN "RequestVoteReply"
                           ELSE "AppendEntriesReply")
    /\ NextPeer(n)
    /\ UNCHANGED <<nodeVars, holder, votes, puts>>

(* Mutants: the new term is not taken over; the node stays what it was. *)
StepDown_SameTerm(n, term) ==
    /\ m_state' = [m_state EXCEPT ![n] = "Follower"]
    /\ m_votedFor' = [m_votedFor EXCEPT ![n] = Nil]
    /\ Unlock(n)
    /\ UNCHANGED m_currentTerm
StepDown_SameState(n, term) ==
    /\ m_currentTerm' = [m_currentTerm EXCEPT ![n] = term]
    /\ m_votedFor' = [m_votedFor EXCEPT ![n] = Nil]
    /\ Unlock(n)
    /\ UNCHANGED m_state

(* A reply has shown a newer term: follow, and end the pass. *)
StepDown(n, term) ==
    /\ m_currentTerm' = [m_currentTerm EXCEPT ![n] = term]
    /\ m_state' = [m_state EXCEPT ![n] = "Follower"]
    /\ m_votedFor' = [m_votedFor EXCEPT ![n] = Nil]
    /\ Unlock(n)

(* startElection, a vote: it counts whatever the reply's term is. *)
VoteReceived(n) ==
    /\ votes' = [votes EXCEPT ![n] = @ \cup {CurrentPeer(n)}]
    /\ NextPeer(n)
    /\ UNCHANGED <<m_state, m_currentTerm, m_votedFor, holder>>

(* Mutant: every reply counts as a vote. *)
VoteRefused_Counted(n) ==
    /\ votes' = [votes EXCEPT ![n] = @ \cup {CurrentPeer(n)}]
    /\ NextPeer(n)
    /\ UNCHANGED <<m_state, m_currentTerm, m_votedFor, holder>>

(* startElection, a refusal that brings no newer term. *)
VoteRefused(n) ==
    /\ NextPeer(n)
    /\ UNCHANGED <<m_state, m_currentTerm, m_votedFor, holder, votes>>

RecvVote(n) ==
    /\ TakeReply(n)
    /\ holder[n] = "election"
    /\ TheReply(n).type = "RequestVoteReply"
    /\ LET r == TheReply(n) IN
         \/ r.voteGranted /\ VoteReceived(n)
         \/ ~r.voteGranted /\ r.term > m_currentTerm[n] /\ StepDown(n, r.term)
         \/ ~r.voteGranted /\ r.term <= m_currentTerm[n] /\ VoteRefused(n)
    /\ UNCHANGED <<m_logs, m_commitIndex, m_lastApplied,
                   m_nextIndex, m_matchIndex, puts>>

(***************************************************************************)
(* matchIndices sorted in descending order, element (size - 1) / 2.        *)
(***************************************************************************)
NewCommitIndex(n, match) ==
    LET members == {n} \cup PeerSet(n)
        index(x) == IF x = n THEN Len(m_logs[n]) ELSE match[<<n, x>>]
        rank == Len(Peers[n]) \div 2
    IN CHOOSE i \in {index(x) : x \in members} :
         /\ Cardinality({x \in members : index(x) >= i}) > rank
         /\ Cardinality({x \in members : index(x) > i}) <= rank

(* The entries heartbeatLoop collects for p. *)
EntriesFor(n, p) ==
    SubSeq(m_logs[n], m_nextIndex[<<n, p>>], Len(m_logs[n]))

(* heartbeatLoop, a successful AppendEntriesReply. *)
AppendAccepted(n) ==
    LET c == CurrentConn(n)
        next == m_nextIndex[c] + Len(EntriesFor(n, CurrentPeer(n)))
    IN /\ m_nextIndex' = [m_nextIndex EXCEPT ![c] = next]
       /\ m_matchIndex' = [m_matchIndex EXCEPT ![c] = next - 1]
       /\ LET new == NewCommitIndex(n, m_matchIndex') IN
            IF /\ new > m_commitIndex[n]
               /\ TermAt(m_logs[n], new) = m_currentTerm[n]
            THEN /\ m_commitIndex' = [m_commitIndex EXCEPT ![n] = new]
                 /\ applyCommittedLogs(n, m_logs[n], new)
            ELSE UNCHANGED <<m_commitIndex, m_lastApplied, puts>>
       /\ NextPeer(n)
       /\ UNCHANGED <<m_state, m_currentTerm, m_votedFor, holder, votes>>

(* heartbeatLoop, an unsuccessful AppendEntriesReply of a newer term. *)
AppendOutdated(n) ==
    /\ StepDown(n, TheReply(n).term)
    /\ UNCHANGED <<m_nextIndex, m_matchIndex, m_commitIndex,
                   m_lastApplied, puts>>

(* heartbeatLoop, the peer's log does not match: back up by one. *)
AppendMismatch(n) ==
    /\ m_nextIndex' = [m_nextIndex EXCEPT
                         ![CurrentConn(n)] = IF @ > 1 THEN @ - 1 ELSE @]
    /\ NextPeer(n)
    /\ UNCHANGED <<m_state, m_currentTerm, m_votedFor, m_matchIndex,
                   m_commitIndex, m_lastApplied, holder, votes, puts>>

RecvAppend(n) ==
    /\ TakeReply(n)
    /\ holder[n] = "heartbeat"
    /\ TheReply(n).type = "AppendEntriesReply"
    /\ LET r == TheReply(n) IN
         \/ r.success /\ AppendAccepted(n)
         \/ ~r.success /\ r.term > m_currentTerm[n] /\ AppendOutdated(n)
         \/ ~r.success /\ r.term <= m_currentTerm[n] /\ AppendMismatch(n)
    /\ UNCHANGED m_logs

-----------------------------------------------------------------------------
(* The serving side of an RPC *)

(* The candidate's log is at least as recent as p's. *)
LogIsUpToDate(p, a) ==
    \/ a.lastLogTerm > LastTerm(m_logs[p])
    \/ /\ a.lastLogTerm = LastTerm(m_logs[p])
       /\ a.lastLogIndex >= Len(m_logs[p])

(* Mutant: m_votedFor is not looked at. *)
VoteGranted_Again(p, a) == a.term >= m_currentTerm[p] /\ LogIsUpToDate(p, a)

VoteGranted(p, a) ==
    /\ a.term >= m_currentTerm[p]
    /\ a.term > m_currentTerm[p] \/ m_votedFor[p] \in {Nil, a.candidateId}
    /\ LogIsUpToDate(p, a)

(* handleRequestVote, and the reply it returns. *)
handleRequestVote(p, a) ==
    LET newer == a.term > m_currentTerm[p] IN
    /\ m_currentTerm' = IF newer THEN [m_currentTerm EXCEPT ![p] = a.term]
                                 ELSE m_currentTerm
    /\ m_state' = IF newer THEN [m_state EXCEPT ![p] = "Follower"]
                           ELSE m_state
    /\ m_votedFor' = IF VoteGranted(p, a)
                     THEN [m_votedFor EXCEPT ![p] = a.candidateId]
                     ELSE IF newer THEN [m_votedFor EXCEPT ![p] = Nil]
                          ELSE m_votedFor
    /\ grants' = IF VoteGranted(p, a)
                 THEN grants \cup {<<p, a.term, a.candidateId>>} ELSE grants
    /\ UNCHANGED <<m_logs, m_commitIndex, m_lastApplied, puts>>

RequestVoteReplyTo(p, a) ==
    [type |-> "RequestVoteReply",
     term |-> IF a.term > m_currentTerm[p] THEN a.term ELSE m_currentTerm[p],
     voteGranted |-> VoteGranted(p, a)]

(* Mutant: every leader is followed. *)
Outdated_Never(p, a) == FALSE

(* The request comes from a leader of an older term. *)
Outdated(p, a) == a.term < m_currentTerm[p]

(* The log contains the entry that precedes the new ones. *)
PrevMatches(p, a) ==
    /\ a.prevLogIndex <= Len(m_logs[p])
    /\ TermAt(m_logs[p], a.prevLogIndex) = a.prevLogTerm

(* Mutant: what follows the entries of the request is always dropped. *)
MergedLog_Truncates(log, prev, entries) == SubSeq(log, 1, prev) \o entries

(***************************************************************************)
(* Steps 3 and 4 of handleAppendEntries: walk over the entries that are    *)
(* already there, drop the log from the first conflict on, append the      *)
(* rest.  A log that already holds every entry is left as it is.           *)
(***************************************************************************)
MergedLog(log, prev, entries) ==
    LET same(j) == /\ prev + j <= Len(log)
                   /\ log[prev + j].term = entries[j].term
        kept == CHOOSE k \in 0..Len(entries) :
                   /\ \A j \in 1..k : same(j)
                   /\ k = Len(entries) \/ ~same(k + 1)
    IN IF kept = Len(entries) THEN log
       ELSE SubSeq(log, 1, prev + kept)
              \o SubSeq(entries, kept + 1, Len(entries))

(* handleAppendEntries: m_votedFor is kept even when the term grows. *)
handleAppendEntries(p, a) ==
    IF Outdated(p, a)
    THEN UNCHANGED <<m_state, m_currentTerm, m_votedFor, m_logs,
                     m_commitIndex, m_lastApplied, puts, grants>>
    ELSE /\ m_state' = [m_state EXCEPT ![p] = "Follower"]
         /\ m_currentTerm' = [m_currentTerm EXCEPT ![p] = a.term]
         /\ IF PrevMatches(p, a)
            THEN LET log == MergedLog(m_logs[p], a.prevLogIndex, a.entries)
                     commit == Least(a.leaderCommit, Len(log))
                 IN /\ m_logs' = [m_logs EXCEPT ![p] = log]
                    /\ IF a.leaderCommit > m_commitIndex[p]
                       THEN /\ m_commitIndex' =
                                 [m_commitIndex EXCEPT ![p] = commit]
                            /\ applyCommittedLogs(p, log, commit)
                       ELSE UNCHANGED <<m_commitIndex, m_lastApplied, puts>>
            ELSE UNCHANGED <<m_logs, m_commitIndex, m_lastApplied, puts>>
         /\ UNCHANGED <<m_votedFor, grants>>

(***************************************************************************)
(* A refusal carries the term the node had before the call: reply.term is  *)
(* refreshed only on the successful path.                                  *)
(***************************************************************************)
AppendEntriesReplyTo(p, a) ==
    LET ok == ~Outdated(p, a) /\ PrevMatches(p, a) IN
    [type |-> "AppendEntriesReply",
     term |-> IF ok THEN a.term ELSE m_currentTerm[p],
     success |-> ok]

(* Connection::handleRaftRequestVote and handleRaftAppendEntries. *)
Handle(p, a) ==
    \/ a.type = "RequestVote" /\ handleRequestVote(p, a)
    \/ a.type = "AppendEntries" /\ handleAppendEntries(p, a)

ReplyTo(p, a) ==
    IF a.type = "RequestVote" THEN RequestVoteReplyTo(p, a)
                              ELSE AppendEntriesReplyTo(p, a)

(* A worker of p reads the next request of connection <<n, p>>. *)
ServeRequest(n, p) ==
    LET c == <<n, p>> IN
    /\ reqs[c] # << >>
    /\ holder[p] = "free"
    /\ Handle(p, Head(reqs[c]))
    /\ reqs' = [reqs EXCEPT ![c] = Tail(@)]
    /\ reps' = [reps EXCEPT ![c] = Append(@, ReplyTo(p, Head(reqs[c])))]
    /\ UNCHANGED <<m_nextIndex, m_matchIndex, passVars, closed, orphans,
                   elected, restarts>>

(* The same for a request whose client has gone. *)
ServeOrphan(p) ==
    /\ holder[p] = "free"
    /\ \E o \in orphans :
         /\ o[1] = p
         /\ Handle(p, o[2])
         /\ orphans' = orphans \ {o}
    /\ UNCHANGED <<m_nextIndex, m_matchIndex, passVars, closed, reqs, reps,
                   elected, restarts>>

-----------------------------------------------------------------------------
(* The client of the replica *)

(* submitLog on a leader; on any other node it returns false. *)
SubmitLog(n, cmd) ==
    /\ holder[n] = "free"
    /\ m_state[n] = "Leader"
    /\ Len(m_logs[n]) < MaxLog
    /\ m_logs' = [m_logs EXCEPT
                    ![n] = Append(@, [term |-> m_currentTerm[n],
                                      cmd |-> cmd])]
    /\ UNCHANGED <<m_state, m_currentTerm, m_votedFor, m_commitIndex,
                   m_lastApplied, m_nextIndex, m_matchIndex, passVars,
                   connVars, puts, grants, elected, restarts>>

-----------------------------------------------------------------------------
(* Connections and processes coming and going *)

(* A call is blocked in recv on connection c. *)
Waiting(c) == InCall(c[1], "recv") /\ CurrentPeer(c[1]) = c[2]

(***************************************************************************)
(* p's end of <<n, p>> closes: Connection::handle leaves its loop as soon  *)
(* as recvMessage finds no complete message.  Requests p has not read are  *)
(* lost; replies under way may or may not still arrive.                    *)
(***************************************************************************)
PeerCloses(n, p) ==
    LET c == <<n, p>> IN
    /\ c \notin closed
    /\ Waiting(c) \/ reqs[c] # << >> \/ reps[c] # << >>
    /\ reqs' = [reqs EXCEPT ![c] = << >>]
    /\ reps' \in {reps, [reps EXCEPT ![c] = << >>]}
    /\ closed' = IF Waiting(c) \/ reps'[c] # << >> THEN closed \cup {c}
                                                   ELSE closed
    /\ UNCHANGED <<nodeVars, passVars, orphans,
                   puts, grants, elected, restarts>>

(* The requests of connections C that their servers may still read. *)
Orphaned(C) ==
    UNION {{<<c[2], reqs[c][k]>> : k \in 1..Len(reqs[c])} : c \in C}

(***************************************************************************)
(* cleanupLoop closes a pooled connection that is invalid or has not been  *)
(* used for CONNECTION_TIMEOUT.                                            *)
(***************************************************************************)
CleanupConnection(n, p) ==
    LET c == <<n, p>> IN
    /\ ~Waiting(c)
    /\ reqs[c] # << >> \/ reps[c] # << >>
    /\ closed' = closed \ {c}
    /\ reqs' = [reqs EXCEPT ![c] = << >>]
    /\ reps' = [reps EXCEPT ![c] = << >>]
    /\ orphans' = orphans \cup Orphaned({c})
    /\ UNCHANGED <<nodeVars, passVars, puts, grants, elected, restarts>>

(***************************************************************************)
(* The process of n dies and a new one is constructed.  Nothing but the    *)
(* contents of RocksDB survives.                                           *)
(***************************************************************************)
Restart(n) ==
    /\ restarts < MaxRestarts
    /\ restarts' = restarts + 1
    /\ m_state' = [m_state EXCEPT ![n] = "Follower"]
    /\ m_currentTerm' = [m_currentTerm EXCEPT ![n] = 0]
    /\ m_votedFor' = [m_votedFor EXCEPT ![n] = Nil]
    /\ m_logs' = [m_logs EXCEPT ![n] = << >>]
    /\ m_commitIndex' = [m_commitIndex EXCEPT ![n] = 0]
    /\ m_lastApplied' = [m_lastApplied EXCEPT ![n] = 0]
    /\ m_nextIndex' = [c \in Conn |->
                         IF c[1] = n THEN 0 ELSE m_nextIndex[c]]
    /\ m_matchIndex' = [c \in Conn |->
                          IF c[1] = n THEN 0 ELSE m_matchIndex[c]]
    /\ Unlock(n)
    /\ reqs' = [c \in Conn |->
                  IF n \in {c[1], c[2]} THEN << >> ELSE reqs[c]]
    /\ reps' = [c \in Conn |-> IF c[1] = n THEN << >> ELSE reps[c]]
    /\ closed' = {c \in Conn :
                    /\ c[1] # n
                    /\ \/ c \in closed
                       \/ c[2] = n /\ (Waiting(c) \/ reps[c] # << >>)}
    /\ orphans' = {o \in orphans \cup Orphaned({c \in Conn : c[1] = n}) :
                      o[1] # n}
    /\ UNCHANGED <<puts, grants, elected>>

-----------------------------------------------------------------------------
(* One step of the pass that holds n's m_mutex. *)
PassStep(n) ==
    \/ WinElection(n)
    \/ LoseElection(n)
    \/ FinishHeartbeat(n)
    \/ SendRequest(n)
    \/ SendFails(n)
    \/ RecvFails(n)
    \/ RecvWrongKind(n)
    \/ RecvVote(n)
    \/ RecvAppend(n)

Next ==
    \/ \E n \in Node :
         \/ Poll(n)
         \/ StartElection(n)
         \/ StartHeartbeat(n)
         \/ PassStep(n)
         \/ ServeOrphan(n)
         \/ Restart(n)
         \/ \E cmd \in Command : SubmitLog(n, cmd)
    \/ \E n \in Node, p \in Node :
         \/ ServeRequest(n, p)
         \/ PeerCloses(n, p)
         \/ CleanupConnection(n, p)

Spec == Init /\ [][Next]_vars
-----------------------------------------------------------------------------
(* Properties *)

(***************************************************************************)
(* No term is won by two nodes: what startElection's majority count and    *)
(* handleRequestVote's one vote per term are for.  startElection counts    *)
(* old votes too, so it does not hold (RaftNode.cpp:121).                  *)
(***************************************************************************)
ElectionSafety ==
    \A e, f \in elected : e[1] = f[1] => e[2] = f[2]

(* The nodes that gave n their vote in a term not after the given one. *)
VotersUpTo(n, term) ==
    {v \in Node : \E g \in grants : g[1] = v /\ g[2] <= term /\ g[3] = n}

(***************************************************************************)
(* startElection reads whatever reply is left in a pooled connection, and  *)
(* handleRequestVote answers requests however old; still every election    *)
(* is won with votes that a majority of the winner's members really gave   *)
(* it, each counted once and none from a term the winner had not reached.  *)
(***************************************************************************)
WonWithVotes ==
    \A e \in elected : Cardinality(VotersUpTo(e[2], e[1])) >= Majority(e[2])

(***************************************************************************)
(* The only way two nodes win one term: startElection of one of them found *)
(* a vote of another node, given in an earlier term, in its connections    *)
(* (RaftNode.cpp:121 looks at voteGranted and not at the reply's term).    *)
(***************************************************************************)
SplitNeedsOldVote ==
    \A e, f \in elected : e[1] = f[1] /\ e[2] # f[2] =>
       \E g \in grants :
          g[2] < e[1] /\ g[3] \in {e[2], f[2]} /\ g[1] # g[3]

(***************************************************************************)
(* handleRequestVote and startElection never give one node's vote of one   *)
(* term to two candidates, although handleAppendEntries raises the term    *)
(* without clearing m_votedFor.                                            *)
(***************************************************************************)
VoteOnce ==
    \A g, h \in grants : g[1] = h[1] /\ g[2] = h[2] => g[3] = h[3]

(***************************************************************************)
(* Every m_logs[...] the code evaluates is inside the vector: heartbeatLoop *)
(* reads m_logs[nextIndex - 1] and m_logs[newCommitIndex] and              *)
(* applyCommittedLogs reads m_logs[m_lastApplied].                         *)
(***************************************************************************)
IndexSafety ==
    \A n \in Node :
       /\ m_lastApplied[n] = m_commitIndex[n]
       /\ m_commitIndex[n] <= Len(m_logs[n])
       /\ m_state[n] = "Leader" =>
            \A p \in PeerSet(n) :
               /\ m_nextIndex[<<n, p>>] \in 1..(Len(m_logs[n]) + 1)
               /\ m_matchIndex[<<n, p>>] <= Len(m_logs[n])

(***************************************************************************)
(* RocksDB of a node that has not restarted received exactly the committed *)
(* prefix of its log, each entry once and in log order, whoever led when   *)
(* the entry was committed.                                                *)
(***************************************************************************)
AppliedInOrder ==
    restarts = 0 =>
      \A n \in Node : puts[n] = Commands(m_logs[n], 0, m_lastApplied[n])

(***************************************************************************)
(* A node that acts as leader, sending heartbeats and accepting submitLog, *)
(* won the election of the very term it is in: each of the four places     *)
(* that raise m_currentTerm also ends the leadership of the old term.      *)
(***************************************************************************)
LeaderWonItsTerm ==
    \A n \in Node :
       m_state[n] = "Leader" => <<m_currentTerm[n], n>> \in elected

(***************************************************************************)
(* In the life of a process m_currentTerm and m_commitIndex never go back, *)
(* m_votedFor changes only from empty or with the term, and the entries    *)
(* that were committed stay where they are in m_logs.                      *)
(***************************************************************************)
NeverGoesBack ==
    [][\A n \in Node : restarts' = restarts =>
          /\ m_currentTerm'[n] >= m_currentTerm[n]
          /\ m_commitIndex'[n] >= m_commitIndex[n]
          /\ \/ m_currentTerm'[n] > m_currentTerm[n]
             \/ m_votedFor[n] \in {Nil, m_votedFor'[n]}
          /\ SubSeq(m_logs'[n], 1, m_commitIndex[n])
               = SubSeq(m_logs[n], 1, m_commitIndex[n])]_vars

(***************************************************************************)
(* The members of n's cluster that n believes to hold entry i: itself, and *)
(* the peers whose m_matchIndex has reached i.                             *)
(***************************************************************************)
BelievedHolders(n, i) ==
    {n} \cup {p \in PeerSet(n) : m_matchIndex[<<n, p>>] >= i}

(***************************************************************************)
(* A leader raises m_commitIndex only to an entry of its own term that it  *)
(* believes a majority of the cluster holds (RaftNode.cpp:185, the highest *)
(* index replicated on most nodes).                                        *)
(***************************************************************************)
CommitBacked ==
    [][\A n \in Node :
          holder[n] = "heartbeat" /\ m_commitIndex'[n] > m_commitIndex[n] =>
            /\ Cardinality(BelievedHolders(n, m_commitIndex[n]))' >= Majority(n)
            /\ m_logs[n][m_commitIndex'[n]].term = m_currentTerm[n]]_vars

(***************************************************************************)
(* What is committed anywhere is in the log of a majority of the cluster:  *)
(* the reason for which Raft may answer a client (RaftNode.cpp:185 and     *)
(* :473, the next heartbeatLoop replicates the entry).                     *)
(***************************************************************************)
CommittedOnMajority ==
    \A n \in Node : \A i \in 1..m_commitIndex[n] :
       Cardinality({p \in PeerSet(n) \cup {n} :
                      i <= Len(m_logs[p]) /\ m_logs[p][i] = m_logs[n][i]})
         >= Majority(n)

(* The logs of bounded length, one entry longer than the runs' logs get. *)
BoundedLogs ==
    {log \in UNION {[1..k -> [term : 1..MaxTerm, cmd : Command]] :
                     k \in 0..(MaxLog + 1)} :
       \A i, j \in DOMAIN log : i <= j => log[i].term <= log[j].term}

(* Logs that agree up to every place where their terms agree. *)
LogMatching(a, b) ==
    \A i \in DOMAIN a \cap DOMAIN b :
       a[i].term = b[i].term => SubSeq(a, 1, i) = SubSeq(b, 1, i)

(* A request with entries prev + 1 .. last of a log like leader's. *)
MergesAs(log, leader, prev, last) ==
    MergedLog(log, prev, SubSeq(leader, prev + 1, last)) =
      IF last <= Len(log) /\ SubSeq(log, 1, last) = SubSeq(leader, 1, last)
      THEN log
      ELSE SubSeq(leader, 1, last)

MergesWith(log, leader) ==
    \A prev \in 0..Len(leader) : \A last \in prev..Len(leader) :
       prev <= Len(log) /\ TermAt(log, prev) = TermAt(leader, prev) =>
         MergesAs(log, leader, prev, last)

(* A union of singletons, which TLC computes once. *)
Mergeable ==
    UNION {IF \A leader \in BoundedLogs :
                LogMatching(leader, log) => MergesWith(log, leader)
           THEN {log} ELSE {} : log \in BoundedLogs}

(***************************************************************************)
(* The merge of handleAppendEntries against its reference, from every log  *)
(* a node can have.  When it gets any run of entries of a leader's log,    *)
(* however old the request, and prevLogIndex matches, its log becomes the  *)
(* leader's as far as the request reaches; and if it was so already, it    *)
(* stays as it is: a delayed or repeated request never removes entries     *)
(* that a later one brought.  (heartbeatLoop sends no entries, so the      *)
(* requests are those of a leader that would.)                             *)
(***************************************************************************)
MergeFollowsLeader == \A n \in Node : m_logs[n] \in Mergeable

(***************************************************************************)
(* A thread that holds m_mutex and does not stop running: the calls it     *)
(* makes are on non-blocking sockets, so each of its steps is taken.       *)
(***************************************************************************)
FairSpec == Spec /\ \A n \in Node : WF_vars(PassStep(n))

(***************************************************************************)
(* m_mutex is always released again, although startElection and            *)
(* heartbeatLoop hold it while they call nodes whose handlers need their   *)
(* own m_mutex to answer: two candidates that call each other do not wait  *)
(* for each other for ever.                                                *)
(***************************************************************************)
MutexReleased ==
    \A n \in Node : []<>(holder[n] = "free")

=============================================================================
