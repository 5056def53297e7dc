--------------------------- MODULE RaftNodeProofs ---------------------------
(***************************************************************************)
(* Machine-checked proofs about RaftNode.                                  *)
(***************************************************************************)
EXTENDS RaftNodeInv, FiniteSetTheorems, SequenceTheorems, TLAPS

-----------------------------------------------------------------------------
(* The members of a cluster *)

(***************************************************************************)
(* m_peers lists Len(Peers[n]) distinct nodes, none of them n itself.      *)
(***************************************************************************)
LEMMA PeerCount ==
    ASSUME NEW n \in Node
    PROVE  /\ Len(Peers[n]) \in Nat
           /\ PeerSet(n) \subseteq Node
           /\ n \notin PeerSet(n)
           /\ IsFiniteSet(PeerSet(n))
           /\ Cardinality(PeerSet(n)) = Len(Peers[n])
           /\ IsFiniteSet({n} \cup PeerSet(n))
           /\ Cardinality({n} \cup PeerSet(n)) = Len(Peers[n]) + 1
<1>1. Peers[n] \in Seq(Node) /\ Len(Peers[n]) \in Nat
  BY PeersAssumption
<1>2. PeerSet(n) \subseteq Node /\ n \notin PeerSet(n)
  BY <1>1, PeersAssumption DEF PeerSet
<1>3. ExistsBijection(1..Len(Peers[n]), PeerSet(n))
  <2> DEFINE f == [k \in 1..Len(Peers[n]) |-> Peers[n][k]]
  <2>1. f \in Injection(1..Len(Peers[n]), PeerSet(n))
    BY <1>1, PeersAssumption DEF PeerSet, Injection, IsInjective
  <2>2. f \in Surjection(1..Len(Peers[n]), PeerSet(n))
    BY <2>1 DEF PeerSet, Surjection, Injection
  <2> QED
    BY <2>1, <2>2 DEF ExistsBijection, Bijection
<1>4. IsFiniteSet(PeerSet(n)) /\ Cardinality(PeerSet(n)) = Len(Peers[n])
  BY <1>1, <1>3, FS_NatBijection, FS_CountingElements
<1>5. /\ IsFiniteSet(PeerSet(n) \cup {n})
      /\ Cardinality(PeerSet(n) \cup {n}) = Len(Peers[n]) + 1
  BY <1>2, <1>4, FS_AddElement
<1>6. PeerSet(n) \cup {n} = {n} \cup PeerSet(n)
  OBVIOUS
<1> QED
  BY <1>1, <1>2, <1>4, <1>5, <1>6

(* A nonempty set of naturals has a least element. *)
LEMMA LeastNat ==
    ASSUME NEW S \in SUBSET Nat, S # {}
    PROVE  \E i \in S : \A j \in S : i <= j
<1>1. PICK i \in S : \A j \in S : ~ (<<j, i>> \in OpToRel(<, Nat))
  BY NatLessThanWellFounded, WFMin
<1>2. \A j \in S : ~ (j < i)
  BY <1>1 DEF OpToRel
<1> QED
  BY <1>2

(* A nonempty bounded set of naturals has a greatest element. *)
LEMMA GreatestNat ==
    ASSUME NEW S \in SUBSET Nat, S # {}, NEW b \in Nat, \A i \in S : i <= b
    PROVE  \E i \in S : \A j \in S : j <= i
<1> DEFINE T == {b - i : i \in S}
<1>1. T \in SUBSET Nat /\ T # {}
  <2>1. \A i \in S : b - i \in Nat
    OBVIOUS
  <2>2. PICK i \in S : TRUE
    OBVIOUS
  <2>3. b - i \in T
    BY <2>2
  <2> QED
    BY <2>1, <2>3
<1>2. PICK d \in T : \A e \in T : d <= e
  BY <1>1, LeastNat
<1>3. PICK i \in S : d = b - i
  BY <1>2
<1>4. \A j \in S : b - i <= b - j
  BY <1>2, <1>3
<1> QED
  BY <1>3, <1>4

-----------------------------------------------------------------------------
(* The commit index a leader computes *)

(* The elements of M whose value under f is above i, or at least i. *)
Above(M, f, i) == {x \in M : f[x] > i}
AtLeast(M, f, i) == {x \in M : f[x] >= i}

(* The members whose index reaches a value are finitely many. *)
LEMMA AboveFinite ==
    ASSUME NEW M, IsFiniteSet(M), NEW f \in [M -> Nat], NEW i
    PROVE  /\ IsFiniteSet(Above(M, f, i)) /\ Cardinality(Above(M, f, i)) \in Nat
           /\ IsFiniteSet(AtLeast(M, f, i)) /\ Cardinality(AtLeast(M, f, i)) \in Nat
<1>1. Above(M, f, i) \in SUBSET M /\ AtLeast(M, f, i) \in SUBSET M
  BY DEF Above, AtLeast
<1>2. IsFiniteSet(Above(M, f, i)) /\ IsFiniteSet(AtLeast(M, f, i))
  BY <1>1, FS_Subset
<1> QED
  BY <1>2, FS_CardinalityType

(* A function into the naturals takes a greatest value on a finite set. *)
LEMMA GreatestValue ==
    ASSUME NEW M, IsFiniteSet(M), M # {}, NEW f \in [M -> Nat]
    PROVE  \E x \in M : Above(M, f, f[x]) = {}
<1> DEFINE c == [x \in M |-> Cardinality(Above(M, f, f[x]))]
           C == {c[x] : x \in M}
<1>1. C \in SUBSET Nat /\ C # {}
  BY AboveFinite
<1>2. PICK m \in C : \A d \in C : m <= d
  <2> HIDE DEF C
  <2> QED
    BY <1>1, LeastNat
<1>3. PICK x \in M : m = Cardinality(Above(M, f, f[x]))
  BY <1>2
<1>4. ASSUME NEW y \in Above(M, f, f[x]) PROVE FALSE
  <2>0. y \in M /\ f[y] > f[x] /\ f[y] \in Nat /\ f[x] \in Nat
    BY <1>3, <1>4 DEF Above
  <2>1. Above(M, f, f[y]) \in SUBSET Above(M, f, f[x])
    BY <2>0 DEF Above
  <2>2. Above(M, f, f[y]) # Above(M, f, f[x])
    <3>1. y \notin Above(M, f, f[y])
      BY <2>0 DEF Above
    <3> QED
      BY <3>1, <1>4
  <2>3. Cardinality(Above(M, f, f[y])) < Cardinality(Above(M, f, f[x]))
    <3>1. IsFiniteSet(Above(M, f, f[x]))
      BY AboveFinite
    <3>2. /\ Cardinality(Above(M, f, f[y])) <= Cardinality(Above(M, f, f[x]))
          /\ Cardinality(Above(M, f, f[x])) # Cardinality(Above(M, f, f[y]))
      BY <3>1, <2>1, <2>2, FS_Subset
    <3>3. /\ Cardinality(Above(M, f, f[x])) \in Nat
          /\ Cardinality(Above(M, f, f[y])) \in Nat
      BY AboveFinite
    <3> QED
      BY <3>2, <3>3
  <2>4. m <= Cardinality(Above(M, f, f[y]))
    BY <1>2, <2>0
  <2>5. Cardinality(Above(M, f, f[y])) \in Nat /\ Cardinality(Above(M, f, f[x])) \in Nat
    BY AboveFinite
  <2> QED
    BY <1>3, <2>3, <2>4, <2>5
<1> QED
  BY <1>4

(***************************************************************************)
(* Element r (counted from 0) of the values of f sorted in descending      *)
(* order: some value has at most r values above it and more than r values  *)
(* that reach it.                                                          *)
(***************************************************************************)
LEMMA RankedValue ==
    ASSUME NEW M, IsFiniteSet(M), NEW f \in [M -> Nat],
           NEW r \in Nat, r < Cardinality(M)
    PROVE  \E x \in M : /\ Cardinality(AtLeast(M, f, f[x])) > r
                        /\ Cardinality(Above(M, f, f[x])) <= r
<1> DEFINE B == {x \in M : Cardinality(Above(M, f, f[x])) <= r}
           V == {f[x] : x \in B}
<1>1. M # {}
  BY FS_EmptySet
<1>2. PICK top \in M : Above(M, f, f[top]) = {}
  BY <1>1, GreatestValue
<1>3. top \in B
  BY <1>2, FS_EmptySet
<1>4. V \in SUBSET Nat /\ V # {}
  BY <1>3
<1>5. PICK v \in V : \A w \in V : v <= w
  <2> HIDE DEF V
  <2> QED
    BY <1>4, LeastNat
<1>6. PICK x \in B : v = f[x]
  BY <1>5
<1>7. \A y \in B : f[x] <= f[y]
  BY <1>5, <1>6
<1>8. ASSUME ~(Cardinality(AtLeast(M, f, f[x])) > r) PROVE FALSE
  <2> DEFINE L == {f[y] : y \in {z \in M : f[z] < f[x]}}
  <2>1. AtLeast(M, f, f[x]) # M
    BY <1>8
  <2>2. PICK y \in M : f[y] < f[x]
    BY <1>6, <2>1 DEF AtLeast
  <2>3. L \in SUBSET Nat /\ L # {} /\ f[x] \in Nat /\ \A i \in L : i <= f[x]
    BY <1>6, <2>2
  <2>4. PICK i \in L : \A j \in L : j <= i
    <3> HIDE DEF L
    <3> QED
      BY <2>3, GreatestNat
  <2>5. PICK z \in M : f[z] < f[x] /\ i = f[z]
    BY <2>4
  <2>6. Above(M, f, f[z]) = AtLeast(M, f, f[x])
    <3>1. \A u \in M : f[u] < f[x] => f[u] <= f[z]
      BY <2>4, <2>5
    <3> QED
      BY <1>6, <2>5, <3>1 DEF Above, AtLeast
  <2>7. z \in B
    <3>1. Cardinality(AtLeast(M, f, f[x])) \in Nat
      BY AboveFinite
    <3> QED
      BY <1>8, <2>5, <2>6, <3>1
  <2> QED
    BY <1>6, <1>7, <2>5, <2>7
<1> QED
  BY <1>6, <1>8

(***************************************************************************)
(* The element that heartbeatLoop picks from the sorted matchIndices is    *)
(* the leader's own last index or the match index of one of its peers, and *)
(* more than half of m_peers's number of members reach it.                 *)
(***************************************************************************)
LEMMA NewCommitIndexIsMatched ==
    ASSUME NEW n \in Node, NEW match \in [Conn -> Nat],
           Len(m_logs[n]) \in Nat
    PROVE  /\ \E x \in {n} \cup PeerSet(n) :
                 NewCommitIndex(n, match) =
                    IF x = n THEN Len(m_logs[n]) ELSE match[<<n, x>>]
           /\ Cardinality({x \in {n} \cup PeerSet(n) :
                             (IF x = n THEN Len(m_logs[n]) ELSE match[<<n, x>>])
                               >= NewCommitIndex(n, match)})
                > Len(Peers[n]) \div 2
<1> DEFINE members == {n} \cup PeerSet(n)
           index(x) == IF x = n THEN Len(m_logs[n]) ELSE match[<<n, x>>]
           f == [x \in members |-> index(x)]
           rank == Len(Peers[n]) \div 2
           S == {index(x) : x \in members}
           Pick(i) == /\ Cardinality({x \in members : index(x) >= i}) > rank
                      /\ Cardinality({x \in members : index(x) > i}) <= rank
<1>1. /\ IsFiniteSet(members) /\ Cardinality(members) = Len(Peers[n]) + 1
      /\ members \subseteq Node
      /\ Len(Peers[n]) \in Nat
  BY PeerCount
<1>2. rank \in Nat /\ rank < Cardinality(members)
  <2>1. \A k \in Nat : k \div 2 \in Nat /\ k \div 2 < k + 1
    OBVIOUS
  <2> QED
    BY <1>1, <2>1
<1>3. f \in [members -> Nat]
  BY <1>1 DEF Conn
<1>4. PICK x \in members :
         /\ Cardinality(AtLeast(members, f, f[x])) > rank
         /\ Cardinality(Above(members, f, f[x])) <= rank
  <2> HIDE DEF f, members, rank
  <2> QED
    BY <1>1, <1>2, <1>3, RankedValue
<1>5. /\ AtLeast(members, f, f[x]) = {y \in members : index(y) >= index(x)}
      /\ Above(members, f, f[x]) = {y \in members : index(y) > index(x)}
  BY DEF Above, AtLeast
<1>6. index(x) \in S /\ Pick(index(x))
  BY <1>4, <1>5
<1>7. NewCommitIndex(n, match) = CHOOSE j \in S : Pick(j)
  BY DEF NewCommitIndex
<1>8. NewCommitIndex(n, match) \in S /\ Pick(NewCommitIndex(n, match))
  <2> HIDE DEF S, Pick
  <2> QED
    BY <1>6, <1>7
<1> QED
  BY <1>8

-----------------------------------------------------------------------------
(* Types and indices *)

(* A freshly constructed cluster satisfies the index invariant. *)
LEMMA IndexInit == Init => IndexInv
<1> SUFFICES ASSUME Init PROVE IndexInv
  OBVIOUS
<1>1. TypeOK
  BY DEF Init, TypeOK, Conn
<1>2. PassShape /\ NoEntriesSent
  BY DEF Init, PassShape, NoEntriesSent, Conn
<1>3. IndexSafety
  BY DEF Init, IndexSafety
<1> QED
  BY <1>1, <1>2, <1>3 DEF IndexInv

(* The term of an entry inside a log is a number. *)
LEMMA TermAtType ==
    ASSUME NEW log \in Seq(Entry), NEW i \in 0..Len(log)
    PROVE  TermAt(log, i) \in Nat
<1>1. CASE i = 0
  BY <1>1 DEF TermAt
<1>2. CASE i # 0
  <2>1. log[i] \in Entry
    BY <1>2
  <2> QED
    BY <1>2, <2>1 DEF TermAt, Entry
<1> QED
  BY <1>1, <1>2

(* What a pass sends is a request, and it carries no entries. *)
LEMMA RequestToType ==
    ASSUME IndexInv, NEW n \in Node, NEW p \in PeerSet(n), holder[n] # "free"
    PROVE  RequestTo(n, p) \in Request /\ NoEntries(RequestTo(n, p))
<1>1. /\ m_logs[n] \in Seq(Entry) /\ m_currentTerm[n] \in Nat
      /\ m_commitIndex[n] \in Nat /\ Len(m_logs[n]) \in Nat
  BY DEF IndexInv, TypeOK
<1>2. CASE holder[n] = "election"
  <2>1. LastTerm(m_logs[n]) \in Nat
    BY <1>1, TermAtType DEF LastTerm
  <2> QED
    BY <1>1, <1>2, <2>1 DEF RequestTo, VoteRequest, AppendRequest, Request, RequestVoteArgs, NoEntries
<1>3. CASE holder[n] # "election"
  <2>1. m_state[n] = "Leader"
    BY <1>3 DEF IndexInv, TypeOK, PassShape
  <2>2. m_nextIndex[<<n, p>>] - 1 \in 0..Len(m_logs[n])
    BY <1>1, <2>1 DEF IndexInv, IndexSafety
  <2>3. TermAt(m_logs[n], m_nextIndex[<<n, p>>] - 1) \in Nat
    BY <1>1, <2>2, TermAtType
  <2>4. << >> \in Seq(Entry)
    OBVIOUS
  <2> QED
    BY <1>1, <1>3, <2>2, <2>3, <2>4 DEF RequestTo, VoteRequest, AppendRequest, Request, AppendEntriesArgs, NoEntries
<1> QED
  BY <1>2, <1>3

(* The peer a call is made to. *)
LEMMA CurrentPeerType ==
    ASSUME IndexInv, NEW n \in Node, NEW ph, InCall(n, ph)
    PROVE  /\ CurrentPeer(n) \in PeerSet(n) /\ CurrentPeer(n) \in Node
           /\ CurrentConn(n) \in Conn /\ CurrentConn(n) = <<n, CurrentPeer(n)>>
<1>1. at[n] \in 1..Len(Peers[n])
  BY PeerCount DEF IndexInv, TypeOK, PassShape, InCall
<1>2. CurrentPeer(n) \in PeerSet(n)
  BY <1>1 DEF CurrentPeer, PeerSet
<1> QED
  BY <1>2, PeerCount DEF CurrentConn, Conn

(***************************************************************************)
(* Steps of a pass that neither touch the node's own state nor send.       *)
(***************************************************************************)
LEMMA IndexWhenNodeKept ==
    ASSUME IndexInv, TypeOK', NoEntriesSent', UNCHANGED nodeVars,
           \A n \in Node : /\ at'[n] >= 1
                           /\ holder'[n] = "heartbeat" => m_state[n] = "Leader"
    PROVE  IndexInv'
<1>1. PassShape'
  BY DEF PassShape, nodeVars
<1>2. IndexSafety'
  BY DEF IndexInv, IndexSafety, nodeVars
<1> QED
  BY <1>1, <1>2 DEF IndexInv

(* No request has been added. *)
LEMMA NoEntriesWhenKept ==
    ASSUME IndexInv, reqs' = reqs, orphans' = orphans
    PROVE  NoEntriesSent'
BY DEF IndexInv, NoEntriesSent, NoEntries

-----------------------------------------------------------------------------
(* One lemma for each kind of step *)

(* The loops wake up and find nothing to do. *)
LEMMA IndexPoll ==
    ASSUME IndexInv, UNCHANGED vars PROVE IndexInv'
BY DEF IndexInv, vars, nodeVars, passVars, connVars, TypeOK, PassShape,
       NoEntriesSent, NoEntries, IndexSafety

(* startElection touches no log and no index. *)
LEMMA IndexStartElection ==
    ASSUME IndexInv, NEW n \in Node, StartElection(n) PROVE IndexInv'
<1>1. TypeOK'
  BY DEF IndexInv, TypeOK, StartElection, connVars
<1>2. PassShape'
  BY DEF IndexInv, TypeOK, PassShape, StartElection
<1>3. NoEntriesSent'
  BY NoEntriesWhenKept DEF StartElection, connVars
<1>4. IndexSafety'
  BY DEF IndexInv, TypeOK, IndexSafety, StartElection
<1> QED
  BY <1>1, <1>2, <1>3, <1>4 DEF IndexInv

(* heartbeatLoop takes m_mutex, and only a leader does. *)
LEMMA IndexStartHeartbeat ==
    ASSUME IndexInv, NEW n \in Node, StartHeartbeat(n) PROVE IndexInv'
<1>1. TypeOK'
  BY DEF IndexInv, TypeOK, StartHeartbeat, nodeVars, connVars
<1>2. NoEntriesSent'
  BY NoEntriesWhenKept DEF StartHeartbeat, connVars
<1>3. \A m \in Node : /\ at'[m] >= 1
                      /\ holder'[m] = "heartbeat" => m_state[m] = "Leader"
  BY DEF IndexInv, TypeOK, PassShape, StartHeartbeat
<1> QED
  BY <1>1, <1>2, <1>3, IndexWhenNodeKept DEF StartHeartbeat

(* A new leader's nextIndex is one past its log. *)
LEMMA IndexWinElection ==
    ASSUME IndexInv, NEW n \in Node, WinElection(n) PROVE IndexInv'
<1>1. /\ Len(m_logs[n]) \in Nat /\ m_nextIndex \in [Conn -> Nat]
      /\ m_matchIndex \in [Conn -> Nat]
  BY DEF IndexInv, TypeOK
<1>2. m_nextIndex' = [c \in Conn |-> IF c[1] = n /\ c[2] \in PeerSet(n)
                                     THEN Len(m_logs[n]) + 1 ELSE m_nextIndex[c]]
  BY DEF WinElection
<1>3. m_matchIndex' = [c \in Conn |-> IF c[1] = n /\ c[2] \in PeerSet(n)
                                      THEN 0 ELSE m_matchIndex[c]]
  BY DEF WinElection
<1>4. m_nextIndex' \in [Conn -> Nat] /\ m_matchIndex' \in [Conn -> Nat]
  BY ONLY <1>1, <1>2, <1>3
<1>5. TypeOK'
  <2>1. <<m_currentTerm[n], n>> \in Nat \X Node
    BY DEF IndexInv, TypeOK
  <2>2. elected' \subseteq Nat \X Node
    BY <2>1 DEF IndexInv, TypeOK, WinElection
  <2> QED
    BY <1>4, <2>2 DEF IndexInv, TypeOK, WinElection, Unlock, connVars
<1>6. PassShape'
  BY DEF IndexInv, TypeOK, PassShape, WinElection, Unlock
<1>7. NoEntriesSent'
  BY NoEntriesWhenKept DEF WinElection, connVars
<1>8. IndexSafety'
  <2> SUFFICES ASSUME NEW q \in Node, m_state'[q] = "Leader", NEW p \in PeerSet(q)
               PROVE  /\ m_nextIndex'[<<q, p>>] \in 1..(Len(m_logs[q]) + 1)
                      /\ m_matchIndex'[<<q, p>>] <= Len(m_logs[q])
    BY DEF IndexInv, IndexSafety, WinElection
  <2>1. <<q, p>> \in Conn /\ <<q, p>>[1] = q /\ <<q, p>>[2] = p
    BY PeerCount DEF Conn
  <2>2. CASE q = n
    BY ONLY <1>1, <1>2, <1>3, <2>1, <2>2, p \in PeerSet(q)
  <2>3. CASE q # n
    <3>1. m_state[q] = "Leader"
      BY <2>3 DEF IndexInv, TypeOK, WinElection
    <3>2. /\ m_nextIndex'[<<q, p>>] = m_nextIndex[<<q, p>>]
          /\ m_matchIndex'[<<q, p>>] = m_matchIndex[<<q, p>>]
      BY ONLY <1>2, <1>3, <2>1, <2>3
    <3> QED
      BY <3>1, <3>2 DEF IndexInv, IndexSafety
  <2> QED
    BY <2>2, <2>3
<1> QED
  BY <1>5, <1>6, <1>7, <1>8 DEF IndexInv

(* A pass ends without a win. *)
LEMMA IndexUnlock ==
    ASSUME IndexInv, NEW n \in Node, LoseElection(n) \/ FinishHeartbeat(n)
    PROVE  IndexInv'
<1>1. Unlock(n) /\ UNCHANGED <<nodeVars, connVars, puts, grants, elected, restarts>>
  BY DEF LoseElection, FinishHeartbeat
<1>2. TypeOK'
  BY <1>1 DEF IndexInv, TypeOK, Unlock, nodeVars, connVars
<1>3. NoEntriesSent'
  BY <1>1, NoEntriesWhenKept DEF connVars
<1>4. \A m \in Node : /\ at'[m] >= 1
                      /\ holder'[m] = "heartbeat" => m_state[m] = "Leader"
  BY <1>1 DEF IndexInv, TypeOK, PassShape, Unlock
<1> QED
  BY <1>1, <1>2, <1>3, <1>4, IndexWhenNodeKept

(* A request is built from indices inside the log. *)
LEMMA IndexSendRequest ==
    ASSUME IndexInv, NEW n \in Node, SendRequest(n) PROVE IndexInv'
<1> DEFINE c == CurrentConn(n)
           r == RequestTo(n, CurrentPeer(n))
<1>1. c \in Conn /\ r \in Request /\ NoEntries(r)
  BY CurrentPeerType, RequestToType DEF SendRequest, InCall
<1>2. reqs' = reqs \/ reqs' = [reqs EXCEPT ![c] = Append(@, r)]
  BY DEF SendRequest
<1>3. reqs' \in [Conn -> Seq(Request)]
  <2>1. reqs \in [Conn -> Seq(Request)]
    BY DEF IndexInv, TypeOK
  <2>2. Append(reqs[c], r) \in Seq(Request)
    BY <1>1, <2>1, AppendProperties
  <2> QED
    BY ONLY <1>1, <1>2, <2>1, <2>2
<1>4. TypeOK'
  BY <1>3 DEF IndexInv, TypeOK, SendRequest, nodeVars
<1>5. NoEntriesSent'
  <2> HIDE DEF c, r
  <2>1. reqs \in [Conn -> Seq(Request)]
    BY DEF IndexInv, TypeOK
  <2>2. \A d \in Conn : \A k \in 1..Len(reqs'[d]) : NoEntries(reqs'[d][k])
    <3> SUFFICES ASSUME NEW d \in Conn, NEW k \in 1..Len(reqs'[d])
                 PROVE  NoEntries(reqs'[d][k])
      OBVIOUS
    <3>1. CASE reqs'[d] = reqs[d]
      BY <3>1 DEF IndexInv, NoEntriesSent
    <3>2. CASE d = c /\ reqs'[d] = Append(reqs[d], r)
      <4>1. k \in 1..(Len(reqs[d]) + 1) /\ reqs[d] \in Seq(Request)
        BY <1>1, <2>1, <3>2, AppendProperties
      <4>2. CASE k = Len(reqs[d]) + 1
        BY <1>1, <3>2, <4>1, <4>2, AppendProperties
      <4>3. CASE k \in 1..Len(reqs[d])
        <5>1. reqs'[d][k] = reqs[d][k]
          BY <1>1, <3>2, <4>1, <4>3, AppendProperties
        <5> QED
          BY <4>3, <5>1 DEF IndexInv, NoEntriesSent
      <4> QED
        BY <4>1, <4>2, <4>3
    <3> QED
      BY <1>1, <1>2, <2>1, <3>1, <3>2
  <2> QED
    BY <2>2 DEF IndexInv, NoEntriesSent, NoEntries, SendRequest
<1>6. \A m \in Node : /\ at'[m] >= 1
                      /\ holder'[m] = "heartbeat" => m_state[m] = "Leader"
  BY DEF IndexInv, PassShape, SendRequest
<1> QED
  BY <1>4, <1>5, <1>6, IndexWhenNodeKept DEF SendRequest

(* A peer is skipped. *)
LEMMA IndexSendFails ==
    ASSUME IndexInv, NEW n \in Node, SendFails(n) PROVE IndexInv'
<1>1. TypeOK'
  BY DEF IndexInv, TypeOK, SendFails, NextPeer, nodeVars, connVars
<1>2. NoEntriesSent'
  BY NoEntriesWhenKept DEF SendFails, connVars
<1>3. \A m \in Node : /\ at'[m] >= 1
                      /\ holder'[m] = "heartbeat" => m_state[m] = "Leader"
  BY DEF IndexInv, TypeOK, PassShape, SendFails, NextPeer
<1> QED
  BY <1>1, <1>2, <1>3, IndexWhenNodeKept DEF SendFails

(* Giving a connection back keeps its type. *)
LEMMA ReleaseType ==
    ASSUME IndexInv, NEW c \in Conn, NEW unread \in Seq(Reply),
           releaseConnection(c, unread)
    PROVE  reps' \in [Conn -> Seq(Reply)] /\ closed' \subseteq Conn
BY DEF IndexInv, TypeOK, releaseConnection

(* The next position in m_peers is a position again. *)
LEMMA NextPeerType ==
    ASSUME IndexInv, NEW n \in Node, NextPeer(n)
    PROVE  /\ at' \in [Node -> Nat] /\ phase' \in [Node -> {"send", "recv"}]
           /\ \A m \in Node : at'[m] >= 1
BY DEF IndexInv, TypeOK, PassShape, NextPeer

(* recv fails and the connection is released. *)
LEMMA IndexRecvFails ==
    ASSUME IndexInv, NEW n \in Node, RecvFails(n) PROVE IndexInv'
<1> DEFINE c == CurrentConn(n)
<1>1. c \in Conn /\ reps[c] \in Seq(Reply)
  BY CurrentPeerType DEF IndexInv, TypeOK, RecvFails
<1>2. PICK unread \in Seq(Reply) : releaseConnection(c, unread)
  <2>1. CASE releaseConnection(c, reps[c])
    BY <1>1, <2>1
  <2>2. CASE reps[c] # << >> /\ releaseConnection(c, Tail(reps[c]))
    <3>1. Tail(reps[c]) \in Seq(Reply)
      BY <1>1, <2>2, HeadTailProperties
    <3> QED
      BY <2>2, <3>1
  <2> QED
    BY <2>1, <2>2 DEF RecvFails
<1>3. reps' \in [Conn -> Seq(Reply)] /\ closed' \subseteq Conn
  BY <1>1, <1>2, ReleaseType
<1>4. TypeOK'
  <2>1. /\ at' \in [Node -> Nat] /\ phase' \in [Node -> {"send", "recv"}]
        /\ UNCHANGED <<nodeVars, holder, votes, reqs, orphans,
                       puts, grants, elected, restarts>>
    BY NextPeerType DEF RecvFails
  <2> QED
    BY <1>3, <2>1 DEF IndexInv, TypeOK, nodeVars
<1>5. NoEntriesSent'
  BY NoEntriesWhenKept DEF RecvFails
<1>6. \A m \in Node : /\ at'[m] >= 1
                      /\ holder'[m] = "heartbeat" => m_state[m] = "Leader"
  BY DEF IndexInv, TypeOK, PassShape, RecvFails, NextPeer
<1> QED
  BY <1>4, <1>5, <1>6, IndexWhenNodeKept DEF RecvFails

(* Reading a reply leaves well-typed connections. *)
LEMMA TakeReplyType ==
    ASSUME IndexInv, NEW n \in Node, TakeReply(n)
    PROVE  /\ TheReply(n) \in Reply
           /\ reps' \in [Conn -> Seq(Reply)] /\ closed' \subseteq Conn
           /\ NoEntriesSent'
           /\ UNCHANGED <<reqs, orphans, grants, elected, restarts>>
           /\ CurrentPeer(n) \in PeerSet(n) /\ CurrentPeer(n) \in Node
           /\ CurrentConn(n) \in Conn /\ CurrentConn(n) = <<n, CurrentPeer(n)>>
<1> DEFINE c == CurrentConn(n)
<1>1. /\ CurrentPeer(n) \in PeerSet(n) /\ CurrentPeer(n) \in Node
      /\ c \in Conn /\ c = <<n, CurrentPeer(n)>>
  BY CurrentPeerType DEF TakeReply
<1>2. reps[c] \in Seq(Reply) /\ reps[c] # << >>
  BY <1>1 DEF IndexInv, TypeOK, TakeReply
<1>3. Head(reps[c]) \in Reply /\ Tail(reps[c]) \in Seq(Reply)
  BY <1>2, HeadTailProperties
<1>4. reps' \in [Conn -> Seq(Reply)] /\ closed' \subseteq Conn
  BY <1>1, <1>3, ReleaseType DEF TakeReply
<1>5. NoEntriesSent'
  BY NoEntriesWhenKept DEF TakeReply
<1> QED
  BY <1>1, <1>3, <1>4, <1>5 DEF TakeReply, TheReply

(* A reply of the other kind is dropped. *)
LEMMA IndexRecvWrongKind ==
    ASSUME IndexInv, NEW n \in Node, RecvWrongKind(n) PROVE IndexInv'
<1>1. /\ reps' \in [Conn -> Seq(Reply)] /\ closed' \subseteq Conn /\ NoEntriesSent'
      /\ UNCHANGED <<reqs, orphans, grants, elected, restarts>>
  BY TakeReplyType DEF RecvWrongKind
<1>2. TypeOK'
  BY <1>1 DEF IndexInv, TypeOK, RecvWrongKind, NextPeer, nodeVars
<1>3. \A m \in Node : /\ at'[m] >= 1
                      /\ holder'[m] = "heartbeat" => m_state[m] = "Leader"
  BY DEF IndexInv, TypeOK, PassShape, RecvWrongKind, NextPeer
<1> QED
  BY <1>1, <1>2, <1>3, IndexWhenNodeKept DEF RecvWrongKind

(* A node that steps down is no leader and has no pass any more. *)
LEMMA StepDownKeepsIndex ==
    ASSUME IndexInv, NEW n \in Node, NEW t \in Nat, StepDown(n, t),
           reps' \in [Conn -> Seq(Reply)], closed' \subseteq Conn, NoEntriesSent',
           UNCHANGED <<m_logs, m_commitIndex, m_lastApplied, m_nextIndex,
                       m_matchIndex, reqs, orphans, puts, grants, elected,
                       restarts>>
    PROVE  IndexInv'
<1>1. TypeOK'
  BY DEF IndexInv, TypeOK, StepDown, Unlock
<1>2. PassShape'
  BY DEF IndexInv, TypeOK, PassShape, StepDown, Unlock
<1>3. IndexSafety'
  BY DEF IndexInv, TypeOK, IndexSafety, StepDown
<1> QED
  BY <1>1, <1>2, <1>3 DEF IndexInv

(* A vote is counted or refused, or the candidate steps down. *)
LEMMA IndexRecvVote ==
    ASSUME IndexInv, NEW n \in Node, RecvVote(n) PROVE IndexInv'
<1> DEFINE r == TheReply(n)
<1>1. /\ r \in Reply /\ reps' \in [Conn -> Seq(Reply)] /\ closed' \subseteq Conn
      /\ NoEntriesSent' /\ CurrentPeer(n) \in Node
      /\ UNCHANGED <<reqs, orphans, grants, elected, restarts>>
  BY TakeReplyType DEF RecvVote
<1>2. CASE r.term > m_currentTerm[n] /\ StepDown(n, r.term)
  <2>1. r.term \in Nat
    BY <1>1 DEF Reply, RequestVoteReply, AppendEntriesReply
  <2> HIDE DEF r
  <2> QED
    BY <1>1, <1>2, <2>1, StepDownKeepsIndex DEF RecvVote
<1>3. CASE VoteReceived(n) \/ VoteRefused(n)
  <2>1. /\ at' \in [Node -> Nat] /\ phase' \in [Node -> {"send", "recv"}]
        /\ \A m \in Node : at'[m] >= 1
    BY <1>3, NextPeerType DEF VoteReceived, VoteRefused
  <2>2. UNCHANGED <<nodeVars, holder, puts>>
    BY <1>3 DEF RecvVote, VoteReceived, VoteRefused, nodeVars
  <2>3. votes' \in [Node -> SUBSET Node]
    <3>1. votes \in [Node -> SUBSET Node]
      BY DEF IndexInv, TypeOK
    <3>2. votes' = votes \/ votes' = [votes EXCEPT ![n] = votes[n] \cup {CurrentPeer(n)}]
      BY <1>3 DEF VoteReceived, VoteRefused
    <3> QED
      BY ONLY <1>1, <3>1, <3>2
  <2>4. TypeOK'
    BY <1>1, <2>1, <2>2, <2>3 DEF IndexInv, TypeOK, nodeVars
  <2>5. \A m \in Node : holder'[m] = "heartbeat" => m_state[m] = "Leader"
    BY <2>2 DEF IndexInv, PassShape
  <2> QED
    BY <1>1, <2>1, <2>2, <2>4, <2>5, IndexWhenNodeKept
<1> QED
  BY <1>2, <1>3 DEF RecvVote

(***************************************************************************)
(* applyCommittedLogs reads inside the log, puts commands only, and ends   *)
(* with m_lastApplied at the commit index.                                 *)
(***************************************************************************)
LEMMA ApplyType ==
    ASSUME IndexInv, NEW n \in Node, NEW log \in Seq(Entry),
           NEW commit \in m_lastApplied[n]..Len(log),
           applyCommittedLogs(n, log, commit)
    PROVE  /\ m_lastApplied' = [m_lastApplied EXCEPT ![n] = commit]
           /\ puts' \in [Node -> Seq(Command)]
<1>1. m_lastApplied[n] \in Nat /\ commit \in Nat /\ Len(log) \in Nat
  BY DEF IndexInv, TypeOK
<1>2. m_lastApplied \in [Node -> Nat] /\ puts \in [Node -> Seq(Command)]
  BY DEF IndexInv, TypeOK
<1>3. CASE m_lastApplied[n] < commit
  <2> DEFINE new == Commands(log, m_lastApplied[n], commit)
  <2>1. \A k \in 1..(commit - m_lastApplied[n]) : log[m_lastApplied[n] + k].cmd \in Command
    <3> SUFFICES ASSUME NEW k \in 1..(commit - m_lastApplied[n])
                 PROVE  log[m_lastApplied[n] + k] \in Entry
      BY DEF Entry
    <3>1. m_lastApplied[n] + k \in 1..Len(log)
      BY <1>1
    <3> QED
      BY <3>1, ElementOfSeq
  <2>2. new \in [1..(commit - m_lastApplied[n]) -> Command]
    BY <2>1 DEF Commands
  <2>3. new \in Seq(Command)
    <3>1. commit - m_lastApplied[n] \in Nat
      BY <1>1
    <3> HIDE DEF new
    <3> QED
      BY <2>2, <3>1, SeqDef
  <2>4. puts[n] \o new \in Seq(Command)
    <3> HIDE DEF new
    <3> QED
      BY <1>2, <2>3, ConcatProperties
  <2>5. puts' = [puts EXCEPT ![n] = puts[n] \o new]
    BY <1>3 DEF applyCommittedLogs
  <2> HIDE DEF new
  <2>6. m_lastApplied' = [m_lastApplied EXCEPT ![n] = commit]
    BY <1>3 DEF applyCommittedLogs
  <2> QED
    BY <1>2, <2>4, <2>5, <2>6
<1>4. CASE ~(m_lastApplied[n] < commit)
  <2>1. m_lastApplied[n] = commit
    BY <1>1, <1>4
  <2> QED
    BY <1>2, <1>4, <2>1 DEF applyCommittedLogs
<1> QED
  BY <1>3, <1>4

(***************************************************************************)
(* After a successful reply m_nextIndex is just past the log: the code     *)
(* advances it by the entries it collected, sent or not.                   *)
(***************************************************************************)
LEMMA IndexAppendAccepted ==
    ASSUME IndexInv, NEW n \in Node, RecvAppend(n), AppendAccepted(n)
    PROVE  IndexInv'
<1> DEFINE c == CurrentConn(n)
           len == Len(m_logs[n])
           next == m_nextIndex[c] + Len(EntriesFor(n, CurrentPeer(n)))
           new == NewCommitIndex(n, m_matchIndex')
<1>1. /\ reps' \in [Conn -> Seq(Reply)] /\ closed' \subseteq Conn /\ NoEntriesSent'
      /\ CurrentPeer(n) \in PeerSet(n) /\ CurrentPeer(n) \in Node
      /\ c \in Conn /\ c = <<n, CurrentPeer(n)>>
      /\ UNCHANGED <<reqs, orphans, grants, elected, restarts>>
  BY TakeReplyType DEF RecvAppend
<1>2. m_state[n] = "Leader"
  BY DEF IndexInv, PassShape, RecvAppend
<1>3. /\ m_logs[n] \in Seq(Entry) /\ len \in Nat
      /\ m_nextIndex \in [Conn -> Nat] /\ m_matchIndex \in [Conn -> Nat]
      /\ m_commitIndex \in [Node -> Nat] /\ m_lastApplied \in [Node -> Nat]
  BY DEF IndexInv, TypeOK
<1>4. next = len + 1
  <2>1. m_nextIndex[c] \in 1..(len + 1)
    BY <1>1, <1>2 DEF IndexInv, IndexSafety
  <2>2. \A i \in m_nextIndex[c]..len : m_logs[n][i] \in Entry
    BY <1>3, <2>1, ElementOfSeq
  <2>3. Len(EntriesFor(n, CurrentPeer(n))) =
          IF m_nextIndex[c] <= len THEN len - m_nextIndex[c] + 1 ELSE 0
    BY <1>1, <1>3, <2>1, <2>2, SubSeqProperties DEF EntriesFor
  <2> QED
    BY <1>3, <2>1, <2>3
<1>5. /\ m_nextIndex' = [m_nextIndex EXCEPT ![c] = len + 1]
      /\ m_matchIndex' = [m_matchIndex EXCEPT ![c] = len]
  <2>1. /\ m_nextIndex' = [m_nextIndex EXCEPT ![c] = next]
        /\ m_matchIndex' = [m_matchIndex EXCEPT ![c] = next - 1]
    BY DEF AppendAccepted
  <2> HIDE DEF next, c
  <2> QED
    BY <1>3, <1>4, <2>1
<1>6. m_nextIndex' \in [Conn -> Nat] /\ m_matchIndex' \in [Conn -> Nat]
  BY ONLY <1>1, <1>3, <1>5
<1>7. \A p \in PeerSet(n) : m_matchIndex'[<<n, p>>] <= len
  <2> SUFFICES ASSUME NEW p \in PeerSet(n) PROVE m_matchIndex'[<<n, p>>] <= len
    OBVIOUS
  <2>1. <<n, p>> \in Conn /\ m_matchIndex[<<n, p>>] <= len
    BY <1>2, PeerCount DEF IndexInv, IndexSafety, Conn
  <2> QED
    BY ONLY <1>1, <1>3, <1>5, <2>1
<1>8. new \in 0..len
  <2>1. PICK x \in {n} \cup PeerSet(n) :
           new = IF x = n THEN len ELSE m_matchIndex'[<<n, x>>]
    BY <1>3, <1>6, NewCommitIndexIsMatched
  <2>2. x # n => <<n, x>> \in Conn /\ x \in PeerSet(n)
    BY <2>1, PeerCount DEF Conn
  <2> HIDE DEF new
  <2> QED
    BY <1>3, <1>6, <1>7, <2>1, <2>2
<1>9. m_lastApplied[n] = m_commitIndex[n] /\ m_commitIndex[n] <= len
  BY DEF IndexInv, IndexSafety
<1>10. /\ m_commitIndex' \in [Node -> Nat] /\ m_lastApplied' \in [Node -> Nat]
       /\ puts' \in [Node -> Seq(Command)]
       /\ m_lastApplied'[n] = m_commitIndex'[n] /\ m_commitIndex'[n] <= len
       /\ \A m \in Node : m # n => /\ m_commitIndex'[m] = m_commitIndex[m]
                                   /\ m_lastApplied'[m] = m_lastApplied[m]
  <2>1. CASE /\ new > m_commitIndex[n]
             /\ m_commitIndex' = [m_commitIndex EXCEPT ![n] = new]
             /\ applyCommittedLogs(n, m_logs[n], new)
    <3> HIDE DEF new
    <3>1. new \in m_lastApplied[n]..Len(m_logs[n])
      BY <1>3, <1>8, <1>9, <2>1
    <3>2. /\ m_lastApplied' = [m_lastApplied EXCEPT ![n] = new]
          /\ puts' \in [Node -> Seq(Command)]
      BY <1>3, <2>1, <3>1, ApplyType
    <3> QED
      BY <1>3, <1>8, <2>1, <3>2
  <2>2. CASE UNCHANGED <<m_commitIndex, m_lastApplied, puts>>
    BY <1>3, <1>9, <2>2 DEF IndexInv, TypeOK
  <2> QED
    BY <2>1, <2>2 DEF AppendAccepted
<1>11. /\ at' \in [Node -> Nat] /\ phase' \in [Node -> {"send", "recv"}]
       /\ \A m \in Node : at'[m] >= 1
       /\ UNCHANGED <<m_state, m_currentTerm, m_votedFor, m_logs, holder, votes>>
  BY NextPeerType DEF AppendAccepted, RecvAppend
<1>12. TypeOK'
  BY <1>1, <1>6, <1>10, <1>11 DEF IndexInv, TypeOK
<1>13. PassShape'
  BY <1>11 DEF IndexInv, PassShape
<1>14. IndexSafety'
  <2>1. \A m \in Node : /\ m_lastApplied'[m] = m_commitIndex'[m]
                        /\ m_commitIndex'[m] <= Len(m_logs'[m])
    BY <1>10, <1>11 DEF IndexInv, IndexSafety
  <2>2. ASSUME NEW m \in Node, m_state'[m] = "Leader", NEW p \in PeerSet(m)
        PROVE  /\ m_nextIndex'[<<m, p>>] \in 1..(Len(m_logs'[m]) + 1)
               /\ m_matchIndex'[<<m, p>>] <= Len(m_logs'[m])
    <3>1. /\ m_nextIndex[<<m, p>>] \in 1..(Len(m_logs[m]) + 1)
          /\ m_matchIndex[<<m, p>>] <= Len(m_logs[m])
          /\ <<m, p>> \in Conn /\ m_logs' = m_logs
      BY <1>11, <2>2, PeerCount DEF IndexInv, IndexSafety, Conn
    <3>2. CASE <<m, p>> = c
      <4>1. m = n
        BY <1>1, <3>2
      <4> QED
        BY ONLY <1>1, <1>3, <1>5, <3>1, <3>2, <4>1
    <3>3. CASE <<m, p>> # c
      BY ONLY <1>3, <1>5, <3>1, <3>3
    <3> QED
      BY <3>2, <3>3
  <2> QED
    BY <2>1, <2>2 DEF IndexSafety
<1> QED
  BY <1>1, <1>12, <1>13, <1>14 DEF IndexInv

(* heartbeatLoop handles a reply: indices stay inside the log. *)
LEMMA IndexRecvAppend ==
    ASSUME IndexInv, NEW n \in Node, RecvAppend(n) PROVE IndexInv'
<1> DEFINE c == CurrentConn(n)
           r == TheReply(n)
<1>1. /\ r \in Reply /\ reps' \in [Conn -> Seq(Reply)] /\ closed' \subseteq Conn
      /\ NoEntriesSent' /\ c \in Conn
      /\ UNCHANGED <<reqs, orphans, grants, elected, restarts>>
  BY TakeReplyType DEF RecvAppend
<1>2. CASE AppendAccepted(n)
  BY <1>2, IndexAppendAccepted
<1>3. CASE AppendOutdated(n)
  <2>1. r.term \in Nat
    BY <1>1 DEF Reply, RequestVoteReply, AppendEntriesReply
  <2>2. StepDown(n, r.term)
    BY <1>3 DEF AppendOutdated
  <2> HIDE DEF r
  <2> QED
    BY <1>1, <1>3, <2>1, <2>2, StepDownKeepsIndex DEF AppendOutdated, RecvAppend
<1>4. CASE AppendMismatch(n)
  <2> HIDE DEF c
  <2>1. m_nextIndex \in [Conn -> Nat]
    BY DEF IndexInv, TypeOK
  <2>2. m_nextIndex' = [m_nextIndex EXCEPT ![c] = IF @ > 1 THEN @ - 1 ELSE @]
    BY <1>4 DEF AppendMismatch, c
  <2>3. m_nextIndex' \in [Conn -> Nat]
    BY ONLY <1>1, <2>1, <2>2
  <2>4. /\ at' \in [Node -> Nat] /\ phase' \in [Node -> {"send", "recv"}]
        /\ \A m \in Node : at'[m] >= 1
        /\ UNCHANGED <<m_state, m_currentTerm, m_votedFor, m_matchIndex, m_logs,
                       m_commitIndex, m_lastApplied, holder, votes, puts>>
    BY <1>4, NextPeerType DEF AppendMismatch, RecvAppend
  <2>5. TypeOK'
    BY <1>1, <2>3, <2>4 DEF IndexInv, TypeOK
  <2>6. PassShape'
    BY <2>4 DEF IndexInv, PassShape
  <2>7. IndexSafety'
    <3>1. \A d \in Conn, b \in Nat : m_nextIndex[d] \in 1..b => m_nextIndex'[d] \in 1..b
      BY ONLY <1>1, <2>1, <2>2
    <3>2. ASSUME NEW m \in Node, m_state'[m] = "Leader", NEW p \in PeerSet(m)
          PROVE  m_nextIndex'[<<m, p>>] \in 1..(Len(m_logs'[m]) + 1)
      <4>1. /\ m_nextIndex[<<m, p>>] \in 1..(Len(m_logs[m]) + 1)
            /\ m_logs' = m_logs
        BY <2>4, <3>2 DEF IndexInv, IndexSafety
      <4>2. Len(m_logs[m]) + 1 \in Nat
        BY DEF IndexInv, TypeOK
      <4>3. <<m, p>> \in Conn
        BY PeerCount DEF Conn
      <4> QED
        BY <3>1, <4>1, <4>2, <4>3
    <3> QED
      BY <2>4, <3>2 DEF IndexInv, IndexSafety
  <2> QED
    BY <1>1, <2>5, <2>6, <2>7 DEF IndexInv
<1> QED
  BY <1>2, <1>3, <1>4 DEF RecvAppend

(* submitLog makes the log longer. *)
LEMMA IndexSubmitLog ==
    ASSUME IndexInv, NEW n \in Node, NEW cmd \in Command, SubmitLog(n, cmd)
    PROVE  IndexInv'
<1> DEFINE e == [term |-> m_currentTerm[n], cmd |-> cmd]
<1>1. m_logs \in [Node -> Seq(Entry)] /\ e \in Entry
  BY DEF IndexInv, TypeOK, Entry
<1>2. m_logs' = [m_logs EXCEPT ![n] = Append(m_logs[n], e)]
  BY DEF SubmitLog
<1>3. /\ m_logs' \in [Node -> Seq(Entry)]
      /\ \A m \in Node : Len(m_logs'[m]) \in Nat /\ Len(m_logs[m]) \in Nat /\ Len(m_logs'[m]) >= Len(m_logs[m])
  <2> HIDE DEF e
  <2>1. Append(m_logs[n], e) \in Seq(Entry) /\ Len(Append(m_logs[n], e)) = Len(m_logs[n]) + 1
    BY <1>1, AppendProperties
  <2> QED
    BY <1>1, <1>2, <2>1
<1>4. UNCHANGED <<m_state, m_currentTerm, m_votedFor, m_commitIndex,
                  m_lastApplied, m_nextIndex, m_matchIndex, passVars,
                  connVars, puts, grants, elected, restarts>>
  BY DEF SubmitLog
<1>5. TypeOK'
  BY <1>3, <1>4 DEF IndexInv, TypeOK, passVars, connVars
<1>6. PassShape'
  BY <1>4 DEF IndexInv, PassShape, passVars
<1>7. NoEntriesSent'
  BY <1>4, NoEntriesWhenKept DEF connVars
<1>8. IndexSafety'
  <2>1. ASSUME NEW m \in Node
        PROVE  m_lastApplied'[m] = m_commitIndex'[m] /\ m_commitIndex'[m] <= Len(m_logs'[m])
    BY <1>3, <1>4 DEF IndexInv, TypeOK, IndexSafety
  <2>2. ASSUME NEW m \in Node, m_state'[m] = "Leader", NEW p \in PeerSet(m)
        PROVE  /\ m_nextIndex'[<<m, p>>] \in 1..(Len(m_logs'[m]) + 1)
               /\ m_matchIndex'[<<m, p>>] <= Len(m_logs'[m])
    <3>1. /\ m_nextIndex[<<m, p>>] \in 1..(Len(m_logs[m]) + 1)
          /\ m_matchIndex[<<m, p>>] <= Len(m_logs[m]) /\ m_matchIndex[<<m, p>>] \in Nat
          /\ m_nextIndex' = m_nextIndex /\ m_matchIndex' = m_matchIndex
      BY <1>4, <2>2, PeerCount DEF IndexInv, TypeOK, IndexSafety, Conn
    <3> QED
      BY ONLY <1>3, <2>2, <3>1
  <2> QED
    BY <2>1, <2>2 DEF IndexSafety
<1> QED
  BY <1>5, <1>6, <1>7, <1>8 DEF IndexInv

-----------------------------------------------------------------------------
(* The serving side *)

(* Merging no entries leaves a log alone. *)
LEMMA MergeNothing ==
    ASSUME NEW log, NEW prev PROVE MergedLog(log, prev, << >>) = log
BY DEF MergedLog

(***************************************************************************)
(* A handler keeps the node's part of the invariant; the connections are   *)
(* left to the caller.                                                     *)
(***************************************************************************)
NodeTypes ==
    /\ m_state \in [Node -> {"Follower", "Candidate", "Leader"}]
    /\ m_currentTerm \in [Node -> Nat]
    /\ m_votedFor \in [Node -> Node \cup {Nil}]
    /\ m_logs \in [Node -> Seq(Entry)]
    /\ m_commitIndex \in [Node -> Nat]
    /\ m_lastApplied \in [Node -> Nat]
    /\ puts \in [Node -> Seq(Command)]
    /\ grants \subseteq Node \X Nat \X Node

(* The fields of a request have their types. *)
LEMMA RequestTypes ==
    ASSUME NEW a \in Request
    PROVE  /\ a.term \in Nat
           /\ a.type \in {"RequestVote", "AppendEntries"}
           /\ a.type = "RequestVote" => a.candidateId \in Node /\ a \in RequestVoteArgs
           /\ a.type = "AppendEntries" => a.leaderCommit \in Nat /\ a \in AppendEntriesArgs
BY DEF Request, RequestVoteArgs, AppendEntriesArgs

(* handleRequestVote touches no log and no index. *)
LEMMA HandleVoteTypes ==
    ASSUME IndexInv, NEW p \in Node, NEW a \in Request,
           a.type = "RequestVote", handleRequestVote(p, a)
    PROVE  /\ NodeTypes'
           /\ UNCHANGED <<m_logs, m_commitIndex, m_lastApplied>>
           /\ \A q \in Node : m_state'[q] = "Leader" => m_state[q] = "Leader"
           /\ \A q \in Node : q # p => m_state'[q] = m_state[q]
<1>1. a.term \in Nat /\ a.candidateId \in Node
  BY RequestTypes
<1>2. NodeTypes
  BY DEF IndexInv, TypeOK, NodeTypes
<1>3. /\ m_currentTerm' = m_currentTerm \/ m_currentTerm' = [m_currentTerm EXCEPT ![p] = a.term]
      /\ m_state' = m_state \/ m_state' = [m_state EXCEPT ![p] = "Follower"]
      /\ \/ m_votedFor' = m_votedFor
         \/ m_votedFor' = [m_votedFor EXCEPT ![p] = a.candidateId]
         \/ m_votedFor' = [m_votedFor EXCEPT ![p] = Nil]
      /\ grants' = grants \/ grants' = grants \cup {<<p, a.term, a.candidateId>>}
      /\ UNCHANGED <<m_logs, m_commitIndex, m_lastApplied, puts>>
  BY DEF handleRequestVote
<1>4. m_currentTerm' \in [Node -> Nat]
  BY ONLY <1>1, <1>2, <1>3 DEF NodeTypes
<1>5. m_votedFor' \in [Node -> Node \cup {Nil}]
  BY ONLY <1>1, <1>2, <1>3 DEF NodeTypes
<1>6. grants' \subseteq Node \X Nat \X Node
  BY ONLY <1>1, <1>2, <1>3, p \in Node DEF NodeTypes
<1>7. m_state' \in [Node -> {"Follower", "Candidate", "Leader"}]
  BY ONLY <1>2, <1>3 DEF NodeTypes
<1>8. \A q \in Node : /\ m_state'[q] = "Leader" => m_state[q] = "Leader"
                      /\ q # p => m_state'[q] = m_state[q]
  BY ONLY <1>2, <1>3 DEF NodeTypes
<1> QED
  BY <1>2, <1>3, <1>4, <1>5, <1>6, <1>7, <1>8 DEF NodeTypes

(* handleAppendEntries without entries keeps the log. *)
LEMMA HandleAppendTypes ==
    ASSUME IndexInv, NEW p \in Node, NEW a \in Request,
           a.type = "AppendEntries", NoEntries(a), handleAppendEntries(p, a)
    PROVE  /\ NodeTypes'
           /\ m_logs' = m_logs
           /\ m_lastApplied'[p] = m_commitIndex'[p]
           /\ m_commitIndex'[p] <= Len(m_logs[p])
           /\ \A q \in Node : m_state'[q] = "Leader" => m_state[q] = "Leader"
           /\ \A q \in Node : q # p => /\ m_state'[q] = m_state[q]
                                       /\ m_commitIndex'[q] = m_commitIndex[q]
                                       /\ m_lastApplied'[q] = m_lastApplied[q]
<1>1. a.term \in Nat /\ a.leaderCommit \in Nat /\ a.entries = << >>
  BY RequestTypes DEF NoEntries
<1>2. NodeTypes
  BY DEF IndexInv, TypeOK, NodeTypes
<1>3. /\ m_lastApplied[p] = m_commitIndex[p] /\ m_commitIndex[p] <= Len(m_logs[p])
      /\ Len(m_logs[p]) \in Nat /\ m_logs[p] \in Seq(Entry)
  BY DEF IndexInv, IndexSafety, TypeOK
<1>4. CASE a.term < m_currentTerm[p]
  BY <1>2, <1>3, <1>4 DEF handleAppendEntries, Outdated, NodeTypes
<1>5. CASE ~(a.term < m_currentTerm[p])
  <2> DEFINE commit == Least(a.leaderCommit, Len(m_logs[p]))
  <2>1. /\ m_state' = [m_state EXCEPT ![p] = "Follower"]
        /\ m_currentTerm' = [m_currentTerm EXCEPT ![p] = a.term]
        /\ UNCHANGED <<m_votedFor, grants>>
    BY <1>5 DEF handleAppendEntries, Outdated
  <2>2. m_logs' = m_logs
    <3>1. m_logs' = m_logs \/ m_logs' = [m_logs EXCEPT ![p] = m_logs[p]]
      BY <1>1, <1>5, MergeNothing DEF handleAppendEntries, Outdated
    <3> QED
      BY <1>2, <3>1 DEF NodeTypes
  <2>3. \/ UNCHANGED <<m_commitIndex, m_lastApplied, puts>>
        \/ /\ a.leaderCommit > m_commitIndex[p]
           /\ m_commitIndex' = [m_commitIndex EXCEPT ![p] = commit]
           /\ applyCommittedLogs(p, m_logs[p], commit)
    BY <1>1, <1>5, MergeNothing DEF handleAppendEntries, Outdated
  <2>4. /\ m_commitIndex' \in [Node -> Nat] /\ m_lastApplied' \in [Node -> Nat]
        /\ puts' \in [Node -> Seq(Command)]
        /\ m_lastApplied'[p] = m_commitIndex'[p]
        /\ m_commitIndex'[p] <= Len(m_logs[p])
        /\ \A q \in Node : q # p => /\ m_commitIndex'[q] = m_commitIndex[q]
                                    /\ m_lastApplied'[q] = m_lastApplied[q]
    <3>1. CASE UNCHANGED <<m_commitIndex, m_lastApplied, puts>>
      BY <1>2, <1>3, <3>1 DEF NodeTypes
    <3>2. CASE /\ a.leaderCommit > m_commitIndex[p]
               /\ m_commitIndex' = [m_commitIndex EXCEPT ![p] = commit]
               /\ applyCommittedLogs(p, m_logs[p], commit)
      <4>1. commit \in m_lastApplied[p]..Len(m_logs[p]) /\ commit \in Nat
        BY <1>1, <1>2, <1>3, <3>2 DEF Least, NodeTypes
      <4> HIDE DEF commit
      <4>2. /\ m_lastApplied' = [m_lastApplied EXCEPT ![p] = commit]
            /\ puts' \in [Node -> Seq(Command)]
        BY <1>3, <3>2, <4>1, ApplyType
      <4> QED
        BY <1>2, <1>3, <3>2, <4>1, <4>2 DEF NodeTypes
    <3> QED
      BY <2>3, <3>1, <3>2
  <2>5. /\ m_state' \in [Node -> {"Follower", "Candidate", "Leader"}]
        /\ m_currentTerm' \in [Node -> Nat]
        /\ \A q \in Node : /\ m_state'[q] = "Leader" => m_state[q] = "Leader"
                           /\ q # p => m_state'[q] = m_state[q]
    BY ONLY <1>1, <1>2, <2>1 DEF NodeTypes
  <2> QED
    BY <1>2, <2>1, <2>2, <2>4, <2>5 DEF NodeTypes
<1> QED
  BY <1>4, <1>5

(* Either handler keeps the indices inside the logs. *)
LEMMA HandleKeepsIndex ==
    ASSUME IndexInv, NEW p \in Node, NEW a \in Request, NoEntries(a), Handle(p, a)
    PROVE  /\ NodeTypes'
           /\ \A q \in Node : /\ m_lastApplied'[q] = m_commitIndex'[q]
                              /\ m_commitIndex'[q] <= Len(m_logs'[q])
           /\ m_logs' = m_logs
           /\ \A q \in Node : m_state'[q] = "Leader" => m_state[q] = "Leader"
           /\ \A q \in Node : q # p => m_state'[q] = m_state[q]
<1>1. \A q \in Node : m_lastApplied[q] = m_commitIndex[q] /\ m_commitIndex[q] <= Len(m_logs[q])
  BY DEF IndexInv, IndexSafety
<1>2. CASE a.type = "RequestVote" /\ handleRequestVote(p, a)
  BY <1>1, <1>2, HandleVoteTypes
<1>3. CASE a.type = "AppendEntries" /\ handleAppendEntries(p, a)
  BY <1>1, <1>3, HandleAppendTypes
<1> QED
  BY <1>2, <1>3 DEF Handle

(* A handler answers with a reply. *)
LEMMA ReplyToType ==
    ASSUME IndexInv, NEW p \in Node, NEW a \in Request
    PROVE  ReplyTo(p, a) \in Reply
<1>1. a.term \in Nat /\ m_currentTerm[p] \in Nat
  BY RequestTypes DEF IndexInv, TypeOK
<1>2. RequestVoteReplyTo(p, a) \in RequestVoteReply
  <2>1. VoteGranted(p, a) \in BOOLEAN
    BY DEF VoteGranted
  <2> QED
    BY <1>1, <2>1 DEF RequestVoteReplyTo, RequestVoteReply
<1>3. AppendEntriesReplyTo(p, a) \in AppendEntriesReply
  BY <1>1 DEF AppendEntriesReplyTo, AppendEntriesReply, Outdated, PrevMatches
<1> QED
  BY <1>2, <1>3 DEF ReplyTo, Reply

(* What both ways of serving a request have in common. *)
LEMMA IndexAfterHandle ==
    ASSUME IndexInv, NEW p \in Node, NEW a \in Request, NoEntries(a), Handle(p, a),
           holder[p] = "free", NoEntriesSent',
           UNCHANGED <<m_nextIndex, m_matchIndex, passVars, closed, elected, restarts>>,
           reqs' \in [Conn -> Seq(Request)], reps' \in [Conn -> Seq(Reply)],
           orphans' \subseteq Node \X Request
    PROVE  IndexInv'
<1>1. /\ NodeTypes'
      /\ \A q \in Node : /\ m_lastApplied'[q] = m_commitIndex'[q]
                         /\ m_commitIndex'[q] <= Len(m_logs'[q])
      /\ m_logs' = m_logs
      /\ \A q \in Node : m_state'[q] = "Leader" => m_state[q] = "Leader"
      /\ \A q \in Node : q # p => m_state'[q] = m_state[q]
  BY HandleKeepsIndex
<1>2. TypeOK'
  BY <1>1 DEF IndexInv, TypeOK, NodeTypes, passVars
<1>3. PassShape'
  BY <1>1 DEF IndexInv, PassShape, passVars
<1>4. IndexSafety'
  BY <1>1 DEF IndexInv, IndexSafety
<1> QED
  BY <1>2, <1>3, <1>4 DEF IndexInv

(* The head of a queue of requests, and what is left of it. *)
LEMMA HeadRequest ==
    ASSUME IndexInv, NEW c \in Conn, reqs[c] # << >>
    PROVE  /\ Head(reqs[c]) \in Request /\ NoEntries(Head(reqs[c]))
           /\ Tail(reqs[c]) \in Seq(Request)
           /\ \A k \in 1..Len(Tail(reqs[c])) : NoEntries(Tail(reqs[c])[k])
<1>1. reqs[c] \in Seq(Request)
  BY DEF IndexInv, TypeOK
<1>2. \A k \in 1..Len(reqs[c]) : NoEntries(reqs[c][k])
  BY DEF IndexInv, NoEntriesSent
<1>3. 1 \in 1..Len(reqs[c]) /\ Head(reqs[c]) = reqs[c][1]
  BY <1>1
<1>4. \A k \in 1..Len(Tail(reqs[c])) : k + 1 \in 1..Len(reqs[c]) /\ Tail(reqs[c])[k] = reqs[c][k + 1]
  BY <1>1, HeadTailProperties
<1>5. Head(reqs[c]) \in Request /\ Tail(reqs[c]) \in Seq(Request)
  BY <1>1, HeadTailProperties
<1> QED
  BY <1>2, <1>3, <1>4, <1>5

(* A request is read, handled and answered. *)
LEMMA IndexServeRequest ==
    ASSUME IndexInv, NEW n \in Node, NEW p \in Node, ServeRequest(n, p)
    PROVE  IndexInv'
<1> DEFINE c == <<n, p>>
           a == Head(reqs[c])
<1>1. c \in Conn /\ reqs \in [Conn -> Seq(Request)] /\ reps \in [Conn -> Seq(Reply)]
  BY DEF Conn, IndexInv, TypeOK
<1>2. /\ a \in Request /\ NoEntries(a) /\ Tail(reqs[c]) \in Seq(Request)
      /\ \A k \in 1..Len(Tail(reqs[c])) : NoEntries(Tail(reqs[c])[k])
  BY <1>1, HeadRequest DEF ServeRequest
<1>3. /\ reqs' = [reqs EXCEPT ![c] = Tail(reqs[c])]
      /\ reps' = [reps EXCEPT ![c] = Append(reps[c], ReplyTo(p, a))]
      /\ Handle(p, a) /\ holder[p] = "free"
      /\ UNCHANGED <<m_nextIndex, m_matchIndex, passVars, closed, orphans, elected, restarts>>
  BY DEF ServeRequest
<1>4. ReplyTo(p, a) \in Reply
  BY <1>2, ReplyToType
<1> HIDE DEF c, a
<1>5. reqs' \in [Conn -> Seq(Request)]
  BY ONLY <1>1, <1>2, <1>3
<1>6. reps' \in [Conn -> Seq(Reply)]
  <2>1. Append(reps[c], ReplyTo(p, a)) \in Seq(Reply)
    BY <1>1, <1>4, AppendProperties
  <2> QED
    BY ONLY <1>1, <1>3, <2>1
<1>7. NoEntriesSent'
  <2>1. \A d \in Conn : \A k \in 1..Len(reqs'[d]) : NoEntries(reqs'[d][k])
    <3> SUFFICES ASSUME NEW d \in Conn, NEW k \in 1..Len(reqs'[d]) PROVE NoEntries(reqs'[d][k])
      OBVIOUS
    <3>1. CASE d = c
      BY <1>1, <1>2, <1>3, <3>1
    <3>2. CASE d # c
      <4>1. reqs'[d] = reqs[d]
        BY <1>1, <1>3, <3>2
      <4> QED
        BY <4>1 DEF IndexInv, NoEntriesSent
    <3> QED
      BY <3>1, <3>2
  <2> QED
    BY <1>3, <2>1 DEF IndexInv, NoEntriesSent, NoEntries
<1>8. orphans' \subseteq Node \X Request
  BY <1>3 DEF IndexInv, TypeOK
<1> QED
  BY <1>2, <1>3, <1>5, <1>6, <1>7, <1>8, IndexAfterHandle

(* A request is handled whose caller has gone. *)
LEMMA IndexServeOrphan ==
    ASSUME IndexInv, NEW p \in Node, ServeOrphan(p) PROVE IndexInv'
<1>1. PICK o \in orphans : o[1] = p /\ Handle(p, o[2]) /\ orphans' = orphans \ {o}
  BY DEF ServeOrphan
<1>2. o[2] \in Request /\ NoEntries(o[2]) /\ orphans' \subseteq Node \X Request
  BY <1>1 DEF IndexInv, TypeOK, NoEntriesSent
<1>3. /\ UNCHANGED <<m_nextIndex, m_matchIndex, passVars, closed, elected, restarts>>
      /\ reqs' = reqs /\ reps' = reps /\ holder[p] = "free"
  BY DEF ServeOrphan
<1>4. reqs' \in [Conn -> Seq(Request)] /\ reps' \in [Conn -> Seq(Reply)]
  BY <1>3 DEF IndexInv, TypeOK
<1>5. NoEntriesSent'
  BY <1>1, <1>3 DEF IndexInv, NoEntriesSent, NoEntries
<1> QED
  BY <1>1, <1>2, <1>3, <1>4, <1>5, IndexAfterHandle

-----------------------------------------------------------------------------
(* Connections and processes coming and going *)

(* The requests that outlive their connection are requests like the others. *)
LEMMA OrphanedType ==
    ASSUME IndexInv, NEW C \in SUBSET Conn
    PROVE  /\ Orphaned(C) \subseteq Node \X Request
           /\ \A o \in Orphaned(C) : NoEntries(o[2])
<1> SUFFICES ASSUME NEW o \in Orphaned(C)
             PROVE  o \in Node \X Request /\ NoEntries(o[2])
  OBVIOUS
<1>1. PICK c \in C : \E k \in 1..Len(reqs[c]) : o = <<c[2], reqs[c][k]>>
  BY DEF Orphaned
<1>2. PICK k \in 1..Len(reqs[c]) : o = <<c[2], reqs[c][k]>>
  BY <1>1
<1>3. reqs[c] \in Seq(Request) /\ c[2] \in Node
  BY DEF IndexInv, TypeOK, Conn
<1>4. reqs[c][k] \in Request /\ NoEntries(reqs[c][k])
  BY <1>2, <1>3, ElementOfSeq DEF IndexInv, NoEntriesSent
<1> QED
  BY <1>2, <1>3, <1>4

(* Emptying queues of requests brings no new request. *)
LEMMA NoEntriesWhenDropped ==
    ASSUME IndexInv, NEW C \in SUBSET Conn,
           \A c \in Conn : reqs'[c] = reqs[c] \/ reqs'[c] = << >>,
           orphans' \subseteq orphans \cup Orphaned(C)
    PROVE  NoEntriesSent'
<1>1. \A o \in orphans' : NoEntries(o[2])
  BY OrphanedType DEF IndexInv, NoEntriesSent
<1>2. ASSUME NEW c \in Conn, NEW k \in 1..Len(reqs'[c]) PROVE NoEntries(reqs'[c][k])
  <2>1. CASE reqs'[c] = reqs[c]
    BY <1>2, <2>1 DEF IndexInv, NoEntriesSent
  <2>2. CASE reqs'[c] = << >>
    BY <1>2, <2>2
  <2> QED
    BY <2>1, <2>2
<1> QED
  BY <1>1, <1>2 DEF NoEntriesSent, NoEntries

(* The peer closes its end of a connection. *)
LEMMA IndexPeerCloses ==
    ASSUME IndexInv, NEW n \in Node, NEW p \in Node, PeerCloses(n, p)
    PROVE  IndexInv'
<1> DEFINE c == <<n, p>>
<1>1. /\ c \in Conn /\ reqs \in [Conn -> Seq(Request)] /\ reps \in [Conn -> Seq(Reply)]
      /\ closed \subseteq Conn
  BY DEF Conn, IndexInv, TypeOK
<1>2. /\ reqs' = [reqs EXCEPT ![c] = << >>]
      /\ reps' = reps \/ reps' = [reps EXCEPT ![c] = << >>]
      /\ closed' = closed \/ closed' = closed \cup {c}
      /\ UNCHANGED <<nodeVars, passVars, orphans, puts, grants, elected, restarts>>
  BY DEF PeerCloses
<1> HIDE DEF c
<1>3. /\ reqs' \in [Conn -> Seq(Request)] /\ reps' \in [Conn -> Seq(Reply)]
      /\ closed' \subseteq Conn
  <2>1. << >> \in Seq(Request) /\ << >> \in Seq(Reply)
    OBVIOUS
  <2>2. reqs' \in [Conn -> Seq(Request)]
    BY ONLY <1>1, <1>2, <2>1
  <2>3. reps' \in [Conn -> Seq(Reply)]
    BY ONLY <1>1, <1>2, <2>1
  <2> QED
    BY <1>1, <1>2, <2>2, <2>3
<1>4. TypeOK'
  BY <1>2, <1>3 DEF IndexInv, TypeOK, nodeVars, passVars
<1>5. NoEntriesSent'
  <2>1. \A d \in Conn : reqs'[d] = reqs[d] \/ reqs'[d] = << >>
    BY ONLY <1>1, <1>2
  <2> QED
    BY <1>2, <2>1, NoEntriesWhenDropped
<1>6. \A m \in Node : /\ at'[m] >= 1
                      /\ holder'[m] = "heartbeat" => m_state[m] = "Leader"
  BY <1>2 DEF IndexInv, PassShape, passVars
<1> QED
  BY <1>2, <1>4, <1>5, <1>6, IndexWhenNodeKept

(* cleanupLoop closes an idle connection. *)
LEMMA IndexCleanup ==
    ASSUME IndexInv, NEW n \in Node, NEW p \in Node, CleanupConnection(n, p)
    PROVE  IndexInv'
<1> DEFINE c == <<n, p>>
           C == {c}
<1>1. /\ c \in Conn /\ reqs \in [Conn -> Seq(Request)] /\ reps \in [Conn -> Seq(Reply)]
      /\ closed \subseteq Conn
  BY DEF Conn, IndexInv, TypeOK
<1>2. /\ reqs' = [reqs EXCEPT ![c] = << >>]
      /\ reps' = [reps EXCEPT ![c] = << >>]
      /\ closed' = closed \ {c}
      /\ orphans' = orphans \cup Orphaned(C)
      /\ UNCHANGED <<nodeVars, passVars, puts, grants, elected, restarts>>
  BY DEF CleanupConnection
<1>a. C \in SUBSET Conn
  BY <1>1
<1> HIDE DEF c, C
<1>3. /\ reqs' \in [Conn -> Seq(Request)] /\ reps' \in [Conn -> Seq(Reply)]
      /\ closed' \subseteq Conn
  BY ONLY <1>1, <1>2
<1>4. orphans' \subseteq Node \X Request
  BY <1>2, <1>a, OrphanedType DEF IndexInv, TypeOK
<1>5. TypeOK'
  BY <1>2, <1>3, <1>4 DEF IndexInv, TypeOK, nodeVars, passVars
<1>6. NoEntriesSent'
  <2>1. \A d \in Conn : reqs'[d] = reqs[d] \/ reqs'[d] = << >>
    BY ONLY <1>1, <1>2
  <2> QED
    BY <1>2, <1>a, <2>1, NoEntriesWhenDropped
<1>7. \A m \in Node : /\ at'[m] >= 1
                      /\ holder'[m] = "heartbeat" => m_state[m] = "Leader"
  BY <1>2 DEF IndexInv, PassShape, passVars
<1> QED
  BY <1>2, <1>5, <1>6, <1>7, IndexWhenNodeKept

(* A restarted process begins with an empty log. *)
LEMMA IndexRestart ==
    ASSUME IndexInv, NEW n \in Node, Restart(n) PROVE IndexInv'
<1> DEFINE C == {c \in Conn : c[1] = n}
<1>1. /\ m_state' = [m_state EXCEPT ![n] = "Follower"]
      /\ m_currentTerm' = [m_currentTerm EXCEPT ![n] = 0]
      /\ m_votedFor' = [m_votedFor EXCEPT ![n] = Nil]
      /\ m_logs' = [m_logs EXCEPT ![n] = << >>]
      /\ m_commitIndex' = [m_commitIndex EXCEPT ![n] = 0]
      /\ m_lastApplied' = [m_lastApplied EXCEPT ![n] = 0]
      /\ restarts' = restarts + 1
      /\ UNCHANGED <<puts, grants, elected>>
  BY DEF Restart
<1>2. /\ m_nextIndex' = [c \in Conn |-> IF c[1] = n THEN 0 ELSE m_nextIndex[c]]
      /\ m_matchIndex' = [c \in Conn |-> IF c[1] = n THEN 0 ELSE m_matchIndex[c]]
  BY DEF Restart
<1>3. /\ reqs' = [c \in Conn |-> IF n \in {c[1], c[2]} THEN << >> ELSE reqs[c]]
      /\ reps' = [c \in Conn |-> IF c[1] = n THEN << >> ELSE reps[c]]
      /\ closed' \subseteq Conn
      /\ orphans' \subseteq orphans \cup Orphaned(C)
  BY DEF Restart
<1>4. /\ m_nextIndex \in [Conn -> Nat] /\ m_matchIndex \in [Conn -> Nat]
      /\ reqs \in [Conn -> Seq(Request)] /\ reps \in [Conn -> Seq(Reply)]
  BY DEF IndexInv, TypeOK
<1>5. m_nextIndex' \in [Conn -> Nat] /\ m_matchIndex' \in [Conn -> Nat]
  BY ONLY <1>2, <1>4
<1>6. reqs' \in [Conn -> Seq(Request)] /\ reps' \in [Conn -> Seq(Reply)]
  <2>1. << >> \in Seq(Request) /\ << >> \in Seq(Reply)
    OBVIOUS
  <2> QED
    BY ONLY <1>3, <1>4, <2>1
<1>7. orphans' \subseteq Node \X Request
  BY <1>3, OrphanedType DEF IndexInv, TypeOK
<1>8. /\ holder' \in [Node -> {"free", "election", "heartbeat"}]
      /\ at' \in [Node -> Nat] /\ phase' \in [Node -> {"send", "recv"}]
      /\ votes' \in [Node -> SUBSET Node]
  BY DEF IndexInv, TypeOK, Restart, Unlock
<1>9. TypeOK'
  <2>1. /\ m_state' \in [Node -> {"Follower", "Candidate", "Leader"}]
        /\ m_currentTerm' \in [Node -> Nat] /\ m_votedFor' \in [Node -> Node \cup {Nil}]
        /\ m_logs' \in [Node -> Seq(Entry)] /\ m_commitIndex' \in [Node -> Nat]
        /\ m_lastApplied' \in [Node -> Nat] /\ restarts' \in Nat
    BY <1>1 DEF IndexInv, TypeOK
  <2> QED
    BY <1>1, <1>3, <1>5, <1>6, <1>7, <1>8, <2>1 DEF IndexInv, TypeOK
<1>10. PassShape'
  BY <1>1 DEF IndexInv, TypeOK, PassShape, Restart, Unlock
<1>11. NoEntriesSent'
  <2>1. \A d \in Conn : reqs'[d] = reqs[d] \/ reqs'[d] = << >>
    BY ONLY <1>3
  <2> QED
    BY <1>3, <2>1, NoEntriesWhenDropped
<1>12. IndexSafety'
  <2>1. ASSUME NEW m \in Node
        PROVE  m_lastApplied'[m] = m_commitIndex'[m] /\ m_commitIndex'[m] <= Len(m_logs'[m])
    <3>1. CASE m = n
      BY <1>1, <3>1 DEF IndexInv, TypeOK
    <3>2. CASE m # n
      BY <1>1, <3>2 DEF IndexInv, TypeOK, IndexSafety
    <3> QED
      BY <3>1, <3>2
  <2>2. ASSUME NEW m \in Node, m_state'[m] = "Leader", NEW p \in PeerSet(m)
        PROVE  /\ m_nextIndex'[<<m, p>>] \in 1..(Len(m_logs'[m]) + 1)
               /\ m_matchIndex'[<<m, p>>] <= Len(m_logs'[m])
    <3>1. m # n /\ m_state[m] = "Leader" /\ m_logs'[m] = m_logs[m]
      BY <1>1, <2>2 DEF IndexInv, TypeOK
    <3>2. <<m, p>> \in Conn /\ <<m, p>>[1] = m
      BY PeerCount DEF Conn
    <3>3. /\ m_nextIndex'[<<m, p>>] = m_nextIndex[<<m, p>>]
          /\ m_matchIndex'[<<m, p>>] = m_matchIndex[<<m, p>>]
      BY ONLY <1>2, <3>1, <3>2
    <3> QED
      BY <3>1, <3>3 DEF IndexInv, IndexSafety
  <2> QED
    BY <2>1, <2>2 DEF IndexSafety
<1> QED
  BY <1>9, <1>10, <1>11, <1>12 DEF IndexInv

-----------------------------------------------------------------------------
(* Every step keeps the index invariant. *)
LEMMA IndexStep == IndexInv /\ [Next]_vars => IndexInv'
<1> SUFFICES ASSUME IndexInv, [Next]_vars PROVE IndexInv'
  OBVIOUS
<1>1. ASSUME NEW n \in Node, Poll(n) PROVE IndexInv'
  BY <1>1, IndexPoll DEF Poll
<1>2. ASSUME NEW n \in Node, PassStep(n) PROVE IndexInv'
  BY <1>2, IndexWinElection, IndexUnlock, IndexSendRequest, IndexSendFails,
     IndexRecvFails, IndexRecvWrongKind, IndexRecvVote, IndexRecvAppend
     DEF PassStep
<1>3. ASSUME NEW n \in Node, StartElection(n) \/ StartHeartbeat(n) PROVE IndexInv'
  BY <1>3, IndexStartElection, IndexStartHeartbeat
<1>4. ASSUME NEW n \in Node, ServeOrphan(n) \/ Restart(n) PROVE IndexInv'
  BY <1>4, IndexServeOrphan, IndexRestart
<1>5. ASSUME NEW n \in Node, NEW cmd \in Command, SubmitLog(n, cmd) PROVE IndexInv'
  BY <1>5, IndexSubmitLog
<1>6. ASSUME NEW n \in Node, NEW p \in Node,
             ServeRequest(n, p) \/ PeerCloses(n, p) \/ CleanupConnection(n, p)
      PROVE  IndexInv'
  BY <1>6, IndexServeRequest, IndexPeerCloses, IndexCleanup
<1>7. CASE UNCHANGED vars
  BY <1>7, IndexPoll
<1> QED
  BY <1>1, <1>2, <1>3, <1>4, <1>5, <1>6, <1>7 DEF Next

(***************************************************************************)
(* In every cluster, with replies as late as they like and any number of   *)
(* restarts, the invariant holds in every reachable state.                 *)
(***************************************************************************)
THEOREM IndexInvariant == Spec => []IndexInv
BY IndexInit, IndexStep, PTL DEF Spec

(***************************************************************************)
(* The variables keep their types.  For m_commitIndex, m_matchIndex and    *)
(* puts that is a fact about the code: heartbeatLoop subtracts 1 from an   *)
(* unsigned m_nextIndex and picks an element of a sorted vector.           *)
(***************************************************************************)
THEOREM TypeCorrect == Spec => []TypeOK
<1>1. IndexInv => TypeOK
  BY DEF IndexInv
<1> QED
  BY <1>1, IndexInvariant, PTL

(***************************************************************************)
(* Every m_logs[...] evaluated by heartbeatLoop and applyCommittedLogs is  *)
(* inside the vector.                                                      *)
(***************************************************************************)
THEOREM IndicesStayInLog == Spec => []IndexSafety
<1>1. IndexInv => IndexSafety
  BY DEF IndexInv
<1> QED
  BY <1>1, IndexInvariant, PTL

=============================================================================
