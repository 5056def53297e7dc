---------------------------- MODULE ServerProofs ----------------------------
(***************************************************************************)
(* The connection pool owns its descriptors, there is one connection to a  *)
(* peer at most, and the process ends cleanly, whenever signals come.      *)
(*                                                                         *)
(* The raft threads hold RaftNode's m_mutex while they have a connection,  *)
(* so that a peer's connection is in one place: its queue or the caller's  *)
(* hands.  What a stop has still to do is on the stack of its functions,   *)
(* under whatever other signal handlers may have been put on top.          *)
(***************************************************************************)
EXTENDS Server, TLAPS, SequenceTheorems, FiniteSetTheorems

(* The places of the stop functions that are under way. *)
FramesOf(s) == {s[i] : i \in 1..Len(s)}
Frames == FramesOf(stack)

Gone == {"none", "ended"}

(* A raft thread is in a pass exactly when it holds m_mutex. *)
MutexInv ==
    \A t \in Caller :
       /\ pc[t] \in {"pass", "call"} <=> mutex = t
       /\ held[t] # None <=> pc[t] = "call"

(***************************************************************************)
(* The pool's maps, the descriptor table and the callers' hands.  A queue  *)
(* has one connection at most, and none while a caller has the connection  *)
(* of its peer; and a descriptor that is connected to a peer is in one of  *)
(* these two places.                                                       *)
(***************************************************************************)
PoolOk(pools, map, table, rest, hands) ==
    /\ pools \in [Peer -> Seq(Fd)]
    /\ map \in [Fd -> Peer \cup {None}]
    /\ table \in [Fd -> Peer \cup {None, "other"}]
    /\ hands \in [Caller -> (Peer \X Fd) \cup {None}]
    /\ \A p \in Peer : pools[p] = << >> \/ Len(pools[p]) = 1
    /\ \A p \in Peer : pools[p] # << >> => table[pools[p][1]] = p
    /\ \A c \in Caller : hands[c] # None =>
          pools[hands[c][1]] = << >> /\ table[hands[c][2]] = hands[c][1]
    /\ \A fd \in Fd : table[fd] \in Peer =>
          \/ pools[table[fd]] # << >> /\ pools[table[fd]][1] = fd
          \/ \E c \in Caller : hands[c] = <<table[fd], fd>>
    /\ map = [fd \in Fd |-> IF table[fd] \in Peer THEN table[fd] ELSE None]
    /\ rest = {fd \in Fd : table[fd] = "other"}

PoolInv == PoolOk(m_connectionPools, m_fdToPeerMap, open, others, held)

Starting == {"socket", "open", "raftStart", "poolStart",
             "spawnElection", "spawnHeartbeat", "running"}

Ending == {"destroy", "destroyRaft", "destroyPool", "hung", "gone"}

(***************************************************************************)
(* Until start is done a signal handler does nothing.  What start sets it  *)
(* sets in its order.                                                      *)
(***************************************************************************)
StartInv ==
    /\ main \in Starting => ~m_running /\ Frames \subseteq {"server_test", "blocked"}
    /\ main \in Ending => ~m_running
    /\ main \in {"socket", "open", "raftStart"} => ~raft_running
    /\ main \in {"socket", "open", "raftStart", "poolStart"} =>
          ~pool_running /\ joinable = {} /\ cleaner = "none"
    /\ main \in {"poolStart", "spawnElection", "spawnHeartbeat", "running"} =>
          raft_running
    /\ main \in {"spawnElection", "spawnHeartbeat", "running"} => pool_running
    /\ main \in Starting \ {"spawnHeartbeat", "running"} => pc["election"] = "none"
    /\ main \in Starting \ {"running"} => pc["heartbeat"] = "none"

(* A thread that runs can be joined; the pool outlives the raft threads. *)
JoinInv ==
    /\ \A t \in Caller : pc[t] \notin Gone => t \in joinable /\ pool_running
    /\ cleaner \notin Gone => "cleaner" \in joinable
    /\ "raft_joinHeartbeat" \in Frames => pc["election"] \in Gone
    /\ Frames \cap {"pool_test", "pool_clear", "pool_join", "pool_close"} # {} =>
          \A t \in Caller : pc[t] \in Gone

(* What is still to be stopped is still to be stopped by somebody. *)
StopInv ==
    /\ main \notin Starting /\ ~m_running /\ raft_running =>
          Frames \cap {"raft_test", "raft_clear"} # {}
    /\ "election" \in joinable =>
          raft_running \/ "raft_joinElection" \in Frames
    /\ "heartbeat" \in joinable =>
          raft_running
          \/ Frames \cap {"raft_joinElection", "raft_joinHeartbeat"} # {}
    /\ pool_running =>
          \/ raft_running
          \/ Frames \cap {"raft_joinElection", "raft_joinHeartbeat",
                          "pool_test", "pool_clear"} # {}
    /\ "cleaner" \in joinable => pool_running \/ "pool_join" \in Frames
    /\ (\E fd \in Fd : open[fd] \in Peer) =>
          pool_running \/ Frames \cap {"pool_join", "pool_close"} # {}
    /\ main \notin Starting /\ ~m_running /\ cleaner # "none" =>
          \/ m_epoll_fd = "none" /\ m_listen_fd = "none"
          \/ "server_close" \in Frames

ServerInv ==
    TypeOK /\ MutexInv /\ PoolInv /\ StartInv /\ JoinInv /\ StopInv

-----------------------------------------------------------------------------
(* The stack *)

(* A call adds a frame. *)
LEMMA PushedFrames ==
    ASSUME NEW s \in Seq(StopPlace), NEW f \in StopPlace
    PROVE  /\ Append(s, f) \in Seq(StopPlace)
           /\ FramesOf(Append(s, f)) = FramesOf(s) \cup {f}
<1>1. PICK t : t = Append(s, f)
  OBVIOUS
<1>2. PICK n : n = Len(s)
  OBVIOUS
<1>3. /\ t \in Seq(StopPlace) /\ Len(t) = n + 1 /\ n \in Nat
      /\ \A i \in 1..n : t[i] = s[i]
      /\ t[n + 1] = f
  BY <1>1, <1>2, AppendProperties, LenProperties
<1>4. 1..(n + 1) = 1..n \cup {n + 1}
  BY <1>3
<1>5. FramesOf(t) = {t[i] : i \in 1..n \cup {n + 1}} /\ FramesOf(s) = {s[i] : i \in 1..n}
  BY <1>2, <1>3, <1>4 DEF FramesOf
<1> QED
  BY <1>1, <1>3, <1>5

(* The running function goes from one place to the next. *)
LEMMA MovedFrames ==
    ASSUME NEW s \in Seq(StopPlace), s # << >>, NEW y \in StopPlace,
           NEW t, t = [s EXCEPT ![Len(s)] = y]
    PROVE  /\ t \in Seq(StopPlace) /\ t # << >>
           /\ FramesOf(s) \subseteq FramesOf(t) \cup {s[Len(s)]}
           /\ FramesOf(t) \subseteq FramesOf(s) \cup {y}
           /\ y \in FramesOf(t) /\ s[Len(s)] \in FramesOf(s)
<1>1. PICK n : n = Len(s)
  OBVIOUS
<1>2. n \in Nat /\ n \in 1..n /\ s \in [1..n -> StopPlace]
  <2>1. n \in Nat /\ s \in [1..n -> StopPlace] /\ n # 0
    BY <1>1, LenProperties, EmptySeq
  <2> QED
    BY <2>1
<1>3. t \in Seq(StopPlace) /\ Len(t) = n
  BY <1>1, <1>2, ExceptSeq
<1>4. t[n] = y /\ \A i \in 1..n : i # n => t[i] = s[i]
  BY <1>1, <1>2
<1>5. t # << >>
  BY <1>2, <1>3
<1>6. FramesOf(t) = {t[i] : i \in 1..n} /\ FramesOf(s) = {s[i] : i \in 1..n}
  BY <1>1, <1>3 DEF FramesOf
<1> QED
  BY <1>1, <1>2, <1>3, <1>4, <1>5, <1>6

(* The running function returns. *)
LEMMA PoppedFrames ==
    ASSUME NEW s \in Seq(StopPlace), s # << >>,
           NEW t, t = SubSeq(s, 1, Len(s) - 1)
    PROVE  /\ t \in Seq(StopPlace)
           /\ FramesOf(s) \subseteq FramesOf(t) \cup {s[Len(s)]}
           /\ FramesOf(t) \subseteq FramesOf(s)
           /\ s[Len(s)] \in FramesOf(s)
<1>1. PICK n : n = Len(s)
  OBVIOUS
<1>2. n \in Nat /\ n \in 1..n /\ s \in [1..n -> StopPlace]
  <2>1. n \in Nat /\ s \in [1..n -> StopPlace] /\ n # 0
    BY <1>1, LenProperties, EmptySeq
  <2> QED
    BY <2>1
<1>3. /\ t \in Seq(StopPlace) /\ Len(t) = n - 1
      /\ \A i \in 1..(n - 1) : t[i] = s[i]
  <2>1. n - 1 \in Nat /\ n - 1 < n + 1
    BY <1>2
  <2>2. t = SubSeq(s, 1, n - 1)
    BY <1>1
  <2>3. \A i \in 1..(n - 1) : i \in 1..Len(s)
    BY <1>1, <1>2
  <2>4. t \in Seq(StopPlace) /\ Len(t) = n - 1
        /\ \A i \in 1..(n - 1) : t[i] = s[i]
    BY <1>1, <2>1, <2>2, <2>3, SubSeqProperties
  <2> QED
    BY <2>4
<1>4. 1..n = 1..(n - 1) \cup {n}
  BY <1>2
<1>5. FramesOf(t) = {t[i] : i \in 1..(n - 1)} /\ FramesOf(s) = {s[i] : i \in 1..n}
  BY <1>1, <1>3 DEF FramesOf
<1>6. PICK D : D = 1..(n - 1)
  OBVIOUS
<1>7. /\ FramesOf(t) = {t[i] : i \in D} /\ FramesOf(s) = {s[i] : i \in D \cup {n}}
      /\ \A i \in D : t[i] = s[i]
  BY <1>3, <1>4, <1>5, <1>6
<1>8. FramesOf(s) \subseteq FramesOf(t) \cup {s[n]}
  BY ONLY <1>7
<1>9. FramesOf(t) \subseteq FramesOf(s) /\ s[n] \in FramesOf(s)
  BY ONLY <1>7
<1>10. t \in Seq(StopPlace)
  BY <1>3
<1> QED
  BY <1>1, <1>8, <1>9, <1>10

(* An empty stack has no frames. *)
LEMMA NoFrames == FramesOf(<< >>) = {}
BY EmptySeq DEF FramesOf

-----------------------------------------------------------------------------
(* The queue of a clean-up pass *)

(* One pass of the loop that makes the new queue. *)
Moves(queue, dead, f) ==
    [k \in 0..Len(queue) |-> IF k = 0 THEN << >>
                             ELSE IF queue[k] \in dead THEN f[k - 1]
                             ELSE Append(f[k - 1], queue[k])]

(* newQueue is what a function that satisfies its recursion gives. *)
LEMMA NewQueueIs ==
    ASSUME NEW q, NEW dead
    PROVE  newQueue(q, dead) = (CHOOSE f : f = Moves(q, dead, f))[Len(q)]
BY DEF newQueue, Moves

(* Nothing is left of an empty queue. *)
LEMMA NewQueueOfNone ==
    ASSUME NEW dead
    PROVE  newQueue(<< >>, dead) = << >>
<1>1. PICK q : q = << >>
  OBVIOUS
<1>2. Len(q) = 0
  BY <1>1
<1>3. PICK g : g = [k \in 0..Len(q) |-> << >>]
  OBVIOUS
<1>4. g = Moves(q, dead, g)
  BY <1>2, <1>3 DEF Moves
<1>5. PICK f : f = CHOOSE x : x = Moves(q, dead, x)
  OBVIOUS
<1>6. f = Moves(q, dead, f)
  BY <1>4, <1>5
<1>7. f[0] = << >>
  BY <1>2, <1>6 DEF Moves
<1> QED
  BY <1>1, <1>2, <1>5, <1>7, NewQueueIs

(* One connection is kept or not. *)
LEMMA NewQueueOfOne ==
    ASSUME NEW q \in Seq(Fd), NEW dead, Len(q) = 1
    PROVE  newQueue(q, dead) = IF q[1] \in dead THEN << >> ELSE q
<1>1. PICK r : r = IF q[1] \in dead THEN << >> ELSE Append(<< >>, q[1])
  OBVIOUS
<1>2. PICK g : g = [k \in 0..1 |-> IF k = 0 THEN << >> ELSE r]
  OBVIOUS
<1>3. g[0] = << >> /\ g[1] = r /\ g = [k \in 0..1 |-> g[k]]
  BY <1>2
<1>4. g = Moves(q, dead, g)
  <2>1. Moves(q, dead, g) = [k \in 0..1 |-> IF k = 0 THEN << >>
                                            ELSE IF q[k] \in dead THEN g[k - 1]
                                            ELSE Append(g[k - 1], q[k])]
    BY DEF Moves
  <2>2. (IF q[1] \in dead THEN g[0] ELSE Append(g[0], q[1])) = r
    BY <1>1, <1>3
  <2>3. 0..1 = {0, 1} /\ 1 - 1 = 0
    OBVIOUS
  <2>4. ASSUME NEW k \in 0..1
        PROVE  (IF k = 0 THEN << >> ELSE IF q[k] \in dead THEN g[k - 1]
                ELSE Append(g[k - 1], q[k])) = g[k]
    <3>1. CASE k = 0
      BY <1>3, <3>1
    <3>2. CASE k = 1
      <4>1. k - 1 = 0 /\ k # 0
        BY <3>2
      <4> QED
        BY <1>3, <2>2, <3>2, <4>1
    <3> QED
      BY <2>3, <3>1, <3>2
  <2> QED
    BY <1>3, <2>1, <2>4
<1>5. PICK f : f = CHOOSE x : x = Moves(q, dead, x)
  OBVIOUS
<1>6. f = Moves(q, dead, f)
  BY <1>4, <1>5
<1>7. f[0] = << >>
  BY <1>6 DEF Moves
<1>8. f[1] = IF q[1] \in dead THEN f[0] ELSE Append(f[0], q[1])
  BY <1>6 DEF Moves
<1>9. f[1] = r
  BY <1>1, <1>7, <1>8
<1>10. newQueue(q, dead) = r
  BY <1>5, <1>9, NewQueueIs
<1>11. Append(<< >>, q[1]) = q
  <2>1. q[1] \in Fd
    BY ElementOfSeq
  <2>2. PICK a : a = Append(<< >>, q[1])
    OBVIOUS
  <2>3. << >> \in Seq(Fd) /\ Len(<< >>) = 0
    BY EmptySeq
  <2>4. a \in Seq(Fd) /\ Len(a) = 1 /\ a[1] = q[1]
    BY <2>1, <2>2, <2>3
  <2> QED
    BY <2>2, <2>4, SeqEqual
<1> QED
  BY <1>1, <1>10, <1>11

-----------------------------------------------------------------------------
(* The pool *)

(* The one connection of a queue. *)
LEMMA QueueOfOne ==
    ASSUME NEW pools \in [Peer -> Seq(Fd)], NEW p \in Peer, Len(pools[p]) = 1
    PROVE  /\ pools[p] \in Seq(Fd) /\ pools[p] # << >> /\ pools[p][1] \in Fd
           /\ Head(pools[p]) = pools[p][1] /\ Tail(pools[p]) = << >>
           /\ {pools[p][k] : k \in 1..Len(pools[p])} = {pools[p][1]}
<1>1. PICK q : q = pools[p]
  OBVIOUS
<1>2. q \in Seq(Fd) /\ Len(q) = 1
  BY <1>1
<1>3. q # << >>
  <2>1. q = << >> <=> Len(q) = 0
    BY <1>2, EmptySeq
  <2> QED
    BY <1>2, <2>1
<1>4. 1..Len(q) = {1}
  BY <1>2
<1>5. q[1] \in Fd
  BY <1>2, <1>4, ElementOfSeq
<1>6. Head(q) = q[1]
  BY <1>2, <1>3
<1>7. Tail(q) = << >>
  <2>1. Tail(q) \in Seq(Fd) /\ Len(Tail(q)) = Len(q) - 1
    BY <1>2, <1>3, HeadTailProperties
  <2>2. Len(Tail(q)) = 0
    BY <1>2, <2>1
  <2> QED
    BY <2>1, <2>2, EmptySeq
<1> QED
  BY <1>1, <1>2, <1>3, <1>4, <1>5, <1>6, <1>7

(***************************************************************************)
(* Connections of the queues that are found dead are closed and forgotten: *)
(* by getConnection, by the clean-up thread or at the end.                 *)
(***************************************************************************)
LEMMA DeadDropped ==
    ASSUME NEW pools, NEW map, NEW table, NEW rest, NEW hands,
           PoolOk(pools, map, table, rest, hands),
           NEW D, \A fd \in D : \E p \in Peer : pools[p] # << >> /\ pools[p][1] = fd,
           NEW left1, left1 \in [Peer -> Seq(Fd)],
           \A p \in Peer : left1[p] = IF pools[p] # << >> /\ pools[p][1] \in D
                                       THEN << >> ELSE pools[p]
    PROVE  PoolOk(left1, Without(map, D), Without(table, D), rest, hands)
<1>1. PICK t2 : t2 = Without(table, D)
  OBVIOUS
<1>2. PICK m2 : m2 = Without(map, D)
  OBVIOUS
<1>3. /\ \A fd \in Fd : t2[fd] = IF fd \in D THEN None ELSE table[fd]
      /\ \A fd \in Fd : m2[fd] = IF fd \in D THEN None ELSE map[fd]
      /\ t2 \in [Fd -> Peer \cup {None, "other"}] /\ m2 \in [Fd -> Peer \cup {None}]
  BY <1>1, <1>2 DEF Without, PoolOk
<1>4. \A p \in Peer : pools[p] # << >> =>
         pools[p][1] \in Fd /\ table[pools[p][1]] = p
  BY QueueOfOne DEF PoolOk
<1>5. \A fd \in D : fd \in Fd /\ table[fd] \in Peer
         /\ pools[table[fd]] # << >> /\ pools[table[fd]][1] = fd
  BY <1>4
<1>6. \A p \in Peer : left1[p] = << >> \/ Len(left1[p]) = 1
  BY DEF PoolOk
<1>7. \A p \in Peer : left1[p] # << >> => t2[left1[p][1]] = p
  BY <1>3, <1>4
<1>8. ASSUME NEW c \in Caller, hands[c] # None
      PROVE  left1[hands[c][1]] = << >> /\ t2[hands[c][2]] = hands[c][1]
  <2>1. /\ hands[c][1] \in Peer /\ hands[c][2] \in Fd
        /\ pools[hands[c][1]] = << >> /\ table[hands[c][2]] = hands[c][1]
    BY <1>8 DEF PoolOk
  <2>2. hands[c][2] \notin D
    BY <1>5, <2>1
  <2> QED
    BY <1>3, <2>1, <2>2
<1>9. ASSUME NEW fd \in Fd, t2[fd] \in Peer
      PROVE  \/ left1[t2[fd]] # << >> /\ left1[t2[fd]][1] = fd
             \/ \E c \in Caller : hands[c] = <<t2[fd], fd>>
  <2>1. fd \notin D /\ t2[fd] = table[fd]
    BY <1>3, <1>9, PoolAssumption
  <2>2. \/ pools[table[fd]] # << >> /\ pools[table[fd]][1] = fd
        \/ \E c \in Caller : hands[c] = <<table[fd], fd>>
    BY <1>9, <2>1 DEF PoolOk
  <2>3. table[fd] \in Peer
    BY <1>9, <2>1
  <2> QED
    BY <2>1, <2>2, <2>3
<1>10. m2 = [fd \in Fd |-> IF t2[fd] \in Peer THEN t2[fd] ELSE None]
  <2>1. ASSUME NEW fd \in Fd
        PROVE  m2[fd] = IF t2[fd] \in Peer THEN t2[fd] ELSE None
    <3>1. map[fd] = IF table[fd] \in Peer THEN table[fd] ELSE None
      BY DEF PoolOk
    <3> QED
      BY <1>3, <3>1, PoolAssumption
  <2> QED
    BY <1>3, <2>1
<1>11. rest = {fd \in Fd : t2[fd] = "other"}
  <2>1. \A fd \in Fd : t2[fd] = "other" <=> table[fd] = "other"
    BY <1>3, <1>5, PoolAssumption
  <2> QED
    BY <2>1 DEF PoolOk
<1>12. hands \in [Caller -> (Peer \X Fd) \cup {None}]
  BY DEF PoolOk
<1> QED
  BY <1>1, <1>2, <1>3, <1>6, <1>7, <1>8, <1>9, <1>10, <1>11, <1>12 DEF PoolOk

(* A new connection, in nobody's queue and given to the caller. *)
LEMMA ConnectionCreated ==
    ASSUME NEW pools, NEW map, NEW table, NEW rest, NEW hands,
           PoolOk(pools, map, table, rest, hands),
           NEW c \in Caller, NEW p \in Peer, pools[p] = << >>, hands[c] = None,
           NEW fd \in Fd, table[fd] = None
    PROVE  PoolOk(pools, [map EXCEPT ![fd] = p], [table EXCEPT ![fd] = p], rest,
                  [hands EXCEPT ![c] = <<p, fd>>])
<1>1. PICK t2 : t2 = [table EXCEPT ![fd] = p]
  OBVIOUS
<1>2. PICK m2 : m2 = [map EXCEPT ![fd] = p]
  OBVIOUS
<1>3. PICK h2 : h2 = [hands EXCEPT ![c] = <<p, fd>>]
  OBVIOUS
<1>4. /\ t2 \in [Fd -> Peer \cup {None, "other"}] /\ t2[fd] = p
      /\ \A x \in Fd : x # fd => t2[x] = table[x]
  BY <1>1 DEF PoolOk
<1>5. /\ m2 \in [Fd -> Peer \cup {None}] /\ m2[fd] = p
      /\ \A x \in Fd : x # fd => m2[x] = map[x]
  BY <1>2 DEF PoolOk
<1>6. /\ h2 \in [Caller -> (Peer \X Fd) \cup {None}] /\ h2[c] = <<p, fd>>
      /\ \A x \in Caller : x # c => h2[x] = hands[x]
  BY <1>3 DEF PoolOk
<1>7. None \notin Peer
  BY PoolAssumption
<1>8. ASSUME NEW x \in Peer, pools[x] # << >>
      PROVE  t2[pools[x][1]] = x
  <2>1. table[pools[x][1]] = x /\ pools[x][1] \in Fd
    BY <1>8, QueueOfOne DEF PoolOk
  <2> QED
    BY <1>4, <1>7, <2>1
<1>9. ASSUME NEW d \in Caller, h2[d] # None
      PROVE  pools[h2[d][1]] = << >> /\ t2[h2[d][2]] = h2[d][1]
  <2>1. CASE d = c
    BY <1>4, <1>6, <2>1
  <2>2. CASE d # c
    <3>1. /\ hands[d][1] \in Peer /\ hands[d][2] \in Fd
          /\ pools[hands[d][1]] = << >> /\ table[hands[d][2]] = hands[d][1]
      BY <1>6, <1>9, <2>2 DEF PoolOk
    <3> QED
      BY <1>4, <1>6, <1>7, <2>2, <3>1
  <2> QED
    BY <2>1, <2>2
<1>10. ASSUME NEW x \in Fd, t2[x] \in Peer
       PROVE  \/ pools[t2[x]] # << >> /\ pools[t2[x]][1] = x
              \/ \E d \in Caller : h2[d] = <<t2[x], x>>
  <2>1. CASE x = fd
    BY <1>4, <1>6, <2>1
  <2>2. CASE x # fd
    <3>1. \/ pools[table[x]] # << >> /\ pools[table[x]][1] = x
          \/ \E d \in Caller : hands[d] = <<table[x], x>>
      BY <1>4, <1>10, <2>2 DEF PoolOk
    <3>2. ASSUME NEW d \in Caller, hands[d] = <<table[x], x>>
          PROVE  h2[d] = <<t2[x], x>>
      <4>1. d # c
        <5>1. <<table[x], x>> \in Peer \X Fd
          BY <1>4, <1>10, <2>2
        <5> QED
          BY <3>2, <5>1, PoolAssumption
      <4> QED
        BY <1>4, <1>6, <2>2, <3>2, <4>1
    <3> QED
      BY <1>4, <2>2, <3>1, <3>2
  <2> QED
    BY <2>1, <2>2
<1>11. m2 = [x \in Fd |-> IF t2[x] \in Peer THEN t2[x] ELSE None]
  <2>1. ASSUME NEW x \in Fd
        PROVE  m2[x] = IF t2[x] \in Peer THEN t2[x] ELSE None
    <3>1. map[x] = IF table[x] \in Peer THEN table[x] ELSE None
      BY DEF PoolOk
    <3> QED
      BY <1>4, <1>5, <3>1
  <2> QED
    BY <1>5, <2>1
<1>12. rest = {x \in Fd : t2[x] = "other"}
  <2>1. \A x \in Fd : t2[x] = "other" <=> table[x] = "other"
    BY <1>4, PoolAssumption
  <2> QED
    BY <2>1 DEF PoolOk
<1>13. /\ pools \in [Peer -> Seq(Fd)]
       /\ \A x \in Peer : pools[x] = << >> \/ Len(pools[x]) = 1
  BY DEF PoolOk
<1>14. PoolOk(pools, m2, t2, rest, h2)
  BY <1>4, <1>5, <1>6, <1>8, <1>9, <1>10, <1>11, <1>12, <1>13 DEF PoolOk
<1> QED
  BY <1>1, <1>2, <1>3, <1>14

(* getConnection takes the connection out of its queue. *)
LEMMA ConnectionTaken ==
    ASSUME NEW pools, NEW map, NEW table, NEW rest, NEW hands,
           PoolOk(pools, map, table, rest, hands),
           NEW c \in Caller, NEW p \in Peer, pools[p] # << >>, hands[c] = None
    PROVE  PoolOk([pools EXCEPT ![p] = << >>], map, table, rest,
                  [hands EXCEPT ![c] = <<p, pools[p][1]>>])
<1>1. PICK q2 : q2 = [pools EXCEPT ![p] = << >>]
  OBVIOUS
<1>2. PICK h2 : h2 = [hands EXCEPT ![c] = <<p, pools[p][1]>>]
  OBVIOUS
<1>3. Len(pools[p]) = 1 /\ pools[p][1] \in Fd /\ table[pools[p][1]] = p
  BY QueueOfOne DEF PoolOk
<1>4. /\ q2 \in [Peer -> Seq(Fd)] /\ q2[p] = << >>
      /\ \A x \in Peer : x # p => q2[x] = pools[x]
  <2>1. << >> \in Seq(Fd)
    BY EmptySeq
  <2> QED
    BY <1>1, <2>1 DEF PoolOk
<1>5. /\ h2 \in [Caller -> (Peer \X Fd) \cup {None}] /\ h2[c] = <<p, pools[p][1]>>
      /\ \A x \in Caller : x # c => h2[x] = hands[x]
  BY <1>2, <1>3 DEF PoolOk
<1>6. \A x \in Peer : q2[x] = << >> \/ Len(q2[x]) = 1
  BY <1>4 DEF PoolOk
<1>7. \A x \in Peer : q2[x] # << >> => table[q2[x][1]] = x
  BY <1>4 DEF PoolOk
<1>8. ASSUME NEW d \in Caller, h2[d] # None
      PROVE  q2[h2[d][1]] = << >> /\ table[h2[d][2]] = h2[d][1]
  <2>1. CASE d = c
    BY <1>3, <1>4, <1>5, <2>1
  <2>2. CASE d # c
    <3>1. /\ hands[d][1] \in Peer /\ hands[d][2] \in Fd
          /\ pools[hands[d][1]] = << >> /\ table[hands[d][2]] = hands[d][1]
      BY <1>5, <1>8, <2>2 DEF PoolOk
    <3> QED
      BY <1>4, <1>5, <2>2, <3>1
  <2> QED
    BY <2>1, <2>2
<1>9. ASSUME NEW x \in Fd, table[x] \in Peer
      PROVE  \/ q2[table[x]] # << >> /\ q2[table[x]][1] = x
             \/ \E d \in Caller : h2[d] = <<table[x], x>>
  <2>1. \/ pools[table[x]] # << >> /\ pools[table[x]][1] = x
        \/ \E d \in Caller : hands[d] = <<table[x], x>>
    BY <1>9 DEF PoolOk
  <2>2. CASE pools[table[x]] # << >> /\ pools[table[x]][1] = x
    <3>1. CASE table[x] = p
      BY <1>5, <2>2, <3>1
    <3>2. CASE table[x] # p
      BY <1>4, <1>9, <2>2, <3>2
    <3> QED
      BY <3>1, <3>2
  <2>3. ASSUME NEW d \in Caller, hands[d] = <<table[x], x>>
        PROVE  h2[d] = <<table[x], x>>
    <3>1. <<table[x], x>> \in Peer \X Fd
      BY <1>9
    <3>2. d # c
      BY <2>3, <3>1, PoolAssumption
    <3> QED
      BY <1>5, <2>3, <3>2
  <2> QED
    BY <2>1, <2>2, <2>3
<1>10. PoolOk(q2, map, table, rest, h2)
  BY <1>4, <1>5, <1>6, <1>7, <1>8, <1>9 DEF PoolOk
<1> QED
  BY <1>1, <1>2, <1>10

(* What a caller has is a connection to its peer that the map knows. *)
LEMMA HeldIs ==
    ASSUME NEW pools, NEW map, NEW table, NEW rest, NEW hands,
           PoolOk(pools, map, table, rest, hands),
           NEW c \in Caller, hands[c] # None, NEW p, NEW fd,
           p = hands[c][1], fd = hands[c][2]
    PROVE  /\ p \in Peer /\ fd \in Fd /\ hands[c] = <<p, fd>>
           /\ pools[p] = << >> /\ table[fd] = p /\ map[fd] = p
<1>1. hands[c] \in Peer \X Fd
  BY DEF PoolOk
<1>2. p \in Peer /\ fd \in Fd /\ hands[c] = <<p, fd>>
  BY <1>1
<1>3. pools[p] = << >> /\ table[fd] = p
  BY DEF PoolOk
<1> QED
  BY <1>2, <1>3 DEF PoolOk

(* releaseConnection puts it back into its queue. *)
LEMMA ConnectionReturned ==
    ASSUME NEW pools, NEW map, NEW table, NEW rest, NEW hands,
           PoolOk(pools, map, table, rest, hands),
           NEW c \in Caller, hands[c] # None,
           \A d \in Caller : d # c => hands[d] = None,
           NEW p, NEW fd, p = hands[c][1], fd = hands[c][2]
    PROVE  PoolOk([pools EXCEPT ![p] = Append(@, fd)], map, table, rest,
                  [hands EXCEPT ![c] = None])
<1>1. /\ p \in Peer /\ fd \in Fd /\ hands[c] = <<p, fd>>
      /\ pools[p] = << >> /\ table[fd] = p
  BY HeldIs
<1>2. PICK q : q = Append(<< >>, fd)
  OBVIOUS
<1>3. q \in Seq(Fd) /\ Len(q) = 1 /\ q[1] = fd /\ q # << >>
  <2>1. << >> \in Seq(Fd)
    BY EmptySeq
  <2> QED
    BY <1>1, <1>2, <2>1
<1>4. PICK q2 : q2 = [pools EXCEPT ![p] = q]
  OBVIOUS
<1>5. [pools EXCEPT ![p] = Append(@, fd)] = q2
  BY <1>1, <1>2, <1>4
<1>6. /\ q2 \in [Peer -> Seq(Fd)] /\ q2[p] = q
      /\ \A x \in Peer : x # p => q2[x] = pools[x]
  BY <1>1, <1>3, <1>4 DEF PoolOk
<1>7. PICK h2 : h2 = [hands EXCEPT ![c] = None]
  OBVIOUS
<1>8. /\ h2 \in [Caller -> (Peer \X Fd) \cup {None}]
      /\ \A x \in Caller : h2[x] = None
  BY <1>7 DEF PoolOk
<1>9. \A x \in Peer : q2[x] = << >> \/ Len(q2[x]) = 1
  BY <1>3, <1>6 DEF PoolOk
<1>10. \A x \in Peer : q2[x] # << >> => table[q2[x][1]] = x
  BY <1>1, <1>3, <1>6 DEF PoolOk
<1>11. ASSUME NEW x \in Fd, table[x] \in Peer
       PROVE  q2[table[x]] # << >> /\ q2[table[x]][1] = x
  <2>1. \/ pools[table[x]] # << >> /\ pools[table[x]][1] = x
        \/ \E d \in Caller : hands[d] = <<table[x], x>>
    BY <1>11 DEF PoolOk
  <2>2. CASE pools[table[x]] # << >> /\ pools[table[x]][1] = x
    BY <1>1, <1>6, <1>11, <2>2
  <2>3. ASSUME NEW d \in Caller, hands[d] = <<table[x], x>>
        PROVE  q2[table[x]] # << >> /\ q2[table[x]][1] = x
    <3>1. <<table[x], x>> \in Peer \X Fd
      BY <1>11
    <3>2. d = c
      BY <2>3, <3>1, PoolAssumption
    <3>3. table[x] = p /\ x = fd
      BY <1>1, <2>3, <3>2
    <3> QED
      BY <1>3, <1>6, <3>3
  <2> QED
    BY <2>1, <2>2, <2>3
<1>12. PoolOk(q2, map, table, rest, h2)
  BY <1>6, <1>8, <1>9, <1>10, <1>11 DEF PoolOk
<1> QED
  BY <1>5, <1>7, <1>12

(* releaseConnection closes it. *)
LEMMA ConnectionClosed ==
    ASSUME NEW pools, NEW map, NEW table, NEW rest, NEW hands,
           PoolOk(pools, map, table, rest, hands),
           NEW c \in Caller, hands[c] # None,
           \A d \in Caller : d # c => hands[d] = None,
           NEW fd, fd = hands[c][2]
    PROVE  PoolOk(pools, Without(map, {fd}), Without(table, {fd}), rest,
                  [hands EXCEPT ![c] = None])
<1>1. PICK p : p = hands[c][1]
  OBVIOUS
<1>2. /\ p \in Peer /\ fd \in Fd /\ hands[c] = <<p, fd>>
      /\ pools[p] = << >> /\ table[fd] = p
  BY <1>1, HeldIs
<1>3. PICK t2 : t2 = Without(table, {fd})
  OBVIOUS
<1>4. PICK m2 : m2 = Without(map, {fd})
  OBVIOUS
<1>5. PICK h2 : h2 = [hands EXCEPT ![c] = None]
  OBVIOUS
<1>6. /\ \A x \in Fd : t2[x] = IF x = fd THEN None ELSE table[x]
      /\ \A x \in Fd : m2[x] = IF x = fd THEN None ELSE map[x]
      /\ t2 \in [Fd -> Peer \cup {None, "other"}] /\ m2 \in [Fd -> Peer \cup {None}]
  BY <1>3, <1>4 DEF Without, PoolOk
<1>7. /\ h2 \in [Caller -> (Peer \X Fd) \cup {None}]
      /\ \A x \in Caller : h2[x] = None
  BY <1>5 DEF PoolOk
<1>8. ASSUME NEW x \in Peer, pools[x] # << >>
      PROVE  t2[pools[x][1]] = x
  <2>1. table[pools[x][1]] = x /\ pools[x][1] \in Fd
    BY <1>8, QueueOfOne DEF PoolOk
  <2> QED
    BY <1>2, <1>6, <1>8, <2>1
<1>9. ASSUME NEW x \in Fd, t2[x] \in Peer
      PROVE  pools[t2[x]] # << >> /\ pools[t2[x]][1] = x
  <2>1. x # fd /\ t2[x] = table[x]
    BY <1>6, <1>9, PoolAssumption
  <2>2. \/ pools[table[x]] # << >> /\ pools[table[x]][1] = x
        \/ \E d \in Caller : hands[d] = <<table[x], x>>
    BY <1>9, <2>1 DEF PoolOk
  <2>3. ASSUME NEW d \in Caller, hands[d] = <<table[x], x>>
        PROVE  FALSE
    <3>1. <<table[x], x>> \in Peer \X Fd
      BY <1>9, <2>1
    <3>2. d = c
      BY <2>3, <3>1, PoolAssumption
    <3> QED
      BY <1>2, <2>1, <2>3, <3>2
  <2> QED
    BY <2>1, <2>2, <2>3
<1>10. m2 = [x \in Fd |-> IF t2[x] \in Peer THEN t2[x] ELSE None]
  <2>1. ASSUME NEW x \in Fd
        PROVE  m2[x] = IF t2[x] \in Peer THEN t2[x] ELSE None
    <3>1. map[x] = IF table[x] \in Peer THEN table[x] ELSE None
      BY DEF PoolOk
    <3> QED
      BY <1>6, <3>1, PoolAssumption
  <2> QED
    BY <1>6, <2>1
<1>11. rest = {x \in Fd : t2[x] = "other"}
  <2>1. \A x \in Fd : t2[x] = "other" <=> table[x] = "other"
    BY <1>2, <1>6, PoolAssumption
  <2> QED
    BY <2>1 DEF PoolOk
<1>12. /\ pools \in [Peer -> Seq(Fd)]
       /\ \A x \in Peer : pools[x] = << >> \/ Len(pools[x]) = 1
  BY DEF PoolOk
<1>13. PoolOk(pools, m2, t2, rest, h2)
  BY <1>6, <1>7, <1>8, <1>9, <1>10, <1>11, <1>12 DEF PoolOk
<1> QED
  BY <1>3, <1>4, <1>5, <1>13

-----------------------------------------------------------------------------
(* The operations of the pool *)

(* A connection is in a queue exactly when it is the queue's first. *)
LEMMA QueuedIs ==
    ASSUME PoolInv
    PROVE  \A fd : fd \in Queued <=>
              \E p \in Peer : m_connectionPools[p] # << >>
                              /\ m_connectionPools[p][1] = fd
<1>1. ASSUME NEW p \in Peer
      PROVE  QueuedFor(p) = IF m_connectionPools[p] # << >>
                            THEN {m_connectionPools[p][1]} ELSE {}
  <2>1. CASE m_connectionPools[p] = << >>
    <3>1. Len(m_connectionPools[p]) = 0
      BY <2>1
    <3>2. 1..Len(m_connectionPools[p]) = {}
      BY <3>1
    <3> QED
      BY <2>1, <3>2 DEF QueuedFor
  <2>2. CASE m_connectionPools[p] # << >>
    BY <2>2, QueueOfOne DEF PoolInv, PoolOk, QueuedFor
  <2> QED
    BY <2>1, <2>2
<1> QED
  BY <1>1 DEF Queued

(* getConnection, when nobody has a connection. *)
LEMMA GetKeepsPool ==
    ASSUME PoolInv, NEW c \in Caller, NEW p \in Peer,
           \A d \in Caller : held[d] = None, getConnection(c, p)
    PROVE  /\ PoolInv' /\ UNCHANGED <<pool_running, cleaner>>
           /\ \A d \in Caller : d # c => held'[d] = None
<1>1. PoolOk(m_connectionPools, m_fdToPeerMap, open, others, held)
  BY DEF PoolInv
<1>2. /\ m_connectionPools \in [Peer -> Seq(Fd)]
      /\ held \in [Caller -> (Peer \X Fd) \cup {None}]
  BY <1>1 DEF PoolOk
<1>3. ASSUME m_connectionPools[p] # << >>
      PROVE  /\ Head(m_connectionPools[p]) = m_connectionPools[p][1]
             /\ Tail(m_connectionPools[p]) = << >>
             /\ m_connectionPools[p][1] \in Fd
             /\ open[m_connectionPools[p][1]] = p
  BY <1>1, <1>3, QueueOfOne DEF PoolOk
<1>4. UNCHANGED <<pool_running, cleaner, others>>
  BY DEF getConnection, getReused, getReplaced, getCreated
<1>5. CASE getReused(c, p)
  <2>1. /\ m_connectionPools[p] # << >> /\ m_fdToPeerMap' = m_fdToPeerMap
        /\ open' = open
        /\ held' = [held EXCEPT ![c] = <<p, m_connectionPools[p][1]>>]
        /\ m_connectionPools' = [m_connectionPools EXCEPT ![p] = << >>]
    BY <1>3, <1>5 DEF getReused
  <2>2. PoolOk(m_connectionPools', m_fdToPeerMap', open', others', held')
    BY <1>1, <1>4, <2>1, ConnectionTaken
  <2> QED
    BY <1>2, <1>4, <2>1, <2>2 DEF PoolInv
<1>6. ASSUME NEW pools, NEW map, NEW table,
             PoolOk(pools, map, table, others, held), pools[p] = << >>,
             m_connectionPools' = pools, createConnection(c, p, table, map)
      PROVE  PoolInv' /\ \A d \in Caller : d # c => held'[d] = None
  <2>1. CASE open' = table /\ m_fdToPeerMap' = map /\ held' = held
    BY <1>4, <1>6, <2>1 DEF PoolInv
  <2>2. ASSUME NEW fd \in Fd, table[fd] = None, open' = [table EXCEPT ![fd] = p],
               m_fdToPeerMap' = [map EXCEPT ![fd] = p],
               held' = [held EXCEPT ![c] = <<p, fd>>]
        PROVE  PoolInv' /\ \A d \in Caller : d # c => held'[d] = None
    <3>1. PoolOk(pools, [map EXCEPT ![fd] = p], [table EXCEPT ![fd] = p], others,
                 [held EXCEPT ![c] = <<p, fd>>])
      BY <1>6, <2>2, ConnectionCreated
    <3> QED
      BY <1>2, <1>4, <1>6, <2>2, <3>1 DEF PoolInv
  <2> QED
    BY <1>6, <2>1, <2>2 DEF createConnection
<1>7. CASE getReplaced(c, p)
  <2>1. PICK dead : dead = {m_connectionPools[p][1]}
    OBVIOUS
  <2>2. PICK q2 : q2 = [m_connectionPools EXCEPT ![p] = << >>]
    OBVIOUS
  <2>3. /\ m_connectionPools[p] # << >> /\ m_connectionPools' = q2
        /\ createConnection(c, p, Without(open, dead), Without(m_fdToPeerMap, dead))
    BY <1>3, <1>7, <2>1, <2>2 DEF getReplaced
  <2>4. q2 \in [Peer -> Seq(Fd)] /\ q2[p] = << >>
    <3>1. << >> \in Seq(Fd)
      BY EmptySeq
    <3> QED
      BY <1>2, <2>2, <3>1
  <2>5. ASSUME NEW x \in Peer
        PROVE  q2[x] = IF m_connectionPools[x] # << >>
                          /\ m_connectionPools[x][1] \in dead
                       THEN << >> ELSE m_connectionPools[x]
    <3>1. CASE x = p
      BY <2>1, <2>3, <2>4, <3>1
    <3>2. CASE x # p
      <4>1. m_connectionPools[x] # << >> => open[m_connectionPools[x][1]] = x
        BY <1>1 DEF PoolOk
      <4>2. m_connectionPools[x] # << >> => m_connectionPools[x][1] \notin dead
        BY <1>3, <2>1, <2>3, <3>2, <4>1
      <4> QED
        BY <1>2, <2>2, <3>2, <4>2
    <3> QED
      BY <3>1, <3>2
  <2>6. \A fd \in dead : \E x \in Peer : m_connectionPools[x] # << >>
                                          /\ m_connectionPools[x][1] = fd
    BY <2>1, <2>3
  <2>7. PoolOk(q2, Without(m_fdToPeerMap, dead), Without(open, dead), others, held)
    BY <1>1, <2>4, <2>5, <2>6, DeadDropped
  <2> QED
    BY <1>4, <1>6, <2>3, <2>4, <2>7
<1>8. CASE getCreated(c, p)
  BY <1>1, <1>4, <1>6, <1>8 DEF getCreated
<1> QED
  BY <1>5, <1>7, <1>8, <1>4 DEF getConnection

(* releaseConnection, by the one caller that has a connection. *)
LEMMA ReleaseKeepsPool ==
    ASSUME PoolInv, NEW c \in Caller, held[c] # None,
           \A d \in Caller : d # c => held[d] = None, releaseConnection(c)
    PROVE  /\ PoolInv' /\ UNCHANGED <<pool_running, cleaner>>
           /\ \A d \in Caller : held'[d] = None
<1>1. PoolOk(m_connectionPools, m_fdToPeerMap, open, others, held)
  BY DEF PoolInv
<1>2. PICK p : p = held[c][1]
  OBVIOUS
<1>3. PICK fd : fd = held[c][2]
  OBVIOUS
<1>4. m_fdToPeerMap[fd] = p
  BY <1>1, <1>2, <1>3, HeldIs
<1>5. /\ held' = [held EXCEPT ![c] = None]
      /\ UNCHANGED <<pool_running, cleaner, others>>
  BY DEF releaseConnection
<1>6. \/ /\ m_connectionPools' = [m_connectionPools EXCEPT ![p] = Append(@, fd)]
         /\ m_fdToPeerMap' = m_fdToPeerMap /\ open' = open
      \/ /\ open' = Without(open, {fd}) /\ m_fdToPeerMap' = Without(m_fdToPeerMap, {fd})
         /\ m_connectionPools' = m_connectionPools
  BY <1>2, <1>3, <1>4 DEF releaseConnection
<1>7. PoolOk(m_connectionPools', m_fdToPeerMap', open', others', held')
  <2>1. CASE m_connectionPools' = [m_connectionPools EXCEPT ![p] = Append(@, fd)]
             /\ m_fdToPeerMap' = m_fdToPeerMap /\ open' = open
    BY <1>1, <1>2, <1>3, <1>5, <2>1, ConnectionReturned
  <2>2. CASE open' = Without(open, {fd}) /\ m_fdToPeerMap' = Without(m_fdToPeerMap, {fd})
             /\ m_connectionPools' = m_connectionPools
    BY <1>1, <1>3, <1>5, <2>2, ConnectionClosed
  <2> QED
    BY <1>6, <2>1, <2>2
<1>8. \A d \in Caller : held'[d] = None
  BY <1>1, <1>5 DEF PoolOk
<1> QED
  BY <1>5, <1>7, <1>8 DEF PoolInv

(* The clean-up thread. *)
LEMMA CleanerKeepsPool ==
    ASSUME PoolInv, CleanerTests \/ CleanerWakes
    PROVE  /\ PoolInv' /\ UNCHANGED <<pool_running, held>>
           /\ cleaner \in {"test", "wait"} /\ cleaner' \in {"test", "wait", "ended"}
           /\ (\E fd \in Fd : open'[fd] \in Peer) => \E fd \in Fd : open[fd] \in Peer
<1>1. PoolOk(m_connectionPools, m_fdToPeerMap, open, others, held)
  BY DEF PoolInv
<1>2. CASE UNCHANGED <<m_connectionPools, m_fdToPeerMap, open>>
  BY <1>2 DEF PoolInv, CleanerTests, CleanerWakes
<1>3. ASSUME NEW dead \in SUBSET Queued,
             m_connectionPools' =
                [p \in Peer |-> newQueue(m_connectionPools[p], dead)],
             open' = Without(open, dead),
             m_fdToPeerMap' = Without(m_fdToPeerMap, dead),
             others' = others, held' = held
      PROVE  PoolInv' /\ \A fd \in Fd : open'[fd] \in Peer => open[fd] \in Peer
  <2>1. PICK q2 : q2 = m_connectionPools'
    OBVIOUS
  <2>2. ASSUME NEW p \in Peer
        PROVE  /\ q2[p] = IF m_connectionPools[p] # << >>
                             /\ m_connectionPools[p][1] \in dead
                          THEN << >> ELSE m_connectionPools[p]
               /\ q2[p] \in Seq(Fd)
    <3>1. q2[p] = newQueue(m_connectionPools[p], dead)
      BY <1>3, <2>1
    <3>2. m_connectionPools[p] \in Seq(Fd) /\ << >> \in Seq(Fd)
      BY <1>1, EmptySeq DEF PoolOk
    <3>3. CASE m_connectionPools[p] = << >>
      BY <3>1, <3>2, <3>3, NewQueueOfNone
    <3>4. CASE m_connectionPools[p] # << >>
      <4>1. Len(m_connectionPools[p]) = 1
        BY <1>1, <3>4 DEF PoolOk
      <4> QED
        BY <3>1, <3>2, <3>4, <4>1, NewQueueOfOne
    <3> QED
      BY <3>3, <3>4
  <2>3. q2 \in [Peer -> Seq(Fd)]
    <3>1. q2 = [p \in Peer |-> newQueue(m_connectionPools[p], dead)]
      BY <1>3, <2>1
    <3>2. \A p \in Peer : newQueue(m_connectionPools[p], dead) \in Seq(Fd)
      BY <2>2, <3>1
    <3> QED
      BY <3>1, <3>2
  <2>4. \A fd \in dead : \E p \in Peer : m_connectionPools[p] # << >>
                                          /\ m_connectionPools[p][1] = fd
    BY QueuedIs
  <2>5. PoolOk(q2, Without(m_fdToPeerMap, dead), Without(open, dead), others, held)
    BY <1>1, <2>2, <2>3, <2>4, DeadDropped
  <2>6. \A fd \in Fd : open'[fd] \in Peer => open[fd] \in Peer
    BY <1>3, PoolAssumption DEF Without
  <2> QED
    BY <1>3, <2>1, <2>5, <2>6 DEF PoolInv
<1>4. CASE CleanerTests
  BY <1>2, <1>4 DEF CleanerTests
<1>5. CASE CleanerWakes
  <2>1. /\ cleaner = "wait" /\ UNCHANGED <<pool_running, others, held>>
        /\ cleaner' \in {"test", "wait", "ended"}
    BY <1>5 DEF CleanerWakes
  <2>2. CASE UNCHANGED <<m_connectionPools, m_fdToPeerMap, open>>
    BY <1>2, <2>1, <2>2
  <2>3. ASSUME NEW dead \in SUBSET Queued,
               m_connectionPools' =
                  [p \in Peer |-> newQueue(m_connectionPools[p], dead)],
               open' = Without(open, dead),
               m_fdToPeerMap' = Without(m_fdToPeerMap, dead)
        PROVE  PoolInv' /\ \A fd \in Fd : open'[fd] \in Peer => open[fd] \in Peer
    BY <1>3, <2>1, <2>3
  <2> QED
    BY <1>5, <2>1, <2>2, <2>3 DEF CleanerWakes
<1> QED
  BY <1>4, <1>5

(* The end of stop, when nobody has a connection: nothing is left. *)
LEMMA CloseAllKeepsPool ==
    ASSUME PoolInv, \A d \in Caller : held[d] = None, closeAll
    PROVE  /\ PoolInv' /\ UNCHANGED <<pool_running, cleaner, held>>
           /\ \A fd \in Fd : open'[fd] \notin Peer
<1>1. PoolOk(m_connectionPools, m_fdToPeerMap, open, others, held)
  BY DEF PoolInv
<1>2. PICK D : D = Queued
  OBVIOUS
<1>3. /\ open' = Without(open, D) /\ m_connectionPools' = [p \in Peer |-> << >>]
      /\ m_fdToPeerMap' = [fd \in Fd |-> None]
      /\ UNCHANGED <<pool_running, cleaner, others, held>>
  BY <1>2 DEF closeAll
<1>4. \A fd : fd \in D <=> \E p \in Peer : m_connectionPools[p] # << >>
                                            /\ m_connectionPools[p][1] = fd
  BY <1>2, QueuedIs
<1>5. ASSUME NEW fd \in Fd, open[fd] \in Peer
      PROVE  fd \in D
  <2>1. \/ m_connectionPools[open[fd]] # << >> /\ m_connectionPools[open[fd]][1] = fd
        \/ \E c \in Caller : held[c] = <<open[fd], fd>>
    BY <1>1, <1>5 DEF PoolOk
  <2>2. <<open[fd], fd>> \in Peer \X Fd
    BY <1>5
  <2>3. \A c \in Caller : held[c] # <<open[fd], fd>>
    BY <2>2, PoolAssumption
  <2> QED
    BY <1>4, <1>5, <2>1, <2>3
<1>6. \A fd \in Fd : open'[fd] \notin Peer
  BY <1>3, <1>5, PoolAssumption DEF Without
<1>7. Without(m_fdToPeerMap, D) = [fd \in Fd |-> None]
  <2>1. ASSUME NEW fd \in Fd
        PROVE  fd \in D \/ m_fdToPeerMap[fd] = None
    BY <1>1, <1>5 DEF PoolOk
  <2> QED
    BY <2>1 DEF Without
<1>8. PICK q2 : q2 = [p \in Peer |-> << >>]
  OBVIOUS
<1>9. q2 \in [Peer -> Seq(Fd)]
  <2>1. << >> \in Seq(Fd)
    BY EmptySeq
  <2> QED
    BY <1>8, <2>1
<1>10. \A p \in Peer : q2[p] = IF m_connectionPools[p] # << >>
                                   /\ m_connectionPools[p][1] \in D
                                THEN << >> ELSE m_connectionPools[p]
  BY <1>4, <1>8
<1>11. PoolOk(q2, Without(m_fdToPeerMap, D), Without(open, D), others, held)
  BY <1>1, <1>4, <1>9, <1>10, DeadDropped
<1> QED
  BY <1>3, <1>6, <1>7, <1>8, <1>11 DEF PoolInv

(* The rest of the process takes free numbers and gives back its own. *)
LEMMA OthersKeepPool ==
    ASSUME PoolInv, OtherOpens \/ OtherCloses
    PROVE  /\ PoolInv' /\ UNCHANGED <<pool_running, cleaner, held>>
           /\ \A fd \in Fd : open'[fd] \in Peer => open[fd] \in Peer
<1>1. PoolOk(m_connectionPools, m_fdToPeerMap, open, others, held)
  BY DEF PoolInv
<1>2. UNCHANGED <<m_connectionPools, m_fdToPeerMap, pool_running, cleaner, held>>
  BY DEF OtherOpens, OtherCloses
<1>3. ASSUME NEW fd \in Fd, NEW v \in {None, "other"}, open[fd] \notin Peer,
             open' = [x \in Fd |-> IF x = fd THEN v ELSE open[x]],
             others' = {x \in Fd : open'[x] = "other"}
      PROVE  PoolInv' /\ \A x \in Fd : open'[x] \in Peer => open[x] \in Peer
  <2>1. /\ \A x \in Fd : open'[x] = IF x = fd THEN v ELSE open[x]
        /\ open' \in [Fd -> Peer \cup {None, "other"}] /\ v \notin Peer
    BY <1>1, <1>3, PoolAssumption DEF PoolOk
  <2>2. \A x \in Fd : /\ open'[x] \in Peer <=> open[x] \in Peer
                      /\ open[x] \in Peer => open'[x] = open[x]
    BY <1>3, <2>1
  <2>3. ASSUME NEW p \in Peer, m_connectionPools[p] # << >>
        PROVE  open'[m_connectionPools[p][1]] = p
    <3>1. m_connectionPools[p][1] \in Fd /\ open[m_connectionPools[p][1]] = p
      BY <1>1, <2>3, QueueOfOne DEF PoolOk
    <3> QED
      BY <2>2, <3>1
  <2>4. ASSUME NEW c \in Caller, held[c] # None
        PROVE  /\ m_connectionPools[held[c][1]] = << >>
               /\ open'[held[c][2]] = held[c][1]
    <3>1. /\ held[c][1] \in Peer /\ held[c][2] \in Fd
          /\ m_connectionPools[held[c][1]] = << >> /\ open[held[c][2]] = held[c][1]
      BY <1>1, <2>4 DEF PoolOk
    <3> QED
      BY <2>2, <3>1
  <2>5. ASSUME NEW x \in Fd, open'[x] \in Peer
        PROVE  \/ /\ m_connectionPools[open'[x]] # << >>
                  /\ m_connectionPools[open'[x]][1] = x
               \/ \E c \in Caller : held[c] = <<open'[x], x>>
    <3>1. open'[x] = open[x] /\ open[x] \in Peer
      BY <2>2, <2>5
    <3> QED
      BY <1>1, <3>1 DEF PoolOk
  <2>6. m_fdToPeerMap = [x \in Fd |-> IF open'[x] \in Peer THEN open'[x] ELSE None]
    <3>1. m_fdToPeerMap = [x \in Fd |-> IF open[x] \in Peer THEN open[x] ELSE None]
      BY <1>1 DEF PoolOk
    <3> QED
      BY <2>2, <3>1
  <2>7. PoolOk(m_connectionPools, m_fdToPeerMap, open', others', held)
    BY <1>1, <1>3, <2>1, <2>3, <2>4, <2>5, <2>6 DEF PoolOk
  <2> QED
    BY <1>2, <2>2, <2>7 DEF PoolInv
<1>4. others = {x \in Fd : open[x] = "other"} /\ open \in [Fd -> Peer \cup {None, "other"}]
  BY <1>1 DEF PoolOk
<1>5. CASE OtherOpens
  <2>1. PICK fd \in Fd : /\ open[fd] = None /\ open' = [open EXCEPT ![fd] = "other"]
                         /\ others' = others \cup {fd}
    BY <1>5 DEF OtherOpens
  <2>2. open' = [x \in Fd |-> IF x = fd THEN "other" ELSE open[x]]
    BY <1>4, <2>1
  <2>3. others' = {x \in Fd : open'[x] = "other"}
    BY <1>4, <2>1, <2>2
  <2>4. open[fd] \notin Peer
    BY <2>1, PoolAssumption
  <2> QED
    BY <1>2, <1>3, <2>2, <2>3, <2>4
<1>6. CASE OtherCloses
  <2>1. PICK fd \in others : open' = Without(open, {fd}) /\ others' = others \ {fd}
    BY <1>6 DEF OtherCloses
  <2>2. fd \in Fd /\ open[fd] \notin Peer
    BY <1>4, PoolAssumption
  <2>3. open' = [x \in Fd |-> IF x = fd THEN None ELSE open[x]]
    BY <2>1 DEF Without
  <2>4. others' = {x \in Fd : open'[x] = "other"}
    BY <1>4, <2>1, <2>3, PoolAssumption
  <2> QED
    BY <1>2, <1>3, <2>2, <2>3, <2>4
<1> QED
  BY <1>5, <1>6

-----------------------------------------------------------------------------
(* The invariant of the process *)

(* The pool's types are part of what holds of its maps, also after a step. *)
LEMMA PoolTypes ==
    ASSUME PoolInv, pool_running \in BOOLEAN,
           cleaner \in {"none", "test", "wait", "ended"}
    PROVE  PoolTypeOK
<1>1. others \subseteq Fd
  BY DEF PoolInv, PoolOk
<1> QED
  BY <1>1 DEF PoolInv, PoolOk, PoolTypeOK

LEMMA PoolTypesNext ==
    ASSUME PoolInv', pool_running' \in BOOLEAN,
           cleaner' \in {"none", "test", "wait", "ended"}
    PROVE  PoolTypeOK'
<1>1. others' \subseteq Fd
  BY DEF PoolInv, PoolOk
<1> QED
  BY <1>1 DEF PoolInv, PoolOk, PoolTypeOK

(* A step that leaves the pool and the raft threads alone. *)
LEMMA PoolLeftAlone ==
    ASSUME ServerInv, UNCHANGED <<m_connectionPools, m_fdToPeerMap, open, others, held>>,
           UNCHANGED <<pc, mutex>>
    PROVE  PoolInv' /\ MutexInv'
BY DEF ServerInv, PoolInv, MutexInv

LEMMA ServerInvInit ==
    ASSUME Init
    PROVE  ServerInv
<1> USE DEF Init, PoolInit
<1>1. << >> \in Seq(Fd) /\ << >> \in Seq(StopPlace)
  BY EmptySeq
<1>2. Frames = {}
  BY NoFrames DEF Frames
<1>3. PoolInv
  BY <1>1, PoolAssumption DEF PoolInv, PoolOk
<1>4. TypeOK
  BY <1>1, <1>3, PoolTypes DEF TypeOK, MainPlace
<1>5. MutexInv
  BY PoolAssumption DEF MutexInv
<1>6. StartInv
  BY <1>2, CallerAssumption DEF StartInv, Starting
<1>7. JoinInv
  BY <1>2 DEF JoinInv, Gone
<1>8. StopInv
  BY PoolAssumption DEF StopInv
<1> QED
  BY <1>3, <1>4, <1>5, <1>6, <1>7, <1>8 DEF ServerInv

(***************************************************************************)
(* The main thread's own steps, up to the start of the threads.  There is  *)
(* no stop function on the stack then.                                     *)
(***************************************************************************)
LEMMA StartKeepsInv ==
    ASSUME ServerInv,
           SetupSocket \/ OpenStorage \/ RaftStart \/ PoolStart
    PROVE  ServerInv'
<1>1. stack = << >> /\ UNCHANGED <<stack, pending, pc, left, mutex, m_running>>
  BY DEF SetupSocket, OpenStorage, MainRuns, RaftStart, PoolStart, MainAt,
         threadVars, flags
<1>2. UNCHANGED <<m_connectionPools, m_fdToPeerMap, open, others, held>>
  BY DEF SetupSocket, OpenStorage, MainRuns, RaftStart, PoolStart, MainAt,
         poolVars, poolStart
<1>3. PoolInv' /\ MutexInv'
  BY <1>1, <1>2, PoolLeftAlone
<1>4. Frames = {} /\ Frames' = {}
  BY <1>1, NoFrames DEF Frames
<1>5. TypeOK /\ StartInv /\ JoinInv /\ StopInv
  BY DEF ServerInv
<1>6. CASE SetupSocket
  <2>1. /\ main = "socket" /\ main' \in {"open", "destroy"}
        /\ m_listen_fd' \in {"none", "open"} /\ m_epoll_fd' \in {"none", "open", "stale"}
        /\ UNCHANGED <<pool_running, cleaner, raft_running, joinable>>
    BY <1>6 DEF SetupSocket, MainAt, MainGoto, poolVars, flags
  <2>2. TypeOK'
    <3>1. PoolTypeOK'
      BY <1>2, <1>5, <2>1 DEF TypeOK, PoolTypeOK
    <3> QED
      BY <1>1, <1>5, <2>1, <3>1 DEF TypeOK, MainPlace
  <2>3. StartInv' /\ JoinInv' /\ StopInv'
    BY <1>1, <1>2, <1>4, <1>5, <2>1 DEF StartInv, JoinInv, StopInv, Starting, Gone
  <2> QED
    BY <1>3, <2>2, <2>3 DEF ServerInv
<1>7. CASE OpenStorage
  <2>1. /\ main = "open" /\ main' \in {"raftStart", "aborted"}
        /\ UNCHANGED <<m_listen_fd, m_epoll_fd, pool_running, cleaner,
                       raft_running, joinable>>
    BY <1>7 DEF OpenStorage, MainRuns, MainAt, MainGoto, poolVars, flags, sockets
  <2>2. TypeOK'
    <3>1. PoolTypeOK'
      BY <1>2, <1>5, <2>1 DEF TypeOK, PoolTypeOK
    <3> QED
      BY <1>1, <1>5, <2>1, <3>1 DEF TypeOK, MainPlace
  <2>3. StartInv' /\ JoinInv' /\ StopInv'
    BY <1>1, <1>2, <1>4, <1>5, <2>1 DEF StartInv, JoinInv, StopInv, Starting, Gone
  <2> QED
    BY <1>3, <2>2, <2>3 DEF ServerInv
<1>8. CASE RaftStart
  <2>1. /\ main = "raftStart" /\ main' = "poolStart" /\ raft_running' = TRUE
        /\ UNCHANGED <<m_listen_fd, m_epoll_fd, pool_running, cleaner, joinable>>
    BY <1>8 DEF RaftStart, MainAt, MainGoto, poolVars, sockets
  <2>2. TypeOK'
    <3>1. PoolTypeOK'
      BY <1>2, <1>5, <2>1 DEF TypeOK, PoolTypeOK
    <3> QED
      BY <1>1, <1>5, <2>1, <3>1 DEF TypeOK, MainPlace
  <2>3. StartInv' /\ JoinInv' /\ StopInv'
    BY <1>1, <1>2, <1>4, <1>5, <2>1 DEF StartInv, JoinInv, StopInv, Starting, Gone
  <2> QED
    BY <1>3, <2>2, <2>3 DEF ServerInv
<1>9. CASE PoolStart
  <2>1. /\ main = "poolStart" /\ main' = "spawnElection" /\ pool_running' = TRUE
        /\ joinable' = joinable \cup {"cleaner"} /\ cleaner' \in {cleaner, "test"}
        /\ UNCHANGED <<m_listen_fd, m_epoll_fd, raft_running>>
    BY <1>9 DEF PoolStart, poolStart, MainAt, MainGoto, sockets, flags
  <2>2. TypeOK'
    <3>1. PoolTypeOK'
      BY <1>2, <1>5, <2>1 DEF TypeOK, PoolTypeOK
    <3> QED
      BY <1>1, <1>5, <2>1, <3>1 DEF TypeOK, MainPlace, Thread
  <2>3. StartInv' /\ JoinInv' /\ StopInv'
    BY <1>1, <1>2, <1>4, <1>5, <2>1 DEF StartInv, JoinInv, StopInv, Starting, Gone
  <2> QED
    BY <1>3, <2>2, <2>3 DEF ServerInv
<1> QED
  BY <1>6, <1>7, <1>8, <1>9

(* The raft threads are started. *)
LEMMA SpawnKeepsInv ==
    ASSUME ServerInv, SpawnElection \/ SpawnHeartbeat
    PROVE  ServerInv'
<1>1. PICK t \in Caller :
         /\ \/ t = "election" /\ main = "spawnElection" /\ main' = "spawnHeartbeat"
            \/ t = "heartbeat" /\ main = "spawnHeartbeat" /\ main' = "running"
         /\ stack = << >> /\ pc' = [pc EXCEPT ![t] = "test"]
         /\ joinable' = joinable \cup {t}
         /\ UNCHANGED <<m_connectionPools, m_fdToPeerMap, open, others, held,
                        pool_running, cleaner, left, mutex, stack, pending,
                        m_running, raft_running, m_epoll_fd, m_listen_fd>>
  BY CallerAssumption DEF SpawnElection, SpawnHeartbeat, Spawn, MainAt, MainGoto,
                          poolVars, flags, sockets
<1>2. TypeOK /\ MutexInv /\ PoolInv /\ StartInv /\ JoinInv /\ StopInv
  BY DEF ServerInv
<1>3. Frames = {} /\ Frames' = {}
  BY <1>1, NoFrames DEF Frames
<1>4. /\ pc[t] = "none" /\ pool_running /\ raft_running /\ ~m_running
      /\ pc'[t] = "test" /\ \A c \in Caller : c # t => pc'[c] = pc[c]
  BY <1>1, <1>2 DEF StartInv, Starting, TypeOK
<1>5. PoolInv'
  BY <1>1, <1>2 DEF PoolInv
<1>6. MutexInv'
  BY <1>1, <1>2, <1>4 DEF MutexInv
<1>7. TypeOK'
  <2>1. PoolTypeOK'
    BY <1>1, <1>2 DEF TypeOK, PoolTypeOK
  <2>2. pc' \in [Caller -> {"none", "test", "lock", "pass", "call", "wait", "ended"}]
    BY <1>1, <1>2 DEF TypeOK
  <2> QED
    BY <1>1, <1>2, <2>1, <2>2 DEF TypeOK, MainPlace, Thread
<1>8. StartInv'
  BY <1>1, <1>2, <1>3, <1>4, CallerAssumption DEF StartInv, Starting
<1>9. JoinInv'
  BY <1>1, <1>2, <1>3, <1>4 DEF JoinInv, Gone
<1>10. StopInv'
  BY <1>1, <1>2, <1>3, <1>4 DEF StopInv, Starting
<1> QED
  BY <1>5, <1>6, <1>7, <1>8, <1>9, <1>10 DEF ServerInv

(***************************************************************************)
(* The main thread after the start of the threads.  What the destructors   *)
(* would stop has been stopped by then.                                    *)
(***************************************************************************)
LEMMA MainKeepsInv ==
    ASSUME ServerInv,
           \/ SetRunning \/ AcceptLoop \/ Wait
           \/ DestroyServer \/ DestroyRaft \/ DestroyPool
    PROVE  ServerInv'
<1>1. TypeOK /\ MutexInv /\ PoolInv /\ StartInv /\ JoinInv /\ StopInv
  BY DEF ServerInv
<1>2. stack = << >>
  BY DEF SetRunning, AcceptLoop, Wait, DestroyServer, DestroyRaft, DestroyPool,
         MainRuns, MainAt
<1>3. Frames = {}
  BY <1>2, NoFrames DEF Frames
<1>4. /\ \/ main = "running" /\ main' = "loop" /\ m_running' = TRUE
         \/ /\ m_running' = m_running /\ main \notin Starting
            /\ main' \in {"loop", "epoll", "accept", "wait"}
            /\ main \in {"loop", "epoll", "accept", "wait"}
         \/ /\ m_running' = m_running /\ ~m_running
            /\ main \in {"wait", "destroy", "destroyRaft", "destroyPool"}
            /\ main' \in Ending
      /\ stack' = stack
      /\ UNCHANGED <<m_connectionPools, m_fdToPeerMap, open, others, held,
                     pool_running, cleaner, pc, left, mutex, pending,
                     raft_running, m_epoll_fd, m_listen_fd, joinable>>
  <2> USE DEF MainRuns, MainAt, MainGoto, poolVars, threadVars, flags, sockets
  <2>1. CASE SetRunning
    BY <2>1 DEF SetRunning
  <2>2. CASE AcceptLoop
    BY <2>2 DEF AcceptLoop, Starting
  <2>3. CASE Wait
    BY <2>3 DEF Wait, Ending
  <2>4. CASE DestroyServer
    <3>1. ~m_running
      BY <1>1, <2>4 DEF DestroyServer, StartInv, Ending
    <3> QED
      BY <2>4, <3>1 DEF DestroyServer, Ending
  <2>5. CASE DestroyRaft
    <3>1. ~m_running /\ ~raft_running
      BY <1>1, <1>3, <2>5 DEF DestroyRaft, StartInv, StopInv, Starting, Ending
    <3> QED
      BY <2>5, <3>1 DEF DestroyRaft, Ending
  <2>6. CASE DestroyPool
    <3>1. ~m_running
      BY <1>1, <2>6 DEF DestroyPool, StartInv, Ending
    <3> QED
      BY <2>6, <3>1 DEF DestroyPool, Ending
  <2> QED
    BY <2>1, <2>2, <2>3, <2>4, <2>5, <2>6
<1>5. Frames' = {}
  BY <1>3, <1>4 DEF Frames
<1>6. PoolInv' /\ MutexInv'
  BY <1>4, PoolLeftAlone
<1>7. TypeOK'
  <2>1. PoolTypeOK'
    BY <1>1, <1>4 DEF TypeOK, PoolTypeOK
  <2> QED
    BY <1>1, <1>4, <2>1 DEF TypeOK, MainPlace, Ending
<1>8. StartInv'
  BY <1>1, <1>4, <1>5 DEF StartInv, Starting, Ending
<1>9. JoinInv'
  BY <1>1, <1>4, <1>5 DEF JoinInv
<1>10. StopInv'
  BY <1>1, <1>3, <1>4, <1>5 DEF StopInv, Starting, Ending
<1> QED
  BY <1>6, <1>7, <1>8, <1>9, <1>10 DEF ServerInv

(* A signal handler is put on top of the stack. *)
LEMMA SignalKeepsInv ==
    ASSUME ServerInv, HandleSignal
    PROVE  ServerInv'
<1>1. TypeOK /\ MutexInv /\ PoolInv /\ StartInv /\ JoinInv /\ StopInv
  BY DEF ServerInv
<1>2. /\ pending' \subseteq pending
      /\ UNCHANGED <<m_connectionPools, m_fdToPeerMap, open, others, held,
                     pool_running, cleaner, pc, left, mutex, main, m_running,
                     raft_running, m_epoll_fd, m_listen_fd, joinable>>
  BY DEF HandleSignal, Call, poolVars, threadVars, flags, sockets
<1>3. PICK f \in {"server_test", "blocked"} :
         stack' \in Seq(StopPlace) /\ Frames' = Frames \cup {f}
  <2>1. PICK f \in {"server_test", "blocked"} : stack' = Append(stack, f)
    BY DEF HandleSignal, Call
  <2> QED
    BY <1>1, <2>1, PushedFrames DEF TypeOK, StopPlace, Frames
<1>4. PoolInv' /\ MutexInv'
  BY <1>2, PoolLeftAlone
<1>5. TypeOK'
  <2>1. PoolTypeOK'
    BY <1>1, <1>2 DEF TypeOK, PoolTypeOK
  <2> QED
    BY <1>1, <1>2, <1>3, <2>1 DEF TypeOK
<1>6. StartInv'
  BY <1>1, <1>2, <1>3 DEF StartInv
<1>7. JoinInv'
  BY <1>1, <1>2, <1>3 DEF JoinInv
<1>8. StopInv'
  BY <1>1, <1>2, <1>3 DEF StopInv
<1> QED
  BY <1>4, <1>5, <1>6, <1>7, <1>8 DEF ServerInv

-----------------------------------------------------------------------------
(* The steps of the stop functions *)

(* The place where the running function is. *)
LEMMA RunningFrame ==
    ASSUME TypeOK, NEW place, StopAt(place)
    PROVE  /\ stack \in Seq(StopPlace) /\ stack # << >>
           /\ stack[Len(stack)] = place /\ place \in Frames
BY PoppedFrames DEF TypeOK, StopAt, Frames

(* It moves on to y. *)
LEMMA FrameMoves ==
    ASSUME TypeOK, NEW place, StopAt(place), NEW y \in StopPlace, StopGoto(y)
    PROVE  /\ stack' \in Seq(StopPlace) /\ place \in Frames
           /\ Frames \subseteq Frames' \cup {place}
           /\ Frames' \subseteq Frames \cup {y} /\ y \in Frames'
BY RunningFrame, MovedFrames DEF StopGoto, Frames

(* It returns. *)
LEMMA FrameReturns ==
    ASSUME TypeOK, NEW place, StopAt(place), Return
    PROVE  /\ stack' \in Seq(StopPlace) /\ place \in Frames
           /\ Frames \subseteq Frames' \cup {place}
           /\ Frames' \subseteq Frames
BY RunningFrame, PoppedFrames DEF Return, Frames

(* It moves on to y and calls f. *)
LEMMA FrameCalls ==
    ASSUME TypeOK, NEW place, StopAt(place), NEW y \in StopPlace,
           NEW f \in StopPlace, CallFrom(y, f)
    PROVE  /\ stack' \in Seq(StopPlace) /\ place \in Frames
           /\ Frames \subseteq Frames' \cup {place}
           /\ Frames' \subseteq Frames \cup {y, f} /\ y \in Frames' /\ f \in Frames'
<1>1. PICK t : t = [stack EXCEPT ![Len(stack)] = y]
  OBVIOUS
<1>2. /\ t \in Seq(StopPlace) /\ place \in Frames
      /\ Frames \subseteq FramesOf(t) \cup {place}
      /\ FramesOf(t) \subseteq Frames \cup {y} /\ y \in FramesOf(t)
  BY <1>1, RunningFrame, MovedFrames DEF Frames
<1>3. stack' = Append(t, f)
  BY <1>1 DEF CallFrom
<1>4. stack' \in Seq(StopPlace) /\ Frames' = FramesOf(t) \cup {f}
  BY <1>2, <1>3, PushedFrames DEF Frames
<1> QED
  BY <1>2, <1>4

(***************************************************************************)
(* Steps that leave the pool's maps and the raft threads alone, and keep   *)
(* the types.  What is left to show is what the invariant says about the   *)
(* stack.                                                                  *)
(***************************************************************************)
LEMMA StopKeepsTypes ==
    ASSUME ServerInv, stack' \in Seq(StopPlace),
           m_running' \in BOOLEAN, raft_running' \in BOOLEAN, pool_running' \in BOOLEAN,
           {m_epoll_fd', m_listen_fd'} \subseteq {"none", "open", "stale"},
           joinable' \subseteq joinable,
           UNCHANGED <<m_connectionPools, m_fdToPeerMap, open, others, held,
                       cleaner, pc, left, mutex, main, pending>>
    PROVE  TypeOK' /\ PoolInv' /\ MutexInv'
<1>1. TypeOK
  BY DEF ServerInv
<1>2. PoolInv' /\ MutexInv'
  BY PoolLeftAlone
<1>3. PoolTypeOK'
  BY <1>1 DEF TypeOK, PoolTypeOK
<1> QED
  BY <1>1, <1>2, <1>3 DEF TypeOK

(* A stop function finds that it has nothing to do, or begins. *)
LEMMA StopTestsKeepsInv ==
    ASSUME ServerInv,
           \/ StopTests("server_test", m_running, "server_clear")
           \/ StopTests("raft_test", raft_running, "raft_clear")
           \/ StopTests("pool_test", pool_running, "pool_clear")
    PROVE  ServerInv'
<1>1. TypeOK /\ StartInv /\ JoinInv /\ StopInv
  BY DEF ServerInv
<1>2. UNCHANGED <<m_connectionPools, m_fdToPeerMap, open, others, held,
                  pool_running, cleaner, pc, left, mutex, main, pending,
                  m_running, raft_running, m_epoll_fd, m_listen_fd, joinable>>
  BY DEF StopTests, AllButStack, poolVars, threadVars, flags, sockets
<1>3. ASSUME NEW place \in StopPlace, NEW running, NEW next \in StopPlace,
             StopTests(place, running, next)
      PROVE  /\ stack' \in Seq(StopPlace) /\ place \in Frames
             /\ Frames \subseteq Frames' \cup {place}
             /\ Frames' \subseteq Frames \cup {next}
             /\ IF running THEN next \in Frames' ELSE Frames' \subseteq Frames
  <2>1. CASE running
    BY <1>1, <1>3, <2>1, FrameMoves DEF StopTests
  <2>2. CASE ~running
    BY <1>1, <1>3, <2>2, FrameReturns DEF StopTests
  <2> QED
    BY <2>1, <2>2
<1>4. CASE StopTests("server_test", m_running, "server_clear")
  <2>1. /\ stack' \in Seq(StopPlace) /\ "server_test" \in Frames
        /\ Frames \subseteq Frames' \cup {"server_test"}
        /\ Frames' \subseteq Frames \cup {"server_clear"}
        /\ IF m_running THEN "server_clear" \in Frames' ELSE Frames' \subseteq Frames
    BY <1>3, <1>4 DEF StopPlace
  <2>2. TypeOK' /\ PoolInv' /\ MutexInv'
    BY <1>1, <1>2, <2>1, StopKeepsTypes DEF TypeOK, PoolTypeOK
  <2>3. StartInv'
    BY <1>1, <1>2, <2>1 DEF StartInv
  <2>4. JoinInv'
    BY <1>1, <1>2, <2>1 DEF JoinInv
  <2>5. StopInv'
    BY <1>1, <1>2, <2>1 DEF StopInv
  <2> QED
    BY <2>2, <2>3, <2>4, <2>5 DEF ServerInv
<1>5. CASE StopTests("raft_test", raft_running, "raft_clear")
  <2>1. /\ stack' \in Seq(StopPlace) /\ "raft_test" \in Frames
        /\ Frames \subseteq Frames' \cup {"raft_test"}
        /\ Frames' \subseteq Frames \cup {"raft_clear"}
        /\ IF raft_running THEN "raft_clear" \in Frames' ELSE Frames' \subseteq Frames
    BY <1>3, <1>5 DEF StopPlace
  <2>2. TypeOK' /\ PoolInv' /\ MutexInv'
    BY <1>1, <1>2, <2>1, StopKeepsTypes DEF TypeOK, PoolTypeOK
  <2>3. StartInv'
    BY <1>1, <1>2, <2>1 DEF StartInv
  <2>4. JoinInv'
    BY <1>1, <1>2, <2>1 DEF JoinInv
  <2>5. StopInv'
    BY <1>1, <1>2, <2>1 DEF StopInv
  <2> QED
    BY <2>2, <2>3, <2>4, <2>5 DEF ServerInv
<1>6. CASE StopTests("pool_test", pool_running, "pool_clear")
  <2>1. /\ stack' \in Seq(StopPlace) /\ "pool_test" \in Frames
        /\ Frames \subseteq Frames' \cup {"pool_test"}
        /\ Frames' \subseteq Frames \cup {"pool_clear"}
        /\ IF pool_running THEN "pool_clear" \in Frames' ELSE Frames' \subseteq Frames
    BY <1>3, <1>6 DEF StopPlace
  <2>2. TypeOK' /\ PoolInv' /\ MutexInv'
    BY <1>1, <1>2, <2>1, StopKeepsTypes DEF TypeOK, PoolTypeOK
  <2>3. StartInv'
    BY <1>1, <1>2, <2>1 DEF StartInv
  <2>4. JoinInv'
    BY <1>1, <1>2, <2>1 DEF JoinInv
  <2>5. StopInv'
    BY <1>1, <1>2, <2>1 DEF StopInv
  <2> QED
    BY <2>2, <2>3, <2>4, <2>5 DEF ServerInv
<1> QED
  BY <1>4, <1>5, <1>6

(* Server::stop. *)
LEMMA ServerStopKeepsInv ==
    ASSUME ServerInv, ServerClear \/ ServerClose
    PROVE  ServerInv'
<1>1. TypeOK /\ StartInv /\ JoinInv /\ StopInv
  BY DEF ServerInv
<1>2. UNCHANGED <<m_connectionPools, m_fdToPeerMap, open, others, held,
                  pool_running, cleaner, pc, left, mutex, main, pending,
                  raft_running, joinable>>
  BY DEF ServerClear, ServerClose, poolVars, threadVars, flags
<1>3. CASE ServerClear
  <2>1. /\ stack' \in Seq(StopPlace) /\ "server_clear" \in Frames
        /\ Frames \subseteq Frames' \cup {"server_clear"}
        /\ Frames' \subseteq Frames \cup {"server_close", "raft_test"}
        /\ "server_close" \in Frames' /\ "raft_test" \in Frames'
    BY <1>1, <1>3, FrameCalls DEF ServerClear, StopPlace
  <2>2. m_running' = FALSE /\ UNCHANGED <<m_epoll_fd, m_listen_fd>>
    BY <1>3 DEF ServerClear, sockets
  <2>3. TypeOK' /\ PoolInv' /\ MutexInv'
    BY <1>1, <1>2, <2>1, <2>2, StopKeepsTypes DEF TypeOK, PoolTypeOK
  <2>4. main \notin Starting
    BY <1>1, <2>1 DEF StartInv
  <2>5. StartInv'
    BY <1>1, <1>2, <2>1, <2>2, <2>4 DEF StartInv, Starting
  <2>6. JoinInv'
    BY <1>1, <1>2, <2>1 DEF JoinInv
  <2>7. StopInv'
    BY <1>1, <1>2, <2>1, <2>2 DEF StopInv
  <2> QED
    BY <2>3, <2>5, <2>6, <2>7 DEF ServerInv
<1>4. CASE ServerClose
  <2>1. /\ stack' \in Seq(StopPlace) /\ "server_close" \in Frames
        /\ Frames \subseteq Frames' \cup {"server_close"}
        /\ Frames' \subseteq Frames
    BY <1>1, <1>4, FrameReturns DEF ServerClose
  <2>2. m_running' = m_running /\ m_epoll_fd' = "none" /\ m_listen_fd' = "none"
    BY <1>4 DEF ServerClose, flags
  <2>3. TypeOK' /\ PoolInv' /\ MutexInv'
    BY <1>1, <1>2, <2>1, <2>2, StopKeepsTypes DEF TypeOK, PoolTypeOK
  <2>4. StartInv'
    BY <1>1, <1>2, <2>1, <2>2 DEF StartInv
  <2>5. JoinInv'
    BY <1>1, <1>2, <2>1 DEF JoinInv
  <2>6. StopInv'
    BY <1>1, <1>2, <2>1, <2>2 DEF StopInv
  <2> QED
    BY <2>3, <2>4, <2>5, <2>6 DEF ServerInv
<1> QED
  BY <1>3, <1>4

(* RaftNode::stop: when a thread has been joined it is gone. *)
LEMMA RaftStopKeepsInv ==
    ASSUME ServerInv, RaftClear \/ JoinElection \/ JoinHeartbeat \/ RaftReturn
    PROVE  ServerInv'
<1>1. TypeOK /\ StartInv /\ JoinInv /\ StopInv
  BY DEF ServerInv
<1>2. UNCHANGED <<m_connectionPools, m_fdToPeerMap, open, others, held,
                  pool_running, cleaner, pc, left, mutex, main, pending,
                  m_running, m_epoll_fd, m_listen_fd>>
  BY DEF RaftClear, JoinElection, JoinHeartbeat, JoinThread, RaftReturn,
         AllButStack, poolVars, threadVars, flags, sockets
<1>3. CASE RaftClear
  <2>1. /\ stack' \in Seq(StopPlace) /\ "raft_clear" \in Frames
        /\ Frames \subseteq Frames' \cup {"raft_clear"}
        /\ Frames' \subseteq Frames \cup {"raft_joinElection"}
        /\ "raft_joinElection" \in Frames'
    BY <1>1, <1>3, FrameMoves DEF RaftClear, StopPlace
  <2>2. raft_running' = FALSE /\ joinable' = joinable
    BY <1>3 DEF RaftClear
  <2>3. TypeOK' /\ PoolInv' /\ MutexInv'
    BY <1>1, <1>2, <2>1, <2>2, StopKeepsTypes DEF TypeOK, PoolTypeOK
  <2>4. main \notin Starting
    BY <1>1, <2>1 DEF StartInv
  <2>5. StartInv'
    BY <1>1, <1>2, <2>1, <2>2, <2>4 DEF StartInv, Starting
  <2>6. JoinInv'
    BY <1>1, <1>2, <2>1, <2>2 DEF JoinInv
  <2>7. StopInv'
    BY <1>1, <1>2, <2>1, <2>2 DEF StopInv
  <2> QED
    BY <2>3, <2>5, <2>6, <2>7 DEF ServerInv
<1>4. CASE JoinElection
  <2>1. /\ stack' \in Seq(StopPlace) /\ "raft_joinElection" \in Frames
        /\ Frames \subseteq Frames' \cup {"raft_joinElection"}
        /\ Frames' \subseteq Frames \cup {"raft_joinHeartbeat"}
        /\ "raft_joinHeartbeat" \in Frames'
    BY <1>1, <1>4, FrameMoves DEF JoinElection, StopPlace
  <2>2. /\ joinable' = joinable \ {"election"} /\ raft_running' = raft_running
        /\ "election" \in joinable => pc["election"] = "ended"
    BY <1>4 DEF JoinElection, JoinThread, flags
  <2>3. pc["election"] \in Gone
    BY <1>1, <2>2, CallerAssumption DEF JoinInv, Gone
  <2>4. TypeOK' /\ PoolInv' /\ MutexInv'
    BY <1>1, <1>2, <2>1, <2>2, StopKeepsTypes DEF TypeOK, PoolTypeOK
  <2>5. StartInv'
    BY <1>1, <1>2, <2>1, <2>2 DEF StartInv
  <2>6. JoinInv'
    BY <1>1, <1>2, <2>1, <2>2, <2>3 DEF JoinInv
  <2>7. StopInv'
    BY <1>1, <1>2, <2>1, <2>2 DEF StopInv
  <2> QED
    BY <2>4, <2>5, <2>6, <2>7 DEF ServerInv
<1>5. CASE JoinHeartbeat
  <2>1. /\ stack' \in Seq(StopPlace) /\ "raft_joinHeartbeat" \in Frames
        /\ Frames \subseteq Frames' \cup {"raft_joinHeartbeat"}
        /\ Frames' \subseteq Frames \cup {"raft_pool", "pool_test"}
        /\ "pool_test" \in Frames'
    BY <1>1, <1>5, FrameCalls DEF JoinHeartbeat, StopPlace
  <2>2. /\ joinable' = joinable \ {"heartbeat"} /\ raft_running' = raft_running
        /\ "heartbeat" \in joinable => pc["heartbeat"] = "ended"
    BY <1>5 DEF JoinHeartbeat, JoinThread, flags
  <2>3. \A t \in Caller : pc[t] \in Gone
    BY <1>1, <2>1, <2>2, CallerAssumption DEF JoinInv, Gone
  <2>4. TypeOK' /\ PoolInv' /\ MutexInv'
    BY <1>1, <1>2, <2>1, <2>2, StopKeepsTypes DEF TypeOK, PoolTypeOK
  <2>5. StartInv'
    BY <1>1, <1>2, <2>1, <2>2 DEF StartInv
  <2>6. JoinInv'
    BY <1>1, <1>2, <2>1, <2>2, <2>3 DEF JoinInv
  <2>7. StopInv'
    BY <1>1, <1>2, <2>1, <2>2 DEF StopInv
  <2> QED
    BY <2>4, <2>5, <2>6, <2>7 DEF ServerInv
<1>6. CASE RaftReturn
  <2>1. /\ stack' \in Seq(StopPlace) /\ "raft_pool" \in Frames
        /\ Frames \subseteq Frames' \cup {"raft_pool"}
        /\ Frames' \subseteq Frames
    BY <1>1, <1>6, FrameReturns DEF RaftReturn
  <2>2. UNCHANGED <<joinable, raft_running>>
    BY <1>6 DEF RaftReturn, AllButStack, flags
  <2>3. TypeOK' /\ PoolInv' /\ MutexInv'
    BY <1>1, <1>2, <2>1, <2>2, StopKeepsTypes DEF TypeOK, PoolTypeOK
  <2>4. StartInv'
    BY <1>1, <1>2, <2>1, <2>2 DEF StartInv
  <2>5. JoinInv'
    BY <1>1, <1>2, <2>1, <2>2 DEF JoinInv
  <2>6. StopInv'
    BY <1>1, <1>2, <2>1, <2>2 DEF StopInv
  <2> QED
    BY <2>3, <2>4, <2>5, <2>6 DEF ServerInv
<1> QED
  BY <1>3, <1>4, <1>5, <1>6

(* A raft thread that is gone has no connection. *)
LEMMA GoneHoldsNothing ==
    ASSUME ServerInv, NEW t \in Caller, pc[t] \in Gone
    PROVE  held[t] = None
BY DEF ServerInv, MutexInv, Gone

(* RaftConnectionPool::stop, which nobody uses any more by then. *)
LEMMA PoolStopKeepsInv ==
    ASSUME ServerInv, PoolClear \/ JoinCleaner \/ PoolClose
    PROVE  ServerInv'
<1>1. TypeOK /\ MutexInv /\ PoolInv /\ StartInv /\ JoinInv /\ StopInv
  BY DEF ServerInv
<1>2. UNCHANGED <<held, cleaner, others, pc, left, mutex, main, pending,
                  m_running, raft_running, m_epoll_fd, m_listen_fd>>
  BY DEF PoolClear, JoinCleaner, JoinThread, PoolClose, closeAll,
         poolVars, threadVars, flags, sockets
<1>3. CASE PoolClear
  <2>1. /\ stack' \in Seq(StopPlace) /\ "pool_clear" \in Frames
        /\ Frames \subseteq Frames' \cup {"pool_clear"}
        /\ Frames' \subseteq Frames \cup {"pool_join"}
        /\ "pool_join" \in Frames'
    BY <1>1, <1>3, FrameMoves DEF PoolClear, StopPlace
  <2>2. /\ pool_running' = FALSE
        /\ UNCHANGED <<m_connectionPools, m_fdToPeerMap, open, joinable>>
    BY <1>3 DEF PoolClear
  <2>3. TypeOK' /\ PoolInv' /\ MutexInv'
    BY <1>1, <1>2, <2>1, <2>2, StopKeepsTypes DEF TypeOK
  <2>4. main \notin Starting /\ \A t \in Caller : pc[t] \in Gone
    BY <1>1, <2>1 DEF StartInv, JoinInv
  <2>5. StartInv'
    BY <1>1, <1>2, <2>1, <2>2, <2>4 DEF StartInv, Starting
  <2>6. JoinInv'
    BY <1>1, <1>2, <2>1, <2>2, <2>4 DEF JoinInv
  <2>7. StopInv'
    BY <1>1, <1>2, <2>1, <2>2 DEF StopInv
  <2> QED
    BY <2>3, <2>5, <2>6, <2>7 DEF ServerInv
<1>4. CASE JoinCleaner
  <2>1. /\ stack' \in Seq(StopPlace) /\ "pool_join" \in Frames
        /\ Frames \subseteq Frames' \cup {"pool_join"}
        /\ Frames' \subseteq Frames \cup {"pool_close"}
        /\ "pool_close" \in Frames'
    BY <1>1, <1>4, FrameMoves DEF JoinCleaner, StopPlace
  <2>2. /\ joinable' = joinable \ {"cleaner"}
        /\ UNCHANGED <<m_connectionPools, m_fdToPeerMap, open, pool_running>>
        /\ "cleaner" \in joinable => cleaner = "ended"
    BY <1>4 DEF JoinCleaner, JoinThread, poolVars
  <2>3. cleaner \in Gone /\ main \notin Starting /\ \A t \in Caller : pc[t] \in Gone
    BY <1>1, <2>1, <2>2 DEF JoinInv, StartInv, Gone
  <2>4. TypeOK' /\ PoolInv' /\ MutexInv'
    BY <1>1, <1>2, <2>1, <2>2, StopKeepsTypes DEF TypeOK, PoolTypeOK
  <2>5. StartInv'
    BY <1>1, <1>2, <2>1, <2>2, <2>3 DEF StartInv, Starting
  <2>6. JoinInv'
    BY <1>1, <1>2, <2>1, <2>2, <2>3 DEF JoinInv
  <2>7. StopInv'
    BY <1>1, <1>2, <2>1, <2>2 DEF StopInv
  <2> QED
    BY <2>4, <2>5, <2>6, <2>7 DEF ServerInv
<1>5. CASE PoolClose
  <2>1. /\ stack' \in Seq(StopPlace) /\ "pool_close" \in Frames
        /\ Frames \subseteq Frames' \cup {"pool_close"}
        /\ Frames' \subseteq Frames
    BY <1>1, <1>5, FrameReturns DEF PoolClose
  <2>2. joinable' = joinable /\ pool_running' = pool_running /\ closeAll
    BY <1>5 DEF PoolClose, closeAll
  <2>3. \A t \in Caller : pc[t] \in Gone
    BY <1>1, <2>1 DEF JoinInv
  <2>4. PoolInv' /\ \A fd \in Fd : open'[fd] \notin Peer
    BY <1>1, <2>2, <2>3, GoneHoldsNothing, CloseAllKeepsPool
  <2>5. MutexInv'
    BY <1>1, <1>2 DEF MutexInv
  <2>6. PoolTypeOK'
    <3>1. pool_running' \in BOOLEAN /\ cleaner' \in {"none", "test", "wait", "ended"}
      BY <1>1, <1>2, <2>2 DEF TypeOK, PoolTypeOK
    <3> QED
      BY <2>4, <3>1, PoolTypesNext
  <2>7. TypeOK'
    BY <1>1, <1>2, <2>1, <2>2, <2>6 DEF TypeOK
  <2>8. StartInv'
    BY <1>1, <1>2, <2>1, <2>2 DEF StartInv
  <2>9. JoinInv'
    BY <1>1, <1>2, <2>1, <2>2 DEF JoinInv
  <2>10. StopInv'
    BY <1>1, <1>2, <2>1, <2>2, <2>4 DEF StopInv
  <2> QED
    BY <2>4, <2>5, <2>7, <2>8, <2>9, <2>10 DEF ServerInv
<1> QED
  BY <1>3, <1>4, <1>5

-----------------------------------------------------------------------------
(* The threads *)

(***************************************************************************)
(* A step of the threads: they begin nothing, and end nothing that is      *)
(* still in use.  Raft thread t was running and stays one of the places    *)
(* of a thread.                                                            *)
(***************************************************************************)
LEMMA ThreadKeepsControl ==
    ASSUME ServerInv, NEW t \in Caller, pc[t] \notin Gone,
           NEW place \in {"test", "lock", "pass", "call", "wait", "ended"},
           pc' = [pc EXCEPT ![t] = place],
           UNCHANGED <<pool_running, cleaner>>, UNCHANGED mainVars
    PROVE  /\ StartInv' /\ JoinInv' /\ StopInv'
           /\ pc' \in [Caller -> {"none", "test", "lock", "pass", "call", "wait", "ended"}]
           /\ pc'[t] = place /\ \A c \in Caller : c # t => pc'[c] = pc[c]
<1>1. TypeOK /\ StartInv /\ JoinInv /\ StopInv
  BY DEF ServerInv
<1>2. UNCHANGED <<main, stack, m_running, raft_running, m_epoll_fd, m_listen_fd,
                  joinable, pool_running, cleaner>>
  BY DEF mainVars, flags, sockets
<1>3. Frames' = Frames
  BY <1>2 DEF Frames
<1>4. /\ pc' \in [Caller -> {"none", "test", "lock", "pass", "call", "wait", "ended"}]
      /\ pc'[t] = place /\ \A c \in Caller : c # t => pc'[c] = pc[c]
  BY <1>1 DEF TypeOK
<1>5. t \in joinable /\ pool_running /\ pc[t] # "none"
  BY <1>1 DEF JoinInv, Gone
<1>6. StartInv'
  BY <1>1, <1>2, <1>3, <1>4, <1>5, CallerAssumption DEF StartInv, Starting
<1>7. JoinInv'
  BY <1>1, <1>2, <1>3, <1>4, <1>5, CallerAssumption DEF JoinInv
<1>8. StopInv'
  BY <1>1, <1>2, <1>3, <1>5 DEF StopInv
<1> QED
  BY <1>4, <1>6, <1>7, <1>8

(* What a step of a raft thread keeps when the pool stays in order. *)
LEMMA ThreadKeepsTypes ==
    ASSUME ServerInv, PoolInv', UNCHANGED <<pool_running, cleaner>>,
           UNCHANGED mainVars,
           pc' \in [Caller -> {"none", "test", "lock", "pass", "call", "wait", "ended"}],
           left' \in [Caller -> SUBSET Peer], mutex' \in Caller \cup {None}
    PROVE  TypeOK'
<1>1. TypeOK
  BY DEF ServerInv
<1>2. PoolTypeOK'
  BY <1>1, PoolTypesNext DEF TypeOK, PoolTypeOK
<1> QED
  BY <1>1, <1>2 DEF TypeOK, mainVars, flags, sockets

(* The steps of a pass that use no connection. *)
LEMMA LoopKeepsInv ==
    ASSUME ServerInv, NEW t \in Caller,
           LoopTests(t) \/ Lock(t) \/ EndPass(t) \/ WaitReturns(t)
    PROVE  ServerInv'
<1>1. TypeOK /\ MutexInv /\ PoolInv
  BY DEF ServerInv
<1>2. /\ UNCHANGED poolVars /\ UNCHANGED mainVars
      /\ UNCHANGED <<m_connectionPools, m_fdToPeerMap, open, others, held,
                     pool_running, cleaner>>
  BY DEF LoopTests, Lock, EndPass, WaitReturns, poolVars
<1>3. PoolInv'
  BY <1>1, <1>2 DEF PoolInv
<1>4. left' \in [Caller -> SUBSET Peer] /\ mutex' \in Caller \cup {None}
  BY <1>1 DEF LoopTests, Lock, EndPass, WaitReturns, TypeOK
<1>5. \/ /\ pc[t] \in {"test", "wait"} /\ mutex' = mutex
         /\ \E place \in {"test", "lock", "ended"} : pc' = [pc EXCEPT ![t] = place]
      \/ /\ pc[t] = "lock" /\ mutex = None /\ mutex' = t
         /\ pc' = [pc EXCEPT ![t] = "pass"]
      \/ /\ pc[t] = "pass" /\ mutex' = None
         /\ \E place \in {"test", "wait"} : pc' = [pc EXCEPT ![t] = place]
  BY DEF LoopTests, Lock, EndPass, WaitReturns
<1>6. PICK place \in {"test", "lock", "pass", "wait", "ended"} :
         pc' = [pc EXCEPT ![t] = place]
  BY <1>5
<1>7. pc[t] \notin Gone
  BY <1>5 DEF Gone
<1>8. /\ StartInv' /\ JoinInv' /\ StopInv'
      /\ pc' \in [Caller -> {"none", "test", "lock", "pass", "call", "wait", "ended"}]
      /\ pc'[t] = place /\ \A c \in Caller : c # t => pc'[c] = pc[c]
  BY <1>2, <1>6, <1>7, ThreadKeepsControl
<1>9. TypeOK'
  BY <1>2, <1>3, <1>4, <1>8, ThreadKeepsTypes
<1>10. MutexInv'
  <2>1. None # t /\ \A c \in Caller : None # c
    BY PoolAssumption
  <2>2. CASE pc[t] \in {"test", "wait"} /\ mutex' = mutex /\ pc'[t] \in {"test", "lock", "ended"}
    BY <1>1, <1>2, <1>8, <2>2 DEF MutexInv
  <2>3. CASE pc[t] = "lock" /\ mutex = None /\ mutex' = t /\ pc'[t] = "pass"
    BY <1>1, <1>2, <1>8, <2>1, <2>3 DEF MutexInv
  <2>4. CASE pc[t] = "pass" /\ mutex' = None /\ pc'[t] \in {"test", "wait"}
    BY <1>1, <1>2, <1>8, <2>1, <2>4 DEF MutexInv
  <2> QED
    BY <1>1, <1>5, <2>2, <2>3, <2>4 DEF TypeOK
<1> QED
  BY <1>3, <1>8, <1>9, <1>10 DEF ServerInv

(* A call takes a connection and gives it back, with m_mutex held. *)
LEMMA CallKeepsInv ==
    ASSUME ServerInv, NEW t \in Caller, CallPeer(t) \/ EndCall(t)
    PROVE  ServerInv'
<1>1. TypeOK /\ MutexInv /\ PoolInv /\ StopInv /\ JoinInv
  BY DEF ServerInv
<1>2. UNCHANGED mainVars /\ mutex' = mutex /\ pc[t] \in {"pass", "call"}
  BY DEF CallPeer, EndCall
<1>3. mutex = t /\ \A c \in Caller : c # t => pc[c] \notin {"pass", "call"} /\ held[c] = None
  BY <1>1, <1>2 DEF MutexInv
<1>4. /\ PoolInv' /\ UNCHANGED <<pool_running, cleaner>>
      /\ \A c \in Caller : c # t => held'[c] = None
      /\ left' \in [Caller -> SUBSET Peer]
      /\ pc' = [pc EXCEPT ![t] = IF held'[t] = None THEN "pass" ELSE "call"]
  <2>1. CASE CallPeer(t)
    <3>1. PICK p \in left[t] : /\ getConnection(t, p)
                               /\ left' = [left EXCEPT ![t] = @ \ {p}]
      BY <2>1 DEF CallPeer
    <3>2. p \in Peer /\ left' \in [Caller -> SUBSET Peer]
      BY <1>1, <3>1 DEF TypeOK
    <3>3. \A c \in Caller : held[c] = None
      BY <1>1, <1>3, <2>1 DEF CallPeer, MutexInv
    <3>4. /\ PoolInv' /\ UNCHANGED <<pool_running, cleaner>>
          /\ \A c \in Caller : c # t => held'[c] = None
      BY <1>1, <3>1, <3>2, <3>3, GetKeepsPool
    <3> QED
      BY <2>1, <3>2, <3>4 DEF CallPeer
  <2>2. CASE EndCall(t)
    <3>1. held[t] # None /\ releaseConnection(t)
      BY <1>1, <2>2 DEF EndCall, MutexInv
    <3>2. /\ PoolInv' /\ UNCHANGED <<pool_running, cleaner>>
          /\ \A c \in Caller : held'[c] = None
      BY <1>1, <1>3, <3>1, ReleaseKeepsPool
    <3> QED
      BY <1>1, <2>2, <3>2 DEF EndCall, TypeOK
  <2> QED
    BY <2>1, <2>2
<1>5. PICK place \in {"pass", "call"} :
         /\ pc' = [pc EXCEPT ![t] = place]
         /\ place = IF held'[t] = None THEN "pass" ELSE "call"
  BY <1>4
<1>6. pc[t] \notin Gone
  BY <1>2 DEF Gone
<1>7. /\ StartInv' /\ JoinInv' /\ StopInv'
      /\ pc' \in [Caller -> {"none", "test", "lock", "pass", "call", "wait", "ended"}]
      /\ pc'[t] = place /\ \A c \in Caller : c # t => pc'[c] = pc[c]
  BY <1>2, <1>4, <1>5, <1>6, ThreadKeepsControl
<1>8. TypeOK'
  BY <1>1, <1>2, <1>4, <1>7, ThreadKeepsTypes DEF TypeOK
<1>9. MutexInv'
  BY <1>2, <1>3, <1>4, <1>5, <1>7 DEF MutexInv
<1> QED
  BY <1>4, <1>7, <1>8, <1>9 DEF ServerInv

(* The clean-up thread, and descriptors of the rest of the process. *)
LEMMA OthersKeepInv ==
    ASSUME ServerInv, Cleaner \/ RestOfProcess
    PROVE  ServerInv'
<1>1. TypeOK /\ MutexInv /\ PoolInv /\ StartInv /\ JoinInv /\ StopInv
  BY DEF ServerInv
<1>2. UNCHANGED mainVars /\ UNCHANGED <<pc, left, mutex>>
  BY DEF Cleaner, RestOfProcess, threadVars
<1>3. UNCHANGED <<main, stack, m_running, raft_running, m_epoll_fd, m_listen_fd,
                  joinable>>
  BY <1>2 DEF mainVars, flags, sockets
<1>4. Frames' = Frames
  BY <1>3 DEF Frames
<1>5. /\ PoolInv' /\ UNCHANGED <<pool_running, held>>
      /\ \/ cleaner' = cleaner
         \/ cleaner \in {"test", "wait"} /\ cleaner' \in {"test", "wait", "ended"}
      /\ (\E fd \in Fd : open'[fd] \in Peer) => \E fd \in Fd : open[fd] \in Peer
  <2>1. CASE Cleaner
    BY <1>1, <2>1, CleanerKeepsPool DEF Cleaner
  <2>2. CASE RestOfProcess
    BY <1>1, <2>2, OthersKeepPool DEF RestOfProcess
  <2> QED
    BY <2>1, <2>2
<1>6. TypeOK'
  <2>1. PoolTypeOK'
    BY <1>1, <1>5, PoolTypesNext DEF TypeOK, PoolTypeOK
  <2> QED
    BY <1>1, <1>2, <2>1 DEF TypeOK, mainVars, flags, sockets
<1>7. MutexInv'
  BY <1>1, <1>2, <1>5 DEF MutexInv
<1>8. StartInv'
  BY <1>1, <1>2, <1>3, <1>4, <1>5 DEF StartInv
<1>9. JoinInv'
  BY <1>1, <1>2, <1>3, <1>4, <1>5 DEF JoinInv, Gone
<1>10. StopInv'
  BY <1>1, <1>3, <1>4, <1>5 DEF StopInv
<1> QED
  BY <1>5, <1>6, <1>7, <1>8, <1>9, <1>10 DEF ServerInv

-----------------------------------------------------------------------------
(* The theorems *)

(***************************************************************************)
(* The invariant of the process: m_mutex, the pool, the order of start and *)
(* what the stop functions on the stack still have to do.                  *)
(***************************************************************************)
LEMMA ServerInvariant == Spec => []ServerInv
<1>1. ASSUME ServerInv, [Next]_vars
      PROVE  ServerInv'
  <2>1. CASE MainStep
    BY <1>1, <2>1, StartKeepsInv, SpawnKeepsInv, MainKeepsInv, StopTestsKeepsInv,
       ServerStopKeepsInv, RaftStopKeepsInv, PoolStopKeepsInv DEF MainStep, Stopping
  <2>2. CASE HandleSignal
    BY <1>1, <2>2, SignalKeepsInv
  <2>3. ASSUME NEW t \in Caller, RaftThread(t)
        PROVE  ServerInv'
    BY <1>1, <2>3, LoopKeepsInv, CallKeepsInv DEF RaftThread
  <2>4. CASE Cleaner \/ RestOfProcess
    BY <1>1, <2>4, OthersKeepInv
  <2>5. CASE UNCHANGED vars
    <3>1. UNCHANGED <<m_connectionPools, m_fdToPeerMap, pool_running, cleaner, open,
                      others, held, pc, left, mutex, main, stack, pending, m_running,
                      raft_running, m_epoll_fd, m_listen_fd, joinable>>
      BY <2>5 DEF vars, poolVars, threadVars, mainVars, flags, sockets
    <3>2. TypeOK /\ StartInv /\ JoinInv /\ StopInv
      BY <1>1 DEF ServerInv
    <3>3. TypeOK' /\ PoolInv' /\ MutexInv'
      BY <1>1, <3>1, <3>2, StopKeepsTypes DEF TypeOK, PoolTypeOK
    <3>4. Frames' = Frames
      BY <3>1 DEF Frames
    <3>5. StartInv' /\ JoinInv' /\ StopInv'
      BY <3>1, <3>2, <3>4 DEF StartInv, JoinInv, StopInv
    <3> QED
      BY <3>3, <3>5 DEF ServerInv
  <2> QED
    BY <1>1, <2>1, <2>2, <2>3, <2>4, <2>5 DEF Next
<1>2. Init => ServerInv
  BY ServerInvInit
<1> QED
  BY <1>1, <1>2, PTL DEF Spec

(* The variables of Server and of the connection pool keep their types. *)
THEOREM ServerTypeCorrect == Spec => []TypeOK
<1>1. ServerInv => TypeOK
  BY DEF ServerInv
<1> QED
  BY <1>1, ServerInvariant, PTL

(***************************************************************************)
(* When the process ends no thread is left and no connection open: with an *)
(* empty stack nothing that must still be stopped is running.              *)
(***************************************************************************)
THEOREM ProcessEndsCleanly == Spec => []CleanEnd
<1>1. ServerInv => CleanEnd
  <2> SUFFICES ASSUME ServerInv, main \in {"destroyPool", "hung", "gone"},
                      stack = << >>
               PROVE  /\ joinable = {}
                      /\ \A t \in Caller : pc[t] \in {"none", "ended"}
                      /\ cleaner \in {"none", "ended"}
                      /\ \A fd \in Fd : open[fd] \notin Peer
                      /\ cleaner = "ended" => m_epoll_fd = "none" /\ m_listen_fd = "none"
    BY DEF CleanEnd
  <2>1. TypeOK /\ StartInv /\ JoinInv /\ StopInv
    BY DEF ServerInv
  <2>2. Frames = {}
    BY NoFrames DEF Frames
  <2>3. main \notin Starting /\ ~m_running
    BY <2>1 DEF StartInv, Starting, Ending
  <2>4. ~raft_running
    BY <2>1, <2>2, <2>3 DEF StopInv
  <2>5. ~pool_running
    BY <2>1, <2>2, <2>4 DEF StopInv
  <2>6. joinable = {}
    BY <2>1, <2>2, <2>4, <2>5 DEF StopInv, TypeOK, Thread
  <2>7. (\A t \in Caller : pc[t] \in Gone) /\ cleaner \in Gone
    BY <2>1, <2>6 DEF JoinInv
  <2>8. \A fd \in Fd : open[fd] \notin Peer
    BY <2>1, <2>2, <2>5 DEF StopInv
  <2>9. cleaner = "ended" => m_epoll_fd = "none" /\ m_listen_fd = "none"
    BY <2>1, <2>2, <2>3 DEF StopInv
  <2> QED
    BY <2>6, <2>7, <2>8, <2>9 DEF Gone
<1> QED
  BY <1>1, ServerInvariant, PTL

(* At most one raft thread has a connection, since it holds m_mutex. *)
LEMMA OneHolder ==
    ASSUME ServerInv, NEW c \in Caller, NEW d \in Caller,
           held[c] # None, held[d] # None
    PROVE  c = d
BY DEF ServerInv, MutexInv

(* The queue entries that name a descriptor. *)
InQueues(fd) ==
    {place \in Peer \X (1..Cardinality(Fd)) :
        LET queue == m_connectionPools[place[1]] IN
        place[2] <= Len(queue) /\ queue[place[2]] = fd}

(* The callers that have it. *)
InHands(fd) ==
    {<<held[c][1], c>> : c \in {d \in Caller : held[d] # None /\ held[d][2] = fd}}

(* A queue entry is the first of the queue of the peer it leads to. *)
LEMMA QueueClaims ==
    ASSUME PoolInv, NEW fd \in Fd
    PROVE  InQueues(fd) =
             {place \in {<<open[fd], 1>>} : /\ open[fd] \in Peer
                                            /\ m_connectionPools[open[fd]] # << >>
                                            /\ m_connectionPools[open[fd]][1] = fd}
<1>1. PoolOk(m_connectionPools, m_fdToPeerMap, open, others, held)
  BY DEF PoolInv
<1>2. 1 \in 1..Cardinality(Fd)
  <2>1. IsFiniteSet(Fd) /\ Fd # {}
    BY PoolAssumption
  <2>2. Cardinality(Fd) \in Nat /\ Cardinality(Fd) # 0
    BY <2>1, FS_CardinalityType, FS_EmptySet
  <2> QED
    BY <2>2
<1>3. ASSUME NEW q \in Peer, NEW k \in 1..Cardinality(Fd),
             k <= Len(m_connectionPools[q]), m_connectionPools[q][k] = fd
      PROVE  k = 1 /\ m_connectionPools[q] # << >> /\ open[fd] = q
  <2>1. Cardinality(Fd) \in Nat
    BY PoolAssumption, FS_CardinalityType
  <2>2. m_connectionPools[q] = << >> \/ Len(m_connectionPools[q]) = 1
    BY <1>1 DEF PoolOk
  <2>3. Len(m_connectionPools[q]) = 1
    <3>1. m_connectionPools[q] = << >> => Len(m_connectionPools[q]) = 0
      OBVIOUS
    <3>2. ~(k <= 0)
      BY <2>1
    <3> QED
      BY <1>3, <2>2, <3>1, <3>2
  <2>4. k = 1
    BY <1>3, <2>1, <2>3
  <2>5. m_connectionPools[q] # << >>
    BY <1>1, <2>3, QueueOfOne DEF PoolOk
  <2> QED
    BY <1>1, <1>3, <2>4, <2>5 DEF PoolOk
<1>4. ASSUME NEW q \in Peer, m_connectionPools[q] # << >>
      PROVE  1 <= Len(m_connectionPools[q])
  BY <1>1, <1>4 DEF PoolOk
<1>5. ASSUME NEW place \in InQueues(fd)
      PROVE  /\ place = <<open[fd], 1>> /\ open[fd] \in Peer
             /\ m_connectionPools[open[fd]] # << >>
             /\ m_connectionPools[open[fd]][1] = fd
  <2>1. PICK q \in Peer, k \in 1..Cardinality(Fd) : place = <<q, k>>
    BY DEF InQueues
  <2>2. k <= Len(m_connectionPools[q]) /\ m_connectionPools[q][k] = fd
    BY <2>1 DEF InQueues
  <2> QED
    BY <1>3, <2>1, <2>2
<1>6. ASSUME open[fd] \in Peer, m_connectionPools[open[fd]] # << >>,
             m_connectionPools[open[fd]][1] = fd
      PROVE  <<open[fd], 1>> \in InQueues(fd)
  <2>1. <<open[fd], 1>> \in Peer \X (1..Cardinality(Fd))
    BY <1>2, <1>6
  <2> QED
    BY <1>4, <1>6, <2>1 DEF InQueues
<1> QED
  BY <1>5, <1>6

(* What a caller has leads to the peer it asked for. *)
LEMMA HandClaims ==
    ASSUME PoolInv, NEW fd \in Fd, NEW c \in Caller, held[c] # None, held[c][2] = fd
    PROVE  /\ held[c] = <<open[fd], fd>> /\ open[fd] \in Peer
           /\ m_connectionPools[open[fd]] = << >>
BY DEF PoolInv, PoolOk

(***************************************************************************)
(* Every connection of the pool is in one place, and nothing else is.      *)
(***************************************************************************)
THEOREM PoolOwnsItsDescriptors == Spec => []DescriptorsOwned
<1>1. ServerInv => DescriptorsOwned
  <2> SUFFICES ASSUME ServerInv
               PROVE  DescriptorsOwned
    OBVIOUS
  <2>1. PoolInv /\ PoolOk(m_connectionPools, m_fdToPeerMap, open, others, held)
    BY DEF ServerInv, PoolInv
  <2>2. \A fd : Claims(fd) = InQueues(fd) \cup InHands(fd)
    BY DEF Claims, InQueues, InHands
  <2>3. ASSUME NEW fd \in Fd, open[fd] \notin Peer
        PROVE  Claims(fd) = {} /\ m_fdToPeerMap[fd] = None
    <3>1. InQueues(fd) = {}
      BY <2>1, <2>3, QueueClaims
    <3>2. InHands(fd) = {}
      BY <2>1, <2>3, HandClaims DEF InHands
    <3>3. m_fdToPeerMap[fd] = None
      BY <2>1, <2>3 DEF PoolOk
    <3> QED
      BY <2>2, <3>1, <3>2, <3>3
  <2>4. ASSUME NEW fd \in Fd, open[fd] \in Peer
        PROVE  /\ Cardinality(Claims(fd)) = 1
               /\ \A claim \in Claims(fd) : claim[1] = open[fd]
               /\ m_fdToPeerMap[fd] = open[fd]
    <3>1. PICK w : Claims(fd) = {<<open[fd], w>>}
      <4>1. CASE m_connectionPools[open[fd]] # << >> /\ m_connectionPools[open[fd]][1] = fd
        <5>1. InQueues(fd) = {<<open[fd], 1>>}
          BY <2>1, <2>4, <4>1, QueueClaims
        <5>2. InHands(fd) = {}
          BY <2>1, <4>1, HandClaims DEF InHands
        <5> QED
          BY <2>2, <5>1, <5>2
      <4>2. ASSUME NEW c \in Caller, held[c] = <<open[fd], fd>>
            PROVE  \E w : Claims(fd) = {<<open[fd], w>>}
        <5>1. <<open[fd], fd>> \in Peer \X Fd
          BY <2>4
        <5>2. held[c] # None /\ held[c][1] = open[fd] /\ held[c][2] = fd
          BY <4>2, <5>1, PoolAssumption
        <5>3. InQueues(fd) = {}
          BY <2>1, <5>2, HandClaims, QueueClaims
        <5>4. {d \in Caller : held[d] # None /\ held[d][2] = fd} = {c}
          BY <5>2, OneHolder
        <5>5. InHands(fd) = {<<open[fd], c>>}
          BY <5>2, <5>4 DEF InHands
        <5> QED
          BY <2>2, <5>3, <5>5
      <4> QED
        BY <2>1, <2>4, <4>1, <4>2 DEF PoolOk
    <3>2. Cardinality(Claims(fd)) = 1
      BY <3>1, FS_Singleton
    <3>3. m_fdToPeerMap[fd] = open[fd]
      BY <2>1, <2>4 DEF PoolOk
    <3> QED
      BY <3>1, <3>2, <3>3
  <2>5. others = {fd \in Fd : open[fd] = "other"}
    BY <2>1 DEF PoolOk
  <2> QED
    BY <2>3, <2>4, <2>5 DEF DescriptorsOwned
<1> QED
  BY <1>1, ServerInvariant, PTL

(***************************************************************************)
(* There is one connection to a peer at most: the one in its queue, or     *)
(* else the one that the holder of m_mutex has.                            *)
(***************************************************************************)
THEOREM PeersHaveOneConnection == Spec => []OneConnectionPerPeer
<1>1. ServerInv => OneConnectionPerPeer
  <2> SUFFICES ASSUME ServerInv, NEW p \in Peer
               PROVE  Cardinality({fd \in Fd : open[fd] = p}) <= 1
    BY DEF OneConnectionPerPeer
  <2>1. PoolOk(m_connectionPools, m_fdToPeerMap, open, others, held)
    BY DEF ServerInv, PoolInv
  <2>2. PICK S : S = {fd \in Fd : open[fd] = p}
    OBVIOUS
  <2>3. ASSUME NEW a \in S
        PROVE  \/ m_connectionPools[p] # << >> /\ m_connectionPools[p][1] = a
               \/ \E c \in Caller : /\ held[c] = <<p, a>> /\ held[c] # None
                                    /\ m_connectionPools[p] = << >>
    <3>1. a \in Fd /\ open[a] = p
      BY <2>2
    <3>2. <<p, a>> # None
      <4>1. <<p, a>> \in Peer \X Fd
        BY <3>1
      <4> QED
        BY <4>1, PoolAssumption
    <3>3. \A c \in Caller : held[c] = <<p, a>> =>
             held[c] # None /\ held[c][1] = p /\ m_connectionPools[held[c][1]] = << >>
      <4>1. ASSUME NEW c \in Caller, held[c] = <<p, a>>
            PROVE  held[c] # None /\ held[c][1] = p
        BY <3>2, <4>1
      <4>2. \A c \in Caller : held[c] # None => m_connectionPools[held[c][1]] = << >>
        BY <2>1 DEF PoolOk
      <4> QED
        BY <4>1, <4>2
    <3>4. \/ m_connectionPools[p] # << >> /\ m_connectionPools[p][1] = a
          \/ \E c \in Caller : held[c] = <<p, a>>
      BY <2>1, <3>1 DEF PoolOk
    <3> QED
      BY <3>3, <3>4
  <2>4. ASSUME NEW a \in S, NEW b \in S
        PROVE  a = b
    <3>1. CASE m_connectionPools[p] # << >>
      BY <2>3, <3>1
    <3>2. CASE m_connectionPools[p] = << >>
      <4>1. PICK c \in Caller : held[c] = <<p, a>> /\ held[c] # None
        BY <2>3, <3>2
      <4>2. PICK d \in Caller : held[d] = <<p, b>> /\ held[d] # None
        BY <2>3, <3>2
      <4>3. c = d
        BY <4>1, <4>2, OneHolder
      <4> QED
        BY <4>1, <4>2, <4>3
    <3> QED
      BY <3>1, <3>2
  <2>5. S = {} \/ \E a : S = {a}
    BY <2>4
  <2>6. Cardinality(S) = 0 \/ Cardinality(S) = 1
    BY <2>5, FS_EmptySet, FS_Singleton
  <2> QED
    BY <2>2, <2>6
<1> QED
  BY <1>1, ServerInvariant, PTL

=============================================================================
