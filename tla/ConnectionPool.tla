--------------------------- MODULE ConnectionPool ---------------------------
(***************************************************************************)
(* RaftConnectionPool: the idle connections of one server to its peers.    *)
(* Every operation runs under the pool's m_mutex from its first to its     *)
(* last access to the maps and is one step.  What matters here is who owns *)
(* which descriptor; what is sent over a connection is in RaftNode.        *)
(*                                                                         *)
(* Descriptor numbers are reused by the operating system as soon as they   *)
(* are closed, by the pool as well as by the rest of the process.  Whether *)
(* isConnectionValid finds a connection alive, and whether it has been     *)
(* idle for longer than CONNECTION_TIMEOUT, is open at every test.         *)
(***************************************************************************)
EXTENDS Naturals, Sequences, FiniteSets

CONSTANTS
    Peer,       \* the other servers
    Caller,     \* the threads that use the pool
    Fd,         \* descriptor numbers
    None,       \* no peer, no descriptor
    MAX_CONNECTIONS_PER_PEER

ASSUME PoolAssumption ==
    /\ IsFiniteSet(Fd)
    /\ None \notin Peer /\ None \notin Fd /\ None \notin Peer \X Fd
    /\ None \notin Caller /\ None # "other"
    /\ "other" \notin Peer
    /\ MAX_CONNECTIONS_PER_PEER \in Nat \ {0}

(***************************************************************************)
(*   open    the process's descriptor table: None for a number that is     *)
(*           free, the peer a socket is connected to, or "other"           *)
(*   others  the numbers that the rest of the process has opened and not   *)
(*           closed (accepted clients, forwards)                           *)
(*   held    what each caller got from getConnection and has not released: *)
(*           a pair of peer and descriptor, or None                        *)
(*   cleaner where cleanupLoop is: "none" before start, "test" at the loop *)
(*           condition, "wait" in wait_for, "ended"                        *)
(***************************************************************************)
VARIABLES m_connectionPools, m_fdToPeerMap, pool_running, cleaner,
          open, others, held

poolVars == <<m_connectionPools, m_fdToPeerMap, pool_running, cleaner,
              open, others, held>>

PoolTypeOK ==
    /\ m_connectionPools \in [Peer -> Seq(Fd)]
    /\ m_fdToPeerMap \in [Fd -> Peer \cup {None}]
    /\ pool_running \in BOOLEAN
    /\ cleaner \in {"none", "test", "wait", "ended"}
    /\ open \in [Fd -> Peer \cup {None, "other"}]
    /\ others \subseteq Fd
    /\ held \in [Caller -> (Peer \X Fd) \cup {None}]

PoolInit ==
    /\ m_connectionPools = [p \in Peer |-> << >>]
    /\ m_fdToPeerMap = [fd \in Fd |-> None]
    /\ pool_running = FALSE
    /\ cleaner = "none"
    /\ open = [fd \in Fd |-> None]
    /\ others = {}
    /\ held = [c \in Caller |-> None]

-----------------------------------------------------------------------------
(* A function on descriptors with the ones in S closed or forgotten. *)
Without(f, S) == [fd \in Fd |-> IF fd \in S THEN None ELSE f[fd]]

QueuedFor(p) == {m_connectionPools[p][k] : k \in 1..Len(m_connectionPools[p])}
Queued == UNION {QueuedFor(p) : p \in Peer}

(* Mutant: the result -1 is taken for a descriptor. *)
createConnection_Unchecked(c, p, table, map) ==
    \/ \E fd \in {f \in Fd : table[f] = None} :
         /\ open' = [table EXCEPT ![fd] = p]
         /\ m_fdToPeerMap' = [map EXCEPT ![fd] = p]
         /\ held' = [held EXCEPT ![c] = <<p, fd>>]
    \/ /\ open' = table
       /\ m_fdToPeerMap' = map
       /\ held' = [held EXCEPT ![c] = <<p, None>>]

(***************************************************************************)
(* createConnection gets a free number and connects, or fails and closes   *)
(* what it has opened.  table and map are those after a dead connection    *)
(* was removed.                                                            *)
(***************************************************************************)
createConnection(c, p, table, map) ==
    \/ \E fd \in {f \in Fd : table[f] = None} :
         /\ open' = [table EXCEPT ![fd] = p]
         /\ m_fdToPeerMap' = [map EXCEPT ![fd] = p]
         /\ held' = [held EXCEPT ![c] = <<p, fd>>]
    \/ /\ open' = table
       /\ m_fdToPeerMap' = map
       /\ UNCHANGED held

(* getConnection with a live connection at the front of the queue. *)
getReused(c, p) ==
    /\ m_connectionPools[p] # << >>
    /\ held' = [held EXCEPT ![c] = <<p, Head(m_connectionPools[p])>>]
    /\ m_connectionPools' = [m_connectionPools EXCEPT ![p] = Tail(@)]
    /\ UNCHANGED <<m_fdToPeerMap, pool_running, cleaner, open, others>>

(* getConnection with a dead one, of which only the first is removed. *)
getReplaced(c, p) ==
    /\ m_connectionPools[p] # << >>
    /\ LET dead == {Head(m_connectionPools[p])} IN
         createConnection(c, p, Without(open, dead), Without(m_fdToPeerMap, dead))
    /\ m_connectionPools' = [m_connectionPools EXCEPT ![p] = Tail(@)]
    /\ UNCHANGED <<pool_running, cleaner, others>>

getCreated(c, p) ==
    /\ m_connectionPools[p] = << >>
    /\ createConnection(c, p, open, m_fdToPeerMap)
    /\ UNCHANGED <<m_connectionPools, pool_running, cleaner, others>>

getConnection(c, p) == getReused(c, p) \/ getReplaced(c, p) \/ getCreated(c, p)

(***************************************************************************)
(* releaseConnection closes a connection that is dead or finds no room. A  *)
(* descriptor that the map does not give to this peer is closed, too.      *)
(***************************************************************************)
releaseConnection(c) ==
    LET p == held[c][1]
        fd == held[c][2]
        room == Len(m_connectionPools[p]) < MAX_CONNECTIONS_PER_PEER
    IN
    /\ held' = [held EXCEPT ![c] = None]
    /\ \E valid \in BOOLEAN :
         IF m_fdToPeerMap[fd] = p /\ valid /\ room
         THEN /\ m_connectionPools' = [m_connectionPools EXCEPT ![p] = Append(@, fd)]
              /\ UNCHANGED <<m_fdToPeerMap, open>>
         ELSE /\ open' = Without(open, {fd})
              /\ m_fdToPeerMap' = IF m_fdToPeerMap[fd] = p
                                  THEN Without(m_fdToPeerMap, {fd})
                                  ELSE m_fdToPeerMap
              /\ UNCHANGED m_connectionPools
    /\ UNCHANGED <<pool_running, cleaner, others>>

-----------------------------------------------------------------------------
(* start and the clean-up thread *)

poolStart ==
    /\ pool_running' = TRUE
    /\ cleaner' = IF pool_running THEN cleaner ELSE "test"
    /\ UNCHANGED <<m_connectionPools, m_fdToPeerMap, open, others, held>>

(* The condition of cleanupLoop. *)
CleanerTests ==
    /\ cleaner = "test"
    /\ cleaner' = IF pool_running THEN "wait" ELSE "ended"
    /\ UNCHANGED <<m_connectionPools, m_fdToPeerMap, pool_running,
                   open, others, held>>

(* Mutant: a closed connection stays in the queue. *)
CleanerWakes_NotPopped ==
    /\ cleaner = "wait"
    /\ \E dead \in SUBSET Queued :
         /\ open' = Without(open, dead)
         /\ m_fdToPeerMap' = Without(m_fdToPeerMap, dead)
    /\ cleaner' = IF pool_running THEN "test" ELSE "ended"
    /\ UNCHANGED <<m_connectionPools, pool_running, others, held>>

(* The entries of a queue that are not dead, moved to a new one in turn. *)
newQueue(queue, dead) ==
    LET moved[k \in 0..Len(queue)] ==
          IF k = 0 THEN << >>
          ELSE IF queue[k] \in dead THEN moved[k - 1]
          ELSE Append(moved[k - 1], queue[k])
    IN moved[Len(queue)]

(***************************************************************************)
(* wait_for returns, after 60 seconds at the latest: stop's notify_all is  *)
(* called without m_mutex and may come just before the wait.  The pass     *)
(* closes the connections that are dead or have been idle for too long.    *)
(***************************************************************************)
CleanerWakes ==
    /\ cleaner = "wait"
    /\ \/ /\ ~pool_running
          /\ cleaner' = "ended"
          /\ UNCHANGED <<m_connectionPools, m_fdToPeerMap, open>>
       \/ /\ pool_running
          /\ cleaner' = "test"
          /\ \E dead \in SUBSET Queued :
               /\ m_connectionPools' =
                    [p \in Peer |-> newQueue(m_connectionPools[p], dead)]
               /\ open' = Without(open, dead)
               /\ m_fdToPeerMap' = Without(m_fdToPeerMap, dead)
    /\ UNCHANGED <<pool_running, others, held>>

(* The end of stop, when the clean-up thread is gone. *)
closeAll ==
    /\ open' = Without(open, Queued)
    /\ m_connectionPools' = [p \in Peer |-> << >>]
    /\ m_fdToPeerMap' = [fd \in Fd |-> None]
    /\ UNCHANGED <<pool_running, cleaner, others, held>>

-----------------------------------------------------------------------------
(* The rest of the process opens and closes descriptors of its own. *)
OtherOpens ==
    /\ \E fd \in Fd : /\ open[fd] = None
                      /\ open' = [open EXCEPT ![fd] = "other"]
                      /\ others' = others \cup {fd}
    /\ UNCHANGED <<m_connectionPools, m_fdToPeerMap, pool_running, cleaner, held>>

OtherCloses ==
    /\ \E fd \in others : /\ open' = Without(open, {fd})
                          /\ others' = others \ {fd}
    /\ UNCHANGED <<m_connectionPools, m_fdToPeerMap, pool_running, cleaner, held>>

-----------------------------------------------------------------------------
(* Properties *)

(* The places that claim descriptor fd as a connection to p. *)
Claims(fd) ==
    {place \in Peer \X (1..Cardinality(Fd)) :
        LET queue == m_connectionPools[place[1]] IN
        place[2] <= Len(queue) /\ queue[place[2]] = fd}
    \cup {<<held[c][1], c>> : c \in {d \in Caller : held[d] # None /\ held[d][2] = fd}}

(***************************************************************************)
(* Every connection of the pool is claimed by exactly one place, one queue *)
(* entry or one caller, as a connection to the peer it leads to, which is  *)
(* also the one m_fdToPeerMap names; and no number is claimed that is      *)
(* closed or belongs to somebody else.  So no thread talks to the wrong    *)
(* peer, no descriptor leaks, and the pool closes none twice: a second     *)
(* close would hit a client that was given the number in between.          *)
(***************************************************************************)
DescriptorsOwned ==
    /\ \A fd \in Fd :
         IF open[fd] \in Peer
         THEN /\ Cardinality(Claims(fd)) = 1
              /\ \A claim \in Claims(fd) : claim[1] = open[fd]
              /\ m_fdToPeerMap[fd] = open[fd]
         ELSE Claims(fd) = {} /\ m_fdToPeerMap[fd] = None
    /\ others = {fd \in Fd : open[fd] = "other"}

(***************************************************************************)
(* There is never more than one connection to a peer: all calls are made   *)
(* under RaftNode's m_mutex, and a connection is given back before the     *)
(* next one is taken.  RaftNode's model, with its one channel per pair of  *)
(* nodes, rests on this; MAX_CONNECTIONS_PER_PEER is never reached.        *)
(***************************************************************************)
OneConnectionPerPeer ==
    \A p \in Peer : Cardinality({fd \in Fd : open[fd] = p}) <= 1

=============================================================================
