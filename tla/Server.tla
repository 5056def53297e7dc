------------------------------- MODULE Server -------------------------------
(***************************************************************************)
(* The life of a yolo_server process: main, Server::start, acceptLoop,     *)
(* wait and the destructors on the main thread; the threads of RaftNode    *)
(* and of its connection pool; and Server::stop, which runs in a signal    *)
(* handler on top of whatever the main thread is doing.  (A signal sent to *)
(* a process is taken by its main thread, unless that blocks it.)          *)
(*                                                                         *)
(* The raft threads are kept to what matters for stopping: they hold       *)
(* RaftNode's m_mutex for a pass and take connections from the pool in it. *)
(***************************************************************************)
EXTENDS ConnectionPool

CONSTANT Signal     \* signals that arrive, each of them once

ASSUME CallerAssumption == Caller = {"election", "heartbeat"}

(***************************************************************************)
(*   main      where the main thread is (see the actions)                  *)
(*   stack     calls of stop functions on top of it, the running one last: *)
(*             each is the place in Server::stop ("server..."),            *)
(*             RaftNode::stop ("raft...") or RaftConnectionPool::stop      *)
(*             ("pool..."); a second signal may interrupt the first.  A    *)
(*             handler that never gets its first message out is "blocked"  *)
(*   pending   the signals that have not arrived yet                       *)
(*   m_running, raft_running   of Server and of RaftNode                   *)
(*   m_epoll_fd, m_listen_fd   "none", "open", or "stale": closed but not  *)
(*             forgotten                                                   *)
(*   pc        where the raft threads are: "none" before they are started, *)
(*             "test" at the loop condition, "lock", in a "pass", in a     *)
(*             "call", "wait" (electionLoop's wait_for), "ended"           *)
(*   left      the peers a pass has still to call                          *)
(*   mutex     the raft thread that holds RaftNode's m_mutex, or None      *)
(*   joinable  the std::thread members that refer to a thread              *)
(***************************************************************************)
VARIABLES main, stack, pending, m_running, raft_running, m_epoll_fd,
          m_listen_fd, pc, left, mutex, joinable

threadVars == <<pc, left, mutex>>
flags == <<m_running, raft_running>>
sockets == <<m_epoll_fd, m_listen_fd>>
mainVars == <<main, stack, pending, flags, sockets, joinable>>
vars == <<poolVars, threadVars, mainVars>>

MainPlace == {"socket", "open", "raftStart", "poolStart",
              "spawnElection", "spawnHeartbeat", "running", "loop", "epoll",
              "accept", "wait", "destroy", "destroyRaft", "destroyPool",
              "hung", "gone", "aborted"}
StopPlace == {"server_test", "server_clear", "server_close",
              "raft_test", "raft_clear", "raft_joinElection",
              "raft_joinHeartbeat", "raft_pool", "pool_test", "pool_clear",
              "pool_join", "pool_close", "blocked"}
Thread == {"election", "heartbeat", "cleaner"}

TypeOK ==
    /\ PoolTypeOK
    /\ main \in MainPlace
    /\ stack \in Seq(StopPlace)
    /\ pending \subseteq Signal
    /\ m_running \in BOOLEAN /\ raft_running \in BOOLEAN
    /\ {m_epoll_fd, m_listen_fd} \subseteq {"none", "open", "stale"}
    /\ pc \in [Caller -> {"none", "test", "lock", "pass", "call", "wait", "ended"}]
    /\ left \in [Caller -> SUBSET Peer]
    /\ mutex \in Caller \cup {None}
    /\ joinable \subseteq Thread

Init ==
    /\ PoolInit
    /\ main = "socket"
    /\ stack = << >>
    /\ pending = Signal
    /\ m_running = FALSE /\ raft_running = FALSE
    /\ m_epoll_fd = "none" /\ m_listen_fd = "none"
    /\ pc = [t \in Caller |-> "none"]
    /\ left = [t \in Caller |-> {}]
    /\ mutex = None
    /\ joinable = {}

(* The main thread runs its own code when no stop function is on top. *)
MainAt(place) == main = place /\ stack = << >>
MainGoto(place) == main' = place

-----------------------------------------------------------------------------
(* Server::start *)

(***************************************************************************)
(* setupSocket.  Whatever fails, start returns false and main ends; when   *)
(* epoll_ctl fails m_epoll_fd keeps the number it had.                     *)
(***************************************************************************)
SetupSocket ==
    /\ MainAt("socket")
    /\ \/ /\ m_listen_fd' = "open" /\ m_epoll_fd' = "open"
          /\ MainGoto("open")
       \/ /\ \/ m_listen_fd' = "none" /\ m_epoll_fd' = "none"
             \/ m_listen_fd' = "open" /\ m_epoll_fd' \in {"none", "stale"}
          /\ MainGoto("destroy")
    /\ UNCHANGED <<poolVars, threadVars, stack, pending, flags, joinable>>

(* A step of the main thread that only moves on. *)
MainRuns(from, to) ==
    /\ MainAt(from)
    /\ MainGoto(to)
    /\ UNCHANGED <<poolVars, threadVars, stack, pending, flags, sockets,
                   joinable>>

(***************************************************************************)
(* RocksDBStorage::open; then the RaftNode is made and given addresses.  A *)
(* database that cannot be opened is an exception that nobody catches: the *)
(* process is aborted, without destructors, and start's test of the result *)
(* never finds false.                                                      *)
(***************************************************************************)
OpenStorage == MainRuns("open", "raftStart") \/ MainRuns("open", "aborted")

(* Mutant: the server counts as running before its replica is started. *)
RaftStart_ServerRunning ==
    /\ MainAt("raftStart")
    /\ raft_running' = TRUE
    /\ m_running' = TRUE
    /\ MainGoto("poolStart")
    /\ UNCHANGED <<poolVars, threadVars, stack, pending, sockets, joinable>>

(* RaftNode::start, one step for each of its statements. *)
RaftStart ==
    /\ MainAt("raftStart")
    /\ raft_running' = TRUE
    /\ MainGoto("poolStart")
    /\ UNCHANGED <<poolVars, threadVars, stack, pending, m_running, sockets,
                   joinable>>

PoolStart ==
    /\ MainAt("poolStart")
    /\ poolStart
    /\ joinable' = joinable \cup {"cleaner"}
    /\ MainGoto("spawnElection")
    /\ UNCHANGED <<threadVars, stack, pending, flags, sockets>>

Spawn(t, place, next) ==
    /\ MainAt(place)
    /\ pc' = [pc EXCEPT ![t] = "test"]
    /\ joinable' = joinable \cup {t}
    /\ MainGoto(next)
    /\ UNCHANGED <<poolVars, left, mutex, stack, pending, flags, sockets>>

SpawnElection == Spawn("election", "spawnElection", "spawnHeartbeat")
SpawnHeartbeat == Spawn("heartbeat", "spawnHeartbeat", "running")

(* From here on a signal is heeded. *)
SetRunning ==
    /\ MainAt("running")
    /\ m_running' = TRUE
    /\ MainGoto("loop")
    /\ UNCHANGED <<poolVars, threadVars, stack, pending, raft_running,
                   sockets, joinable>>

-----------------------------------------------------------------------------
(* acceptLoop, wait and the destructors *)

(***************************************************************************)
(* The conditions of the loops, and the ways out of epoll_wait: a timeout, *)
(* an interruption or the end of accept's inner loop lead back to the      *)
(* condition; with the descriptor gone the error leads out of the loop.    *)
(* Accepted clients go to the thread pool, which is not modelled here.     *)
(***************************************************************************)
AcceptLoop ==
    \/ m_running /\ MainRuns("loop", "epoll")
    \/ ~m_running /\ MainRuns("loop", "wait")
    \/ MainRuns("epoll", "loop")
    \/ m_epoll_fd = "open" /\ MainRuns("epoll", "accept")
    \/ m_epoll_fd # "open" /\ MainRuns("epoll", "wait")
    \/ MainRuns("accept", "loop")

Wait == ~m_running /\ MainRuns("wait", "destroy")

(* A call, of a stop function or from one stop function to the next. *)
Call(f) == stack' = Append(stack, f)

(***************************************************************************)
(* ~Server, then ~RaftNode: each stops what is still running.  (While a    *)
(* Connection is being served its copy of the shared_ptr keeps RaftNode    *)
(* alive, and the worker runs ~RaftNode later.)                            *)
(***************************************************************************)
DestroyServer ==
    /\ MainAt("destroy")
    /\ MainGoto("destroyRaft")
    /\ IF m_running THEN Call("server_test") ELSE UNCHANGED stack
    /\ UNCHANGED <<poolVars, threadVars, pending, flags, sockets, joinable>>

DestroyRaft ==
    /\ MainAt("destroyRaft")
    /\ MainGoto("destroyPool")
    /\ IF raft_running THEN Call("raft_test") ELSE UNCHANGED stack
    /\ UNCHANGED <<poolVars, threadVars, pending, flags, sockets, joinable>>

(***************************************************************************)
(* ~ThreadPool, the last member with threads, joins the workers.  It may   *)
(* wait for ever: for a worker that missed its notify_all (see ThreadPool) *)
(* or one whose client stays.  Otherwise main returns.                     *)
(***************************************************************************)
DestroyPool == MainRuns("destroyPool", "gone") \/ MainRuns("destroyPool", "hung")

-----------------------------------------------------------------------------
(* handleSignal and the stop functions *)

(* Where the main thread is, or the handler that runs on top of it. *)
Running == IF stack = << >> THEN main ELSE stack[Len(stack)]

(***************************************************************************)
(* The places with a message of their own, during which the running code   *)
(* has the mutex of the logger's sink: errors of setupSocket, of acceptLoop *)
(* and of main, the messages of start, wait and of the objects they start; *)
(* handleSignal's own ("server_test", before it calls stop), that of       *)
(* Server::stop and those at the end of the other stop functions.          *)
(***************************************************************************)
LogPlace == {"socket", "open", "raftStart", "poolStart", "spawnElection",
             "loop", "epoll", "accept", "wait", "destroy",
             "server_test", "server_clear", "raft_pool"}

(***************************************************************************)
(* A signal arrives, at any step of the main thread or of a handler.  The  *)
(* handler logs first.  When it has interrupted the same thread in the     *)
(* middle of a message it waits for a mutex which that thread holds and    *)
(* cannot release: it is blocked for good, and so is one on top of it.     *)
(***************************************************************************)
HandleSignal ==
    /\ main \notin {"gone", "aborted"}
    /\ \E s \in pending : pending' = pending \ {s}
    /\ \/ Running # "blocked" /\ Call("server_test")
       \/ Running \in LogPlace \cup {"blocked"} /\ Call("blocked")
    /\ UNCHANGED <<poolVars, threadVars, main, flags, sockets, joinable>>

StopAt(place) == stack # << >> /\ stack[Len(stack)] = place
StopGoto(place) == stack' = [stack EXCEPT ![Len(stack)] = place]
Return == stack' = SubSeq(stack, 1, Len(stack) - 1)
CallFrom(place, f) == stack' = Append([stack EXCEPT ![Len(stack)] = place], f)

AllButStack == <<poolVars, threadVars, main, pending, flags, sockets, joinable>>

(* Each stop function returns at once when its object is not running. *)
StopTests(place, running, next) ==
    /\ StopAt(place)
    /\ IF running THEN StopGoto(next) ELSE Return
    /\ UNCHANGED AllButStack

ServerClear ==
    /\ StopAt("server_clear")
    /\ m_running' = FALSE
    /\ CallFrom("server_close", "raft_test")
    /\ UNCHANGED <<poolVars, threadVars, main, pending, raft_running,
                   sockets, joinable>>

(* The descriptors that are set are closed and forgotten. *)
ServerClose ==
    /\ StopAt("server_close")
    /\ m_epoll_fd' = "none"
    /\ m_listen_fd' = "none"
    /\ Return
    /\ UNCHANGED <<poolVars, threadVars, main, pending, flags, joinable>>

(* Mutant: the threads are joined before they are told to end. *)
RaftClear_Late ==
    /\ StopAt("raft_clear")
    /\ StopGoto("raft_joinElection")
    /\ UNCHANGED <<poolVars, threadVars, main, pending, flags, sockets,
                   joinable>>

(* electionLoop's wait ends by itself; the notification only hurries it. *)
RaftClear ==
    /\ StopAt("raft_clear")
    /\ raft_running' = FALSE
    /\ StopGoto("raft_joinElection")
    /\ UNCHANGED <<poolVars, threadVars, main, pending, m_running, sockets,
                   joinable>>

(* A thread object that refers to no thread is passed over. *)
JoinThread(t, ended) ==
    /\ t \in joinable => ended
    /\ joinable' = joinable \ {t}
    /\ UNCHANGED <<poolVars, threadVars, main, pending, flags, sockets>>

JoinElection ==
    /\ StopAt("raft_joinElection")
    /\ JoinThread("election", pc["election"] = "ended")
    /\ StopGoto("raft_joinHeartbeat")

JoinHeartbeat ==
    /\ StopAt("raft_joinHeartbeat")
    /\ JoinThread("heartbeat", pc["heartbeat"] = "ended")
    /\ CallFrom("raft_pool", "pool_test")

RaftReturn == StopAt("raft_pool") /\ Return /\ UNCHANGED AllButStack

PoolClear ==
    /\ StopAt("pool_clear")
    /\ pool_running' = FALSE
    /\ StopGoto("pool_join")
    /\ UNCHANGED <<m_connectionPools, m_fdToPeerMap, cleaner, open, others,
                   held, threadVars, main, pending, flags, sockets, joinable>>

JoinCleaner ==
    /\ StopAt("pool_join")
    /\ JoinThread("cleaner", cleaner = "ended")
    /\ StopGoto("pool_close")

PoolClose ==
    /\ StopAt("pool_close")
    /\ closeAll
    /\ Return
    /\ UNCHANGED <<threadVars, main, pending, flags, sockets, joinable>>

Stopping ==
    \/ StopTests("server_test", m_running, "server_clear")
    \/ ServerClear
    \/ ServerClose
    \/ StopTests("raft_test", raft_running, "raft_clear")
    \/ RaftClear
    \/ JoinElection
    \/ JoinHeartbeat
    \/ RaftReturn
    \/ StopTests("pool_test", pool_running, "pool_clear")
    \/ PoolClear
    \/ JoinCleaner
    \/ PoolClose

MainStep ==
    \/ SetupSocket
    \/ OpenStorage
    \/ RaftStart
    \/ PoolStart
    \/ SpawnElection
    \/ SpawnHeartbeat
    \/ SetRunning
    \/ AcceptLoop
    \/ Wait
    \/ DestroyServer
    \/ DestroyRaft
    \/ DestroyPool
    \/ Stopping

-----------------------------------------------------------------------------
(* electionLoop and heartbeatLoop *)

LoopTests(t) ==
    /\ pc[t] = "test"
    /\ pc' = [pc EXCEPT ![t] = IF raft_running THEN "lock" ELSE "ended"]
    /\ UNCHANGED <<poolVars, left, mutex, mainVars>>

(* Mutant: the pass runs without m_mutex. *)
Lock_NotTaken(t) ==
    /\ pc[t] = "lock"
    /\ pc' = [pc EXCEPT ![t] = "pass"]
    /\ \E S \in {{}, Peer} : left' = [left EXCEPT ![t] = S]
    /\ UNCHANGED <<poolVars, mutex, mainVars>>

(* The pass calls every peer, or nobody when there is nothing to do. *)
Lock(t) ==
    /\ pc[t] = "lock"
    /\ mutex = None
    /\ mutex' = t
    /\ pc' = [pc EXCEPT ![t] = "pass"]
    /\ \E S \in {{}, Peer} : left' = [left EXCEPT ![t] = S]
    /\ UNCHANGED <<poolVars, mainVars>>

(* sendRequestVote and sendAppendEntries up to the answer of the pool. *)
CallPeer(t) ==
    /\ pc[t] = "pass"
    /\ \E p \in left[t] : /\ getConnection(t, p)
                          /\ left' = [left EXCEPT ![t] = @ \ {p}]
    /\ pc' = [pc EXCEPT ![t] = IF held'[t] = None THEN "pass" ELSE "call"]
    /\ UNCHANGED <<mutex, mainVars>>

(* Every way out of the call gives the connection back. *)
EndCall(t) ==
    /\ pc[t] = "call"
    /\ releaseConnection(t)
    /\ pc' = [pc EXCEPT ![t] = "pass"]
    /\ UNCHANGED <<left, mutex, mainVars>>

(***************************************************************************)
(* A pass ends, also early when a reply carries a higher term.             *)
(* heartbeatLoop unlocks and sleeps; electionLoop waits, which unlocks.    *)
(***************************************************************************)
EndPass(t) ==
    /\ pc[t] = "pass"
    /\ mutex' = None
    /\ left' = [left EXCEPT ![t] = {}]
    /\ pc' = [pc EXCEPT ![t] = IF t = "election" THEN "wait" ELSE "test"]
    /\ UNCHANGED <<poolVars, mainVars>>

(* wait_for times out or is notified, and locks m_mutex for a moment. *)
WaitReturns(t) ==
    /\ pc[t] = "wait"
    /\ mutex = None
    /\ pc' = [pc EXCEPT ![t] = "test"]
    /\ UNCHANGED <<poolVars, left, mutex, mainVars>>

RaftThread(t) ==
    LoopTests(t) \/ Lock(t) \/ CallPeer(t) \/ EndCall(t) \/ EndPass(t)
    \/ WaitReturns(t)

(* cleanupLoop *)
Cleaner == (CleanerTests \/ CleanerWakes) /\ UNCHANGED <<threadVars, mainVars>>

(* The workers and their clients, as long as there is a process. *)
RestOfProcess ==
    /\ main \notin {"gone", "aborted"}
    /\ OtherOpens \/ OtherCloses
    /\ UNCHANGED <<threadVars, mainVars>>

Next ==
    \/ MainStep
    \/ HandleSignal
    \/ \E t \in Caller : RaftThread(t)
    \/ Cleaner
    \/ RestOfProcess

Spec == Init /\ [][Next]_vars

(***************************************************************************)
(* Threads that can run do.  Nobody has to send a signal, and the rest of  *)
(* the process does as it likes.                                           *)
(***************************************************************************)
FairSpec ==
    /\ Spec
    /\ WF_vars(MainStep)
    /\ \A t \in Caller : WF_vars(RaftThread(t))
    /\ WF_vars(Cleaner)

-----------------------------------------------------------------------------
(* Properties *)

(***************************************************************************)
(* When RaftNode has been destroyed, none of its threads is left: a thread *)
(* still joinable would end the process (std::terminate), and one still    *)
(* running would use freed memory.  No connection of the pool is left open *)
(* either, nor, if the server ever ran, its own descriptors.  This is so   *)
(* whenever the signals come, also between the statements of start and in  *)
(* the middle of stop itself.                                              *)
(***************************************************************************)
CleanEnd ==
    main \in {"destroyPool", "hung", "gone"} /\ stack = << >> =>
      /\ joinable = {}
      /\ \A t \in Caller : pc[t] \in {"none", "ended"}
      /\ cleaner \in {"none", "ended"}
      /\ \A fd \in Fd : open[fd] \notin Peer
      /\ cleaner = "ended" => m_epoll_fd = "none" /\ m_listen_fd = "none"

(***************************************************************************)
(* A stop that has been begun is finished and the main thread gets to the  *)
(* end of ~RaftNode: the handler's joins never wait for a thread that      *)
(* waits for the interrupted one, and acceptLoop and wait notice that they *)
(* are to end wherever they were interrupted.  The one thing that keeps    *)
(* the stop from it is another signal in the middle of one of its          *)
(* messages.  (What comes after is ~ThreadPool, which may not return.)     *)
(***************************************************************************)
StopCompletes ==
    StopAt("server_clear") ~> MainAt("destroyPool") \/ StopAt("blocked")

=============================================================================
