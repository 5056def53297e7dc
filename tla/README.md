# TLA+ models of yolo_server

yolo_server stores the results of YOLO inference (frames with boxes) in
RocksDB, on a cluster of servers that route keys by rendezvous hashing and run
a Raft replica beside the store. This directory models the parts of it whose
correctness depends on the order of events, model-checks them with TLC and
proves their central properties with TLAPS.

    tlc -workers 2 -config raft_late.cfg MCRaftNode
    tlapm RaftElectionProofs.tla

`PROJECT.json` lists the runs, the theorems, the source lines behind each
definition, the findings and the hazards.

## 1. Inventory

| Component | State | Operations | Interacts with |
|---|---|---|---|
| `raft/RaftNode` | term, vote, log, commit index, applied index, next/match index, state | election loop, heartbeat loop, two RPC handlers, `submitLog`, `applyCommittedLogs` | connection pool (out), `Connection` (in), RocksDB |
| `raft/RaftConnectionPool` | queues of idle connections per peer, at most 5, 300 s idle limit | get, release, validity test, clean-up thread | sockets of the peers |
| `server/Connection` | one descriptor | `handle` loop, PING, STORE, GET, two Raft commands, `forwardToNode` | router, RocksDB, RaftNode, other servers |
| `server/Protocol` | none (the stream) | `sendMessage`, `recvMessage` with a 4-byte length | every socket |
| `server/Server`, `main.cpp` | router, pool, replica, `m_running`, epoll descriptor | constructor with one-time health check, `start`, `acceptLoop`, `stop` from a signal handler, `wait` | everything |
| `cluster/ShardRouter` | list of healthy nodes | `insertNode`, `pickNode`, `checkNodeHealth` | Server, Connection |
| `common/thread/ThreadPool` | task queue, workers, stop flag | constructor, `submit`, `workerLoop`, destructor | Server |
| `storage/RocksDBStorage` | RocksDB handle | `open`, `put`, `get` | Connection, RaftNode |
| codec, config, logger | - | data conversion, reading a file, output | - |
| `server/Dispatcher`, `datebase/` | - | not called / not built | - |

What is hard about it:

* `startElection` and a pass of `heartbeatLoop` hold `m_mutex` across all their
  remote calls, and every RPC handler needs the mutex of its node.
* All sockets are non-blocking, `recvMessage` does not wait, and messages carry
  no identifiers. A reply that is not there when the caller looks stays in the
  pooled connection and is read as the answer to a later call.
* Term, vote and log live in memory only; RocksDB and the peers survive.
* The list of nodes is computed once per server, from who answered a probe, and
  differs from server to server. Quorums and key owners depend on it.
* The thread pool's stop flag is not written under the mutex its condition
  variable is tested under.
* Forwarded commands may be given up by the forwarder and carried out later.
* `stop` runs inside a signal handler, on top of whatever the main thread is
  doing, and joins three threads. The handler also logs, through sinks with a
  mutex that the interrupted code may hold.
* Descriptor numbers are reused; the pool remembers them in two places.
* `recvMessage` takes short reads for whole ones.

What makes each part correct: one vote per term, elections won by votes that
were given, leaders that won their term, indices inside the log, the committed prefix applied once and in order, commits
backed by a majority, mutexes released (RaftNode); tasks taken once and in
order, none dropped, no lost wakeup, termination (ThreadPool); reads that see
acknowledged writes and a cluster that behaves like one store, no forwarding
circles, an answer for every command (storage commands); every descriptor
owned once and closed once (connection pool); a stop that completes and leaves
nothing behind (server); whole messages in order (protocol).

## 2. Modules

| Module | Models / contains |
|---|---|
| `RaftNode` | RaftNode.cpp, what a call sees of RaftConnectionPool and Protocol, the Raft commands of Connection |
| `RaftNodeInv` | the strengthenings that make its invariants inductive |
| `MCRaftNode` | peer lists for TLC |
| `RaftNodeProofs` | types and indices (proofs) |
| `RaftElectionProofs` | one vote per term, what an election is won with (proofs) |
| `RaftLogProofs` | leaders, logs, commits and puts (proofs) |
| `ThreadPool`, `MCThreadPool` | ThreadPool.cpp, one step per lock, test, sleep, wakeup |
| `TaskQueue` | abstract: the FIFO queue a pool promises; `ThreadPool!ImplementsTaskQueue` |
| `ThreadPoolProofs` | the pool's invariants and its refinement (proofs) |
| `Sharding`, `MCSharding` | PING, STORE, GET, `pickNode`, `forwardToNode` |
| `KeyStore` | abstract: one atomic store for all clients; `Sharding!OneStore` |
| `ShardingProofs` | types, forwarding never returns (proofs) |
| `StoreProofs` | one linearizable store (proofs) |
| `ConnectionPool` | RaftConnectionPool.cpp: queues, map, clean-up thread, descriptor numbers |
| `Server`, `MCServer` | main.cpp, Server.cpp, start and stop of RaftNode; composes `ConnectionPool` |
| `ServerProofs` | descriptors, threads and the end of the process (proofs) |
| `Wire`, `MCWire` | Protocol.cpp on bytes, the buffer of `Connection::handle`, the probe's bytes |
| `MessageChannel` | abstract: whole messages in order; `Wire!WholeMessages` |
| `WireProofs` | whole messages in order (proofs) |

How they fit together: `Server` extends `ConnectionPool` and runs its actions
from the raft threads, the clean-up thread and `stop`. `RaftNode` uses the result
that there is one connection per peer (`OneConnectionPerPeer`) and, of `Wire`,
that a call ends with a message, nothing or a spoilt reply. `ThreadPool` stands
below `acceptLoop`: `Sharding` and `RaftNode` take for granted that each accepted
connection gets one worker, which is what `TaskQueue` says.

Operators whose names end in `_Something` and whose comment says *Mutant* are
plausible bugs. They are used by no specification; `PROJECT.json` names the
property that each of them breaks when it takes the place of the original.

### RaftNode

The variables `m_*` are the fields of the class. `holder`, `at`, `phase` and
`votes` are the locals of the pass that holds `m_mutex`: which loop it is, which
peer it is calling, whether it is about to send or to receive. A pass is thus a
sequence of steps that interleave with other nodes, while handlers of the same
node are disabled (`ServeRequest` needs `holder = "free"`).

`reqs`, `reps`, `closed` are the pooled connection of a pair of nodes. One
connection per peer suffices: `getConnection` is only called under `m_mutex`.
`orphans` are requests left in connections whose client end is closed.
`PeerCloses` is `Connection::handle` returning because nothing was there to read,
`CleanupConnection` the clean-up thread.

| Action | Code |
|---|---|
| `StartElection`, `Poll` | `electionLoop`, first half of `startElection` |
| `SendRequest`, `SendFails` | `sendRequestVote` / `sendAppendEntries` up to `sendMessage` |
| `RecvVote`, `RecvAppend`, `RecvWrongKind`, `RecvFails` | the rest of them and the loop body after the call |
| `WinElection`, `LoseElection` | end of `startElection` |
| `StartHeartbeat`, `FinishHeartbeat` | one pass of `heartbeatLoop` |
| `ServeRequest`, `ServeOrphan` | `Connection::handleRaft*` with `handleRequestVote`, `handleAppendEntries` |
| `SubmitLog` | `submitLog` (has no caller in the repository; modelled as its API) |
| `Restart` | a new process: the constructor's values, descriptors closed |

`puts`, `grants`, `elected` and `restarts` are history. Timers are
nondeterministic: a timeout may fire at any time. `Candidates`, `MaxTerm`,
`MaxLog`, `MaxInFlight` and `MaxRestarts` bound the guards of the actions that
grow something; the theorems hold for every value of them, and therefore for
every finite execution. (`Candidates` are the nodes whose election timeout may
elapse; the other nodes vote, answer and run their loops.)

`RecvFails` is the normal case of this program: the socket is non-blocking, `recv`
follows `send` at once, and finds nothing whether or not a reply is on its way.
The reply then waits in the pooled connection for the next call. There is no
idealised mode without it.

The log is modelled without the dummy entry `m_logs[0]`: its length is
`m_logs.size() - 1`.

### ThreadPool

One action per atomic step of `workerLoop`: locking, testing the predicate,
going to sleep (which releases the mutex), waking up (also spuriously), taking,
running. `submit` and the destructor are steps of one owner, `acceptLoop`'s
thread. `m_stopping` is written and `notify_all` called without the mutex, as in
the code. A task may run for ever (a client that stays connected).

### Sharding

Every command has a sequence of hops, the `Connection` objects it has reached,
on the server the client connected to and on those it was forwarded to. A hop
has read the command or not, waits for the next hop, or is done. `CloseEarly` is
`handle` finding nothing to read; `RelayFails` is `RECV_FAILED`, after which the
next hop may still read and execute the command. `Router` (each server's list)
and `Score` (the hash) are parameters. The hashes of one key are assumed to
differ: with equal hashes and differently ordered lists two servers would pass a
command to each other for ever, which takes a collision of 64-bit hashes.
`OnDisk` is what the databases hold when the servers open them: `open` creates a
database only if there is none, so that frames of earlier runs may be there, on
servers that no longer own the key as well. A missing key is the default frame the code answers with; a failed `get` looks
the same. Parsing and the content of frames are left out.

`OneStore` maps the cluster to `KeyStore`: the frame under a key is the one its
owner has; a command has taken effect when one of its hops has the owner's
answer, and is void when its last hop is done without one. The interesting case
is `RECV_FAILED`: the client is told nothing, and must not be told an error,
because the owner may still carry the command out. PING and malformed commands
are calls of the kind `OTHER`, which ask nothing of the store.

### ConnectionPool and Server

Every operation of the pool is one step, because it holds the pool's `m_mutex`
throughout. `open` is the process's descriptor table and `others` what the rest
of the process believes it owns, so that a close of a number that has been given
away shows as a difference between the two. Validity and idle time are open at
each test. The limit `MAX_CONNECTIONS_PER_PEER` has its real value, 5; it is
never reached, since all callers hold RaftNode's `m_mutex`.

In `Server` the main thread has one place per statement of `start`, `acceptLoop`,
`wait` and the destructors; `stack` is the call stack of `Server::stop`,
`RaftNode::stop` and `RaftConnectionPool::stop` on top of it. A signal pushes
`Server::stop` at any moment, also while another one's handler runs (SIGINT and
SIGTERM do not block each other). The raft threads are reduced to the loop
condition, the mutex, and the connections a pass takes and gives back.

The handler's first act is to log. The sinks of the logger have a mutex that is
not recursive (Logger.cpp:22, :27); `LogPlace` are the places at which the main
thread or a stop function may be in the middle of a message of its own. A signal
that comes there may find the mutex held by the very thread it interrupts: the
handler is then "blocked" for good, and nothing of what is below it goes on.
Other threads give the mutex back by themselves. (What they do once a handler is
blocked is modelled without the logger: they would stop at their next message, so
the model has more behaviours there than the program, and `StopCompletes` says
nothing about them.) The allocator's locks are left out: a handler that frees
memory in the middle of an interrupted `malloc` is undefined behaviour of its own.

The process ends in one of three ways. A database that cannot be opened is an
exception out of `RocksDBStorage::open` that nobody catches ("aborted", without
destructors; `start`'s test of the result is dead code). `main` returns ("gone").
Or `~ThreadPool`, the last destructor with threads to join (Server.h:42), never
returns ("hung"): its lost wakeup is what `pool_shutdown` shows, and a worker may be
with a client that stays. `DestroyPool` leaves open which of the last two happens.

A signal for the process is delivered to its main thread if that does not block
it, which is the case modelled. On another thread `stop` would join its own
thread (`std::system_error`) or wait for a mutex that its thread holds.
`g_server` is never reset; a signal during `~Server` reads a flag that is already
false.

### Wire

Bytes are numbers below `Base`; the proportions that matter are kept by
`WireAssumption`: text in one of the first two places of a header exceeds
`MAX_MESSAGE_SIZE`, in the third it does not. `net` has one sequence per `send`, and with
`Fragmented` a send may be taken or may arrive in parts. `Resized` is
`vector::resize` on the one buffer of `handle`. Without fragments `recvMessage`
keeps its promise, although it may still run between header and body; with
them it does not (`wire_split`). Only the server's side is modelled, which
closes after a failure; the pooled client of RaftNode goes on reading, and after
a header without its body it reads text as lengths until the connection fails.

### A remark on the health check

`checkNodeHealth` sends the four bytes `PING` without the length prefix that
`recvMessage` expects. The peer reads them as a length of more than 1 MB and
closes, so today the probe of a running peer fails and each server's list is
just itself. (`Wire!SendProbe` with `WholeMessages` shows that the four bytes
are never taken for a message; the framed `PONG` would not equal the four bytes
that `checkNodeHealth` compares with, either.) `Peers` and `Router` are parameters of the models, because the
classes take whatever list they are given and are written for clusters.

## 3. Runs

| Run | Instance | Result |
|---|---|---|
| `raft_late` | 3 nodes, 2 of them candidates, 2 terms, 2 messages in flight | `TypeOK`, `VoteOnce`, `LeaderWonItsTerm`, `VoteRemembered`, `WonWithVotes`, `SplitNeedsOldVote`, `MutexReleased` hold |
| `raft_restart` | 2 nodes, 2 terms, 2 commands, 2 entries, 2 messages in flight, 1 restart | `IndexSafety`, `AppliedInOrder`, `MergeFollowsLeader`, `NeverGoesBack` hold |
| `pool` | 3 workers, 3 tasks | `TypeOK`, `TakenInOrder`, `NothingDropped`, `QueuedTaskTaken` and the refinement `ImplementsTaskQueue` hold |
| `shard` | 2 servers, same list, used databases, 1 key, 2 frames, 3 commands | `ReadsAcknowledged` and the refinement `OneStore` hold |
| `shard_ring` | 3 servers, each missing another, 2 keys, 2 commands, storage may fail | `TypeOK`, `NoRevisit`, `WorkersFree` hold |
| `server` | 2 peers, 3 descriptor numbers, 2 signals | `TypeOK`, `DescriptorsOwned`, `OneConnectionPerPeer`, `CleanEnd`, `StopCompletes` hold |
| `wire` | 4 messages of 1 to 13 bytes (limit 12), or a probe, sends unbroken | the refinement `WholeMessages`, and `ArrivedIsReceived`, hold |
| `raft_even` | 4 nodes, 1 candidate, 1 term, 1 entry | `CommitBacked` violated: half of the cluster is taken for a majority |
| `raft_late_votes` | 3 nodes, as `raft_late` | `ElectionSafety` violated: an old vote is counted in a newer term |
| `raft_replication` | 2 nodes | `CommittedOnMajority` violated: `args.entries` is never filled |
| `pool_shutdown` | 1 task | `ShutdownCompletes` violated: lost wakeup in the destructor |
| `wire_split` | sends in parts | `WholeMessages` violated: short reads count as whole ones |

Variations of these instances show more, and have no run of their own:

* `raft_late` with peer lists that differ, as starting one server after the
  other would leave them (`<< >>`, `<<n1>>`, `<<n1, n2>>`, with `n1` and `n3` as
  candidates), violates `SplitNeedsOldVote`: majorities of different lists need not
  meet (RaftNode.cpp:136; the quorum is taken over the nodes that passed the
  health check). `WonWithVotes` holds.
* `raft_late` with `MaxRestarts = 1` violates `VoteOnce` and `VoteRemembered`: term and
  vote are not persistent, against RaftNode.h:68.
* `shard` with `Router[n1] = <<n1>>` and `Router[n2] = <<n1, n2>>` violates
  `ReadsAcknowledged` and `OneStore`: a GET through `n1` misses what `n2` has stored;
  with `DbMayFail = TRUE` it violates them because STORE OK does not depend on
  the result of `put`.

Two more disagreements follow from a few lines: `handleAppendEntries` raises
the term without clearing `m_votedFor`, against RaftNode.h:70 (`VoteOnce` holds
nevertheless); and a forward whose reply was not there in time counts as
successful and leaves the client without an answer (state "silent").

What elections of this program guarantee. `ElectionSafety`, one winner per term,
does not hold (`raft_late_votes`): `startElection` counts any reply with
`voteGranted`. What holds with the same late replies is `WonWithVotes`, a winner was
really given a majority of votes, though not all of them in this term, and
`SplitNeedsOldVote`, two winners of one term need a vote of an earlier one. The
second says that the missing comparison of `reply.term` is the only thing that is
wrong: where no older vote was given, no term is split.

`CommitBacked` is violated by four nodes. With two or three nodes it holds for a
simple reason: the leader and the peer that has just answered are a majority. It
says something from five nodes on, which is out of TLC's reach; there it is the
theorem `CommitsAreBacked` that shows it, for every odd number.

`StopCompletes` says how far a stop gets that has begun: to the end of `~RaftNode`, or
to a second handler that is blocked by a message it has interrupted. The first
handler may be blocked as well, before it begins anything; and what follows
`~RaftNode` may hang (`pool_shutdown`).

`MergeFollowsLeader` checks an algorithm that no execution reaches, because
leaders send no entries: for every log that a node can have in `raft_restart` and
every leader's log of up to three entries, the merge of `handleAppendEntries` is
compared with a reference definition.

Bounds. Two terms are the least in which a message of an old term meets a newer
one, and three nodes the least in which a majority is not everybody; two
candidates are the least that can compete, and the third node is the voter both
need. With two messages in flight an old reply can lie in front of the expected
one, and a request of each candidate can be under way; `raft_late_votes`, which
finds its split within exactly these bounds, shows that they are wide enough for
late replies to do harm. `raft_late` has no log entries: elections without them
are decided by terms and votes. `raft_restart` has the log: one entry exercises
commit and apply, two are needed to see an order and two commands to see a mix-up;
what it checks is about one node or one pair of nodes. In `pool` three tasks and
three workers allow a worker to be between test and sleep while the other two
are woken and the owner stops the pool. Three commands are the least in which a
GET can follow two STOREs of one key, and three servers allow a chain of two
forwards. In `server` three numbers let two connections and another descriptor
exist at once, or a closed number be taken by any of the three; two signals are
all that can be nested, since each blocks itself. The messages of `wire` cover
lengths of one and two digits, the limit and one above it, and four of them let
the buffer shrink and grow. Symmetry (of the two nodes and of the commands) is
declared only in `raft_restart`, which checks no liveness: with three nodes the
ordered peer lists tell the nodes apart.

Deadlock is not checked where the environment may stop: clients stop at
`MaxRequests`, senders at `MaxMessages`, a destroyed pool does nothing, and a process
ends. (In `server` the waits that must not happen are the subject of
`StopCompletes`.)

Fairness. `RaftNode!FairSpec` is weak fairness of the steps of a pass: the
thread that holds `m_mutex` makes only non-blocking calls. Nothing is assumed of
timers, clients or peers. `ThreadPool!FairSpec` is weak fairness of the
workers' and the owner's own steps, that is of the scheduler and of an
unlocked mutex; tasks need not end, except in `TasksEndSpec`, which
`pool_shutdown` uses so that the violation is not the fault of a client. The
owner need not stop the pool. `Sharding!FairSpec` is weak fairness of each
worker, whose sockets do not block and whose `connectWithRetry` gives up after
five attempts. `Server!FairSpec` is weak fairness of each thread: a mutex that stays
free is taken, and the waits of `electionLoop` and `cleanupLoop` have time limits
(10 ms, 60 s), so that a notification missed by them only delays. No signal has to
come. `Wire!FairSpec` is weak fairness of the reader, which never blocks.

`QueuedTaskTaken` exempts the case in which all workers are busy for ever: a
worker serves one connection as long as its client keeps sending.

## 4. Proofs

All theorems hold for every value of the constants that satisfies the named
ASSUMEs, which TLC evaluates in the runs:

* `NodeAssumption`, `PeersAssumption`, `BoundAssumption` (`RaftNode`): finitely
  many nodes, peer lists without the node itself and without duplicates, bounds
  that are numbers;
* `WorkerAssumption`, `TaskAssumption` (`ThreadPool`): finitely many workers, at
  least one;
* `RouterAssumption`, `ScoreAssumption`, `OnDiskAssumption`, `OtherAssumption`
  (`Sharding`): lists that contain their own server, hashes that do not collide for
  a key, databases with any frames in them;
* `PoolAssumption`, `CallerAssumption` (`ConnectionPool`, `Server`): finitely
  many descriptors, the two raft threads, a limit per peer that is not 0;
* `WireAssumption` (`Wire`): the proportions of byte, text and
  `MAX_MESSAGE_SIZE`, from which it follows that PING is no valid length.

What else a theorem needs is in its ASSUME and named below.

### RaftNode

* `IndexInvariant`, `TypeCorrect`, `IndicesStayInLog` (`RaftNodeProofs`):
  `Spec => []TypeOK` and `Spec => []IndexSafety`, with late replies, restarts
  and arbitrary peer lists. `IndexSafety` is not inductive: a follower's log
  would shrink if a request carried conflicting entries. The strengthening
  `IndexInv` adds that no request in any connection carries entries
  (`NoEntriesSent`, which holds because of the defect `raft_replication`
  reports), that only leaders run a heartbeat pass, and the types. It has
  to be revisited when replication is repaired.
* `OneVotePerTerm`, `VotesAreRemembered` (`RaftElectionProofs`): `VoteOnce` and
  `VoteRemembered` when `MaxRestarts = 0`. The second is what makes the first
  inductive: the vote given in a node's present term is the one in `m_votedFor`,
  and no vote was given in a later term.
* `ElectionsNeedVotes`: `WonWithVotes`, for every cluster and every list, with late
  replies, lost connections and restarts. `BallotInv` is what makes it inductive.
  A connection may hold requests and replies of many calls; but every request
  asks for the node at its client end and for a term that node has reached
  (`AsksForOwner`), so a granted vote in a reply is one the peer really gave it
  (`BringsVote`); the votes a candidate has counted are from such peers and from
  itself (`CountsVotes`), each peer being called once in a pass; and a winner voted
  for itself in the term it won (`WinnersVote`).
* `OnlyOldVotesSplitATerm`: `SplitNeedsOldVote` in a full mesh without restarts. The
  voters `WonWithVotes` gives the two winners of a term are two majorities of one
  list and have a node in common, which voted for both of them. By `VoteOnce` and
  `WinnersVote` it did not give both votes in that term, so one is older, and was
  given to another node.
  `ElectionSafety` itself is false here and no theorem claims it.
* `LeadersWereElected`, `NothingGoesBack`, `PutsFollowTheLog` (`RaftLogProofs`):
  `LeaderWonItsTerm`, `NeverGoesBack` and `AppliedInOrder` without further
  assumptions. They share one lemma per action, which says what the step does
  to the node that takes it (`LivesOn`) unless it is a restart (`Restarted`),
  and `IndexInv`. `AppliedInOrder` speaks of the time before the first restart:
  after it `m_lastApplied` is 0 and entries are put again.
* `CommitsAreBacked`: `CommitBacked` when every peer list has an even length, that
  is, in clusters of odd size. The sorted match indices are only known as a
  permutation in order; counting shows that the middle one is reached by a
  majority. With an even number of nodes the formula of `heartbeatLoop` picks an
  index that only half of them reach (`raft_even`), so that the assumption is
  necessary.
* `MergeIsRight`, `LogsMergeRight`: the entry loop of `handleAppendEntries`, which
  no request of this program exercises with entries. The first is about logs of
  every length that match as Raft's logs do; the second, `Spec =>
  []MergeFollowsLeader`, adds that the logs nodes really have are among those the
  first needs: terms never decrease along a log and are between 1 and the
  node's own (`LogTerms`, which needs `TermInv`: no message, no node and no
  election has a term that was not reached by an election).

### ThreadPool

* `PoolInvariant`, `PoolTypeCorrect`, `TasksTakenInOrder`, `ShutdownDropsNothing`
  (`ThreadPoolProofs`): `TypeOK`, `TakenInOrder` and `NothingDropped` for any number
  of workers and tasks. `PoolInv` says who holds `m_mutex`; that the predicate of
  `wait` is still true when a worker acts on it; that tasks taken and tasks
  queued are 1, 2, 3, ... in this order; that a task that was taken is with one
  worker or finished; and that a worker leaves only when the queue is empty and
  `m_stopping` set.
* `PoolIsTaskQueue`: `Spec => Queue!Spec`, step by step: the push is the abstract
  submit, the pop the abstract take, and locks, tests, sleeps and notifications
  are stutters. The fairness of `ImplementsTaskQueue` is left to TLC.

### Storage commands

* `ForwardInvariant`, `ForwardingNeverReturns`, `ShardingTypeCorrect`
  (`ShardingProofs`): `NoRevisit` and `TypeOK` for any lists. Along the hops of a
  command the score of its key increases strictly, and only the last hop may
  still forward. That `pickNode` finds a maximum rests on the finiteness of the
  list (`BestExists`, by well-foundedness of strict inclusion on its subsets).
* `ServersAreOneStore` (`StoreProofs`): `OneStore` when the lists agree
  (`SameLists`) and RocksDB does not fail. All servers then pick the same owner,
  so that a command has one or two Connections and only the owner's touches a
  database (`StoreInv`). Each step is mapped to a step of `KeyStore` or a
  stutter: the owner's answer is the moment of effect, the forwarder's relay tells
  the client. An ERROR of a forwarder comes only from a command that reached no
  owner, which is why the call it ends can be void; after `RECV_FAILED` the call
  stays pending until the owner's Connection is done.
* `GetsSeeAcknowledgedStores`: `ReadsAcknowledged` under the same assumptions. It is
  not inductive, because a GET looks at the database only when it is carried
  out: `ReadInv` says that at any time the owner's frame is that of a STORE which no
  STORE carried out so far found already acknowledged when it was sent, or the one
  on disk at the start if none has been carried out (`Fresh`), and that the frame a GET found is so with respect to the STOREs that
  were acknowledged before it.

### Server and connection pool

* `ServerTypeCorrect`, `ProcessEndsCleanly`, `PoolOwnsItsDescriptors`,
  `PeersHaveOneConnection` (`ServerProofs`): `TypeOK`, `CleanEnd`,
  `DescriptorsOwned` and `OneConnectionPerPeer` for any number of peers and
  descriptors and any limit per peer. `ServerInv` has five parts besides the
  types: a raft thread has a connection only while it holds `m_mutex`
  (`MutexInv`), from which it follows that a peer's connection is in its queue or
  in that thread's hands, never in both (`PoolInv`); what `start` sets it sets in
  its order, and until it is done a handler does nothing (`StartInv`); a thread
  that runs can be joined, and the pool outlives the raft threads (`JoinInv`);
  and whatever is still to be stopped has a stop function on the stack that
  will do it, under whatever handlers interrupted it (`StopInv`). The last part
  is what makes interrupted stops safe: a second call that finds a flag cleared
  does nothing, and the first is still below it.

### Wire

* `WireIsMessageChannel` (`WireProofs`): `Spec => WholeMessages` when `Fragmented` is
  FALSE, for every base, every set of messages and any number of them.
  `HeaderIs` shows that ntohl undoes htonl (division and remainder by `Base`,
  three times). `WireInv` relates the bytes to the messages: there is a sequence
  of chunks, a header and a body for each message sent, of which the reader has
  read the first ones, the next ones lie one after another in `inbox` and the
  rest is in `net`; the length the reader took is the one in the header it has
  read last. `Laid` says that chunks lie in a row by giving the offset of each,
  which does without a recursive concatenation. On a connection of
  `checkNodeHealth` there is PING and nothing else, and the reader closes. With
  fragments the theorem is false: that is the violation `wire_split` reports.

### Only model-checked

Liveness (`MutexReleased`, `QueuedTaskTaken`, `WorkersFree`, `StopCompletes`,
`ArrivedIsReceived` and the fairness part of `ImplementsTaskQueue`), which is out of
the prover's reach, as are ENABLED and facts by induction over data. Every other
property of a passing run is stated by a theorem. The violations are found by TLC:
they are about particular behaviours.

## 5. Not modelled, and the plan

Not modelled: logging (apart from the mutex in `Server`), configuration, JSON, the dead code (`Dispatcher`,
`datebase/`, `closePeerConnections`, `recvAll`), the measuring clients,
`uint64_t` overflow of terms and indices (out of reach of any run of the
program), SIGPIPE (a reply to a closed connection, which by default ends the
process), signals on other threads than the main one, and the use of
`m_raft_node` by tasks that are still queued when it is destroyed (Server.h:44
before Server.h:42), which is undefined behaviour. Configuration and codec
keep no state that a second actor or a failure could disturb.

Planned, in this order:

1. The pooled client's side of `Wire`: `sendRequestVote` and `sendAppendEntries` on
   a connection that is used again, including one whose last reply was spoilt.
2. Several commands on one client connection in `Sharding`.
3. Proofs about both.
