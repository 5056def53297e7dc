----------------------------- MODULE ThreadPool -----------------------------
(***************************************************************************)
(* The thread pool of yolo_server (src/src/common/thread/ThreadPool.cpp).  *)
(*                                                                         *)
(* One thread owns the pool, the main thread: acceptLoop submits a task    *)
(* for every accepted connection and, after it, ~Server destroys the pool. *)
(* The workers share m_tasks under m_mutex and sleep on m_cv; m_stopping   *)
(* is atomic and is written without m_mutex.                               *)
(***************************************************************************)
EXTENDS Naturals, Sequences, FiniteSets

CONSTANTS
    Worker,     \* the threads of m_workers
    Nobody,     \* holds a free m_mutex
    MaxTasks    \* bound: tasks submitted

(* The constructor replaces a thread count of zero by one. *)
ASSUME WorkerAssumption ==
    IsFiniteSet(Worker) /\ Worker # {} /\ Nobody \notin Worker
ASSUME TaskAssumption == MaxTasks \in Nat

(***************************************************************************)
(* Tasks are numbered in the order of their submit calls.                  *)
(*   main     where the owner is: between calls ("idle"), in submit after  *)
(*            the test ("push") and after the unlock ("notify"), in the    *)
(*            destructor ("notifyAll", "join"), past it ("done")           *)
(*   m_mutex  the worker that holds it, or Nobody; submit's critical       *)
(*            section is a single step and needs no entry of its own       *)
(*   pc       where each worker is (see the actions)                       *)
(*   task     the task a worker has taken last                             *)
(***************************************************************************)
VARIABLES m_tasks, m_stopping, m_mutex, main, pc, task

(* History: submit calls begun, tasks in the order the workers took them,  *)
(* tasks whose call has ended.                                             *)
VARIABLES submitted, taken, finished

vars == <<m_tasks, m_stopping, m_mutex, main, pc, task,
          submitted, taken, finished>>

Task == 1..MaxTasks

TypeOK ==
    /\ m_tasks \in Seq(Task)
    /\ m_stopping \in BOOLEAN
    /\ m_mutex \in Worker \cup {Nobody}
    /\ main \in {"idle", "push", "notify", "notifyAll", "join", "done"}
    /\ pc \in [Worker -> {"lock", "test", "block", "wait", "take", "run",
                          "exited"}]
    /\ task \in [Worker -> Task \cup {0}]
    /\ submitted \in 0..MaxTasks
    /\ taken \in Seq(Task)
    /\ finished \subseteq Task

Init ==
    /\ m_tasks = << >>
    /\ m_stopping = FALSE
    /\ m_mutex = Nobody
    /\ main = "idle"
    /\ pc = [w \in Worker |-> "lock"]
    /\ task = [w \in Worker |-> 0]
    /\ submitted = 0
    /\ taken = << >>
    /\ finished = {}

Goto(w, place) == pc' = [pc EXCEPT ![w] = place]

history == <<submitted, taken, finished>>

-----------------------------------------------------------------------------
(* The owner *)

(* submit begins: it returns at once when the pool is stopping. *)
Submit ==
    /\ main = "idle"
    /\ submitted < MaxTasks
    /\ ~m_stopping
    /\ main' = "push"
    /\ submitted' = submitted + 1
    /\ UNCHANGED <<m_tasks, m_stopping, m_mutex, pc, task, taken, finished>>

(* submit's critical section. *)
SubmitPush ==
    /\ main = "push"
    /\ m_mutex = Nobody
    /\ m_tasks' = Append(m_tasks, submitted)
    /\ main' = "notify"
    /\ UNCHANGED <<m_stopping, m_mutex, pc, task, history>>

(* Mutant: nobody is notified. *)
SubmitNotify_Nobody ==
    /\ main = "notify"
    /\ main' = "idle"
    /\ UNCHANGED <<m_tasks, m_stopping, m_mutex, pc, task, history>>

(* notify_one: some waiting worker wakes, if there is one. *)
SubmitNotify ==
    /\ main = "notify"
    /\ main' = "idle"
    /\ LET waiting == {w \in Worker : pc[w] = "wait"} IN
         IF waiting = {} THEN UNCHANGED pc
         ELSE \E w \in waiting : Goto(w, "lock")
    /\ UNCHANGED <<m_tasks, m_stopping, m_mutex, task, history>>

(* The destructor sets m_stopping, without m_mutex. *)
Stop ==
    /\ main = "idle"
    /\ m_stopping' = TRUE
    /\ main' = "notifyAll"
    /\ UNCHANGED <<m_tasks, m_mutex, pc, task, history>>

(* notify_all reaches the workers that are waiting now. *)
NotifyAll ==
    /\ main = "notifyAll"
    /\ pc' = [w \in Worker |-> IF pc[w] = "wait" THEN "lock" ELSE pc[w]]
    /\ main' = "join"
    /\ UNCHANGED <<m_tasks, m_stopping, m_mutex, task, history>>

(* Mutant: only one worker is joined. *)
Join_One ==
    /\ main = "join"
    /\ \E w \in Worker : pc[w] = "exited"
    /\ main' = "done"
    /\ UNCHANGED <<m_tasks, m_stopping, m_mutex, pc, task, history>>

(* Every join has returned. *)
Join ==
    /\ main = "join"
    /\ \A w \in Worker : pc[w] = "exited"
    /\ main' = "done"
    /\ UNCHANGED <<m_tasks, m_stopping, m_mutex, pc, task, history>>

-----------------------------------------------------------------------------
(* A worker *)

(* Take m_mutex, at the top of workerLoop or when wait has been woken. *)
Lock(w) ==
    /\ pc[w] = "lock"
    /\ m_mutex = Nobody
    /\ m_mutex' = w
    /\ Goto(w, "test")
    /\ UNCHANGED <<m_tasks, m_stopping, main, task, history>>

(* Evaluate the predicate of wait; m_stopping may change right after it. *)
Test(w) ==
    /\ pc[w] = "test"
    /\ Goto(w, IF m_stopping \/ m_tasks # << >> THEN "take" ELSE "block")
    /\ UNCHANGED <<m_tasks, m_stopping, m_mutex, main, task, history>>

(* wait puts the thread to sleep and releases m_mutex, in one step. *)
Block(w) ==
    /\ pc[w] = "block"
    /\ m_mutex' = Nobody
    /\ Goto(w, "wait")
    /\ UNCHANGED <<m_tasks, m_stopping, main, task, history>>

(* A condition variable may wake a thread for no reason. *)
SpuriousWakeup(w) ==
    /\ pc[w] = "wait"
    /\ Goto(w, "lock")
    /\ UNCHANGED <<m_tasks, m_stopping, m_mutex, main, task, history>>

(* Mutant: leave as soon as the pool is stopping. *)
Exit_AtOnce(w) ==
    /\ pc[w] = "take"
    /\ m_stopping
    /\ m_mutex' = Nobody
    /\ Goto(w, "exited")
    /\ UNCHANGED <<m_tasks, m_stopping, main, task, history>>

(* Leave the loop when the pool is stopping and nothing is left to do. *)
Exit(w) ==
    /\ pc[w] = "take"
    /\ m_stopping /\ m_tasks = << >>
    /\ m_mutex' = Nobody
    /\ Goto(w, "exited")
    /\ UNCHANGED <<m_tasks, m_stopping, main, task, history>>

(* Mutants: the newest task first; the task is popped but not moved out. *)
Take_Newest(w) ==
    /\ pc[w] = "take"
    /\ m_tasks # << >>
    /\ task' = [task EXCEPT ![w] = m_tasks[Len(m_tasks)]]
    /\ taken' = Append(taken, m_tasks[Len(m_tasks)])
    /\ m_tasks' = SubSeq(m_tasks, 1, Len(m_tasks) - 1)
    /\ m_mutex' = Nobody
    /\ Goto(w, "run")
    /\ UNCHANGED <<m_stopping, main, submitted, finished>>
Take_NotMoved(w) ==
    /\ pc[w] = "take"
    /\ m_tasks # << >>
    /\ taken' = Append(taken, Head(m_tasks))
    /\ m_tasks' = Tail(m_tasks)
    /\ m_mutex' = Nobody
    /\ Goto(w, "run")
    /\ UNCHANGED <<m_stopping, main, task, submitted, finished>>

(* Otherwise pop the oldest task and release m_mutex. *)
Take(w) ==
    /\ pc[w] = "take"
    /\ ~(m_stopping /\ m_tasks = << >>)
    /\ task' = [task EXCEPT ![w] = Head(m_tasks)]
    /\ taken' = Append(taken, Head(m_tasks))
    /\ m_tasks' = Tail(m_tasks)
    /\ m_mutex' = Nobody
    /\ Goto(w, "run")
    /\ UNCHANGED <<m_stopping, main, submitted, finished>>

(* The task returns or throws; the exception is swallowed either way. *)
Run(w) ==
    /\ pc[w] = "run"
    /\ finished' = finished \cup {task[w]}
    /\ Goto(w, "lock")
    /\ UNCHANGED <<m_tasks, m_stopping, m_mutex, main, task,
                   submitted, taken>>

-----------------------------------------------------------------------------
(* What a worker does between two tasks. *)
WorkerStep(w) ==
    Lock(w) \/ Test(w) \/ Block(w) \/ Exit(w) \/ Take(w)

OwnerStep == SubmitPush \/ SubmitNotify \/ NotifyAll \/ Join

(* The pool is destroyed and its threads are gone. *)
Terminated == main = "done" /\ UNCHANGED vars

Next ==
    \/ Submit
    \/ Stop
    \/ OwnerStep
    \/ \E w \in Worker : WorkerStep(w) \/ Run(w) \/ SpuriousWakeup(w)
    \/ Terminated

Spec == Init /\ [][Next]_vars

(***************************************************************************)
(* A thread that can run does: a call of the owner that was begun goes on  *)
(* and a worker between two tasks runs.  Nothing makes acceptLoop submit   *)
(* or stop, a task may never end (Connection::handle serves its client for *)
(* as long as that keeps sending), and no spurious wakeup is promised.     *)
(***************************************************************************)
FairSpec ==
    /\ Spec
    /\ WF_vars(OwnerStep)
    /\ \A w \in Worker : WF_vars(WorkerStep(w))

(* The same when, in addition, every client ends its connection. *)
TasksEndSpec == FairSpec /\ \A w \in Worker : WF_vars(Run(w))

-----------------------------------------------------------------------------
(* Properties *)

(***************************************************************************)
(* Every accepted connection is handled by exactly one worker, and the     *)
(* workers take them in the order of acceptLoop's submit calls, however    *)
(* the wakeups of notify_one fall.                                         *)
(***************************************************************************)
TakenInOrder ==
    /\ taken \o m_tasks =
         [k \in 1..(Len(taken) + Len(m_tasks)) |-> k]
    /\ \A v, w \in Worker :
         pc[v] = "run" /\ pc[w] = "run" /\ task[v] = task[w] => v = w

(***************************************************************************)
(* A worker leaves only when nothing is left to do, and once the           *)
(* destructor returns every task ever submitted has been run to its end:   *)
(* stopping the pool drops no accepted connection.                         *)
(***************************************************************************)
NothingDropped ==
    /\ \A w \in Worker : pc[w] = "exited" => m_stopping /\ m_tasks = << >>
    /\ main = "done" => finished = 1..submitted

(***************************************************************************)
(* No task is left in the queue while a worker could take it: a queued     *)
(* task is taken in the end unless every worker becomes busy with a task   *)
(* of its own.  submit's notify_one is never lost, because the task is     *)
(* pushed under m_mutex.                                                   *)
(***************************************************************************)
QueuedTaskTaken ==
    \A t \in Task :
       (\E k \in 1..Len(m_tasks) : m_tasks[k] = t) ~>
         \/ \E k \in 1..Len(taken) : taken[k] = t
         \/ \A w \in Worker : pc[w] = "run"

(***************************************************************************)
(* The pool implements the abstract task queue: m_tasks is its queue, a    *)
(* worker inside task() an occupied slot, and the end of the destructor    *)
(* the destruction of the queue.  The steps between, and the spurious and  *)
(* missed wakeups, cannot be seen from outside.                            *)
(***************************************************************************)
Queue == INSTANCE TaskQueue WITH
    Slot <- Worker,
    accepted <- Len(taken) + Len(m_tasks),
    queue <- m_tasks,
    slot <- [w \in Worker |-> IF pc[w] = "run" THEN task[w] ELSE 0],
    ended <- finished,
    phase <- IF main = "done" THEN "destroyed"
             ELSE IF m_stopping THEN "closing" ELSE "open"

(***************************************************************************)
(* acceptLoop may treat the pool as that queue, also in what must happen:  *)
(* no accepted connection waits while a worker stays free.                 *)
(***************************************************************************)
ImplementsTaskQueue == Queue!FairSpec

(***************************************************************************)
(* Once the destructor has begun it returns: all workers see m_stopping    *)
(* and leave, as the threads do in the lifecycle of README.md:41-46.       *)
(***************************************************************************)
ShutdownCompletes == m_stopping ~> main = "done"

=============================================================================
