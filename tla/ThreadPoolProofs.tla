-------------------------- MODULE ThreadPoolProofs --------------------------
(***************************************************************************)
(* Proofs about ThreadPool, for any number of workers and tasks: the       *)
(* workers take the tasks in order, shutting down drops none, and the pool *)
(* implements TaskQueue.                                                   *)
(***************************************************************************)
EXTENDS ThreadPool, SequenceTheorems, TLAPS

(* Whoever is between Lock and the end of the critical section holds it. *)
MutexHeld ==
    \A w \in Worker : pc[w] \in {"test", "block", "take"} => m_mutex = w

(* The destructor alone sets m_stopping, and submit has returned before. *)
StoppingInDestructor ==
    m_stopping <=> main \in {"notifyAll", "join", "done"}

(***************************************************************************)
(* The predicate of wait still holds when the worker acts on it: m_mutex   *)
(* keeps the other workers away from m_tasks.  Head(m_tasks) is defined.   *)
(***************************************************************************)
TakeIsSafe ==
    \A w \in Worker : pc[w] = "take" => m_stopping \/ m_tasks # << >>

(* taken and m_tasks are 1, 2, ... and all that submit has pushed. *)
Numbered ==
    /\ \A k \in 1..Len(taken) : taken[k] = k
    /\ \A k \in 1..Len(m_tasks) : m_tasks[k] = Len(taken) + k
    /\ submitted = Len(taken) + Len(m_tasks)
                     + (IF main = "push" THEN 1 ELSE 0)

(* A task that was taken is being run by one worker, or has ended. *)
RunOnce ==
    /\ \A w \in Worker :
         pc[w] = "run" => task[w] \in 1..Len(taken) /\ task[w] \notin finished
    /\ \A v, w \in Worker :
         pc[v] = "run" /\ pc[w] = "run" /\ task[v] = task[w] => v = w
    /\ finished \subseteq 1..Len(taken)
    /\ \A t \in 1..Len(taken) :
         t \notin finished => \E w \in Worker : pc[w] = "run" /\ task[w] = t

(* Workers leave, and the destructor returns, when nothing is left to do. *)
LeftForGood ==
    /\ \A w \in Worker : pc[w] = "exited" => m_stopping /\ m_tasks = << >>
    /\ main = "done" => \A w \in Worker : pc[w] = "exited"

PoolInv ==
    /\ TypeOK
    /\ MutexHeld
    /\ StoppingInDestructor
    /\ TakeIsSafe
    /\ Numbered
    /\ RunOnce
    /\ LeftForGood

-----------------------------------------------------------------------------
(* Initial states, and steps that leave the tasks alone *)

(* The constructor establishes the invariant. *)
LEMMA PoolInit == Init => PoolInv
<1> SUFFICES ASSUME Init PROVE PoolInv
  OBVIOUS
<1>1. TypeOK
  <2>1. m_tasks \in Seq(Task) /\ taken \in Seq(Task)
    BY EmptySeq DEF Init
  <2>2. submitted \in 0..MaxTasks
    BY TaskAssumption DEF Init
  <2> QED
    BY <2>1, <2>2 DEF Init, TypeOK
<1>2. Len(taken) = 0 /\ Len(m_tasks) = 0
  BY DEF Init
<1>3. Numbered /\ RunOnce
  BY <1>2, TaskAssumption DEF Init, Numbered, RunOnce
<1> QED
  BY <1>1, <1>3 DEF Init, PoolInv, MutexHeld, StoppingInDestructor,
                    TakeIsSafe, LeftForGood

(* Submit only begins a call. *)
LEMMA PoolSubmit == PoolInv /\ Submit => PoolInv'
<1> SUFFICES ASSUME PoolInv, Submit PROVE PoolInv'
  OBVIOUS
<1>1. TypeOK'
  BY TaskAssumption DEF PoolInv, Submit, TypeOK
<1>2. Numbered'
  BY DEF PoolInv, TypeOK, Submit, Numbered
<1> QED
  BY <1>1, <1>2 DEF PoolInv, Submit, MutexHeld, StoppingInDestructor,
                    TakeIsSafe, RunOnce, LeftForGood

(***************************************************************************)
(* Steps of the owner and of a worker that move no task: waking, locking,  *)
(* testing and sleeping keep Numbered and RunOnce.                         *)
(***************************************************************************)
LEMMA NumberedWhenKept ==
    ASSUME PoolInv, UNCHANGED <<m_tasks, history>>,
           main = "push" <=> main' = "push"
    PROVE  Numbered'
BY DEF PoolInv, Numbered, history

(* The same for RunOnce. *)
LEMMA RunOnceWhenKept ==
    ASSUME PoolInv, UNCHANGED <<task, history>>,
           \A w \in Worker : pc[w] = "run" <=> pc'[w] = "run"
    PROVE  RunOnce'
BY DEF PoolInv, RunOnce, history

(* notify_one moves at most one waiting worker to the lock. *)
LEMMA PoolSubmitNotify == PoolInv /\ SubmitNotify => PoolInv'
<1> SUFFICES ASSUME PoolInv, SubmitNotify PROVE PoolInv'
  OBVIOUS
<1>1. \/ pc' = pc
      \/ \E w \in Worker : pc[w] = "wait" /\ pc' = [pc EXCEPT ![w] = "lock"]
  BY DEF SubmitNotify, Goto
<1>2. /\ pc' \in [Worker -> {"lock", "test", "block", "wait", "take", "run",
                             "exited"}]
      /\ \A w \in Worker : pc'[w] = pc[w] \/ (pc[w] = "wait" /\ pc'[w] = "lock")
  BY <1>1 DEF PoolInv, TypeOK
<1>3. TypeOK'
  BY <1>2 DEF PoolInv, TypeOK, SubmitNotify, history
<1>4. Numbered' /\ RunOnce'
  BY <1>2, NumberedWhenKept, RunOnceWhenKept DEF SubmitNotify
<1> QED
  BY <1>2, <1>3, <1>4 DEF PoolInv, SubmitNotify, MutexHeld,
                          StoppingInDestructor, TakeIsSafe, LeftForGood

(* The destructor begins: nobody has left yet, and no submit is running. *)
LEMMA PoolStop == PoolInv /\ Stop => PoolInv'
<1> SUFFICES ASSUME PoolInv, Stop PROVE PoolInv'
  OBVIOUS
<1>1. TypeOK'
  BY DEF PoolInv, TypeOK, Stop, history
<1>2. Numbered' /\ RunOnce'
  BY NumberedWhenKept, RunOnceWhenKept DEF Stop
<1> QED
  BY <1>1, <1>2 DEF PoolInv, Stop, MutexHeld, StoppingInDestructor,
                    TakeIsSafe, LeftForGood

(* notify_all only moves waiting workers to the lock. *)
LEMMA PoolNotifyAll == PoolInv /\ NotifyAll => PoolInv'
<1> SUFFICES ASSUME PoolInv, NotifyAll PROVE PoolInv'
  OBVIOUS
<1>1. \A w \in Worker : pc'[w] = pc[w] \/ (pc[w] = "wait" /\ pc'[w] = "lock")
  BY DEF NotifyAll
<1>2. TypeOK'
  BY DEF PoolInv, TypeOK, NotifyAll, history
<1>3. Numbered' /\ RunOnce'
  BY <1>1, NumberedWhenKept, RunOnceWhenKept DEF NotifyAll
<1> QED
  BY <1>1, <1>2, <1>3 DEF PoolInv, NotifyAll, MutexHeld,
                          StoppingInDestructor, TakeIsSafe, LeftForGood

(* Past the joins every worker has left. *)
LEMMA PoolJoin == PoolInv /\ Join => PoolInv'
<1> SUFFICES ASSUME PoolInv, Join PROVE PoolInv'
  OBVIOUS
<1>1. TypeOK'
  BY DEF PoolInv, TypeOK, Join, history
<1>2. Numbered' /\ RunOnce'
  BY NumberedWhenKept, RunOnceWhenKept DEF Join
<1> QED
  BY <1>1, <1>2 DEF PoolInv, Join, MutexHeld, StoppingInDestructor,
                    TakeIsSafe, LeftForGood

(* Lock, Test, Block and SpuriousWakeup. *)
LEMMA PoolBetweenTasks ==
    ASSUME PoolInv, NEW w \in Worker,
           Lock(w) \/ Test(w) \/ Block(w) \/ SpuriousWakeup(w)
    PROVE  PoolInv'
<1>1. \A v \in Worker : v # w => pc'[v] = pc[v]
  BY DEF Lock, Test, Block, SpuriousWakeup, Goto, PoolInv, TypeOK
<1>2. pc[w] # "run" /\ pc'[w] \in {"lock", "test", "block", "wait", "take"}
  BY DEF Lock, Test, Block, SpuriousWakeup, Goto, PoolInv, TypeOK
<1>3. TypeOK'
  BY DEF Lock, Test, Block, SpuriousWakeup, Goto, PoolInv, TypeOK, history
<1>4. UNCHANGED <<m_tasks, m_stopping, main, task, history>>
  BY DEF Lock, Test, Block, SpuriousWakeup
<1>5. Numbered' /\ RunOnce'
  BY <1>1, <1>2, <1>4, NumberedWhenKept, RunOnceWhenKept
<1>6. MutexHeld'
  BY WorkerAssumption
     DEF Lock, Test, Block, SpuriousWakeup, Goto, PoolInv, TypeOK, MutexHeld
<1>7. TakeIsSafe'
  BY DEF Lock, Test, Block, SpuriousWakeup, Goto, PoolInv, TypeOK, TakeIsSafe
<1>8. StoppingInDestructor'
  BY <1>4 DEF PoolInv, StoppingInDestructor
<1>9. LeftForGood'
  <2>1. pc[w] # "exited" /\ main # "done"
    BY DEF Lock, Test, Block, SpuriousWakeup, PoolInv, LeftForGood
  <2> QED
    BY <1>1, <1>2, <1>4, <2>1 DEF PoolInv, LeftForGood
<1> QED
  BY <1>3, <1>5, <1>6, <1>7, <1>8, <1>9 DEF PoolInv

(* A worker leaves, in a state in which nothing is left to do. *)
LEMMA PoolExit ==
    ASSUME PoolInv, NEW w \in Worker, Exit(w)
    PROVE  PoolInv'
<1>1. \A v \in Worker : v # w => pc'[v] = pc[v]
  BY DEF Exit, Goto, PoolInv, TypeOK
<1>2. pc[w] = "take" /\ pc'[w] = "exited" /\ m_stopping /\ m_tasks = << >>
  BY DEF Exit, Goto, PoolInv, TypeOK
<1>3. TypeOK'
  BY DEF Exit, Goto, PoolInv, TypeOK, history
<1>4. Numbered' /\ RunOnce'
  BY <1>1, <1>2, NumberedWhenKept, RunOnceWhenKept DEF Exit
<1>5. MutexHeld'
  BY <1>1, <1>2, WorkerAssumption DEF Exit, PoolInv, MutexHeld
<1>6. StoppingInDestructor' /\ TakeIsSafe' /\ LeftForGood'
  BY <1>1, <1>2 DEF Exit, PoolInv, StoppingInDestructor, TakeIsSafe,
                    LeftForGood
<1> QED
  BY <1>3, <1>4, <1>5, <1>6 DEF PoolInv

-----------------------------------------------------------------------------
(* Steps that move a task *)

(* A push adds the next number at the end of m_tasks. *)
LEMMA PoolSubmitPush == PoolInv /\ SubmitPush => PoolInv'
<1> SUFFICES ASSUME PoolInv, SubmitPush PROVE PoolInv'
  OBVIOUS
<1> USE DEF PoolInv
<1>1. submitted = Len(taken) + Len(m_tasks) + 1 /\ submitted \in Task
  BY TaskAssumption DEF Numbered, SubmitPush, TypeOK, Task
<1>2. /\ m_tasks' \in Seq(Task)
      /\ m_tasks' # << >>
      /\ Len(m_tasks') = Len(m_tasks) + 1
      /\ \A k \in 1..Len(m_tasks) : m_tasks'[k] = m_tasks[k]
      /\ m_tasks'[Len(m_tasks) + 1] = submitted
  BY <1>1, AppendProperties DEF SubmitPush, TypeOK
<1>3. TypeOK'
  BY <1>2 DEF TypeOK, SubmitPush, history
<1>4. Numbered'
  <2>1. /\ Len(taken) \in Nat /\ Len(m_tasks) \in Nat
        /\ UNCHANGED <<taken, submitted>> /\ main' # "push"
    BY DEF TypeOK, SubmitPush, history
  <2>2. ASSUME NEW k \in 1..Len(m_tasks')
        PROVE  m_tasks'[k] = Len(taken) + k
    <3>1. CASE k = Len(m_tasks) + 1
      BY <1>1, <1>2, <2>1, <3>1
    <3>2. CASE k \in 1..Len(m_tasks)
      BY <1>2, <3>2 DEF Numbered
    <3> QED
      BY <1>2, <2>1, <3>1, <3>2
  <2> QED
    BY <1>1, <1>2, <2>1, <2>2 DEF Numbered
<1>5. RunOnce'
  BY RunOnceWhenKept DEF SubmitPush
<1>6. ~m_stopping
  BY DEF StoppingInDestructor, SubmitPush
<1> QED
  BY <1>2, <1>3, <1>4, <1>5, <1>6
     DEF SubmitPush, MutexHeld, StoppingInDestructor, TakeIsSafe, LeftForGood

(***************************************************************************)
(* Take pops what the test has seen, for nobody else holds m_mutex.        *)
(***************************************************************************)
LEMMA TakeFacts ==
    ASSUME PoolInv, NEW w \in Worker, Take(w)
    PROVE  /\ m_tasks # << >>
           /\ Head(m_tasks) = Len(taken) + 1
           /\ Head(m_tasks) \in Task
           /\ taken' \in Seq(Task)
           /\ Len(taken') = Len(taken) + 1
           /\ \A k \in 1..Len(taken) : taken'[k] = taken[k]
           /\ taken'[Len(taken) + 1] = Len(taken) + 1
           /\ m_tasks' \in Seq(Task)
           /\ Len(m_tasks') = Len(m_tasks) - 1
           /\ \A k \in 1..Len(m_tasks') : m_tasks'[k] = m_tasks[k + 1]
           /\ task'[w] = Len(taken) + 1
           /\ pc[w] = "take" /\ pc'[w] = "run"
           /\ \A v \in Worker : v # w => pc'[v] = pc[v] /\ task'[v] = task[v]
<1> USE DEF PoolInv
<1>1. m_tasks # << >>
  BY DEF Take, TakeIsSafe
<1>2. /\ m_tasks \in Seq(Task) /\ taken \in Seq(Task)
      /\ Len(m_tasks) \in Nat /\ Len(m_tasks) > 0 /\ Len(taken) \in Nat
  BY <1>1, EmptySeq, LenProperties DEF TypeOK
<1>3. Head(m_tasks) = m_tasks[1] /\ Head(m_tasks) = Len(taken) + 1
  BY <1>2 DEF Numbered
<1>4. /\ Head(m_tasks) \in Task
      /\ m_tasks' \in Seq(Task)
      /\ Len(m_tasks') = Len(m_tasks) - 1
      /\ \A k \in 1..Len(m_tasks') : m_tasks'[k] = m_tasks[k + 1]
  BY <1>1, <1>2, HeadTailProperties DEF Take
<1>5. /\ taken' \in Seq(Task)
      /\ Len(taken') = Len(taken) + 1
      /\ \A k \in 1..Len(taken) : taken'[k] = taken[k]
      /\ taken'[Len(taken) + 1] = Head(m_tasks)
  BY <1>2, <1>4, AppendProperties DEF Take
<1>6. /\ task'[w] = Len(taken) + 1
      /\ pc[w] = "take" /\ pc'[w] = "run"
      /\ \A v \in Worker : v # w => pc'[v] = pc[v] /\ task'[v] = task[v]
  BY <1>3 DEF Take, Goto, TypeOK
<1> QED
  BY <1>1, <1>3, <1>4, <1>5, <1>6

(* A task that leaves m_tasks is in taken. *)
LEMMA TakenAndLeft ==
    ASSUME PoolInv, NEW w \in Worker, Take(w)
    PROVE  Len(taken') + Len(m_tasks') = Len(taken) + Len(m_tasks)
<1>1. Len(taken) \in Nat /\ Len(m_tasks) \in Nat
  BY DEF PoolInv, TypeOK
<1>2. Len(taken') = Len(taken) + 1 /\ Len(m_tasks') = Len(m_tasks) - 1
  BY TakeFacts
<1> QED
  BY <1>1, <1>2

(* The next number moves from m_tasks to the worker that popped it. *)
LEMMA PoolTake ==
    ASSUME PoolInv, NEW w \in Worker, Take(w)
    PROVE  PoolInv'
<1> USE DEF PoolInv
<1>1. /\ Len(taken) \in Nat /\ Len(m_tasks) \in Nat
      /\ UNCHANGED <<m_stopping, main, submitted, finished>>
  BY DEF TypeOK, Take
<1>2. TypeOK'
  BY TakeFacts DEF TypeOK, Take, Goto
<1>3. Numbered'
  <2>1. \A k \in 1..Len(taken') : taken'[k] = k
    BY <1>1, TakeFacts DEF Numbered
  <2>2. ASSUME NEW k \in 1..Len(m_tasks')
        PROVE  m_tasks'[k] = Len(taken') + k
    <3>1. k + 1 \in 1..Len(m_tasks) /\ m_tasks'[k] = m_tasks[k + 1]
      BY <1>1, TakeFacts
    <3>2. m_tasks[k + 1] = Len(taken) + (k + 1) /\ k \in Nat
      BY <3>1 DEF Numbered
    <3>3. Len(taken') = Len(taken) + 1
      BY TakeFacts
    <3> QED
      BY <1>1, <3>1, <3>2, <3>3
  <2>3. Len(taken') + Len(m_tasks') = Len(taken) + Len(m_tasks)
    BY <1>1, TakenAndLeft
  <2> QED
    BY <1>1, <2>1, <2>2, <2>3 DEF Numbered
<1>4. RunOnce'
  <2>1. \A v \in Worker : v # w /\ pc'[v] = "run" =>
           task'[v] \in 1..Len(taken) /\ task'[v] \notin finished
    BY TakeFacts DEF RunOnce
  <2>2. Len(taken) + 1 \notin finished
    BY <1>1 DEF RunOnce
  <2>3. \A v \in Worker : pc'[v] = "run" =>
           task'[v] \in 1..Len(taken') /\ task'[v] \notin finished'
    BY <1>1, <2>1, <2>2, TakeFacts
  <2>4. \A u, v \in Worker :
           pc'[u] = "run" /\ pc'[v] = "run" /\ task'[u] = task'[v] => u = v
    <3>1. \A v \in Worker : v # w /\ pc'[v] = "run" => task'[v] # Len(taken) + 1
      BY <1>1, <2>1
    <3> QED
      BY <3>1, TakeFacts DEF RunOnce
  <2>5. finished' \subseteq 1..Len(taken')
    BY <1>1, TakeFacts DEF RunOnce
  <2>6. ASSUME NEW t \in 1..Len(taken'), t \notin finished'
        PROVE  \E v \in Worker : pc'[v] = "run" /\ task'[v] = t
    <3>1. CASE t = Len(taken) + 1
      BY <3>1, TakeFacts
    <3>2. CASE t \in 1..Len(taken)
      <4>1. PICK v \in Worker : pc[v] = "run" /\ task[v] = t
        BY <1>1, <2>6, <3>2 DEF RunOnce
      <4> QED
        BY <4>1, TakeFacts
    <3> QED
      BY <1>1, <3>1, <3>2, TakeFacts
  <2> QED
    BY <2>3, <2>4, <2>5, <2>6 DEF RunOnce
<1>5. MutexHeld' /\ TakeIsSafe'
  <2>1. \A v \in Worker : v # w => pc[v] \notin {"test", "block", "take"}
    BY TakeFacts DEF MutexHeld
  <2> QED
    BY <2>1, TakeFacts DEF MutexHeld, TakeIsSafe
<1>6. StoppingInDestructor' /\ LeftForGood'
  BY <1>1, TakeFacts DEF StoppingInDestructor, LeftForGood
<1> QED
  BY <1>2, <1>3, <1>4, <1>5, <1>6

(* A task that ends was run by this worker and by no other. *)
LEMMA PoolRun ==
    ASSUME PoolInv, NEW w \in Worker, Run(w)
    PROVE  PoolInv'
<1> USE DEF PoolInv
<1>1. /\ UNCHANGED <<m_tasks, m_stopping, m_mutex, main, task, submitted, taken>>
      /\ finished' = finished \cup {task[w]}
      /\ pc[w] = "run" /\ pc'[w] = "lock"
      /\ \A v \in Worker : v # w => pc'[v] = pc[v]
  BY DEF Run, Goto, TypeOK
<1>2. task[w] \in 1..Len(taken) /\ task[w] \in Task /\ Len(taken) \in Nat
  <2>1. task[w] \in 1..Len(taken) /\ Len(taken) \in Nat
    BY <1>1 DEF RunOnce, TypeOK
  <2>2. task[w] \in Task \cup {0}
    BY DEF TypeOK
  <2> QED
    BY <2>1, <2>2
<1>3. TypeOK'
  BY <1>1, <1>2 DEF TypeOK, Run, Goto
<1>4. Numbered'
  BY <1>1 DEF Numbered
<1>5. RunOnce'
  <2>1. \A v \in Worker : pc'[v] = "run" => v # w /\ pc[v] = "run"
    BY <1>1
  <2>2. \A v \in Worker : pc'[v] = "run" =>
           task'[v] \in 1..Len(taken') /\ task'[v] \notin finished'
    BY <1>1, <2>1 DEF RunOnce
  <2>3. \A u, v \in Worker :
           pc'[u] = "run" /\ pc'[v] = "run" /\ task'[u] = task'[v] => u = v
    BY <1>1, <2>1 DEF RunOnce
  <2>4. finished' \subseteq 1..Len(taken')
    BY <1>1, <1>2 DEF RunOnce
  <2>5. \A t \in 1..Len(taken') :
           t \notin finished' => \E v \in Worker : pc'[v] = "run" /\ task'[v] = t
    BY <1>1 DEF RunOnce
  <2> QED
    BY <2>2, <2>3, <2>4, <2>5 DEF RunOnce
<1>6. MutexHeld' /\ TakeIsSafe' /\ StoppingInDestructor' /\ LeftForGood'
  BY <1>1 DEF MutexHeld, TakeIsSafe, StoppingInDestructor, LeftForGood
<1> QED
  BY <1>3, <1>4, <1>5, <1>6

-----------------------------------------------------------------------------
(* The theorems *)

(* Every step keeps the invariant. *)
LEMMA PoolStep == PoolInv /\ [Next]_vars => PoolInv'
<1> SUFFICES ASSUME PoolInv, [Next]_vars PROVE PoolInv'
  OBVIOUS
<1>1. CASE OwnerStep
  BY <1>1, PoolSubmitPush, PoolSubmitNotify, PoolNotifyAll, PoolJoin
     DEF OwnerStep
<1>2. ASSUME NEW w \in Worker, WorkerStep(w) \/ Run(w) \/ SpuriousWakeup(w)
      PROVE  PoolInv'
  BY <1>2, PoolBetweenTasks, PoolExit, PoolTake, PoolRun DEF WorkerStep
<1>3. CASE UNCHANGED vars
  BY <1>3 DEF vars, PoolInv, TypeOK, MutexHeld, StoppingInDestructor,
              TakeIsSafe, Numbered, RunOnce, LeftForGood
<1> QED
  BY <1>1, <1>2, <1>3, PoolSubmit, PoolStop DEF Next, Terminated

(***************************************************************************)
(* The invariant of the pool: mutual exclusion of the workers, and the     *)
(* whereabouts of every task from submit to the end of its call.           *)
(***************************************************************************)
THEOREM PoolInvariant == Spec => []PoolInv
BY PoolInit, PoolStep, PTL DEF Spec

(***************************************************************************)
(* The variables of the pool keep their types: workerLoop never pops from  *)
(* an empty m_tasks.                                                       *)
(***************************************************************************)
THEOREM PoolTypeCorrect == Spec => []TypeOK
<1>1. PoolInv => TypeOK
  BY DEF PoolInv
<1> QED
  BY <1>1, PoolInvariant, PTL

(***************************************************************************)
(* Accepted connections are handled in order and by one worker each, for   *)
(* any number of workers and connections.                                  *)
(***************************************************************************)
THEOREM TasksTakenInOrder == Spec => []TakenInOrder
<1>1. PoolInv => TakenInOrder
  <2> SUFFICES ASSUME PoolInv PROVE TakenInOrder
    OBVIOUS
  <2> DEFINE N == Len(taken) + Len(m_tasks)
             count == [k \in 1..N |-> k]
  <2>1. /\ taken \in Seq(Nat) /\ m_tasks \in Seq(Nat)
        /\ Len(taken) \in Nat /\ Len(m_tasks) \in Nat /\ N \in Nat
    BY SeqMonotonic, TaskAssumption, LenProperties DEF PoolInv, TypeOK, Task
  <2>2. count \in Seq(Nat) /\ Len(count) = N
    BY <2>1
  <2>3. /\ taken \o m_tasks \in Seq(Nat)
        /\ Len(taken \o m_tasks) = N
        /\ \A i \in 1..N : (taken \o m_tasks)[i] =
              IF i <= Len(taken) THEN taken[i] ELSE m_tasks[i - Len(taken)]
    BY <2>1, ConcatProperties
  <2>4. \A i \in 1..N : (taken \o m_tasks)[i] = count[i]
    BY <2>1, <2>3 DEF PoolInv, Numbered
  <2> HIDE DEF count, N
  <2>5. taken \o m_tasks = count
    BY <2>2, <2>3, <2>4, SeqEqual
  <2> QED
    BY <2>5 DEF count, N, TakenInOrder, PoolInv, RunOnce
<1> QED
  BY <1>1, PoolInvariant, PTL

(***************************************************************************)
(* The destructor returns only after every submitted task has been run to  *)
(* its end, whatever notifications the workers missed.                     *)
(***************************************************************************)
THEOREM ShutdownDropsNothing == Spec => []NothingDropped
<1>1. PoolInv => NothingDropped
  <2> SUFFICES ASSUME PoolInv, main = "done"
               PROVE  finished = 1..submitted
    BY DEF PoolInv, LeftForGood, NothingDropped
  <2>1. \A w \in Worker : pc[w] = "exited"
    BY DEF PoolInv, LeftForGood
  <2>2. m_tasks = << >>
    BY <2>1, WorkerAssumption DEF PoolInv, LeftForGood
  <2>3. submitted = Len(taken)
    BY <2>2 DEF PoolInv, Numbered, TypeOK
  <2> QED
    BY <2>1, <2>3 DEF PoolInv, RunOnce
<1> QED
  BY <1>1, PoolInvariant, PTL

-----------------------------------------------------------------------------
(* The refinement *)

(***************************************************************************)
(* The pool implements TaskQueue, except for what must happen: SubmitPush  *)
(* is Put, Take is Start, Run is End, Stop is Close and Join is Destroy;   *)
(* all other steps leave the abstract queue as it is.                      *)
(***************************************************************************)
LEMMA QueueInit == Init => Queue!Init
BY DEF Init, Queue!Init

(* What the abstract queue cannot see. *)
LEMMA QueueUnchanged ==
    ASSUME PoolInv, UNCHANGED <<m_tasks, task, taken, finished, m_stopping>>,
           main' = "done" <=> main = "done",
           \A w \in Worker : pc'[w] = "run" <=> pc[w] = "run"
    PROVE  UNCHANGED Queue!vars
BY DEF Queue!vars

(* Every step of the pool is a step of the queue, or none. *)
LEMMA QueueStep == PoolInv /\ PoolInv' /\ [Next]_vars => [Queue!Next]_(Queue!vars)
<1> SUFFICES ASSUME PoolInv, PoolInv', [Next]_vars
             PROVE  [Queue!Next]_(Queue!vars)
  OBVIOUS
<1> USE DEF PoolInv
<1>1. CASE Submit \/ SubmitNotify \/ NotifyAll
  <2>1. /\ UNCHANGED <<m_tasks, task, taken, finished, m_stopping>>
        /\ main' # "done" /\ main # "done"
    BY <1>1 DEF Submit, SubmitNotify, NotifyAll, history
  <2>2. \A w \in Worker : pc'[w] = "run" <=> pc[w] = "run"
    BY <1>1 DEF Submit, SubmitNotify, NotifyAll, Goto, TypeOK
  <2> QED
    BY <2>1, <2>2, QueueUnchanged
<1>2. CASE Stop
  <2>1. ~m_stopping /\ m_stopping' /\ main # "done" /\ main' # "done"
        /\ UNCHANGED <<m_tasks, pc, task, taken, finished>>
    BY <1>2 DEF Stop, StoppingInDestructor, history
  <2>2. Queue!Close
    BY <2>1 DEF Queue!Close
  <2> QED
    BY <2>2 DEF Queue!Next
<1>3. CASE SubmitPush
  <2>1. /\ ~m_stopping /\ ~m_stopping'
        /\ main # "done" /\ main' # "done"
        /\ m_tasks' = Append(m_tasks, submitted)
        /\ UNCHANGED <<pc, task, taken, finished>>
    BY <1>3 DEF SubmitPush, StoppingInDestructor, history
  <2>2. /\ submitted = Len(taken) + Len(m_tasks) + 1
        /\ Len(taken) + Len(m_tasks) < MaxTasks
        /\ Len(taken) + Len(m_tasks') = Len(taken) + Len(m_tasks) + 1
    BY <1>3, <2>1, TaskAssumption DEF SubmitPush, Numbered, TypeOK
  <2>3. Queue!Put
    BY <2>1, <2>2 DEF Queue!Put
  <2> QED
    BY <2>3 DEF Queue!Next
<1>4. CASE Join
  <2>1. /\ main = "join" /\ main' = "done" /\ m_stopping
        /\ \A w \in Worker : pc[w] = "exited"
        /\ UNCHANGED <<m_tasks, m_stopping, pc, task, taken, finished>>
    BY <1>4 DEF Join, StoppingInDestructor, history
  <2>2. m_tasks = << >>
    BY <2>1, WorkerAssumption DEF LeftForGood
  <2>3. Queue!Destroy
    BY <2>1, <2>2 DEF Queue!Destroy
  <2> QED
    BY <2>3 DEF Queue!Next
<1>5. ASSUME NEW w \in Worker,
             Lock(w) \/ Test(w) \/ Block(w) \/ SpuriousWakeup(w) \/ Exit(w)
      PROVE  UNCHANGED Queue!vars
  <2>1. UNCHANGED <<m_tasks, task, taken, finished, m_stopping, main>>
    BY <1>5 DEF Lock, Test, Block, SpuriousWakeup, Exit, history
  <2>2. \A v \in Worker : pc'[v] = "run" <=> pc[v] = "run"
    BY <1>5 DEF Lock, Test, Block, SpuriousWakeup, Exit, Goto, TypeOK
  <2> QED
    BY <2>1, <2>2, QueueUnchanged
<1>6. ASSUME NEW w \in Worker, Take(w)
      PROVE  Queue!Start(w)
  <2> DEFINE slot(v) == IF pc[v] = "run" THEN task[v] ELSE 0
  <2>1. m_tasks # << >> /\ slot(w) = 0
    BY <1>6, TakeFacts
  <2>2. /\ Len(taken') + Len(m_tasks') = Len(taken) + Len(m_tasks)
        /\ UNCHANGED <<finished, m_stopping, main>>
        /\ m_tasks' = Tail(m_tasks)
    BY <1>6, TakenAndLeft DEF Take
  <2>3. [v \in Worker |-> slot(v)]' =
          [[v \in Worker |-> slot(v)] EXCEPT ![w] = Head(m_tasks)]
    BY <1>6, TakeFacts
  <2> QED
    BY <2>1, <2>2, <2>3 DEF Queue!Start
<1>7. ASSUME NEW w \in Worker, Run(w)
      PROVE  Queue!End(w)
  <2> DEFINE slot(v) == IF pc[v] = "run" THEN task[v] ELSE 0
  <2>1. /\ UNCHANGED <<m_tasks, m_stopping, main, task, taken>>
        /\ finished' = finished \cup {task[w]}
        /\ pc[w] = "run" /\ pc'[w] = "lock"
        /\ \A v \in Worker : v # w => pc'[v] = pc[v]
    BY <1>7 DEF Run, Goto, TypeOK
  <2>2. slot(w) = task[w] /\ slot(w) # 0
    BY <2>1 DEF RunOnce, TypeOK
  <2>3. [v \in Worker |-> slot(v)]' =
          [[v \in Worker |-> slot(v)] EXCEPT ![w] = 0]
    BY <2>1
  <2> QED
    BY <2>1, <2>2, <2>3 DEF Queue!End
<1>8. CASE UNCHANGED vars
  BY <1>8 DEF vars, Queue!vars
<1> QED
  BY <1>1, <1>2, <1>3, <1>4, <1>5, <1>6, <1>7, <1>8
     DEF Next, OwnerStep, WorkerStep, Terminated, Queue!Next

(***************************************************************************)
(* acceptLoop may treat the pool as a queue of tasks with as many slots as *)
(* there are workers: the safety part of ImplementsTaskQueue.              *)
(***************************************************************************)
THEOREM PoolIsTaskQueue == Spec => Queue!Spec
BY PoolInvariant, QueueInit, QueueStep, PTL DEF Spec, Queue!Spec

=============================================================================
