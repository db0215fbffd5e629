----------------------------- MODULE ThreadPool -----------------------------
(***************************************************************************)
(* The thread pool of src/thread_pool.c, as the gateway uses it: the main  *)
(* thread creates the workers, then asks for the queue's size and adds     *)
(* tasks (pthread_socket), until SIGINT interrupts it wherever it is and   *)
(* the handler destroys the pool (main.c).  Workers wait on the condition  *)
(* variable notify, take the oldest task from a ring of QueueSize slots    *)
(* and run it outside the lock.                                            *)
(*                                                                         *)
(* A thread is a program counter naming what it does next.  The mutex is a *)
(* flag, as in glibc: pthread_mutex_unlock clears it whoever holds it.     *)
(* ServeSpec is the pool before the signal, Spec the pool with it.         *)
(***************************************************************************)
EXTENDS Integers, Sequences, FiniteSets

CONSTANTS
  Workers,       \* the threads of the pool, thread_count of them
  Task,          \* the tasks: a function and its argument
  Garbage,       \* what malloc or the stack held where no task was written
  QueueSize,     \* queue_size
  CreateMayFail, \* whether pthread_create may fail
  CountFloor     \* bound on how far below zero the runs follow count

ASSUME ThreadPoolAssumption ==
  /\ QueueSize \in Nat \ {0}
  /\ Garbage \notin Task
  /\ CreateMayFail \in BOOLEAN
  /\ CountFloor \in Nat

\* THREADPOOL_RUNNING and THREADPOOL_SHUTDOWN
RUNNING  == 0
SHUTDOWN == 1

Slots == 0 .. QueueSize - 1

\* The slot k places after slot i.
Slot(i, k) == (i + k) % QueueSize

VARIABLES
  locked,       \* pool->lock
  queue, head, tail, count,
  shutdown,
  started,
  worker,       \* program counter of each worker
  task,         \* each worker's task
  main,         \* program counter of the main thread
  arg,          \* the task the main thread is adding
  was           \* main's program counter when threadpool_destroy was called

ring    == <<queue, head, tail, count>>
control == <<shutdown, started>>
vars == <<locked, ring, control, worker, task, main, arg, was>>

Init ==
  /\ locked = FALSE
  /\ queue = [i \in Slots |-> Garbage]
  /\ head = 0 /\ tail = 0 /\ count = 0
  /\ shutdown = RUNNING
  /\ started = 0
  /\ worker = [w \in Workers |-> "none"]
  /\ task = [w \in Workers |-> Garbage]
  /\ main = "create"
  /\ arg = Garbage
  /\ was = "create"

Lock   == ~locked /\ locked' = TRUE
Unlock == locked' = FALSE

-----------------------------------------------------------------------------
(* thread_pool_worker.                                                     *)

Goto(w, pc) == worker' = [worker EXCEPT ![w] = pc]

WorkerLock(w) ==
  /\ worker[w] = "lock"
  /\ Lock
  /\ Goto(w, "check")
  /\ UNCHANGED <<ring, control, task, main, arg, was>>

\* The loop's condition and the test for shutdown.  When the queue is empty
\* and shutdown has been read as 0 the worker is bound to wait.
WorkerCheck(w) ==
  /\ worker[w] = "check"
  /\ Goto(w, IF count = 0 /\ shutdown = RUNNING THEN "wait"
             ELSE IF shutdown = SHUTDOWN /\ count = 0 THEN "leave"
             ELSE "take")
  /\ UNCHANGED <<locked, ring, control, task, main, arg, was>>

WorkerWait(w) ==
  /\ worker[w] = "wait"
  /\ Unlock
  /\ Goto(w, "asleep")
  /\ UNCHANGED <<ring, control, task, main, arg, was>>

\* POSIX lets pthread_cond_wait return without a signal.
SpuriousWakeup(w) ==
  /\ worker[w] = "asleep"
  /\ Goto(w, "woken")
  /\ UNCHANGED <<locked, ring, control, task, main, arg, was>>

\* Mutant: an if where the code has a while.
WorkerRelockNoLoop(w) ==
  /\ worker[w] = "woken"
  /\ Lock
  /\ Goto(w, "take")
  /\ UNCHANGED <<ring, control, task, main, arg, was>>

WorkerRelock(w) ==
  /\ worker[w] = "woken"
  /\ Lock
  /\ Goto(w, "check")
  /\ UNCHANGED <<ring, control, task, main, arg, was>>

\* Mutant: head taken for the slot read last, as envDataNode_pop does.
WorkerTakeNext(w) ==
  /\ worker[w] = "take"
  /\ task' = [task EXCEPT ![w] = queue[Slot(head, 1)]]
  /\ Goto(w, "advance")
  /\ UNCHANGED <<locked, ring, control, main, arg, was>>

WorkerTake(w) ==
  /\ worker[w] = "take"
  /\ task' = [task EXCEPT ![w] = queue[head]]
  /\ Goto(w, "advance")
  /\ UNCHANGED <<locked, ring, control, main, arg, was>>

\* Mutant: the modulus forgotten.
WorkerAdvanceNoModulus(w) ==
  /\ worker[w] = "advance"
  /\ head' = head + 1
  /\ Goto(w, "count")
  /\ UNCHANGED <<locked, queue, tail, count, control, task, main, arg, was>>

WorkerAdvance(w) ==
  /\ worker[w] = "advance"
  /\ head' = Slot(head, 1)
  /\ Goto(w, "count")
  /\ UNCHANGED <<locked, queue, tail, count, control, task, main, arg, was>>

WorkerCount(w) ==
  /\ worker[w] = "count"
  /\ count > -CountFloor
  /\ count' = count - 1
  /\ Goto(w, "unlock")
  /\ UNCHANGED <<locked, queue, head, tail, control, task, main, arg, was>>

WorkerUnlock(w) ==
  /\ worker[w] = "unlock"
  /\ Unlock
  /\ Goto(w, "run")
  /\ UNCHANGED <<ring, control, task, main, arg, was>>

\* The task's function returns.
WorkerRun(w) ==
  /\ worker[w] = "run"
  /\ Goto(w, "lock")
  /\ UNCHANGED <<locked, ring, control, task, main, arg, was>>

WorkerLeave(w) ==
  /\ worker[w] = "leave"
  /\ started' = started - 1
  /\ Unlock
  /\ Goto(w, "exited")
  /\ UNCHANGED <<ring, shutdown, task, main, arg, was>>

WorkerNext(w) ==
  \/ WorkerLock(w) \/ WorkerCheck(w) \/ WorkerWait(w) \/ SpuriousWakeup(w)
  \/ WorkerRelock(w) \/ WorkerTake(w) \/ WorkerAdvance(w) \/ WorkerCount(w)
  \/ WorkerUnlock(w) \/ WorkerRun(w) \/ WorkerLeave(w)

-----------------------------------------------------------------------------
(* threadpool_create, once the structure is allocated.                     *)

CreateWorker(w) ==
  /\ main = "create" /\ worker[w] = "none"
  /\ Goto(w, "lock")
  /\ started' = started + 1
  /\ UNCHANGED <<locked, ring, shutdown, task, main, arg, was>>

Created ==
  /\ main = "create" /\ \A w \in Workers : worker[w] # "none"
  /\ main' = "idle"
  /\ UNCHANGED <<locked, ring, control, worker, task, arg, was>>

\* pthread_create fails: threadpool_destroy(pool, 0) leaves shutdown at 0.
CreateFails ==
  /\ CreateMayFail
  /\ main = "create" /\ \E w \in Workers : worker[w] = "none"
  /\ main' = "broadcast"
  /\ UNCHANGED <<locked, ring, control, worker, task, arg, was>>

-----------------------------------------------------------------------------
(* threadpool_queue_size and threadpool_thread_count read one field under  *)
(* the lock.                                                               *)

GetterLock ==
  /\ main = "idle"
  /\ Lock
  /\ main' = "get"
  /\ UNCHANGED <<ring, control, worker, task, arg, was>>

GetterUnlock ==
  /\ main = "get"
  /\ Unlock
  /\ main' = "idle"
  /\ UNCHANGED <<ring, control, worker, task, arg, was>>

-----------------------------------------------------------------------------
(* threadpool_add.                                                         *)

AddCalled(t) ==
  /\ main = "idle"
  /\ arg' = t
  /\ main' = "add_lock"
  /\ UNCHANGED <<locked, ring, control, worker, task, was>>

AddLock ==
  /\ main = "add_lock"
  /\ Lock
  /\ main' = "add_check"
  /\ UNCHANGED <<ring, control, worker, task, arg, was>>

\* Mutant: the early return forgets the mutex.
AddRejectNoUnlock ==
  /\ main = "add_check" /\ (count = QueueSize \/ shutdown # RUNNING)
  /\ main' = "idle"
  /\ UNCHANGED <<locked, ring, control, worker, task, arg, was>>

AddReject ==
  /\ main = "add_check" /\ (count = QueueSize \/ shutdown # RUNNING)
  /\ Unlock
  /\ main' = "idle"
  /\ UNCHANGED <<ring, control, worker, task, arg, was>>

AddStore ==
  /\ main = "add_check" /\ count # QueueSize /\ shutdown = RUNNING
  /\ queue' = [queue EXCEPT ![tail] = arg]
  /\ tail' = Slot(tail, 1)
  /\ main' = "add_count"
  /\ UNCHANGED <<locked, head, count, control, worker, task, arg, was>>

AddCount ==
  /\ main = "add_count"
  /\ count' = count + 1
  /\ main' = "add_signal"
  /\ UNCHANGED <<locked, queue, head, tail, control, worker, task, arg, was>>

\* Mutant: a task added to a queue that is not empty does not signal.
AddSignalFirstOnly ==
  /\ main = "add_signal"
  /\ IF count = 1 /\ \E w \in Workers : worker[w] = "asleep"
     THEN \E w \in Workers : worker[w] = "asleep" /\ Goto(w, "woken")
     ELSE UNCHANGED worker
  /\ main' = "add_unlock"
  /\ UNCHANGED <<locked, ring, control, task, arg, was>>

\* Mutant: no signal.
AddNoSignal ==
  /\ main = "add_signal"
  /\ main' = "add_unlock"
  /\ UNCHANGED <<locked, ring, control, worker, task, arg, was>>

AddSignal ==
  /\ main = "add_signal"
  /\ IF \E w \in Workers : worker[w] = "asleep"
     THEN \E w \in Workers : worker[w] = "asleep" /\ Goto(w, "woken")
     ELSE UNCHANGED worker
  /\ main' = "add_unlock"
  /\ UNCHANGED <<locked, ring, control, task, arg, was>>

AddUnlock ==
  /\ main = "add_unlock"
  /\ Unlock
  /\ main' = "idle"
  /\ UNCHANGED <<ring, control, worker, task, arg, was>>

-----------------------------------------------------------------------------
(* threadpool_destroy.                                                     *)

MainHolds == {"get", "add_check", "add_count", "add_signal", "add_unlock"}

\* SIGINT: the handler tests and sets shutdown without the lock, and main
\* never goes on with what it was doing.
Interrupt ==
  /\ main \in {"idle", "add_lock"} \cup MainHolds
  /\ shutdown' = SHUTDOWN
  /\ was' = main
  /\ main' = "broadcast"
  /\ UNCHANGED <<locked, ring, started, worker, task, arg>>

\* Mutant: one worker is woken where all have to be.
BroadcastToOne ==
  /\ main = "broadcast"
  /\ IF \E w \in Workers : worker[w] = "asleep"
     THEN \E w \in Workers : worker[w] = "asleep" /\ Goto(w, "woken")
     ELSE UNCHANGED worker
  /\ main' = "unlock"
  /\ UNCHANGED <<locked, ring, control, task, arg, was>>

Broadcast ==
  /\ main = "broadcast"
  /\ worker' = [w \in Workers |-> IF worker[w] = "asleep" THEN "woken" ELSE worker[w]]
  /\ main' = "unlock"
  /\ UNCHANGED <<locked, ring, control, task, arg, was>>

\* The lock is cleared, whoever holds it.
DestroyUnlock ==
  /\ main = "unlock"
  /\ Unlock
  /\ main' = "join"
  /\ UNCHANGED <<ring, control, worker, task, arg, was>>

\* Mutant: the loop stops one thread short.
JoinAllButOne ==
  /\ main = "join"
  /\ \E v \in Workers : \A w \in Workers \ {v} : worker[w] = "exited"
  /\ main' = "mutex_destroy"
  /\ UNCHANGED <<locked, ring, control, worker, task, arg, was>>

\* Joins are in order of creation: one thread that stays is enough to block.
Join ==
  /\ main = "join" /\ \A w \in Workers : worker[w] = "exited"
  /\ main' = "mutex_destroy"
  /\ UNCHANGED <<locked, ring, control, worker, task, arg, was>>

\* With no thread created, pthread_join is given what malloc left there.
JoinGarbage ==
  /\ main = "join" /\ \A w \in Workers : worker[w] = "none"
  /\ main' = "crashed"
  /\ UNCHANGED <<locked, ring, control, worker, task, arg, was>>

\* glibc counts the users of a mutex.  An unlock without a lock leaves the
\* count one too low, so that pthread_mutex_destroy answers EBUSY, unless the
\* two racing updates of the count cancelled out.
Free ==
  /\ main = "mutex_destroy"
  /\ main' = "freed"
  /\ UNCHANGED <<locked, ring, control, worker, task, arg, was>>

MutexBusy ==
  /\ main = "mutex_destroy" /\ was \notin MainHolds
  /\ main' = "failed"
  /\ UNCHANGED <<locked, ring, control, worker, task, arg, was>>

-----------------------------------------------------------------------------
CreateNext == Created \/ \E w \in Workers : CreateWorker(w)

AddNext ==
  \/ GetterLock \/ GetterUnlock
  \/ \E t \in Task : AddCalled(t)
  \/ AddLock \/ AddReject \/ AddStore \/ AddCount \/ AddSignal \/ AddUnlock

DestroyNext ==
  \/ CreateFails \/ Interrupt
  \/ Broadcast \/ DestroyUnlock \/ Join \/ JoinGarbage \/ Free \/ MutexBusy

ServeNext == CreateNext \/ AddNext \/ \E w \in Workers : WorkerNext(w)

Next == ServeNext \/ DestroyNext

ServeSpec == Init /\ [][ServeNext]_vars

Spec == Init /\ [][Next]_vars

\* A thread that can run does run, and the mutex is granted to a thread that
\* keeps asking for it.  Nothing is assumed of the tasks' end, of what clients
\* ask for, of SIGINT and of spurious wakeups.
WorkerFairness(w) ==
  /\ SF_vars(WorkerLock(w)) /\ SF_vars(WorkerRelock(w))
  /\ WF_vars(WorkerCheck(w)) /\ WF_vars(WorkerWait(w)) /\ WF_vars(WorkerTake(w))
  /\ WF_vars(WorkerAdvance(w)) /\ WF_vars(WorkerCount(w))
  /\ WF_vars(WorkerUnlock(w)) /\ WF_vars(WorkerLeave(w))

Fairness ==
  /\ \A w \in Workers : WorkerFairness(w)
  /\ WF_vars(CreateNext)
  /\ SF_vars(AddLock)
  /\ WF_vars(GetterUnlock) /\ WF_vars(AddReject) /\ WF_vars(AddStore)
  /\ WF_vars(AddCount) /\ WF_vars(AddSignal) /\ WF_vars(AddUnlock)
  /\ WF_vars(Broadcast) /\ WF_vars(DestroyUnlock) /\ WF_vars(Join)
  /\ WF_vars(JoinGarbage) /\ WF_vars(Free \/ MutexBusy)

FairServeSpec == ServeSpec /\ Fairness

FairSpec == Spec /\ Fairness

-----------------------------------------------------------------------------
(* Properties.                                                             *)

WorkerHolds == {"check", "wait", "take", "advance", "count", "unlock", "leave"}

WorkerPC == WorkerHolds \cup {"none", "lock", "asleep", "woken", "run", "exited"}

MainPC ==
  MainHolds \cup {"create", "idle", "add_lock", "broadcast", "unlock", "join",
                  "mutex_destroy", "freed", "failed", "crashed"}

\* The type of the pool while it serves.
TypeOK ==
  /\ locked \in BOOLEAN
  /\ queue \in [Slots -> Task \cup {Garbage}]
  /\ head \in Slots /\ tail \in Slots
  /\ count \in 0 .. QueueSize
  /\ shutdown = RUNNING
  /\ started \in Int
  /\ worker \in [Workers -> WorkerPC]
  /\ task \in [Workers -> Task \cup {Garbage}]
  /\ main \in {"create", "idle", "add_lock"} \cup MainHolds
  /\ arg \in Task \cup {Garbage}
  /\ was = "create"

\* The lock is taken exactly when one thread is between its lock and its
\* unlock, and never are two (src/thread_pool.c:17-29, :102-124).
LockDiscipline ==
  /\ \A v, w \in Workers :
       worker[v] \in WorkerHolds /\ worker[w] \in WorkerHolds => v = w
  /\ \A w \in Workers : main \in MainHolds => worker[w] \notin WorkerHolds
  /\ locked <=> \/ main \in MainHolds
                \/ \E w \in Workers : worker[w] \in WorkerHolds

\* The tasks that wait: count of them from head on, one less while a worker
\* has moved head and not yet corrected count.
Size == IF \E w \in Workers : worker[w] = "count" THEN count - 1 ELSE count

WaitingTasks == [k \in 1 .. Size |-> queue[Slot(head, k - 1)]]

RunningTasks ==
  [w \in Workers |-> IF worker[w] \in {"count", "unlock", "run"}
                     THEN task[w] ELSE Garbage]

\* head, tail and count, three counters updated one by one, agree: every task
\* that waits was stored, tail is the slot after the last of them, and a
\* worker that takes a task finds one (src/thread_pool.c:25-28, :114-117).
RingAgrees ==
  /\ Size \in 0 .. QueueSize
  /\ main = "add_count" => Size < QueueSize
  /\ tail = Slot(head, IF main = "add_count" THEN Size + 1 ELSE Size)
  /\ \A k \in 0 .. Size - 1 : queue[Slot(head, k)] \in Task
  /\ main = "add_count" => queue[Slot(head, Size)] \in Task
  /\ \A w \in Workers : worker[w] \in {"take", "advance"} => count > 0

Pool == INSTANCE TaskPool
          WITH waiting <- WaitingTasks, running <- RunningTasks,
               Nothing <- Garbage, Bound <- QueueSize

\* The pool implements the abstract one: tasks are started once each, in the
\* order in which they were added.
ImplementsTaskPool == Pool!Spec

TasksEnd == \A w \in Workers : []<>(worker[w] # "run")

\* Every task that was added is started, provided that tasks end.
TasksAreStarted ==
  TasksEnd => \A t \in Task :
    (\E k \in 1 .. Size : WaitingTasks[k] = t)
      ~> (\E w \in Workers : RunningTasks[w] = t)

\* No worker sleeps on while a task waits, even if the tasks that run never
\* end: each add wakes a worker of its own.
NoneSleepsOnWork ==
  (Size > 0 /\ \E w \in Workers : worker[w] = "asleep")
    ~> (Size = 0 \/ \A w \in Workers : worker[w] # "asleep")

\* The pool's memory is released only when no worker can touch it any more,
\* although workers and the handler fight over the mutex
\* (src/thread_pool.c:152-165).
FreedWhenUnused ==
  main \in {"freed", "failed"} => \A w \in Workers : worker[w] = "exited"

\* threadpool_destroy comes back if the queue is empty and nobody holds the
\* lock when it sets shutdown, provided that tasks end.
QuietShutdownReturns ==
  TasksEnd =>
    (main = "broadcast" /\ shutdown = SHUTDOWN /\ count = 0 /\ ~locked
       ~> main \in {"freed", "failed"})

=============================================================================
