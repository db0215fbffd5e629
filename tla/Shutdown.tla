------------------------------ MODULE Shutdown ------------------------------
(***************************************************************************)
(* SIGINT.  sigint_handler of src/main.c runs on the main thread, wherever *)
(* that is in its select loop, and releases what the threads share while   *)
(* they go on: the reading queue, the thread pool, queueOfDevice, the      *)
(* clients' slots, the log; then it exits.  The main thread never goes on  *)
(* with what it was doing, nor gives back what it held.                    *)
(*                                                                         *)
(* This module composes the threads as far as they share something with    *)
(* the handler.  The pool is TaskPool (what pool->lock adds, and what the  *)
(* handler does to it, is in ThreadPool), the reading queue a number, and  *)
(* the descriptors are left to SocketServer.  One SIGINT is sent.          *)
(***************************************************************************)
EXTENDS Integers, Sequences, FiniteSets

CONSTANTS
  Workers,
  QueueSize,    \* of the thread pool
  MAX_CLIENT,
  Capacity,     \* readings that the reading queue holds
  None,         \* no slot
  NoOne, Main   \* nobody and the main thread, as holders of the logger's mutex

Slot == 1 .. MAX_CLIENT

ASSUME ShutdownAssumption ==
  /\ QueueSize \in Nat \ {0} /\ Capacity \in Nat \ {0} /\ MAX_CLIENT \in Nat
  /\ None \notin Slot
  /\ IsFiniteSet(Workers) /\ MAX_CLIENT > QueueSize + Cardinality(Workers)
  /\ NoOne \notin Workers /\ Main \notin Workers /\ NoOne # Main

VARIABLES
  main, hand,      \* where the main thread is, and the slot it is filling
  handler,         \* where the handler is, and "off" before SIGINT
  in_use, reqs,    \* the slots in use, and whether their req are allocated
  waiting, running,
  shutdown,        \* pool->shutdown
  worker,
  rdlocked, wrlocked,
  lora, sql, revdata_mutex,
  held,            \* the readings in the queue
  envData,         \* "live", "freed" or "NULL"
  queueOfDevice,   \* "live" or "freed"
  log_mutex,       \* the logger's mutex
  process          \* "running", "exited", or what ended it

slots == <<in_use, reqs>>
pool == <<waiting, running, shutdown, worker, rdlocked>>
readings == <<wrlocked, lora, sql, revdata_mutex, held>>
shared == <<envData, queueOfDevice>>
vars == <<main, hand, handler, slots, pool, readings, shared, log_mutex, process>>

Pool == INSTANCE TaskPool WITH Task <- Slot, Nothing <- None, Bound <- QueueSize

Init ==
  /\ main = "select" /\ hand = None
  /\ handler = "off"
  /\ in_use = {} /\ reqs = "live"
  /\ Pool!Init
  /\ shutdown = FALSE
  /\ worker = [w \in Workers |-> "idle"]
  /\ rdlocked = {} /\ wrlocked = FALSE
  /\ lora = "read" /\ sql = "lock" /\ revdata_mutex = "free"
  /\ held = 0
  /\ envData = "live" /\ queueOfDevice = "live"
  /\ log_mutex = NoOne
  /\ process = "running"

LockLog(t) == log_mutex = NoOne /\ log_mutex' = t
UnlockLog == log_mutex' = NoOne

-----------------------------------------------------------------------------
(* The main thread: a request is received into a slot, logged, added to    *)
(* the pool, and that is logged.  There are slots enough (SlotsSuffice).   *)

InMain(at) == main = at /\ handler = "off"

MainGet ==
  /\ InMain("select")
  /\ \E s \in Slot \ in_use :
       /\ \A free \in Slot \ in_use : s <= free
       /\ in_use' = in_use \cup {s} /\ hand' = s
  /\ main' = "received"
  /\ UNCHANGED <<handler, reqs, pool, readings, shared, log_mutex, process>>

MainLogs ==
  /\ \/ InMain("received") /\ main' = "logging"
     \/ InMain("added") /\ main' = "logging added"
  /\ LockLog(Main)
  /\ UNCHANGED <<hand, handler, slots, pool, readings, shared, process>>

MainLogged ==
  /\ \/ InMain("logging") /\ main' = "add"
     \/ InMain("logging added") /\ main' = "select"
  /\ UnlockLog
  /\ UNCHANGED <<hand, handler, slots, pool, readings, shared, process>>

\* threadpool_add, or client_info_put when it fails.
MainAdd ==
  /\ InMain("add")
  /\ IF Len(waiting) < QueueSize
     THEN waiting' = Append(waiting, hand) /\ UNCHANGED in_use
     ELSE in_use' = in_use \ {hand} /\ UNCHANGED waiting
  /\ hand' = None
  /\ main' = "added"
  /\ UNCHANGED <<handler, reqs, running, shutdown, worker, rdlocked, readings, shared, log_mutex, process>>

MainNext == MainGet \/ MainLogs \/ MainLogged \/ MainAdd

-----------------------------------------------------------------------------
(* thread_pool_worker and pthread_recvData.                                *)

Goto(w, label) == worker' = [worker EXCEPT ![w] = label]

Take(w) ==
  /\ worker[w] = "idle" /\ waiting # << >>
  /\ running' = [running EXCEPT ![w] = Head(waiting)]
  /\ waiting' = Tail(waiting)
  /\ Goto(w, "rdlock")
  /\ UNCHANGED <<main, hand, handler, slots, shutdown, rdlocked, readings, shared, log_mutex, process>>

\* Mutant: a worker leaves whatever waits.
LeaveAtOnce(w) ==
  /\ worker[w] = "idle" /\ shutdown
  /\ Goto(w, "exited")
  /\ UNCHANGED <<main, hand, handler, slots, waiting, running, shutdown, rdlocked, readings, shared, log_mutex, process>>

Leave(w) ==
  /\ worker[w] = "idle" /\ shutdown /\ waiting = << >>
  /\ Goto(w, "exited")
  /\ UNCHANGED <<main, hand, handler, slots, waiting, running, shutdown, rdlocked, readings, shared, log_mutex, process>>

RdLock(w) ==
  /\ worker[w] = "rdlock" /\ ~wrlocked
  /\ rdlocked' = rdlocked \cup {w}
  /\ Goto(w, "parse")
  /\ UNCHANGED <<main, hand, handler, slots, waiting, running, shutdown, readings, shared, log_mutex, process>>

WorkerLogs(w) ==
  /\ worker[w] = "parse"
  /\ LockLog(w)
  /\ Goto(w, "logging")
  /\ UNCHANGED <<main, hand, handler, slots, waiting, running, shutdown, rdlocked, readings, shared, process>>

WorkerLogged(w) ==
  /\ worker[w] = "logging"
  /\ UnlockLog
  /\ Goto(w, "send")
  /\ UNCHANGED <<main, hand, handler, slots, waiting, running, shutdown, rdlocked, readings, shared, process>>

Send(w) ==
  /\ worker[w] = "send"
  /\ rdlocked' = rdlocked \ {w}
  /\ Goto(w, "put")
  /\ UNCHANGED <<main, hand, handler, slots, waiting, running, shutdown, readings, shared, log_mutex, process>>

Put(w) ==
  /\ worker[w] = "put"
  /\ in_use' = in_use \ {running[w]}
  /\ running' = [running EXCEPT ![w] = None]
  /\ Goto(w, "idle")
  /\ UNCHANGED <<main, hand, handler, reqs, waiting, shutdown, rdlocked, readings, shared, log_mutex, process>>

WorkerNext(w) ==
  Take(w) \/ Leave(w) \/ RdLock(w) \/ WorkerLogs(w) \/ WorkerLogged(w) \/ Send(w) \/ Put(w)

-----------------------------------------------------------------------------
(* The LoRa thread and the SQL thread.                                     *)

\* An access to a buffer: what is freed may still be there or not; NULL is not.
Outcomes(buffer) ==
  CASE buffer = "live" -> {"running"}
    [] buffer = "freed" -> {"running", "fault"}
    [] buffer = "NULL" -> {"fault"}

LoraLock ==
  /\ lora = "read" /\ revdata_mutex = "free"
  /\ revdata_mutex' = "lora"
  /\ lora' = "push"
  /\ UNCHANGED <<main, hand, handler, slots, pool, wrlocked, sql, held, shared, log_mutex, process>>

\* Mutant: the test for a full queue left out.
LoraPushBlind ==
  /\ lora = "push"
  /\ process' \in Outcomes(envData)
  /\ held' = held + 1
  /\ sql' = IF held' = Capacity /\ sql = "asleep" THEN "woken" ELSE sql
  /\ lora' = "unlock"
  /\ UNCHANGED <<main, hand, handler, slots, pool, wrlocked, revdata_mutex, shared, log_mutex>>

LoraPush ==
  /\ lora = "push"
  /\ IF held = Capacity
     THEN UNCHANGED <<held, sql, process>>
     ELSE /\ process' \in Outcomes(envData)
          /\ held' = held + 1
          /\ sql' = IF held' = Capacity /\ sql = "asleep" THEN "woken" ELSE sql
  /\ lora' = "unlock"
  /\ UNCHANGED <<main, hand, handler, slots, pool, wrlocked, revdata_mutex, shared, log_mutex>>

LoraUnlock ==
  /\ lora = "unlock"
  /\ revdata_mutex' = "free"
  /\ lora' = "read"
  /\ UNCHANGED <<main, hand, handler, slots, pool, wrlocked, sql, held, shared, log_mutex, process>>

\* pthread_mutex_lock, and pthread_cond_wait, which gives the mutex up.
SqlSleep ==
  /\ sql = "lock" /\ revdata_mutex = "free"
  /\ sql' = "asleep"
  /\ UNCHANGED <<main, hand, handler, slots, pool, wrlocked, lora, revdata_mutex, held, shared, log_mutex, process>>

SqlWake ==
  /\ sql = "woken" /\ revdata_mutex = "free"
  /\ revdata_mutex' = "sql"
  /\ sql' = "wrlock"
  /\ UNCHANGED <<main, hand, handler, slots, pool, wrlocked, lora, held, shared, log_mutex, process>>

SqlWrLock ==
  /\ sql = "wrlock" /\ rdlocked = {}
  /\ wrlocked' = TRUE
  /\ sql' = "pop"
  /\ UNCHANGED <<main, hand, handler, slots, pool, lora, revdata_mutex, held, shared, log_mutex, process>>

SqlPop ==
  /\ sql = "pop" /\ held > 0
  /\ process' \in Outcomes(envData)
  /\ held' = held - 1
  /\ sql' \in {"insert", "pop"}   \* device 0 is discarded
  /\ UNCHANGED <<main, hand, handler, slots, pool, wrlocked, lora, revdata_mutex, shared, log_mutex>>

\* is_deviceID_in_queue reads queueOfDevice and reallocates it.
SqlInsert ==
  /\ sql = "insert"
  /\ process' \in Outcomes(queueOfDevice)
  /\ sql' = "pop"
  /\ UNCHANGED <<main, hand, handler, slots, pool, wrlocked, lora, revdata_mutex, held, shared, log_mutex>>

\* Mutant: the write lock is kept.
SqlEmptyKeepsLock ==
  /\ sql = "pop" /\ held = 0
  /\ revdata_mutex' = "free"
  /\ sql' = "lock"
  /\ UNCHANGED <<main, hand, handler, slots, pool, wrlocked, lora, held, shared, log_mutex, process>>

SqlEmpty ==
  /\ sql = "pop" /\ held = 0
  /\ wrlocked' = FALSE
  /\ revdata_mutex' = "free"
  /\ sql' = "lock"
  /\ UNCHANGED <<main, hand, handler, slots, pool, lora, held, shared, log_mutex, process>>

SqlNext == SqlSleep \/ SqlWake \/ SqlWrLock \/ SqlPop \/ SqlInsert \/ SqlEmpty

-----------------------------------------------------------------------------
(* sigint_handler.                                                         *)

HandlerAt(from, to) == handler = from /\ handler' = to

Interrupt ==
  /\ HandlerAt("off", "free queue")
  /\ UNCHANGED <<main, hand, slots, pool, readings, shared, log_mutex, process>>

\* envDataNode_destroy, without revdata_mutex.
FreeQueue ==
  /\ HandlerAt("free queue", "null queue")
  /\ envData' = "freed"
  /\ UNCHANGED <<main, hand, slots, pool, readings, queueOfDevice, log_mutex, process>>

NullQueue ==
  /\ HandlerAt("null queue", "destroy pool")
  /\ envData' = "NULL"
  /\ UNCHANGED <<main, hand, slots, pool, readings, queueOfDevice, log_mutex, process>>

\* threadpool_destroy: shutdown and the broadcast, then the joins.
DestroyPool ==
  /\ HandlerAt("destroy pool", "join")
  /\ shutdown' = TRUE
  /\ UNCHANGED <<main, hand, slots, waiting, running, worker, rdlocked, readings, shared, log_mutex, process>>

Join ==
  /\ HandlerAt("join", "free devices")
  /\ \A w \in Workers : worker[w] = "exited"
  /\ UNCHANGED <<main, hand, slots, pool, readings, shared, log_mutex, process>>

FreeDevices ==
  /\ HandlerAt("free devices", "free slots")
  /\ queueOfDevice' = "freed"
  /\ UNCHANGED <<main, hand, slots, pool, readings, envData, log_mutex, process>>

\* client_info_distroy: no tid is ever anything but -1, and pthread_cancel of
\* that is an access to memory that does not exist.
FreeSlots ==
  /\ HandlerAt("free slots", "fatal")
  /\ IF in_use # {}
     THEN process' = "bad cancel" /\ UNCHANGED reqs
     ELSE reqs' = "freed" /\ UNCHANGED process
  /\ UNCHANGED <<main, hand, in_use, pool, readings, shared, log_mutex>>

\* MY_LOG_FATAL waits for the mutex, which the main thread may hold.
LogFatal ==
  /\ HandlerAt("fatal", "logged")
  /\ LockLog(Main)
  /\ UNCHANGED <<main, hand, slots, pool, readings, shared, process>>

FatalLogged ==
  /\ HandlerAt("logged", "close")
  /\ UnlockLog
  /\ UNCHANGED <<main, hand, slots, pool, readings, shared, process>>

\* logger_close, which waits for the mutex too.
CloseLog ==
  /\ HandlerAt("close", "exit")
  /\ log_mutex = NoOne
  /\ UNCHANGED <<main, hand, slots, pool, readings, shared, log_mutex, process>>

Exit ==
  /\ HandlerAt("exit", "done")
  /\ process' = "exited"
  /\ UNCHANGED <<main, hand, slots, pool, readings, shared, log_mutex>>

HandlerNext ==
  \/ FreeQueue \/ NullQueue \/ DestroyPool \/ Join \/ FreeDevices \/ FreeSlots
  \/ LogFatal \/ FatalLogged \/ CloseLog \/ Exit

-----------------------------------------------------------------------------
Running == process = "running"

Next ==
  /\ Running
  /\ \/ MainNext \/ Interrupt \/ HandlerNext
     \/ \E w \in Workers : WorkerNext(w)
     \/ LoraLock \/ LoraPush \/ LoraUnlock \/ SqlNext

Spec == Init /\ [][Next]_vars

\* Threads that can run do run, and a lock is granted to a thread that keeps
\* asking for it.  Nothing is assumed of SIGINT, of clients and of sensors.
Fairness ==
  /\ WF_vars(Running /\ HandlerNext)
  /\ SF_vars(Running /\ LogFatal) /\ SF_vars(Running /\ CloseLog)
  /\ \A w \in Workers :
       /\ WF_vars(Running /\ WorkerNext(w))
       /\ SF_vars(Running /\ RdLock(w)) /\ SF_vars(Running /\ WorkerLogs(w))
  /\ WF_vars(Running /\ (LoraPush \/ LoraUnlock))
  /\ WF_vars(Running /\ SqlNext) /\ SF_vars(Running /\ SqlWake) /\ SF_vars(Running /\ SqlWrLock)

FairSpec == Spec /\ Fairness

-----------------------------------------------------------------------------
(* Properties.                                                             *)

MainType ==
  /\ main \in {"select", "received", "logging", "add", "added", "logging added"}
  /\ hand \in Slot \cup {None}

HandlerType ==
  handler \in {"off", "free queue", "null queue", "destroy pool", "join", "free devices",
               "free slots", "fatal", "logged", "close", "exit", "done"}

SlotsType == in_use \subseteq Slot /\ reqs \in {"live", "freed"}

PoolType ==
  /\ waiting \in Seq(Slot) /\ running \in [Workers -> Slot \cup {None}]
  /\ shutdown \in BOOLEAN

WorkerType ==
  /\ worker \in [Workers -> {"idle", "rdlock", "parse", "logging", "send", "put", "exited"}]
  /\ rdlocked \subseteq Workers

ReadingsType ==
  /\ wrlocked \in BOOLEAN
  /\ lora \in {"read", "push", "unlock"}
  /\ sql \in {"lock", "asleep", "woken", "wrlock", "pop", "insert"}
  /\ revdata_mutex \in {"free", "lora", "sql"}
  /\ held \in 0 .. Capacity

SharedType ==
  /\ envData \in {"live", "freed", "NULL"} /\ queueOfDevice \in {"live", "freed"}
  /\ log_mutex \in Workers \cup {Main, NoOne}
  /\ process \in {"running", "exited", "bad cancel", "fault"}

TypeOK ==
  /\ MainType /\ HandlerType /\ SlotsType /\ PoolType /\ WorkerType
  /\ ReadingsType /\ SharedType

\* client_info_distroy comes last: when it frees the slots, crashes or the
\* process exits, every request that the pool accepted, those that waited when
\* SIGINT came included, was answered, its worker is gone and its slot given
\* back (main.c:16-26, thread_pool.c:21, thread_pool.h:13).  A slot left over is
\* the one that the main thread held between client_info_get and threadpool_add;
\* it makes pthread_cancel(-1) crash (pthread_socket.c:98-100).
AcceptedAreAnswered ==
  reqs = "freed" \/ process \in {"exited", "bad cancel"} =>
    /\ waiting = << >> /\ \A w \in Workers : worker[w] = "exited"
    /\ in_use \subseteq {hand}

\* Once the main thread was caught outside logger_log, the process comes to
\* its end, whatever the pool has to do and whoever holds rwlock and
\* revdata_mutex: main.c:8-26.
InterruptEnds == handler = "free queue" /\ log_mutex # Main ~> process # "running"

\* main.c:8, "if the signal is ctrl + c, exit the program": from wherever the
\* main thread is interrupted.
ProcessEnds == handler # "off" ~> process # "running"

=============================================================================
