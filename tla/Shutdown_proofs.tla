--------------------------- MODULE Shutdown_proofs ---------------------------
(***************************************************************************)
(* Proofs about the shutdown, for any number of workers and slots and any  *)
(* size of the queues: types; that what the pool accepted is answered      *)
(* before the process comes to its end; that the main thread never lacks a *)
(* slot; and that the process does not exit when SIGINT catches the main   *)
(* thread inside logger_log.                                               *)
(***************************************************************************)
EXTENDS Shutdown, FiniteSetTheorems, TLAPS

\* The slot in the main thread's hand, and that of a worker, follow from where
\* they are.
HandAt == hand # None <=> main \in {"received", "logging", "add"}

RunningAt == \A w \in Workers : running[w] # None <=> worker[w] \notin {"idle", "exited"}

TInv == TypeOK /\ HandAt /\ RunningAt

Queued == {waiting[k] : k \in 1 .. Len(waiting)}
Held == {running[w] : w \in Workers}

\* threadpool_destroy comes after SIGINT, so the main thread adds nothing any more
\* once the pool is shut down, and a worker exits only when nothing waits.
ExitsLate ==
  /\ shutdown => handler \notin {"off", "free queue", "null queue", "destroy pool"}
  /\ \A w \in Workers : worker[w] = "exited" => shutdown /\ waiting = << >>

\* What comes after the joins, and what ends the process.
JoinsFirst ==
  /\ handler \in {"free devices", "free slots", "fatal", "logged", "close", "exit", "done"} =>
       \A w \in Workers : worker[w] = "exited"
  /\ reqs = "freed" \/ process \in {"exited", "bad cancel"} =>
       handler \in {"fatal", "logged", "close", "exit", "done"}

\* A slot in use waits, is served, or is in the main thread's hand.
SlotsPlaced == in_use \subseteq Queued \cup Held \cup {hand}

\* The pool queues no more than its ring holds.
QueueBounded == Len(waiting) <= QueueSize

\* Who holds the logger's mutex.  When the main thread was caught holding it, the
\* handler does not get past MY_LOG_FATAL.
LogHeld ==
  /\ main \in {"logging", "logging added"} =>
       log_mutex = Main /\ handler \notin {"logged", "close", "exit", "done"}
  /\ \A w \in Workers : worker[w] = "logging" => log_mutex = w
  /\ handler = "logged" => log_mutex = Main
  /\ process = "exited" => handler = "done"

\* client_info_get (src/pthread_socket.c:70) finds a free slot.
MainFindsSlot == main = "select" => \E s \in Slot : s \notin in_use

\* A process whose main thread was interrupted inside logger_log does not exit.
CaughtNeverExits ==
  handler # "off" /\ main \in {"logging", "logging added"} => process # "exited"

-----------------------------------------------------------------------------
(* Types.                                                                  *)

\* No slot is None.
LEMMA NoneIsNoSlot == None \notin Slot
BY ShutdownAssumption

\* What is not changed keeps its type.
LEMMA Kept ==
  /\ MainType /\ HandAt /\ UNCHANGED <<main, hand>> => MainType' /\ HandAt'
  /\ HandlerType /\ UNCHANGED handler => HandlerType'
  /\ SlotsType /\ UNCHANGED slots => SlotsType'
  /\ PoolType /\ UNCHANGED <<waiting, running, shutdown>> => PoolType'
  /\ WorkerType /\ UNCHANGED <<worker, rdlocked>> => WorkerType'
  /\ RunningAt /\ UNCHANGED <<worker, running>> => RunningAt'
  /\ ReadingsType /\ UNCHANGED readings => ReadingsType'
  /\ SharedType /\ UNCHANGED <<shared, log_mutex, process>> => SharedType'
BY DEF MainType, HandAt, HandlerType, SlotsType, slots, PoolType, WorkerType, RunningAt,
       ReadingsType, readings, SharedType, shared

\* The types hold at the start.
LEMMA InitTypes == Init => TInv
<1> SUFFICES ASSUME Init PROVE TInv
  OBVIOUS
<1> USE DEF Init
<1>1. MainType /\ HandAt /\ HandlerType
  BY DEF MainType, HandAt, HandlerType
<1>2. SlotsType
  BY DEF SlotsType
<1>3. PoolType
  <2>1. waiting \in Seq(Slot) /\ running \in [Workers -> Slot \cup {None}]
    BY DEF Pool!Init
  <2>2. shutdown \in BOOLEAN
    OBVIOUS
  <2>3. QED
    BY <2>1, <2>2 DEF PoolType
<1>4. WorkerType /\ RunningAt
  BY DEF WorkerType, RunningAt, Pool!Init
<1>5. ReadingsType
  <2>1. wrlocked \in BOOLEAN
    OBVIOUS
  <2>2. held \in 0 .. Capacity
    BY ShutdownAssumption
  <2>3. lora = "read" /\ sql = "lock" /\ revdata_mutex = "free"
    OBVIOUS
  <2>4. QED
    BY <2>1, <2>2, <2>3, Zenon DEF ReadingsType
<1>6. SharedType
  BY DEF SharedType
<1>7. QED
  BY <1>1, <1>2, <1>3, <1>4, <1>5, <1>6 DEF TInv, TypeOK

\* The main thread.
LEMMA MainTypes == TInv /\ MainNext => TInv'
<1> SUFFICES ASSUME TInv, MainNext PROVE TInv'
  OBVIOUS
<1> USE DEF TInv, TypeOK, slots, pool, shared, InMain
<1>1. CASE MainGet
  <2>1. MainType' /\ HandAt' /\ SlotsType'
    BY <1>1, NoneIsNoSlot DEF MainGet, MainType, HandAt, SlotsType
  <2>2. QED
    BY <1>1, <2>1, Kept DEF MainGet
<1>2. CASE MainLogs
  <2>1. MainType' /\ HandAt'
    BY <1>2 DEF MainLogs, MainType, HandAt
  <2>2. SharedType'
    BY <1>2 DEF MainLogs, LockLog, SharedType
  <2>3. QED
    BY <1>2, <2>1, <2>2, Kept DEF MainLogs
<1>3. CASE MainLogged
  <2>1. MainType' /\ HandAt'
    BY <1>3 DEF MainLogged, MainType, HandAt
  <2>2. SharedType'
    BY <1>3 DEF MainLogged, UnlockLog, SharedType
  <2>3. QED
    BY <1>3, <2>1, <2>2, Kept DEF MainLogged
<1>4. CASE MainAdd
  <2>1. MainType' /\ HandAt'
    BY <1>4 DEF MainAdd, MainType, HandAt
  <2>2. SlotsType' /\ PoolType'
    BY <1>4 DEF MainAdd, MainType, HandAt, SlotsType, PoolType
  <2>3. QED
    BY <1>4, <2>1, <2>2, Kept DEF MainAdd
<1>5. QED
  BY <1>1, <1>2, <1>3, <1>4 DEF MainNext

\* A worker.
LEMMA WorkerTypes ==
  ASSUME TInv, NEW w \in Workers, WorkerNext(w)
  PROVE  TInv'
<1> USE DEF TInv, TypeOK, slots, pool, shared
<1>1. CASE Take(w)
  <2>1. Head(waiting) \in Slot /\ Tail(waiting) \in Seq(Slot)
    BY <1>1 DEF Take, PoolType
  <2>2. PoolType'
    BY <1>1, <2>1 DEF Take, PoolType
  <2>3. WorkerType'
    BY <1>1 DEF Take, WorkerType, Goto
  <2>4. RunningAt'
    BY <1>1, <2>1, NoneIsNoSlot DEF Take, PoolType, WorkerType, RunningAt, Goto
  <2>5. QED
    BY <1>1, <2>2, <2>3, <2>4, Kept DEF Take
<1>2. CASE Leave(w)
  <2>1. WorkerType' /\ RunningAt'
    BY <1>2 DEF Leave, WorkerType, RunningAt, Goto
  <2>2. QED
    BY <1>2, <2>1, Kept DEF Leave
<1>3. CASE RdLock(w)
  <2>1. WorkerType' /\ RunningAt'
    BY <1>3 DEF RdLock, WorkerType, RunningAt, Goto
  <2>2. QED
    BY <1>3, <2>1, Kept DEF RdLock
<1>4. CASE WorkerLogs(w)
  <2>1. WorkerType' /\ RunningAt' /\ SharedType'
    BY <1>4 DEF WorkerLogs, WorkerType, RunningAt, Goto, LockLog, SharedType
  <2>2. QED
    BY <1>4, <2>1, Kept DEF WorkerLogs
<1>5. CASE WorkerLogged(w)
  <2>1. WorkerType' /\ RunningAt' /\ SharedType'
    BY <1>5 DEF WorkerLogged, WorkerType, RunningAt, Goto, UnlockLog, SharedType
  <2>2. QED
    BY <1>5, <2>1, Kept DEF WorkerLogged
<1>6. CASE Send(w)
  <2>1. WorkerType' /\ RunningAt'
    BY <1>6 DEF Send, WorkerType, RunningAt, Goto
  <2>2. QED
    BY <1>6, <2>1, Kept DEF Send
<1>7. CASE Put(w)
  <2>1. WorkerType' /\ RunningAt'
    BY <1>7 DEF Put, WorkerType, RunningAt, Goto, PoolType
  <2>2. SlotsType' /\ PoolType'
    BY <1>7 DEF Put, SlotsType, PoolType
  <2>3. QED
    BY <1>7, <2>1, <2>2, Kept DEF Put
<1>8. QED
  BY <1>1, <1>2, <1>3, <1>4, <1>5, <1>6, <1>7 DEF WorkerNext

\* The LoRa thread and the SQL thread; a push tests for a full queue.
LEMMA ReadingsTypes == TInv /\ (LoraLock \/ LoraPush \/ LoraUnlock \/ SqlNext) => TInv'
<1> SUFFICES ASSUME TInv, LoraLock \/ LoraPush \/ LoraUnlock \/ SqlNext PROVE TInv'
  OBVIOUS
<1> USE DEF TInv, TypeOK, slots, pool, shared
<1>1. UNCHANGED <<main, hand, handler, slots, pool, shared, log_mutex>>
  BY DEF LoraLock, LoraPush, LoraUnlock, SqlNext, SqlSleep, SqlWake, SqlWrLock, SqlPop,
         SqlInsert, SqlEmpty
<1>2. process' = process \/ process' \in {"running", "fault"}
  BY DEF LoraLock, LoraPush, LoraUnlock, SqlNext, SqlSleep, SqlWake, SqlWrLock, SqlPop,
         SqlInsert, SqlEmpty, Outcomes, SharedType
<1>3. SharedType'
  BY <1>1, <1>2 DEF SharedType
<1>4. ReadingsType'
  <2>1. CASE LoraLock \/ LoraUnlock \/ SqlSleep \/ SqlWake \/ SqlWrLock \/ SqlInsert \/ SqlEmpty
    BY <2>1 DEF LoraLock, LoraUnlock, SqlSleep, SqlWake, SqlWrLock, SqlInsert, SqlEmpty, ReadingsType
  <2>2. CASE LoraPush \/ SqlPop
    BY <2>2, ShutdownAssumption DEF LoraPush, SqlPop, ReadingsType
  <2>3. QED
    BY <2>1, <2>2 DEF SqlNext
<1>5. QED
  BY <1>1, <1>3, <1>4, Kept

\* SIGINT and its handler.
LEMMA HandlerTypes == TInv /\ (Interrupt \/ HandlerNext) => TInv'
<1> SUFFICES ASSUME TInv, Interrupt \/ HandlerNext PROVE TInv'
  OBVIOUS
<1> USE DEF TInv, TypeOK, slots, pool, shared, HandlerAt
<1>1. UNCHANGED <<main, hand, in_use, waiting, running, worker, rdlocked, readings>>
  BY DEF Interrupt, HandlerNext, FreeQueue, NullQueue, DestroyPool, Join, FreeDevices,
         FreeSlots, LogFatal, FatalLogged, CloseLog, Exit
<1>2. HandlerType'
  BY DEF Interrupt, HandlerNext, FreeQueue, NullQueue, DestroyPool, Join, FreeDevices,
         FreeSlots, LogFatal, FatalLogged, CloseLog, Exit, HandlerType
<1>3. SlotsType' /\ PoolType'
  BY <1>1 DEF Interrupt, HandlerNext, FreeQueue, NullQueue, DestroyPool, Join, FreeDevices,
         FreeSlots, LogFatal, FatalLogged, CloseLog, Exit, SlotsType, PoolType
<1>4. SharedType'
  BY DEF Interrupt, HandlerNext, FreeQueue, NullQueue, DestroyPool, Join, FreeDevices,
         FreeSlots, LogFatal, LockLog, FatalLogged, UnlockLog, CloseLog, Exit, SharedType
<1>5. QED
  BY <1>1, <1>2, <1>3, <1>4, Kept

\* Every step keeps the types.
LEMMA TypeInductive == TInv /\ [Next]_vars => TInv'
<1>1. TInv /\ UNCHANGED vars => TInv'
  BY Kept DEF TInv, TypeOK, vars, slots, pool, shared
<1>2. QED
  BY <1>1, MainTypes, WorkerTypes, ReadingsTypes, HandlerTypes DEF Next

\* Type correctness while the process is taken down, whoever faults meanwhile.
THEOREM TypeCorrect == Spec => []TypeOK
<1>1. TInv => TypeOK
  BY DEF TInv
<1>2. QED
  BY InitTypes, TypeInductive, <1>1, PTL DEF Spec

-----------------------------------------------------------------------------
(* What the pool accepted is answered.                                     *)

SInv == ExitsLate /\ JoinsFirst /\ SlotsPlaced /\ QueueBounded

\* When nothing waits no slot is queued.
LEMMA NothingQueued ==
  ASSUME waiting = << >>
  PROVE  Queued = {}
BY DEF Queued

\* The queue after an add, and after a worker has taken its first task.
LEMMA Appended ==
  ASSUME NEW q \in Seq(Slot), NEW t \in Slot
  PROVE  {Append(q, t)[k] : k \in 1 .. Len(Append(q, t))} = {q[k] : k \in 1 .. Len(q)} \cup {t}
<1> DEFINE r == Append(q, t)
<1>1. /\ Len(r) = Len(q) + 1 /\ Len(q) \in Nat
      /\ r[Len(q) + 1] = t
      /\ \A k \in 1 .. Len(q) : r[k] = q[k]
  OBVIOUS
<1> HIDE DEF r
<1>2. \A k \in 1 .. Len(r) : k \in 1 .. Len(q) \/ k = Len(q) + 1
  BY <1>1
<1>3. {r[k] : k \in 1 .. Len(r)} = {q[k] : k \in 1 .. Len(q)} \cup {t}
  BY <1>1, <1>2
<1>4. QED
  BY <1>3 DEF r

\* The first task and the others are what was queued.
LEMMA Taken ==
  ASSUME NEW q \in Seq(Slot), q # << >>
  PROVE  {q[k] : k \in 1 .. Len(q)} = {Head(q)} \cup {Tail(q)[k] : k \in 1 .. Len(Tail(q))}
<1> DEFINE r == Tail(q)
<1>1. /\ Len(q) \in Nat /\ Len(q) >= 1
      /\ Len(r) = Len(q) - 1
      /\ Head(q) = q[1]
      /\ \A k \in 1 .. Len(r) : r[k] = q[k + 1]
  OBVIOUS
<1> HIDE DEF r
<1>2. \A k \in 1 .. Len(q) : k = 1 \/ (k - 1 \in 1 .. Len(r) /\ q[k] = r[k - 1])
  BY <1>1
<1>3. \A k \in 1 .. Len(r) : k + 1 \in 1 .. Len(q)
  BY <1>1
<1>4. {q[k] : k \in 1 .. Len(q)} = {Head(q)} \cup {r[k] : k \in 1 .. Len(r)}
  BY <1>1, <1>2, <1>3
<1>5. QED
  BY <1>4 DEF r

\* At the start nothing is in use.
LEMMA InitS == Init => SInv
<1> SUFFICES ASSUME Init PROVE SInv
  OBVIOUS
<1>1. waiting = << >> /\ Len(waiting) = 0
  BY DEF Init, Pool!Init
<1>2. ExitsLate /\ JoinsFirst /\ SlotsPlaced
  BY DEF Init, ExitsLate, JoinsFirst, SlotsPlaced
<1>3. QueueBounded
  BY <1>1, ShutdownAssumption DEF QueueBounded
<1>4. QED
  BY <1>2, <1>3 DEF SInv

\* The main thread runs only before SIGINT.
LEMMA MainS == TInv /\ SInv /\ MainNext => SInv'
<1> SUFFICES ASSUME TInv, SInv, MainNext PROVE SInv'
  OBVIOUS
<1> USE DEF slots, pool
<1>1. handler = "off" /\ UNCHANGED <<handler, reqs, running, shutdown, worker, process>>
  BY DEF MainNext, MainGet, MainLogs, MainLogged, MainAdd, InMain
<1>2. ~shutdown /\ \A w \in Workers : worker[w] # "exited"
  BY <1>1 DEF SInv, ExitsLate
<1>3. ExitsLate' /\ JoinsFirst'
  BY <1>1, <1>2 DEF SInv, ExitsLate, JoinsFirst
<1>4. SlotsPlaced' /\ QueueBounded'
  <2>1. CASE MainGet
    <3>1. hand = None /\ None \notin in_use
      BY <2>1, NoneIsNoSlot DEF MainGet, InMain, TInv, HandAt, TypeOK, SlotsType
    <3>2. waiting' = waiting /\ in_use' = in_use \cup {hand'}
      BY <2>1 DEF MainGet
    <3>3. QED
      BY <1>1, <3>1, <3>2 DEF SInv, SlotsPlaced, QueueBounded, Queued, Held
  <2>2. CASE MainLogs \/ MainLogged
    BY <1>1, <2>2 DEF MainLogs, MainLogged, SInv, SlotsPlaced, QueueBounded, Queued, Held
  <2>3. CASE MainAdd
    <3>1. hand \in Slot /\ hand' = None /\ waiting \in Seq(Slot)
      BY <2>3 DEF MainAdd, InMain, TInv, TypeOK, MainType, HandAt, PoolType
    <3>2. CASE Len(waiting) < QueueSize
      <4>1. waiting' = Append(waiting, hand) /\ in_use' = in_use
        BY <2>3, <3>2 DEF MainAdd
      <4>2. Queued' = Queued \cup {hand}
        BY <3>1, <4>1, Appended DEF Queued
      <4>3. Len(waiting') = Len(waiting) + 1
        BY <3>1, <4>1
      <4>4. QueueBounded'
        BY <3>1, <3>2, <4>3, ShutdownAssumption DEF QueueBounded
      <4>5. SlotsPlaced'
        BY <1>1, <4>1, <4>2 DEF SInv, SlotsPlaced, Held
      <4>6. QED
        BY <4>4, <4>5
    <3>3. CASE ~(Len(waiting) < QueueSize)
      <4>1. waiting' = waiting /\ in_use' = in_use \ {hand}
        BY <2>3, <3>3 DEF MainAdd
      <4>2. QED
        BY <1>1, <4>1 DEF SInv, SlotsPlaced, QueueBounded, Queued, Held
    <3>4. QED
      BY <3>2, <3>3
  <2>4. QED
    BY <2>1, <2>2, <2>3 DEF MainNext
<1>5. QED
  BY <1>3, <1>4 DEF SInv

\* A worker moves its slot from the queue to itself, and gives it back.
LEMMA WorkerS ==
  ASSUME TInv, SInv, NEW w \in Workers, WorkerNext(w)
  PROVE  SInv'
<1> USE DEF slots, pool
<1>1. UNCHANGED <<hand, handler, reqs, shutdown, process>> /\ worker[w] # "exited"
  BY DEF WorkerNext, Take, Leave, RdLock, WorkerLogs, WorkerLogged, Send, Put
<1>2. WorkerType /\ waiting \in Seq(Slot) /\ running \in [Workers -> Slot \cup {None}]
  BY DEF TInv, TypeOK, PoolType
<1>3. \A v \in Workers \ {w} : worker'[v] = worker[v]
  BY <1>2 DEF WorkerNext, Take, Leave, RdLock, WorkerLogs, WorkerLogged, Send, Put, Goto, WorkerType
<1>4. handler \notin {"free devices", "free slots", "fatal", "logged", "close", "exit", "done"}
  BY <1>1 DEF SInv, JoinsFirst
<1>5. JoinsFirst'
  BY <1>1, <1>4 DEF SInv, JoinsFirst
<1>6. CASE Take(w)
  <2>1. waiting # << >> /\ running' = [running EXCEPT ![w] = Head(waiting)] /\ waiting' = Tail(waiting)
        /\ in_use' = in_use
    BY <1>6 DEF Take
  <2>2. worker'[w] = "rdlock"
    BY <1>2, <1>6 DEF Take, Goto, WorkerType
  <2>3. ExitsLate'
    BY <1>1, <1>3, <2>1, <2>2 DEF SInv, ExitsLate
  <2>4. /\ Queued = {Head(waiting)} \cup Queued'
        /\ Len(waiting') = Len(waiting) - 1 /\ Len(waiting) \in Nat
    <3>1. Queued = {Head(waiting)} \cup {Tail(waiting)[k] : k \in 1 .. Len(Tail(waiting))}
      BY <1>2, <2>1, Taken DEF Queued
    <3>2. Queued' = {Tail(waiting)[k] : k \in 1 .. Len(Tail(waiting))}
      BY <2>1 DEF Queued
    <3>3. Len(waiting') = Len(waiting) - 1 /\ Len(waiting) \in Nat
      BY <1>2, <2>1
    <3>4. QED
      BY <3>1, <3>2, <3>3
  <2>5. running[w] = None
    BY <1>6 DEF Take, TInv, RunningAt
  <2>6. Held \subseteq Held' \cup {None} /\ Head(waiting) \in Held'
    BY <1>2, <2>1, <2>5 DEF Held
  <2>7. None \notin in_use
    BY NoneIsNoSlot DEF TInv, TypeOK, SlotsType
  <2>8. SlotsPlaced'
    BY <1>1, <2>1, <2>4, <2>6, <2>7 DEF SInv, SlotsPlaced
  <2>9. QueueBounded'
    BY <2>4, ShutdownAssumption DEF SInv, QueueBounded
  <2>10. QED
    BY <1>5, <2>3, <2>8, <2>9 DEF SInv
<1>7. CASE Put(w)
  <2>1. waiting' = waiting /\ running' = [running EXCEPT ![w] = None] /\ in_use' = in_use \ {running[w]}
    BY <1>7 DEF Put
  <2>2. worker'[w] = "idle"
    BY <1>2, <1>7 DEF Put, Goto, WorkerType
  <2>3. Held \subseteq Held' \cup {running[w]}
    BY <1>2, <2>1 DEF Held
  <2>4. SlotsPlaced'
    BY <1>1, <2>1, <2>3 DEF SInv, SlotsPlaced, Queued
  <2>5. ExitsLate'
    BY <1>1, <1>3, <2>1, <2>2 DEF SInv, ExitsLate
  <2>6. QED
    BY <1>5, <2>1, <2>4, <2>5 DEF SInv, QueueBounded
<1>8. CASE Leave(w) \/ RdLock(w) \/ WorkerLogs(w) \/ WorkerLogged(w) \/ Send(w)
  <2>1. UNCHANGED <<in_use, waiting, running>>
    BY <1>8 DEF Leave, RdLock, WorkerLogs, WorkerLogged, Send
  <2>2. worker'[w] = "exited" => shutdown /\ waiting = << >>
    BY <1>2, <1>8 DEF Leave, RdLock, WorkerLogs, WorkerLogged, Send, Goto, WorkerType
  <2>3. ExitsLate'
    BY <1>1, <1>3, <2>1, <2>2 DEF SInv, ExitsLate
  <2>4. QED
    BY <1>1, <1>5, <2>1, <2>3 DEF SInv, SlotsPlaced, QueueBounded, Queued, Held
<1>9. QED
  BY <1>6, <1>7, <1>8 DEF WorkerNext

\* The LoRa thread and the SQL thread touch no slot.
LEMMA ReadingsS == TInv /\ SInv /\ (LoraLock \/ LoraPush \/ LoraUnlock \/ SqlNext) => SInv'
<1> SUFFICES ASSUME TInv, SInv, LoraLock \/ LoraPush \/ LoraUnlock \/ SqlNext PROVE SInv'
  OBVIOUS
<1>1. UNCHANGED <<hand, handler, in_use, reqs, waiting, running, shutdown, worker>>
  BY DEF LoraLock, LoraPush, LoraUnlock, SqlNext, SqlSleep, SqlWake, SqlWrLock, SqlPop,
         SqlInsert, SqlEmpty, slots, pool
<1>2. process' = process \/ process' \in {"running", "fault"}
  BY DEF LoraLock, LoraPush, LoraUnlock, SqlNext, SqlSleep, SqlWake, SqlWrLock, SqlPop,
         SqlInsert, SqlEmpty, Outcomes, TInv, TypeOK, SharedType
<1>3. QED
  BY <1>1, <1>2 DEF SInv, ExitsLate, JoinsFirst, SlotsPlaced, QueueBounded, Queued, Held

\* The handler moves no slot, and ends the process after the joins.
LEMMA HandlerS == TInv /\ SInv /\ Running /\ (Interrupt \/ HandlerNext) => SInv'
<1> SUFFICES ASSUME TInv, SInv, Running, Interrupt \/ HandlerNext PROVE SInv'
  OBVIOUS
<1> USE DEF slots, pool, HandlerAt
<1>1. UNCHANGED <<hand, in_use, waiting, running, worker>>
  BY DEF Interrupt, HandlerNext, FreeQueue, NullQueue, DestroyPool, Join, FreeDevices,
         FreeSlots, LogFatal, FatalLogged, CloseLog, Exit
<1>2. SlotsPlaced' /\ QueueBounded'
  BY <1>1 DEF SInv, SlotsPlaced, QueueBounded, Queued, Held
<1>3. ExitsLate'
  <2>1. shutdown' => handler' \notin {"off", "free queue", "null queue", "destroy pool"}
    <3>1. CASE DestroyPool
      BY <3>1 DEF DestroyPool
    <3>2. CASE ~DestroyPool
      <4>1. shutdown' = shutdown
        BY <3>2 DEF Interrupt, HandlerNext, FreeQueue, NullQueue, Join, FreeDevices,
           FreeSlots, LogFatal, FatalLogged, CloseLog, Exit
      <4>2. handler' \in {"off", "free queue", "null queue", "destroy pool"} =>
              handler \in {"off", "free queue", "null queue", "destroy pool"}
        BY <3>2 DEF Interrupt, HandlerNext, FreeQueue, NullQueue, Join, FreeDevices,
           FreeSlots, LogFatal, FatalLogged, CloseLog, Exit
      <4>3. QED
        BY <4>1, <4>2, Zenon DEF SInv, ExitsLate
    <3>3. QED
      BY <3>1, <3>2
  <2>2. shutdown => shutdown'
    BY Zenon DEF Interrupt, HandlerNext, FreeQueue, NullQueue, DestroyPool, Join, FreeDevices,
       FreeSlots, LogFatal, FatalLogged, CloseLog, Exit
  <2>3. QED
    BY <1>1, <2>1, <2>2 DEF SInv, ExitsLate
<1>4. JoinsFirst'
  <2>1. CASE Interrupt \/ FreeQueue \/ NullQueue \/ DestroyPool
    BY <1>1, <2>1 DEF Interrupt, FreeQueue, NullQueue, DestroyPool, SInv, JoinsFirst
  <2>2. CASE Join \/ FreeDevices
    BY <1>1, <2>2 DEF Join, FreeDevices, SInv, JoinsFirst
  <2>3. CASE FreeSlots
    BY <1>1, <2>3 DEF FreeSlots, SInv, JoinsFirst
  <2>4. CASE LogFatal \/ FatalLogged \/ CloseLog \/ Exit
    BY <1>1, <2>4 DEF LogFatal, FatalLogged, CloseLog, Exit, SInv, JoinsFirst
  <2>5. QED
    BY <2>1, <2>2, <2>3, <2>4 DEF HandlerNext
<1>5. QED
  BY <1>2, <1>3, <1>4 DEF SInv

\* Every step keeps the invariant.
LEMMA Invariance == TInv /\ SInv /\ [Next]_vars => TInv' /\ SInv'
<1>1. SInv /\ UNCHANGED vars => SInv'
  <2> SUFFICES ASSUME SInv, UNCHANGED vars PROVE SInv'
    OBVIOUS
  <2> USE DEF vars, slots, pool, SInv
  <2>1. ExitsLate' /\ JoinsFirst'
    BY Zenon DEF ExitsLate, JoinsFirst
  <2>2. SlotsPlaced' /\ QueueBounded'
    BY DEF SlotsPlaced, QueueBounded, Queued, Held
  <2>3. QED
    BY <2>1, <2>2
<1>2. QED
  BY <1>1, TypeInductive, MainS, WorkerS, ReadingsS, HandlerS DEF Next

\* When the process is brought to its end every request that the pool accepted,
\* those that waited when SIGINT came included, was answered, for any number of
\* workers, slots and places in the queue; there is at least one worker, as
\* POOL_SIZE in the code.
THEOREM AcceptedFirst ==
  ASSUME Workers # {}
  PROVE  Spec => []AcceptedAreAnswered
<1>1. TInv /\ SInv => AcceptedAreAnswered
  <2> SUFFICES ASSUME TInv, SInv, reqs = "freed" \/ process \in {"exited", "bad cancel"}
               PROVE  /\ waiting = << >> /\ \A w \in Workers : worker[w] = "exited"
                      /\ in_use \subseteq {hand}
    BY DEF AcceptedAreAnswered
  <2>1. \A w \in Workers : worker[w] = "exited"
    BY DEF SInv, JoinsFirst
  <2>2. waiting = << >>
    BY <2>1 DEF SInv, ExitsLate
  <2>3. Queued = {}
    BY <2>2, NothingQueued
  <2>4. Held \subseteq {None}
    BY <2>1 DEF Held, TInv, RunningAt
  <2>5. None \notin in_use
    BY NoneIsNoSlot DEF TInv, TypeOK, SlotsType
  <2>6. QED
    BY <2>1, <2>2, <2>3, <2>4, <2>5 DEF SInv, SlotsPlaced
<1>2. QED
  BY InitTypes, InitS, Invariance, <1>1, PTL DEF Spec

-----------------------------------------------------------------------------
(* There are slots enough.                                                 *)

\* client_info_get never fails: at most QueueSize slots wait and one is with
\* each worker, so that the model may leave out what the main thread does
\* without a slot.
THEOREM MainFindsASlot == Spec => []MainFindsSlot
<1>1. TInv /\ SInv => MainFindsSlot
  <2> SUFFICES ASSUME TInv, SInv, main = "select", \A s \in Slot : s \in in_use
               PROVE  FALSE
    BY DEF MainFindsSlot
  <2> DEFINE N == 1 .. Len(waiting)
             W == {w \in Workers : running[w] # None}
             R == {running[w] : w \in W}
             g == [k \in N |-> waiting[k]]
             h == [w \in W |-> running[w]]
  <2>1. hand = None /\ Len(waiting) \in Nat /\ IsFiniteSet(Workers)
    BY ShutdownAssumption DEF TInv, HandAt, TypeOK, PoolType
  <2>2. IsFiniteSet(N) /\ Cardinality(N) = Len(waiting)
    <3> DEFINE n == Len(waiting)
    <3>1. 1 \in Int /\ n \in Int
      BY <2>1
    <3> HIDE DEF n
    <3>2. IsFiniteSet(1 .. n) /\ Cardinality(1 .. n) = IF 1 > n THEN 0 ELSE n - 1 + 1
      BY <3>1, FS_Interval
    <3>3. Cardinality(1 .. n) = n
      BY <2>1, <3>2 DEF n
    <3>4. QED
      BY <3>2, <3>3 DEF n
  <2>3. g \in Surjection(N, Queued)
    BY DEF Surjection, Queued
  <2>4. IsFiniteSet(Queued) /\ Cardinality(Queued) <= Len(waiting)
    BY <2>2, <2>3, FS_Surjection
  <2>5. IsFiniteSet(W) /\ Cardinality(W) <= Cardinality(Workers)
    BY <2>1, FS_Subset
  <2>6. h \in Surjection(W, R)
    BY DEF Surjection
  <2>7. IsFiniteSet(R) /\ Cardinality(R) <= Cardinality(W)
    BY <2>5, <2>6, FS_Surjection
  <2>8. \A s \in Slot : s \in Queued \cup R
    BY <2>1, NoneIsNoSlot DEF SInv, SlotsPlaced, Held
  <2> HIDE DEF R, W, N, g, h
  <2>9. /\ IsFiniteSet(Queued \cup R)
        /\ Cardinality(Queued \cup R) = Cardinality(Queued) + Cardinality(R) - Cardinality(Queued \cap R)
    BY <2>4, <2>7, FS_Union
  <2>10. IsFiniteSet(Queued \cap R)
    BY <2>7, FS_Subset
  <2>11. Cardinality(Slot) = MAX_CLIENT
    BY FS_Interval, ShutdownAssumption DEF Slot
  <2>12. Cardinality(Slot) <= Cardinality(Queued \cup R)
    BY <2>8, <2>9, FS_Subset
  <2>13. /\ Cardinality(Queued) \in Nat /\ Cardinality(R) \in Nat /\ Cardinality(W) \in Nat
         /\ Cardinality(Queued \cap R) \in Nat /\ Cardinality(Workers) \in Nat
    BY <2>1, <2>4, <2>5, <2>7, <2>10, FS_CardinalityType
  <2>14. QED
    BY <2>1, <2>4, <2>5, <2>7, <2>9, <2>11, <2>12, <2>13, ShutdownAssumption DEF SInv, QueueBounded
<1>2. QED
  BY InitTypes, InitS, Invariance, <1>1, PTL DEF Spec

-----------------------------------------------------------------------------
(* The logger's mutex.                                                     *)

\* The mutex changes hands only through nobody.
LEMMA LogHeldInductive == TInv /\ LogHeld /\ [Next]_vars => LogHeld'
<1> SUFFICES ASSUME TInv, LogHeld, [Next]_vars PROVE LogHeld'
  OBVIOUS
<1> USE DEF slots, pool, shared, LockLog, UnlockLog
<1>1. NoOne # Main /\ \A w \in Workers : w # NoOne /\ w # Main
  BY ShutdownAssumption
<1>2. ASSUME Running, MainNext PROVE LogHeld'
  <2>1. UNCHANGED <<handler, worker, process>> /\ handler = "off"
    BY <1>2 DEF MainNext, MainGet, MainLogs, MainLogged, MainAdd, InMain
  <2>2. CASE MainLogs
    BY <1>1, <2>1, <2>2 DEF MainLogs, LogHeld
  <2>3. CASE MainLogged
    BY <1>1, <2>1, <2>3 DEF MainLogged, InMain, LogHeld
  <2>4. CASE MainGet \/ MainAdd
    BY <2>1, <2>4 DEF MainGet, MainAdd, LogHeld
  <2>5. QED
    BY <1>2, <2>2, <2>3, <2>4 DEF MainNext
<1>3. ASSUME Running, NEW w \in Workers, WorkerNext(w) PROVE LogHeld'
  <2>1. UNCHANGED <<main, handler, process>>
    BY <1>3 DEF WorkerNext, Take, Leave, RdLock, WorkerLogs, WorkerLogged, Send, Put
  <2>2. /\ worker \in [Workers -> {"idle", "rdlock", "parse", "logging", "send", "put", "exited"}]
    BY DEF TInv, TypeOK, WorkerType
  <2>3. CASE WorkerLogs(w)
    BY <1>1, <2>1, <2>2, <2>3 DEF WorkerLogs, Goto, LogHeld
  <2>4. CASE WorkerLogged(w)
    BY <1>1, <2>1, <2>2, <2>4 DEF WorkerLogged, Goto, LogHeld
  <2>5. CASE Take(w) \/ Leave(w) \/ RdLock(w) \/ Send(w) \/ Put(w)
    <3>1. log_mutex' = log_mutex /\ \A v \in Workers : worker'[v] = "logging" => worker[v] = "logging"
      BY <2>2, <2>5 DEF Take, Leave, RdLock, Send, Put, Goto
    <3>2. QED
      BY <2>1, <3>1 DEF LogHeld
  <2>6. QED
    BY <1>3, <2>3, <2>4, <2>5 DEF WorkerNext
<1>4. ASSUME Running, LoraLock \/ LoraPush \/ LoraUnlock \/ SqlNext PROVE LogHeld'
  <2>1. UNCHANGED <<main, handler, worker, log_mutex>>
    BY <1>4 DEF LoraLock, LoraPush, LoraUnlock, SqlNext, SqlSleep, SqlWake, SqlWrLock, SqlPop,
           SqlInsert, SqlEmpty
  <2>2. process' # "exited"
    BY <1>4 DEF LoraLock, LoraPush, LoraUnlock, SqlNext, SqlSleep, SqlWake, SqlWrLock, SqlPop,
           SqlInsert, SqlEmpty, Outcomes, TInv, TypeOK, SharedType, Running
  <2>3. QED
    BY <2>1, <2>2 DEF LogHeld
<1>5. ASSUME Running, Interrupt \/ HandlerNext PROVE LogHeld'
  <2>1. UNCHANGED <<main, worker>>
    BY <1>5 DEF Interrupt, HandlerNext, FreeQueue, NullQueue, DestroyPool, Join, FreeDevices,
         FreeSlots, LogFatal, FatalLogged, CloseLog, Exit
  <2>2. CASE LogFatal
    BY <1>1, <1>5, <2>1, <2>2 DEF LogFatal, HandlerAt, LogHeld, Running
  <2>3. CASE FatalLogged
    BY <1>1, <1>5, <2>1, <2>3 DEF FatalLogged, HandlerAt, LogHeld, Running
  <2>4. CASE CloseLog \/ Exit
    BY <1>1, <1>5, <2>1, <2>4 DEF CloseLog, Exit, HandlerAt, LogHeld, Running
  <2>5. CASE Interrupt \/ FreeQueue \/ NullQueue \/ DestroyPool \/ Join \/ FreeDevices \/ FreeSlots
    <3>1. log_mutex' = log_mutex /\ process' # "exited" /\ handler' \notin {"logged", "close", "exit", "done"}
      BY <1>5, <2>5 DEF Interrupt, FreeQueue, NullQueue, DestroyPool, Join, FreeDevices, FreeSlots,
         HandlerAt, Running
    <3>2. QED
      BY <2>1, <3>1 DEF LogHeld
  <2>6. QED
    BY <1>5, <2>2, <2>3, <2>4, <2>5 DEF HandlerNext
<1>6. CASE UNCHANGED vars
  BY <1>6 DEF vars, LogHeld
<1>7. QED
  BY <1>2, <1>3, <1>4, <1>5, <1>6 DEF Next

\* A main thread that SIGINT caught inside logger_log never exits: the handler
\* runs on that thread and waits at MY_LOG_FATAL (src/main.c:24) for the mutex
\* that it holds itself.  That is why InterruptEnds excepts it.
THEOREM CaughtInLogger == Spec => []CaughtNeverExits
<1>1. Init => LogHeld
  BY DEF Init, LogHeld
<1>2. LogHeld => CaughtNeverExits
  BY DEF LogHeld, CaughtNeverExits
<1>3. QED
  BY InitTypes, TypeInductive, <1>1, LogHeldInductive, <1>2, PTL DEF Spec

=============================================================================
