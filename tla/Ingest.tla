------------------------------- MODULE Ingest -------------------------------
(***************************************************************************)
(* The path of a sensor reading from the UART to SQLite: the LoRa thread   *)
(* (src/pthread_lora.c) parses what it reads into tempEnvData and pushes   *)
(* that onto the circular queue under revdata_mutex; when a push fills the *)
(* queue it signals sql_cont, on which the SQL thread (src/pthread_sql.c)  *)
(* waits.  That thread empties the queue into the database, holding both   *)
(* the mutex and the write side of rwlock; the pool's workers read the     *)
(* database for clients under the read side.                               *)
(*                                                                         *)
(* A thread is a program counter whose value names the call it is about to *)
(* make.  The fields of envData_t other than deviceID are one field,       *)
(* value.  A buffer read from the UART is what JSON_Parser can make of it: *)
(* for each field the number found there, or Keep.                         *)
(***************************************************************************)
EXTENDS EnvDataNode

CONSTANTS
  DeviceID,     \* the device IDs a frame or the stack may hold, 0 among them
  Value,        \* the other measurements
  Keep,         \* a field that JSON_Parser leaves as it was
  Readers,      \* the workers that read the database for clients
  SqlMayFail,   \* whether an INSERT may fail
  UartMayFail   \* whether opening or reading the UART may fail

ASSUME IngestAssumption ==
  /\ Keep \notin DeviceID \cup Value
  /\ SqlMayFail \in BOOLEAN
  /\ UartMayFail \in BOOLEAN

Reading == [deviceID : DeviceID, value : Value]

Frame == [deviceID : DeviceID \cup {Keep}, value : Value \cup {Keep}]

VARIABLES
  uart,         \* "open", or "failed": read returns -1 from then on
  buffer,       \* the LoRa thread's buffer, as JSON_Parser understands it
  tempEnvData,  \* the LoRa thread's tempEnvData
  lora,         \* program counter of pthread_Lora_Recive
  envDataNode,  \* the circular queue
  revdata_mutex,\* its holder
  sql,          \* program counter of pthread_Sqlite_Write
  envdata,      \* the SQL thread's envdata
  rdlocked,     \* the readers that hold rwlock
  wrlocked,     \* whether the SQL thread holds rwlock for writing
  row           \* the row inserted last

loraVars == <<uart, buffer, tempEnvData, lora>>
sqlVars  == <<envdata, wrlocked, row>>
vars == <<loraVars, envDataNode, revdata_mutex, sql, sqlVars, rdlocked>>

\* Nothing initialises tempEnvData, envdata or the array malloc returned.
Init ==
  /\ uart \in IF UartMayFail THEN {"open", "failed"} ELSE {"open"}
  /\ buffer = [deviceID |-> Keep, value |-> Keep]
  /\ tempEnvData \in Reading
  /\ lora = "read"
  /\ \E r \in Reading : envDataNode = InitNode([i \in Index |-> r])
  /\ revdata_mutex = "free"
  /\ sql = "lock"
  /\ envdata \in Reading
  /\ rdlocked = {}
  /\ wrlocked = FALSE
  /\ row \in Reading

-----------------------------------------------------------------------------
(* The LoRa thread.                                                        *)

\* A field that is not a number keeps its old value, and so do all fields
\* when the text does not parse or is not an object.
JSON_Parser(jsonData, envData) ==
  [deviceID |-> IF jsonData.deviceID = Keep THEN envData.deviceID
                                            ELSE jsonData.deviceID,
   value    |-> IF jsonData.value = Keep THEN envData.value
                                         ELSE jsonData.value]

LoraRead(f) ==
  /\ lora = "read" /\ uart = "open"
  /\ buffer' = f
  /\ tempEnvData' = JSON_Parser(f, tempEnvData)
  /\ lora' = "lock"
  /\ UNCHANGED <<uart, envDataNode, revdata_mutex, sql, sqlVars, rdlocked>>

LoraLock ==
  /\ lora = "lock" /\ revdata_mutex = "free"
  /\ revdata_mutex' = "lora"
  /\ lora' = "push"
  /\ UNCHANGED <<uart, buffer, tempEnvData, envDataNode, sql, sqlVars, rdlocked>>

\* pthread_cond_signal(&sql_cont): only the SQL thread ever waits on it.
Signal == sql' = IF sql = "asleep" THEN "woken" ELSE sql

\* Mutant: the test for a full queue made before the push.
LoraPushTestsFirst ==
  /\ lora = "push"
  /\ \/ IsFull(envDataNode) /\ Signal /\ UNCHANGED envDataNode
     \/ /\ ~IsFull(envDataNode)
        /\ envDataNode' = Push(envDataNode, tempEnvData)
        /\ UNCHANGED sql
  /\ lora' = "unlock"
  /\ UNCHANGED <<uart, buffer, tempEnvData, revdata_mutex, sqlVars, rdlocked>>

LoraPush ==
  /\ lora = "push"
  /\ \/ /\ IsFull(envDataNode)
        /\ UNCHANGED <<envDataNode, sql>>
     \/ /\ ~IsFull(envDataNode)
        /\ envDataNode' = Push(envDataNode, tempEnvData)
        /\ IF IsFull(envDataNode') THEN Signal ELSE UNCHANGED sql
  /\ lora' = "unlock"
  /\ UNCHANGED <<uart, buffer, tempEnvData, revdata_mutex, sqlVars, rdlocked>>

LoraUnlock ==
  /\ lora = "unlock"
  /\ revdata_mutex' = "free"
  /\ lora' = "read"
  /\ UNCHANGED <<uart, buffer, tempEnvData, envDataNode, sql, sqlVars, rdlocked>>

\* The device goes away: from now on read returns -1, and the loop spins.
UartFails ==
  /\ UartMayFail /\ uart = "open"
  /\ uart' = "failed"
  /\ UNCHANGED <<buffer, tempEnvData, lora, envDataNode, revdata_mutex, sql,
                 sqlVars, rdlocked>>

-----------------------------------------------------------------------------
(* The SQL thread.                                                         *)

SqlLock ==
  /\ sql = "lock" /\ revdata_mutex = "free"
  /\ revdata_mutex' = "sql"
  /\ sql' = "wait"
  /\ UNCHANGED <<loraVars, envDataNode, sqlVars, rdlocked>>

SqlWait ==
  /\ sql = "wait"
  /\ revdata_mutex' = "free"
  /\ sql' = "asleep"
  /\ UNCHANGED <<loraVars, envDataNode, sqlVars, rdlocked>>

\* POSIX lets pthread_cond_wait return without a signal.
SpuriousWakeup ==
  /\ sql = "asleep"
  /\ sql' = "woken"
  /\ UNCHANGED <<loraVars, envDataNode, revdata_mutex, sqlVars, rdlocked>>

SqlWakeup ==
  /\ sql = "woken" /\ revdata_mutex = "free"
  /\ revdata_mutex' = "sql"
  /\ sql' = "wrlock"
  /\ UNCHANGED <<loraVars, envDataNode, sqlVars, rdlocked>>

\* Mutant: the read side of rwlock taken by mistake.
SqlRdLock ==
  /\ sql = "wrlock"
  /\ wrlocked' = TRUE
  /\ sql' = "drain"
  /\ UNCHANGED <<loraVars, envDataNode, revdata_mutex, envdata, row, rdlocked>>

SqlWrLock ==
  /\ sql = "wrlock" /\ rdlocked = {}
  /\ wrlocked' = TRUE
  /\ sql' = "drain"
  /\ UNCHANGED <<loraVars, envDataNode, revdata_mutex, envdata, row, rdlocked>>

SqlPop ==
  /\ sql = "drain" /\ ~IsEmpty(envDataNode)
  /\ envdata' = Popped(envDataNode)
  /\ envDataNode' = Pop(envDataNode)
  /\ sql' = IF envdata'.deviceID # 0 THEN "insert" ELSE "drain"
  /\ UNCHANGED <<loraVars, revdata_mutex, wrlocked, row, rdlocked>>

\* insert_data_to_SqliteDB; an SQL error is logged and the reading is gone.
SqlInsert ==
  /\ sql = "insert"
  /\ row' = envdata \/ (SqlMayFail /\ UNCHANGED row)
  /\ sql' = "drain"
  /\ UNCHANGED <<loraVars, envDataNode, revdata_mutex, envdata, wrlocked, rdlocked>>

\* Mutant: an if where the code has a while.
SqlRwUnlockEarly ==
  /\ sql = "drain"
  /\ wrlocked' = FALSE
  /\ sql' = "unlock"
  /\ UNCHANGED <<loraVars, envDataNode, revdata_mutex, envdata, row, rdlocked>>

SqlRwUnlock ==
  /\ sql = "drain" /\ IsEmpty(envDataNode)
  /\ wrlocked' = FALSE
  /\ sql' = "unlock"
  /\ UNCHANGED <<loraVars, envDataNode, revdata_mutex, envdata, row, rdlocked>>

\* Mutant: the mutex not given back.
SqlUnlockForgotten ==
  /\ sql = "unlock"
  /\ sql' = "lock"
  /\ UNCHANGED <<loraVars, envDataNode, revdata_mutex, sqlVars, rdlocked>>

SqlUnlock ==
  /\ sql = "unlock"
  /\ revdata_mutex' = "free"
  /\ sql' = "lock"
  /\ UNCHANGED <<loraVars, envDataNode, sqlVars, rdlocked>>

-----------------------------------------------------------------------------
(* The workers that answer clients; glibc's rwlock lets a reader in        *)
(* whenever no writer holds it, even while one waits.                      *)

\* Mutant: the database read without the read lock.
RdLockIgnoresWriter(r) ==
  /\ r \notin rdlocked
  /\ rdlocked' = rdlocked \cup {r}
  /\ UNCHANGED <<loraVars, envDataNode, revdata_mutex, sql, sqlVars>>

RdLock(r) ==
  /\ r \notin rdlocked /\ ~wrlocked
  /\ rdlocked' = rdlocked \cup {r}
  /\ UNCHANGED <<loraVars, envDataNode, revdata_mutex, sql, sqlVars>>

RdUnlock(r) ==
  /\ r \in rdlocked
  /\ rdlocked' = rdlocked \ {r}
  /\ UNCHANGED <<loraVars, envDataNode, revdata_mutex, sql, sqlVars>>

-----------------------------------------------------------------------------
LoraNext ==
  \/ \E f \in Frame : LoraRead(f)
  \/ LoraLock \/ LoraPush \/ LoraUnlock \/ UartFails

SqlNext ==
  \/ SqlLock \/ SqlWait \/ SpuriousWakeup \/ SqlWakeup
  \/ SqlWrLock \/ SqlPop \/ SqlInsert \/ SqlRwUnlock \/ SqlUnlock

ReaderNext == \E r \in Readers : RdLock(r) \/ RdUnlock(r)

Next == LoraNext \/ SqlNext \/ ReaderNext

Spec == Init /\ [][Next]_vars

\* A thread that can run does run.  The mutex is granted to a thread that
\* keeps asking (strong fairness): it is free whenever the LoRa thread waits
\* for the UART.  Nothing is assumed of frames, of clients' requests, of
\* spurious wakeups, and rwlock is only granted when readers leave it free.
Fairness ==
  /\ SF_vars(LoraLock) /\ WF_vars(LoraPush) /\ WF_vars(LoraUnlock)
  /\ SF_vars(SqlLock) /\ WF_vars(SqlWait) /\ SF_vars(SqlWakeup)
  /\ WF_vars(SqlWrLock) /\ WF_vars(SqlPop) /\ WF_vars(SqlInsert)
  /\ WF_vars(SqlRwUnlock) /\ WF_vars(SqlUnlock)
  /\ \A r \in Readers : WF_vars(RdUnlock(r))

FairSpec == Spec /\ Fairness

-----------------------------------------------------------------------------
(* Properties.                                                             *)

LoraPC == {"read", "lock", "push", "unlock"}
SqlPC  == {"lock", "wait", "asleep", "woken", "wrlock", "drain", "insert", "unlock"}

\* Every variable has its type, and a reading without a device ID is never in
\* the SQL thread's hands for insertion.
TypeOK ==
  /\ uart \in {"open", "failed"}
  /\ buffer \in Frame
  /\ tempEnvData \in Reading
  /\ lora \in LoraPC
  /\ envDataNode \in Node(Reading)
  /\ revdata_mutex \in {"free", "lora", "sql"}
  /\ sql \in SqlPC
  /\ envdata \in Reading
  /\ sql = "insert" => envdata.deviceID # 0
  /\ rdlocked \in SUBSET Readers
  /\ wrlocked \in BOOLEAN
  /\ row \in Reading

LoraHolds == lora \in {"push", "unlock"}
SqlHolds  == sql \in {"wait", "wrlock", "drain", "insert", "unlock"}

\* revdata_mutex is held by exactly the thread that is between its lock and
\* its unlock (pthread_cond_wait gives it up), so the two never touch the
\* queue together, and the database is written only under the write lock,
\* which excludes every reader (src/pthread_lora.c:179, src/pthread_sql.c:20).
LockDiscipline ==
  /\ LoraHolds <=> revdata_mutex = "lora"
  /\ SqlHolds <=> revdata_mutex = "sql"
  /\ wrlocked <=> sql \in {"drain", "insert"}
  /\ wrlocked => rdlocked = {}

\* The readings the gateway has accepted and not yet disposed of: the one in
\* the SQL thread's hands, then those in the queue.
Pending ==
  (IF sql = "insert" THEN <<envdata>> ELSE << >>) \o Contents(envDataNode)

Stream == INSTANCE ReadingStream
            WITH pending <- Pending, Bound <- Capacity - 1

\* The threads together implement the abstract stream: accepted readings are
\* written in order, once, and at most QUEUE_SIZE - 1 of them wait.
ImplementsStream == Stream!Spec

\* The database does not change under a client that reads it, however the
\* lock calls interleave (src/pthread_socket.c:240, src/pthread_sql.c:22).
RowStableUnderReaders == [][rdlocked # {} => row' = row]_vars

\* While the SQL thread sleeps the queue cannot become full: the push that
\* fills it wakes the thread in the same critical section.  The only way to
\* sleep on a full queue is to fall asleep on one.
AsleepNeverFills ==
  [][sql = "asleep" /\ sql' = "asleep" /\ ~IsFull(envDataNode)
       => ~IsFull(envDataNode')]_vars

ReadersLeave == <>[](rdlocked = {})

\* A wakeup empties the queue, provided that readers leave rwlock free in the
\* end (src/pthread_sql.c:21-33).
WakeupDrains == ReadersLeave => (sql = "woken" ~> IsEmpty(envDataNode))

\* The LoRa thread always gets back to the UART, although the SQL thread holds
\* the mutex for a whole batch of inserts while it waits for rwlock.
LoraReturns == ReadersLeave => (lora = "lock" ~> lora = "read")

\* A queue that is full is eventually written to the database.
FullQueueIsDrained ==
  ReadersLeave => (IsFull(envDataNode) ~> IsEmpty(envDataNode))

=============================================================================
