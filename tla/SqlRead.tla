------------------------------ MODULE SqlRead ------------------------------
(***************************************************************************)
(* What a worker of the pool reads from SQLite for a client, under the     *)
(* read side of rwlock (src/pthread_socket.c:139-254, src/pthread_sql.c):  *)
(* the latest row of a device into a variable on its stack, or its latest  *)
(* MAX_SQL_READ rows into an array from malloc.  SQLite calls back once    *)
(* per row; the callback for many rows finds its place in the array by a   *)
(* static counter, cnt, which all reads share and none resets.             *)
(*                                                                         *)
(* A row is its device and its number in that device's table; its time     *)
(* column is the text of ctime, by which the queries sort.  Variables and  *)
(* arrays are not initialised: they hold Junk or what an earlier read left *)
(* there.  An access outside the array is noted and has no other effect.   *)
(***************************************************************************)
EXTENDS Integers, Sequences, FiniteSets

CONSTANTS
  Device,
  Readers,       \* the workers
  Junk,
  MAX_SQL_READ,
  DaySeconds,    \* seconds of a day (bound)
  MaxTime,       \* the last second (bound: all within the week of 1 January 1970)
  MaxRows,       \* rows of a table (bound)
  MaxFiles       \* connections that can be open at once: the limit on descriptors

ASSUME SqlReadAssumption ==
  /\ Junk \notin Device \cup Nat
  /\ MAX_SQL_READ \in 1 .. 254
  /\ DaySeconds \in Nat \ {0} /\ MaxTime \in Nat /\ MaxTime < 7 * DaySeconds
  /\ MaxRows \in Nat /\ MaxFiles \in Nat

VARIABLES
  now,
  table,        \* for each device the times of its rows, in the order of the inserts
  cnt,          \* the static uint8_t of sqlite_read_callback
  connections,  \* database handles that were opened and never closed
  heap,         \* the array that was freed last
  pc,
  ask,          \* a worker's request
  envdata,      \* the worker's tempenvdata (indexed 0 .. 0) or array
  rows,         \* the numbers of the rows that its query found, in order
  called,       \* how many of them SQLite has passed to the callback
  loaded,       \* cnt as cnt++ has read it
  outside,      \* whether an access outside an array was made
  start,        \* history: cnt when the worker's query began
  full          \* history: whether every query for many rows found MAX_SQL_READ

memory == <<cnt, connections, heap, outside, full>>
readVars == <<pc, ask, envdata, rows, called, loaded, start>>
vars == <<now, table, memory, readVars>>

Entry == [deviceID : Device \cup {Junk}, row : 1 .. MaxRows \cup {Junk}]
JunkEntry == [deviceID |-> Junk, row |-> Junk]
Places == 0 .. MAX_SQL_READ - 1

JunkArray == [i \in Places |-> JunkEntry]

Init ==
  /\ now = 0
  /\ table = [d \in Device |-> <<>>]
  /\ cnt = 0 /\ connections = 0 /\ heap = JunkArray
  /\ pc = [r \in Readers |-> "idle"]
  /\ ask \in [Readers -> [cmd : {"REQUEST_ONE_SQL"}, deviceID : Device]]
  /\ envdata = [r \in Readers |-> [i \in 0 .. 0 |-> JunkEntry]]
  /\ rows = [r \in Readers |-> <<>>]
  /\ called = [r \in Readers |-> 0]
  /\ loaded = [r \in Readers |-> 0]
  /\ start = [r \in Readers |-> 0]
  /\ outside = FALSE
  /\ full = TRUE

-----------------------------------------------------------------------------
(* ORDER BY time DESC.                                                     *)

\* Where a weekday's name comes among Fri, Mon, Sat, Sun, Thu, Tue, Wed; day 0
\* is a Thursday.
DayRank(day) == <<5, 1, 3, 4, 2, 6, 7>>[day + 1]

Day(t) == t \div DaySeconds

\* Mutant: ORDER BY time without DESC.
TextBefore(t, u) ==
  \/ DayRank(Day(t)) < DayRank(Day(u))
  \/ Day(t) = Day(u) /\ t < u

\* The text of time t sorts after that of u.
TextAfter(t, u) ==
  \/ DayRank(Day(t)) > DayRank(Day(u))
  \/ Day(t) = Day(u) /\ t > u

AtMost(m, n) == IF m < n THEN m ELSE n

\* What SELECT ... ORDER BY time DESC LIMIT n may return: rows of the same
\* second come in any order.
Query(d, n) ==
  LET m == AtMost(n, Len(table[d])) IN
  {s \in [1 .. m -> DOMAIN table[d]] :
     /\ \A i, j \in 1 .. m : i < j => s[i] # s[j] /\ ~TextAfter(table[d][s[j]], table[d][s[i]])
     /\ \A k \in DOMAIN table[d] \ {s[i] : i \in 1 .. m} :
          \A i \in 1 .. m : ~TextAfter(table[d][k], table[d][s[i]])}

-----------------------------------------------------------------------------
(* The SQL thread, which inserts with the write side of rwlock.            *)

Insert(d) ==
  /\ \A r \in Readers : pc[r] = "idle"
  /\ Len(table[d]) < MaxRows /\ connections < MaxFiles
  /\ table' = [table EXCEPT ![d] = Append(@, now)]
  /\ UNCHANGED <<now, memory, readVars>>

Tick ==
  /\ now < MaxTime
  /\ now' = now + 1
  /\ UNCHANGED <<table, memory, readVars>>

-----------------------------------------------------------------------------
(* A worker.                                                               *)

GoTo(r, label) == pc' = [pc EXCEPT ![r] = label]

\* package_One_JSON: the variable is where the worker's last one was, if that
\* part of the stack was not used since.
AskOne(r, d) ==
  /\ pc[r] = "idle"
  /\ ask' = [ask EXCEPT ![r] = [cmd |-> "REQUEST_ONE_SQL", deviceID |-> d]]
  /\ \E left \in {JunkEntry} \cup {envdata[r][i] : i \in DOMAIN envdata[r] \cap
                                     (IF ask[r].cmd = "REQUEST_ONE_SQL" THEN {0} ELSE {})} :
       envdata' = [envdata EXCEPT ![r] = [i \in 0 .. 0 |-> left]]
  /\ GoTo(r, "exec")
  /\ UNCHANGED <<now, table, memory, rows, called, loaded, start>>

\* package_20_JSON and the beginning of pthread_Sqlite_Read.
AskMany(r, d) ==
  /\ pc[r] = "idle"
  /\ ask' = [ask EXCEPT ![r] = [cmd |-> "REQUEST_20_SQL", deviceID |-> d]]
  /\ \E array \in {JunkArray, heap} : envdata' = [envdata EXCEPT ![r] = array]
  /\ GoTo(r, "exec")
  /\ UNCHANGED <<now, table, memory, rows, called, loaded, start>>

Many(r) == ask[r].cmd = "REQUEST_20_SQL"

\* sqlite3_exec begins.  Without a descriptor left the file cannot be opened; the
\* handle is used all the same and finds no row.  pthread_Sqlite_Read never
\* closes its connection.
Exec(r) ==
  /\ pc[r] = "exec"
  /\ \E s \in IF connections < MaxFiles
              THEN Query(ask[r].deviceID, IF Many(r) THEN MAX_SQL_READ ELSE 1)
              ELSE {<<>>} :
       /\ rows' = [rows EXCEPT ![r] = s]
       /\ full' = (full /\ (Many(r) => Len(s) = MAX_SQL_READ))
  /\ connections' = IF Many(r) THEN AtMost(connections + 1, MaxFiles) ELSE connections
  /\ start' = [start EXCEPT ![r] = cnt]
  /\ GoTo(r, "row")
  /\ UNCHANGED <<now, table, cnt, heap, outside, ask, envdata, called, loaded>>

Current(r) == rows[r][called[r] + 1]

\* find_data_callback.
FillOne(r) ==
  /\ pc[r] = "row" /\ ~Many(r) /\ called[r] < Len(rows[r])
  /\ envdata' = [envdata EXCEPT ![r] = [i \in 0 .. 0 |-> [deviceID |-> ask[r].deviceID, row |-> Current(r)]]]
  /\ called' = [called EXCEPT ![r] = @ + 1]
  /\ UNCHANGED <<now, table, memory, pc, ask, rows, loaded, start>>

\* sqlite_read_callback looks cnt up for every column; deviceID is the first.
FillDeviceID(r) ==
  /\ pc[r] = "row" /\ Many(r) /\ called[r] < Len(rows[r])
  /\ IF cnt \in Places
     THEN /\ envdata' = [envdata EXCEPT ![r][cnt].deviceID = ask[r].deviceID]
          /\ UNCHANGED outside
     ELSE outside' = TRUE /\ UNCHANGED envdata
  /\ GoTo(r, "columns")
  /\ UNCHANGED <<now, table, cnt, connections, heap, full, ask, rows, called, loaded, start>>

FillColumns(r) ==
  /\ pc[r] = "columns"
  /\ IF cnt \in Places
     THEN /\ envdata' = [envdata EXCEPT ![r][cnt].row = Current(r)]
          /\ UNCHANGED outside
     ELSE outside' = TRUE /\ UNCHANGED envdata
  /\ called' = [called EXCEPT ![r] = @ + 1]
  /\ GoTo(r, "load")
  /\ UNCHANGED <<now, table, cnt, connections, heap, full, ask, rows, loaded, start>>

\* cnt ++ is a load and a store.
LoadCnt(r) ==
  /\ pc[r] = "load"
  /\ loaded' = [loaded EXCEPT ![r] = cnt]
  /\ GoTo(r, "store")
  /\ UNCHANGED <<now, table, memory, ask, envdata, rows, called, start>>

StoreCnt(r) ==
  /\ pc[r] = "store"
  /\ cnt' = (loaded[r] + 1) % 256
  /\ loaded' = [loaded EXCEPT ![r] = 0]
  /\ GoTo(r, "wrap")
  /\ UNCHANGED <<now, table, connections, heap, outside, full, ask, envdata, rows, called, start>>

\* Mutant: off by one.
WrapLate(r) ==
  /\ pc[r] = "wrap"
  /\ cnt' = IF cnt > MAX_SQL_READ THEN 0 ELSE cnt
  /\ GoTo(r, "row")
  /\ UNCHANGED <<now, table, connections, heap, outside, full, ask, envdata, rows, called, loaded, start>>

\* Mutant: the last place is never used.
WrapEarly(r) ==
  /\ pc[r] = "wrap"
  /\ cnt' = IF cnt >= MAX_SQL_READ - 1 THEN 0 ELSE cnt
  /\ GoTo(r, "row")
  /\ UNCHANGED <<now, table, connections, heap, outside, full, ask, envdata, rows, called, loaded, start>>

WrapCnt(r) ==
  /\ pc[r] = "wrap"
  /\ cnt' = IF cnt >= MAX_SQL_READ THEN 0 ELSE cnt
  /\ GoTo(r, "row")
  /\ UNCHANGED <<now, table, connections, heap, outside, full, ask, envdata, rows, called, loaded, start>>

ExecReturns(r) ==
  /\ pc[r] = "row" /\ called[r] = Len(rows[r])
  /\ GoTo(r, "reply")
  /\ UNCHANGED <<now, table, memory, ask, envdata, rows, called, loaded, start>>

\* The answer is packed and sent, the array freed, rwlock given back.
Reply(r) ==
  /\ pc[r] = "reply"
  /\ heap' = IF Many(r) THEN envdata[r] ELSE heap
  /\ called' = [called EXCEPT ![r] = 0]
  /\ rows' = [rows EXCEPT ![r] = <<>>]
  /\ start' = [start EXCEPT ![r] = 0]
  /\ GoTo(r, "idle")
  /\ UNCHANGED <<now, table, cnt, connections, outside, full, ask, envdata, loaded>>

ReadNext(r) ==
  \/ \E d \in Device : AskOne(r, d) \/ AskMany(r, d)
  \/ Exec(r) \/ FillOne(r) \/ FillDeviceID(r) \/ FillColumns(r)
  \/ LoadCnt(r) \/ StoreCnt(r) \/ WrapCnt(r) \/ ExecReturns(r) \/ Reply(r)

Next ==
  \/ \E d \in Device : Insert(d)
  \/ Tick
  \/ \E r \in Readers : ReadNext(r)

Spec == Init /\ [][Next]_vars

-----------------------------------------------------------------------------
(* Properties.                                                             *)

\* Types; between reads the counter is a place of the array.
TypeOK ==
  /\ now \in 0 .. MaxTime
  /\ table \in [Device -> Seq(0 .. MaxTime)]
  /\ cnt \in 0 .. 255
  /\ connections \in 0 .. MaxFiles
  /\ heap \in [Places -> Entry]
  /\ pc \in [Readers -> {"idle", "exec", "row", "columns", "load", "store", "wrap", "reply"}]
  /\ ask \in [Readers -> [cmd : {"REQUEST_ONE_SQL", "REQUEST_20_SQL"}, deviceID : Device]]
  /\ envdata \in [Readers -> [0 .. 0 -> Entry] \cup [Places -> Entry]]
  /\ rows \in [Readers -> Seq(1 .. MaxRows)] /\ called \in [Readers -> 0 .. MAX_SQL_READ]
  /\ loaded \in [Readers -> 0 .. 255] /\ start \in [Readers -> 0 .. 255]
  /\ outside \in BOOLEAN /\ full \in BOOLEAN

EntryOf(r, i) == [deviceID |-> ask[r].deviceID, row |-> rows[r][i]]

\* A single reader never leaves its array, in any sequence of reads and inserts
\* and with cnt wherever the reads before have left it (pthread_sql.c:45, :77).
\* Two readers do.
InBounds == ~outside

\* A single reader's answer holds every row that its query found, whole, one
\* after the other round the array from where cnt stood (pthread_sql.c:76-77).
RowsGoRound ==
  \A r \in Readers : pc[r] = "reply" /\ Many(r) =>
    \A i \in DOMAIN rows[r] : envdata[r][(start[r] + i - 1) % MAX_SQL_READ] = EntryOf(r, i)

\* As long as no query for many rows has found fewer than MAX_SQL_READ, an
\* answer is exactly the query's rows, newest first (pthread_sql.c:88).
FullReadsAreExact ==
  \A r \in Readers : pc[r] = "reply" /\ Many(r) /\ full =>
    \A i \in 1 .. MAX_SQL_READ : envdata[r][i - 1] = EntryOf(r, i)

\* The one row sent for a device that has any is of that device, and the latest
\* of its day, also after the descriptors of many reads were lost
\* (pthread_sql.c:284).
OneIsLatestOfItsDay ==
  \A r \in Readers :
    LET d == ask[r].deviceID
        e == envdata[r][0]
    IN  pc[r] = "reply" /\ ~Many(r) /\ table[d] # <<>> /\ connections < MaxFiles =>
          /\ e.deviceID = d /\ e.row \in DOMAIN table[d]
          /\ \A k \in DOMAIN table[d] :
               Day(table[d][k]) = Day(table[d][e.row]) => table[d][k] <= table[d][e.row]

\* An answer begins with the newest rows of the device: "查询指定设备ID的最新
\* MAX_SQL_READ条记录" (pthread_sql.c:88).
AnswerBeginsWithRows ==
  \A r \in Readers : pc[r] = "reply" /\ Many(r) =>
    \A i \in DOMAIN rows[r] : envdata[r][i - 1] = EntryOf(r, i)

\* The row sent is the latest: "获取第一条记录(即最新记录)" (pthread_sql.c:270).
OneIsLatest ==
  \A r \in Readers : pc[r] = "reply" /\ ~Many(r) /\ rows[r] # <<>> =>
    \A t \in {table[ask[r].deviceID][k] : k \in DOMAIN table[ask[r].deviceID]} :
      t <= table[ask[r].deviceID][rows[r][1]]

=============================================================================
