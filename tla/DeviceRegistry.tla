--------------------------- MODULE DeviceRegistry ---------------------------
(***************************************************************************)
(* How the gateway remembers its devices: the array queueOfDevice, the     *)
(* file that counts its cells (src/envDataNode.c:116-223) and one SQLite   *)
(* table per device (src/pthread_sql.c).  The SQL thread looks a reading's *)
(* device up before it inserts the reading; a device it does not find gets *)
(* the cell of its own number, the file is rewritten and a table created.  *)
(* main rebuilds array and tables from the file.  The process may die      *)
(* between any two of these steps; the file and the tables survive.        *)
(*                                                                         *)
(* Memory that nothing has written holds a leftover: the cells that        *)
(* realloc adds, unless it shrank the array before and they still hold     *)
(* what they did; and the stack that atoi reads on into when the two bytes *)
(* read from the file hold no NUL.  The bounds: numbers have three digits, *)
(* and atoi meets one leftover digit.                                      *)
(***************************************************************************)
EXTENDS Integers

CONSTANTS
  DeviceID,     \* the devices that send readings; 0 is never looked up
  Byte,         \* the values of a uint8_t are 0 .. Byte - 1
  Base,         \* the base in which the file counts
  LeftoverByte, \* what fresh memory may hold
  LeftoverDigit \* the digits the stack may hold

ASSUME DeviceRegistryAssumption ==
  /\ Base \in Nat \ {0, 1}
  /\ DeviceID \subseteq 1 .. Base * Base * Base - 2
  /\ Byte \in Nat /\ Base * Base <= Byte
  /\ LeftoverByte \subseteq 0 .. Byte - 1 /\ LeftoverByte # {}
  /\ LeftoverDigit \subseteq 0 .. Base - 1

\* The memory that queueOfDevice can reach.
Cell == 0 .. Base * Base * Base - 1

VARIABLES
  file,         \* the number written, and whether a NUL ends it
  allocated,    \* the cells that belong to the array queueOfDevice ...
  queueOfDevice,\* ... and what those and the ones after them hold
  tables,       \* the devices that have a table
  pc,           \* what comes next, in main and then in the SQL thread
  deviceID,     \* the device of the reading being inserted
  i             \* main's loop over the devices

memory == <<allocated, queueOfDevice>>
vars == <<file, memory, tables, pc, deviceID, i>>

Empty == [num |-> 0, ended |-> FALSE]
Zeros == [j \in Cell |-> 0]

\* create_deviceNumFile has made the file, if there was none.
Init ==
  /\ file = Empty
  /\ allocated = 0
  /\ queueOfDevice = Zeros
  /\ tables = {}
  /\ pc = "start"
  /\ deviceID = 0
  /\ i = 0

-----------------------------------------------------------------------------
(* The file.                                                               *)

\* The numbers atoi may make of the two bytes read.
read_deviceNumFile ==
  IF file.ended THEN {file.num}
  ELSE {file.num} \cup {file.num * Base + d : d \in LeftoverDigit}

\* Two bytes are written: a digit and a NUL, two digits, or the first two.
write_deviceNumFile(num) ==
  file' = IF num < Base THEN [num |-> num, ended |-> TRUE]
          ELSE IF num < Base * Base THEN [num |-> num, ended |-> FALSE]
          ELSE [num |-> num \div Base, ended |-> FALSE]

-----------------------------------------------------------------------------
(* main.                                                                   *)

Start ==
  /\ pc = "start"
  /\ \E deviceNum \in read_deviceNumFile, fresh \in [Cell -> LeftoverByte] :
       /\ allocated' = deviceNum
       /\ queueOfDevice' = [j \in Cell |-> IF j < deviceNum THEN (j + 1) % Byte
                                           ELSE fresh[j]]
  /\ i' = 0
  /\ pc' = "tables"
  /\ UNCHANGED <<file, tables, deviceID>>

\* Mutant: main does not create the tables.
StartNoTable ==
  /\ pc = "tables" /\ i < allocated
  /\ i' = i + 1
  /\ UNCHANGED <<file, memory, tables, pc, deviceID>>

\* Mutant: main's loop runs once more.
StartTableTooFar ==
  /\ pc = "tables" /\ i <= allocated
  /\ tables' = tables \cup {i + 1}
  /\ i' = i + 1
  /\ UNCHANGED <<file, memory, pc, deviceID>>

\* createOrOpen_SqliteDB: CREATE TABLE IF NOT EXISTS.
StartTable ==
  /\ pc = "tables" /\ i < allocated
  /\ tables' = tables \cup {i + 1}
  /\ i' = i + 1
  /\ UNCHANGED <<file, memory, pc, deviceID>>

Started ==
  /\ pc = "tables" /\ i = allocated
  /\ pc' = "wait"
  /\ i' = 0
  /\ UNCHANGED <<file, memory, tables, deviceID>>

-----------------------------------------------------------------------------
(* insert_data_to_SqliteDB, for a reading of device d.                     *)

\* The cells an array has whose last one is d's.
Size(d) == d + 1

\* Mutant: the cells are not copied.
GrownFresh(d, rest) ==
  [j \in Cell |-> IF j = d THEN d % Byte ELSE rest[j]]

\* realloc keeps the cells, the rest is new, and the last one is set to d.
Grown(d, rest) ==
  [j \in Cell |-> IF j = d THEN d % Byte
                  ELSE IF j < allocated THEN queueOfDevice[j] ELSE rest[j]]

\* is_deviceID_in_queue finds d ...
Found(d) ==
  /\ pc = "wait"
  /\ \E num \in read_deviceNumFile :
       \E j \in 0 .. num - 1 : queueOfDevice[j] = d
  /\ deviceID' = d
  /\ pc' = "insert"
  /\ UNCHANGED <<file, memory, tables, i>>

\* ... or does not, and gives it a cell, whatever the array's size was.  The
\* array stays in its place, or moves to other memory.
NotFound(d) ==
  /\ pc = "wait"
  /\ \E num \in read_deviceNumFile :
       \A j \in 0 .. num - 1 : queueOfDevice[j] # d
  /\ allocated' = Size(d)
  /\ \E rest \in {queueOfDevice} \cup [Cell -> LeftoverByte] :
       queueOfDevice' = Grown(d, rest)
  /\ deviceID' = d
  /\ pc' = "truncate"
  /\ UNCHANGED <<file, tables, i>>

Truncate ==
  /\ pc = "truncate"
  /\ file' = Empty
  /\ pc' = "write"
  /\ UNCHANGED <<memory, tables, deviceID, i>>

\* Mutant: the device's number is written, not the number of cells.
WriteDevice ==
  /\ pc = "write"
  /\ write_deviceNumFile(deviceID)
  /\ pc' = "create"
  /\ UNCHANGED <<memory, tables, deviceID, i>>

Write ==
  /\ pc = "write"
  /\ write_deviceNumFile(Size(deviceID))
  /\ pc' = "create"
  /\ UNCHANGED <<memory, tables, deviceID, i>>

\* add_newDevice_to_SqliteDB.
CreateTable ==
  /\ pc = "create"
  /\ tables' = tables \cup {deviceID}
  /\ pc' = "insert"
  /\ UNCHANGED <<file, memory, deviceID, i>>

Insert ==
  /\ pc = "insert"
  /\ pc' = "wait"
  /\ UNCHANGED <<file, memory, tables, deviceID, i>>

\* The process dies: SIGINT, a crash, the power.
Crash ==
  /\ pc # "start"
  /\ pc' = "start"
  /\ allocated' = 0 /\ queueOfDevice' = Zeros
  /\ deviceID' = 0 /\ i' = 0
  /\ UNCHANGED <<file, tables>>

-----------------------------------------------------------------------------
Next ==
  \/ Start \/ StartTable \/ Started
  \/ \E d \in DeviceID : Found(d) \/ NotFound(d)
  \/ Truncate \/ Write \/ CreateTable \/ Insert
  \/ Crash

Spec == Init /\ [][Next]_vars

-----------------------------------------------------------------------------
(* Properties.                                                             *)

PC == {"start", "tables", "wait", "truncate", "write", "create", "insert"}

TypeOK ==
  /\ file \in [num : 0 .. Base * Base - 1, ended : BOOLEAN]
  /\ allocated \in 0 .. Base * Base * Base - 1
  /\ queueOfDevice \in [Cell -> 0 .. Byte - 1]
  /\ tables \subseteq Nat
  /\ pc \in PC
  /\ deviceID \in DeviceID \cup {0}
  /\ i \in 0 .. allocated

\* A reading is inserted only into a table that exists, however the process
\* died before (src/pthread_sql.c:162-196).
InsertHasTable == pc = "insert" => deviceID \in tables

\* What the file says while readings are awaited is the number of cells, so
\* that no lookup reads past the array (src/envDataNode.c:209-214, :221).
FileCountsCells == pc = "wait" => file.num = allocated

\* The array shrinks when a lower device is added, and forgets the higher
\* ones.  Still the adding comes to an end: while the process lives, the file
\* is rewritten finitely often (src/envDataNode.c:218-221).
AddingEnds == []<>(pc = "start") \/ <>[][~Truncate]_vars

=============================================================================
