------------------------ MODULE DeviceRegistry_proofs ------------------------
(***************************************************************************)
(* Proofs about the device registry, for every set of devices and every    *)
(* base.  Type correctness holds whatever memory holds; that a reading     *)
(* finds its table, and that the file counts the cells, hold when memory   *)
(* holds zeros and, for the file, while two digits are enough.             *)
(***************************************************************************)
EXTENDS DeviceRegistry, TLAPS

\* The devices in the array whose tables are still to be created.
Pending ==
  IF pc = "tables" THEN {k \in Nat : i < k /\ k <= allocated}
  ELSE IF pc \in {"truncate", "write", "create"} THEN {deviceID}
  ELSE {}

\* What a lookup may see: a cell that two digits can count.
Seen == {j \in Cell : j < Base * Base}

Registered == \A j \in Seen : queueOfDevice[j] \in {0} \cup tables \cup Pending

\* An add is one of a device, and main's loop is over.
InHand ==
  /\ pc \in {"truncate", "write", "create"} => deviceID \in DeviceID
  /\ pc # "tables" => i = 0

IInv == TypeOK /\ InHand /\ Registered /\ InsertHasTable

\* The same for the file, which is empty or cut short in the middle of an add.
Counted ==
  /\ pc \in {"tables", "wait", "create", "insert"} => file.num = allocated
  /\ pc \in {"truncate", "write"} => allocated = Size(deviceID)

-----------------------------------------------------------------------------
\* Arithmetic: Base is at least two, and its powers grow.
LEMMA Powers ==
  /\ Base \in Nat /\ Base >= 2
  /\ Base * Base \in Nat /\ Base * Base * Base \in Nat
  /\ Base < Base * Base /\ Base * Base < Base * Base * Base
<1>1. Base \in Nat /\ Base >= 2
  BY DeviceRegistryAssumption
<1>2. \A a \in Nat : a >= 2 => Base * a \in Nat /\ a * Base \in Nat /\ a < a * Base
  BY <1>1
<1>3. Base * Base \in Nat /\ Base < Base * Base
  BY <1>1, <1>2
<1>4. QED
  BY <1>1, <1>2, <1>3

\* Dropping the last digit of a number drops a power of the base.
LEMMA DropDigit ==
  ASSUME NEW a \in Nat, NEW n \in Nat, n < a * Base
  PROVE  n \div Base \in 0 .. a - 1
<1> DEFINE q == n \div Base
           m == n % Base
<1>1. Base \in Nat /\ Base >= 2
  BY Powers
<1>2. q \in Nat /\ m \in 0 .. Base - 1 /\ n = Base * q + m
  BY <1>1
<1>3. ASSUME q >= a PROVE FALSE
  <2>1. Base * q >= Base * a
    BY <1>1, <1>2, <1>3
  <2>2. QED
    BY <1>1, <1>2, <2>1
<1>4. QED
  BY <1>2, <1>3

\* What a read returns can be counted by the cells there are; with nothing on
\* the stack, it is what the file says.
LEMMA ReadBound ==
  ASSUME TypeOK
  PROVE  /\ read_deviceNumFile \subseteq 0 .. Base * Base * Base - 1
         /\ LeftoverDigit = {} => read_deviceNumFile = {file.num}
<1>1. file.num \in 0 .. Base * Base - 1
  BY DEF TypeOK
<1>2. ASSUME NEW d \in LeftoverDigit
      PROVE  file.num * Base + d \in 0 .. Base * Base * Base - 1
  <2>1. d \in 0 .. Base - 1
    BY DeviceRegistryAssumption
  <2>2. file.num + 1 <= Base * Base /\ (file.num + 1) * Base = file.num * Base + Base
    BY <1>1, Powers
  <2>3. \A a, b \in Nat : a <= b => a * Base <= b * Base
    BY Powers
  <2>4. (file.num + 1) * Base <= Base * Base * Base
    BY <1>1, <2>2, <2>3, Powers
  <2>5. file.num * Base \in Nat
    BY <1>1, Powers
  <2>6. QED
    BY <2>1, <2>2, <2>4, <2>5, Powers
<1>3. QED
  BY <1>1, <1>2, Powers DEF read_deviceNumFile

\* A device's number is written as two digits.
LEMMA WriteType ==
  ASSUME NEW d \in DeviceID, write_deviceNumFile(Size(d))
  PROVE  file' \in [num : 0 .. Base * Base - 1, ended : BOOLEAN]
<1>1. Size(d) \in Nat /\ Size(d) < Base * Base * Base
  BY DeviceRegistryAssumption, Powers DEF Size
<1>2. Size(d) \div Base \in 0 .. Base * Base - 1
  BY <1>1, DropDigit, Powers
<1>3. QED
  BY <1>1, <1>2, Powers DEF write_deviceNumFile

\* A byte is what % Byte leaves.
LEMMA ByteType == \A n \in Nat : n % Byte \in 0 .. Byte - 1
BY DeviceRegistryAssumption, Powers

-----------------------------------------------------------------------------
\* The initial state has its type.
LEMMA TypeInit == Init => TypeOK /\ InHand
<1>1. Byte \in Nat /\ Byte >= 1
  BY DeviceRegistryAssumption, Powers
<1>2. QED
  BY <1>1, Powers DEF Init, TypeOK, InHand, Empty, Zeros, PC

\* Every step keeps it, and what a step has in hand.
LEMMA TypeNext == TypeOK /\ InHand /\ [Next]_vars => (TypeOK /\ InHand)'
<1> SUFFICES ASSUME TypeOK, InHand, [Next]_vars PROVE (TypeOK /\ InHand)'
  OBVIOUS
<1> USE DEF TypeOK, InHand, PC
<1>1. CASE Start
  <2>1. PICK num \in read_deviceNumFile, fresh \in [Cell -> LeftoverByte] :
          /\ allocated' = num
          /\ queueOfDevice' = [j \in Cell |-> IF j < num THEN (j + 1) % Byte
                                              ELSE fresh[j]]
    BY <1>1 DEF Start
  <2>2. num \in 0 .. Base * Base * Base - 1
    BY <2>1, ReadBound
  <2>3. \A j \in Cell : j + 1 \in Nat
    BY Powers DEF Cell
  <2>4. \A j \in Cell : fresh[j] \in 0 .. Byte - 1
    BY DeviceRegistryAssumption
  <2>5. queueOfDevice' \in [Cell -> 0 .. Byte - 1]
    BY <2>1, <2>3, <2>4, ByteType
  <2>6. QED
    BY <1>1, <2>1, <2>2, <2>5 DEF Start
<1>2. CASE StartTable
  BY <1>2 DEF StartTable, memory
<1>3. CASE Started
  BY <1>3 DEF Started, memory
<1>4. ASSUME NEW d \in DeviceID, Found(d) PROVE (TypeOK /\ InHand)'
  BY <1>4 DEF Found, memory
<1>5. ASSUME NEW d \in DeviceID, NotFound(d) PROVE (TypeOK /\ InHand)'
  <2>1. PICK rest \in {queueOfDevice} \cup [Cell -> LeftoverByte] :
          queueOfDevice' = Grown(d, rest)
    BY <1>5 DEF NotFound
  <2>2. \A j \in Cell : rest[j] \in 0 .. Byte - 1
    BY DeviceRegistryAssumption
  <2>3. d \in Nat /\ Size(d) \in 0 .. Base * Base * Base - 1
    BY DeviceRegistryAssumption, Powers DEF Size
  <2>4. queueOfDevice' \in [Cell -> 0 .. Byte - 1]
    BY <2>1, <2>2, <2>3, ByteType DEF Grown
  <2>5. QED
    BY <1>5, <2>3, <2>4 DEF NotFound
<1>6. CASE Truncate
  BY <1>6, Powers DEF Truncate, memory, Empty
<1>7. CASE Write
  BY <1>7, WriteType DEF Write, memory
<1>8. CASE CreateTable
  BY <1>8, DeviceRegistryAssumption DEF CreateTable, memory
<1>9. CASE Insert
  BY <1>9 DEF Insert, memory
<1>10. CASE Crash
  <2>1. Byte \in Nat /\ Byte >= 1
    BY DeviceRegistryAssumption, Powers
  <2>2. QED
    BY <1>10, <2>1, Powers DEF Crash, Zeros
<1>11. CASE UNCHANGED vars
  BY <1>11 DEF vars, memory
<1>12. QED
  BY <1>1, <1>2, <1>3, <1>4, <1>5, <1>6, <1>7, <1>8, <1>9, <1>10, <1>11 DEF Next

\* Type correctness: cells hold bytes, the file two digits, and main's loop
\* stays within the devices the file counted (src/envDataNode.c:158-223,
\* src/main.c:63-79).
THEOREM TypeCorrect == Spec => []TypeOK
<1>1. Init => TypeOK /\ InHand
  BY TypeInit
<1>2. TypeOK /\ InHand /\ [Next]_vars => (TypeOK /\ InHand)'
  BY TypeNext
<1>3. QED
  BY <1>1, <1>2, PTL DEF Spec

-----------------------------------------------------------------------------
\* A cell that two digits count is one whose byte is not cut short.
LEMMA SeenBytes ==
  ASSUME NEW j \in Nat, j < Base * Base
  PROVE  j \in Cell /\ j % Byte = j
<1>1. Byte \in Nat /\ j < Byte
  BY DeviceRegistryAssumption, Powers
<1>2. j % Byte = j
  BY <1>1
<1>3. QED
  BY <1>2, Powers DEF Cell

\* The invariant holds at the start, when there are no cells ...
LEMMA RegisteredInit == Init => Registered /\ InsertHasTable
BY DEF Init, Registered, InsertHasTable, Seen, Zeros

\* ... and every step keeps it: a cell is in the array with its table, or it
\* is the device whose table is being created.
LEMMA RegisteredNext ==
  ASSUME LeftoverByte = {0}, LeftoverDigit = {}
  PROVE  IInv /\ [Next]_vars => (Registered /\ InsertHasTable)'
<1> SUFFICES ASSUME IInv, [Next]_vars PROVE (Registered /\ InsertHasTable)'
  OBVIOUS
<1> USE DEF IInv, Registered, InsertHasTable, Pending
<1>1. CASE Start
  <2>1. PICK num \in read_deviceNumFile, fresh \in [Cell -> {0}] :
          /\ allocated' = num
          /\ queueOfDevice' = [j \in Cell |-> IF j < num THEN (j + 1) % Byte
                                              ELSE fresh[j]]
    BY <1>1 DEF Start
  <2>2. num \in 0 .. Base * Base - 1
    BY <2>1, ReadBound DEF TypeOK
  <2>3. ASSUME NEW j \in Seen
        PROVE  queueOfDevice'[j] = 0 \/ queueOfDevice'[j] \in 1 .. num
    <3>1. j \in Cell /\ j \in Nat
      BY Powers DEF Seen, Cell
    <3>2. CASE j < num
      <4>1. j + 1 \in Nat /\ j + 1 < Base * Base
        BY <2>2, <3>1, <3>2, Powers
      <4>2. (j + 1) % Byte = j + 1
        BY <4>1, SeenBytes
      <4>3. QED
        BY <2>1, <2>2, <3>1, <3>2, <4>2
    <3>3. CASE ~(j < num)
      BY <2>1, <3>1, <3>3
    <3>4. QED
      BY <3>2, <3>3
  <2>4. Pending' = 1 .. num
    BY <1>1, <2>1, <2>2, Powers DEF Start
  <2>5. QED
    BY <1>1, <2>3, <2>4 DEF Start, Seen, Cell
<1>2. CASE StartTable
  <2>1. Pending \subseteq Pending' \cup {i + 1}
    BY <1>2 DEF StartTable, TypeOK, memory
  <2>2. QED
    BY <1>2, <2>1 DEF StartTable, memory, Seen, Cell
<1>3. CASE Started
  <2>1. Pending = {}
    BY <1>3 DEF Started, TypeOK
  <2>2. QED
    BY <1>3, <2>1 DEF Started, memory, Seen, Cell
<1>4. ASSUME NEW d \in DeviceID, Found(d)
      PROVE  (Registered /\ InsertHasTable)'
  <2>1. PICK j \in 0 .. file.num - 1 : queueOfDevice[j] = d
    BY <1>4, ReadBound DEF Found
  <2>2. j \in Seen
    BY <2>1, Powers DEF TypeOK, Seen, Cell
  <2>3. d \in tables
    BY <1>4, <2>1, <2>2, DeviceRegistryAssumption DEF Found
  <2>4. QED
    BY <1>4, <2>3 DEF Found, memory, Seen, Cell
<1>5. ASSUME NEW d \in DeviceID, NotFound(d)
      PROVE  (Registered /\ InsertHasTable)'
  <2>1. PICK rest \in {queueOfDevice} \cup [Cell -> {0}] :
          queueOfDevice' = Grown(d, rest)
    BY <1>5 DEF NotFound
  <2>2. ASSUME NEW j \in Seen
        PROVE  queueOfDevice'[j] \in {0} \cup tables \cup {d}
    <3>1. j \in Cell /\ j \in Nat /\ j < Base * Base
      BY Powers DEF Seen, Cell
    <3>2. j % Byte = j
      BY <3>1, SeenBytes
    <3>3. queueOfDevice[j] \in {0} \cup tables
      BY <1>5 DEF NotFound
    <3>4. rest[j] \in {0} \cup tables
      BY <2>1, <3>1, <3>3
    <3>5. QED
      BY <2>1, <3>1, <3>2, <3>3, <3>4 DEF Grown
  <2>3. QED
    BY <1>5, <2>2 DEF NotFound, Seen, Cell
<1>6. CASE Truncate
  BY <1>6 DEF Truncate, memory, Seen, Cell
<1>7. CASE Write
  BY <1>7 DEF Write, memory, Seen, Cell
<1>8. CASE CreateTable
  BY <1>8 DEF CreateTable, memory, Seen, Cell
<1>9. CASE Insert
  BY <1>9 DEF Insert, memory, Seen, Cell
<1>10. CASE Crash
  BY <1>10 DEF Crash, Zeros, Seen, Cell
<1>11. CASE UNCHANGED vars
  BY <1>11 DEF vars, memory, Seen, Cell
<1>12. QED
  BY <1>1, <1>2, <1>3, <1>4, <1>5, <1>6, <1>7, <1>8, <1>9, <1>10, <1>11 DEF Next

\* Every reading is inserted into a table that exists, whatever the devices'
\* numbers and wherever the process died, when fresh memory holds zeros
\* (src/pthread_sql.c:162-196).
THEOREM EveryInsertHasTable ==
  ASSUME LeftoverByte = {0}, LeftoverDigit = {}
  PROVE  Spec => []InsertHasTable
<1>1. Init => IInv
  BY TypeInit, RegisteredInit DEF IInv
<1>2. IInv /\ [Next]_vars => IInv'
  BY TypeNext, RegisteredNext DEF IInv
<1>3. IInv => InsertHasTable
  BY DEF IInv
<1>4. QED
  BY <1>1, <1>2, <1>3, PTL DEF Spec

-----------------------------------------------------------------------------
\* File and array stay in step while two digits are enough.
LEMMA CountedNext ==
  ASSUME LeftoverDigit = {}, \A d \in DeviceID : Size(d) < Base * Base
  PROVE  TypeOK /\ InHand /\ Counted /\ [Next]_vars => Counted'
<1> SUFFICES ASSUME TypeOK, InHand, Counted, [Next]_vars PROVE Counted'
  OBVIOUS
<1> USE DEF Counted, memory
<1>1. CASE Start
  <2>1. read_deviceNumFile = {file.num}
    BY ReadBound
  <2>2. QED
    BY <1>1, <2>1 DEF Start
<1>2. CASE Write
  <2>1. file'.num = Size(deviceID)
    BY <1>2 DEF Write, write_deviceNumFile, InHand
  <2>2. QED
    BY <1>2, <2>1 DEF Write
<1>3. CASE StartTable \/ Started \/ Truncate \/ CreateTable \/ Insert \/ Crash
  BY <1>3 DEF StartTable, Started, Truncate, CreateTable, Insert, Crash
<1>4. ASSUME NEW d \in DeviceID, Found(d) \/ NotFound(d) PROVE Counted'
  BY <1>4 DEF Found, NotFound
<1>5. CASE UNCHANGED vars
  BY <1>5 DEF vars
<1>6. QED
  BY <1>1, <1>2, <1>3, <1>4, <1>5 DEF Next

\* While readings are awaited the file says how many cells there are, as long
\* as no device's number needs a third digit (src/envDataNode.c:209-221).
THEOREM FileAgrees ==
  ASSUME LeftoverDigit = {}, \A d \in DeviceID : Size(d) < Base * Base
  PROVE  Spec => []FileCountsCells
<1>1. Init => TypeOK /\ InHand /\ Counted
  <2>1. Init => Counted
    BY DEF Init, Counted
  <2>2. QED
    BY <2>1, TypeInit
<1>2. TypeOK /\ InHand /\ Counted /\ [Next]_vars => (TypeOK /\ InHand /\ Counted)'
  BY TypeNext, CountedNext
<1>3. Counted => FileCountsCells
  BY DEF Counted, FileCountsCells
<1>4. QED
  BY <1>1, <1>2, <1>3, PTL DEF Spec

=============================================================================
