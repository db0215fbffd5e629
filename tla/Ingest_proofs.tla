---------------------------- MODULE Ingest_proofs ----------------------------
(***************************************************************************)
(* Proofs about Ingest, for every capacity, set of devices, measurements   *)
(* and readers.  IInv, the type and the lock discipline together, is       *)
(* inductive; the action properties and the refinement of ReadingStream    *)
(* follow from it and from the theorems about the circular queue of        *)
(* EnvDataNode, which come first: for every Capacity, push appends to      *)
(* Contents, pop takes its head, and the tests isEmpty and isFull are      *)
(* exact.  The cases of the modulus are settled first; the rest of that is *)
(* linear arithmetic on the indexes.                                       *)
(***************************************************************************)
EXTENDS Ingest, TLAPS

IInv == TypeOK /\ LockDiscipline

-----------------------------------------------------------------------------
(* The circular queue.                                                     *)

LEMMA CapacityPositive == Capacity \in Int /\ Capacity >= 1
BY CapacityAssumption

\* The slot k places after an index of the array, without the modulus.
LEMMA SlotCases ==
  ASSUME NEW i \in Index, NEW k \in 0 .. Capacity
  PROVE  /\ Slot(i, k) = IF i + k < Capacity THEN i + k ELSE i + k - Capacity
         /\ Slot(i, k) \in Index
BY CapacityAssumption DEF Index, Slot

\* The successor of an index, without the modulus.
LEMMA SuccCases ==
  ASSUME NEW i \in Index
  PROVE  /\ Succ(i) = IF i = Capacity - 1 THEN 0 ELSE i + 1
         /\ Succ(i) \in Index
<1>1. 1 \in 0 .. Capacity
  BY CapacityPositive
<1>2. /\ Slot(i, 1) = IF i + 1 < Capacity THEN i + 1 ELSE i + 1 - Capacity
      /\ Slot(i, 1) \in Index
  BY <1>1, SlotCases
<1>3. QED
  BY <1>2, CapacityPositive DEF Index, Succ

\* The slots after f up to r are counted by Span; the last of them is r, and
\* moving r or f one place on adds or removes one of them.
LEMMA SpanCases ==
  ASSUME NEW f \in Index, NEW r \in Index
  PROVE  /\ Span(f, r) \in 0 .. Capacity - 1
         /\ \A k \in 1 .. Span(f, r) : Slot(f, k) = r <=> k = Span(f, r)
         /\ Succ(r) # f => Span(f, Succ(r)) = Span(f, r) + 1
         /\ f # r => Span(Succ(f), r) = Span(f, r) - 1
<1> USE CapacityPositive DEF Index
<1>1. Span(f, r) \in 0 .. Capacity - 1
  BY DEF Span
<1>2. ASSUME NEW k \in 1 .. Span(f, r)
      PROVE  Slot(f, k) = r <=> k = Span(f, r)
  <2>1. Slot(f, k) = IF f + k < Capacity THEN f + k ELSE f + k - Capacity
    BY <1>1, SlotCases
  <2>2. QED
    BY <1>1, <2>1 DEF Span
<1>3. ASSUME Succ(r) # f PROVE Span(f, Succ(r)) = Span(f, r) + 1
  <2>1. Succ(r) = IF r = Capacity - 1 THEN 0 ELSE r + 1
    BY SuccCases
  <2>2. CASE r = Capacity - 1
    BY <1>3, <2>1, <2>2 DEF Span
  <2>3. CASE r # Capacity - 1
    BY <1>3, <2>1, <2>3 DEF Span
  <2>4. QED
    BY <2>2, <2>3
<1>4. ASSUME f # r PROVE Span(Succ(f), r) = Span(f, r) - 1
  <2>1. Succ(f) = IF f = Capacity - 1 THEN 0 ELSE f + 1
    BY SuccCases
  <2>2. CASE f = Capacity - 1
    BY <1>4, <2>1, <2>2 DEF Span
  <2>3. CASE f # Capacity - 1
    BY <1>4, <2>1, <2>3 DEF Span
  <2>4. QED
    BY <2>2, <2>3
<1>5. QED
  BY <1>1, <1>2, <1>3, <1>4

\* Counting k + 1 slots on is counting k from the next one.
LEMMA SlotOfSucc ==
  ASSUME NEW f \in Index, NEW k \in 1 .. Capacity - 1
  PROVE  Slot(Succ(f), k) = Slot(f, k + 1)
<1>1. /\ Succ(f) = IF f = Capacity - 1 THEN 0 ELSE f + 1
      /\ Succ(f) \in Index
  BY SuccCases
<1>2. k \in 0 .. Capacity /\ k + 1 \in 0 .. Capacity
  BY CapacityPositive
<1>3. Slot(Succ(f), k) = IF Succ(f) + k < Capacity THEN Succ(f) + k
                                                   ELSE Succ(f) + k - Capacity
  BY <1>1, <1>2, SlotCases
<1>4. Slot(f, k + 1) = IF f + (k + 1) < Capacity THEN f + (k + 1)
                                                 ELSE f + (k + 1) - Capacity
  BY <1>2, SlotCases
<1>5. CASE f = Capacity - 1
  BY <1>1, <1>3, <1>4, <1>5, CapacityPositive DEF Index
<1>6. CASE f # Capacity - 1
  BY <1>1, <1>3, <1>4, <1>6, CapacityPositive DEF Index
<1>7. QED
  BY <1>5, <1>6

\* A queue never holds more than Capacity - 1 elements, all of them its own.
LEMMA ContentsType ==
  ASSUME NEW Element, NEW q \in Node(Element)
  PROVE  /\ Size(q) \in 0 .. Capacity - 1
         /\ Contents(q) \in Seq(Element)
         /\ Len(Contents(q)) = Size(q)
<1>1. Size(q) \in 0 .. Capacity - 1
  BY SpanCases DEF Node, Size
<1>2. ASSUME NEW k \in 1 .. Size(q)
      PROVE  q.envData[Slot(q.front, k)] \in Element
  <2>1. k \in 0 .. Capacity
    BY <1>1, CapacityPositive
  <2>2. Slot(q.front, k) \in Index
    BY <2>1, SlotCases DEF Node
  <2>3. QED
    BY <2>2 DEF Node
<1>3. Contents(q) \in [1 .. Size(q) -> Element]
  BY <1>2 DEF Contents
<1>4. QED
  BY <1>1, <1>3

\* isEmpty and isFull (src/envDataNode.c:57 and :73) are exact: empty means
\* that nothing is held, full that all of the Capacity - 1 usable slots are.
THEOREM EmptyAndFullAreExact ==
  ASSUME NEW Element, NEW q \in Node(Element)
  PROVE  /\ IsEmpty(q) <=> Contents(q) = << >>
         /\ IsFull(q)  <=> Len(Contents(q)) = Capacity - 1
<1>1. q.rear \in Index /\ q.front \in Index
  BY DEF Node
<1>2. IsEmpty(q) <=> Size(q) = 0
  BY <1>1, CapacityPositive DEF Index, Size, Span, IsEmpty
<1>3. IsFull(q) <=> Size(q) = Capacity - 1
  <2>1. Succ(q.rear) = IF q.rear = Capacity - 1 THEN 0 ELSE q.rear + 1
    BY <1>1, SuccCases
  <2>2. QED
    BY <1>1, <2>1, CapacityPositive DEF Index, Size, Span, IsFull
<1>4. QED
  BY <1>2, <1>3, ContentsType

\* A push on a queue that is not full (src/envDataNode.c:38) appends its
\* argument and disturbs nothing that is waiting to be popped.
THEOREM PushAppends ==
  ASSUME NEW Element, NEW q \in Node(Element), NEW d \in Element, ~IsFull(q)
  PROVE  /\ Push(q, d) \in Node(Element)
         /\ Contents(Push(q, d)) = Append(Contents(q), d)
<1> DEFINE p == Push(q, d)
<1>1. /\ q.rear \in Index /\ q.front \in Index
      /\ q.envData \in [Index -> Element]
      /\ Succ(q.rear) \in Index
      /\ Succ(q.rear) # q.front
  BY SuccCases DEF Node, IsFull
<1>2. /\ p \in Node(Element)
      /\ p.front = q.front
      /\ p.rear = Succ(q.rear)
      /\ p.envData = [q.envData EXCEPT ![Succ(q.rear)] = d]
  BY <1>1 DEF Node, Push
<1>3. /\ Size(q) \in 0 .. Capacity - 1
      /\ Size(p) \in 0 .. Capacity - 1
      /\ Size(p) = Size(q) + 1
  BY <1>1, <1>2, SpanCases DEF Size
<1>4. ASSUME NEW k \in 1 .. Size(p)
      PROVE  /\ Slot(q.front, k) \in Index
             /\ Slot(q.front, k) = Succ(q.rear) <=> k = Size(p)
  <2>1. k \in 0 .. Capacity
    BY <1>3, CapacityPositive
  <2>2. Slot(q.front, k) \in Index
    BY <1>1, <2>1, SlotCases
  <2>3. QED
    BY <1>1, <1>2, <2>2, SpanCases DEF Size
<1>5. /\ Contents(q) \in Seq(Element)
      /\ Len(Contents(q)) = Size(q)
      /\ Contents(p) \in Seq(Element)
      /\ Len(Contents(p)) = Size(q) + 1
  BY <1>2, <1>3, ContentsType
<1>6. Contents(p)[Size(q) + 1] = d
  BY <1>1, <1>2, <1>3, <1>4 DEF Contents
<1>7. ASSUME NEW k \in 1 .. Size(q)
      PROVE  Contents(p)[k] = Contents(q)[k]
  BY <1>1, <1>2, <1>3, <1>4 DEF Contents
<1>8. QED
  BY <1>2, <1>3, <1>5, <1>6, <1>7

\* A pop of a queue that is not empty (src/envDataNode.c:89) returns the
\* oldest element and leaves the others in their order.
THEOREM PopTakesHead ==
  ASSUME NEW Element, NEW q \in Node(Element), ~IsEmpty(q)
  PROVE  /\ Pop(q) \in Node(Element)
         /\ Contents(q) # << >>
         /\ Popped(q) = Head(Contents(q))
         /\ Contents(Pop(q)) = Tail(Contents(q))
<1> DEFINE p == Pop(q)
<1>1. /\ q.rear \in Index /\ q.front \in Index
      /\ q.envData \in [Index -> Element]
      /\ Succ(q.front) \in Index
      /\ q.front # q.rear
  BY SuccCases DEF Node, IsEmpty
<1>2. /\ p \in Node(Element)
      /\ p.front = Succ(q.front)
      /\ p.rear = q.rear
      /\ p.envData = q.envData
  BY <1>1 DEF Node, Pop
<1>3. /\ Size(q) \in 1 .. Capacity - 1
      /\ Size(p) = Size(q) - 1
  <2>1. Size(q) \in 0 .. Capacity - 1 /\ Size(p) \in 0 .. Capacity - 1
    BY <1>1, <1>2, SpanCases DEF Size
  <2>2. Size(p) = Size(q) - 1
    BY <1>1, <1>2, SpanCases DEF Size
  <2>3. QED
    BY <2>1, <2>2, CapacityPositive
<1>4. /\ Contents(q) \in Seq(Element)
      /\ Len(Contents(q)) = Size(q)
      /\ Contents(p) \in Seq(Element)
      /\ Len(Contents(p)) = Size(q) - 1
  BY <1>2, <1>3, ContentsType
<1>5. Contents(q)[1] = Popped(q)
  BY <1>3 DEF Contents, Popped, Succ
<1>6. ASSUME NEW k \in 1 .. Size(q) - 1
      PROVE  Slot(Succ(q.front), k) = Slot(q.front, k + 1)
  BY <1>1, <1>3, SlotOfSucc, CapacityPositive
<1>7. ASSUME NEW k \in 1 .. Size(q) - 1
      PROVE  Contents(p)[k] = Contents(q)[k + 1]
  BY <1>2, <1>3, <1>6 DEF Contents
<1>8. QED
  BY <1>2, <1>3, <1>4, <1>5, <1>7

-----------------------------------------------------------------------------
(* The threads.                                                            *)

\* What JSON_Parser leaves in tempEnvData is a reading.
LEMMA ParserType ==
  ASSUME NEW f \in Frame, NEW r \in Reading
  PROVE  JSON_Parser(f, r) \in Reading
BY DEF Frame, Reading, JSON_Parser

\* The fresh queue is empty.
LEMMA InitNodeEmpty ==
  ASSUME NEW r \in Reading
  PROVE  /\ InitNode([i \in Index |-> r]) \in Node(Reading)
         /\ IsEmpty(InitNode([i \in Index |-> r]))
BY CapacityPositive DEF InitNode, Node, Index, IsEmpty

\* What a pop returns is a reading.
LEMMA PoppedType ==
  ASSUME NEW q \in Node(Reading)
  PROVE  Popped(q) \in Reading
<1>1. q.front \in Index /\ q.envData \in [Index -> Reading]
  BY DEF Node
<1>2. Succ(q.front) \in Index
  BY <1>1, SuccCases
<1>3. QED
  BY <1>1, <1>2 DEF Popped

\* The type holds at the start.
LEMMA TypeInit == Init => TypeOK
<1>1. SUFFICES ASSUME Init PROVE TypeOK
  OBVIOUS
<1>2. buffer \in Frame
  BY <1>1 DEF Init, Frame
<1>3. envDataNode \in Node(Reading)
  BY <1>1, InitNodeEmpty DEF Init
<1>4. QED
  BY <1>1, <1>2, <1>3 DEF Init, TypeOK, LoraPC, SqlPC

\* Every step of the LoRa thread keeps the type.
LEMMA TypeLora == TypeOK /\ LoraNext => TypeOK'
<1>1. SUFFICES ASSUME TypeOK, LoraNext PROVE TypeOK'
  OBVIOUS
<1> USE <1>1 DEF TypeOK, LoraPC, SqlPC, loraVars, sqlVars
<1>2. ASSUME NEW f \in Frame, LoraRead(f) PROVE TypeOK'
  BY <1>2, ParserType DEF LoraRead
<1>3. CASE LoraLock
  BY <1>3 DEF LoraLock
<1>4. CASE LoraPush
  <2>1. envDataNode' \in Node(Reading)
    BY <1>4, PushAppends DEF LoraPush
  <2>2. sql' \in SqlPC /\ (sql' = "insert" => sql = "insert")
    BY <1>4 DEF LoraPush, Signal
  <2>3. QED
    BY <1>4, <2>1, <2>2 DEF LoraPush
<1>5. CASE LoraUnlock
  BY <1>5 DEF LoraUnlock
<1>6. CASE UartFails
  BY <1>6 DEF UartFails
<1>7. QED
  BY <1>1, <1>2, <1>3, <1>4, <1>5, <1>6 DEF LoraNext

\* Every step of the SQL thread keeps the type.
LEMMA TypeSql == TypeOK /\ SqlNext => TypeOK'
<1>1. SUFFICES ASSUME TypeOK, SqlNext PROVE TypeOK'
  OBVIOUS
<1> USE <1>1 DEF TypeOK, LoraPC, SqlPC, loraVars, sqlVars
<1>2. CASE SqlLock
  BY <1>2 DEF SqlLock
<1>3. CASE SqlWait
  BY <1>3 DEF SqlWait
<1>4. CASE SpuriousWakeup
  BY <1>4 DEF SpuriousWakeup
<1>5. CASE SqlWakeup
  BY <1>5 DEF SqlWakeup
<1>6. CASE SqlWrLock
  BY <1>6 DEF SqlWrLock
<1>7. CASE SqlPop
  <2>1. /\ envDataNode' \in Node(Reading)
        /\ envdata' \in Reading
    BY <1>7, PopTakesHead, PoppedType DEF SqlPop
  <2>2. sql' \in SqlPC /\ (sql' = "insert" => envdata'.deviceID # 0)
    BY <1>7 DEF SqlPop
  <2>3. QED
    BY <1>7, <2>1, <2>2 DEF SqlPop
<1>8. CASE SqlInsert
  BY <1>8 DEF SqlInsert
<1>9. CASE SqlRwUnlock
  BY <1>9 DEF SqlRwUnlock
<1>10. CASE SqlUnlock
  BY <1>10 DEF SqlUnlock
<1>11. QED
  BY <1>1, <1>2, <1>3, <1>4, <1>5, <1>6, <1>7, <1>8, <1>9, <1>10 DEF SqlNext

\* Every step keeps the type: the readers' steps change rdlocked only.
LEMMA TypeStep == TypeOK /\ [Next]_vars => TypeOK'
<1>1. SUFFICES ASSUME TypeOK, ReaderNext \/ UNCHANGED vars PROVE TypeOK'
  BY TypeLora, TypeSql DEF Next
<1>2. ASSUME NEW r \in Readers, RdLock(r) \/ RdUnlock(r) PROVE TypeOK'
  BY <1>1, <1>2 DEF RdLock, RdUnlock, TypeOK, loraVars, sqlVars
<1>3. CASE UNCHANGED vars
  BY <1>1, <1>3 DEF vars, loraVars, sqlVars, TypeOK
<1>4. QED
  BY <1>1, <1>2, <1>3 DEF ReaderNext

\* Whatever the threads do and however they interleave, every variable keeps
\* its type: no index of the queue leaves its array, and no reading without a
\* device ID reaches insert_data_to_SqliteDB (src/pthread_sql.c:27).
THEOREM TypeCorrect == Spec => []TypeOK
<1>1. QED
  BY TypeInit, TypeStep, PTL DEF Spec

-----------------------------------------------------------------------------
\* No lock is held at the start.
LEMMA LocksInit == Init => LockDiscipline
BY DEF Init, LockDiscipline, LoraHolds, SqlHolds

\* Every step keeps the locks: a thread takes revdata_mutex only when it is
\* free, and the write lock only when no reader is in.
LEMMA LocksStep == IInv /\ [Next]_vars => LockDiscipline'
<1>1. SUFFICES ASSUME IInv, [Next]_vars PROVE LockDiscipline'
  OBVIOUS
<1> USE <1>1 DEF IInv, LockDiscipline, LoraHolds, SqlHolds, loraVars, sqlVars
<1>2. CASE LoraNext
  BY <1>2 DEF LoraNext, LoraRead, LoraLock, LoraPush, LoraUnlock, UartFails, Signal
<1>3. CASE SqlNext
  <2>1. CASE SqlLock \/ SqlWait \/ SpuriousWakeup \/ SqlWakeup
    BY <2>1 DEF SqlLock, SqlWait, SpuriousWakeup, SqlWakeup
  <2>2. CASE SqlWrLock \/ SqlPop \/ SqlInsert
    BY <2>2 DEF SqlWrLock, SqlPop, SqlInsert
  <2>3. CASE SqlRwUnlock \/ SqlUnlock
    BY <2>3 DEF SqlRwUnlock, SqlUnlock
  <2>4. QED
    BY <1>3, <2>1, <2>2, <2>3 DEF SqlNext
<1>4. CASE ReaderNext
  BY <1>4 DEF ReaderNext, RdLock, RdUnlock
<1>5. CASE UNCHANGED vars
  BY <1>5 DEF vars
<1>6. QED
  BY <1>1, <1>2, <1>3, <1>4, <1>5 DEF Next

\* The invariant is inductive.
LEMMA InvariantHolds == Spec => []IInv
<1>1. Init => IInv
  BY TypeInit, LocksInit DEF IInv
<1>2. IInv /\ [Next]_vars => IInv'
  BY TypeStep, LocksStep DEF IInv
<1>3. QED
  BY <1>1, <1>2, PTL DEF Spec

\* Mutual exclusion on the queue and on the database: revdata_mutex belongs
\* to the thread between its lock and its unlock, and the write side of
\* rwlock excludes every reader (src/pthread_sql.c:20-33).
THEOREM LocksAreRespected == Spec => []LockDiscipline
<1>1. QED
  BY InvariantHolds, PTL DEF IInv

-----------------------------------------------------------------------------
\* A client that reads never sees the database change (src/pthread_socket.c:240).
THEOREM ReadersAreStable == Spec => RowStableUnderReaders
<1>1. ASSUME IInv, [Next]_vars, ~UNCHANGED vars, rdlocked # {} PROVE row' = row
  <2>1. ~wrlocked /\ sql # "insert"
    BY <1>1 DEF IInv, LockDiscipline
  <2>2. CASE LoraNext
    BY <2>2 DEF LoraNext, LoraRead, LoraLock, LoraPush, LoraUnlock, UartFails, sqlVars
  <2>3. CASE SqlNext
    BY <2>1, <2>3 DEF SqlNext, SqlLock, SqlWait, SpuriousWakeup, SqlWakeup,
         SqlWrLock, SqlPop, SqlInsert, SqlRwUnlock, SqlUnlock, sqlVars
  <2>4. CASE ReaderNext
    BY <2>4 DEF ReaderNext, RdLock, RdUnlock, sqlVars
  <2>5. QED
    BY <1>1, <2>2, <2>3, <2>4 DEF Next
<1>2. QED
  BY <1>1, InvariantHolds, PTL DEF Spec, RowStableUnderReaders

\* A push that fills the queue leaves the SQL thread awake
\* (src/pthread_lora.c:179).
THEOREM SleeperIsWoken == Spec => AsleepNeverFills
<1>1. ASSUME [Next]_vars, sql = "asleep", sql' = "asleep", ~IsFull(envDataNode)
      PROVE  ~IsFull(envDataNode')
  <2>1. CASE LoraPush
    BY <1>1, <2>1 DEF LoraPush, Signal
  <2>2. CASE envDataNode' = envDataNode
    BY <1>1, <2>2
  <2>3. CASE LoraNext
    BY <2>1, <2>2, <2>3 DEF LoraNext, LoraRead, LoraLock, LoraUnlock, UartFails
  <2>4. CASE SqlNext
    BY <1>1, <2>4 DEF SqlNext, SqlLock, SqlWait, SpuriousWakeup, SqlWakeup,
         SqlWrLock, SqlPop, SqlInsert, SqlRwUnlock, SqlUnlock
  <2>5. CASE ReaderNext
    BY <2>2, <2>5 DEF ReaderNext, RdLock, RdUnlock
  <2>6. CASE UNCHANGED vars
    BY <2>2, <2>6 DEF vars
  <2>7. QED
    BY <1>1, <2>3, <2>4, <2>5, <2>6 DEF Next
<1>2. QED
  BY <1>1, PTL DEF Spec, AsleepNeverFills

-----------------------------------------------------------------------------
\* When no reading is in the SQL thread's hands, what is pending is the queue.
LEMMA PendingIsContents ==
  ASSUME TypeOK
  PROVE  /\ Contents(envDataNode) \in Seq(Reading)
         /\ sql # "insert" => Pending = Contents(envDataNode)
         /\ sql = "insert" =>
              /\ Pending # << >>
              /\ Head(Pending) = envdata
              /\ Tail(Pending) = Contents(envDataNode)
<1>1. Contents(envDataNode) \in Seq(Reading)
  BY ContentsType DEF TypeOK
<1>2. envdata \in Reading
  BY DEF TypeOK
<1>3. ASSUME sql # "insert" PROVE Pending = Contents(envDataNode)
  BY <1>1, <1>3 DEF Pending
<1>4. ASSUME sql = "insert"
      PROVE  /\ Pending # << >>
             /\ Head(Pending) = envdata
             /\ Tail(Pending) = Contents(envDataNode)
  BY <1>1, <1>2, <1>4 DEF Pending
<1>5. QED
  BY <1>1, <1>3, <1>4

\* A step that leaves the queue, the database and the reading in hand alone
\* is a stutter of the abstract stream.
LEMMA Stutter ==
  ASSUME UNCHANGED <<envDataNode, envdata, row>>,
         sql' = sql \/ (sql # "insert" /\ sql' # "insert")
  PROVE  UNCHANGED Stream!stream
<1>1. Contents(envDataNode') = Contents(envDataNode)
  OBVIOUS
<1>2. Contents(envDataNode)' = Contents(envDataNode')
  BY DEF Contents, Size, Span, Slot
<1>3. Pending' = Pending
  BY <1>1, <1>2 DEF Pending
<1>4. QED
  BY <1>3 DEF Stream!stream

\* A push that succeeds accepts a reading; one on a full queue is a stutter.
LEMMA PushAccepts ==
  ASSUME IInv, LoraPush
  PROVE  [Stream!Next]_(Stream!stream)
<1>1. /\ sql # "insert"
      /\ tempEnvData \in Reading
      /\ envDataNode \in Node(Reading)
  BY DEF IInv, TypeOK, LockDiscipline, LoraHolds, SqlHolds, LoraPush
<1>2. sql' # "insert" /\ envdata' = envdata /\ row' = row
  BY <1>1 DEF LoraPush, Signal, sqlVars
<1>3. CASE UNCHANGED <<envDataNode, sql>>
  BY <1>2, <1>3, Stutter
<1>4. CASE ~IsFull(envDataNode) /\ envDataNode' = Push(envDataNode, tempEnvData)
  <2>1. Pending = Contents(envDataNode)
    BY <1>1, PendingIsContents DEF IInv
  <2>2. /\ envDataNode' \in Node(Reading)
        /\ Contents(envDataNode') = Append(Contents(envDataNode), tempEnvData)
    BY <1>1, <1>4, PushAppends
  <2>3. Contents(envDataNode') \in Seq(Reading)
    BY <2>2, ContentsType
  <2>4. Pending' = Contents(envDataNode')
    BY <1>2, <2>3 DEF Pending, Contents, Size, Span, Slot
  <2>5. Len(Pending) < Capacity - 1
    <3>1. Size(envDataNode) \in 0 .. Capacity - 1
      BY <1>1, ContentsType
    <3>2. Len(Contents(envDataNode)) = Size(envDataNode)
      BY <1>1, ContentsType
    <3>3. Len(Contents(envDataNode)) # Capacity - 1
      BY <1>1, <1>4, EmptyAndFullAreExact
    <3>4. QED
      BY <2>1, <3>1, <3>2, <3>3, CapacityPositive
  <2>6. Stream!Accept(tempEnvData)
    BY <1>2, <2>1, <2>2, <2>4, <2>5 DEF Stream!Accept
  <2>7. QED
    BY <1>1, <2>6 DEF Stream!Next
<1>5. QED
  BY <1>3, <1>4 DEF LoraPush

\* A pop moves the head of the queue to the SQL thread's hands, which is a
\* stutter, or drops it because it has no device ID.
LEMMA PopDiscards ==
  ASSUME IInv, SqlPop
  PROVE  [Stream!Next]_(Stream!stream)
<1>1. envDataNode \in Node(Reading) /\ sql # "insert" /\ row' = row
  BY DEF IInv, TypeOK, SqlPop
<1>2. /\ envDataNode' \in Node(Reading)
      /\ Contents(envDataNode) # << >>
      /\ envdata' = Head(Contents(envDataNode))
      /\ Contents(envDataNode') = Tail(Contents(envDataNode))
  BY <1>1, PopTakesHead DEF SqlPop
<1>3. /\ Contents(envDataNode) \in Seq(Reading)
      /\ Contents(envDataNode') \in Seq(Reading)
  BY <1>1, <1>2, ContentsType
<1>4. Pending = Contents(envDataNode)
  BY <1>1, PendingIsContents DEF IInv
<1>5. Contents(envDataNode)' = Contents(envDataNode')
  BY DEF Contents, Size, Span, Slot
<1>6. CASE envdata'.deviceID # 0
  <2>1. sql' = "insert"
    BY <1>6 DEF SqlPop
  <2>2. Pending' = <<envdata'>> \o Contents(envDataNode')
    BY <1>5, <2>1 DEF Pending
  <2>3. Pending' = Pending
    BY <1>2, <1>3, <1>4, <2>2
  <2>4. QED
    BY <1>1, <2>3 DEF Stream!stream
<1>7. CASE envdata'.deviceID = 0
  <2>1. sql' # "insert"
    BY <1>7 DEF SqlPop
  <2>2. Pending' = Contents(envDataNode')
    BY <1>3, <1>5, <2>1 DEF Pending
  <2>3. Stream!Discard
    BY <1>1, <1>2, <1>4, <1>7, <2>2 DEF Stream!Discard
  <2>4. QED
    BY <2>3 DEF Stream!Next
<1>8. QED
  BY <1>6, <1>7

\* An INSERT stores the reading in hand, or fails and loses it.
LEMMA InsertStores ==
  ASSUME IInv, SqlInsert
  PROVE  [Stream!Next]_(Stream!stream)
<1>1. /\ Pending # << >>
      /\ Head(Pending) = envdata
      /\ Tail(Pending) = Contents(envDataNode)
      /\ Contents(envDataNode) \in Seq(Reading)
      /\ envdata.deviceID # 0
  BY PendingIsContents DEF IInv, TypeOK, SqlInsert
<1>2. envDataNode' = envDataNode /\ sql' = "drain"
  BY DEF SqlInsert
<1>3. Contents(envDataNode)' = Contents(envDataNode)
  BY <1>2 DEF Contents, Size, Span, Slot
<1>4. Pending' = Tail(Pending)
  BY <1>1, <1>2, <1>3 DEF Pending
<1>5. CASE row' = envdata
  BY <1>1, <1>4, <1>5 DEF Stream!Store, Stream!Next
<1>6. CASE SqlMayFail /\ row' = row
  BY <1>1, <1>4, <1>6 DEF Stream!Discard, Stream!Next
<1>7. QED
  BY <1>5, <1>6 DEF SqlInsert

\* The LoRa thread, the SQL thread and the readers implement the abstract
\* stream: readings reach the database in the order of their acceptance, each
\* at most once, and are lost only for want of a device ID or to an SQL error.
THEOREM IngestImplementsStream == Spec => ImplementsStream
<1>1. ASSUME Init PROVE Stream!Init
  <2>1. envDataNode \in Node(Reading) /\ IsEmpty(envDataNode)
    BY <1>1, InitNodeEmpty DEF Init
  <2>2. Contents(envDataNode) = << >>
    BY <2>1, EmptyAndFullAreExact
  <2>3. QED
    BY <1>1, <2>2 DEF Init, Stream!Init, Pending
<1>2. ASSUME IInv, [Next]_vars PROVE [Stream!Next]_(Stream!stream)
  <2>1. CASE LoraNext
    <3>1. CASE \E f \in Frame : LoraRead(f)
      BY <3>1, Stutter DEF LoraRead, sqlVars
    <3>2. CASE LoraLock \/ LoraUnlock \/ UartFails
      BY <3>2, Stutter DEF LoraLock, LoraUnlock, UartFails, sqlVars
    <3>3. QED
      BY <1>2, <2>1, <3>1, <3>2, PushAccepts DEF LoraNext
  <2>2. CASE SqlNext
    <3>1. CASE SqlLock \/ SqlWait \/ SpuriousWakeup \/ SqlWakeup
      BY <3>1, Stutter DEF SqlLock, SqlWait, SpuriousWakeup, SqlWakeup, sqlVars
    <3>2. CASE SqlWrLock \/ SqlRwUnlock \/ SqlUnlock
      BY <3>2, Stutter DEF SqlWrLock, SqlRwUnlock, SqlUnlock, sqlVars
    <3>3. QED
      BY <1>2, <2>2, <3>1, <3>2, PopDiscards, InsertStores DEF SqlNext
  <2>3. CASE ReaderNext
    BY <2>3, Stutter DEF ReaderNext, RdLock, RdUnlock, sqlVars
  <2>4. CASE UNCHANGED vars
    BY <2>4, Stutter DEF vars, sqlVars
  <2>5. QED
    BY <1>2, <2>1, <2>2, <2>3, <2>4 DEF Next
<1>3. QED
  BY <1>1, <1>2, InvariantHolds, PTL DEF Spec, ImplementsStream, Stream!Spec

=============================================================================
