-------------------------- MODULE ThreadPool_proofs --------------------------
(***************************************************************************)
(* Proofs about the thread pool, for every number of workers, every set of *)
(* tasks and every queue size.  While it serves the inductive invariant is *)
(* IInv: the type, the lock discipline, the agreement of head, tail and    *)
(* count, and what a worker and the main thread have in hand.  With SIGINT *)
(* the lock is kept only up to the handler's unlock (LockKept), and the    *)
(* invariants are those that survive it.                                   *)
(***************************************************************************)
EXTENDS ThreadPool, FiniteSetTheorems, TLAPS

\* A worker that has taken a task holds the one at the head of the queue, and
\* the task being added is a task.
InHand ==
  /\ \A w \in Workers :
       /\ worker[w] = "advance" => task[w] = queue[head]
       /\ worker[w] \in {"advance", "count", "unlock", "run"} => task[w] \in Task
  /\ main \in {"add_lock", "add_check", "add_count"} => arg \in Task

IInv == TypeOK /\ LockDiscipline /\ RingAgrees /\ InHand

-----------------------------------------------------------------------------
LEMMA QueueSizePositive == QueueSize \in Int /\ QueueSize >= 1
BY ThreadPoolAssumption

\* The slot k places on, without the modulus.
LEMMA SlotCases ==
  ASSUME NEW i \in Slots, NEW k \in 0 .. QueueSize
  PROVE  /\ Slot(i, k) = IF i + k < QueueSize THEN i + k ELSE i + k - QueueSize
         /\ Slot(i, k) \in Slots
BY ThreadPoolAssumption DEF Slots, Slot

\* k places on from the next slot is k + 1 places on, and so is the slot after
\* the one k places on.
LEMMA SlotSteps ==
  ASSUME NEW i \in Slots, NEW k \in 0 .. QueueSize - 1
  PROVE  /\ Slot(i, 0) = i
         /\ Slot(Slot(i, 1), k) = Slot(i, k + 1)
         /\ Slot(Slot(i, k), 1) = Slot(i, k + 1)
<1> USE QueueSizePositive
<1>1. 0 \in 0 .. QueueSize /\ 1 \in 0 .. QueueSize
      /\ k \in 0 .. QueueSize /\ k + 1 \in 0 .. QueueSize
  OBVIOUS
<1>2. /\ Slot(i, 0) = IF i + 0 < QueueSize THEN i + 0 ELSE i + 0 - QueueSize
      /\ Slot(i, 1) = IF i + 1 < QueueSize THEN i + 1 ELSE i + 1 - QueueSize
      /\ Slot(i, k) = IF i + k < QueueSize THEN i + k ELSE i + k - QueueSize
      /\ Slot(i, k + 1) = IF i + (k + 1) < QueueSize THEN i + (k + 1)
                                                     ELSE i + (k + 1) - QueueSize
      /\ Slot(i, 1) \in Slots /\ Slot(i, k) \in Slots
  BY <1>1, SlotCases
<1>3. Slot(Slot(i, 1), k) = IF Slot(i, 1) + k < QueueSize
                            THEN Slot(i, 1) + k ELSE Slot(i, 1) + k - QueueSize
  BY <1>1, <1>2, SlotCases
<1>4. Slot(Slot(i, k), 1) = IF Slot(i, k) + 1 < QueueSize
                            THEN Slot(i, k) + 1 ELSE Slot(i, k) + 1 - QueueSize
  BY <1>1, <1>2, SlotCases
<1>5. Slot(i, 0) = i
  BY <1>2 DEF Slots
<1>6. Slot(Slot(i, 1), k) = Slot(i, k + 1)
  <2>1. CASE i + 1 < QueueSize
    BY <1>2, <1>3, <2>1 DEF Slots
  <2>2. CASE ~(i + 1 < QueueSize)
    BY <1>2, <1>3, <2>2 DEF Slots
  <2>3. QED
    BY <2>1, <2>2
<1>7. Slot(Slot(i, k), 1) = Slot(i, k + 1)
  <2>1. CASE i + k < QueueSize
    BY <1>2, <1>4, <2>1 DEF Slots
  <2>2. CASE ~(i + k < QueueSize)
    BY <1>2, <1>4, <2>2 DEF Slots
  <2>3. QED
    BY <2>1, <2>2
<1>8. QED
  BY <1>5, <1>6, <1>7

\* Fewer than QueueSize places apart, slots are different.
LEMMA SlotInjective ==
  ASSUME NEW i \in Slots, NEW j \in 0 .. QueueSize - 1, NEW k \in 0 .. QueueSize - 1,
         j # k
  PROVE  Slot(i, j) # Slot(i, k)
<1>1. /\ Slot(i, j) = IF i + j < QueueSize THEN i + j ELSE i + j - QueueSize
      /\ Slot(i, k) = IF i + k < QueueSize THEN i + k ELSE i + k - QueueSize
  BY SlotCases, QueueSizePositive
<1>2. QED
  BY <1>1, QueueSizePositive DEF Slots

-----------------------------------------------------------------------------
\* The invariant holds at the start.
LEMMA InvInit == Init => IInv
<1>1. SUFFICES ASSUME Init PROVE IInv
  OBVIOUS
<1>2. 0 \in Slots
  BY QueueSizePositive DEF Slots
<1>3. TypeOK
  <2>1. worker \in [Workers -> WorkerPC] /\ task \in [Workers -> Task \cup {Garbage}]
    BY <1>1 DEF Init, WorkerPC
  <2>2. queue \in [Slots -> Task \cup {Garbage}]
    BY <1>1 DEF Init
  <2>3. count \in 0 .. QueueSize
    BY <1>1, QueueSizePositive DEF Init
  <2>4. locked \in BOOLEAN
    BY <1>1 DEF Init
  <2>5. started \in Int
    BY <1>1 DEF Init
  <2>6. main \in {"create", "idle", "add_lock"} \cup MainHolds
    BY <1>1 DEF Init
  <2>7. QED
    BY <1>1, <1>2, <2>1, <2>2, <2>3, <2>4, <2>5, <2>6 DEF Init, TypeOK
<1>4. LockDiscipline
  BY <1>1 DEF Init, LockDiscipline, WorkerHolds, MainHolds
<1>5. RingAgrees
  <2>1. Size = 0
    BY <1>1 DEF Init, Size
  <2>2. Slot(0, 0) = 0
    BY <1>2, SlotSteps, QueueSizePositive
  <2>3. QED
    BY <1>1, <2>1, <2>2, QueueSizePositive DEF Init, RingAgrees
<1>6. InHand
  BY <1>1 DEF Init, InHand
<1>7. QED
  BY <1>3, <1>4, <1>5, <1>6 DEF IInv

\* Every step keeps the lock discipline: the lock is taken only when free.
LEMMA LockStep == IInv /\ [ServeNext]_vars => LockDiscipline'
<1>1. SUFFICES ASSUME TypeOK, LockDiscipline, [ServeNext]_vars
               PROVE  LockDiscipline'
  BY DEF IInv
<1> USE <1>1 DEF TypeOK, LockDiscipline, WorkerHolds, MainHolds, WorkerPC
<1>2. CASE CreateNext
  BY <1>2 DEF CreateNext, CreateWorker, Created, Goto
<1>3. CASE AddNext
  <2>1. CASE GetterLock \/ GetterUnlock \/ \E t \in Task : AddCalled(t)
    BY <2>1 DEF GetterLock, GetterUnlock, AddCalled, Lock, Unlock
  <2>2. CASE AddLock \/ AddReject \/ AddStore \/ AddCount \/ AddUnlock
    BY <2>2 DEF AddLock, AddReject, AddStore, AddCount, AddUnlock, Lock, Unlock
  <2>3. CASE AddSignal
    BY <2>3 DEF AddSignal, Goto
  <2>4. QED
    BY <1>3, <2>1, <2>2, <2>3 DEF AddNext
<1>4. ASSUME NEW w \in Workers, WorkerNext(w) PROVE LockDiscipline'
  <2>1. CASE WorkerLock(w) \/ WorkerRelock(w)
    BY <2>1 DEF WorkerLock, WorkerRelock, Lock, Goto
  <2>2. CASE WorkerCheck(w) \/ WorkerTake(w) \/ WorkerAdvance(w) \/ WorkerCount(w)
    BY <2>2 DEF WorkerCheck, WorkerTake, WorkerAdvance, WorkerCount, Goto
  <2>3. CASE WorkerWait(w) \/ WorkerUnlock(w) \/ WorkerLeave(w)
    BY <2>3 DEF WorkerWait, WorkerUnlock, WorkerLeave, Unlock, Goto
  <2>4. CASE SpuriousWakeup(w) \/ WorkerRun(w)
    BY <2>4 DEF SpuriousWakeup, WorkerRun, Goto
  <2>5. QED
    BY <1>4, <2>1, <2>2, <2>3, <2>4 DEF WorkerNext
<1>5. CASE UNCHANGED vars
  BY <1>5 DEF vars
<1>6. QED
  BY <1>1, <1>2, <1>3, <1>4, <1>5 DEF ServeNext

\* At most one thread touches the ring: no worker does while main adds, and
\* while one worker does no other does.
LEMMA Exclusion ==
  ASSUME LockDiscipline
  PROVE  /\ main \in MainHolds => \A w \in Workers : worker[w] \notin WorkerHolds
         /\ \A v, w \in Workers :
              worker[v] \in WorkerHolds /\ worker[w] \in WorkerHolds => v = w
BY DEF LockDiscipline

\* A step that leaves the ring alone, moves no worker into or out of the steps
\* that take a task, and does not enter or leave add_count, keeps RingAgrees.
LEMMA RingUntouched ==
  ASSUME RingAgrees, UNCHANGED ring,
         \A w \in Workers : worker'[w] = "count" <=> worker[w] = "count",
         \A w \in Workers : worker'[w] \in {"take", "advance"}
                              => worker[w] \in {"take", "advance"} \/ count > 0,
         main' = "add_count" <=> main = "add_count"
  PROVE  RingAgrees' /\ Size' = Size
<1>1. Size' = Size
  BY DEF Size, ring
<1>2. QED
  BY <1>1 DEF RingAgrees, ring, Slot

\* The lock is held by w: no other worker is in the steps that take a task,
\* and main is not adding.
LEMMA Alone ==
  ASSUME IInv, NEW w \in Workers, worker[w] \in WorkerHolds
  PROVE  /\ \A v \in Workers \ {w} :
              worker[v] \notin {"check", "take", "advance", "count"}
         /\ main \notin {"add_check", "add_count"}
         /\ worker[w] # "count" => Size = count
         /\ worker[w] = "count" => Size = count - 1
BY DEF IInv, LockDiscipline, WorkerHolds, MainHolds, Size

\* Every step keeps head, tail and count in agreement.
LEMMA RingStep == IInv /\ [ServeNext]_vars => RingAgrees'
<1>1. SUFFICES ASSUME IInv, [ServeNext]_vars PROVE RingAgrees'
  OBVIOUS
<1> USE <1>1
<1>2. /\ TypeOK /\ RingAgrees
      /\ worker \in [Workers -> WorkerPC] /\ head \in Slots /\ tail \in Slots
      /\ queue \in [Slots -> Task \cup {Garbage}] /\ count \in 0 .. QueueSize
  BY DEF IInv, TypeOK
<1>3. CASE CreateNext
  BY <1>2, <1>3, RingUntouched DEF CreateNext, CreateWorker, Created, Goto, ring
<1>4. CASE AddNext
  <2>1. CASE GetterLock \/ GetterUnlock \/ \E t \in Task : AddCalled(t)
    BY <1>2, <2>1, RingUntouched DEF GetterLock, GetterUnlock, AddCalled, ring
  <2>2. CASE AddLock \/ AddReject \/ AddUnlock
    BY <1>2, <2>2, RingUntouched DEF AddLock, AddReject, AddUnlock, ring
  <2>3. CASE AddSignal
    BY <1>2, <2>3, RingUntouched DEF AddSignal, Goto, ring
  <2>4. CASE AddStore
    <3>1. /\ \A w \in Workers : worker[w] \notin {"take", "advance", "count"}
          /\ Size = count /\ Size' = count /\ count < QueueSize
      <4>1. \A w \in Workers : worker[w] \notin {"take", "advance", "count"}
        BY <2>4 DEF AddStore, IInv, LockDiscipline, WorkerHolds, MainHolds
      <4>2. worker' = worker /\ count' = count /\ count # QueueSize
        BY <2>4 DEF AddStore
      <4>3. QED
        BY <1>2, <4>1, <4>2, QueueSizePositive DEF Size
    <3>2. tail = Slot(head, Size)
      BY <1>2, <2>4 DEF AddStore, RingAgrees
    <3>3. Size \in 0 .. QueueSize - 1
      BY <1>2, <3>1, QueueSizePositive
    <3>4. tail' = Slot(head, Size + 1)
      BY <1>2, <2>4, <3>2, <3>3, SlotSteps DEF AddStore
    <3>5. queue'[tail] = arg /\ arg \in Task
      BY <1>2, <2>4 DEF AddStore, IInv, InHand
    <3>6. ASSUME NEW k \in 0 .. Size - 1 PROVE queue'[Slot(head, k)] \in Task
      <4>1. Slot(head, k) \in Slots /\ Slot(head, k) # tail
        BY <1>2, <3>2, <3>3, SlotCases, SlotInjective, QueueSizePositive
      <4>2. queue[Slot(head, k)] \in Task
        BY <1>2 DEF RingAgrees
      <4>3. QED
        BY <1>2, <2>4, <4>1, <4>2 DEF AddStore
    <3>7. head' = head /\ worker' = worker /\ count' = count /\ main' = "add_count"
      BY <2>4 DEF AddStore
    <3>8. \A k \in 0 .. Size' - 1 : queue'[Slot(head', k)] \in Task
      BY <3>1, <3>6, <3>7
    <3>9. Size' \in 0 .. QueueSize /\ Size' < QueueSize
      BY <3>1, <3>3, QueueSizePositive
    <3>10. QED
      BY <3>1, <3>2, <3>4, <3>5, <3>7, <3>8, <3>9 DEF RingAgrees, Slot
  <2>5. CASE AddCount
    <3>1. /\ \A w \in Workers : worker[w] \notin {"take", "advance", "count"}
          /\ Size = count /\ Size' = count + 1
      BY <1>2, <2>5 DEF AddCount, IInv, LockDiscipline, WorkerHolds, MainHolds, Size
    <3>2. /\ tail = Slot(head, Size + 1) /\ Size < QueueSize
          /\ \A k \in 0 .. Size : queue[Slot(head, k)] \in Task
      BY <1>2, <2>5, <3>1 DEF AddCount, RingAgrees
    <3>3. QED
      BY <1>2, <2>5, <3>1, <3>2, QueueSizePositive DEF AddCount, RingAgrees, Slot
  <2>6. QED
    BY <1>4, <2>1, <2>2, <2>3, <2>4, <2>5 DEF AddNext
<1>5. ASSUME NEW w \in Workers, WorkerNext(w) PROVE RingAgrees'
  <2>1. CASE WorkerLock(w) \/ WorkerRelock(w) \/ WorkerWait(w) \/ SpuriousWakeup(w)
    BY <1>2, <2>1, RingUntouched
       DEF WorkerLock, WorkerRelock, WorkerWait, SpuriousWakeup, Goto, ring
  <2>2. CASE WorkerUnlock(w) \/ WorkerRun(w) \/ WorkerLeave(w)
    BY <1>2, <2>2, RingUntouched DEF WorkerUnlock, WorkerRun, WorkerLeave, Goto, ring
  <2>3. CASE WorkerTake(w)
    BY <1>2, <2>3, RingUntouched DEF WorkerTake, Goto, ring
  <2>4. CASE WorkerCheck(w)
    <3>1. shutdown = RUNNING
      BY <1>2 DEF TypeOK
    <3>2. worker'[w] = "take" => count > 0
      BY <1>2, <2>4, <3>1 DEF WorkerCheck, Goto, RUNNING, SHUTDOWN
    <3>3. worker'[w] # "count" /\ worker'[w] # "advance"
      BY <1>2, <2>4 DEF WorkerCheck, Goto
    <3>4. /\ UNCHANGED <<ring, main>> /\ worker[w] = "check"
          /\ \A v \in Workers \ {w} : worker'[v] = worker[v]
      BY <1>2, <2>4 DEF WorkerCheck, Goto
    <3>5. QED
      BY <1>2, <3>2, <3>3, <3>4, RingUntouched
  <2>5. CASE WorkerAdvance(w)
    <3>1. /\ worker[w] = "advance" /\ worker[w] \in WorkerHolds
          /\ UNCHANGED <<queue, tail, count, main>>
          /\ head' = Slot(head, 1)
          /\ worker' = [worker EXCEPT ![w] = "count"]
      BY <2>5 DEF WorkerAdvance, WorkerHolds, Goto
    <3>2. /\ \A v \in Workers \ {w} : worker[v] \notin {"take", "advance", "count"}
          /\ main # "add_count"
          /\ Size = count /\ count > 0
      BY <1>2, <3>1, Alone DEF RingAgrees
    <3>3. worker'[w] = "count" /\ \A v \in Workers \ {w} : worker'[v] = worker[v]
      BY <1>2, <3>1
    <3>4. Size' = Size - 1
      BY <3>1, <3>2, <3>3 DEF Size
    <3>5. Size \in 1 .. QueueSize /\ Size - 1 \in 0 .. QueueSize - 1
      BY <1>2, <3>2, QueueSizePositive
    <3>6. tail' = Slot(head', Size')
      <4>1. tail = Slot(head, (Size - 1) + 1)
        BY <1>2, <3>2, <3>5 DEF RingAgrees
      <4>2. QED
        BY <1>2, <3>1, <3>4, <3>5, <4>1, SlotSteps
    <3>7. ASSUME NEW k \in 0 .. Size' - 1 PROVE queue'[Slot(head', k)] \in Task
      <4>1. k \in 0 .. QueueSize - 1 /\ k + 1 \in 0 .. Size - 1
        BY <3>4, <3>5, QueueSizePositive
      <4>2. Slot(head', k) = Slot(head, k + 1)
        BY <1>2, <3>1, <4>1, SlotSteps
      <4>3. QED
        BY <1>2, <3>1, <4>1, <4>2 DEF RingAgrees
    <3>8. \A v \in Workers : worker'[v] \notin {"take", "advance"}
      BY <3>2, <3>3
    <3>9. Size' \in 0 .. QueueSize
      BY <3>4, <3>5, QueueSizePositive
    <3>10. QED
      BY <3>1, <3>2, <3>6, <3>7, <3>8, <3>9 DEF RingAgrees, Slot
  <2>6. CASE WorkerCount(w)
    <3>1. /\ worker[w] = "count" /\ worker[w] \in WorkerHolds
          /\ UNCHANGED <<queue, head, tail, main>> /\ count' = count - 1
          /\ worker' = [worker EXCEPT ![w] = "unlock"]
      BY <2>6 DEF WorkerCount, WorkerHolds, Goto
    <3>2. /\ \A v \in Workers \ {w} : worker[v] \notin {"take", "advance", "count"}
          /\ main # "add_count"
          /\ Size = count - 1
      BY <1>2, <3>1, Alone
    <3>3. worker'[w] = "unlock" /\ \A v \in Workers \ {w} : worker'[v] = worker[v]
      BY <1>2, <3>1
    <3>4. /\ Size' = Size
          /\ \A v \in Workers : worker'[v] \notin {"take", "advance"}
      BY <3>1, <3>2, <3>3 DEF Size
    <3>5. QED
      BY <1>2, <3>1, <3>2, <3>4 DEF RingAgrees, Slot
  <2>7. QED
    BY <1>5, <2>1, <2>2, <2>3, <2>4, <2>5, <2>6 DEF WorkerNext
<1>6. CASE UNCHANGED vars
  BY <1>2, <1>6, RingUntouched DEF vars, ring
<1>7. QED
  BY <1>1, <1>3, <1>4, <1>5, <1>6 DEF ServeNext

\* Every step keeps the type; count stays in its range because no worker takes
\* from an empty queue and main does not add to a full one.
LEMMA TypeStep == IInv /\ [ServeNext]_vars => TypeOK'
<1>1. SUFFICES ASSUME IInv, TypeOK, [ServeNext]_vars PROVE TypeOK'
  BY DEF IInv
<1>2. locked' \in BOOLEAN
  <2>1. CASE CreateNext
    BY <1>1, <2>1 DEF CreateNext, CreateWorker, Created, TypeOK
  <2>2. CASE AddNext
    BY <1>1, <2>2 DEF AddNext, GetterLock, GetterUnlock, AddCalled, AddLock, AddReject,
         AddStore, AddCount, AddSignal, AddUnlock, Lock, Unlock, TypeOK
  <2>3. ASSUME NEW w \in Workers, WorkerNext(w) PROVE locked' \in BOOLEAN
    BY <1>1, <2>3 DEF WorkerNext, WorkerLock, WorkerCheck, WorkerWait, SpuriousWakeup,
         WorkerRelock, WorkerTake, WorkerAdvance, WorkerCount, WorkerUnlock,
         WorkerRun, WorkerLeave, Lock, Unlock, TypeOK
  <2>4. CASE UNCHANGED vars
    BY <1>1, <2>4 DEF vars, TypeOK
  <2>5. QED
    BY <1>1, <2>1, <2>2, <2>3, <2>4 DEF ServeNext
<1>3. 1 \in 0 .. QueueSize
  BY QueueSizePositive
<1>4. \A i \in Slots : Slot(i, 1) \in Slots
  BY <1>3, SlotCases
<1> USE <1>1, <1>2, <1>4 DEF TypeOK, ring, control
<1>5. CASE CreateNext
  BY <1>5 DEF CreateNext, CreateWorker, Created, Goto, WorkerPC
<1>6. CASE AddNext
  <2>1. CASE GetterLock \/ GetterUnlock \/ \E t \in Task : AddCalled(t)
    BY <2>1 DEF GetterLock, GetterUnlock, AddCalled, MainHolds
  <2>2. CASE AddLock \/ AddReject \/ AddStore \/ AddUnlock
    BY <2>2 DEF AddLock, AddReject, AddStore, AddUnlock, MainHolds
  <2>3. CASE AddCount
    <3>1. \A w \in Workers : worker[w] # "count"
      BY <2>3 DEF AddCount, IInv, LockDiscipline, WorkerHolds, MainHolds
    <3>2. count < QueueSize
      BY <2>3, <3>1 DEF AddCount, IInv, RingAgrees, Size
    <3>3. count' \in 0 .. QueueSize
      BY <2>3, <3>2, QueueSizePositive DEF AddCount
    <3>4. QED
      BY <2>3, <3>3 DEF AddCount, MainHolds
  <2>4. CASE AddSignal
    BY <2>4 DEF AddSignal, Goto, MainHolds, WorkerPC
  <2>5. QED
    BY <1>6, <2>1, <2>2, <2>3, <2>4 DEF AddNext
<1>7. ASSUME NEW w \in Workers, WorkerNext(w) PROVE TypeOK'
  <2>1. CASE WorkerLock(w) \/ WorkerWait(w) \/ SpuriousWakeup(w) \/ WorkerRelock(w)
    BY <2>1 DEF WorkerLock, WorkerWait, SpuriousWakeup, WorkerRelock, Goto,
         WorkerPC, WorkerHolds
  <2>2. CASE WorkerCheck(w) \/ WorkerUnlock(w) \/ WorkerRun(w)
    BY <2>2 DEF WorkerCheck, WorkerUnlock, WorkerRun, Goto, WorkerPC, WorkerHolds
  <2>3. CASE WorkerTake(w) \/ WorkerAdvance(w)
    BY <2>3 DEF WorkerTake, WorkerAdvance, Goto, WorkerPC, WorkerHolds
  <2>4. CASE WorkerCount(w)
    <3>1. count > 0
      BY <2>4 DEF WorkerCount, IInv, RingAgrees, Size
    <3>2. count' \in 0 .. QueueSize
      BY <2>4, <3>1, QueueSizePositive DEF WorkerCount
    <3>3. QED
      BY <2>4, <3>2 DEF WorkerCount, Goto, WorkerPC, WorkerHolds
  <2>5. CASE WorkerLeave(w)
    BY <2>5 DEF WorkerLeave, Goto, WorkerPC
  <2>6. QED
    BY <1>7, <2>1, <2>2, <2>3, <2>4, <2>5 DEF WorkerNext
<1>8. CASE UNCHANGED vars
  BY <1>8 DEF vars
<1>9. QED
  BY <1>1, <1>5, <1>6, <1>7, <1>8 DEF ServeNext

\* The slot at head holds a task whenever count says that there is one.
LEMMA HeadIsTask ==
  ASSUME IInv, Size > 0
  PROVE  queue[head] \in Task
<1>1. head \in Slots /\ Size \in 1 .. QueueSize
  BY DEF IInv, TypeOK, RingAgrees
<1>2. Slot(head, 0) = head /\ 0 \in 0 .. Size - 1
  BY <1>1, SlotSteps, QueueSizePositive
<1>3. QED
  BY <1>2 DEF IInv, RingAgrees

\* Every step keeps what the threads have in hand.
LEMMA InHandStep == IInv /\ [ServeNext]_vars => InHand'
<1>1. SUFFICES ASSUME IInv, TypeOK, InHand, [ServeNext]_vars PROVE InHand'
  BY DEF IInv
<1>2. /\ worker \in [Workers -> WorkerPC]
      /\ task \in [Workers -> Task \cup {Garbage}]
      /\ queue \in [Slots -> Task \cup {Garbage}]
  BY <1>1 DEF TypeOK
<1> USE <1>1, <1>2 DEF InHand, ring, control
<1>3. CASE CreateNext
  BY <1>3 DEF CreateNext, CreateWorker, Created, Goto
<1>4. CASE AddNext
  <2>1. CASE GetterLock \/ GetterUnlock \/ \E t \in Task : AddCalled(t)
    BY <2>1 DEF GetterLock, GetterUnlock, AddCalled
  <2>2. CASE AddLock \/ AddReject \/ AddCount \/ AddUnlock
    BY <2>2 DEF AddLock, AddReject, AddCount, AddUnlock
  <2>3. CASE AddStore
    <3>1. \A w \in Workers : worker[w] # "advance"
      BY <2>3 DEF AddStore, IInv, LockDiscipline, WorkerHolds, MainHolds
    <3>2. QED
      BY <2>3, <3>1 DEF AddStore
  <2>4. CASE AddSignal
    BY <2>4 DEF AddSignal, Goto
  <2>5. QED
    BY <1>4, <2>1, <2>2, <2>3, <2>4 DEF AddNext
<1>5. ASSUME NEW w \in Workers, WorkerNext(w) PROVE InHand'
  <2>1. CASE WorkerLock(w) \/ WorkerWait(w) \/ SpuriousWakeup(w) \/ WorkerRelock(w)
    BY <2>1 DEF WorkerLock, WorkerWait, SpuriousWakeup, WorkerRelock, Goto
  <2>2. CASE WorkerCheck(w) \/ WorkerUnlock(w) \/ WorkerRun(w)
    BY <2>2 DEF WorkerCheck, WorkerUnlock, WorkerRun, Goto
  <2>3. CASE WorkerTake(w)
    <3>1. worker[w] = "take" /\ worker[w] \in WorkerHolds
      BY <2>3 DEF WorkerTake, WorkerHolds
    <3>2. Size > 0
      BY <1>1, <3>1, Alone DEF IInv, RingAgrees
    <3>3. QED
      BY <2>3, <3>2, HeadIsTask DEF WorkerTake, Goto
  <2>4. CASE WorkerAdvance(w)
    <3>1. \A v \in Workers \ {w} : worker[v] # "advance"
      BY <1>1, <2>4, Alone DEF WorkerAdvance, WorkerHolds
    <3>2. QED
      BY <2>4, <3>1 DEF WorkerAdvance, Goto
  <2>5. CASE WorkerCount(w) \/ WorkerLeave(w)
    BY <2>5 DEF WorkerCount, WorkerLeave, Goto
  <2>6. QED
    BY <1>5, <2>1, <2>2, <2>3, <2>4, <2>5 DEF WorkerNext
<1>6. CASE UNCHANGED vars
  BY <1>6 DEF vars
<1>7. QED
  BY <1>1, <1>3, <1>4, <1>5, <1>6 DEF ServeNext

\* The invariant is inductive.
LEMMA InvariantHolds == ServeSpec => []IInv
<1>1. IInv /\ [ServeNext]_vars => IInv'
  BY TypeStep, LockStep, RingStep, InHandStep DEF IInv
<1>2. QED
  BY <1>1, InvInit, PTL DEF ServeSpec

\* While the pool serves, every variable keeps its type; in particular count
\* never leaves 0 .. queue_size and the indexes never leave the ring.
THEOREM TypeCorrect == ServeSpec => []TypeOK
<1>1. QED
  BY InvariantHolds, PTL DEF IInv

\* While the pool serves, the mutex excludes (src/thread_pool.c:17, :102).
THEOREM LockExcludes == ServeSpec => []LockDiscipline
<1>1. QED
  BY InvariantHolds, PTL DEF IInv

\* While the pool serves, head, tail and count agree, and every slot between
\* head and tail holds a task that was added (src/thread_pool.c:25-28).
THEOREM CountersAgree == ServeSpec => []RingAgrees
<1>1. QED
  BY InvariantHolds, PTL DEF IInv

-----------------------------------------------------------------------------
\* What waits is a sequence of tasks, Size of them.
LEMMA WaitingType ==
  ASSUME IInv
  PROVE  /\ Size \in 0 .. QueueSize
         /\ WaitingTasks \in Seq(Task)
         /\ Len(WaitingTasks) = Size
<1>1. Size \in 0 .. QueueSize
  BY DEF IInv, RingAgrees
<1>2. ASSUME NEW k \in 1 .. Size PROVE queue[Slot(head, k - 1)] \in Task
  <2>1. k - 1 \in 0 .. Size - 1
    BY <1>1
  <2>2. QED
    BY <2>1 DEF IInv, RingAgrees
<1>3. WaitingTasks \in [1 .. Size -> Task]
  BY <1>2 DEF WaitingTasks
<1>4. QED
  BY <1>1, <1>3

\* A step that leaves the ring alone and moves no worker into or out of
\* "count" leaves what waits as it is.
LEMMA WaitingUntouched ==
  ASSUME UNCHANGED ring,
         \A w \in Workers : worker'[w] = "count" <=> worker[w] = "count"
  PROVE  WaitingTasks' = WaitingTasks
<1>1. Size' = Size
  BY DEF Size, ring
<1>2. QED
  BY <1>1 DEF WaitingTasks, ring, Slot

\* What main does while the pool serves is a stutter, until count counts the
\* task it stored.
LEMMA AddSubmits ==
  ASSUME IInv, IInv', CreateNext \/ AddNext
  PROVE  [Pool!Next]_(Pool!pool)
<1>1. worker \in [Workers -> WorkerPC] /\ TypeOK /\ TypeOK'
  BY DEF IInv, TypeOK
<1> USE <1>1
<1>2. CASE CreateNext
  <2>1. WaitingTasks' = WaitingTasks
    BY <1>2, WaitingUntouched DEF CreateNext, CreateWorker, Created, Goto, ring
  <2>2. RunningTasks' = RunningTasks
    BY <1>2 DEF CreateNext, CreateWorker, Created, Goto, RunningTasks
  <2>3. QED
    BY <2>1, <2>2 DEF Pool!pool
<1>3. CASE GetterLock \/ GetterUnlock \/ (\E t \in Task : AddCalled(t))
           \/ AddLock \/ AddReject \/ AddUnlock
  <2>1. UNCHANGED <<ring, worker, task>>
    BY <1>3 DEF GetterLock, GetterUnlock, AddCalled, AddLock, AddReject, AddUnlock, ring
  <2>2. WaitingTasks' = WaitingTasks
    BY <2>1, WaitingUntouched
  <2>3. QED
    BY <2>1, <2>2 DEF Pool!pool, RunningTasks
<1>4. CASE AddSignal
  <2>1. WaitingTasks' = WaitingTasks
    BY <1>4, WaitingUntouched DEF AddSignal, Goto, ring
  <2>2. RunningTasks' = RunningTasks
    BY <1>4 DEF AddSignal, Goto, RunningTasks
  <2>3. QED
    BY <2>1, <2>2 DEF Pool!pool
<1>5. CASE AddStore
  <2>1. /\ head' = head /\ worker' = worker /\ task' = task /\ count' = count
        /\ queue' = [queue EXCEPT ![tail] = arg]
        /\ main = "add_check" /\ main \in MainHolds
        /\ count # QueueSize
    BY <1>5 DEF AddStore, MainHolds
  <2>2. Size = count /\ Size' = Size
    BY <2>1 DEF IInv, LockDiscipline, WorkerHolds, Size
  <2>3. tail = Slot(head, Size) /\ Size \in 0 .. QueueSize - 1
    BY <2>1, <2>2, QueueSizePositive DEF IInv, RingAgrees, TypeOK
  <2>4. ASSUME NEW k \in 1 .. Size
        PROVE  queue'[Slot(head, k - 1)] = queue[Slot(head, k - 1)]
    <3>1. k - 1 \in 0 .. QueueSize - 1 /\ k - 1 # Size /\ head \in Slots
      BY <2>3, QueueSizePositive DEF TypeOK
    <3>2. Slot(head, k - 1) # tail
      BY <2>3, <3>1, SlotInjective
    <3>3. QED
      BY <2>1, <3>2 DEF TypeOK
  <2>5. WaitingTasks' = [k \in 1 .. Size |-> queue'[Slot(head, k - 1)]]
    BY <2>1, <2>2 DEF WaitingTasks, Slot
  <2>6. WaitingTasks' = WaitingTasks
    BY <2>4, <2>5 DEF WaitingTasks
  <2>7. QED
    BY <2>1, <2>6 DEF Pool!pool, RunningTasks
<1>6. CASE AddCount
  <2>1. /\ UNCHANGED <<queue, head, tail, worker, task>>
        /\ count' = count + 1
        /\ main = "add_count" /\ main \in MainHolds
    BY <1>6 DEF AddCount, MainHolds
  <2>2. Size = count /\ Size' = Size + 1
    BY <2>1 DEF IInv, LockDiscipline, WorkerHolds, Size
  <2>3. /\ Size \in 0 .. QueueSize - 1
        /\ queue[Slot(head, Size)] \in Task
    BY <2>1, <2>2, QueueSizePositive DEF IInv, RingAgrees
  <2> DEFINE t == queue[Slot(head, Size)]
  <2>4. /\ WaitingTasks \in Seq(Task) /\ Len(WaitingTasks) = Size
        /\ WaitingTasks' \in Seq(Task) /\ Len(WaitingTasks') = Size + 1
    BY <2>2, WaitingType DEF WaitingTasks, IInv, RingAgrees
  <2>5. WaitingTasks' = [k \in 1 .. Size + 1 |-> queue[Slot(head, k - 1)]]
    BY <2>1, <2>2 DEF WaitingTasks, Slot
  <2>6. WaitingTasks'[Size + 1] = t
    BY <2>3, <2>5
  <2>7. ASSUME NEW k \in 1 .. Size PROVE WaitingTasks'[k] = WaitingTasks[k]
    <3>1. WaitingTasks[k] = queue[Slot(head, k - 1)]
      BY DEF WaitingTasks
    <3>2. k \in 1 .. Size + 1
      BY <2>3
    <3>3. QED
      BY <2>5, <3>1, <3>2
  <2>8. WaitingTasks' = Append(WaitingTasks, t)
    BY <2>3, <2>4, <2>6, <2>7
  <2>9. RunningTasks' = RunningTasks
    BY <2>1 DEF RunningTasks
  <2>10. Pool!Submit(t)
    BY <2>3, <2>4, <2>8, <2>9, QueueSizePositive DEF Pool!Submit
  <2>11. QED
    BY <2>3, <2>10 DEF Pool!Next
<1>7. QED
  BY <1>2, <1>3, <1>4, <1>5, <1>6 DEF AddNext

\* Moving head starts the task in hand; its return finishes it; the rest of
\* what a worker does is a stutter.
LEMMA WorkerStarts ==
  ASSUME IInv, IInv', NEW w \in Workers, WorkerNext(w)
  PROVE  [Pool!Next]_(Pool!pool)
<1>1. /\ worker \in [Workers -> WorkerPC] /\ TypeOK
      /\ task \in [Workers -> Task \cup {Garbage}]
  BY DEF IInv, TypeOK
<1> USE <1>1
<1>2. CASE WorkerLock(w) \/ WorkerCheck(w) \/ WorkerWait(w) \/ SpuriousWakeup(w)
           \/ WorkerRelock(w) \/ WorkerLeave(w)
  <2>1. /\ UNCHANGED <<ring, task>>
        /\ worker[w] \notin {"count", "unlock", "run"}
        /\ worker'[w] \notin {"count", "unlock", "run"}
        /\ \A v \in Workers \ {w} : worker'[v] = worker[v]
    BY <1>2 DEF WorkerLock, WorkerCheck, WorkerWait, SpuriousWakeup, WorkerRelock,
         WorkerLeave, Goto
  <2>2. WaitingTasks' = WaitingTasks
    BY <2>1, WaitingUntouched
  <2>3. RunningTasks' = RunningTasks
    BY <2>1 DEF RunningTasks
  <2>4. QED
    BY <2>2, <2>3 DEF Pool!pool
<1>3. CASE WorkerTake(w)
  <2>1. /\ UNCHANGED ring
        /\ worker[w] = "take" /\ worker'[w] = "advance"
        /\ \A v \in Workers \ {w} : worker'[v] = worker[v] /\ task'[v] = task[v]
    BY <1>3 DEF WorkerTake, Goto, ring
  <2>2. WaitingTasks' = WaitingTasks
    BY <2>1, WaitingUntouched
  <2>3. RunningTasks' = RunningTasks
    BY <2>1 DEF RunningTasks
  <2>4. QED
    BY <2>2, <2>3 DEF Pool!pool
<1>4. CASE WorkerAdvance(w)
  <2>1. /\ worker[w] = "advance" /\ worker[w] \in WorkerHolds
        /\ UNCHANGED <<queue, count, task>>
        /\ head' = Slot(head, 1)
        /\ worker' = [worker EXCEPT ![w] = "count"]
    BY <1>4 DEF WorkerAdvance, WorkerHolds, Goto
  <2>2. Size = count /\ Size > 0
    BY <2>1, Alone DEF IInv, RingAgrees
  <2>3. worker'[w] = "count"
    BY <2>1
  <2>4. Size' = Size - 1
    BY <2>1, <2>2, <2>3 DEF Size
  <2>5. /\ WaitingTasks \in Seq(Task) /\ Len(WaitingTasks) = Size
        /\ WaitingTasks' \in Seq(Task) /\ Len(WaitingTasks') = Size - 1
        /\ Size \in 1 .. QueueSize
    BY <2>2, <2>4, WaitingType, QueueSizePositive DEF WaitingTasks, IInv, RingAgrees
  <2>6. head \in Slots /\ Slot(head, 0) = head
    BY SlotSteps, QueueSizePositive DEF TypeOK
  <2>7. Head(WaitingTasks) = task[w] /\ task[w] \in Task
    BY <2>1, <2>5, <2>6 DEF IInv, InHand, WaitingTasks
  <2>8. WaitingTasks' = [k \in 1 .. Size - 1 |-> queue[Slot(Slot(head, 1), k - 1)]]
    BY <2>1, <2>4 DEF WaitingTasks, Slot
  <2>9. ASSUME NEW k \in 1 .. Size - 1 PROVE WaitingTasks'[k] = WaitingTasks[k + 1]
    <3>1. k - 1 \in 0 .. QueueSize - 1
      BY <2>5, QueueSizePositive
    <3>2. Slot(Slot(head, 1), k - 1) = Slot(head, (k - 1) + 1)
      BY <2>6, <3>1, SlotSteps
    <3>3. k + 1 \in 1 .. Size /\ (k + 1) - 1 = (k - 1) + 1
      BY <2>5
    <3>4. WaitingTasks[k + 1] = queue[Slot(head, (k + 1) - 1)]
      BY <3>3 DEF WaitingTasks
    <3>5. QED
      BY <2>8, <3>2, <3>3, <3>4
  <2>10. WaitingTasks' = Tail(WaitingTasks)
    BY <2>5, <2>9
  <2>11. RunningTasks' = [RunningTasks EXCEPT ![w] = task[w]]
    BY <2>1 DEF RunningTasks
  <2>12. RunningTasks[w] = Garbage
    BY <2>1 DEF RunningTasks
  <2>13. WaitingTasks # << >>
    BY <2>5
  <2>14. Pool!Start(w)
    BY <2>7, <2>10, <2>11, <2>12, <2>13 DEF Pool!Start
  <2>15. QED
    BY <2>14 DEF Pool!Next
<1>5. CASE WorkerCount(w)
  <2>1. /\ worker[w] = "count" /\ worker[w] \in WorkerHolds
        /\ UNCHANGED <<queue, head, task>> /\ count' = count - 1
        /\ worker' = [worker EXCEPT ![w] = "unlock"]
    BY <1>5 DEF WorkerCount, WorkerHolds, Goto
  <2>2. Size = count - 1 /\ \A v \in Workers \ {w} : worker[v] # "count"
    BY <2>1, Alone
  <2>3. Size' = Size
    BY <2>1, <2>2 DEF Size
  <2>4. WaitingTasks' = WaitingTasks
    BY <2>1, <2>3 DEF WaitingTasks, Slot
  <2>5. RunningTasks' = RunningTasks
    BY <2>1 DEF RunningTasks
  <2>6. QED
    BY <2>4, <2>5 DEF Pool!pool
<1>6. CASE WorkerUnlock(w)
  <2>1. /\ UNCHANGED <<ring, task>> /\ worker[w] = "unlock"
        /\ worker' = [worker EXCEPT ![w] = "run"]
    BY <1>6 DEF WorkerUnlock, Goto
  <2>2. WaitingTasks' = WaitingTasks
    BY <2>1, WaitingUntouched
  <2>3. RunningTasks' = RunningTasks
    BY <2>1 DEF RunningTasks
  <2>4. QED
    BY <2>2, <2>3 DEF Pool!pool
<1>7. CASE WorkerRun(w)
  <2>1. /\ UNCHANGED <<ring, task>> /\ worker[w] = "run"
        /\ worker' = [worker EXCEPT ![w] = "lock"]
    BY <1>7 DEF WorkerRun, Goto, ring
  <2>2. WaitingTasks' = WaitingTasks
    BY <2>1, WaitingUntouched
  <2>3. RunningTasks' = [RunningTasks EXCEPT ![w] = Garbage]
    BY <2>1 DEF RunningTasks
  <2>4. RunningTasks[w] # Garbage
    BY <2>1, ThreadPoolAssumption DEF IInv, InHand, RunningTasks
  <2>5. Pool!Finish(w)
    BY <2>2, <2>3, <2>4 DEF Pool!Finish
  <2>6. QED
    BY <2>5 DEF Pool!Next
<1>8. QED
  BY <1>2, <1>3, <1>4, <1>5, <1>6, <1>7 DEF WorkerNext

\* While it serves, the pool with its mutex, condition variable and ring
\* implements the abstract one: every task that threadpool_add accepted is
\* started at most once, in order, by a worker that runs nothing else, and no
\* more than queue_size tasks wait.
THEOREM PoolImplementsTaskPool == ServeSpec => ImplementsTaskPool
<1>1. ASSUME Init PROVE Pool!Init
  <2>1. Size = 0
    BY <1>1 DEF Init, Size
  <2>2. WaitingTasks = << >>
    BY <2>1 DEF WaitingTasks
  <2>3. RunningTasks = [w \in Workers |-> Garbage]
    BY <1>1 DEF Init, RunningTasks
  <2>4. QED
    BY <2>2, <2>3 DEF Pool!Init
<1>2. ASSUME IInv, IInv', [ServeNext]_vars PROVE [Pool!Next]_(Pool!pool)
  <2>1. CASE UNCHANGED vars
    <3>1. UNCHANGED <<ring, worker, task>>
      BY <2>1 DEF vars
    <3>2. WaitingTasks' = WaitingTasks
      BY <3>1, WaitingUntouched
    <3>3. QED
      BY <3>1, <3>2 DEF Pool!pool, RunningTasks
  <2>2. QED
    BY <1>2, <2>1, AddSubmits, WorkerStarts DEF ServeNext
<1>3. QED
  BY <1>1, <1>2, InvariantHolds, PTL DEF ServeSpec, ImplementsTaskPool, Pool!Spec

\* A task is turned away only when queue_size tasks wait, never because a worker has
\* moved head and not yet corrected count (src/thread_pool.c:103).  With
\* PoolImplementsTaskPool it is what SocketServer takes threadpool_add for.
THEOREM RejectsOnlyWhenFull == ServeSpec => [][AddReject => Len(WaitingTasks) = QueueSize]_vars
<1>1. ASSUME IInv, AddReject PROVE Len(WaitingTasks) = QueueSize
  <2>1. main = "add_check" /\ count = QueueSize
    BY <1>1 DEF AddReject, IInv, TypeOK
  <2>2. \A w \in Workers : worker[w] # "count"
    BY <1>1, <2>1 DEF IInv, LockDiscipline, MainHolds, WorkerHolds
  <2>3. Size = QueueSize
    BY <2>1, <2>2 DEF Size
  <2>4. QED
    BY <1>1, <2>3, WaitingType
<1>2. IInv /\ [ServeNext]_vars => [AddReject => Len(WaitingTasks) = QueueSize]_vars
  BY <1>1
<1>3. QED
  BY <1>2, InvariantHolds, PTL DEF ServeSpec

-----------------------------------------------------------------------------
\* Once all joins have returned, all workers have exited.
Joined == {"mutex_destroy", "freed", "failed"}

JoinedAll == main \in Joined => \A w \in Workers : worker[w] = "exited"

\* With the handler at any moment, and whatever becomes of the mutex, the pool
\* is freed only when no worker can touch it (src/thread_pool.c:152-165).
THEOREM FreedIsUnused == Spec => []FreedWhenUnused
<1> USE DEF Joined, JoinedAll
<1>1. Init => JoinedAll
  BY DEF Init
<1>2. ASSUME JoinedAll, [Next]_vars PROVE JoinedAll'
  <2>1. CASE CreateNext
    BY <1>2, <2>1 DEF CreateNext, CreateWorker, Created
  <2>2. CASE AddNext
    BY <1>2, <2>2 DEF AddNext, GetterLock, GetterUnlock, AddCalled, AddLock, AddReject,
         AddStore, AddCount, AddSignal, AddUnlock
  <2>3. ASSUME NEW w \in Workers, WorkerNext(w) PROVE JoinedAll'
    <3>1. main' = main /\ worker[w] # "exited"
      BY <2>3 DEF WorkerNext, WorkerLock, WorkerCheck, WorkerWait, SpuriousWakeup,
         WorkerRelock, WorkerTake, WorkerAdvance, WorkerCount, WorkerUnlock,
         WorkerRun, WorkerLeave
    <3>2. QED
      BY <1>2, <3>1
  <2>4. CASE DestroyNext
    BY <1>2, <2>4 DEF DestroyNext, CreateFails, Interrupt, Broadcast, DestroyUnlock,
         Join, JoinGarbage, Free, MutexBusy
  <2>5. CASE UNCHANGED vars
    BY <1>2, <2>5 DEF vars
  <2>6. QED
    BY <1>2, <2>1, <2>2, <2>3, <2>4, <2>5 DEF Next, ServeNext
<1>3. JoinedAll => FreedWhenUnused
  BY DEF FreedWhenUnused
<1>4. QED
  BY <1>1, <1>2, <1>3, PTL DEF Spec

-----------------------------------------------------------------------------
(* No task is left to a worker that sleeps.                                *)

\* The workers that will come to the queue's head, or are at it, without a further
\* signal, when the workers' counters are f.
ComingIn(f) == {w \in Workers : f[w] \in {"woken", "lock", "check", "take", "advance"}}

\* While any worker sleeps, each task that waits has another worker of its own coming
\* for it, but for one whose signal is still to be given.
SleepersAreSpare ==
  (\E w \in Workers : worker[w] = "asleep") =>
    Size <= Cardinality(ComingIn(worker)) + (IF main = "add_signal" THEN 1 ELSE 0)

\* A worker goes to sleep on an empty queue only.
WaitsOnEmpty == \A w \in Workers : worker[w] = "wait" => count = 0

WInv == IInv /\ SleepersAreSpare /\ WaitsOnEmpty

\* Counting a worker apart from the others.
LEMMA ComingApart ==
  ASSUME IsFiniteSet(Workers), NEW w \in Workers, NEW f, NEW g,
         \A v \in Workers \ {w} : g[v] = f[v]
  PROVE  /\ Cardinality(ComingIn(f)) \in Nat /\ Cardinality(ComingIn(g)) \in Nat
         /\ w \in ComingIn(f) /\ w \in ComingIn(g) => Cardinality(ComingIn(g)) = Cardinality(ComingIn(f))
         /\ w \notin ComingIn(f) /\ w \notin ComingIn(g) => Cardinality(ComingIn(g)) = Cardinality(ComingIn(f))
         /\ w \notin ComingIn(f) /\ w \in ComingIn(g) => Cardinality(ComingIn(g)) = Cardinality(ComingIn(f)) + 1
         /\ w \in ComingIn(f) /\ w \notin ComingIn(g) => Cardinality(ComingIn(g)) = Cardinality(ComingIn(f)) - 1
<1> DEFINE B == ComingIn(f) \ {w}
<1>1. B = ComingIn(g) \ {w}
  BY DEF ComingIn
<1>2. IsFiniteSet(ComingIn(f)) /\ IsFiniteSet(ComingIn(g)) /\ IsFiniteSet(B) /\ w \notin B
  BY FS_Subset DEF ComingIn
<1>3. Cardinality(B \cup {w}) = Cardinality(B) + 1 /\ Cardinality(B) \in Nat
  BY <1>2, FS_AddElement, FS_CardinalityType
<1>4. Cardinality(ComingIn(f)) \in Nat /\ Cardinality(ComingIn(g)) \in Nat
  BY <1>2, FS_CardinalityType
<1>5. ComingIn(f) = IF w \in ComingIn(f) THEN B \cup {w} ELSE B
  OBVIOUS
<1>6. ComingIn(g) = IF w \in ComingIn(g) THEN B \cup {w} ELSE B
  BY <1>1
<1> HIDE DEF B
<1>7. Cardinality(ComingIn(f)) = IF w \in ComingIn(f) THEN Cardinality(B) + 1 ELSE Cardinality(B)
  BY <1>3, <1>5
<1>8. Cardinality(ComingIn(g)) = IF w \in ComingIn(g) THEN Cardinality(B) + 1 ELSE Cardinality(B)
  BY <1>3, <1>6
<1>9. QED
  BY <1>3, <1>4, <1>7, <1>8

\* What main does: a task counted comes with a signal to give, a signal given with a
\* worker that comes.
LEMMA MainSpares ==
  ASSUME IsFiniteSet(Workers), WInv, CreateNext \/ AddNext
  PROVE  SleepersAreSpare' /\ WaitsOnEmpty'
<1>1. /\ worker \in [Workers -> WorkerPC] /\ count \in 0 .. QueueSize /\ Size \in 0 .. QueueSize
      /\ LockDiscipline /\ TypeOK
  BY DEF WInv, IInv, TypeOK, RingAgrees
<1> USE QueueSizePositive
<1>0. Size \in Nat /\ Size \in Int /\ Cardinality(ComingIn(worker)) \in Nat
  <2>1. IsFiniteSet(ComingIn(worker))
    BY FS_Subset DEF ComingIn
  <2>2. QED
    BY <1>1, <2>1, FS_CardinalityType
<1>2. CASE UNCHANGED <<worker, count>> /\ (main' = "add_signal" <=> main = "add_signal")
  <2>1. Size' = Size
    BY <1>2 DEF Size
  <2>2. QED
    BY <1>2, <2>1 DEF WInv, SleepersAreSpare, WaitsOnEmpty
<1>3. CASE GetterLock \/ GetterUnlock \/ (\E t \in Task : AddCalled(t))
           \/ AddLock \/ AddReject \/ AddStore \/ AddUnlock \/ Created
  <2>1. UNCHANGED <<worker, count>> /\ main # "add_signal" /\ main' # "add_signal"
    BY <1>3 DEF GetterLock, GetterUnlock, AddCalled, AddLock, AddReject, AddStore, AddUnlock, Created, ring
  <2>2. QED
    BY <1>2, <2>1
<1>4. CASE AddCount
  <2>1. /\ main = "add_count" /\ main' = "add_signal" /\ count' = count + 1 /\ worker' = worker
    BY <1>4 DEF AddCount
  <2>2. \A w \in Workers : worker[w] \notin {"count", "wait"}
    BY <1>1, <2>1 DEF LockDiscipline, WorkerHolds, MainHolds
  <2>3. Size' = Size + 1
    BY <2>1, <2>2 DEF Size
  <2>4. (\E w \in Workers : worker[w] = "asleep") => Size <= Cardinality(ComingIn(worker))
    BY <1>0, <2>1 DEF WInv, SleepersAreSpare
  <2>5. QED
    BY <1>0, <2>1, <2>2, <2>3, <2>4 DEF SleepersAreSpare, WaitsOnEmpty
<1>5. CASE AddSignal
  <2>1. main = "add_signal" /\ main' = "add_unlock" /\ count' = count
    BY <1>5 DEF AddSignal, ring
  <2>2. CASE \A w \in Workers : worker[w] # "asleep"
    BY <1>1, <1>5, <2>1, <2>2 DEF AddSignal, WInv, SleepersAreSpare, WaitsOnEmpty
  <2>3. CASE \E w \in Workers : worker[w] = "asleep"
    <3>1. PICK w \in Workers : worker[w] = "asleep" /\ worker' = [worker EXCEPT ![w] = "woken"]
      BY <1>5, <2>3 DEF AddSignal, Goto
    <3>2. worker'[w] = "woken" /\ \A v \in Workers \ {w} : worker'[v] = worker[v]
      BY <1>1, <3>1
    <3>3. w \notin ComingIn(worker) /\ w \in ComingIn(worker')
      BY <3>1, <3>2 DEF ComingIn
    <3>4. Cardinality(ComingIn(worker')) = Cardinality(ComingIn(worker)) + 1
      BY <3>2, <3>3, ComingApart
    <3>5. Size' = Size /\ Size <= Cardinality(ComingIn(worker)) + 1
      BY <2>1, <3>1, <3>2 DEF WInv, SleepersAreSpare, Size
    <3>6. SleepersAreSpare'
      BY <1>0, <3>4, <3>5, <2>1 DEF SleepersAreSpare
    <3>7. QED
      BY <2>1, <3>1, <3>2, <3>6 DEF WInv, WaitsOnEmpty
  <2>4. QED
    BY <2>2, <2>3
<1>6. ASSUME NEW w \in Workers, CreateWorker(w) PROVE SleepersAreSpare' /\ WaitsOnEmpty'
  <2>1. worker[w] = "none" /\ worker' = [worker EXCEPT ![w] = "lock"] /\ UNCHANGED <<count, main>>
    BY <1>6 DEF CreateWorker, Goto, ring
  <2>2. worker'[w] = "lock" /\ \A v \in Workers \ {w} : worker'[v] = worker[v]
    BY <1>1, <2>1
  <2>3. w \notin ComingIn(worker) /\ w \in ComingIn(worker')
    BY <2>1, <2>2 DEF ComingIn
  <2>4. Cardinality(ComingIn(worker')) = Cardinality(ComingIn(worker)) + 1
    BY <2>2, <2>3, ComingApart
  <2>5. Size' = Size
    BY <2>1, <2>2 DEF Size
  <2>6. (\E v \in Workers : worker'[v] = "asleep") => \E v \in Workers : worker[v] = "asleep"
    BY <2>2
  <2>7. SleepersAreSpare'
    BY <1>0, <2>1, <2>4, <2>5, <2>6 DEF WInv, SleepersAreSpare
  <2>8. QED
    BY <2>1, <2>2, <2>7 DEF WInv, WaitsOnEmpty
<1>7. QED
  BY <1>3, <1>4, <1>5, <1>6 DEF CreateNext, AddNext

\* What a worker does: it takes a task and stops coming, or finds none and sleeps.
LEMMA WorkerSpares ==
  ASSUME IsFiniteSet(Workers), WInv, NEW w \in Workers, WorkerNext(w)
  PROVE  SleepersAreSpare' /\ WaitsOnEmpty'
<1>1. /\ worker \in [Workers -> WorkerPC] /\ count \in 0 .. QueueSize /\ Size \in 0 .. QueueSize
      /\ LockDiscipline /\ shutdown = RUNNING /\ IInv
  BY DEF WInv, IInv, TypeOK, RingAgrees
<1> USE QueueSizePositive
<1>2. main' = main /\ \A v \in Workers \ {w} : worker'[v] = worker[v]
  BY <1>1 DEF WorkerNext, WorkerLock, WorkerCheck, WorkerWait, SpuriousWakeup, WorkerRelock, WorkerTake,
       WorkerAdvance, WorkerCount, WorkerUnlock, WorkerRun, WorkerLeave, Goto
<1>3. /\ Cardinality(ComingIn(worker)) \in Nat /\ Cardinality(ComingIn(worker')) \in Nat /\ Size \in Int
      /\ (w \in ComingIn(worker) <=> worker[w] \in {"woken", "lock", "check", "take", "advance"})
      /\ (w \in ComingIn(worker') <=> worker'[w] \in {"woken", "lock", "check", "take", "advance"})
      /\ w \in ComingIn(worker) /\ w \in ComingIn(worker') =>
           Cardinality(ComingIn(worker')) = Cardinality(ComingIn(worker))
      /\ w \notin ComingIn(worker) => Cardinality(ComingIn(worker')) >= Cardinality(ComingIn(worker))
      /\ w \in ComingIn(worker) => Cardinality(ComingIn(worker')) >= Cardinality(ComingIn(worker)) - 1
  BY <1>1, <1>2, ComingApart DEF ComingIn
<1>4. CASE WorkerWait(w)
  <2>1. worker[w] = "wait" /\ worker'[w] = "asleep" /\ count' = count /\ worker[w] \in WorkerHolds
    BY <1>1, <1>4 DEF WorkerWait, Goto, ring, WorkerHolds
  <2>2. count = 0 /\ Size = count
    BY <1>1, <2>1, Alone DEF WInv, WaitsOnEmpty
  <2>3. Size' = Size
    BY <1>2, <2>1 DEF Size
  <2>4. SleepersAreSpare'
    BY <1>3, <2>2, <2>3 DEF SleepersAreSpare
  <2>5. WaitsOnEmpty'
    BY <2>1, <2>2 DEF WaitsOnEmpty
  <2>6. QED
    BY <2>4, <2>5
<1>5. CASE WorkerCheck(w)
  <2>1. /\ worker[w] = "check" /\ count' = count /\ worker[w] \in WorkerHolds
        /\ worker'[w] = IF count = 0 THEN "wait" ELSE "take"
    BY <1>1, <1>5 DEF WorkerCheck, Goto, ring, WorkerHolds, RUNNING, SHUTDOWN
  <2>2. Size = count /\ \A v \in Workers \ {w} : worker[v] # "count"
    BY <1>1, <2>1, Alone
  <2>3. Size' = Size
    BY <1>2, <2>1, <2>2 DEF Size
  <2>4. CASE count = 0
    BY <1>2, <1>3, <2>1, <2>2, <2>3, <2>4 DEF SleepersAreSpare, WaitsOnEmpty
  <2>5. CASE count # 0
    <3>1. Cardinality(ComingIn(worker')) = Cardinality(ComingIn(worker))
      BY <1>3, <2>1, <2>5
    <3>2. (\E v \in Workers : worker'[v] = "asleep") => \E v \in Workers : worker[v] = "asleep"
      BY <1>2, <2>1
    <3>3. SleepersAreSpare'
      BY <1>2, <2>3, <3>1, <3>2 DEF WInv, SleepersAreSpare
    <3>4. QED
      BY <1>2, <2>1, <2>5, <3>3 DEF WInv, WaitsOnEmpty
  <2>6. QED
    BY <2>4, <2>5
<1>6. CASE WorkerAdvance(w)
  <2>1. /\ worker[w] = "advance" /\ count' = count /\ worker'[w] = "count" /\ worker[w] \in WorkerHolds
    BY <1>1, <1>6 DEF WorkerAdvance, Goto, WorkerHolds
  <2>2. Size = count
    BY <1>1, <2>1, Alone
  <2>3. Size' = Size - 1
    BY <1>2, <2>1, <2>2 DEF Size
  <2>4. (\E v \in Workers : worker'[v] = "asleep") => \E v \in Workers : worker[v] = "asleep"
    BY <1>2, <2>1
  <2>5. SleepersAreSpare'
    BY <1>2, <1>3, <2>1, <2>3, <2>4 DEF WInv, SleepersAreSpare
  <2>6. QED
    BY <1>2, <2>1, <2>5 DEF WInv, WaitsOnEmpty
<1>7. CASE WorkerCount(w)
  <2>1. /\ worker[w] = "count" /\ count' = count - 1 /\ worker'[w] = "unlock" /\ worker[w] \in WorkerHolds
    BY <1>1, <1>7 DEF WorkerCount, Goto, WorkerHolds
  <2>2. Size = count - 1 /\ \A v \in Workers \ {w} : worker[v] \notin {"count", "wait"}
    BY <1>1, <2>1, Alone DEF LockDiscipline, WorkerHolds
  <2>3. Size' = Size
    BY <1>2, <2>1, <2>2 DEF Size
  <2>4. (\E v \in Workers : worker'[v] = "asleep") => \E v \in Workers : worker[v] = "asleep"
    BY <1>2, <2>1
  <2>5. SleepersAreSpare'
    BY <1>2, <1>3, <2>1, <2>3, <2>4 DEF WInv, SleepersAreSpare
  <2>6. QED
    BY <1>2, <2>1, <2>2, <2>5 DEF WaitsOnEmpty
<1>8. CASE WorkerLock(w) \/ SpuriousWakeup(w) \/ WorkerRelock(w) \/ WorkerTake(w) \/ WorkerUnlock(w)
           \/ WorkerRun(w) \/ WorkerLeave(w)
  <2>1. /\ count' = count /\ worker[w] # "count" /\ worker'[w] \notin {"count", "asleep", "wait"}
        /\ w \notin ComingIn(worker) \/ w \in ComingIn(worker')
    BY <1>1, <1>3, <1>8 DEF WorkerLock, SpuriousWakeup, WorkerRelock, WorkerTake, WorkerUnlock, WorkerRun,
         WorkerLeave, Goto, ring
  <2>2. Size' = Size
    BY <1>2, <2>1 DEF Size
  <2>3. (\E v \in Workers : worker'[v] = "asleep") => \E v \in Workers : worker[v] = "asleep"
    BY <1>2, <2>1
  <2>4. Cardinality(ComingIn(worker')) >= Cardinality(ComingIn(worker))
    BY <1>3, <2>1
  <2>5. SleepersAreSpare'
    BY <1>2, <1>3, <2>2, <2>3, <2>4 DEF WInv, SleepersAreSpare
  <2>6. QED
    BY <1>2, <2>1, <2>5 DEF WInv, WaitsOnEmpty
<1>9. QED
  BY <1>4, <1>5, <1>6, <1>7, <1>8 DEF WorkerNext

\* Each add wakes a worker of its own: however signals, spurious wakeups and the
\* workers that come back from their tasks are ordered, while one sleeps the others
\* that are on their way are as many as the tasks that wait
\* (src/thread_pool.c:18-20, 119).  It is what NoneSleepsOnWork rests on.
THEOREM SleepersStaySpare == ASSUME IsFiniteSet(Workers) PROVE ServeSpec => []SleepersAreSpare
<1>1. Init => WInv
  BY InvInit DEF Init, WInv, SleepersAreSpare, WaitsOnEmpty
<1>2. WInv /\ [ServeNext]_vars => SleepersAreSpare' /\ WaitsOnEmpty'
  <2>1. SUFFICES ASSUME WInv, [ServeNext]_vars PROVE SleepersAreSpare' /\ WaitsOnEmpty'
    OBVIOUS
  <2>2. CASE UNCHANGED vars
    BY <2>1, <2>2 DEF WInv, SleepersAreSpare, WaitsOnEmpty, Size, vars, ring
  <2>3. QED
    BY <2>1, <2>2, MainSpares, WorkerSpares DEF ServeNext
<1>3. IInv /\ [ServeNext]_vars => IInv'
  BY TypeStep, LockStep, RingStep, InHandStep DEF IInv
<1>4. WInv /\ [ServeNext]_vars => WInv'
  BY <1>2, <1>3 DEF WInv
<1>5. WInv => SleepersAreSpare
  BY DEF WInv
<1>6. QED
  BY <1>1, <1>4, <1>5, PTL DEF ServeSpec

-----------------------------------------------------------------------------
(* The handler's broadcast.                                                *)

\* Between the interrupt and its unlock the handler runs in a thread that keeps the
\* mutex if it had it.
MainHas == main \in MainHolds \/ (main = "broadcast" /\ was \in MainHolds)

BeforeUnlock == {"create", "idle", "add_lock", "broadcast"} \cup MainHolds

\* Until the handler clears it the mutex excludes, also through the interrupt.
LockKept ==
  /\ worker \in [Workers -> WorkerPC]
  /\ main = "create" => was = "create"
  /\ main \in BeforeUnlock =>
       /\ \A v, w \in Workers : worker[v] \in WorkerHolds /\ worker[w] \in WorkerHolds => v = w
       /\ MainHas => \A w \in Workers : worker[w] \notin WorkerHolds
       /\ locked <=> MainHas \/ \E w \in Workers : worker[w] \in WorkerHolds

\* shutdown is set, and who has not been woken will be: no worker is between its test
\* and its wait, where the broadcast would miss it.
Woken ==
  /\ shutdown = SHUTDOWN
  /\ main \in {"broadcast", "unlock", "join", "mutex_destroy", "freed", "failed", "crashed"}
  /\ \A w \in Workers : worker[w] # "wait" /\ (main # "broadcast" => worker[w] # "asleep")

LEMMA LockKeptStep == LockKept /\ [Next]_vars => LockKept'
<1>1. SUFFICES ASSUME LockKept, [Next]_vars PROVE LockKept'
  OBVIOUS
<1> USE <1>1 DEF LockKept, MainHas, BeforeUnlock, WorkerHolds, MainHolds, WorkerPC
<1>2. CASE CreateNext
  BY <1>2 DEF CreateNext, CreateWorker, Created, Goto
<1>3. CASE AddNext
  <2>1. CASE GetterLock \/ GetterUnlock \/ \E t \in Task : AddCalled(t)
    BY <2>1 DEF GetterLock, GetterUnlock, AddCalled, Lock, Unlock
  <2>2. CASE AddLock \/ AddReject \/ AddStore \/ AddCount \/ AddUnlock
    BY <2>2 DEF AddLock, AddReject, AddStore, AddCount, AddUnlock, Lock, Unlock
  <2>3. CASE AddSignal
    BY <2>3 DEF AddSignal, Goto
  <2>4. QED
    BY <1>3, <2>1, <2>2, <2>3 DEF AddNext
<1>4. ASSUME NEW w \in Workers, WorkerNext(w) PROVE LockKept'
  <2>1. CASE WorkerLock(w) \/ WorkerRelock(w)
    BY <2>1 DEF WorkerLock, WorkerRelock, Lock, Goto
  <2>2. CASE WorkerCheck(w) \/ WorkerTake(w) \/ WorkerAdvance(w) \/ WorkerCount(w)
    BY <2>2 DEF WorkerCheck, WorkerTake, WorkerAdvance, WorkerCount, Goto
  <2>3. CASE WorkerWait(w) \/ WorkerUnlock(w) \/ WorkerLeave(w)
    BY <2>3 DEF WorkerWait, WorkerUnlock, WorkerLeave, Unlock, Goto
  <2>4. CASE SpuriousWakeup(w) \/ WorkerRun(w)
    BY <2>4 DEF SpuriousWakeup, WorkerRun, Goto
  <2>5. QED
    BY <1>4, <2>1, <2>2, <2>3, <2>4 DEF WorkerNext
<1>5. CASE DestroyNext
  <2>1. CASE CreateFails \/ Interrupt
    BY <2>1 DEF CreateFails, Interrupt
  <2>2. CASE Broadcast
    BY <2>2 DEF Broadcast
  <2>3. CASE DestroyUnlock \/ Join \/ JoinGarbage \/ Free \/ MutexBusy
    BY <2>3 DEF DestroyUnlock, Join, JoinGarbage, Free, MutexBusy
  <2>4. QED
    BY <1>5, <2>1, <2>2, <2>3 DEF DestroyNext
<1>6. CASE UNCHANGED vars
  BY <1>6 DEF vars
<1>7. QED
  BY <1>1, <1>2, <1>3, <1>4, <1>5, <1>6 DEF Next, ServeNext

LEMMA WokenStep == LockKept /\ Woken /\ [Next]_vars => Woken'
<1>1. SUFFICES ASSUME LockKept, Woken, [Next]_vars PROVE Woken'
  OBVIOUS
<1> USE <1>1 DEF Woken
<1>2. worker \in [Workers -> WorkerPC]
  BY DEF LockKept
<1>3. CASE CreateNext \/ AddNext
  BY <1>3 DEF CreateNext, CreateWorker, Created, AddNext, GetterLock, GetterUnlock, AddCalled, AddLock,
       AddReject, AddStore, AddCount, AddSignal, AddUnlock
<1>4. ASSUME NEW w \in Workers, WorkerNext(w) PROVE Woken'
  <2>1. main' = main /\ shutdown' = shutdown /\ \A v \in Workers \ {w} : worker'[v] = worker[v]
    BY <1>2, <1>4 DEF WorkerNext, WorkerLock, WorkerCheck, WorkerWait, SpuriousWakeup, WorkerRelock,
         WorkerTake, WorkerAdvance, WorkerCount, WorkerUnlock, WorkerRun, WorkerLeave, Goto, control
  <2>2. worker'[w] # "asleep" /\ worker'[w] # "wait"
    BY <1>2, <1>4 DEF WorkerNext, WorkerLock, WorkerCheck, WorkerWait, SpuriousWakeup, WorkerRelock,
         WorkerTake, WorkerAdvance, WorkerCount, WorkerUnlock, WorkerRun, WorkerLeave, Goto, RUNNING, SHUTDOWN
  <2>3. QED
    BY <2>1, <2>2
<1>5. CASE DestroyNext
  <2>1. CASE CreateFails \/ Interrupt
    BY <2>1 DEF CreateFails, Interrupt, MainHolds
  <2>2. CASE Broadcast
    BY <1>2, <2>2 DEF Broadcast, control
  <2>3. CASE DestroyUnlock \/ Join \/ JoinGarbage \/ Free \/ MutexBusy
    BY <2>3 DEF DestroyUnlock, Join, JoinGarbage, Free, MutexBusy, control
  <2>4. QED
    BY <1>5, <2>1, <2>2, <2>3 DEF DestroyNext
<1>6. CASE UNCHANGED vars
  BY <1>6 DEF vars, control
<1>7. QED
  BY <1>1, <1>3, <1>4, <1>5, <1>6 DEF Next, ServeNext

LEMMA LockKeptHolds == Spec => []LockKept
<1>1. Init => LockKept
  BY DEF Init, LockKept, MainHas, MainHolds, WorkerHolds, WorkerPC
<1>2. QED
  BY <1>1, LockKeptStep, PTL DEF Spec

\* The handler is about to broadcast, and nobody holds the lock.
QuietShutdown == main = "broadcast" /\ shutdown = SHUTDOWN /\ ~locked

NobodySleeps == main # "broadcast" => \A w \in Workers : worker[w] # "asleep"

\* threadpool_destroy sets shutdown and broadcasts without the lock; if nobody holds it
\* then, no worker sleeps through the broadcast or ever again, though they and the
\* handler go on to fight over the mutex (src/thread_pool.c:142-144).  What can be
\* missed is only a worker that had the lock, between its test and its wait.
THEOREM QuietShutdownWakesAll == Spec => [](QuietShutdown => []NobodySleeps)
<1>1. LockKept /\ QuietShutdown => Woken
  <2>1. SUFFICES ASSUME LockKept, QuietShutdown PROVE Woken
    OBVIOUS
  <2>2. \A w \in Workers : worker[w] \notin WorkerHolds
    BY <2>1 DEF LockKept, QuietShutdown, BeforeUnlock
  <2>3. QED
    BY <2>1, <2>2 DEF QuietShutdown, Woken, WorkerHolds
<1>2. Woken => NobodySleeps
  BY DEF Woken, NobodySleeps
<1>3. Spec => [][Next]_vars
  BY DEF Spec
<1>4. QED
  BY <1>1, <1>2, <1>3, WokenStep, LockKeptHolds, PTL

=============================================================================
