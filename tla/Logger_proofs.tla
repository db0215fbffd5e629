--------------------------- MODULE Logger_proofs ---------------------------
(***************************************************************************)
(* Proofs about the logger, for every number of threads, of files and of   *)
(* descriptors.  The inductive invariant IInv is the type, who holds the   *)
(* mutex, and that a logger whose mutex is destroyed has no file: that is  *)
(* what keeps writers apart when the mutex no longer does.                 *)
(***************************************************************************)
EXTENDS Logger, TLAPS

\* The mutex of a living logger is held by whoever is past pthread_mutex_lock.
HolderInside ==
  ~destroyed => \A t \in Threads : pc[t] \in {"file", "puts", "unlock", "stuck", "fault"} => mutex = t

\* A closed logger has no file, and nobody is writing or waits for himself when
\* the mutex is destroyed.
ClosedHasNoFile ==
  /\ \A t \in Threads : pc[t] = "destroy" => log_file = NULL
  /\ destroyed => log_file = NULL /\ \A t \in Threads : pc[t] \notin {"puts", "stuck"}

IInv == TypeOK /\ HolderInside /\ ClosedHasNoFile /\ StuckOnlyOnFailure

-----------------------------------------------------------------------------
\* log_file is a stream or NULL, never both.
LEMMA NullIsNoStream == NULL \notin [file : File, pos : Nat]
BY LoggerAssumption DEF File

LEMMA FilesExist ==
  ASSUME max_file_count \in 1 .. MostFiles
  PROVE  1 \in File /\ max_file_count + 1 \in File /\ LookedAt \subseteq 1 .. max_file_count
BY LoggerAssumption DEF File, LookedAt

LEMMA InvInit == Init => IInv
<1>1. SUFFICES ASSUME Init PROVE IInv
  OBVIOUS
<1>2. lines \in [File -> Nat]
  BY <1>1, LoggerAssumption DEF Init, File
<1>3. log_file \in [file : File, pos : Nat]
  <2>1. 1 \in File /\ lines[1] \in Nat
    BY <1>2, LoggerAssumption DEF File
  <2>2. QED
    BY <1>1, <2>1 DEF Init, OpenAppend
<1>4. TypeOK
  <2>1. level \in Level
    BY <1>1 DEF Init, Level, LOG_LEVEL_INFO, LOG_LEVEL_DEBUG, LOG_LEVEL_WARN
  <2>2. to_file \in BOOLEAN /\ destroyed \in BOOLEAN
    BY <1>1 DEF Init
  <2>3. present \subseteq File
    BY <1>1, LoggerAssumption DEF Init, File
  <2>4. QED
    BY <1>1, <1>2, <1>3, <2>1, <2>2, <2>3, LoggerAssumption DEF Init, TypeOK
<1>5. HolderInside /\ ClosedHasNoFile /\ StuckOnlyOnFailure
  BY <1>1 DEF Init, HolderInside, ClosedHasNoFile, StuckOnlyOnFailure
<1>6. QED
  BY <1>4, <1>5 DEF IInv

-----------------------------------------------------------------------------
\* A stream opened for appending is a stream.
LEMMA Opened ==
  ASSUME TypeOK, NEW f \in File
  PROVE  OpenAppend(f) \subseteq [file : File, pos : Nat]
BY DEF TypeOK, OpenAppend

\* log_file and the lines of the files keep their types.
LEMMA RotateType == ASSUME TypeOK, NEW t \in Threads, Rotate(t) PROVE TypeOK'
<1> USE FilesExist, LoggerAssumption DEF TypeOK
<1>1. CASE RotateStays(t)
  BY <1>1 DEF RotateStays, GoTo, config, disk
<1>2. CASE RotateCannotRead(t)
  BY <1>2 DEF RotateCannotRead, Complain, GoTo, config, disk
<1>3. CASE RotateSwitches(t)
  <2>1. log_file' \in [file : File, pos : Nat] /\ descriptors' \in Nat
    BY <1>3, Opened DEF RotateSwitches
  <2>2. QED
    BY <1>3, <2>1 DEF RotateSwitches, GoTo, config, disk
<1>4. CASE RotateCannotOpen(t)
  BY <1>4 DEF RotateCannotOpen, Complain, GoTo, config, disk
<1>5. CASE RotateRenames(t)
  <2>1. lines' \in [File -> Nat]
    BY <1>5 DEF RotateRenames, File
  <2>2. log_file' \in [file : File, pos : Nat] /\ descriptors' \in Nat /\ present' \subseteq File
    BY <1>5 DEF RotateRenames, Unreadable
  <2>3. QED
    BY <1>5, <2>1, <2>2 DEF RotateRenames, GoTo, config
<1>6. QED
  BY <1>1, <1>2, <1>3, <1>4, <1>5 DEF Rotate

LEMMA PutsType == ASSUME TypeOK, NEW t \in Threads, Puts(t) PROVE TypeOK'
<1> USE DEF TypeOK
<1>1. CASE log_file = NULL
  BY <1>1 DEF Puts, GoTo, config
<1>2. CASE log_file # NULL
  <2>1. log_file \in [file : File, pos : Nat] /\ lines[log_file.file] \in Nat
    BY <1>2
  <2>2. lines' \in [File -> Nat] /\ log_file' \in [file : File, pos : Nat]
    BY <1>2, <2>1 DEF Puts
  <2>3. QED
    BY <1>2, <2>2 DEF Puts, GoTo, config
<1>3. QED
  BY <1>1, <1>2

LEMMA TypeStep == TypeOK /\ [Next]_vars => TypeOK'
<1>1. SUFFICES ASSUME TypeOK, [Next]_vars PROVE TypeOK'
  OBVIOUS
<1>2. CASE UNCHANGED vars
  BY <1>1, <1>2 DEF vars, config, disk, TypeOK
<1>3. ASSUME NEW t \in Threads, Call(t) \/ Lock(t) \/ NoFile(t) \/ Unlock(t) \/ Again(t) \/ Destroy(t)
      PROVE  TypeOK'
  BY <1>1, <1>3 DEF Call, Lock, NoFile, Unlock, Again, Destroy, GoTo, config, disk, TypeOK
<1>4. ASSUME NEW t \in Threads, Set(t) \/ SetInfo(t) PROVE TypeOK'
  <2>1. /\ level' \in Level /\ to_file' \in BOOLEAN /\ max_file_size' \in Nat
        /\ max_file_count' \in 1 .. MostFiles /\ elsewhere' \in BOOLEAN
    BY <1>1, <1>4, LoggerAssumption DEF Set, SetInfo, TypeOK
  <2>2. pc' = [pc EXCEPT ![t] = "lock"] \/ pc' = [pc EXCEPT ![t] = "idle"] \/ pc' = [pc EXCEPT ![t] = "again"]
    BY <1>4 DEF Set, SetInfo, LogsThat, GoTo
  <2>3. twice' \subseteq Threads /\ UNCHANGED <<mutex, destroyed, log_file, disk, descriptors>>
    BY <1>1, <1>4 DEF Set, SetInfo, TypeOK
  <2>4. QED
    BY <1>1, <2>1, <2>2, <2>3 DEF disk, TypeOK
<1>5. ASSUME NEW t \in Threads, Close(t) PROVE TypeOK'
  BY <1>1, <1>5 DEF Close, GoTo, config, disk, TypeOK
<1>6. ASSUME NEW t \in Threads, InCall(t) PROVE TypeOK'
  BY <1>1, <1>3, <1>6, RotateType, PutsType DEF InCall
<1>7. QED
  BY <1>1, <1>2, <1>3, <1>4, <1>5, <1>6 DEF Next

-----------------------------------------------------------------------------
\* Who is past pthread_mutex_lock has the mutex, and nobody gets a file once the
\* logger is closed.
LEMMA HolderStep == IInv /\ [Next]_vars => HolderInside' /\ ClosedHasNoFile'
<1>1. SUFFICES ASSUME IInv, [Next]_vars PROVE HolderInside' /\ ClosedHasNoFile'
  OBVIOUS
<1> USE <1>1, LoggerAssumption DEF IInv, TypeOK, HolderInside, ClosedHasNoFile
<1>2. CASE UNCHANGED vars
  BY <1>2 DEF vars, config, disk
<1>3. ASSUME NEW t \in Threads, Call(t) \/ Set(t) \/ SetInfo(t) \/ Close(t)
      PROVE  HolderInside' /\ ClosedHasNoFile'
  BY <1>3 DEF Call, Set, SetInfo, LogsThat, Close, GoTo
<1>4. ASSUME NEW t \in Threads, Lock(t) \/ NoFile(t) \/ Unlock(t) \/ Again(t) \/ Destroy(t)
      PROVE  HolderInside' /\ ClosedHasNoFile'
  BY <1>4 DEF Lock, NoFile, Unlock, Again, Destroy, GoTo
<1>5. ASSUME NEW t \in Threads, Rotate(t)
      PROVE  HolderInside' /\ ClosedHasNoFile'
  <2>1. pc[t] = "file" /\ log_file # NULL /\ ~destroyed
    BY <1>5 DEF Rotate, RotateStays, RotateCannotRead, RotateSwitches, RotateCannotOpen,
                RotateRenames, Rotates, InFile
  <2>2. /\ mutex' = mutex /\ ~destroyed'
        /\ pc' = [pc EXCEPT ![t] = "puts"] \/ pc' = [pc EXCEPT ![t] = "stuck"]
    BY <1>5, <2>1 DEF Rotate, RotateStays, RotateCannotRead, RotateSwitches, RotateCannotOpen,
                RotateRenames, Complain, GoTo
  <2>3. QED
    BY <2>1, <2>2
<1>6. ASSUME NEW t \in Threads, Puts(t)
      PROVE  HolderInside' /\ ClosedHasNoFile'
  BY <1>6 DEF Puts, GoTo
<1>7. QED
  BY <1>2, <1>3, <1>4, <1>5, <1>6 DEF Next, InCall

\* While a thread waits for itself nobody else gets at the files; it comes to
\* wait only when a rotation fails.
LEMMA StuckStep == IInv /\ [Next]_vars => StuckOnlyOnFailure'
<1>1. SUFFICES ASSUME IInv, [Next]_vars, NEW s \in Threads, pc'[s] = "stuck"
               PROVE  descriptors' < 2 \/ elsewhere' \/ ~(1 .. max_file_count' \subseteq present')
  BY DEF StuckOnlyOnFailure
<1> USE <1>1, LoggerAssumption DEF IInv, TypeOK
<1>2. CASE pc[s] = "stuck"
  <2>1. mutex = s /\ ~destroyed /\ (descriptors < 2 \/ elsewhere \/ ~(1 .. max_file_count \subseteq present))
    BY <1>2 DEF HolderInside, ClosedHasNoFile, StuckOnlyOnFailure
  <2>2. CASE UNCHANGED <<descriptors, elsewhere, max_file_count, present>>
    BY <2>1, <2>2
  <2>3. ASSUME NEW t \in Threads, Call(t) \/ Lock(t) \/ NoFile(t) \/ Puts(t) \/ Unlock(t) \/ Again(t) \/ Destroy(t)
        PROVE  UNCHANGED <<descriptors, elsewhere, max_file_count, present>>
    BY <2>3 DEF Call, Lock, NoFile, Puts, Unlock, Again, Destroy, disk, config
  <2>4. ASSUME NEW t \in Threads, Set(t) \/ SetInfo(t) \/ Close(t) PROVE FALSE
    BY <2>1, <2>4 DEF Set, SetInfo, Close
  <2>5. ASSUME NEW t \in Threads, Rotate(t) PROVE FALSE
    <3>1. pc[t] = "file"
      BY <2>5 DEF Rotate, RotateStays, RotateCannotRead, RotateSwitches, RotateCannotOpen,
                  RotateRenames, Rotates, InFile
    <3>2. QED
      BY <1>2, <2>1, <3>1 DEF HolderInside
  <2>6. QED
    BY <2>1, <2>2, <2>3, <2>4, <2>5 DEF Next, InCall, vars, disk, config
<1>3. CASE pc[s] # "stuck"
  <2>1. PICK t \in Threads : Call(t) \/ Set(t) \/ SetInfo(t) \/ Close(t) \/ InCall(t)
    BY <1>3 DEF Next, vars
  <2>2. RotateCannotRead(t) \/ RotateCannotOpen(t)
    <3>1. ~(Call(t) \/ Set(t) \/ SetInfo(t) \/ Close(t) \/ Lock(t) \/ NoFile(t))
      BY <1>3 DEF Call, Set, SetInfo, LogsThat, Close, Lock, NoFile, GoTo
    <3>2. ~(Puts(t) \/ Unlock(t) \/ Again(t) \/ Destroy(t))
      BY <1>3 DEF Puts, Unlock, Again, Destroy, GoTo
    <3>3. ~(RotateStays(t) \/ RotateSwitches(t) \/ RotateRenames(t))
      BY <1>3 DEF RotateStays, RotateSwitches, RotateRenames, GoTo
    <3>4. QED
      BY <2>1, <3>1, <3>2, <3>3 DEF InCall, Rotate
  <2>3. CASE RotateCannotRead(t)
    BY <2>3, FilesExist DEF RotateCannotRead, Unreadable, disk, config
  <2>4. CASE RotateCannotOpen(t)
    BY <2>4 DEF RotateCannotOpen
  <2>5. QED
    BY <2>2, <2>3, <2>4
<1>4. QED
  BY <1>2, <1>3

LEMMA InvStep == IInv /\ [Next]_vars => IInv'
BY TypeStep, HolderStep, StuckStep DEF IInv

LEMMA InvHolds == Spec => []IInv
BY InvInit, InvStep, PTL DEF Spec

-----------------------------------------------------------------------------
\* The variables keep their types.
THEOREM TypeCorrect == Spec => []TypeOK
BY InvHolds, PTL DEF IInv

\* Two threads are never between log_rotate and the end of fputs
\* (logger.c:285-289), also when logger_close has destroyed the mutex.
THEOREM WritersExclude == Spec => []OneWriter
<1>1. IInv => OneWriter
  BY DEF IInv, HolderInside, ClosedHasNoFile, OneWriter
<1>2. QED
  BY <1>1, InvHolds, PTL

\* A thread waits for its own mutex only when a file was missing or the process
\* ran out of descriptors (logger.c:181, 189), for any number of each.
THEOREM StuckMeansFailure == Spec => []StuckOnlyOnFailure
BY InvHolds, PTL DEF IInv

\* No rotation loses a line as long as the limit is not 0 (logger.c:170-222).
THEOREM RotationLosesNothing == Spec => LinesKept
<1>1. TypeOK /\ [Next]_vars => [max_file_size > 0 => \A f \in File : lines'[f] >= lines[f]]_vars
  <2>1. SUFFICES ASSUME TypeOK, Next, max_file_size > 0, NEW f \in File
                 PROVE  lines'[f] >= lines[f]
    BY DEF vars
  <2> USE <2>1 DEF TypeOK
  <2>2. PICK t \in Threads : Call(t) \/ Set(t) \/ SetInfo(t) \/ Close(t) \/ InCall(t)
    BY DEF Next
  <2>3. CASE lines' = lines
    BY <2>3
  <2>4. CASE Puts(t)
    <3>1. CASE log_file = NULL
      BY <2>4, <3>1 DEF Puts
    <3>2. CASE log_file # NULL
      <4>1. lines' = [lines EXCEPT ![log_file.file] = @ + 1] /\ log_file.file \in File
        BY <2>4, <3>2 DEF Puts
      <4>2. QED
        BY <4>1
    <3>3. QED
      BY <3>1, <3>2
  <2>5. CASE Rotate(t)
    BY <2>1, <2>3, <2>5 DEF Rotate, RotateStays, RotateCannotRead, RotateSwitches, RotateCannotOpen,
                     RotateRenames, disk
  <2>6. CASE Call(t) \/ Set(t) \/ SetInfo(t) \/ Close(t) \/ Lock(t) \/ NoFile(t) \/ Unlock(t)
             \/ Again(t) \/ Destroy(t)
    BY <2>3, <2>6 DEF Call, Set, SetInfo, Close, Lock, NoFile, Unlock, Again, Destroy, disk
  <2>7. QED
    BY <2>2, <2>4, <2>5, <2>6 DEF InCall
<1>2. QED
  BY <1>1, TypeCorrect, PTL DEF Spec, LinesKept

=============================================================================
