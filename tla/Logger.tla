------------------------------- MODULE Logger -------------------------------
(***************************************************************************)
(* src/logger.c.  Any thread calls logger_log, which filters by level      *)
(* without a lock and then, under the logger's mutex, rotates the files    *)
(* and writes its line; setters and logger_close take the same mutex.      *)
(* log_rotate reports its errors by logger_log, that is, it locks a mutex  *)
(* its own thread holds.                                                   *)
(*                                                                         *)
(* Sizes are counted in lines.  The size of a file that log_rotate opens   *)
(* for reading is asked of ftell, which answers 0.  The handle that it     *)
(* replaces is not closed.  What else the process does with descriptors is *)
(* left out.  logger_set_file_path is called with the directory that the   *)
(* logger began with, or with one that holds no log file.                  *)
(***************************************************************************)
EXTENDS Integers, FiniteSets

CONSTANTS
  Threads,
  NoOne,         \* the holder of a free mutex
  NULL,
  Levels,        \* the levels that logger_set_level is called with
  Sizes,         \* the sizes that logger_set_max_file_size is called with
  Counts,        \* the counts that logger_set_max_file_count is called with
  Moves,         \* whether logger_set_file_path is called with another directory or not
  Targets,       \* whether logger_set_target is called with LOG_TARGET_FILE in or not
  InitSize,      \* max_file_size of the static initialiser
  InitCount,     \* max_file_count of the static initialiser
  MostFiles,     \* the largest count
  Descriptors,   \* descriptors left when the logger starts
  MaxLines       \* lines of a file after which no more is logged (bound)

LOG_LEVEL_DEBUG == 0
LOG_LEVEL_INFO  == 1
LOG_LEVEL_ERROR == 2
LOG_LEVEL_FATAL == 3
LOG_LEVEL_WARN  == 5

Level == LOG_LEVEL_DEBUG .. LOG_LEVEL_WARN

ASSUME LoggerAssumption ==
  /\ NoOne \notin Threads
  /\ Levels \subseteq Level /\ Sizes \subseteq Nat /\ Targets \subseteq BOOLEAN
  /\ Moves \subseteq BOOLEAN
  /\ MostFiles \in Nat /\ InitCount \in 1 .. MostFiles /\ Counts \subseteq 1 .. MostFiles
  /\ InitSize \in Nat
  /\ Descriptors \in Nat /\ MaxLines \in Nat
  /\ NULL \notin [file : 1 .. MostFiles + 1, pos : Nat]

File == 1 .. MostFiles + 1

VARIABLES
  level, to_file, max_file_size, max_file_count,  \* log_config
  elsewhere,                      \* whether file_path is another directory
  mutex,                          \* its holder
  destroyed,                      \* whether the mutex was destroyed
  log_file,                       \* the file written to and the position in it, or NULL
  present,                        \* the files that exist in the first directory
  lines,                          \* how many lines each has
  descriptors,                    \* descriptors left
  twice,                          \* the threads that have a second line to log
  pc                              \* per thread; "stuck" waits for its own mutex, "fault" wrote to NULL

config == <<level, to_file, max_file_size, max_file_count, elsewhere>>
disk == <<present, lines>>
vars == <<config, mutex, destroyed, log_file, disk, descriptors, twice, pc>>

\* C leaves open where a stream opened for appending stands before its first write.
OpenAppend(f) == {[file |-> f, pos |-> p] : p \in {0, lines[f]}}

\* logger_init(LOG_LEVEL_INFO, LOG_TARGET_CONSOLE | LOG_TARGET_FILE, NULL), with
\* what the run before has left in the first file.
Init ==
  /\ level = LOG_LEVEL_INFO /\ to_file = TRUE /\ max_file_size = InitSize
  /\ max_file_count = InitCount /\ elsewhere = FALSE
  /\ mutex = NoOne /\ destroyed = FALSE
  /\ present = 1 .. InitCount
  /\ \E n \in 0 .. InitSize : lines = [f \in File |-> IF f = 1 THEN n ELSE 0]
  /\ log_file \in OpenAppend(1)
  /\ descriptors = Descriptors /\ twice = {}
  /\ pc = [t \in Threads |-> "idle"]

GoTo(t, label) == pc' = [pc EXCEPT ![t] = label]

\* A call of logger_log passes the filter, or returns.
Passes(l) == l >= level

-----------------------------------------------------------------------------
(* logger_log.                                                             *)

Call(t) ==
  /\ pc[t] = "idle"
  /\ \A f \in File : lines[f] < MaxLines
  /\ \E l \in Level : Passes(l)
  /\ GoTo(t, "lock")
  /\ UNCHANGED <<config, mutex, destroyed, log_file, disk, descriptors, twice>>

\* The mutex is not recursive.  Once destroyed it is not taken any more.
Lock(t) ==
  /\ pc[t] = "lock"
  /\ IF destroyed THEN UNCHANGED mutex ELSE mutex = NoOne /\ mutex' = t
  /\ GoTo(t, "file")
  /\ UNCHANGED <<config, destroyed, log_file, disk, descriptors, twice>>

\* Mutant: returns with the mutex held.
NoFileReturns(t) ==
  /\ pc[t] = "file"
  /\ ~to_file \/ log_file = NULL
  /\ GoTo(t, "idle")
  /\ UNCHANGED <<config, mutex, destroyed, log_file, disk, descriptors, twice>>

NoFile(t) ==
  /\ pc[t] = "file"
  /\ ~to_file \/ log_file = NULL
  /\ GoTo(t, "unlock")
  /\ UNCHANGED <<config, mutex, destroyed, log_file, disk, descriptors, twice>>

InFile(t) == pc[t] = "file" /\ to_file /\ log_file # NULL

RotateStays(t) ==
  /\ InFile(t) /\ log_file.pos < max_file_size
  /\ GoTo(t, "puts")
  /\ UNCHANGED <<config, mutex, destroyed, log_file, disk, descriptors, twice>>

\* The loop looks at the files from the first on, up to one whose size, taken
\* for 0, is less than the limit.
LookedAt == IF max_file_size > 0 THEN {1} ELSE 1 .. max_file_count

Unreadable == descriptors = 0 \/ elsewhere \/ ~(LookedAt \subseteq present)

Rotates(t) == InFile(t) /\ log_file.pos >= max_file_size

\* MY_LOG_ERROR in log_rotate: either filtered out, or it locks the mutex again.
Complain(t) == GoTo(t, IF Passes(LOG_LEVEL_ERROR) THEN "stuck" ELSE "puts")

RotateCannotRead(t) ==
  /\ Rotates(t) /\ Unreadable
  /\ Complain(t)
  /\ UNCHANGED <<config, mutex, destroyed, log_file, disk, descriptors, twice>>

\* Mutant: the file is opened with "w".
RotateTruncates(t) ==
  /\ Rotates(t) /\ ~Unreadable /\ max_file_size > 0
  /\ descriptors > 1
  /\ log_file' = [file |-> 1, pos |-> 0]
  /\ lines' = [lines EXCEPT ![1] = 0]
  /\ descriptors' = descriptors - 1
  /\ GoTo(t, "puts")
  /\ UNCHANGED <<config, mutex, destroyed, present, twice>>

\* Mutant: the switch is reported by MY_LOG_ERROR.
RotateReports(t) ==
  /\ Rotates(t) /\ ~Unreadable /\ max_file_size > 0
  /\ descriptors > 1
  /\ log_file' \in OpenAppend(1)
  /\ descriptors' = descriptors - 1
  /\ Complain(t)
  /\ UNCHANGED <<config, mutex, destroyed, disk, twice>>

RotateSwitches(t) ==
  /\ Rotates(t) /\ ~Unreadable /\ max_file_size > 0
  /\ descriptors > 1
  /\ log_file' \in OpenAppend(1)
  /\ descriptors' = descriptors - 1
  /\ GoTo(t, "puts")
  /\ UNCHANGED <<config, mutex, destroyed, disk, twice>>

\* log_file is assigned before it is tested.
RotateCannotOpen(t) ==
  /\ Rotates(t) /\ ~Unreadable /\ max_file_size > 0
  /\ descriptors = 1
  /\ log_file' = NULL
  /\ Complain(t)
  /\ UNCHANGED <<config, mutex, destroyed, disk, descriptors, twice>>

\* With a limit of 0 every file is taken for full: the first is removed, the
\* others up to the last take the number before theirs, and the new one is given
\* the number after the last.
RotateRenames(t) ==
  /\ Rotates(t) /\ ~Unreadable /\ max_file_size = 0
  /\ lines' = [f \in File |-> IF f < max_file_count THEN lines[f + 1]
                             ELSE IF f > max_file_count + 1 THEN lines[f] ELSE 0]
  /\ present' = (present \cup {max_file_count + 1}) \ {max_file_count}
  /\ log_file' = [file |-> max_file_count + 1, pos |-> 0]
  /\ descriptors' = descriptors - 1
  /\ GoTo(t, "puts")
  /\ UNCHANGED <<config, mutex, destroyed, twice>>

\* fputs and fflush; a NULL stream ends the process.
Puts(t) ==
  /\ pc[t] = "puts"
  /\ IF log_file = NULL
     THEN GoTo(t, "fault") /\ UNCHANGED <<log_file, lines>>
     ELSE /\ lines' = [lines EXCEPT ![log_file.file] = @ + 1]
          /\ log_file' = [log_file EXCEPT !.pos = lines[log_file.file] + 1]
          /\ GoTo(t, "unlock")
  /\ UNCHANGED <<config, mutex, destroyed, present, descriptors, twice>>

Unlock(t) ==
  /\ pc[t] = "unlock"
  /\ mutex' = IF mutex = t THEN NoOne ELSE mutex
  /\ GoTo(t, IF t \in twice THEN "again" ELSE "idle")
  /\ twice' = twice \ {t}
  /\ UNCHANGED <<config, destroyed, log_file, disk, descriptors>>

-----------------------------------------------------------------------------
(* The setters, which then log what they did, and logger_close.            *)

LogsThat(t) == GoTo(t, IF LOG_LEVEL_INFO >= level' THEN "lock" ELSE "idle")

Set(t) ==
  /\ pc[t] = "idle" /\ (destroyed \/ mutex = NoOne)
  /\ \/ /\ level' \in Levels \cap LOG_LEVEL_DEBUG .. LOG_LEVEL_FATAL
        /\ UNCHANGED <<to_file, max_file_size, max_file_count, elsewhere>>
     \/ to_file' \in Targets /\ UNCHANGED <<level, max_file_size, max_file_count, elsewhere>>
     \/ elsewhere' \in Moves /\ UNCHANGED <<level, to_file, max_file_size, max_file_count>>
     \/ max_file_size' \in Sizes /\ UNCHANGED <<level, to_file, max_file_count, elsewhere>>
     \/ max_file_count' \in Counts /\ UNCHANGED <<level, to_file, max_file_size, elsewhere>>
  /\ \A f \in File : lines[f] < MaxLines
  /\ LogsThat(t)
  /\ UNCHANGED <<mutex, destroyed, log_file, disk, descriptors, twice>>

\* logger_set_file_info, which logs two lines.
SetInfo(t) ==
  /\ pc[t] = "idle" /\ (destroyed \/ mutex = NoOne)
  /\ max_file_size' \in Sizes /\ max_file_count' \in Counts
  /\ \A f \in File : lines[f] < MaxLines
  /\ IF Passes(LOG_LEVEL_INFO)
     THEN GoTo(t, "lock") /\ twice' = twice \cup {t}
     ELSE GoTo(t, "again") /\ UNCHANGED twice
  /\ UNCHANGED <<level, to_file, elsewhere, mutex, destroyed, log_file, disk, descriptors>>

Again(t) ==
  /\ pc[t] = "again"
  /\ GoTo(t, IF Passes(LOG_LEVEL_INFO) THEN "lock" ELSE "idle")
  /\ UNCHANGED <<config, mutex, destroyed, log_file, disk, descriptors, twice>>

\* Mutant: log_file keeps pointing to the closed file.
CloseKeepsFile(t) ==
  /\ pc[t] = "idle" /\ (destroyed \/ mutex = NoOne)
  /\ GoTo(t, "destroy")
  /\ UNCHANGED <<config, mutex, destroyed, log_file, disk, descriptors, twice>>

Close(t) ==
  /\ pc[t] = "idle" /\ (destroyed \/ mutex = NoOne)
  /\ log_file' = NULL
  /\ descriptors' = IF log_file = NULL THEN descriptors ELSE descriptors + 1
  /\ GoTo(t, "destroy")
  /\ UNCHANGED <<config, mutex, destroyed, disk, twice>>

\* A mutex that somebody holds is not destroyed.
Destroy(t) ==
  /\ pc[t] = "destroy"
  /\ destroyed' = (destroyed \/ mutex = NoOne)
  /\ GoTo(t, "idle")
  /\ UNCHANGED <<config, mutex, log_file, disk, descriptors, twice>>

Rotate(t) ==
  RotateStays(t) \/ RotateCannotRead(t) \/ RotateSwitches(t) \/ RotateCannotOpen(t) \/ RotateRenames(t)

InCall(t) ==
  Lock(t) \/ NoFile(t) \/ Rotate(t) \/ Puts(t) \/ Unlock(t) \/ Again(t) \/ Destroy(t)

Next ==
  /\ \A t \in Threads : pc[t] # "fault"
  /\ \E t \in Threads : Call(t) \/ Set(t) \/ SetInfo(t) \/ Close(t) \/ InCall(t)

Spec == Init /\ [][Next]_vars

FairSpec == Spec /\ \A t \in Threads : WF_vars(Next /\ InCall(t)) /\ SF_vars(Next /\ Lock(t))

-----------------------------------------------------------------------------
(* Properties.                                                             *)

TypeOK ==
  /\ level \in Level /\ to_file \in BOOLEAN /\ max_file_size \in Nat
  /\ max_file_count \in 1 .. MostFiles /\ elsewhere \in BOOLEAN
  /\ mutex \in Threads \cup {NoOne}
  /\ destroyed \in BOOLEAN
  /\ log_file \in [file : File, pos : Nat] \cup {NULL}
  /\ present \subseteq File
  /\ lines \in [File -> Nat]
  /\ descriptors \in Nat
  /\ pc \in [Threads -> {"idle", "lock", "file", "puts", "unlock", "again", "destroy", "stuck", "fault"}]
  /\ twice \subseteq Threads

\* Whatever the interleaving of calls and of logger_close, two threads are never
\* between log_rotate and the end of fputs (logger.c:285-289): before the close
\* the mutex keeps them apart, and a thread that gets in through the destroyed
\* mutex of logger.c:332 finds no file.
OneWriter == \A t, u \in Threads : t # u => ~(pc[t] = "puts" /\ pc[u] = "puts")

\* log_rotate (logger.c:170-222) loses no line of any file, however often it
\* reopens one, unless somebody sets the limit to 0.
LinesKept == [][max_file_size > 0 => \A f \in File : lines'[f] >= lines[f]]_vars

\* A thread comes to wait for the mutex it holds (logger.c:181, 189) only when
\* the rotation finds a file missing, because of a limit of 0, another directory
\* or a higher count, or the process is out of descriptors.
StuckOnlyOnFailure ==
  (\E t \in Threads : pc[t] = "stuck") =>
    descriptors < 2 \/ elsewhere \/ ~(1 .. max_file_count \subseteq present)

\* A call of logger_log or of a setter returns, and gives the mutex back, unless
\* some thread waits for its own mutex or the process is dead: logger.c:239-296.
CallsReturn ==
  \A t \in Threads : pc[t] = "lock" ~> (pc[t] = "idle" \/ \E u \in Threads : pc[u] \in {"stuck", "fault"})

\* logger.c:166-168: a file that has reached the limit is left for another one,
\* so that no file outgrows it by more than the line being written.
FilesStayBounded == \A f \in File : lines[f] <= max_file_size + 1

=============================================================================
