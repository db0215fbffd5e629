------------------------------ MODULE Watchdog ------------------------------
(***************************************************************************)
(* src/watchdog.c: components register under a name with the thread that   *)
(* serves them and send heartbeats; a watchdog thread wakes every          *)
(* check_interval seconds, marks the components that have been silent for  *)
(* more than two intervals and restarts them.  "Restarting" is cancelling  *)
(* the thread and marking the component healthy again.                     *)
(*                                                                         *)
(* The program's own code does not call the API: any thread may.  Calls    *)
(* that keep watchdog_mutex from their first access to their last are one  *)
(* step.  The watchdog's loop gives the mutex up around each restart, and  *)
(* a restart takes it twice.  Times are kept as ages: seconds since        *)
(* last_active_time, and seconds since the loop read current_time.         *)
(***************************************************************************)
EXTENDS Integers, Sequences

CONSTANTS
  Name,              \* the names that callers pass
  Stored,            \* a name as strncpy keeps it in 31 characters
  Restartable,       \* "thread_pool" and "socket_thread"
  Thread,            \* thread IDs of components
  Dogs,              \* the watchdog threads that may be created (bound)
  NoOne,             \* the holder of a free mutex, and the ID of no thread
  MAX_COMPONENTS,
  check_interval,
  max_restart_count,
  auto_restart,
  WideTime,          \* whether time_t is wider than unsigned int
  MaxLag             \* the seconds that one pass over the components may take (bound)

ASSUME WatchdogAssumption ==
  /\ MAX_COMPONENTS \in Nat /\ check_interval \in Nat
  /\ max_restart_count \in Nat /\ MaxLag \in Nat
  /\ auto_restart \in BOOLEAN /\ WideTime \in BOOLEAN
  /\ DOMAIN Stored = Name
  /\ NoOne \notin Dogs \cup Thread

VARIABLES
  components,        \* the entries in use
  watchdog_running,
  watchdog_mutex,    \* its holder, as far as a thread keeps it for several steps
  caller,            \* program counter of the thread that starts and stops the watchdog
  pc,                \* program counters of the watchdog threads
  at,                \* the loop's i
  since,             \* seconds since the loop read current_time, or since it went to sleep
  comp_index,        \* watchdog_restart_component's comp_index and
  thread_id,         \*   thread_id
  alive,             \* the threads that exist
  cancelled          \* the threads with a cancellation pending

restartVars == <<comp_index, thread_id>>
threadVars == <<alive, cancelled>>
vars == <<components, watchdog_running, watchdog_mutex, caller, pc, at, since,
          restartVars, threadVars>>

\* Silence is told apart up to here, with current_time up to MaxLag in the past.
AgeCap == 2 * check_interval + MaxLag + 1

Component ==
  [component_name : {Stored[n] : n \in Name}, thread_id : Thread, age : 0 .. AgeCap,
   is_healthy : BOOLEAN, restart_count : Nat]

\* The loop has read current_time and not yet finished its pass.
Pass == {"scan", "restart", "cancel", "revive", "relock"}

Init ==
  /\ components = <<>>
  /\ watchdog_running = FALSE
  /\ watchdog_mutex = NoOne
  /\ caller = "idle"
  /\ pc = [d \in Dogs |-> "none"]
  /\ at = [d \in Dogs |-> 1]
  /\ since = [d \in Dogs |-> 0]
  /\ comp_index = [d \in Dogs |-> 1]
  /\ thread_id = [d \in Dogs |-> NoOne]
  /\ alive = Thread
  /\ cancelled = {}

-----------------------------------------------------------------------------
(* The API.                                                                *)

Indexes == DOMAIN components

\* i is the first entry whose name compares equal to name.
IsFirst(i, name) ==
  /\ i \in Indexes
  /\ components[i].component_name = name
  /\ \A j \in 1 .. i - 1 : components[j].component_name # name

Known(name) == \E i \in Indexes : components[i].component_name = name

Entry(name, t) ==
  [component_name |-> name, thread_id |-> t, age |-> 0,
   is_healthy |-> TRUE, restart_count |-> 0]

watchdog_register_component(n, t) ==
  /\ watchdog_mutex = NoOne
  /\ t \in alive
  /\ \/ \E i \in Indexes :
          /\ IsFirst(i, n)
          /\ components' = [components EXCEPT ![i] = Entry(n, t)]
     \/ /\ ~Known(n)
        /\ Len(components) < MAX_COMPONENTS
        /\ components' = Append(components, Entry(Stored[n], t))
  /\ UNCHANGED <<watchdog_running, watchdog_mutex, caller, pc, at, since, restartVars, threadVars>>

Beaten(c) == [c EXCEPT !.age = 0, !.is_healthy = TRUE]

\* The component's own thread reports, while it lives.
watchdog_update_heartbeat(n) ==
  /\ watchdog_mutex = NoOne
  /\ \E i \in Indexes :
       /\ IsFirst(i, n)
       /\ components[i].thread_id \in alive
       /\ components' = [components EXCEPT ![i] = Beaten(@)]
  /\ UNCHANGED <<watchdog_running, watchdog_mutex, caller, pc, at, since, restartVars, threadVars>>

\* What watchdog_check_health answers; a THREAD_DEAD is never stored.
watchdog_check_health(n) ==
  IF ~Known(n) THEN "MEMORY_ERROR"
  ELSE LET c == components[CHOOSE i \in Indexes : IsFirst(i, n)] IN
       CASE ~c.is_healthy -> "THREAD_STUCK"
         [] c.is_healthy /\ c.age > 2 * check_interval -> "THREAD_DEAD"
         [] OTHER -> "OK"

\* The flag is set before there is a thread, so that an earlier one may see it.
StartCalled ==
  /\ caller = "idle" /\ ~watchdog_running
  /\ watchdog_running' = TRUE
  /\ caller' = "create"
  /\ UNCHANGED <<components, watchdog_mutex, pc, at, since, restartVars, threadVars>>

Created(d) ==
  /\ caller = "create" /\ pc[d] = "none"
  /\ caller' = "idle"
  /\ pc' = [pc EXCEPT ![d] = "top"]
  /\ UNCHANGED <<components, watchdog_running, watchdog_mutex, at, since, restartVars, threadVars>>

CreateFails ==
  /\ caller = "create"
  /\ caller' = "idle"
  /\ watchdog_running' = FALSE
  /\ UNCHANGED <<components, watchdog_mutex, pc, at, since, restartVars, threadVars>>

\* The join of a detached thread returns at once or when it likes.
StopCalled ==
  /\ caller = "idle" /\ watchdog_running
  /\ watchdog_running' = FALSE
  /\ caller' = "join"
  /\ UNCHANGED <<components, watchdog_mutex, pc, at, since, restartVars, threadVars>>

JoinReturns ==
  /\ caller = "join"
  /\ caller' = "idle"
  /\ UNCHANGED <<components, watchdog_running, watchdog_mutex, pc, at, since, restartVars, threadVars>>

-----------------------------------------------------------------------------
(* The watchdog thread.                                                    *)

GoTo(d, label) == pc' = [pc EXCEPT ![d] = label]

\* while (watchdog_running), without the mutex.
Top(d) ==
  /\ pc[d] = "top"
  /\ GoTo(d, IF watchdog_running THEN "lock" ELSE "none")
  /\ UNCHANGED <<components, watchdog_running, watchdog_mutex, caller, at, since, restartVars, threadVars>>

Lock(d) ==
  /\ pc[d] = "lock" /\ watchdog_mutex = NoOne
  /\ watchdog_mutex' = d
  /\ GoTo(d, "scan")
  /\ UNCHANGED <<components, watchdog_running, caller, at, since, restartVars, threadVars>>

\* Mutant: one interval, as the comment at watchdog.c:41 has it.
SilentForOne(c, lag) == c.age - lag > check_interval

\* current_time - last_active_time is negative if the heartbeat came after
\* current_time was read; compared with an unsigned int it then counts as
\* huge, unless time_t is the wider of the two.
Silent(c, lag) ==
  \/ c.age - lag > 2 * check_interval
  \/ (~WideTime /\ c.age < lag)

Found(d) == at[d] \in Indexes /\ components[at[d]].is_healthy /\ Silent(components[at[d]], since[d])

\* Mutant: off by one.
MayRestartOnceMore(c) == auto_restart /\ c.restart_count <= max_restart_count

MayRestart(c) == auto_restart /\ c.restart_count < max_restart_count

ScanNext(d) ==
  /\ pc[d] = "scan" /\ at[d] \in Indexes /\ ~Found(d)
  /\ at' = [at EXCEPT ![d] = @ + 1]
  /\ UNCHANGED <<components, watchdog_running, watchdog_mutex, caller, pc, since, restartVars, threadVars>>

\* Mutant: the mutex is kept while the component is restarted.
ScanMarksKeepsMutex(d) ==
  /\ pc[d] = "scan" /\ Found(d) /\ MayRestart(components[at[d]])
  /\ components' = [components EXCEPT ![at[d]].is_healthy = FALSE]
  /\ GoTo(d, "restart")
  /\ UNCHANGED <<watchdog_running, watchdog_mutex, caller, at, since, restartVars, threadVars>>

ScanMarks(d) ==
  /\ pc[d] = "scan" /\ Found(d)
  /\ components' = [components EXCEPT ![at[d]].is_healthy = FALSE]
  /\ IF MayRestart(components[at[d]])
     THEN GoTo(d, "restart") /\ watchdog_mutex' = NoOne /\ UNCHANGED at
     ELSE at' = [at EXCEPT ![d] = @ + 1] /\ UNCHANGED <<pc, watchdog_mutex>>
  /\ UNCHANGED <<watchdog_running, caller, since, restartVars, threadVars>>

ScanEnds(d) ==
  /\ pc[d] = "scan" /\ at[d] \notin Indexes
  /\ watchdog_mutex' = NoOne
  /\ GoTo(d, "sleep")
  /\ at' = [at EXCEPT ![d] = 1]
  /\ since' = [since EXCEPT ![d] = 0]
  /\ UNCHANGED <<components, watchdog_running, caller, restartVars, threadVars>>

Wake(d) ==
  /\ pc[d] = "sleep" /\ since[d] = check_interval
  /\ GoTo(d, "top")
  /\ since' = [since EXCEPT ![d] = 0]
  /\ UNCHANGED <<components, watchdog_running, watchdog_mutex, caller, at, restartVars, threadVars>>

\* Mutant: the restart is not counted.
NotCounted(c) == c

Counted(c) == [c EXCEPT !.restart_count = @ + 1]

\* The name is compared anew, and the thread ID is the one registered by now.
Restart(d) ==
  /\ pc[d] = "restart" /\ watchdog_mutex = NoOne
  /\ \E i \in Indexes :
       /\ IsFirst(i, components[at[d]].component_name)
       /\ components' = [components EXCEPT ![i] = Counted(@)]
       /\ comp_index' = [comp_index EXCEPT ![d] = i]
       /\ thread_id' = [thread_id EXCEPT ![d] = components[i].thread_id]
  /\ GoTo(d, "cancel")
  /\ UNCHANGED <<watchdog_running, watchdog_mutex, caller, at, since, threadVars>>

Cancel(d) ==
  /\ pc[d] = "cancel"
  /\ cancelled' = cancelled \cup ({thread_id[d]} \cap alive)
  /\ thread_id' = [thread_id EXCEPT ![d] = NoOne]
  /\ GoTo(d, IF components[comp_index[d]].component_name \in Restartable
             THEN "revive" ELSE "relock")
  /\ UNCHANGED <<components, watchdog_running, watchdog_mutex, caller, at, since, comp_index, alive>>

Revive(d) ==
  /\ pc[d] = "revive" /\ watchdog_mutex = NoOne
  /\ components' = [components EXCEPT ![comp_index[d]] = Beaten(@)]
  /\ GoTo(d, "relock")
  /\ UNCHANGED <<watchdog_running, watchdog_mutex, caller, at, since, restartVars, threadVars>>

Relock(d) ==
  /\ pc[d] = "relock" /\ watchdog_mutex = NoOne
  /\ watchdog_mutex' = d
  /\ GoTo(d, "scan")
  /\ at' = [at EXCEPT ![d] = @ + 1]
  /\ comp_index' = [comp_index EXCEPT ![d] = 1]
  /\ UNCHANGED <<components, watchdog_running, caller, since, thread_id, threadVars>>

-----------------------------------------------------------------------------
(* Time, and threads that end.                                             *)

Older(c) == IF c.age < AgeCap THEN [c EXCEPT !.age = @ + 1] ELSE c

Tick ==
  /\ \A d \in Dogs : pc[d] \in Pass => since[d] < MaxLag
  /\ components' = [i \in Indexes |-> Older(components[i])]
  /\ since' = [d \in Dogs |->
                 IF pc[d] \in Pass \/ (pc[d] = "sleep" /\ since[d] < check_interval)
                 THEN since[d] + 1 ELSE since[d]]
  /\ UNCHANGED <<watchdog_running, watchdog_mutex, caller, pc, at, restartVars, threadVars>>

Exits(t) ==
  /\ t \in alive
  /\ alive' = alive \ {t}
  /\ cancelled' = cancelled \ {t}
  /\ UNCHANGED <<components, watchdog_running, watchdog_mutex, caller, pc, at, since, restartVars>>

DogNext(d) ==
  \/ Top(d) \/ Lock(d) \/ ScanNext(d) \/ ScanMarks(d) \/ ScanEnds(d) \/ Wake(d)
  \/ Restart(d) \/ Cancel(d) \/ Revive(d) \/ Relock(d)

CallReturns == (\E d \in Dogs : Created(d)) \/ CreateFails \/ JoinReturns

CallerNext == StartCalled \/ StopCalled \/ CallReturns

Next ==
  \/ \E n \in Name : watchdog_update_heartbeat(n)
                     \/ \E t \in Thread : watchdog_register_component(n, t)
  \/ CallerNext
  \/ \E d \in Dogs : DogNext(d)
  \/ Tick
  \/ \E t \in Thread : Exits(t)

Spec == Init /\ [][Next]_vars

\* Threads run, time passes and a mutex that comes free again and again is
\* obtained.  Nothing is assumed of the components, nor of what is called.
TakesMutex(d) == Lock(d) \/ Restart(d) \/ Revive(d) \/ Relock(d)

FairSpec ==
  /\ Spec
  /\ WF_vars(Tick) /\ WF_vars(CallReturns)
  /\ \A d \in Dogs : WF_vars(DogNext(d)) /\ SF_vars(TakesMutex(d))

-----------------------------------------------------------------------------
(* Properties.                                                             *)

\* Types, and who is where with the mutex.
TypeOK ==
  /\ components \in Seq(Component) /\ Len(components) <= MAX_COMPONENTS
  /\ watchdog_running \in BOOLEAN
  /\ watchdog_mutex \in Dogs \cup {NoOne}
  /\ caller \in {"idle", "create", "join"}
  /\ pc \in [Dogs -> Pass \cup {"none", "top", "lock", "sleep"}]
  /\ at \in [Dogs -> 1 .. MAX_COMPONENTS + 1]
  /\ since \in [Dogs -> Nat]
  /\ comp_index \in [Dogs -> 1 .. MAX_COMPONENTS + 1]
  /\ thread_id \in [Dogs -> Thread \cup {NoOne}]
  /\ alive \subseteq Thread
  /\ cancelled \subseteq alive

\* However heartbeats, registrations and stops fall into the gaps in which the
\* loop does not hold the mutex, no component is restarted more often than
\* max_restart_count since it registered (watchdog.c:51, :197).
RestartsBounded == \A i \in Indexes : components[i].restart_count <= max_restart_count

\* No entry is made twice, so that a heartbeat and a restart mean the same one.
NamesDiffer ==
  \A i, j \in Indexes : components[i].component_name = components[j].component_name => i = j

\* A component is marked unhealthy only in a second in which it has been silent
\* for more than two intervals, although current_time may be old by then
\* (watchdog.c:42).
MarkedWasSilent ==
  [][\A i \in Indexes :
       components[i].is_healthy /\ ~components'[i].is_healthy
         => components[i].age > 2 * check_interval]_vars

\* A component whose thread is dead ends up reported as stuck for good, however
\* often a restart has called it healthy in between (watchdog.c:50-51, :222).
DeadIsReported ==
  \A n \in Name :
    <>[](/\ watchdog_running
         /\ \E i \in Indexes : IsFirst(i, n) /\ components[i].thread_id \notin alive)
      => <>[](watchdog_check_health(n) = "THREAD_STUCK")

\* A restart that is under way ends, and the others get the mutex again.
PassEnds == \A d \in Dogs : pc[d] \in Pass ~> pc[d] = "sleep"

\* watchdog_restart_component cancels only threads that were registered when
\* the component was found silent: "尝试终止旧线程" (watchdog.c:206).
OnlyTheOldThread ==
  [][\A t \in cancelled' \ cancelled :
       \E i \in Indexes : components[i].thread_id = t /\ ~components[i].is_healthy]_vars

=============================================================================
