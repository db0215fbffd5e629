-------------------------- MODULE Watchdog_proofs --------------------------
(***************************************************************************)
(* Proofs about the watchdog, for every number of components, threads and  *)
(* seconds.  The inductive invariant is the type with, for a watchdog in   *)
(* the middle of a restart, that the entries it remembers by index still   *)
(* exist (InPass); for the bound on restarts it is strengthened by what    *)
(* the loop has tested before it gave the mutex up (Tested).               *)
(***************************************************************************)
EXTENDS Watchdog, TLAPS

\* Entries are never removed, so that i and comp_index stay valid while the
\* mutex is given up (watchdog.c:52-57, 183-225).
InPass ==
  \A d \in Dogs :
    /\ pc[d] \in {"restart", "cancel", "revive", "relock"} => at[d] \in Indexes
    /\ pc[d] \in {"cancel", "revive"} => comp_index[d] \in Indexes

IInv == TypeOK /\ InPass

\* No name is cut by strncpy, and there is a single watchdog thread.
ShortNames == \A n \in Name : Stored[n] = n
OneDog == \A d, e \in Dogs : d = e

Tested ==
  \A d \in Dogs : pc[d] = "restart" => components[at[d]].restart_count < max_restart_count

BInv == IInv /\ NamesDiffer /\ RestartsBounded /\ Tested

-----------------------------------------------------------------------------
LEMMA Numbers ==
  /\ MAX_COMPONENTS \in Nat /\ check_interval \in Nat /\ max_restart_count \in Nat /\ MaxLag \in Nat
  /\ AgeCap \in Nat /\ 0 \in 0 .. AgeCap /\ NoOne \notin Dogs /\ NoOne \notin Thread
BY WatchdogAssumption DEF AgeCap

LEMMA Domain == ASSUME TypeOK PROVE Indexes = 1 .. Len(components) /\ Len(components) \in Nat
BY DEF TypeOK, Indexes

LEMMA EntryType ==
  ASSUME TypeOK, NEW i \in Indexes
  PROVE  /\ components[i] \in Component
         /\ components[i].component_name \in {Stored[n] : n \in Name}
         /\ components[i].restart_count \in Nat
         /\ components[i].thread_id \in Thread
<1>1. components[i] \in Component
  BY Domain DEF TypeOK
<1>2. QED
  BY <1>1 DEF Component

\* Writing to one entry.
LEMMA EntryWritten ==
  ASSUME TypeOK, NEW i \in Indexes, NEW c \in Component,
         components' = [components EXCEPT ![i] = c]
  PROVE  /\ components' \in Seq(Component) /\ Len(components') = Len(components)
         /\ Indexes' = Indexes
         /\ components'[i] = c
         /\ \A j \in Indexes \ {i} : components'[j] = components[j]
BY Domain DEF TypeOK, Indexes

\* What the watchdog writes are components.
LEMMA Written ==
  ASSUME NEW c \in Component
  PROVE  /\ Beaten(c) \in Component
         /\ Counted(c) \in Component
         /\ [c EXCEPT !.is_healthy = FALSE] \in Component
         /\ Older(c) \in Component
<1> USE Numbers DEF Component
<1>1. Beaten(c) \in Component
  BY DEF Beaten
<1>2. Counted(c) \in Component
  BY DEF Counted
<1>3. [c EXCEPT !.is_healthy = FALSE] \in Component
  OBVIOUS
<1>4. Older(c) \in Component
  <2>1. CASE c.age < AgeCap
    <3>1. c.age + 1 \in 0 .. AgeCap
      BY <2>1
    <3>2. QED
      BY <2>1, <3>1 DEF Older
  <2>2. CASE ~(c.age < AgeCap)
    BY <2>2 DEF Older
  <2>3. QED
    BY <2>1, <2>2
<1>5. QED
  BY <1>1, <1>2, <1>3, <1>4

LEMMA NewEntry ==
  ASSUME NEW name \in {Stored[n] : n \in Name}, NEW t \in Thread
  PROVE  Entry(name, t) \in Component
BY Numbers DEF Entry, Component

LEMMA InvInit == Init => IInv
<1>1. SUFFICES ASSUME Init PROVE IInv
  OBVIOUS
<1>2. components \in Seq(Component) /\ Len(components) = 0
  BY <1>1 DEF Init
<1>3. TypeOK
  <2>1. at \in [Dogs -> 1 .. MAX_COMPONENTS + 1] /\ comp_index \in [Dogs -> 1 .. MAX_COMPONENTS + 1]
        /\ since \in [Dogs -> Nat] /\ thread_id \in [Dogs -> Thread \cup {NoOne}]
    BY <1>1, Numbers DEF Init
  <2>2. pc \in [Dogs -> Pass \cup {"none", "top", "lock", "sleep"}]
    BY <1>1 DEF Init
  <2>3. watchdog_running \in BOOLEAN
    BY <1>1 DEF Init
  <2>4. QED
    BY <1>1, <1>2, <2>1, <2>2, <2>3, Numbers DEF Init, TypeOK
<1>4. InPass
  BY <1>1 DEF Init, InPass
<1>5. QED
  BY <1>3, <1>4 DEF IInv

-----------------------------------------------------------------------------
\* A step that writes one entry, or none, changes nothing else the type of which
\* is in doubt.
LEMMA ApiStep ==
  ASSUME IInv,
         \/ \E n \in Name : watchdog_update_heartbeat(n)
                            \/ \E t \in Thread : watchdog_register_component(n, t)
         \/ Tick
  PROVE  /\ components' \in Seq(Component) /\ Len(components') <= MAX_COMPONENTS
         /\ Len(components) <= Len(components')
         /\ UNCHANGED <<watchdog_running, watchdog_mutex, caller, pc, at, restartVars, threadVars>>
         /\ since' \in [Dogs -> Nat]
<1> USE DEF IInv
<1>1. ASSUME NEW n \in Name, watchdog_update_heartbeat(n)
      PROVE  /\ components' \in Seq(Component) /\ Len(components') = Len(components)
             /\ UNCHANGED <<watchdog_running, watchdog_mutex, caller, pc, at, since, restartVars, threadVars>>
  <2>1. PICK i \in Indexes : components' = [components EXCEPT ![i] = Beaten(components[i])]
    BY <1>1 DEF watchdog_update_heartbeat
  <2>2. QED
    BY <1>1, <2>1, Written, EntryType, EntryWritten DEF watchdog_update_heartbeat
<1>2. ASSUME NEW n \in Name, NEW t \in Thread, watchdog_register_component(n, t)
      PROVE  /\ components' \in Seq(Component)
             /\ Len(components') = Len(components)
                \/ (Len(components) < MAX_COMPONENTS /\ Len(components') = Len(components) + 1)
             /\ UNCHANGED <<watchdog_running, watchdog_mutex, caller, pc, at, since, restartVars, threadVars>>
  <2>1. CASE \E i \in Indexes : IsFirst(i, n) /\ components' = [components EXCEPT ![i] = Entry(n, t)]
    <3>1. PICK i \in Indexes : IsFirst(i, n) /\ components' = [components EXCEPT ![i] = Entry(n, t)]
      BY <2>1
    <3>2. n \in {Stored[m] : m \in Name}
      BY <3>1, EntryType DEF IsFirst, Component
    <3>3. QED
      BY <1>2, <3>1, <3>2, NewEntry, EntryWritten DEF watchdog_register_component
  <2>2. CASE Len(components) < MAX_COMPONENTS /\ components' = Append(components, Entry(Stored[n], t))
    <3>1. Entry(Stored[n], t) \in Component
      BY NewEntry
    <3>2. QED
      BY <1>2, <2>2, <3>1 DEF watchdog_register_component, TypeOK
  <2>3. QED
    BY <1>2, <2>1, <2>2 DEF watchdog_register_component
<1>3. ASSUME Tick
      PROVE  /\ components' \in Seq(Component) /\ Len(components') = Len(components)
             /\ UNCHANGED <<watchdog_running, watchdog_mutex, caller, pc, at, restartVars, threadVars>>
             /\ since' \in [Dogs -> Nat]
  <2>1. components' = [i \in 1 .. Len(components) |-> Older(components[i])]
    BY <1>3, Domain DEF Tick
  <2>2. \A i \in 1 .. Len(components) : Older(components[i]) \in Component
    BY Written, EntryType, Domain
  <2>3. components' \in Seq(Component) /\ Len(components') = Len(components)
    BY <2>1, <2>2, Domain
  <2>4. since' \in [Dogs -> Nat]
    BY <1>3 DEF Tick, TypeOK
  <2>5. QED
    BY <1>3, <2>3, <2>4 DEF Tick
<1>4. QED
  BY <1>1, <1>2, <1>3, Numbers, Domain DEF TypeOK

\* What a step of a watchdog thread does to the entries.
LEMMA DogWrites ==
  ASSUME IInv, NEW d \in Dogs, DogNext(d)
  PROVE  /\ components' \in Seq(Component) /\ Len(components') = Len(components)
         /\ Indexes' = Indexes
<1> USE DEF IInv
<1>1. CASE components' = components
  BY <1>1 DEF TypeOK, Indexes
<1>2. CASE ScanMarks(d)
  <2>1. at[d] \in Indexes
        /\ components' = [components EXCEPT ![at[d]] = [components[at[d]] EXCEPT !.is_healthy = FALSE]]
    BY <1>2, Domain DEF ScanMarks, Found, TypeOK
  <2>2. QED
    BY <2>1, Written, EntryType, EntryWritten
<1>3. CASE Restart(d)
  <2>1. PICK i \in Indexes : components' = [components EXCEPT ![i] = Counted(components[i])]
    BY <1>3 DEF Restart
  <2>2. QED
    BY <2>1, Written, EntryType, EntryWritten
<1>4. CASE Revive(d)
  <2>1. comp_index[d] \in Indexes
        /\ components' = [components EXCEPT ![comp_index[d]] = Beaten(components[comp_index[d]])]
    BY <1>4 DEF Revive, InPass
  <2>2. QED
    BY <2>1, Written, EntryType, EntryWritten
<1>5. QED
  BY <1>1, <1>2, <1>3, <1>4 DEF DogNext, Top, Lock, ScanNext, ScanEnds, Wake, Cancel, Relock

LEMMA DogType ==
  ASSUME IInv, NEW d \in Dogs, DogNext(d)
  PROVE  TypeOK' /\ InPass'
<1> USE Numbers, Domain DEF IInv, TypeOK, GoTo, Pass, restartVars, threadVars
<1>1. /\ components' \in Seq(Component) /\ Len(components') = Len(components)
      /\ Indexes' = Indexes
  BY DogWrites
<1>2. CASE Top(d)
  BY <1>1, <1>2 DEF Top, InPass
<1>3. CASE Lock(d)
  BY <1>1, <1>3 DEF Lock, InPass
<1>4. CASE ScanNext(d)
  BY <1>1, <1>4 DEF ScanNext, InPass
<1>5. CASE ScanMarks(d)
  <2>1. CASE MayRestart(components[at[d]])
    BY <1>1, <1>5, <2>1 DEF ScanMarks, Found, InPass
  <2>2. CASE ~MayRestart(components[at[d]])
    <3>1. /\ pc[d] = "scan" /\ at[d] \in Indexes
          /\ at' = [at EXCEPT ![d] = at[d] + 1]
          /\ UNCHANGED <<pc, watchdog_mutex, watchdog_running, caller, since, restartVars, threadVars>>
      BY <1>5, <2>2 DEF ScanMarks, Found
    <3>2. at[d] + 1 \in 1 .. MAX_COMPONENTS + 1
      BY <3>1
    <3>3. QED
      BY <1>1, <3>1, <3>2 DEF InPass
  <2>3. QED
    BY <2>1, <2>2
<1>6. CASE ScanEnds(d)
  BY <1>1, <1>6 DEF ScanEnds, InPass
<1>7. CASE Wake(d)
  BY <1>1, <1>7 DEF Wake, InPass
<1>8. CASE Restart(d)
  <2>1. PICK i \in Indexes : /\ comp_index' = [comp_index EXCEPT ![d] = i]
                             /\ thread_id' = [thread_id EXCEPT ![d] = components[i].thread_id]
    BY <1>8 DEF Restart
  <2>2. components[i].thread_id \in Thread
    BY EntryType
  <2>3. QED
    BY <1>1, <1>8, <2>1, <2>2 DEF Restart, InPass
<1>9. CASE Cancel(d)
  BY <1>1, <1>9 DEF Cancel, InPass
<1>10. CASE Revive(d)
  BY <1>1, <1>10 DEF Revive, InPass
<1>11. CASE Relock(d)
  BY <1>1, <1>11 DEF Relock, InPass
<1>12. QED
  BY <1>2, <1>3, <1>4, <1>5, <1>6, <1>7, <1>8, <1>9, <1>10, <1>11 DEF DogNext

LEMMA InvStep == IInv /\ [Next]_vars => IInv'
<1>1. SUFFICES ASSUME IInv, [Next]_vars PROVE IInv'
  OBVIOUS
<1> USE <1>1
<1>2. CASE UNCHANGED vars
  BY <1>2 DEF IInv, TypeOK, InPass, Indexes, vars, restartVars, threadVars
<1>3. ASSUME \/ \E n \in Name : watchdog_update_heartbeat(n)
                            \/ \E t \in Thread : watchdog_register_component(n, t)
             \/ Tick
      PROVE  IInv'
  BY <1>3, ApiStep, Numbers DEF IInv, TypeOK, InPass, Indexes, restartVars, threadVars
<1>4. CASE CallerNext
  <2>1. CASE StartCalled \/ StopCalled \/ CreateFails \/ JoinReturns
    BY <2>1 DEF IInv, TypeOK, InPass, Indexes, StartCalled, StopCalled, CreateFails, JoinReturns,
                restartVars, threadVars
  <2>2. ASSUME NEW d \in Dogs, Created(d) PROVE IInv'
    BY <2>2 DEF IInv, TypeOK, InPass, Indexes, Created, restartVars, threadVars
  <2>3. QED
    BY <1>4, <2>1, <2>2 DEF CallerNext, CallReturns
<1>5. ASSUME NEW d \in Dogs, DogNext(d) PROVE IInv'
  BY <1>5, DogType DEF IInv
<1>6. ASSUME NEW t \in Thread, Exits(t) PROVE IInv'
  BY <1>6 DEF IInv, TypeOK, InPass, Indexes, Exits, restartVars
<1>7. QED
  BY <1>2, <1>3, <1>4, <1>5, <1>6 DEF Next

\* The variables keep their types, and the indexes that a watchdog remembers
\* while it does not hold the mutex stay those of entries.
THEOREM TypeCorrect == Spec => [](TypeOK /\ InPass)
BY InvInit, InvStep, PTL DEF Spec, IInv

-----------------------------------------------------------------------------
\* Whose entry a name is, and that a restart finds the entry that was tested.
LEMMA FirstIsOnly ==
  ASSUME TypeOK, NamesDiffer, NEW i \in Indexes, NEW j \in Indexes,
         IsFirst(j, components[i].component_name)
  PROVE  i = j
BY DEF NamesDiffer, IsFirst

\* Writing an entry under its old name, with few enough restarts.
LEMMA BoundKept ==
  ASSUME BInv, NEW i \in Indexes, NEW c \in Component, components' = [components EXCEPT ![i] = c],
         c.component_name = components[i].component_name, c.restart_count <= max_restart_count
  PROVE  NamesDiffer' /\ RestartsBounded'
<1>1. /\ Indexes' = Indexes
      /\ \A j \in Indexes : components'[j] = IF j = i THEN c ELSE components[j]
  BY EntryWritten DEF BInv, IInv
<1>2. NamesDiffer'
  BY <1>1 DEF BInv, NamesDiffer
<1>3. RestartsBounded'
  BY <1>1 DEF BInv, RestartsBounded
<1>4. QED
  BY <1>2, <1>3

\* The fields that the watchdog leaves alone.
LEMMA Fields ==
  ASSUME NEW c \in Component
  PROVE  /\ Beaten(c).component_name = c.component_name /\ Beaten(c).restart_count = c.restart_count
         /\ Older(c).component_name = c.component_name /\ Older(c).restart_count = c.restart_count
         /\ [c EXCEPT !.is_healthy = FALSE].component_name = c.component_name
         /\ [c EXCEPT !.is_healthy = FALSE].restart_count = c.restart_count
         /\ Counted(c).component_name = c.component_name
         /\ Counted(c).restart_count = c.restart_count + 1
BY DEF Component, Beaten, Older, Counted

\* Writing an entry under its old name and with its old count.
LEMMA CountKept ==
  ASSUME BInv, NEW i \in Indexes, NEW c \in Component, components' = [components EXCEPT ![i] = c],
         c.component_name = components[i].component_name,
         c.restart_count = components[i].restart_count
  PROVE  /\ NamesDiffer' /\ RestartsBounded' /\ Indexes' = Indexes
         /\ \A j \in Indexes : components'[j].restart_count = components[j].restart_count
<1>1. c.restart_count <= max_restart_count
  BY DEF BInv, RestartsBounded
<1>2. NamesDiffer' /\ RestartsBounded'
  BY <1>1, BoundKept
<1>3. /\ Indexes' = Indexes
      /\ \A j \in Indexes : components'[j] = IF j = i THEN c ELSE components[j]
  BY EntryWritten DEF BInv, IInv
<1>4. QED
  BY <1>2, <1>3

LEMMA BoundInit == Init => BInv
<1>1. SUFFICES ASSUME Init PROVE BInv
  OBVIOUS
<1>2. Indexes = {}
  BY <1>1 DEF Init, Indexes
<1>3. QED
  BY <1>1, <1>2, InvInit DEF BInv, NamesDiffer, RestartsBounded, Tested, Init

LEMMA BoundStep ==
  ASSUME ShortNames, OneDog, BInv, [Next]_vars
  PROVE  NamesDiffer' /\ RestartsBounded' /\ Tested'
<1> USE Domain, Numbers DEF BInv, IInv
<1>1. CASE components' = components /\ \A d \in Dogs : pc'[d] = "restart" => pc[d] = "restart" /\ at'[d] = at[d]
  BY <1>1 DEF NamesDiffer, RestartsBounded, Tested, Indexes
<1>2. ASSUME NEW n \in Name, watchdog_update_heartbeat(n)
      PROVE  NamesDiffer' /\ RestartsBounded' /\ Tested'
  <2>1. PICK i \in Indexes : components' = [components EXCEPT ![i] = Beaten(components[i])]
    BY <1>2 DEF watchdog_update_heartbeat
  <2> DEFINE c == Beaten(components[i])
  <2>2. /\ c \in Component /\ c.component_name = components[i].component_name
        /\ c.restart_count = components[i].restart_count
    BY EntryType, Written, Fields
  <2> HIDE DEF c
  <2>3. /\ NamesDiffer' /\ RestartsBounded'
        /\ \A j \in Indexes : components'[j].restart_count = components[j].restart_count
    BY <2>1, <2>2, CountKept DEF c
  <2>4. pc' = pc /\ at' = at
    BY <1>2 DEF watchdog_update_heartbeat
  <2>5. QED
    BY <2>3, <2>4 DEF Tested, InPass
<1>3. ASSUME NEW n \in Name, NEW t \in Thread, watchdog_register_component(n, t)
      PROVE  NamesDiffer' /\ RestartsBounded' /\ Tested'
  <2>1. pc' = pc /\ at' = at
    BY <1>3 DEF watchdog_register_component
  <2>2. CASE \E i \in Indexes : IsFirst(i, n) /\ components' = [components EXCEPT ![i] = Entry(n, t)]
    <3>1. PICK i \in Indexes : IsFirst(i, n) /\ components' = [components EXCEPT ![i] = Entry(n, t)]
      BY <2>2
    <3> DEFINE c == Entry(n, t)
    <3>2. c \in Component
      BY <3>1, EntryType, NewEntry DEF IsFirst
    <3>3. c.component_name = components[i].component_name /\ c.restart_count = 0
      BY <3>1 DEF IsFirst, Entry
    <3> HIDE DEF c
    <3>4. NamesDiffer' /\ RestartsBounded'
      <4>1. components' = [components EXCEPT ![i] = c]
        BY <3>1 DEF c
      <4>2. c.restart_count <= max_restart_count
        BY <3>3
      <4>3. QED
        BY <3>1, <3>2, <3>3, <4>1, <4>2, BoundKept DEF IsFirst
    <3>5. \A j \in Indexes : components'[j] = c \/ components'[j] = components[j]
      BY <3>1, <3>2, EntryWritten DEF c
    <3>6. \A j \in Indexes : components'[j].restart_count \in {0, components[j].restart_count}
      BY <3>3, <3>5
    <3>7. QED
      BY <2>1, <3>4, <3>6, EntryType DEF Tested, InPass
  <2>3. CASE ~Known(n) /\ components' = Append(components, Entry(Stored[n], t))
    <3>1. /\ Indexes' = Indexes \cup {Len(components) + 1}
          /\ \A j \in Indexes : components'[j] = components[j]
          /\ components'[Len(components) + 1] = Entry(n, t)
      BY <2>3, NewEntry DEF ShortNames, Indexes, TypeOK
    <3>2. NamesDiffer'
      BY <2>3, <3>1 DEF NamesDiffer, Known, Entry
    <3>3. RestartsBounded'
      <4>1. Entry(n, t).restart_count = 0
        BY DEF Entry
      <4>2. ASSUME NEW j \in Indexes'
            PROVE  components'[j] = Entry(n, t) \/ (j \in Indexes /\ components'[j] = components[j])
        BY <3>1, <4>2
      <4>3. QED
        BY <4>1, <4>2 DEF RestartsBounded
    <3>4. QED
      BY <2>1, <3>1, <3>2, <3>3 DEF Tested, InPass
  <2>4. QED
    BY <1>3, <2>2, <2>3 DEF watchdog_register_component
<1>4. CASE Tick
  <2>1. components' = [i \in Indexes |-> Older(components[i])]
    BY <1>4 DEF Tick
  <2>2. Indexes' = Indexes /\ \A i \in Indexes : components'[i] = Older(components[i])
    BY <2>1 DEF Indexes
  <2>3. \A i \in Indexes : /\ components'[i].restart_count = components[i].restart_count
                            /\ components'[i].component_name = components[i].component_name
    BY <2>2, EntryType, Fields
  <2>4. pc' = pc /\ at' = at
    BY <1>4 DEF Tick
  <2>5. QED
    BY <2>2, <2>3, <2>4 DEF NamesDiffer, RestartsBounded, Tested, InPass
<1>5. ASSUME NEW d \in Dogs, ScanMarks(d)
      PROVE  NamesDiffer' /\ RestartsBounded' /\ Tested'
  <2>1. /\ at[d] \in Indexes
        /\ components' = [components EXCEPT ![at[d]] = [components[at[d]] EXCEPT !.is_healthy = FALSE]]
    BY <1>5 DEF ScanMarks, Found, TypeOK
  <2> DEFINE c == [components[at[d]] EXCEPT !.is_healthy = FALSE]
  <2>2. /\ c \in Component /\ c.component_name = components[at[d]].component_name
        /\ c.restart_count = components[at[d]].restart_count
    BY <2>1, EntryType, Written, Fields
  <2> HIDE DEF c
  <2>3. /\ NamesDiffer' /\ RestartsBounded'
        /\ \A j \in Indexes : components'[j].restart_count = components[j].restart_count
    BY <2>1, <2>2, CountKept DEF c
  <2>4. ASSUME NEW e \in Dogs, pc'[e] = "restart"
        PROVE  components'[at'[e]].restart_count < max_restart_count
    <3>1. e = d /\ pc[d] = "scan"
      BY <1>5 DEF OneDog, ScanMarks
    <3>2. MayRestart(components[at[d]]) /\ at' = at
      BY <1>5, <2>4, <3>1 DEF ScanMarks, GoTo, TypeOK
    <3>3. QED
      BY <2>1, <2>3, <3>1, <3>2 DEF MayRestart
  <2>5. QED
    BY <2>3, <2>4 DEF Tested
<1>6. ASSUME NEW d \in Dogs, Restart(d)
      PROVE  NamesDiffer' /\ RestartsBounded' /\ Tested'
  <2>1. pc[d] = "restart" /\ at[d] \in Indexes /\ components[at[d]].restart_count < max_restart_count
    BY <1>6 DEF Restart, InPass, Tested
  <2>2. PICK i \in Indexes : /\ IsFirst(i, components[at[d]].component_name)
                             /\ components' = [components EXCEPT ![i] = Counted(components[i])]
    BY <1>6 DEF Restart
  <2>3. i = at[d]
    BY <2>1, <2>2, FirstIsOnly
  <2> DEFINE c == Counted(components[i])
  <2>4. /\ c \in Component /\ c.component_name = components[i].component_name
        /\ c.restart_count <= max_restart_count
    <3>1. components[i] \in Component /\ components[i].restart_count \in Nat
      BY <2>2, EntryType
    <3>2. c \in Component /\ c.component_name = components[i].component_name
          /\ c.restart_count = components[i].restart_count + 1
      BY <3>1, Written, Fields
    <3>3. QED
      BY <2>1, <2>3, <3>1, <3>2
  <2> HIDE DEF c
  <2>5. NamesDiffer' /\ RestartsBounded'
    BY <2>1, <2>2, <2>3, <2>4, BoundKept DEF c
  <2>6. \A e \in Dogs : pc'[e] # "restart"
    BY <1>6 DEF OneDog, Restart, GoTo, TypeOK
  <2>7. QED
    BY <2>5, <2>6 DEF Tested
<1>7. ASSUME NEW d \in Dogs, Revive(d)
      PROVE  NamesDiffer' /\ RestartsBounded' /\ Tested'
  <2>1. comp_index[d] \in Indexes
        /\ components' = [components EXCEPT ![comp_index[d]] = Beaten(components[comp_index[d]])]
    BY <1>7 DEF Revive, InPass
  <2> DEFINE c == Beaten(components[comp_index[d]])
  <2>2. /\ c \in Component /\ c.component_name = components[comp_index[d]].component_name
        /\ c.restart_count = components[comp_index[d]].restart_count
    BY <2>1, EntryType, Written, Fields
  <2> HIDE DEF c
  <2>3. NamesDiffer' /\ RestartsBounded'
    BY <2>1, <2>2, CountKept DEF c
  <2>4. \A e \in Dogs : pc'[e] # "restart"
    BY <1>7 DEF OneDog, Revive, GoTo, TypeOK
  <2>5. QED
    BY <2>3, <2>4 DEF Tested
<1>8. ASSUME NEW d \in Dogs, Top(d) \/ Lock(d) \/ ScanNext(d) \/ ScanEnds(d) \/ Wake(d) \/ Cancel(d) \/ Relock(d)
      PROVE  NamesDiffer' /\ RestartsBounded' /\ Tested'
  BY <1>1, <1>8 DEF Top, Lock, ScanNext, ScanEnds, Wake, Cancel, Relock, GoTo, TypeOK
<1>9. CASE CallerNext \/ (\E t \in Thread : Exits(t)) \/ UNCHANGED vars
  BY <1>1, <1>9 DEF CallerNext, CallReturns, StartCalled, StopCalled, Created, CreateFails, JoinReturns,
                    Exits, vars, TypeOK
<1>10. QED
  BY <1>2, <1>3, <1>4, <1>5, <1>6, <1>7, <1>8, <1>9 DEF Next, DogNext

\* With a single watchdog thread and names that strncpy does not cut, no two
\* entries have one name and none is restarted more often than
\* max_restart_count, whatever falls into the gaps in which the loop gives the
\* mutex up (watchdog.c:51-57, 183-225).
THEOREM RestartsStayBounded ==
  ASSUME ShortNames, OneDog
  PROVE  Spec => [](NamesDiffer /\ RestartsBounded)
<1>1. BInv /\ [Next]_vars => BInv'
  BY BoundStep, InvStep DEF BInv
<1>2. QED
  BY <1>1, BoundInit, PTL DEF Spec, BInv

-----------------------------------------------------------------------------
\* Where time_t is wider than unsigned int, a component is marked unhealthy only
\* in a second in which it has been silent for more than two intervals,
\* although restarts may have made current_time old (watchdog.c:42).
THEOREM MarkedIsSilent ==
  ASSUME WideTime
  PROVE  Spec => MarkedWasSilent
<1>1. ASSUME IInv, [Next]_vars, NEW i \in Indexes,
             components[i].is_healthy, ~components'[i].is_healthy
      PROVE  components[i].age > 2 * check_interval
  <2> USE <1>1, Domain, Numbers DEF IInv
  <2>1. ASSUME NEW j \in Indexes, NEW c \in Component, components' = [components EXCEPT ![j] = c], c.is_healthy
        PROVE  FALSE
    BY <2>1, EntryWritten
  <2>2. ASSUME NEW j \in Indexes
        PROVE  Beaten(components[j]) \in Component /\ Beaten(components[j]).is_healthy
    <3>1. components[j] \in Component
      BY EntryType
    <3>2. QED
      BY <3>1, Written DEF Beaten, Component
  <2>3. ASSUME NEW n \in Name, watchdog_update_heartbeat(n) PROVE FALSE
    <3>1. PICK j \in Indexes : components' = [components EXCEPT ![j] = Beaten(components[j])]
      BY <2>3 DEF watchdog_update_heartbeat
    <3>2. QED
      BY <2>1, <2>2, <3>1
  <2>4. ASSUME NEW n \in Name, NEW t \in Thread, watchdog_register_component(n, t) PROVE FALSE
    <3>1. CASE \E j \in Indexes : IsFirst(j, n) /\ components' = [components EXCEPT ![j] = Entry(n, t)]
      <4>1. PICK j \in Indexes : IsFirst(j, n) /\ components' = [components EXCEPT ![j] = Entry(n, t)]
        BY <3>1
      <4>2. Entry(n, t) \in Component
        BY <4>1, EntryType, NewEntry DEF IsFirst
      <4>3. Entry(n, t).is_healthy
        BY DEF Entry
      <4>4. QED
        BY <2>1, <4>1, <4>2, <4>3
    <3>2. CASE components' = Append(components, Entry(Stored[n], t))
      BY <3>2, NewEntry DEF TypeOK
    <3>3. QED
      BY <2>4, <3>1, <3>2 DEF watchdog_register_component
  <2>5. ASSUME Tick PROVE FALSE
    <3>1. components'[i] = Older(components[i])
      BY <2>5 DEF Tick
    <3>2. QED
      BY <3>1, EntryType DEF Older, Component
  <2>6. ASSUME NEW d \in Dogs, ScanMarks(d) PROVE components[i].age > 2 * check_interval
    <3> DEFINE c == [components[at[d]] EXCEPT !.is_healthy = FALSE]
    <3>1. at[d] \in Indexes /\ Silent(components[at[d]], since[d])
      BY <2>6 DEF ScanMarks, Found
    <3>2. components' = [components EXCEPT ![at[d]] = c] /\ c \in Component
      BY <2>6, <3>1, EntryType, Written DEF ScanMarks, TypeOK
    <3>3. i = at[d]
      BY <3>1, <3>2, EntryWritten
    <3>4. since[d] \in Nat /\ components[i].age \in 0 .. AgeCap
      BY EntryType DEF TypeOK, Component
    <3>5. QED
      BY <3>1, <3>3, <3>4 DEF Silent
  <2>7. ASSUME NEW d \in Dogs, Restart(d) PROVE FALSE
    <3>1. PICK j \in Indexes : components' = [components EXCEPT ![j] = Counted(components[j])]
      BY <2>7 DEF Restart
    <3>2. Counted(components[j]) \in Component
          /\ Counted(components[j]).is_healthy = components[j].is_healthy
      BY EntryType, Written DEF Counted, Component
    <3>3. QED
      BY <3>1, <3>2, EntryWritten
  <2>8. ASSUME NEW d \in Dogs, Revive(d) PROVE FALSE
    <3>1. /\ comp_index[d] \in Indexes
          /\ components' = [components EXCEPT ![comp_index[d]] = Beaten(components[comp_index[d]])]
      BY <2>8 DEF Revive, InPass
    <3>2. QED
      BY <2>1, <2>2, <3>1
  <2>9. CASE components' = components
    BY <2>9
  <2>10. ASSUME NEW d \in Dogs, DogNext(d) PROVE components[i].age > 2 * check_interval
    BY <2>6, <2>7, <2>8, <2>9, <2>10 DEF DogNext, Top, Lock, ScanNext, ScanEnds, Wake, Cancel, Relock
  <2>11. CASE CallerNext \/ (\E t \in Thread : Exits(t)) \/ UNCHANGED vars
    BY <2>9, <2>11 DEF CallerNext, CallReturns, StartCalled, StopCalled, Created, CreateFails, JoinReturns,
                       Exits, vars
  <2>12. QED
    BY <2>3, <2>4, <2>5, <2>10, <2>11 DEF Next
<1>2. IInv /\ [Next]_vars => [\A i \in Indexes : components[i].is_healthy /\ ~components'[i].is_healthy
                                => components[i].age > 2 * check_interval]_vars
  BY <1>1
<1>3. QED
  BY <1>2, InvInit, InvStep, PTL DEF Spec, MarkedWasSilent

=============================================================================
