--------------------------- MODULE SqlRead_proofs ---------------------------
(***************************************************************************)
(* Proofs about the reads from SQLite, for every number of devices, rows,  *)
(* places and connections.  IInv is the type and where a read stands; for  *)
(* one reader it is strengthened by where cnt then stands, and which rows  *)
(* the array holds already (Round); for any number of readers by what the  *)
(* reader of a single row has in its hands (OneRead).                      *)
(***************************************************************************)
EXTENDS SqlRead, SequenceTheorems, TLAPS

\* How far a read has come.
InRead ==
  \A r \in Readers :
    /\ called[r] <= Len(rows[r])
    /\ pc[r] \in {"idle", "exec"} => called[r] = 0
    /\ pc[r] = "columns" => called[r] < Len(rows[r])
    /\ pc[r] \in {"load", "store", "wrap"} => called[r] > 0
    /\ pc[r] \in {"columns", "load", "store", "wrap"} => Many(r)
    /\ pc[r] = "reply" => called[r] = Len(rows[r])
    /\ Many(r) /\ pc[r] # "idle" => envdata[r] \in [Places -> Entry]
    /\ Len(rows[r]) <= MAX_SQL_READ

TablesFit == \A d \in Device : Len(table[d]) <= MaxRows

IInv == TypeOK /\ InRead /\ TablesFit

-----------------------------------------------------------------------------
LEMMA Numbers ==
  /\ MAX_SQL_READ \in Nat /\ 1 <= MAX_SQL_READ /\ MAX_SQL_READ <= 254
  /\ 0 \in Places /\ MaxRows \in Nat /\ MaxFiles \in Nat /\ MaxTime \in Nat
  /\ JunkEntry \in Entry /\ JunkArray \in [Places -> Entry]
BY SqlReadAssumption DEF Places, JunkEntry, JunkArray, Entry

\* A query returns so many numbers of rows.
LEMMA QueryType ==
  ASSUME TypeOK, TablesFit, NEW d \in Device, NEW n \in Nat, NEW s \in Query(d, n)
  PROVE  s \in Seq(1 .. MaxRows) /\ Len(s) <= n
<1>1. table[d] \in Seq(0 .. MaxTime) /\ Len(table[d]) <= MaxRows
  BY DEF TypeOK, TablesFit
<1>2. DOMAIN table[d] = 1 .. Len(table[d]) /\ Len(table[d]) \in Nat
  BY <1>1
<1>3. AtMost(n, Len(table[d])) \in Nat /\ AtMost(n, Len(table[d])) <= n
  BY <1>2 DEF AtMost
<1>4. s \in [1 .. AtMost(n, Len(table[d])) -> 1 .. MaxRows]
  BY <1>1, <1>2, Numbers DEF Query
<1> DEFINE m == AtMost(n, Len(table[d]))
<1>5. DOMAIN s = 1 .. m /\ m \in Nat /\ m <= n
  BY <1>3, <1>4
<1>6. s \in Seq(1 .. MaxRows)
  BY <1>3, <1>4, SeqDef
<1>7. DOMAIN s = 1 .. Len(s) /\ Len(s) \in Nat
  BY <1>6, LenProperties
<1>8. QED
  BY <1>5, <1>6, <1>7

LEMMA InvInit == Init => IInv
<1>1. SUFFICES ASSUME Init PROVE IInv
  OBVIOUS
<1>2. TypeOK
  <2>1. ask \in [Readers -> [cmd : {"REQUEST_ONE_SQL", "REQUEST_20_SQL"}, deviceID : Device]]
    BY <1>1 DEF Init
  <2>2. envdata \in [Readers -> [0 .. 0 -> Entry] \cup [Places -> Entry]]
    BY <1>1, Numbers DEF Init
  <2>3. rows \in [Readers -> Seq(1 .. MaxRows)] /\ table \in [Device -> Seq(0 .. MaxTime)]
    BY <1>1 DEF Init
  <2>4. called \in [Readers -> 0 .. MAX_SQL_READ] /\ loaded \in [Readers -> 0 .. 255]
        /\ start \in [Readers -> 0 .. 255] /\ cnt \in 0 .. 255 /\ connections \in 0 .. MaxFiles /\ now \in 0 .. MaxTime
    BY <1>1, Numbers DEF Init
  <2>5. outside \in BOOLEAN /\ full \in BOOLEAN
    BY <1>1 DEF Init
  <2>6. pc \in [Readers -> {"idle", "exec", "row", "columns", "load", "store", "wrap", "reply"}]
    BY <1>1 DEF Init
  <2>7. QED
    BY <1>1, <2>1, <2>2, <2>3, <2>4, <2>5, <2>6, Numbers DEF Init, TypeOK
<1>3. InRead
  BY <1>1, Numbers DEF Init, InRead, Many
<1>4. TablesFit
  BY <1>1, Numbers DEF Init, TablesFit
<1>5. QED
  BY <1>2, <1>3, <1>4 DEF IInv

-----------------------------------------------------------------------------
\* The row being passed to a callback, and what the callbacks make of an entry.
LEMMA RowType ==
  ASSUME IInv, NEW r \in Readers, called[r] < Len(rows[r])
  PROVE  /\ Current(r) \in 1 .. MaxRows
         /\ called[r] + 1 \in 1 .. MAX_SQL_READ /\ called[r] + 1 <= Len(rows[r])
<1>1. called[r] \in Nat /\ rows[r] \in Seq(1 .. MaxRows) /\ Len(rows[r]) <= MAX_SQL_READ
  BY Numbers DEF IInv, TypeOK, InRead
<1>2. Len(rows[r]) \in Nat /\ called[r] + 1 \in 1 .. Len(rows[r])
  BY <1>1, LenProperties
<1>3. Current(r) \in 1 .. MaxRows
  BY <1>1, <1>2, ElementOfSeq DEF Current
<1>4. QED
  BY <1>1, <1>2, <1>3, Numbers

LEMMA EntryFilled ==
  ASSUME NEW e \in Entry, NEW d \in Device, NEW k \in 1 .. MaxRows
  PROVE  [e EXCEPT !.deviceID = d] \in Entry /\ [e EXCEPT !.row = k] \in Entry
         /\ [deviceID |-> d, row |-> k] \in Entry
BY DEF Entry

\* The beginning of a read.
LEMMA BeginType ==
  ASSUME IInv, NEW r \in Readers, (\E d \in Device : AskOne(r, d) \/ AskMany(r, d)) \/ Exec(r)
  PROVE  IInv'
<1> USE Numbers DEF IInv, TypeOK, InRead, TablesFit, memory, Many, GoTo
<1>1. ASSUME NEW d \in Device, AskOne(r, d) PROVE IInv'
  <2>1. PICK left \in {JunkEntry} \cup {envdata[r][i] : i \in DOMAIN envdata[r] \cap
                                     (IF ask[r].cmd = "REQUEST_ONE_SQL" THEN {0} ELSE {})} :
          envdata' = [envdata EXCEPT ![r] = [i \in 0 .. 0 |-> left]]
    BY <1>1 DEF AskOne
  <2>2. left \in Entry
    OBVIOUS
  <2>3. envdata' \in [Readers -> [0 .. 0 -> Entry] \cup [Places -> Entry]]
    BY <2>1, <2>2
  <2>4. QED
    BY <1>1, <2>1, <2>3 DEF AskOne
<1>2. ASSUME NEW d \in Device, AskMany(r, d) PROVE IInv'
  <2>1. PICK array \in {JunkArray, heap} : envdata' = [envdata EXCEPT ![r] = array]
    BY <1>2 DEF AskMany
  <2>2. array \in [Places -> Entry]
    OBVIOUS
  <2>3. envdata' \in [Readers -> [0 .. 0 -> Entry] \cup [Places -> Entry]]
    BY <2>1, <2>2
  <2>4. QED
    BY <1>2, <2>1, <2>2, <2>3 DEF AskMany
<1>3. CASE Exec(r)
  <2>1. PICK s : /\ s = <<>> \/ s \in Query(ask[r].deviceID, IF Many(r) THEN MAX_SQL_READ ELSE 1)
                 /\ rows' = [rows EXCEPT ![r] = s]
                 /\ full' = (full /\ (Many(r) => Len(s) = MAX_SQL_READ))
    BY <1>3 DEF Exec
  <2>2. s \in Seq(1 .. MaxRows) /\ Len(s) <= MAX_SQL_READ
    <3>1. ask[r].deviceID \in Device
      OBVIOUS
    <3>2. CASE s = <<>>
      BY <3>2
    <3>3. CASE s \in Query(ask[r].deviceID, IF Many(r) THEN MAX_SQL_READ ELSE 1)
      <4>1. CASE ask[r].cmd = "REQUEST_20_SQL"
        BY <3>1, <3>3, <4>1, QueryType
      <4>2. CASE ask[r].cmd # "REQUEST_20_SQL"
        <5>1. s \in Query(ask[r].deviceID, 1) /\ 1 \in Nat
          BY <3>3, <4>2
        <5>2. s \in Seq(1 .. MaxRows) /\ Len(s) <= 1
          BY <3>1, <5>1, QueryType
        <5>3. QED
          BY <5>2
      <4>3. QED
        BY <4>1, <4>2
    <3>4. QED
      BY <2>1, <3>2, <3>3
  <2>3. connections' \in 0 .. MaxFiles
    BY <1>3 DEF Exec, AtMost
  <2>4. full' \in BOOLEAN /\ start' \in [Readers -> 0 .. 255] /\ rows' \in [Readers -> Seq(1 .. MaxRows)]
    BY <1>3, <2>1, <2>2 DEF Exec
  <2>5. TypeOK'
    BY <1>3, <2>3, <2>4 DEF Exec
  <2>6. InRead'
    <3>1. Len(s) \in Nat /\ called' = called /\ called[r] = 0 /\ envdata' = envdata /\ ask' = ask
      BY <1>3, <2>2, LenProperties DEF Exec
    <3>2. pc' = [pc EXCEPT ![r] = "row"] /\ pc[r] = "exec"
      BY <1>3 DEF Exec
    <3>3. QED
      BY <2>1, <2>2, <3>1, <3>2
  <2>7. QED
    BY <1>3, <2>5, <2>6 DEF Exec
<1>4. QED
  BY <1>1, <1>2, <1>3

\* The callbacks.
LEMMA FillType ==
  ASSUME IInv, NEW r \in Readers, FillOne(r) \/ FillDeviceID(r) \/ FillColumns(r)
  PROVE  IInv'
<1> USE Numbers DEF IInv, TypeOK, InRead, TablesFit, memory, GoTo, Many
<1>1. Current(r) \in 1 .. MaxRows /\ called[r] + 1 \in 1 .. MAX_SQL_READ
      /\ called[r] + 1 <= Len(rows[r]) /\ ask[r].deviceID \in Device
  BY RowType DEF FillOne, FillDeviceID, FillColumns
<1>2. CASE FillOne(r)
  <2> DEFINE e == [deviceID |-> ask[r].deviceID, row |-> Current(r)]
  <2>1. e \in Entry
    BY <1>1, EntryFilled
  <2>2. envdata' = [envdata EXCEPT ![r] = [i \in 0 .. 0 |-> e]] /\ called' = [called EXCEPT ![r] = called[r] + 1]
    BY <1>2 DEF FillOne
  <2> HIDE DEF e
  <2>3. envdata' \in [Readers -> [0 .. 0 -> Entry] \cup [Places -> Entry]]
    BY <2>1, <2>2
  <2>4. called' \in [Readers -> 0 .. MAX_SQL_READ] /\ called[r] + 1 > 0
    BY <1>1, <2>2
  <2>5. TypeOK'
    BY <1>2, <2>3, <2>4 DEF FillOne
  <2>6. InRead'
    BY <1>1, <1>2, <2>2, <2>4 DEF FillOne
  <2>7. QED
    BY <1>2, <2>5, <2>6 DEF FillOne
<1>3. CASE FillDeviceID(r)
  <2>1. CASE cnt \in Places
    <3>1. envdata[r] \in [Places -> Entry]
      BY <1>3 DEF FillDeviceID
    <3>2. [envdata[r][cnt] EXCEPT !.deviceID = ask[r].deviceID] \in Entry
      BY <1>1, <2>1, <3>1, EntryFilled
    <3>3. envdata' = [envdata EXCEPT ![r] = [envdata[r] EXCEPT ![cnt] =
                        [envdata[r][cnt] EXCEPT !.deviceID = ask[r].deviceID]]]
      BY <1>3, <2>1 DEF FillDeviceID
    <3>4. envdata'[r] \in [Places -> Entry]
          /\ envdata' \in [Readers -> [0 .. 0 -> Entry] \cup [Places -> Entry]]
      BY <3>1, <3>2, <3>3
    <3>5. QED
      BY <1>3, <3>3, <3>4 DEF FillDeviceID
  <2>2. CASE cnt \notin Places
    BY <1>3, <2>2 DEF FillDeviceID
  <2>3. QED
    BY <2>1, <2>2
<1>4. CASE FillColumns(r)
  <2>0. /\ called' = [called EXCEPT ![r] = called[r] + 1]
        /\ called' \in [Readers -> 0 .. MAX_SQL_READ]
        /\ \A s \in Readers : called'[s] <= Len(rows[s])
        /\ called'[r] > 0
    BY <1>1, <1>4 DEF FillColumns
  <2>1. CASE cnt \in Places
    <3>1. envdata[r] \in [Places -> Entry]
      BY <1>4 DEF FillColumns
    <3>2. [envdata[r][cnt] EXCEPT !.row = Current(r)] \in Entry
      BY <1>1, <2>1, <3>1, EntryFilled
    <3>3. envdata' = [envdata EXCEPT ![r] = [envdata[r] EXCEPT ![cnt] =
                        [envdata[r][cnt] EXCEPT !.row = Current(r)]]]
      BY <1>4, <2>1 DEF FillColumns
    <3>4. envdata'[r] \in [Places -> Entry]
          /\ envdata' \in [Readers -> [0 .. 0 -> Entry] \cup [Places -> Entry]]
      BY <3>1, <3>2, <3>3
    <3>5. QED
      BY <2>0, <1>4, <3>3, <3>4 DEF FillColumns
  <2>2. CASE cnt \notin Places
    BY <2>0, <1>4, <2>2 DEF FillColumns
  <2>3. QED
    BY <2>1, <2>2
<1>5. QED
  BY <1>2, <1>3, <1>4

\* cnt is a uint8_t.
LEMMA Wide == ASSUME NEW x \in 0 .. 255 PROVE (x + 1) % 256 \in 0 .. 255
OBVIOUS

\* The counter, and the end of a read.
LEMMA CountType ==
  ASSUME IInv, NEW r \in Readers,
         LoadCnt(r) \/ StoreCnt(r) \/ WrapCnt(r) \/ ExecReturns(r) \/ Reply(r)
  PROVE  IInv'
<1> USE Numbers DEF IInv, TypeOK, InRead, TablesFit, memory, GoTo, Many
<1>1. CASE LoadCnt(r)
  BY <1>1 DEF LoadCnt
<1>2. CASE StoreCnt(r)
  <2>1. loaded[r] \in 0 .. 255 /\ cnt' = (loaded[r] + 1) % 256
    BY <1>2 DEF StoreCnt
  <2>2. cnt' \in 0 .. 255 /\ loaded' \in [Readers -> 0 .. 255]
    <3>1. (loaded[r] + 1) % 256 \in 0 .. 255
      BY <2>1, Wide
    <3>2. loaded' = [loaded EXCEPT ![r] = 0]
      BY <1>2 DEF StoreCnt
    <3>3. QED
      BY <2>1, <3>1, <3>2
  <2>3. TypeOK'
    BY <1>2, <2>2 DEF StoreCnt
  <2>4. InRead'
    BY <1>2 DEF StoreCnt
  <2>5. QED
    BY <1>2, <2>3, <2>4 DEF StoreCnt
<1>3. CASE WrapCnt(r)
  <2>1. cnt' \in 0 .. 255
    BY <1>3 DEF WrapCnt
  <2>2. TypeOK'
    BY <1>3, <2>1 DEF WrapCnt
  <2>3. InRead'
    BY <1>3 DEF WrapCnt
  <2>4. QED
    BY <1>3, <2>2, <2>3 DEF WrapCnt
<1>4. CASE ExecReturns(r)
  BY <1>4 DEF ExecReturns
<1>5. CASE Reply(r)
  <2>1. heap' \in [Places -> Entry]
    BY <1>5 DEF Reply
  <2>2. /\ called' \in [Readers -> 0 .. MAX_SQL_READ] /\ start' \in [Readers -> 0 .. 255]
        /\ rows' \in [Readers -> Seq(1 .. MaxRows)]
    BY <1>5, EmptySeq DEF Reply
  <2>5. TypeOK'
    BY <1>5, <2>1, <2>2 DEF Reply
  <2>3. InRead'
    BY <1>5 DEF Reply
  <2>4. QED
    BY <1>5, <2>3, <2>5 DEF Reply
<1>6. QED
  BY <1>1, <1>2, <1>3, <1>4, <1>5

LEMMA InvStep == IInv /\ [Next]_vars => IInv'
<1>1. SUFFICES ASSUME IInv, [Next]_vars PROVE IInv'
  OBVIOUS
<1> USE <1>1
<1>2. CASE UNCHANGED vars
  BY <1>2 DEF IInv, TypeOK, InRead, TablesFit, Many, vars, memory, readVars
<1>3. ASSUME NEW d \in Device, Insert(d) PROVE IInv'
  <2>1. Append(table[d], now) \in Seq(0 .. MaxTime) /\ Len(Append(table[d], now)) <= MaxRows
    BY <1>3, Numbers DEF Insert, IInv, TypeOK
  <2>2. QED
    BY <1>3, <2>1 DEF Insert, IInv, TypeOK, InRead, TablesFit, Many, memory, readVars
<1>4. CASE Tick
  BY <1>4, Numbers DEF Tick, IInv, TypeOK, InRead, TablesFit, Many, memory, readVars
<1>5. ASSUME NEW r \in Readers, ReadNext(r) PROVE IInv'
  BY <1>5, BeginType, FillType, CountType DEF ReadNext
<1>6. QED
  BY <1>2, <1>3, <1>4, <1>5 DEF Next

\* The variables keep their types, whatever cnt does (pthread_sql.c:38-80,
\* pthread_socket.c:139-207).
THEOREM TypeCorrect == Spec => []TypeOK
BY InvInit, InvStep, PTL DEF Spec, IInv

-----------------------------------------------------------------------------
(* One reader.                                                             *)

OneReader == \A r, s \in Readers : r = s

\* k places on from s.
Place(s, k) == (s + k) % MAX_SQL_READ

\* The rows that were copied, and where cnt stands, at each step of a read of
\* many rows that began with cnt = start.
Round ==
  \A r \in Readers :
    /\ pc[r] # "wrap" => cnt \in Places
    /\ pc[r] = "store" => loaded[r] = cnt
    /\ full /\ pc[r] \in {"idle", "exec"} => cnt = 0
    /\ full /\ ~Many(r) => cnt = 0
    /\ Many(r) /\ pc[r] \notin {"idle", "exec"} =>
         /\ start[r] \in Places
         /\ full => start[r] = 0 /\ Len(rows[r]) = MAX_SQL_READ
         /\ \A i \in 1 .. called[r] : envdata[r][Place(start[r], i - 1)] = EntryOf(r, i)
         /\ pc[r] \in {"row", "columns", "reply"} => cnt = Place(start[r], called[r])
         /\ pc[r] = "columns" => envdata[r][cnt].deviceID = ask[r].deviceID
         /\ pc[r] \in {"load", "store"} => cnt = Place(start[r], called[r] - 1)
         /\ pc[r] = "wrap" => cnt = Place(start[r], called[r] - 1) + 1

RInv == IInv /\ InBounds /\ Round

\* A place without the modulus.
LEMMA PlaceCases ==
  ASSUME NEW s \in Places, NEW k \in 0 .. MAX_SQL_READ
  PROVE  /\ Place(s, k) = IF s + k < MAX_SQL_READ THEN s + k ELSE s + k - MAX_SQL_READ
         /\ Place(s, k) \in Places
BY Numbers DEF Place, Places

\* Fewer than MAX_SQL_READ apart, places differ; counting MAX_SQL_READ of them is
\* once round.
LEMMA PlacesDiffer ==
  ASSUME NEW s \in Places, NEW j \in 0 .. MAX_SQL_READ - 1, NEW k \in 0 .. MAX_SQL_READ - 1, j # k
  PROVE  Place(s, j) # Place(s, k)
<1>1. /\ Place(s, j) = IF s + j < MAX_SQL_READ THEN s + j ELSE s + j - MAX_SQL_READ
      /\ Place(s, k) = IF s + k < MAX_SQL_READ THEN s + k ELSE s + k - MAX_SQL_READ
  BY PlaceCases, Numbers
<1>2. QED
  BY <1>1, Numbers DEF Places

LEMMA PlaceRound == ASSUME NEW s \in Places PROVE Place(s, 0) = s /\ Place(s, MAX_SQL_READ) = s
<1>1. 0 \in 0 .. MAX_SQL_READ /\ MAX_SQL_READ \in 0 .. MAX_SQL_READ
  BY Numbers
<1>2. Place(s, 0) = IF s + 0 < MAX_SQL_READ THEN s + 0 ELSE s + 0 - MAX_SQL_READ
  BY <1>1, PlaceCases
<1>3. Place(s, MAX_SQL_READ) = IF s + MAX_SQL_READ < MAX_SQL_READ THEN s + MAX_SQL_READ
                                                                  ELSE s + MAX_SQL_READ - MAX_SQL_READ
  BY <1>1, PlaceCases
<1>4. QED
  BY <1>2, <1>3, Numbers DEF Places

\* What WrapCnt makes of the place after the last one used.
LEMMA PlaceNext ==
  ASSUME NEW s \in Places, NEW k \in 1 .. MAX_SQL_READ
  PROVE  Place(s, k) = IF Place(s, k - 1) + 1 >= MAX_SQL_READ THEN 0 ELSE Place(s, k - 1) + 1
<1>1. k - 1 \in 0 .. MAX_SQL_READ /\ k \in 0 .. MAX_SQL_READ
  BY Numbers
<1>2. /\ Place(s, k) = IF s + k < MAX_SQL_READ THEN s + k ELSE s + k - MAX_SQL_READ
      /\ Place(s, k - 1) = IF s + (k - 1) < MAX_SQL_READ THEN s + (k - 1) ELSE s + (k - 1) - MAX_SQL_READ
  BY <1>1, PlaceCases
<1>3. CASE s + k < MAX_SQL_READ
  BY <1>2, <1>3, Numbers DEF Places
<1>4. CASE s + k >= MAX_SQL_READ
  BY <1>2, <1>4, Numbers DEF Places
<1>5. QED
  BY <1>3, <1>4, Numbers DEF Places

LEMMA RoundInit == Init => RInv
<1>1. SUFFICES ASSUME Init PROVE Round /\ InBounds
  BY InvInit DEF RInv
<1>2. QED
  BY <1>1, Numbers DEF Init, Round, InBounds, Many

\* What has been copied survives the copy into the next place.
LEMMA CopyKeeps ==
  ASSUME RInv, NEW r \in Readers, Many(r), pc[r] \in {"row", "columns"}, NEW e,
         envdata' = [envdata EXCEPT ![r] = [envdata[r] EXCEPT ![cnt] = e]],
         called[r] < Len(rows[r])
  PROVE  /\ envdata[r] \in [Places -> Entry] /\ cnt \in Places /\ cnt = Place(start[r], called[r])
         /\ envdata'[r][cnt] = e
         /\ \A i \in 1 .. called[r] : envdata'[r][Place(start[r], i - 1)] = EntryOf(r, i)
<1>1. /\ envdata \in [Readers -> [0 .. 0 -> Entry] \cup [Places -> Entry]]
      /\ envdata[r] \in [Places -> Entry] /\ called[r] \in Nat /\ Len(rows[r]) <= MAX_SQL_READ
      /\ Len(rows[r]) \in Nat
  BY LenProperties DEF RInv, IInv, TypeOK, InRead
<1>2. /\ cnt \in Places /\ cnt = Place(start[r], called[r]) /\ start[r] \in Places
      /\ \A i \in 1 .. called[r] : envdata[r][Place(start[r], i - 1)] = EntryOf(r, i)
  BY DEF RInv, Round
<1>3. envdata'[r] = [envdata[r] EXCEPT ![cnt] = e]
  BY <1>1
<1>4. ASSUME NEW i \in 1 .. called[r]
      PROVE  envdata'[r][Place(start[r], i - 1)] = EntryOf(r, i)
  <2>1. i - 1 \in 0 .. MAX_SQL_READ - 1 /\ called[r] \in 0 .. MAX_SQL_READ - 1 /\ i - 1 # called[r]
        /\ i - 1 \in 0 .. MAX_SQL_READ
    BY <1>1, <1>4, Numbers
  <2>2. Place(start[r], i - 1) # cnt /\ Place(start[r], i - 1) \in Places
    BY <1>2, <2>1, PlacesDiffer, PlaceCases
  <2>3. QED
    BY <1>1, <1>2, <1>3, <2>2
<1>5. QED
  BY <1>1, <1>2, <1>3, <1>4

LEMMA RoundStep ==
  ASSUME OneReader, RInv, [Next]_vars
  PROVE  InBounds' /\ Round'
<1> USE Numbers DEF RInv, OneReader
<1>1. /\ pc \in [Readers -> {"idle", "exec", "row", "columns", "load", "store", "wrap", "reply"}]
      /\ called \in [Readers -> 0 .. MAX_SQL_READ] /\ loaded \in [Readers -> 0 .. 255]
      /\ start \in [Readers -> 0 .. 255] /\ rows \in [Readers -> Seq(1 .. MaxRows)]
      /\ envdata \in [Readers -> [0 .. 0 -> Entry] \cup [Places -> Entry]]
      /\ cnt \in 0 .. 255 /\ full \in BOOLEAN
      /\ ask \in [Readers -> [cmd : {"REQUEST_ONE_SQL", "REQUEST_20_SQL"}, deviceID : Device]]
  BY DEF IInv, TypeOK
<1>2. CASE (\E d \in Device : Insert(d)) \/ Tick \/ UNCHANGED vars
  BY <1>2 DEF Insert, Tick, vars, memory, readVars, InBounds, Round, Many, EntryOf
<1>3. ASSUME NEW r \in Readers, NEW d \in Device, AskOne(r, d) \/ AskMany(r, d)
      PROVE  InBounds' /\ Round'
  <2>1. /\ pc[r] = "idle" /\ pc' = [pc EXCEPT ![r] = "exec"] /\ cnt' = cnt /\ full' = full /\ outside' = outside
    BY <1>3 DEF AskOne, AskMany, memory, GoTo
  <2>2. \A s \in Readers : s = r /\ pc'[s] = "exec"
    BY <1>1, <2>1
  <2>3. cnt \in Places /\ (full => cnt = 0)
    BY <2>1 DEF Round
  <2>4. QED
    BY <2>1, <2>2, <2>3 DEF InBounds, Round
<1>4. ASSUME NEW r \in Readers, Exec(r) PROVE InBounds' /\ Round'
  <2>1. PICK s : /\ rows' = [rows EXCEPT ![r] = s]
                 /\ full' = (full /\ (Many(r) => Len(s) = MAX_SQL_READ))
    BY <1>4 DEF Exec
  <2>2. /\ pc[r] = "exec" /\ pc' = [pc EXCEPT ![r] = "row"] /\ cnt' = cnt /\ outside' = outside
        /\ start' = [start EXCEPT ![r] = cnt] /\ called' = called /\ ask' = ask /\ envdata' = envdata
    BY <1>4 DEF Exec, GoTo
  <2>3. called[r] = 0 /\ cnt \in Places /\ (full => cnt = 0)
    BY <2>2 DEF Round, IInv, InRead
  <2>4. cnt = Place(cnt, 0)
    BY <2>3, PlaceRound
  <2>5. Many(r)' = Many(r)
    BY <2>2 DEF Many
  <2>6. \A t \in Readers : t = r /\ pc'[t] = "row"
    BY <1>1, <2>2
  <2>7. start'[r] = cnt /\ rows'[r] = s /\ 1 .. called'[r] = {}
    BY <1>1, <2>1, <2>2, <2>3
  <2>8. QED
    BY <2>1, <2>2, <2>3, <2>4, <2>5, <2>6, <2>7 DEF InBounds, Round
<1>5. ASSUME NEW r \in Readers, FillOne(r) PROVE InBounds' /\ Round'
  BY <1>1, <1>5 DEF FillOne, memory, InBounds, Round, Many
<1>6. ASSUME NEW r \in Readers, FillDeviceID(r) PROVE InBounds' /\ Round'
  <2> DEFINE e == [envdata[r][cnt] EXCEPT !.deviceID = ask[r].deviceID]
  <2>1. Many(r) /\ pc[r] = "row" /\ called[r] < Len(rows[r]) /\ cnt \in Places
    BY <1>6 DEF FillDeviceID, Round
  <2>2. envdata' = [envdata EXCEPT ![r] = [envdata[r] EXCEPT ![cnt] = e]]
        /\ UNCHANGED <<cnt, outside, full, ask, rows, called, loaded, start>>
        /\ pc' = [pc EXCEPT ![r] = "columns"]
    BY <1>6, <2>1 DEF FillDeviceID, GoTo
  <2>3. /\ envdata[r] \in [Places -> Entry] /\ cnt = Place(start[r], called[r]) /\ envdata'[r][cnt] = e
        /\ \A i \in 1 .. called[r] : envdata'[r][Place(start[r], i - 1)] = EntryOf(r, i)
    BY <2>1, <2>2, CopyKeeps
  <2>4. e.deviceID = ask[r].deviceID
    BY <2>1, <2>3 DEF Entry
  <2>5. \A t \in Readers : t = r /\ pc'[t] = "columns"
    BY <1>1, <2>2
  <2>6. /\ start[r] \in Places /\ (full => start[r] = 0 /\ Len(rows[r]) = MAX_SQL_READ)
    BY <2>1 DEF Round
  <2>7. Many(r)' /\ \A i : EntryOf(r, i)' = EntryOf(r, i)
    BY <2>1, <2>2 DEF Many, EntryOf
  <2>8. ~outside'
    BY <2>2 DEF InBounds
  <2> HIDE DEF e
  <2>9. Round'
    <3>1. envdata'[r][cnt'].deviceID = ask'[r].deviceID /\ cnt' = Place(start'[r], called'[r])
          /\ cnt' \in Places
      BY <2>1, <2>2, <2>3, <2>4
    <3>2. \A i \in 1 .. called'[r] : envdata'[r][Place(start'[r], i - 1)] = EntryOf(r, i)'
      BY <2>2, <2>3, <2>7
    <3>3. start'[r] \in Places /\ (full' => start'[r] = 0 /\ Len(rows'[r]) = MAX_SQL_READ)
      BY <2>2, <2>6
    <3>4. QED
      BY <2>5, <2>7, <3>1, <3>2, <3>3 DEF Round
  <2>10. QED
    BY <2>8, <2>9 DEF InBounds
<1>7. ASSUME NEW r \in Readers, FillColumns(r) PROVE InBounds' /\ Round'
  <2> DEFINE e == [envdata[r][cnt] EXCEPT !.row = Current(r)]
  <2>1. Many(r) /\ pc[r] = "columns" /\ called[r] < Len(rows[r]) /\ cnt \in Places
        /\ envdata[r][cnt].deviceID = ask[r].deviceID
    BY <1>7 DEF FillColumns, Round, IInv, InRead
  <2>2. envdata' = [envdata EXCEPT ![r] = [envdata[r] EXCEPT ![cnt] = e]]
        /\ UNCHANGED <<cnt, outside, full, ask, rows, loaded, start>>
        /\ called' = [called EXCEPT ![r] = called[r] + 1]
        /\ pc' = [pc EXCEPT ![r] = "load"]
    BY <1>7, <2>1 DEF FillColumns, GoTo
  <2>3. /\ envdata[r] \in [Places -> Entry] /\ cnt = Place(start[r], called[r]) /\ envdata'[r][cnt] = e
        /\ \A i \in 1 .. called[r] : envdata'[r][Place(start[r], i - 1)] = EntryOf(r, i)
    BY <2>1, <2>2, CopyKeeps
  <2>4. e = EntryOf(r, called[r] + 1)
    <3>1. envdata[r][cnt] \in Entry
      BY <2>1, <2>3
    <3>2. QED
      BY <2>1, <3>1 DEF Entry, EntryOf, Current
  <2>5. called[r] \in Nat /\ called'[r] = called[r] + 1 /\ (called[r] + 1) - 1 = called[r]
    BY <1>1, <2>2
  <2>6. \A i \in 1 .. called'[r] : envdata'[r][Place(start[r], i - 1)] = EntryOf(r, i)
    <3>1. ASSUME NEW i \in 1 .. called[r] + 1 PROVE envdata'[r][Place(start[r], i - 1)] = EntryOf(r, i)
      <4>1. CASE i = called[r] + 1
        BY <2>3, <2>4, <2>5, <4>1
      <4>2. CASE i \in 1 .. called[r]
        BY <2>3, <4>2
      <4>3. QED
        BY <2>5, <4>1, <4>2
    <3>2. QED
      BY <2>5, <3>1
  <2>7. \A t \in Readers : t = r /\ pc'[t] = "load"
    BY <1>1, <2>2
  <2>8. /\ start[r] \in Places /\ (full => start[r] = 0 /\ Len(rows[r]) = MAX_SQL_READ)
    BY <2>1 DEF Round
  <2>9. EntryOf(r, 1)' = EntryOf(r, 1) /\ \A i \in Nat : EntryOf(r, i)' = EntryOf(r, i)
    BY <2>2 DEF EntryOf
  <2>10. QED
    BY <2>1, <2>2, <2>3, <2>5, <2>6, <2>7, <2>8, <2>9 DEF InBounds, Round, Many, EntryOf
<1>8. ASSUME NEW r \in Readers, LoadCnt(r) PROVE InBounds' /\ Round'
  <2>1. Many(r)
    BY <1>8 DEF LoadCnt, IInv, InRead
  <2>2. QED
    BY <1>1, <1>8, <2>1 DEF LoadCnt, GoTo, memory, InBounds, Round, Many, EntryOf
<1>9. ASSUME NEW r \in Readers, StoreCnt(r) PROVE InBounds' /\ Round'
  <2>1. Many(r) /\ pc[r] = "store"
    BY <1>9 DEF StoreCnt, IInv, InRead
  <2>2. cnt \in 0 .. 253 /\ loaded[r] = cnt
    <3>1. cnt \in Places /\ loaded[r] = cnt
      BY <2>1 DEF Round
    <3>2. QED
      BY <3>1 DEF Places
  <2>3. cnt' = cnt + 1
    BY <1>9, <2>2 DEF StoreCnt
  <2>4. QED
    BY <1>1, <1>9, <2>1, <2>3 DEF StoreCnt, GoTo, InBounds, Round, Many, EntryOf
<1>10. ASSUME NEW r \in Readers, WrapCnt(r) PROVE InBounds' /\ Round'
  <2>1. Many(r) /\ pc[r] = "wrap" /\ called[r] > 0 /\ called[r] \in 1 .. MAX_SQL_READ
    BY <1>1, <1>10 DEF WrapCnt, IInv, InRead
  <2>2. start[r] \in Places /\ cnt = Place(start[r], called[r] - 1) + 1
    BY <2>1 DEF Round
  <2>3. cnt' = Place(start[r], called[r])
    BY <1>10, <2>1, <2>2, PlaceNext DEF WrapCnt
  <2>4. cnt' \in Places
    <3>1. called[r] \in 0 .. MAX_SQL_READ
      BY <2>1
    <3>2. QED
      BY <2>2, <2>3, <3>1, PlaceCases
  <2>5. /\ pc' = [pc EXCEPT ![r] = "row"]
        /\ UNCHANGED <<outside, full, ask, envdata, rows, called, loaded, start>>
    BY <1>10 DEF WrapCnt, GoTo
  <2>6. Many(r)' /\ \A i : EntryOf(r, i)' = EntryOf(r, i)
    BY <2>1, <2>5 DEF Many, EntryOf
  <2>7. \A t \in Readers : t = r /\ pc'[t] = "row"
    BY <1>1, <2>5
  <2>8. Round'
    BY <2>1, <2>3, <2>4, <2>5, <2>6, <2>7 DEF Round
  <2>9. QED
    BY <2>5, <2>8 DEF InBounds
<1>11. ASSUME NEW r \in Readers, ExecReturns(r) PROVE InBounds' /\ Round'
  BY <1>1, <1>11 DEF ExecReturns, GoTo, memory, InBounds, Round, Many, EntryOf
<1>12. ASSUME NEW r \in Readers, Reply(r) PROVE InBounds' /\ Round'
  <2>1. pc[r] = "reply" /\ called[r] = Len(rows[r]) /\ pc' = [pc EXCEPT ![r] = "idle"]
        /\ UNCHANGED <<cnt, full, outside>> /\ cnt \in Places
    BY <1>12 DEF Reply, GoTo, IInv, InRead, Round
  <2>2. full => cnt = 0
    <3>1. CASE full /\ Many(r)
      <4>1. start[r] \in Places /\ start[r] = 0 /\ cnt = Place(start[r], MAX_SQL_READ)
        BY <2>1, <3>1 DEF Round
      <4>2. QED
        BY <4>1, PlaceRound
    <3>2. CASE full /\ ~Many(r)
      BY <3>2 DEF Round
    <3>3. QED
      BY <3>1, <3>2
  <2>3. \A t \in Readers : t = r /\ pc'[t] = "idle"
    BY <1>1, <2>1
  <2>4. QED
    BY <2>1, <2>2, <2>3 DEF InBounds, Round
<1>13. QED
  BY <1>2, <1>3, <1>4, <1>5, <1>6, <1>7, <1>8, <1>9, <1>10, <1>11, <1>12 DEF Next, ReadNext

LEMMA RoundHolds == ASSUME OneReader PROVE Spec => []RInv
<1>1. RInv /\ [Next]_vars => RInv'
  BY RoundStep, InvStep DEF RInv
<1>2. QED
  BY <1>1, RoundInit, PTL DEF Spec

\* A single reader stays inside its array wherever earlier reads left cnt, in
\* every sequence of reads and inserts (pthread_sql.c:45, 77).
THEOREM OneReaderInBounds == ASSUME OneReader PROVE Spec => []InBounds
BY RoundHolds, PTL DEF RInv

\* Its answer holds every row that the query found, whole, one after the other
\* round the array from where cnt stood (pthread_sql.c:76-77).
THEOREM OneReaderGoesRound == ASSUME OneReader PROVE Spec => []RowsGoRound
<1>1. ASSUME RInv, NEW r \in Readers, pc[r] = "reply", Many(r), NEW i \in DOMAIN rows[r]
      PROVE  envdata[r][(start[r] + i - 1) % MAX_SQL_READ] = EntryOf(r, i)
  <2>1. rows[r] \in Seq(1 .. MaxRows) /\ called[r] = Len(rows[r])
    BY <1>1 DEF RInv, IInv, TypeOK, InRead
  <2>2. i \in 1 .. called[r] /\ i \in Nat
    BY <2>1, LenProperties
  <2>3. start[r] \in Nat /\ envdata[r][Place(start[r], i - 1)] = EntryOf(r, i)
    BY <1>1, <2>2 DEF RInv, Round, Places
  <2>4. start[r] + (i - 1) = start[r] + i - 1
    BY <2>2, <2>3
  <2>5. QED
    BY <2>3, <2>4 DEF Place
<1>2. RInv => RowsGoRound
  BY <1>1 DEF RowsGoRound
<1>3. QED
  BY <1>2, RoundHolds, PTL

\* As long as every query for many rows found MAX_SQL_READ, cnt is back at 0 after
\* each, and an answer is the query's rows in their order (pthread_sql.c:88).
THEOREM FullReadsInOrder == ASSUME OneReader PROVE Spec => []FullReadsAreExact
<1>1. ASSUME RInv, NEW r \in Readers, pc[r] = "reply", Many(r), full, NEW i \in 1 .. MAX_SQL_READ
      PROVE  envdata[r][i - 1] = EntryOf(r, i)
  <2>1. called[r] = Len(rows[r]) /\ Len(rows[r]) = MAX_SQL_READ /\ start[r] = 0
    BY <1>1 DEF RInv, IInv, InRead, Round
  <2>2. envdata[r][Place(0, i - 1)] = EntryOf(r, i)
    BY <1>1, <2>1 DEF RInv, Round
  <2>3. i - 1 \in 0 .. MAX_SQL_READ /\ 0 + (i - 1) < MAX_SQL_READ /\ 0 + (i - 1) = i - 1
    BY Numbers
  <2>4. Place(0, i - 1) = i - 1
    <3>1. Place(0, i - 1) = IF 0 + (i - 1) < MAX_SQL_READ THEN 0 + (i - 1) ELSE 0 + (i - 1) - MAX_SQL_READ
      BY <2>3, PlaceCases, Numbers
    <3>2. QED
      BY <2>3, <3>1
  <2>5. QED
    BY <2>2, <2>4
<1>2. RInv => FullReadsAreExact
  BY <1>1 DEF FullReadsAreExact
<1>3. QED
  BY <1>2, RoundHolds, PTL

-----------------------------------------------------------------------------
(* The latest row, for any number of readers.                              *)

\* A worker that reads one row, and whose query found a descriptor, has what the
\* query may return, and its variable the row once the callback ran.
HasOne(r) ==
  /\ rows[r] \in Query(ask[r].deviceID, 1)
  /\ called[r] > 0 => called[r] = 1 /\ envdata[r][0] = EntryOf(r, 1)

OneRead ==
  \A r \in Readers : ~Many(r) /\ connections < MaxFiles /\ pc[r] \in {"row", "reply"} => HasOne(r)

OInv == IInv /\ OneRead

\* A step that leaves a reader alone; the table changes only when all are idle, and
\* connections are never closed.
Alone(r) ==
  /\ pc'[r] = pc[r] /\ ask'[r] = ask[r] /\ rows'[r] = rows[r]
  /\ called'[r] = called[r] /\ envdata'[r] = envdata[r]
  /\ pc[r] # "idle" => table' = table
  /\ connections <= connections'

LEMMA OneReadKept ==
  ASSUME OInv, NEW r \in Readers, Alone(r), ~Many(r)', connections' < MaxFiles, connections' \in Nat,
         pc'[r] \in {"row", "reply"}
  PROVE  HasOne(r)'
<1>1. ~Many(r) /\ pc[r] \in {"row", "reply"} /\ table' = table /\ connections < MaxFiles
  BY Numbers DEF OInv, IInv, TypeOK, Alone, Many
<1>2. HasOne(r)
  BY <1>1 DEF OInv, OneRead
<1>3. QED
  BY <1>1, <1>2 DEF HasOne, Alone, Query, EntryOf

\* The readers are independent of each other.
LEMMA OthersAlone ==
  ASSUME IInv, NEW q \in Readers, ReadNext(q), NEW r \in Readers, q # r
  PROVE  Alone(r) /\ table' = table
<1>1. connections \in 0 .. MaxFiles /\ DOMAIN ask = Readers /\ DOMAIN rows = Readers
      /\ DOMAIN called = Readers /\ DOMAIN envdata = Readers /\ DOMAIN pc = Readers
  BY DEF IInv, TypeOK
<1> USE <1>1, Numbers DEF memory, GoTo, Alone
<1>2. ASSUME NEW d \in Device, AskOne(q, d) \/ AskMany(q, d) PROVE Alone(r) /\ table' = table
  BY <1>2 DEF AskOne, AskMany
<1>3. CASE Exec(q)
  <2>1. connections <= connections'
    BY <1>3 DEF Exec, AtMost
  <2>2. QED
    BY <1>3, <2>1 DEF Exec
<1>4. CASE FillOne(q) \/ FillDeviceID(q) \/ FillColumns(q)
  BY <1>4 DEF FillOne, FillDeviceID, FillColumns
<1>5. CASE LoadCnt(q) \/ StoreCnt(q) \/ WrapCnt(q)
  BY <1>5 DEF LoadCnt, StoreCnt, WrapCnt
<1>6. CASE ExecReturns(q) \/ Reply(q)
  BY <1>6 DEF ExecReturns, Reply
<1>7. QED
  BY <1>2, <1>3, <1>4, <1>5, <1>6 DEF ReadNext

\* The reader's own step.
LEMMA OneReadOwn ==
  ASSUME OInv, NEW r \in Readers, ReadNext(r), ~Many(r)', connections' < MaxFiles,
         pc'[r] \in {"row", "reply"}
  PROVE  HasOne(r)'
<1>1. /\ pc \in [Readers -> {"idle", "exec", "row", "columns", "load", "store", "wrap", "reply"}]
      /\ DOMAIN ask = Readers /\ DOMAIN rows = Readers
      /\ called \in [Readers -> 0 .. MAX_SQL_READ] /\ DOMAIN envdata = Readers
  BY DEF OInv, IInv, TypeOK
<1> USE <1>1, Numbers DEF GoTo, memory
<1>2. ASSUME NEW d \in Device, AskOne(r, d) \/ AskMany(r, d) PROVE FALSE
  BY <1>2 DEF AskOne, AskMany
<1>3. CASE Exec(r)
  <2>1. ask' = ask /\ table' = table /\ called' = called /\ pc[r] = "exec"
    BY <1>3 DEF Exec
  <2>2. ~Many(r) /\ connections' = connections
    BY <1>3, <2>1 DEF Exec, Many
  <2>3. rows'[r] \in Query(ask[r].deviceID, 1)
    BY <1>3, <2>2 DEF Exec
  <2>4. called[r] = 0
    BY <2>1 DEF OInv, IInv, InRead
  <2>5. QED
    BY <2>1, <2>3, <2>4 DEF HasOne, Query
<1>4. CASE FillOne(r)
  <2>1. /\ ~Many(r) /\ pc[r] = "row" /\ called[r] < Len(rows[r])
        /\ UNCHANGED <<table, connections, ask, rows>>
    BY <1>4 DEF FillOne
  <2>2. rows[r] \in Query(ask[r].deviceID, 1) /\ ask[r].deviceID \in Device
    BY <2>1 DEF OInv, OneRead, HasOne, IInv, TypeOK
  <2>3. rows[r] \in Seq(1 .. MaxRows) /\ Len(rows[r]) <= 1
    BY <2>2, QueryType DEF OInv, IInv
  <2>4. called[r] = 0
    BY <2>1, <2>3, LenProperties
  <2>5. called'[r] = 1
    BY <1>4, <2>4 DEF FillOne
  <2>6. envdata'[r] = [i \in 0 .. 0 |-> [deviceID |-> ask[r].deviceID, row |-> rows[r][1]]]
    BY <1>4, <2>4 DEF FillOne, Current
  <2>7. envdata'[r][0] = EntryOf(r, 1)'
    BY <2>1, <2>6 DEF EntryOf
  <2>8. QED
    BY <2>1, <2>2, <2>5, <2>7 DEF HasOne, Query
<1>5. CASE FillDeviceID(r) \/ FillColumns(r) \/ LoadCnt(r) \/ StoreCnt(r) \/ Reply(r)
  BY <1>5 DEF FillDeviceID, FillColumns, LoadCnt, StoreCnt, Reply
<1>6. CASE WrapCnt(r)
  <2>1. Many(r)
    BY <1>6 DEF WrapCnt, OInv, IInv, InRead
  <2>2. QED
    BY <1>6, <2>1 DEF WrapCnt, Many
<1>7. CASE ExecReturns(r)
  <2>1. /\ pc[r] = "row" /\ UNCHANGED <<table, connections, ask, rows, envdata, called>>
    BY <1>7 DEF ExecReturns
  <2>2. ~Many(r)
    BY <2>1 DEF Many
  <2>3. HasOne(r)
    BY <2>1, <2>2 DEF OInv, OneRead
  <2>4. QED
    BY <2>1, <2>3 DEF HasOne, Query, EntryOf
<1>8. QED
  BY <1>2, <1>3, <1>4, <1>5, <1>6, <1>7 DEF ReadNext

LEMMA OneReadStep == OInv /\ [Next]_vars => OInv'
<1>1. SUFFICES ASSUME OInv, [Next]_vars, NEW r \in Readers,
                      ~Many(r)', connections' < MaxFiles, pc'[r] \in {"row", "reply"}
               PROVE  HasOne(r)'
  <2>1. OInv /\ [Next]_vars => IInv'
    BY InvStep DEF OInv
  <2>2. QED
    BY <2>1 DEF OInv, OneRead
<1>2. IInv' /\ connections' \in Nat
  <2>1. IInv'
    BY <1>1, InvStep DEF OInv
  <2>2. (connections \in 0 .. MaxFiles)'
    BY <2>1 DEF IInv, TypeOK
  <2>3. QED
    BY <2>1, <2>2, Numbers
<1>3. Alone(r) \/ ReadNext(r)
  <2>1. CASE UNCHANGED vars
    BY <1>1, <2>1, Numbers DEF OInv, IInv, TypeOK, Alone, vars, memory, readVars
  <2>2. ASSUME NEW d \in Device, Insert(d) PROVE Alone(r)
    BY <1>1, <2>2, Numbers DEF OInv, IInv, TypeOK, Insert, Alone, memory, readVars
  <2>3. CASE Tick
    BY <1>1, <2>3, Numbers DEF OInv, IInv, TypeOK, Tick, Alone, memory, readVars
  <2>4. ASSUME NEW q \in Readers, ReadNext(q) PROVE Alone(r) \/ ReadNext(r)
    BY <1>1, <2>4, OthersAlone DEF OInv
  <2>5. QED
    BY <1>1, <2>1, <2>2, <2>3, <2>4 DEF Next
<1>4. QED
  BY <1>1, <1>2, <1>3, OneReadKept, OneReadOwn

\* Times of one day sort as text as they do as numbers.
LEMMA SameDay ==
  ASSUME NEW t \in 0 .. MaxTime, NEW u \in 0 .. MaxTime, Day(t) = Day(u), ~TextAfter(t, u)
  PROVE  t <= u
BY Numbers DEF TextAfter

\* Of the rows of a device, none of the same day is later than the one a query for
\* one row returns.
LEMMA QueryOne ==
  ASSUME IInv, NEW d \in Device, table[d] # <<>>, NEW s \in Query(d, 1)
  PROVE  /\ Len(s) = 1 /\ s[1] \in DOMAIN table[d]
         /\ \A k \in DOMAIN table[d] :
              Day(table[d][k]) = Day(table[d][s[1]]) => table[d][k] <= table[d][s[1]]
<1>1. /\ table[d] \in Seq(0 .. MaxTime) /\ Len(table[d]) \in Nat /\ Len(table[d]) >= 1
      /\ DOMAIN table[d] = 1 .. Len(table[d])
  BY LenProperties, EmptySeq DEF IInv, TypeOK
<1>2. AtMost(1, Len(table[d])) = 1
  <2>1. \A n \in Nat : n >= 1 => AtMost(1, n) = 1
    BY DEF AtMost
  <2>2. QED
    BY <1>1, <2>1
<1>3. /\ s \in [1 .. 1 -> DOMAIN table[d]]
      /\ \A k \in DOMAIN table[d] \ {s[i] : i \in 1 .. 1} :
           \A i \in 1 .. 1 : ~TextAfter(table[d][k], table[d][s[i]])
  BY <1>2 DEF Query
<1>4. s[1] \in DOMAIN table[d]
  BY <1>3
<1>5. Len(s) = 1
  <2>1. s \in Seq(1 .. MaxRows) /\ DOMAIN s = 1 .. 1
    BY <1>3, QueryType DEF IInv
  <2>2. QED
    BY <2>1, LenProperties
<1>6. ASSUME NEW k \in DOMAIN table[d], Day(table[d][k]) = Day(table[d][s[1]])
      PROVE  table[d][k] <= table[d][s[1]]
  <2>1. table[d][k] \in 0 .. MaxTime /\ table[d][s[1]] \in 0 .. MaxTime
    BY <1>1, <1>4, ElementOfSeq
  <2>2. CASE k = s[1]
    BY <2>1, <2>2, Numbers
  <2>3. CASE k # s[1]
    <3>1. ~TextAfter(table[d][k], table[d][s[1]])
      BY <1>3, <2>3
    <3>2. QED
      BY <1>6, <2>1, <3>1, SameDay
  <2>4. QED
    BY <2>2, <2>3
<1>7. QED
  BY <1>4, <1>5, <1>6

\* The row that a worker answers with for a device that has any is of that device,
\* and the latest of its day, whatever other workers read meanwhile
\* (pthread_sql.c:284).
THEOREM OneIsTheLatest == Spec => []OneIsLatestOfItsDay
<1>1. Init => OInv
  BY InvInit DEF OInv, OneRead, Init
<1>2. OInv => OneIsLatestOfItsDay
  <2>1. SUFFICES ASSUME OInv, NEW r \in Readers, pc[r] = "reply", ~Many(r),
                        table[ask[r].deviceID] # <<>>, connections < MaxFiles
                 PROVE  /\ envdata[r][0].deviceID = ask[r].deviceID
                        /\ envdata[r][0].row \in DOMAIN table[ask[r].deviceID]
                        /\ \A k \in DOMAIN table[ask[r].deviceID] :
                             Day(table[ask[r].deviceID][k]) = Day(table[ask[r].deviceID][envdata[r][0].row]) =>
                               table[ask[r].deviceID][k] <= table[ask[r].deviceID][envdata[r][0].row]
    BY DEF OneIsLatestOfItsDay
  <2>2. ask[r].deviceID \in Device
    BY <2>1 DEF OInv, IInv, TypeOK
  <2>3. rows[r] \in Query(ask[r].deviceID, 1) /\ called[r] = Len(rows[r])
        /\ (called[r] > 0 => envdata[r][0] = EntryOf(r, 1))
    BY <2>1 DEF OInv, OneRead, HasOne, IInv, InRead
  <2>4. envdata[r][0] = EntryOf(r, 1)
    BY <2>1, <2>2, <2>3, QueryOne DEF OInv
  <2>5. QED
    BY <2>1, <2>2, <2>3, <2>4, QueryOne DEF OInv, EntryOf
<1>3. QED
  BY <1>1, <1>2, OneReadStep, PTL DEF Spec

=============================================================================
