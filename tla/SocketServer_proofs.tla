------------------------ MODULE SocketServer_proofs ------------------------
(***************************************************************************)
(* Proofs about the socket server, for any number of connections,          *)
(* descriptors, slots and workers: types, that a slot in use has one       *)
(* owner, that slots never run out when there are more of them than the    *)
(* pool queues and serves, and that with clients like test_client.c the    *)
(* service keeps going, answers the connection that asked, and has room    *)
(* for as many as the pool queues.                                         *)
(***************************************************************************)
EXTENDS SocketServer, FiniteSetTheorems, TLAPS

\* Where a slot, and a descriptor, can be follows from the program counters.
MainHand ==
  /\ main.at # "killed" => (main.slot # None <=> main.at \in {"recv", "add", "drop"})
  /\ main.at \in {"fd_set", "recv", "add", "drop", "fd_clr"} => main.fd \in FD

WorkerHand ==
  \A w \in Workers :
    worker[w].at # "killed" => (running[w] = None <=> worker[w].at = "idle")

TInv ==
  /\ ConnType /\ SocketType /\ FdsType /\ SlotsType /\ PoolType
  /\ MainType /\ WorkerType
  /\ MainHand /\ WorkerHand

IInv == TInv /\ SlotHasOneOwner

\* No slot is None.
LEMMA NoneIsNoSlot == None \notin Slot
BY SocketServerAssumption DEF Slot

-----------------------------------------------------------------------------
(* Types.                                                                  *)

\* What is not changed keeps its type.
LEMMA Kept ==
  /\ ConnType /\ UNCHANGED <<conn, backlog>> => ConnType'
  /\ SocketType /\ UNCHANGED socket => SocketType'
  /\ FdsType /\ UNCHANGED <<readfds, tempfds>> => FdsType'
  /\ SlotsType /\ UNCHANGED client_info => SlotsType'
  /\ PoolType /\ UNCHANGED <<waiting, running>> => PoolType'
  /\ MainType /\ MainHand /\ UNCHANGED main => MainType' /\ MainHand'
  /\ WorkerType /\ UNCHANGED worker => WorkerType'
  /\ WorkerHand /\ UNCHANGED <<worker, running>> => WorkerHand'
BY DEF ConnType, SocketType, FdsType, SlotsType, PoolType, MainType, WorkerType,
       MainHand, WorkerHand

LEMMA InitTInv == Init => TInv
<1> SUFFICES ASSUME Init PROVE TInv
  OBVIOUS
<1> USE DEF Init
<1>1. ConnType /\ SocketType /\ FdsType
  BY SocketServerAssumption DEF ConnType, SocketType, FdsType, Connection
<1>2. SlotsType
  BY DEF SlotsType, Request, ZeroRequest, Cmd
<1>3. PoolType
  BY DEF PoolType, Pool!Init
<1>4. MainType /\ MainHand
  BY DEF MainType, MainHand
<1>5. WorkerType /\ WorkerHand
  BY DEF WorkerType, WorkerHand, Pool!Init
<1>6. QED
  BY <1>1, <1>2, <1>3, <1>4, <1>5 DEF TInv

LEMMA CloseFDType ==
  ASSUME ConnType, SocketType, NEW f, CloseFD(f)
  PROVE  ConnType' /\ SocketType'
<1>1. conn' \in [Client -> Connection]
  <2>1. CASE IsOpen(f)
    <3> DEFINE x == socket[f]
    <3>1. x \in Client
      BY <2>1 DEF IsOpen, SocketType
    <3>2. [conn[x] EXCEPT !.phase = "gone"] \in Connection
      BY <3>1 DEF ConnType, Connection
    <3>3. conn' = [conn EXCEPT ![x] = [conn[x] EXCEPT !.phase = "gone"]]
      BY <2>1, <3>1 DEF CloseFD, ConnType, Connection
    <3>4. QED
      BY <3>1, <3>2, <3>3 DEF ConnType
  <2>2. QED
    BY <2>1 DEF CloseFD, ConnType
<1>2. QED
  BY <1>1 DEF CloseFD, ConnType, SocketType

\* What a client sends, and what the server takes or throws away, keeps the
\* connections' type.
LEMMA Sent ==
  ASSUME ConnType, NEW c \in Client, NEW cmd \in Cmd, Ask(c, cmd)
  PROVE  ConnType'
BY DEF Ask, ConnType, Connection

LEMMA Forgotten ==
  ASSUME ConnType, SocketType, NEW f \in FD, IsOpen(f)
  PROVE  [conn EXCEPT ![socket[f]].inbox = << >>] \in [Client -> Connection]
<1>1. socket[f] \in Client
  BY DEF SocketType, IsOpen
<1>2. << >> \in Seq(Cmd)
  OBVIOUS
<1>3. QED
  BY <1>1, <1>2 DEF ConnType, Connection

LEMMA Taken ==
  ASSUME ConnType, SocketType, NEW f \in FD, IsOpen(f), conn[socket[f]].inbox # << >>
  PROVE  /\ [conn EXCEPT ![socket[f]].inbox = Tail(@)] \in [Client -> Connection]
         /\ [cmd |-> Head(conn[socket[f]].inbox), from |-> socket[f]] \in Request
<1> DEFINE c == socket[f]
<1>1. c \in Client
  BY DEF SocketType, IsOpen
<1>2. Tail(conn[c].inbox) \in Seq(Cmd) /\ Head(conn[c].inbox) \in Cmd
  BY <1>1 DEF ConnType, Connection
<1>3. [conn EXCEPT ![c].inbox = Tail(@)] \in [Client -> Connection]
  BY <1>1, <1>2 DEF ConnType, Connection
<1>4. QED
  BY <1>1, <1>2, <1>3 DEF Request

\* A slot keeps its type when a field is given a value of the field's type.
LEMMA SlotField ==
  ASSUME SlotsType, NEW s \in Slot
  PROVE  LET Slots == [Slot -> [client_fd : FD \cup {-1}, in_use : BOOLEAN, req : Request]]
         IN /\ \A b \in BOOLEAN : [client_info EXCEPT ![s].in_use = b] \in Slots
            /\ \A r \in Request : [client_info EXCEPT ![s].req = r] \in Slots
BY DEF SlotsType

LEMMA ClientTypes ==
  ASSUME TInv, NEW c \in Client, ClientNext(c)
  PROVE  TInv'
<1> USE DEF TInv, network, pool
<1>1. CASE Connect(c)
  <2>1. ConnType'
    BY <1>1 DEF Connect, ConnType, Connection
  <2>2. QED
    BY <1>1, <2>1, Kept DEF Connect
<1>2. CASE Close(c)
  <2>1. ConnType'
    BY <1>2 DEF Close, ConnType, Connection
  <2>2. QED
    BY <1>2, <2>1, Kept DEF Close
<1>3. ASSUME NEW cmd \in Cmd, Ask(c, cmd) PROVE TInv'
  <2>1. ConnType'
    BY <1>3, Sent
  <2>2. QED
    BY <1>3, <2>1, Kept DEF Ask
<1>4. QED
  BY <1>1, <1>2, <1>3 DEF ClientNext

LEMMA MainTypes ==
  ASSUME TInv, MainNext
  PROVE  TInv'
<1> USE DEF TInv, network, pool
<1>1. CASE CopyFds
  <2>1. MainType' /\ MainHand'
    BY <1>1 DEF CopyFds, MainType, MainHand, Goto
  <2>2. FdsType'
    BY <1>1 DEF CopyFds, FdsType
  <2>3. QED
    BY <1>1, <2>1, <2>2, Kept DEF CopyFds
<1>2. CASE SelectFails
  <2>1. MainType' /\ MainHand'
    BY <1>2 DEF SelectFails, MainType, MainHand, Goto
  <2>2. FdsType'
    BY <1>2 DEF SelectFails, FdsType
  <2>3. QED
    BY <1>2, <2>1, <2>2, Kept DEF SelectFails
<1>3. CASE Select
  <2>1. MainType' /\ MainHand'
    BY <1>3 DEF Select, MainType, MainHand, Goto
  <2>2. QED
    BY <1>3, <2>1, Kept DEF Select
<1>4. CASE Ready
  <2>1. MainType' /\ MainHand'
    BY <1>4 DEF Ready, MainType, MainHand, Goto
  <2>2. FdsType'
    BY <1>4 DEF Ready, FdsType
  <2>3. QED
    BY <1>4, <2>1, <2>2, Kept DEF Ready
<1>5. CASE Accept
  <2>1. MainType' /\ MainHand'
    BY <1>5 DEF Accept, MainType, MainHand, FdsType
  <2>2. ConnType' /\ SocketType'
    BY <1>5 DEF Accept, ConnType, SocketType
  <2>3. QED
    BY <1>5, <2>1, <2>2, Kept DEF Accept
<1>6. CASE FdSet
  <2>1. MainType' /\ MainHand'
    BY <1>6 DEF FdSet, MainType, MainHand, Scanned
  <2>2. FdsType'
    BY <1>6 DEF FdSet, FdsType, MainType, MainHand
  <2>3. QED
    BY <1>6, <2>1, <2>2, Kept DEF FdSet
<1>7. CASE GetSlot
  <2>1. MainType' /\ MainHand'
    BY <1>7, NoneIsNoSlot DEF GetSlot, MainType, MainHand, FdsType
  <2>2. FdsType'
    BY <1>7 DEF GetSlot, FdsType
  <2>3. SlotsType'
    <3>1. PICK s \in Slot : client_info' = [client_info EXCEPT ![s].in_use = TRUE]
      BY <1>7 DEF GetSlot
    <3>2. QED
      BY <3>1, SlotField DEF SlotsType
  <2>4. QED
    BY <1>7, <2>1, <2>2, <2>3, Kept DEF GetSlot
<1>8. CASE NoSlot
  <2>1. MainType' /\ MainHand'
    BY <1>8 DEF NoSlot, MainType, MainHand, Goto, Scanned
  <2>2. FdsType'
    BY <1>8 DEF NoSlot, FdsType
  <2>3. ConnType'
    BY <1>8, Forgotten DEF NoSlot, ConnType, FdsType
  <2>4. QED
    BY <1>8, <2>1, <2>2, <2>3, Kept DEF NoSlot
<1>9. CASE Recv
  <2>1. MainType' /\ MainHand'
    BY <1>9 DEF Recv, MainType, MainHand, Goto
  <2>2. SlotsType'
    BY <1>9, Taken, SlotField DEF Recv, SlotsType, MainType, MainHand, Readable
  <2>3. ConnType'
    BY <1>9, Taken DEF Recv, ConnType, MainHand, Readable
  <2>4. QED
    BY <1>9, <2>1, <2>2, <2>3, Kept DEF Recv
<1>10. CASE RecvFails
  <2>1. MainType' /\ MainHand'
    BY <1>10 DEF RecvFails, MainType, MainHand, Goto
  <2>2. QED
    BY <1>10, <2>1, Kept DEF RecvFails
<1>11. CASE Add
  <2>1. MainType' /\ MainHand'
    BY <1>11 DEF Add, MainType, MainHand, Scanned
  <2>2. SlotsType'
    BY <1>11 DEF Add, SlotsType, MainType, MainHand
  <2>3. PoolType'
    BY <1>11 DEF Add, PoolType, MainType, MainHand, Pool!Submit
  <2>4. WorkerHand'
    BY <1>11 DEF Add, WorkerHand, Pool!Submit
  <2>5. QED
    BY <1>11, <2>1, <2>2, <2>3, <2>4, Kept DEF Add
<1>12. CASE AddFails
  <2>1. MainType' /\ MainHand'
    BY <1>12 DEF AddFails, MainType, MainHand, Goto
  <2>2. SlotsType'
    BY <1>12 DEF AddFails, SlotsType, MainType, MainHand
  <2>3. QED
    BY <1>12, <2>1, <2>2, Kept DEF AddFails
<1>13. CASE Drop
  <2>1. MainType' /\ MainHand'
    BY <1>13 DEF Drop, MainType, MainHand, FdsType
  <2>2. SlotsType'
    BY <1>13 DEF Drop, SlotsType, ZeroRequest, Request, Cmd
  <2>3. ConnType' /\ SocketType'
    BY <1>13, CloseFDType DEF Drop
  <2>4. QED
    BY <1>13, <2>1, <2>2, <2>3, Kept DEF Drop
<1>14. CASE FdClr
  <2>1. MainType' /\ MainHand'
    BY <1>14 DEF FdClr, MainType, MainHand, Scanned
  <2>2. FdsType'
    BY <1>14 DEF FdClr, FdsType, MainType
  <2>3. QED
    BY <1>14, <2>1, <2>2, Kept DEF FdClr
<1>15. QED
  BY <1>1, <1>2, <1>3, <1>4, <1>5, <1>6, <1>7, <1>8, <1>9, <1>10, <1>11, <1>12, <1>13, <1>14 DEF MainNext

LEMMA WorkerTypes ==
  ASSUME TInv, NEW w \in Workers, WorkerNext(w)
  PROVE  TInv'
<1> USE DEF TInv, network, pool
<1>1. CASE Start(w)
  <2>1. waiting # << >> /\ waiting \in Seq(Slot)
    BY <1>1 DEF Start, PoolType, Pool!Start
  <2>2. Head(waiting) \in Slot /\ Tail(waiting) \in Seq(Slot)
    BY <2>1
  <2>3. PoolType'
    BY <1>1, <2>2 DEF Start, PoolType, Pool!Start
  <2>4. WorkerType'
    BY <1>1 DEF Start, WorkerType, At
  <2>5. WorkerHand'
    BY <1>1, <2>2, NoneIsNoSlot DEF Start, WorkerHand, WorkerType, PoolType, Pool!Start, At
  <2>6. QED
    BY <1>1, <2>3, <2>4, <2>5, Kept DEF Start
<1>2. CASE Parse(w)
  <2>1. worker[w].at # "killed" /\ running[w] \in Slot
    BY <1>2 DEF Parse, WorkerHand, PoolType
  <2>2. Serving(w).req \in Request
    BY <2>1 DEF Serving, SlotsType
  <2>3. WorkerType'
    <3> DEFINE answer == IF Serving(w).req.cmd = "query" THEN Serving(w).req.from ELSE None
    <3>1. answer \in Client \cup {Zero, None}
      BY <2>2 DEF Request
    <3>2. worker' = [worker EXCEPT ![w].at = "send", ![w].answer = answer]
      BY <1>2 DEF Parse
    <3> HIDE DEF answer
    <3>3. QED
      BY <3>1, <3>2 DEF WorkerType
  <2>4. WorkerHand'
    BY <1>2 DEF Parse, WorkerHand, WorkerType
  <2>5. QED
    BY <1>2, <2>3, <2>4, Kept DEF Parse
<1>3. CASE Send(w)
  <2>1. WorkerType' /\ WorkerHand'
    BY <1>3 DEF Send, WorkerType, WorkerHand
  <2>2. ConnType'
    BY <1>3 DEF Send, ConnType, Connection, SocketType, IsOpen, WorkerType
  <2>3. QED
    BY <1>3, <2>1, <2>2, Kept DEF Send
<1>4. CASE SendFails(w)
  <2>1. WorkerType' /\ WorkerHand'
    BY <1>4 DEF SendFails, WorkerType, WorkerHand
  <2>2. QED
    BY <1>4, <2>1, Kept DEF SendFails
<1>5. CASE SigPipe(w)
  <2>1. WorkerType' /\ WorkerHand'
    BY <1>5 DEF SigPipe, WorkerType, WorkerHand
  <2>2. MainType' /\ MainHand'
    BY <1>5 DEF SigPipe, MainType, MainHand, Goto
  <2>3. ConnType'
    BY <1>5 DEF SigPipe, ConnType, Connection
  <2>4. SocketType'
    BY <1>5 DEF SigPipe, SocketType
  <2>5. QED
    BY <1>5, <2>1, <2>2, <2>3, <2>4, Kept DEF SigPipe
<1>6. CASE WorkerClose(w)
  <2>1. WorkerType' /\ WorkerHand'
    BY <1>6 DEF WorkerClose, WorkerType, WorkerHand, At
  <2>2. ConnType' /\ SocketType'
    BY <1>6, CloseFDType DEF WorkerClose
  <2>3. QED
    BY <1>6, <2>1, <2>2, Kept DEF WorkerClose
<1>7. CASE WorkerFdClr(w)
  <2>1. WorkerType' /\ WorkerHand'
    BY <1>7 DEF WorkerFdClr, WorkerType, WorkerHand, FdsType
  <2>2. QED
    BY <1>7, <2>1, Kept DEF WorkerFdClr
<1>8. CASE WorkerFdClrWrite(w)
  <2>1. WorkerType' /\ WorkerHand'
    BY <1>8 DEF WorkerFdClrWrite, WorkerType, WorkerHand
  <2>2. FdsType'
    BY <1>8 DEF WorkerFdClrWrite, FdsType, WorkerType
  <2>3. QED
    BY <1>8, <2>1, <2>2, Kept DEF WorkerFdClrWrite
<1>9. CASE Put(w)
  <2>1. WorkerType' /\ WorkerHand'
    BY <1>9 DEF Put, WorkerType, WorkerHand, At
  <2>2. SlotsType'
    BY <1>9 DEF Put, SlotsType
  <2>3. QED
    BY <1>9, <2>1, <2>2, Kept DEF Put
<1>10. CASE Clear(w)
  <2>1. WorkerType'
    BY <1>10 DEF Clear, WorkerType, At
  <2>2. WorkerHand'
    BY <1>10 DEF Clear, WorkerHand, WorkerType, PoolType, Pool!Finish, At
  <2>3. SlotsType'
    BY <1>10 DEF Clear, SlotsType, ZeroRequest, Request, Cmd
  <2>4. PoolType'
    BY <1>10 DEF Clear, PoolType, Pool!Finish
  <2>5. QED
    BY <1>10, <2>1, <2>2, <2>3, <2>4, Kept DEF Clear
<1>11. QED
  BY <1>1, <1>2, <1>3, <1>4, <1>5, <1>6, <1>7, <1>8, <1>9, <1>10 DEF WorkerNext

LEMMA TypeInductive == TInv /\ [Next]_vars => TInv'
<1>1. TInv /\ UNCHANGED vars => TInv'
  BY Kept DEF TInv, vars, network, pool
<1>2. QED
  BY <1>1, ClientTypes, MainTypes, WorkerTypes DEF Next

\* Type correctness of the server, whatever its clients do.
THEOREM TypeCorrect == Spec => []TypeOK
<1>1. TInv => TypeOK
  BY DEF TInv, TypeOK
<1>2. QED
  BY InitTInv, TypeInductive, <1>1, PTL DEF Spec

-----------------------------------------------------------------------------
(* A slot has one owner.                                                   *)

\* The queue after an add, and after a worker's start.
LEMMA Appended ==
  ASSUME NEW q \in Seq(Slot), NEW t \in Slot,
         \A k, l \in 1 .. Len(q) : q[k] = q[l] => k = l,
         t \notin {q[k] : k \in 1 .. Len(q)}
  PROVE  LET r == Append(q, t)
         IN /\ \A k, l \in 1 .. Len(r) : r[k] = r[l] => k = l
            /\ {r[k] : k \in 1 .. Len(r)} = {q[k] : k \in 1 .. Len(q)} \cup {t}
<1> DEFINE r == Append(q, t)
<1>1. /\ Len(r) = Len(q) + 1 /\ Len(q) \in Nat
      /\ r[Len(q) + 1] = t
      /\ \A k \in 1 .. Len(q) : r[k] = q[k]
  OBVIOUS
<1> HIDE DEF r
<1>2. \A k \in 1 .. Len(r) : k \in 1 .. Len(q) \/ k = Len(q) + 1
  BY <1>1
<1>3. \A k, l \in 1 .. Len(r) : r[k] = r[l] => k = l
  BY <1>1, <1>2
<1>4. {r[k] : k \in 1 .. Len(r)} = {q[k] : k \in 1 .. Len(q)} \cup {t}
  BY <1>1, <1>2
<1>5. QED
  BY <1>3, <1>4 DEF r

LEMMA Started ==
  ASSUME NEW q \in Seq(Slot), q # << >>,
         \A k, l \in 1 .. Len(q) : q[k] = q[l] => k = l
  PROVE  LET r == Tail(q)
         IN /\ \A k, l \in 1 .. Len(r) : r[k] = r[l] => k = l
            /\ {r[k] : k \in 1 .. Len(r)} = {q[k] : k \in 1 .. Len(q)} \ {Head(q)}
            /\ Head(q) \in {q[k] : k \in 1 .. Len(q)}
<1> DEFINE r == Tail(q)
<1>1. /\ Len(q) \in Nat /\ Len(q) >= 1
      /\ Len(r) = Len(q) - 1
      /\ Head(q) = q[1]
      /\ \A k \in 1 .. Len(r) : r[k] = q[k + 1]
  OBVIOUS
<1> HIDE DEF r
<1>2. \A k \in 1 .. Len(q) : k = 1 \/ (k - 1 \in 1 .. Len(r) /\ q[k] = r[k - 1])
  BY <1>1
<1>3. \A k \in 1 .. Len(r) : k + 1 \in 1 .. Len(q) /\ k + 1 # 1
  BY <1>1
<1>4. \A k, l \in 1 .. Len(r) : r[k] = r[l] => k = l
  <2> SUFFICES ASSUME NEW k \in 1 .. Len(r), NEW l \in 1 .. Len(r), r[k] = r[l]
               PROVE  k = l
    OBVIOUS
  <2>1. q[k + 1] = q[l + 1]
    BY <1>1
  <2>2. k + 1 = l + 1
    BY <1>3, <2>1
  <2>3. QED
    BY <2>2
<1>5. {r[k] : k \in 1 .. Len(r)} = {q[k] : k \in 1 .. Len(q)} \ {Head(q)}
  <2>1. \A k \in 1 .. Len(r) : r[k] \in {q[j] : j \in 1 .. Len(q)} /\ r[k] # Head(q)
    BY <1>1, <1>3
  <2>2. \A k \in 1 .. Len(q) : q[k] # Head(q) => q[k] \in {r[j] : j \in 1 .. Len(r)}
    BY <1>1, <1>2
  <2>3. QED
    BY <2>1, <2>2
<1>6. QED
  BY <1>1, <1>4, <1>5 DEF r

\* A step that moves no slot.
LEMMA SameOwners ==
  ASSUME IInv, main.at # "killed",
         waiting' = waiting, main'.slot = main.slot,
         \A w \in Workers, s \in Slot : Holds(w, s)' <=> Holds(w, s),
         \A s \in Slot : client_info'[s].in_use = client_info[s].in_use
  PROVE  SlotHasOneOwner'
<1>1. Queued' = Queued
  BY DEF Queued
<1>2. QED
  BY <1>1 DEF IInv, SlotHasOneOwner

LEMMA InitOwners == Init => SlotHasOneOwner
<1> SUFFICES ASSUME Init PROVE SlotHasOneOwner
  OBVIOUS
<1>1. waiting = << >> /\ Queued = {}
  BY DEF Init, Pool!Init, Queued
<1>2. \A w \in Workers, s \in Slot : ~Holds(w, s)
  BY NoneIsNoSlot DEF Init, Pool!Init, Holds
<1>3. \A s \in Slot : ~client_info[s].in_use
  BY DEF Init
<1>4. main.slot = None
  BY DEF Init
<1>5. QED
  BY <1>1, <1>2, <1>3, <1>4, NoneIsNoSlot DEF SlotHasOneOwner

LEMMA ClientOwners ==
  ASSUME IInv, NEW c \in Client, ClientNext(c)
  PROVE  SlotHasOneOwner'
<1>1. UNCHANGED <<waiting, running, main, worker, client_info>>
  BY DEF ClientNext, Connect, Close, Ask, pool
<1>2. QED
  BY <1>1 DEF IInv, SlotHasOneOwner, Holds, Queued

LEMMA MainOwners ==
  ASSUME IInv, MainNext
  PROVE  SlotHasOneOwner'
<1> USE DEF pool
<1>1. main.at # "killed"
  BY DEF MainNext, CopyFds, SelectFails, Select, Ready, Accept, FdSet, GetSlot,
         NoSlot, Recv, RecvFails, Add, AddFails, Drop, FdClr
<1>2. UNCHANGED <<running, worker>>
  BY DEF MainNext, CopyFds, SelectFails, Select, Ready, Accept, FdSet, GetSlot,
         NoSlot, Recv, RecvFails, Add, Pool!Submit, AddFails, Drop, FdClr
<1>3. \A w \in Workers, s \in Slot : Holds(w, s)' <=> Holds(w, s)
  BY <1>2 DEF Holds
<1>4. CASE CopyFds \/ SelectFails \/ Select \/ Ready \/ Accept \/ FdSet \/ NoSlot
           \/ RecvFails \/ FdClr
  <2>1. UNCHANGED <<waiting, client_info>> /\ main'.slot = main.slot
    BY <1>4 DEF CopyFds, SelectFails, Select, Ready, Accept, FdSet, NoSlot, RecvFails,
                FdClr, Goto, IInv, TInv, MainType
  <2>2. QED
    BY <1>1, <1>3, <2>1, SameOwners
<1>5. CASE Recv \/ AddFails
  <2>1. waiting' = waiting /\ main'.slot = main.slot
    BY <1>5 DEF Recv, AddFails, Goto, IInv, TInv, MainType
  <2>2. \A s \in Slot : client_info'[s].in_use = client_info[s].in_use
    BY <1>5 DEF Recv, AddFails, IInv, TInv, SlotsType
  <2>3. QED
    BY <1>1, <1>3, <2>1, <2>2, SameOwners
<1>6. CASE GetSlot
  <2>1. PICK t \in Slot : /\ ~client_info[t].in_use
                          /\ client_info' = [client_info EXCEPT ![t].in_use = TRUE]
                          /\ main'.slot = t
    BY <1>6 DEF GetSlot, Free, IInv, TInv, MainType
  <2>2. waiting' = waiting /\ Queued' = Queued
    BY <1>6 DEF GetSlot, Queued
  <2>3. main.slot = None
    BY <1>6 DEF GetSlot, IInv, TInv, MainHand
  <2>4. t \notin Queued /\ \A w \in Workers : ~Holds(w, t)
    BY <1>1, <2>1 DEF IInv, SlotHasOneOwner
  <2>5. \A s \in Slot : client_info'[s].in_use <=> client_info[s].in_use \/ s = t
    BY <2>1 DEF IInv, TInv, SlotsType
  <2>6. QED
    BY <1>1, <1>3, <2>1, <2>2, <2>3, <2>4, <2>5, NoneIsNoSlot DEF IInv, SlotHasOneOwner
<1>7. CASE Add
  <2>1. main.slot \in Slot /\ main'.slot = None /\ waiting' = Append(waiting, main.slot)
    BY <1>7 DEF Add, Pool!Submit, IInv, TInv, MainHand, MainType
  <2>2. waiting \in Seq(Slot)
    BY DEF IInv, TInv, PoolType
  <2>3. /\ \A k, l \in 1 .. Len(waiting') : waiting'[k] = waiting'[l] => k = l
        /\ Queued' = Queued \cup {main.slot}
    BY <1>1, <2>1, <2>2, Appended DEF IInv, SlotHasOneOwner, Queued
  <2>4. \A s \in Slot : client_info'[s].in_use = client_info[s].in_use
    BY <1>7 DEF Add, IInv, TInv, SlotsType
  <2>5. None \notin Queued
    BY <2>2, NoneIsNoSlot DEF Queued
  <2>6. QED
    BY <1>1, <1>3, <2>1, <2>3, <2>4, <2>5, NoneIsNoSlot DEF IInv, SlotHasOneOwner
<1>8. CASE Drop
  <2>1. main.slot \in Slot /\ main'.slot = None /\ waiting' = waiting /\ Queued' = Queued
    BY <1>8 DEF Drop, IInv, TInv, MainHand, MainType, Queued
  <2>2. \A s \in Slot : client_info'[s].in_use <=> client_info[s].in_use /\ s # main.slot
    BY <1>8, <2>1 DEF Drop, IInv, TInv, SlotsType
  <2>3. None \notin Queued
    BY NoneIsNoSlot DEF Queued, IInv, TInv, PoolType
  <2>4. QED
    BY <1>1, <1>3, <2>1, <2>2, <2>3, NoneIsNoSlot DEF IInv, SlotHasOneOwner
<1>9. QED
  BY <1>4, <1>5, <1>6, <1>7, <1>8 DEF MainNext

LEMMA WorkerOwners ==
  ASSUME IInv, NEW w \in Workers, WorkerNext(w)
  PROVE  SlotHasOneOwner'
<1> USE DEF pool
<1> SUFFICES ASSUME main'.at # "killed" PROVE SlotHasOneOwner'
  BY DEF SlotHasOneOwner
<1>1. CASE SigPipe(w)
  BY <1>1 DEF SigPipe, Goto, IInv, TInv, MainType
<1> SUFFICES ASSUME ~SigPipe(w) PROVE SlotHasOneOwner'
  BY <1>1
<1>2. main' = main /\ main.at # "killed"
  BY DEF WorkerNext, Start, Parse, Send, SendFails, WorkerClose, WorkerFdClr,
         WorkerFdClrWrite, Put, Clear
<1>3. CASE Parse(w) \/ Send(w) \/ SendFails(w) \/ WorkerClose(w) \/ WorkerFdClr(w)
           \/ WorkerFdClrWrite(w)
  <2>1. UNCHANGED <<waiting, running, client_info>>
    BY <1>3 DEF Parse, Send, SendFails, WorkerClose, WorkerFdClr, WorkerFdClrWrite
  <2>2. \A v \in Workers : worker'[v].at = "clear" <=> worker[v].at = "clear"
    BY <1>3 DEF Parse, Send, SendFails, WorkerClose, WorkerFdClr, WorkerFdClrWrite, At,
                IInv, TInv, WorkerType
  <2>3. QED
    BY <1>2, <2>1, <2>2, SameOwners DEF Holds
<1>4. CASE Start(w)
  <2> DEFINE t == Head(waiting)
  <2>1. /\ waiting # << >> /\ waiting \in Seq(Slot) /\ waiting' = Tail(waiting)
        /\ running' = [running EXCEPT ![w] = t]
        /\ client_info' = client_info
    BY <1>4 DEF Start, Pool!Start, IInv, TInv, PoolType
  <2>2. t \in Slot
    BY <2>1
  <2>3. /\ \A k, l \in 1 .. Len(waiting') : waiting'[k] = waiting'[l] => k = l
        /\ Queued' = Queued \ {t} /\ t \in Queued
    <3>1. \A k, l \in 1 .. Len(waiting) : waiting[k] = waiting[l] => k = l
      BY <1>2 DEF IInv, SlotHasOneOwner
    <3> DEFINE r == Tail(waiting)
    <3>2. /\ \A k, l \in 1 .. Len(r) : r[k] = r[l] => k = l
          /\ {r[k] : k \in 1 .. Len(r)} = Queued \ {t}
          /\ t \in Queued
      BY <2>1, <3>1, Started DEF Queued
    <3>3. waiting' = r
      BY <2>1
    <3> HIDE DEF r, t
    <3>4. \A k, l \in 1 .. Len(waiting') : waiting'[k] = waiting'[l] => k = l
      BY <3>2, <3>3
    <3>5. Queued' = {r[k] : k \in 1 .. Len(r)}
      BY <3>3 DEF Queued
    <3>6. QED
      BY <3>2, <3>4, <3>5
  <2>4. \A v \in Workers, s \in Slot : Holds(v, s)' <=> Holds(v, s) \/ (v = w /\ s = t)
    <3>1. running[w] = None /\ worker'[w].at = "parse"
      BY <1>4 DEF Start, Pool!Start, At, IInv, TInv, WorkerType
    <3>2. \A v \in Workers : v # w => worker'[v] = worker[v]
      BY <1>4 DEF Start, At, IInv, TInv, WorkerType
    <3>3. QED
      BY <2>1, <3>1, <3>2, NoneIsNoSlot DEF Holds, IInv, TInv, PoolType
  <2> HIDE DEF t
  <2>5. QED
    BY <1>2, <2>1, <2>2, <2>3, <2>4 DEF IInv, SlotHasOneOwner
<1>5. CASE Put(w)
  <2> DEFINE t == running[w]
  <2>1. t \in Slot /\ Holds(w, t)
    BY <1>5 DEF Put, IInv, TInv, WorkerHand, PoolType, Holds
  <2>2. waiting' = waiting /\ running' = running /\ Queued' = Queued
    BY <1>5 DEF Put, Queued
  <2>3. \A s \in Slot : client_info'[s].in_use <=> client_info[s].in_use /\ s # t
    BY <1>5, <2>1 DEF Put, IInv, TInv, SlotsType
  <2>4. \A v \in Workers, s \in Slot : Holds(v, s)' <=> Holds(v, s) /\ v # w
    BY <1>5, <2>2 DEF Put, At, Holds, IInv, TInv, WorkerType
  <2>5. \A s \in Slot : Holds(w, s) <=> s = t
    BY <2>1 DEF Holds
  <2> HIDE DEF t
  <2>6. QED
    BY <1>2, <2>1, <2>2, <2>3, <2>4, <2>5 DEF IInv, SlotHasOneOwner
<1>6. CASE Clear(w)
  <2>1. waiting' = waiting /\ running' = [running EXCEPT ![w] = None]
    BY <1>6 DEF Clear, Pool!Finish
  <2>2. \A s \in Slot : client_info'[s].in_use = client_info[s].in_use
    BY <1>6 DEF Clear, IInv, TInv, SlotsType
  <2>3. \A v \in Workers, s \in Slot : Holds(v, s)' <=> Holds(v, s)
    BY <1>6, <2>1, NoneIsNoSlot DEF Clear, At, Holds, IInv, TInv, WorkerType, PoolType
  <2>4. QED
    BY <1>2, <2>1, <2>2, <2>3, SameOwners
<1>7. QED
  BY <1>3, <1>4, <1>5, <1>6 DEF WorkerNext

LEMMA Invariance == IInv /\ [Next]_vars => IInv'
<1>1. TInv /\ [Next]_vars => TInv'
  BY TypeInductive
<1>2. IInv /\ UNCHANGED vars => SlotHasOneOwner'
  BY DEF IInv, vars, pool, SlotHasOneOwner, Queued, Holds
<1>3. IInv /\ Next => SlotHasOneOwner'
  BY ClientOwners, MainOwners, WorkerOwners DEF Next
<1>4. QED
  BY <1>1, <1>2, <1>3 DEF IInv

\* A slot in use has one owner, in every interleaving of the main thread and
\* any number of workers, although in_use is set and cleared without a lock.
THEOREM OneOwner == Spec => []SlotHasOneOwner
<1>1. Init => IInv
  BY InitTInv, InitOwners DEF IInv
<1>2. IInv => SlotHasOneOwner
  BY DEF IInv
<1>3. QED
  BY <1>1, <1>2, Invariance, PTL DEF Spec

-----------------------------------------------------------------------------
(* Slots suffice.                                                          *)

\* The pool's queue is bounded, from the pool's own rule for an add.
QueueBounded == Len(waiting) <= QueueSize

LEMMA QueueInductive == TInv /\ QueueBounded /\ [Next]_vars => QueueBounded'
<1> SUFFICES ASSUME TInv, QueueBounded, [Next]_vars PROVE QueueBounded'
  OBVIOUS
<1> USE DEF pool
<1>1. CASE MainNext
  <2>1. CASE Add
    <3>1. Len(waiting) < QueueSize /\ waiting' = Append(waiting, main.slot)
      BY <2>1 DEF Add, Pool!Submit
    <3>2. waiting \in Seq(Slot) /\ main.slot \in Slot
      BY <2>1 DEF Add, TInv, PoolType, MainType, MainHand
    <3>3. Len(waiting') = Len(waiting) + 1
      BY <3>1, <3>2
    <3>4. QED
      BY <3>1, <3>2, <3>3, SocketServerAssumption DEF QueueBounded
  <2>2. CASE ~Add
    BY <1>1, <2>2 DEF MainNext, CopyFds, SelectFails, Select, Ready, Accept, FdSet,
       GetSlot, NoSlot, Recv, RecvFails, AddFails, Drop, FdClr, QueueBounded
  <2>3. QED
    BY <2>1, <2>2
<1>2. ASSUME NEW w \in Workers, WorkerNext(w) PROVE QueueBounded'
  <2>1. CASE Start(w)
    <3>1. waiting # << >> /\ waiting' = Tail(waiting) /\ waiting \in Seq(Slot)
      BY <2>1 DEF Start, Pool!Start, TInv, PoolType
    <3>2. Len(waiting') = Len(waiting) - 1 /\ Len(waiting) \in Nat
      BY <3>1
    <3>3. QED
      BY <3>2, SocketServerAssumption DEF QueueBounded
  <2>2. CASE ~Start(w)
    BY <1>2, <2>2 DEF WorkerNext, Parse, Send, SendFails, SigPipe, WorkerClose,
       WorkerFdClr, WorkerFdClrWrite, Put, Clear, Pool!Finish, QueueBounded
  <2>3. QED
    BY <2>1, <2>2
<1>3. CASE \E c \in Client : ClientNext(c)
  BY <1>3 DEF ClientNext, Connect, Close, Ask, QueueBounded
<1>4. CASE UNCHANGED vars
  BY <1>4 DEF vars, QueueBounded
<1>5. QED
  BY <1>1, <1>2, <1>3, <1>4 DEF Next

\* At most Len(waiting) slots are queued, and at most one is held by each worker.
LEMMA FewInUse ==
  ASSUME TInv, IsFiniteSet(Workers)
  PROVE  LET Held == {s \in Slot : \E w \in Workers : Holds(w, s)}
         IN /\ IsFiniteSet(Queued) /\ Cardinality(Queued) <= Len(waiting)
            /\ IsFiniteSet(Held) /\ Cardinality(Held) <= Cardinality(Workers)
<1> DEFINE Held == {s \in Slot : \E w \in Workers : Holds(w, s)}
           V == {w \in Workers : \E s \in Slot : Holds(w, s)}
           f == [w \in V |-> running[w]]
           N == 1 .. Len(waiting)
           g == [k \in N |-> waiting[k]]
<1>1. Len(waiting) \in Nat
  BY DEF TInv, PoolType
<1>2. IsFiniteSet(N) /\ Cardinality(N) = Len(waiting)
  <2> DEFINE n == Len(waiting)
  <2>1. 1 \in Int /\ n \in Int
    BY <1>1
  <2> HIDE DEF n
  <2>2. IsFiniteSet(1 .. n) /\ Cardinality(1 .. n) = IF 1 > n THEN 0 ELSE n - 1 + 1
    BY <2>1, FS_Interval
  <2>3. Cardinality(1 .. n) = n
    BY <1>1, <2>2 DEF n
  <2>4. QED
    BY <2>2, <2>3 DEF n
<1>3. g \in Surjection(N, Queued)
  BY DEF Surjection, Queued
<1>4. IsFiniteSet(Queued) /\ Cardinality(Queued) <= Len(waiting)
  BY <1>2, <1>3, FS_Surjection
<1>5. IsFiniteSet(V) /\ Cardinality(V) <= Cardinality(Workers)
  BY FS_Subset
<1>6. f \in Surjection(V, Held)
  BY DEF Surjection, Holds
<1>7. IsFiniteSet(Held) /\ Cardinality(Held) <= Cardinality(V)
  BY <1>5, <1>6, FS_Surjection
<1>8. Cardinality(Held) \in Nat /\ Cardinality(V) \in Nat /\ Cardinality(Workers) \in Nat
  BY <1>5, <1>7, FS_CardinalityType
<1>9. QED
  BY <1>4, <1>5, <1>7, <1>8

\* With more slots than the pool queues and serves (200 against 10 and 10),
\* the main thread always finds one, and receives no request in vain.
THEOREM SlotsAreEnough ==
  ASSUME IsFiniteSet(Workers), MAX_CLIENT > QueueSize + Cardinality(Workers)
  PROVE  Spec => []SlotsSuffice
<1>1. Init => IInv /\ QueueBounded
  BY InitTInv, InitOwners, SocketServerAssumption DEF IInv, Init, Pool!Init, QueueBounded
<1>2. IInv /\ QueueBounded /\ [Next]_vars => IInv' /\ QueueBounded'
  BY Invariance, QueueInductive DEF IInv
<1>3. IInv /\ QueueBounded => SlotsSuffice
  <2> SUFFICES ASSUME IInv, QueueBounded, main.at = "scan", \A s \in Slot : ~Free(s)
               PROVE  FALSE
    BY DEF SlotsSuffice
  <2> DEFINE Held == {s \in Slot : \E w \in Workers : Holds(w, s)}
  <2>1. main.slot = None
    BY DEF IInv, TInv, MainHand
  <2>2. \A s \in Slot : s \in Queued \cup Held
    BY <2>1, NoneIsNoSlot DEF IInv, SlotHasOneOwner, Free
  <2>3. /\ IsFiniteSet(Queued) /\ Cardinality(Queued) <= Len(waiting)
        /\ IsFiniteSet(Held) /\ Cardinality(Held) <= Cardinality(Workers)
    BY FewInUse DEF IInv
  <2> HIDE DEF Held
  <2>4. /\ IsFiniteSet(Queued \cup Held)
        /\ Cardinality(Queued \cup Held)
             = Cardinality(Queued) + Cardinality(Held) - Cardinality(Queued \cap Held)
    BY <2>3, FS_Union
  <2>5. IsFiniteSet(Queued \cap Held)
    BY <2>3, FS_Subset
  <2>6. Cardinality(Slot) = MAX_CLIENT
    BY FS_Interval, SocketServerAssumption DEF Slot
  <2>7. Cardinality(Slot) <= Cardinality(Queued \cup Held)
    BY <2>2, <2>4, FS_Subset
  <2>8. /\ Cardinality(Queued) \in Nat /\ Cardinality(Held) \in Nat
        /\ Cardinality(Queued \cap Held) \in Nat /\ Cardinality(Workers) \in Nat
        /\ Len(waiting) \in Nat
    BY <2>3, <2>5, FS_CardinalityType DEF IInv, TInv, PoolType
  <2>9. QED
    BY <2>3, <2>4, <2>6, <2>7, <2>8, SocketServerAssumption DEF QueueBounded
<1>4. QED
  BY <1>1, <1>2, <1>3, PTL DEF Spec

-----------------------------------------------------------------------------
(* Polite clients.  The descriptors are shared without a lock, and nothing  *)
(* in the code keeps the main thread from closing the one that a worker     *)
(* is about to send on.  What keeps it from that is what test_client.c      *)
(* does: a client that waits for its answer before it asks again or closes. *)
(* Then select returns no descriptor of which a request is pending.         *)

\* A request that is on its way from the main thread's recv to a worker's send,
\* by its slot, and the descriptor that its answer will be sent to.
Pending(s) ==
  \/ s \in Queued
  \/ \E w \in Workers : running[w] = s /\ worker[w].at \in {"parse", "send"}
  \/ main.at = "add" /\ s = main.slot

ReplyFD(s) == IF s = main.slot THEN main.fd ELSE client_info[s].client_fd

\* A connection has at most one request outstanding, which is received once; it
\* is closed by its client only when that has been answered.
OneRequest ==
  \A c \in Client :
    LET k == conn[c] IN
      /\ k.asked \in {Len(k.answers), Len(k.answers) + 1}
      /\ k.inbox # << >> => k.inbox = <<"query">> /\ k.asked = Len(k.answers) + 1
      /\ k.phase = "closed" => k.asked = Len(k.answers)

\* A connection has one descriptor, and none before it is accepted.
Sockets ==
  /\ \A f, g \in FD : socket[f] # None /\ socket[f] = socket[g] => f = g
  /\ \A f \in FD : socket[f] # None =>
       socket[f] \notin backlog /\ conn[socket[f]].phase \in {"open", "closed"}
  /\ \A c \in backlog : conn[c].phase \in {"open", "closed"}

\* A pending request's connection is open, waits for the answer and has nothing
\* else to be received.
Owed(s) ==
  LET f == ReplyFD(s)
      c == socket[f]
  IN  /\ IsOpen(f) /\ conn[c].phase = "open"
      /\ conn[c].asked = Len(conn[c].answers) + 1 /\ conn[c].inbox = << >>
      /\ client_info[s].req.cmd = "query" /\ client_info[s].req.from \in {c, Zero}

PendingIsOwed == \A s \in Slot : Pending(s) => Owed(s)

PendingApart ==
  \A s, t \in Slot : Pending(s) /\ Pending(t) /\ ReplyFD(s) = ReplyFD(t) => s = t

\* No worker finds a descriptor closed, and each has an answer to send.
WorkersServe ==
  \A w \in Workers :
    /\ worker[w].at \in {"idle", "parse", "send", "put", "clear"}
    /\ worker[w].at = "send" =>
         worker[w].answer \in {socket[client_info[running[w]].client_fd], Zero}

\* What is in the sets of descriptors is open, but for one that the main thread
\* has closed and not taken out yet; what select has returned can be received.
FdsOpen ==
  /\ main.at \notin {"down", "killed"}
  /\ \A f \in readfds : IsOpen(f) \/ (main.at = "fd_clr" /\ f = main.fd)
  /\ \A f \in main.word : IsOpen(f) \/ (main.at = "fd_clr" /\ f = main.fd)
  /\ main.at \in {"select", "asleep"} => \A f \in tempfds : IsOpen(f)
  /\ main.at \in {"accept", "fd_set", "scan", "recv", "add", "drop", "fd_clr"} =>
       \A f \in tempfds : Readable(f)
  /\ main.at \in {"fd_set", "recv", "add", "drop"} => IsOpen(main.fd)
  /\ main.at \in {"recv", "add", "drop"} => main.fd \notin tempfds
  /\ main.at = "recv" => Readable(main.fd)
  /\ main.at = "drop" => \A s \in Slot : Pending(s) => ReplyFD(s) # main.fd

PInv ==
  /\ OneRequest /\ Sockets /\ PendingIsOwed /\ PendingApart /\ WorkersServe
  /\ FdsOpen /\ AnswersTheAsker

\* A pending request's slot is held by nobody who gives it back, and it has a
\* descriptor.
LEMMA PendingSlot ==
  ASSUME IInv, main.at # "killed", NEW s \in Slot, Pending(s)
  PROVE  /\ s = main.slot => main.at = "add"
         /\ \A w \in Workers : running[w] = s => worker[w].at \in {"parse", "send", "clear"}
BY NoneIsNoSlot DEF IInv, TInv, MainHand, SlotHasOneOwner, Pending, Holds

\* The connections of pending requests, and their requests, stay as they are.
LEMMA PendingKept ==
  ASSUME PendingIsOwed, PendingApart,
         \A s \in Slot : Pending(s)' =>
           LET f == ReplyFD(s) IN
             /\ Pending(s) /\ ReplyFD(s)' = f
             /\ client_info'[s].req \in {client_info[s].req, ZeroRequest}
             /\ socket'[f] = socket[f] /\ conn'[socket[f]] = conn[socket[f]]
  PROVE  PendingIsOwed' /\ PendingApart'
<1>1. PendingIsOwed'
  <2> SUFFICES ASSUME NEW s \in Slot, Pending(s)' PROVE Owed(s)'
    BY DEF PendingIsOwed
  <2> DEFINE f == ReplyFD(s)
             c == socket[f]
  <2>1. /\ Pending(s) /\ ReplyFD(s)' = f
        /\ client_info'[s].req \in {client_info[s].req, ZeroRequest}
        /\ socket'[f] = c /\ conn'[c] = conn[c]
    OBVIOUS
  <2>2. /\ IsOpen(f) /\ conn[c].phase = "open"
        /\ conn[c].asked = Len(conn[c].answers) + 1 /\ conn[c].inbox = << >>
        /\ client_info[s].req.cmd = "query" /\ client_info[s].req.from \in {c, Zero}
    BY <2>1 DEF PendingIsOwed, Owed
  <2>3. IsOpen(f)'
    BY <2>1, <2>2 DEF IsOpen
  <2>4. client_info'[s].req.cmd = "query" /\ client_info'[s].req.from \in {c, Zero}
    BY <2>1, <2>2 DEF ZeroRequest
  <2>5. QED
    BY <2>1, <2>2, <2>3, <2>4 DEF Owed
<1>2. PendingApart'
  BY DEF PendingApart
<1>3. QED
  BY <1>1, <1>2

\* Nothing happens to the connections.
LEMMA SameNetwork ==
  ASSUME PInv, UNCHANGED <<conn, backlog, socket>>
  PROVE  /\ OneRequest' /\ Sockets' /\ AnswersTheAsker'
         /\ \A f : (IsOpen(f)' <=> IsOpen(f)) /\ (Readable(f)' <=> Readable(f))
BY DEF PInv, OneRequest, Sockets, AnswersTheAsker, IsOpen, Readable

\* The main thread and its sets stay as they are, and nothing that was there to
\* be received is gone.
LEMMA SameFds ==
  ASSUME FdsOpen, UNCHANGED <<main, readfds, tempfds, socket>>,
         \A f : Readable(f) => Readable(f)',
         \A s \in Slot : Pending(s)' => Pending(s) /\ ReplyFD(s)' = ReplyFD(s)
  PROVE  FdsOpen'
<1>1. \A f : IsOpen(f)' <=> IsOpen(f)
  BY DEF IsOpen
<1>2. QED
  BY <1>1 DEF FdsOpen

\* Connections are only opened and closed by their clients.
LEMMA SameSockets ==
  ASSUME IInv, Sockets, UNCHANGED <<socket, backlog>>,
         \A c \in Client : conn[c].phase \in {"open", "closed"} => conn'[c].phase \in {"open", "closed"}
  PROVE  Sockets'
<1>1. backlog \subseteq Client /\ \A f \in FD : socket[f] # None => socket[f] \in Client
  BY DEF IInv, TInv, ConnType, SocketType
<1>2. QED
  BY <1>1 DEF Sockets

\* Nothing is pending at the start.
LEMMA PInit == Init => PInv
<1> SUFFICES ASSUME Init PROVE PInv
  OBVIOUS
<1> USE DEF Init
<1>1. OneRequest /\ AnswersTheAsker
  BY DEF OneRequest, AnswersTheAsker
<1>2. Sockets
  BY DEF Sockets
<1>3. \A s \in Slot : ~Pending(s)
  BY DEF Pending, Queued, Pool!Init
<1>4. PendingIsOwed /\ PendingApart
  BY <1>3 DEF PendingIsOwed, PendingApart
<1>5. WorkersServe
  BY DEF WorkersServe
<1>6. FdsOpen
  BY DEF FdsOpen
<1>7. QED
  BY <1>1, <1>2, <1>4, <1>5, <1>6 DEF PInv

\* A client asks, and closes, only when nothing is owed to it.
LEMMA PClient ==
  ASSUME Polite, IInv, PInv, NEW c \in Client, ClientNext(c)
  PROVE  PInv'
<1>1. UNCHANGED <<socket, readfds, tempfds, client_info, waiting, running, main, worker>>
  BY DEF ClientNext, Connect, Close, Ask, pool
<1>2. \A s \in Slot : (Pending(s)' <=> Pending(s)) /\ ReplyFD(s)' = ReplyFD(s)
  BY <1>1 DEF Pending, Queued, ReplyFD
<1>3. WorkersServe'
  BY <1>1 DEF PInv, WorkersServe
<1>4. \A d \in Client \ {c} : conn'[d] = conn[d]
  BY DEF ClientNext, Connect, Close, Ask, IInv, TInv, ConnType
<1>5. \A s \in Slot : Pending(s) =>
        /\ socket[ReplyFD(s)] \in Client
        /\ conn[socket[ReplyFD(s)]].phase = "open"
        /\ Outstanding(socket[ReplyFD(s)])
  BY DEF PInv, PendingIsOwed, Owed, IsOpen, Outstanding, IInv, TInv, SocketType, ConnType, Connection
<1>6. \/ conn[c].phase = "new"
      \/ conn[c].phase = "open" /\ ~Outstanding(c)
  BY DEF ClientNext, Connect, Close, Ask
<1>7. PendingIsOwed' /\ PendingApart'
  BY <1>1, <1>2, <1>4, <1>5, <1>6, PendingKept DEF PInv
<1>8. conn[c] \in Connection
  BY DEF IInv, TInv, ConnType
<1>9. conn'[c].answers = conn[c].answers => AnswersTheAsker'
  BY <1>4 DEF PInv, AnswersTheAsker
<1>10. OneRequest' /\ Sockets' /\ AnswersTheAsker' /\ \A f : Readable(f) => Readable(f)'
  <2>1. CASE Connect(c)
    <3>1. conn'[c] = [conn[c] EXCEPT !.phase = "open"] /\ backlog' = backlog \cup {c}
      BY <2>1 DEF Connect, IInv, TInv, ConnType
    <3>2. \A f \in FD : socket[f] # c
      BY <2>1, SocketServerAssumption DEF Connect, PInv, Sockets, IInv, TInv, SocketType
    <3>3. OneRequest'
      BY <1>4, <1>8, <3>1 DEF PInv, OneRequest, Connection
    <3>4. Sockets'
      BY <1>1, <1>4, <1>8, <3>1, <3>2 DEF PInv, Sockets, Connection, IInv, TInv, SocketType, ConnType
    <3>5. \A f : Readable(f) => Readable(f)'
      BY <1>1, <1>4, <3>2 DEF Readable, IsOpen, IInv, TInv, SocketType
    <3>6. AnswersTheAsker'
      BY <1>8, <1>9, <3>1 DEF Connection
    <3>7. QED
      BY <3>3, <3>4, <3>5, <3>6
  <2>2. CASE Close(c)
    <3>1. conn'[c] = [conn[c] EXCEPT !.phase = "closed"] /\ backlog' = backlog
      BY <2>2 DEF Close, IInv, TInv, ConnType
    <3>2. OneRequest'
      BY <1>4, <1>6, <1>8, <2>2, <3>1 DEF PInv, OneRequest, Connection, Outstanding, Close
    <3>3. Sockets'
      <4>1. conn'[c].phase = "closed"
        BY <1>8, <3>1 DEF Connection
      <4>2. QED
        BY <1>1, <1>4, <3>1, <4>1, SameSockets DEF PInv
    <3>4. \A f : Readable(f) => Readable(f)'
      BY <1>1, <1>4, <1>8, <3>1 DEF Readable, IsOpen, IInv, TInv, SocketType, Connection
    <3>5. AnswersTheAsker'
      BY <1>8, <1>9, <3>1 DEF Connection
    <3>6. QED
      BY <3>2, <3>3, <3>4, <3>5
  <2>3. ASSUME NEW cmd \in Cmd, Ask(c, cmd)
        PROVE  OneRequest' /\ Sockets' /\ AnswersTheAsker' /\ \A f : Readable(f) => Readable(f)'
    <3>1. /\ conn'[c] = [conn[c] EXCEPT !.asked = @ + 1, !.inbox = Append(@, cmd)]
          /\ backlog' = backlog /\ cmd = "query" /\ ~Outstanding(c) /\ conn[c].phase = "open"
      BY <2>3 DEF Ask, IInv, TInv, ConnType
    <3>2. conn[c].asked = Len(conn[c].answers) /\ conn[c].inbox = << >>
      BY <1>8, <3>1 DEF PInv, OneRequest, Outstanding, Connection
    <3>3. /\ conn'[c].inbox = <<"query">> /\ conn'[c].asked = Len(conn[c].answers) + 1
          /\ conn'[c].phase = "open" /\ conn'[c].answers = conn[c].answers
      BY <1>8, <3>1, <3>2 DEF Connection
    <3>4. OneRequest'
      BY <1>4, <3>3 DEF PInv, OneRequest
    <3>5. Sockets'
      BY <1>1, <1>4, <3>1, <3>3, SameSockets DEF PInv
    <3>6. \A f : Readable(f) => Readable(f)'
      BY <1>1, <1>4, <3>3 DEF Readable, IsOpen, IInv, TInv, SocketType
    <3>7. QED
      BY <1>9, <3>3, <3>4, <3>5, <3>6
  <2>4. QED
    BY <2>1, <2>2, <2>3 DEF ClientNext
<1>11. FdsOpen'
  BY <1>1, <1>2, <1>10, SameFds DEF PInv
<1>12. QED
  BY <1>3, <1>7, <1>10, <1>11 DEF PInv

\* Workers start, parse, send, give the slot back and clear the request, and do
\* nothing else.
LEMMA PWorker ==
  ASSUME IInv, PInv, NEW w \in Workers, WorkerNext(w)
  PROVE  PInv'
<1> DEFINE s == running[w]
<1>1. main.at # "killed" /\ PoolType /\ WorkerType
  BY DEF PInv, FdsOpen, IInv, TInv
<1>2. worker[w].at # "idle" => s \in Slot
  BY DEF PInv, WorkersServe, IInv, TInv, WorkerHand, PoolType
<1>3. worker[w].at \in {"parse", "send"} =>
        Pending(s) /\ Owed(s) /\ ReplyFD(s) = WorkerFD(w) /\ socket[WorkerFD(w)] \in Client
  <2> SUFFICES ASSUME worker[w].at \in {"parse", "send"}
               PROVE  /\ Pending(s) /\ Owed(s) /\ ReplyFD(s) = WorkerFD(w)
                      /\ socket[WorkerFD(w)] \in Client
    OBVIOUS
  <2>1. s \in Slot /\ Pending(s)
    BY <1>2 DEF Pending
  <2>2. s # main.slot
    BY <1>1, <2>1 DEF IInv, SlotHasOneOwner, Holds
  <2>3. ReplyFD(s) = WorkerFD(w)
    BY <2>2 DEF ReplyFD, WorkerFD, Serving
  <2>4. Owed(s)
    BY <2>1 DEF PInv, PendingIsOwed
  <2>5. QED
    BY <2>1, <2>3, <2>4 DEF Owed, IsOpen, IInv, TInv, SocketType
<1>4. worker[w].at = "send" =>
        /\ IsOpen(WorkerFD(w)) /\ conn[socket[WorkerFD(w)]].phase = "open"
        /\ worker[w].answer \in {socket[WorkerFD(w)], Zero}
  BY <1>3 DEF Owed, PInv, WorkersServe, WorkerFD, Serving
<1>5. Start(w) \/ Parse(w) \/ Send(w) \/ Put(w) \/ Clear(w)
  <2>1. ~SendFails(w) /\ ~SigPipe(w)
    BY <1>3, <1>4, SocketServerAssumption DEF SendFails, SigPipe
  <2>2. QED
    BY <2>1 DEF WorkerNext, WorkerClose, WorkerFdClr, WorkerFdClrWrite, PInv, WorkersServe
<1>6. UNCHANGED <<backlog, socket, readfds, tempfds, main>>
  BY <1>5 DEF Start, Parse, Send, Put, Clear, network
<1>7. \A v \in Workers \ {w} : worker'[v] = worker[v] /\ running'[v] = running[v]
  BY <1>1, <1>5 DEF Start, Pool!Start, Parse, Send, Put, Clear, Pool!Finish, At, pool,
                    WorkerType, PoolType
<1>8. CASE Start(w) \/ Parse(w) \/ Put(w) \/ Clear(w)
  <2>1. conn' = conn
    BY <1>8 DEF Start, Parse, Put, Clear, network
  <2>2. OneRequest' /\ Sockets' /\ AnswersTheAsker' /\ \A f : Readable(f) => Readable(f)'
    BY <1>6, <2>1, SameNetwork
  <2>3. Queued' \subseteq Queued /\ (running'[w] # s => running'[w] \in Queued \cup {None})
    <3>1. CASE Start(w)
      <4>1. /\ waiting \in Seq(Slot) /\ waiting # << >> /\ waiting' = Tail(waiting)
            /\ running'[w] = Head(waiting)
        BY <1>1, <3>1 DEF Start, Pool!Start, PoolType
      <4>2. \A k, l \in 1 .. Len(waiting) : waiting[k] = waiting[l] => k = l
        BY <1>1 DEF IInv, SlotHasOneOwner
      <4>3. QED
        BY <4>1, <4>2, Started DEF Queued
    <3>2. CASE Parse(w) \/ Put(w)
      BY <3>2 DEF Parse, Put, pool, Queued
    <3>3. CASE Clear(w)
      BY <1>1, <3>3 DEF Clear, Pool!Finish, Queued, PoolType
    <3>4. QED
      BY <1>8, <3>1, <3>2, <3>3
  <2>4. /\ worker'[w].at \in {"parse", "send"} => Start(w) \/ Parse(w)
        /\ Parse(w) => running' = running
        /\ Start(w) => s = None
    BY <1>1, <1>8 DEF Start, Pool!Start, Parse, Put, Clear, At, pool, WorkerType
  <2>5. \A t \in Slot : Pending(t)' => Pending(t)
    <3> SUFFICES ASSUME NEW t \in Slot, Pending(t)' PROVE Pending(t)
      OBVIOUS
    <3>1. CASE running'[w] = t /\ worker'[w].at \in {"parse", "send"}
      BY <2>3, <2>4, <3>1, NoneIsNoSlot DEF Pending, Parse
    <3>2. CASE ~(running'[w] = t /\ worker'[w].at \in {"parse", "send"})
      BY <1>6, <1>7, <2>3, <3>2 DEF Pending
    <3>3. QED
      BY <3>1, <3>2
  <2>6. \A t \in Slot : Pending(t) =>
          /\ client_info'[t].client_fd = client_info[t].client_fd
          /\ client_info'[t].req \in {client_info[t].req, ZeroRequest}
    <3>1. CASE Start(w) \/ Parse(w)
      BY <3>1 DEF Start, Parse
    <3>2. CASE Put(w)
      <4>1. ~Pending(s)
        BY <1>1, <1>2, <3>2, PendingSlot DEF Put
      <4>2. QED
        BY <3>2, <4>1 DEF Put, IInv, TInv, SlotsType
    <3>3. CASE Clear(w)
      BY <3>3 DEF Clear, IInv, TInv, SlotsType
    <3>4. QED
      BY <1>8, <3>1, <3>2, <3>3
  <2>7. \A t \in Slot : Pending(t) => ReplyFD(t)' = ReplyFD(t)
    BY <1>6, <2>6 DEF ReplyFD
  <2>8. PendingIsOwed' /\ PendingApart'
    BY <1>6, <2>1, <2>5, <2>6, <2>7, PendingKept DEF PInv
  <2>9. WorkersServe'
    <3>1. \A v \in Workers \ {w} :
            /\ worker'[v].at \in {"idle", "parse", "send", "put", "clear"}
            /\ worker'[v].at = "send" =>
                 worker'[v].answer \in {socket'[client_info'[running'[v]].client_fd], Zero}
      <4> SUFFICES ASSUME NEW v \in Workers \ {w}, worker[v].at = "send"
                   PROVE  worker[v].answer \in {socket[client_info'[running[v]].client_fd], Zero}
        BY <1>6, <1>7 DEF PInv, WorkersServe
      <4>1. running[v] \in Slot /\ Pending(running[v])
        BY <1>1 DEF IInv, TInv, WorkerHand, PoolType, Pending
      <4>2. QED
        BY <2>6, <4>1 DEF PInv, WorkersServe
    <3>2. /\ worker'[w].at \in {"idle", "parse", "send", "put", "clear"}
          /\ worker'[w].at = "send" =>
               worker'[w].answer \in {socket'[client_info'[running'[w]].client_fd], Zero}
      <4>1. CASE Parse(w)
        <5>1. worker'[w].at = "send" /\ UNCHANGED <<client_info, running, socket>>
          BY <1>1, <1>6, <4>1 DEF Parse, WorkerType, pool
        <5>2. worker'[w].answer = client_info[s].req.from
          BY <1>1, <1>3, <4>1 DEF Parse, WorkerType, Owed, Serving
        <5>3. client_info[s].req.from \in {socket[client_info[s].client_fd], Zero}
          BY <1>3, <4>1 DEF Parse, Owed, WorkerFD, Serving
        <5>4. QED
          BY <5>1, <5>2, <5>3
      <4>2. CASE Start(w) \/ Put(w) \/ Clear(w)
        BY <1>1, <4>2 DEF Start, Put, Clear, At, WorkerType
      <4>3. QED
        BY <1>8, <4>1, <4>2
    <3>3. QED
      BY <3>1, <3>2 DEF WorkersServe
  <2>10. FdsOpen'
    BY <1>6, <2>2, <2>5, <2>7, SameFds DEF PInv
  <2>11. QED
    BY <2>2, <2>8, <2>9, <2>10 DEF PInv
<1>9. CASE Send(w)
  <2> DEFINE c == socket[WorkerFD(w)]
  <2>1. PICK a \in {c, Zero} : conn' = [conn EXCEPT ![c].answers = Append(@, a)]
    BY <1>4, <1>9 DEF Send
  <2> HIDE DEF c
  <2>2. c \in Client /\ conn[c] \in Connection
    BY <1>3, <1>9 DEF Send, c, IInv, TInv, ConnType
  <2>3. /\ \A d \in Client \ {c} : conn'[d] = conn[d]
        /\ conn'[c] = [conn[c] EXCEPT !.answers = Append(@, a)]
    BY <2>1, <2>2 DEF IInv, TInv, ConnType
  <2>4. /\ conn'[c].phase = "open" /\ conn[c].phase = "open"
        /\ conn'[c].asked = conn[c].asked /\ conn[c].asked = Len(conn[c].answers) + 1
        /\ conn'[c].inbox = << >> /\ conn[c].inbox = << >>
        /\ conn'[c].answers = Append(conn[c].answers, a)
    BY <1>3, <1>9, <2>2, <2>3 DEF Send, Owed, c, Connection
  <2>5. conn[c].answers \in Seq(Client \cup {Zero}) /\ a \in Client \cup {Zero}
    BY <2>2 DEF Connection
  <2>6. /\ Len(conn'[c].answers) = conn[c].asked /\ Len(conn[c].answers) \in Nat
        /\ \A k \in 1 .. Len(conn'[c].answers) : conn'[c].answers[k] \in {c, Zero}
    <3>1. Len(conn'[c].answers) = Len(conn[c].answers) + 1 /\ Len(conn[c].answers) \in Nat
      BY <2>4, <2>5
    <3>2. \A k \in 1 .. Len(conn[c].answers) : conn'[c].answers[k] = conn[c].answers[k]
      BY <2>4, <2>5
    <3>3. conn'[c].answers[Len(conn[c].answers) + 1] = a
      BY <2>4, <2>5
    <3>4. \A k \in 1 .. Len(conn[c].answers) : conn[c].answers[k] \in {c, Zero}
      BY <2>2 DEF PInv, AnswersTheAsker
    <3>5. QED
      BY <2>4, <3>1, <3>2, <3>3, <3>4
  <2>7. OneRequest'
    BY <2>3, <2>4, <2>6 DEF PInv, OneRequest
  <2>8. AnswersTheAsker'
    BY <2>3, <2>6 DEF PInv, AnswersTheAsker
  <2>9. Sockets'
    BY <1>6, <2>3, <2>4, SameSockets DEF PInv
  <2>10. \A f : Readable(f) => Readable(f)'
    BY <1>6, <2>3, <2>4 DEF Readable, IsOpen, IInv, TInv, SocketType
  <2>11. /\ UNCHANGED <<client_info, waiting, running>>
         /\ worker'[w].at = "put"
    BY <1>1, <1>9 DEF Send, pool, WorkerType
  <2>12. \A t \in Slot : Pending(t)' => Pending(t) /\ t # s /\ ReplyFD(t)' = ReplyFD(t)
    <3>1. \A t \in Slot : Pending(t)' => Pending(t)
      BY <1>6, <1>7, <1>9, <2>11 DEF Pending, Queued
    <3>2. ~Pending(s)'
      <4>1. s \in Slot /\ Holds(w, s)
        BY <1>2, <1>9 DEF Send, Holds
      <4>2. s \notin Queued /\ s # main.slot /\ \A v \in Workers : Holds(v, s) => v = w
        BY <1>1, <4>1 DEF IInv, SlotHasOneOwner
      <4>3. QED
        BY <1>6, <1>7, <2>11, <4>2 DEF Pending, Queued, Holds
    <3>3. QED
      BY <1>6, <2>11, <3>1, <3>2 DEF ReplyFD
  <2>13. \A t \in Slot : Pending(t)' => socket[ReplyFD(t)] \in Client /\ socket[ReplyFD(t)] # c
    <3> SUFFICES ASSUME NEW t \in Slot, Pending(t)' PROVE socket[ReplyFD(t)] \in Client \ {c}
      OBVIOUS
    <3>1. Pending(t) /\ t # s /\ IsOpen(ReplyFD(t))
      BY <2>12 DEF PInv, PendingIsOwed, Owed
    <3>2. s \in Slot /\ Pending(s) /\ ReplyFD(s) = WorkerFD(w) /\ IsOpen(WorkerFD(w))
      BY <1>2, <1>3, <1>4, <1>9 DEF Send
    <3>3. ReplyFD(t) # WorkerFD(w)
      BY <3>1, <3>2 DEF PInv, PendingApart
    <3>4. QED
      BY <3>1, <3>2, <3>3 DEF PInv, Sockets, IsOpen, c, IInv, TInv, SocketType
  <2>14. PendingIsOwed' /\ PendingApart'
    BY <1>6, <2>3, <2>11, <2>12, <2>13, PendingKept DEF PInv
  <2>15. WorkersServe'
    BY <1>6, <1>7, <2>11 DEF PInv, WorkersServe
  <2>16. FdsOpen'
    BY <1>6, <2>10, <2>12, SameFds DEF PInv
  <2>17. QED
    BY <2>7, <2>8, <2>9, <2>14, <2>15, <2>16 DEF PInv
<1>10. QED
  BY <1>5, <1>8, <1>9

\* While the main thread leaves alone what a request's worker reads, the workers
\* can go on.
LEMMA WorkersKept ==
  ASSUME IInv, PInv, UNCHANGED <<worker, running>>,
         \A t \in Slot : Pending(t) /\ t # main.slot =>
           LET f == client_info[t].client_fd IN
             client_info'[t].client_fd = f /\ socket'[f] = socket[f]
  PROVE  WorkersServe'
<1> SUFFICES ASSUME NEW v \in Workers, worker[v].at = "send"
             PROVE  worker[v].answer \in {socket'[client_info'[running[v]].client_fd], Zero}
  BY DEF PInv, WorkersServe
<1>1. running[v] \in Slot /\ Pending(running[v]) /\ Holds(v, running[v])
  BY DEF IInv, TInv, WorkerHand, PoolType, Pending, Holds
<1>2. running[v] # main.slot
  BY <1>1 DEF IInv, SlotHasOneOwner, PInv, FdsOpen
<1>3. QED
  BY <1>1, <1>2 DEF PInv, WorkersServe

\* Steps that leave the connections, and the requests of the pool, alone.
LEMMA PQuiet ==
  ASSUME IInv, PInv,
         CopyFds \/ Select \/ Ready \/ FdSet \/ FdClr \/ GetSlot \/ RecvFails \/ AddFails
  PROVE  PInv'
<1>1. UNCHANGED <<conn, backlog, socket, waiting, running, worker>>
  BY DEF CopyFds, Select, Ready, FdSet, FdClr, GetSlot, RecvFails, AddFails, network, pool
<1>2. main.at # "killed" /\ MainType /\ MainHand /\ SlotsType
  BY DEF PInv, FdsOpen, IInv, TInv
<1>3. OneRequest' /\ Sockets' /\ AnswersTheAsker'
      /\ \A f : (IsOpen(f)' <=> IsOpen(f)) /\ (Readable(f)' <=> Readable(f))
  BY <1>1, SameNetwork
<1>4. main'.at # "add"
  BY <1>2 DEF CopyFds, Select, Ready, FdSet, FdClr, GetSlot, RecvFails, AddFails, Goto, Scanned, MainType
<1>5. \A t \in Slot : Pending(t)' =>
        Pending(t) /\ t # main.slot /\ client_info[t].in_use
  <2> SUFFICES ASSUME NEW t \in Slot, Pending(t)'
               PROVE  Pending(t) /\ t # main.slot /\ client_info[t].in_use
    OBVIOUS
  <2>1. t \in Queued \/ \E w \in Workers : running[w] = t /\ worker[w].at \in {"parse", "send"}
    BY <1>1, <1>4 DEF Pending, Queued
  <2>2. t \in Queued \/ \E w \in Workers : Holds(w, t)
    BY <2>1 DEF Holds
  <2>3. QED
    BY <1>2, <2>1, <2>2 DEF Pending, IInv, SlotHasOneOwner
<1>6. \A t \in Slot : client_info[t].in_use /\ t # main.slot =>
        client_info'[t] = client_info[t] /\ t # main'.slot
  <2>1. CASE GetSlot
    BY <1>2, <2>1 DEF GetSlot, Free, MainType, SlotsType
  <2>2. CASE AddFails
    BY <1>2, <2>2 DEF AddFails, Goto, MainType, SlotsType
  <2>3. CASE CopyFds \/ Select \/ Ready \/ FdSet \/ FdClr \/ RecvFails
    BY <1>2, <2>3 DEF CopyFds, Select, Ready, FdSet, FdClr, RecvFails, Goto, MainType
  <2>4. QED
    BY <2>1, <2>2, <2>3
<1>7. \A t \in Slot : Pending(t)' =>
        Pending(t) /\ ReplyFD(t)' = ReplyFD(t) /\ client_info'[t].req = client_info[t].req
  BY <1>5, <1>6 DEF ReplyFD
<1>8. PendingIsOwed' /\ PendingApart'
  BY <1>1, <1>7, PendingKept DEF PInv
<1>9. WorkersServe'
  <2>1. \A t \in Slot : Pending(t) /\ t # main.slot => client_info[t].in_use
    BY <1>2 DEF Pending, Holds, IInv, SlotHasOneOwner
  <2>2. QED
    BY <1>1, <1>6, <2>1, WorkersKept
<1>10. FdsOpen'
  <2>1. CASE CopyFds
    BY <1>1, <1>2, <1>3, <2>1 DEF CopyFds, Goto, MainType, PInv, FdsOpen
  <2>2. CASE Select
    BY <1>1, <1>2, <1>3, <2>2 DEF Select, Goto, MainType, PInv, FdsOpen
  <2>3. CASE Ready
    BY <1>1, <1>2, <1>3, <2>3 DEF Ready, Goto, MainType, PInv, FdsOpen
  <2>4. CASE FdSet
    BY <1>1, <1>2, <1>3, <2>4 DEF FdSet, Scanned, MainType, PInv, FdsOpen
  <2>5. CASE FdClr
    BY <1>1, <1>2, <1>3, <2>5 DEF FdClr, Scanned, MainType, PInv, FdsOpen
  <2>6. CASE GetSlot
    BY <1>1, <1>2, <1>3, <2>6 DEF GetSlot, MainType, PInv, FdsOpen, Readable
  <2>7. CASE RecvFails
    <3>1. IsOpen(main.fd) /\ conn[socket[main.fd]].phase # "open"
      BY <2>7 DEF RecvFails, PInv, FdsOpen
    <3>2. \A t \in Slot : Pending(t)' => ReplyFD(t)' # main.fd
      BY <1>7, <3>1 DEF PInv, PendingIsOwed, Owed
    <3>3. QED
      BY <1>1, <1>2, <1>3, <2>7, <3>1, <3>2 DEF RecvFails, Goto, MainType, PInv, FdsOpen
  <2>8. CASE AddFails
    <3>1. main.slot \in Slot /\ Pending(main.slot) /\ ReplyFD(main.slot) = main.fd
      BY <1>2, <2>8 DEF AddFails, MainType, MainHand, Pending, ReplyFD
    <3>2. \A t \in Slot : Pending(t)' => ReplyFD(t)' # main.fd
      BY <1>5, <1>7, <3>1 DEF PInv, PendingApart
    <3>3. QED
      BY <1>1, <1>2, <1>3, <2>8, <3>2 DEF AddFails, Goto, MainType, PInv, FdsOpen
  <2>9. QED
    BY <2>1, <2>2, <2>3, <2>4, <2>5, <2>6, <2>7, <2>8
<1>11. QED
  BY <1>3, <1>8, <1>9, <1>10 DEF PInv

\* A descriptor that accept returns was nobody's.
LEMMA PAccept ==
  ASSUME IInv, PInv, Accept
  PROVE  PInv'
<1>1. UNCHANGED <<conn, readfds, tempfds, client_info, waiting, running, worker>>
  BY DEF Accept, pool
<1>2. PICK c \in backlog, f \in FD :
        /\ ~IsOpen(f) /\ socket' = [socket EXCEPT ![f] = c] /\ backlog' = backlog \ {c}
        /\ main' = [main EXCEPT !.at = "fd_set", !.fd = f, !.word = readfds]
  BY DEF Accept
<1>3. main.at = "accept" /\ MainType /\ SocketType /\ c \in Client /\ c # None
  BY SocketServerAssumption DEF Accept, IInv, TInv, ConnType
<1>4. main.slot = None /\ main'.slot = None /\ main'.at = "fd_set" /\ main'.fd = f /\ main'.word = readfds
  BY <1>2, <1>3 DEF IInv, TInv, MainHand, MainType
<1>5. socket[f] = None /\ socket'[f] = c /\ \A g : g # f => socket'[g] = socket[g]
  BY <1>2, <1>3 DEF IsOpen, SocketType
<1>6. \A g : IsOpen(g) => g # f /\ IsOpen(g)'
  BY <1>5 DEF IsOpen
<1>7. \A g : Readable(g) => Readable(g)'
  BY <1>1, <1>5, <1>6 DEF Readable
<1>8. \A t \in Slot : Pending(t)' => Pending(t) /\ ReplyFD(t)' = ReplyFD(t) /\ ReplyFD(t) # f
  <2>1. \A t \in Slot : Pending(t)' => Pending(t) /\ t # None
    BY <1>1, <1>4, NoneIsNoSlot DEF Pending, Queued
  <2>2. \A t \in Slot : ReplyFD(t)' = ReplyFD(t)
    BY <1>1, <1>4, NoneIsNoSlot DEF ReplyFD
  <2>3. QED
    BY <1>6, <2>1, <2>2 DEF PInv, PendingIsOwed, Owed
<1>9. PendingIsOwed' /\ PendingApart'
  BY <1>1, <1>5, <1>8, PendingKept DEF PInv
<1>10. WorkersServe'
  <2>1. \A t \in Slot : Pending(t) => IsOpen(client_info[t].client_fd)
    BY <1>4, NoneIsNoSlot DEF PInv, PendingIsOwed, Owed, ReplyFD
  <2>2. QED
    BY <1>1, <1>5, <1>6, <2>1, WorkersKept
<1>11. OneRequest' /\ AnswersTheAsker'
  BY <1>1 DEF PInv, OneRequest, AnswersTheAsker
<1>12. Sockets'
  BY <1>1, <1>2, <1>3, <1>5 DEF PInv, Sockets, SocketType
<1>13. FdsOpen'
  <2>1. IsOpen(f)'
    BY <1>3, <1>5 DEF IsOpen
  <2>2. \A g \in readfds : IsOpen(g)
    BY <1>3 DEF PInv, FdsOpen
  <2>3. QED
    BY <1>1, <1>3, <1>4, <1>6, <1>7, <2>1, <2>2 DEF PInv, FdsOpen
<1>14. QED
  BY <1>9, <1>10, <1>11, <1>12, <1>13 DEF PInv

\* What the main thread forgets is not of a pending request.
LEMMA PNoSlot ==
  ASSUME IInv, PInv, NoSlot
  PROVE  PInv'
<1>1. /\ UNCHANGED <<backlog, socket, readfds, client_info, waiting, running, worker>>
      /\ main.at = "scan"
  BY DEF NoSlot, pool
<1>2. PICK f \in tempfds :
        /\ conn' = IF IsOpen(f) THEN [conn EXCEPT ![socket[f]].inbox = << >>] ELSE conn
        /\ tempfds' = tempfds \ {f}
        /\ Goto(Scanned(tempfds'))
  BY DEF NoSlot
<1> DEFINE c == socket[f]
<1>3. f \in FD /\ IsOpen(f) /\ Readable(f) /\ c \in Client
  BY <1>1 DEF PInv, FdsOpen, Readable, IsOpen, IInv, TInv, SocketType, FdsType
<1> HIDE DEF c
<1>4. conn[c] \in Connection
  BY <1>3 DEF IInv, TInv, ConnType
<1>5. /\ conn'[c] = [conn[c] EXCEPT !.inbox = << >>]
      /\ \A d \in Client \ {c} : conn'[d] = conn[d]
  BY <1>2, <1>3 DEF c, IInv, TInv, ConnType
<1>6. /\ conn'[c].phase = conn[c].phase /\ conn'[c].asked = conn[c].asked
      /\ conn'[c].inbox = << >> /\ conn'[c].answers = conn[c].answers
  BY <1>4, <1>5 DEF Connection
<1>7. OneRequest' /\ AnswersTheAsker'
  <2>1. conn'[c].asked \in {Len(conn'[c].answers), Len(conn'[c].answers) + 1}
        /\ (conn'[c].phase = "closed" => conn'[c].asked = Len(conn'[c].answers))
    BY <1>3, <1>6 DEF PInv, OneRequest
  <2>2. OneRequest'
    BY <1>5, <1>6, <2>1 DEF PInv, OneRequest
  <2>3. AnswersTheAsker'
    BY <1>5, <1>6 DEF PInv, AnswersTheAsker
  <2>4. QED
    BY <2>2, <2>3
<1>8. Sockets'
  BY <1>1, <1>5, <1>6, SameSockets DEF PInv
<1>9. main'.slot = main.slot /\ main'.fd = main.fd /\ main'.at \in {"copy", "scan"} /\ main'.word = main.word
  BY <1>2 DEF Goto, Scanned, IInv, TInv, MainType
<1>10. \A t \in Slot : Pending(t)' => Pending(t) /\ ReplyFD(t)' = ReplyFD(t)
  BY <1>1, <1>9 DEF Pending, Queued, ReplyFD
<1>11. \A t \in Slot : Pending(t) => socket[ReplyFD(t)] \in Client \ {c}
  <2> SUFFICES ASSUME NEW t \in Slot, Pending(t) PROVE socket[ReplyFD(t)] \in Client \ {c}
    OBVIOUS
  <2>1. Owed(t)
    BY DEF PInv, PendingIsOwed
  <2>2. ~Readable(ReplyFD(t)) /\ IsOpen(ReplyFD(t))
    BY <2>1 DEF Owed, Readable
  <2>3. QED
    BY <1>3, <2>2 DEF PInv, Sockets, IsOpen, c, IInv, TInv, SocketType
<1>12. PendingIsOwed' /\ PendingApart'
  BY <1>1, <1>5, <1>10, <1>11, PendingKept DEF PInv
<1>13. WorkersServe'
  BY <1>1, WorkersKept
<1>14. \A g \in tempfds' : Readable(g)'
  <2> SUFFICES ASSUME NEW g \in tempfds, g # f PROVE Readable(g)'
    BY <1>2
  <2>1. Readable(g)
    BY <1>1 DEF PInv, FdsOpen
  <2>2. socket[g] \in Client \ {c}
    BY <1>3, <2>1 DEF PInv, Sockets, Readable, IsOpen, c, IInv, TInv, SocketType
  <2>3. QED
    BY <1>1, <1>5, <2>1, <2>2 DEF Readable, IsOpen
<1>15. \A g : IsOpen(g)' <=> IsOpen(g)
  BY <1>1 DEF IsOpen
<1>16. FdsOpen'
  BY <1>1, <1>9, <1>14, <1>15 DEF PInv, FdsOpen
<1>17. QED
  BY <1>7, <1>8, <1>12, <1>13, <1>16 DEF PInv

\* A request that is received is the only one of its connection.
LEMMA PRecv ==
  ASSUME IInv, PInv, Recv
  PROVE  PInv'
<1>1. PICK f, c, s : f = main.fd /\ c = socket[f] /\ s = main.slot
  OBVIOUS
<1>2. /\ UNCHANGED <<backlog, socket, readfds, tempfds, waiting, running, worker>>
      /\ main.at = "recv" /\ conn[c].inbox # << >> /\ Readable(f)
      /\ client_info' = [client_info EXCEPT ![s].req = [cmd |-> Head(conn[c].inbox), from |-> c]]
      /\ conn' = [conn EXCEPT ![c].inbox = Tail(@)]
  BY <1>1 DEF Recv, pool
<1>3. f \in FD /\ IsOpen(f) /\ c \in Client /\ s \in Slot
  BY <1>1, <1>2 DEF Readable, IsOpen, IInv, TInv, SocketType, MainHand, MainType
<1>4. main'.slot = s /\ main'.fd = f /\ main'.at = "add" /\ main'.word = main.word
  BY <1>1 DEF Recv, Goto, IInv, TInv, MainType
<1>5. conn[c] \in Connection
  BY <1>3 DEF IInv, TInv, ConnType
<1>6. /\ conn'[c] = [conn[c] EXCEPT !.inbox = Tail(@)]
      /\ \A d \in Client \ {c} : conn'[d] = conn[d]
  BY <1>1, <1>2, <1>3 DEF IInv, TInv, ConnType
<1>7. conn[c].inbox = <<"query">> /\ conn[c].asked = Len(conn[c].answers) + 1
  BY <1>1, <1>2, <1>3 DEF PInv, OneRequest
<1>8. /\ conn'[c].phase = conn[c].phase /\ conn'[c].asked = conn[c].asked
      /\ conn'[c].inbox = << >> /\ conn'[c].answers = conn[c].answers
  BY <1>5, <1>6, <1>7 DEF Connection
<1>9. conn[c].phase = "open"
  <2>1. conn[c].phase \in {"open", "closed"}
    BY <1>1, <1>3, SocketServerAssumption DEF PInv, Sockets, IsOpen
  <2>2. conn[c].phase # "closed"
    BY <1>3, <1>5, <1>7 DEF PInv, OneRequest, Connection
  <2>3. QED
    BY <2>1, <2>2
<1>10. /\ client_info'[s].req = [cmd |-> "query", from |-> c]
      /\ client_info'[s].client_fd = client_info[s].client_fd
      /\ \A t \in Slot \ {s} : client_info'[t] = client_info[t]
  BY <1>1, <1>2, <1>3, <1>7 DEF IInv, TInv, SlotsType
<1>11. OneRequest' /\ AnswersTheAsker'
  <2>1. OneRequest'
    BY <1>6, <1>8 DEF PInv, OneRequest
  <2>2. AnswersTheAsker'
    BY <1>6, <1>8 DEF PInv, AnswersTheAsker
  <2>3. QED
    BY <2>1, <2>2
<1>12. Sockets'
  BY <1>1, <1>2, <1>6, <1>8, SameSockets DEF PInv
<1>13. \A t \in Slot \ {s} : Pending(t)' =>
         Pending(t) /\ ReplyFD(t)' = ReplyFD(t) /\ socket[ReplyFD(t)] \in Client \ {c}
  <2> SUFFICES ASSUME NEW t \in Slot \ {s}, Pending(t)'
               PROVE  Pending(t) /\ ReplyFD(t)' = ReplyFD(t) /\ socket[ReplyFD(t)] \in Client \ {c}
    OBVIOUS
  <2>1. Pending(t)
    BY <1>1, <1>2, <1>4 DEF Pending, Queued
  <2>2. ReplyFD(t)' = ReplyFD(t)
    BY <1>1, <1>4, <1>10 DEF ReplyFD
  <2>3. IsOpen(ReplyFD(t)) /\ conn[socket[ReplyFD(t)]].inbox = << >>
    BY <2>1 DEF PInv, PendingIsOwed, Owed
  <2>4. QED
    BY <1>1, <1>2, <2>1, <2>2, <2>3 DEF IsOpen, IInv, TInv, SocketType
<1>14. ReplyFD(s)' = f /\ Owed(s)'
  <2>1. ReplyFD(s)' = f
    BY <1>4 DEF ReplyFD
  <2>2. IsOpen(f)' /\ socket'[f] = c
    BY <1>1, <1>2, <1>3 DEF IsOpen
  <2>3. QED
    BY <1>7, <1>8, <1>9, <1>10, <2>1, <2>2 DEF Owed
<1>15. PendingIsOwed'
  <2> SUFFICES ASSUME NEW t \in Slot \ {s}, Pending(t)' PROVE Owed(t)'
    BY <1>14 DEF PendingIsOwed
  <2>1. Owed(t) /\ ReplyFD(t)' = ReplyFD(t) /\ socket[ReplyFD(t)] \in Client \ {c}
    BY <1>13 DEF PInv, PendingIsOwed
  <2>2. IsOpen(ReplyFD(t))' /\ socket'[ReplyFD(t)] = socket[ReplyFD(t)]
    BY <1>1, <1>2, <2>1 DEF Owed, IsOpen
  <2>3. QED
    BY <1>6, <1>10, <2>1, <2>2 DEF Owed
<1>16. PendingApart'
  <2>1. \A t \in Slot \ {s} : Pending(t)' => ReplyFD(t)' # f
    BY <1>1, <1>13
  <2>2. \A t, u \in Slot \ {s} : Pending(t)' /\ Pending(u)' /\ ReplyFD(t)' = ReplyFD(u)' => t = u
    BY <1>13 DEF PInv, PendingApart
  <2>3. QED
    BY <1>14, <2>1, <2>2 DEF PendingApart
<1>17. WorkersServe'
  BY <1>1, <1>2, <1>10, WorkersKept
<1>18. \A g \in tempfds : Readable(g)'
  <2> SUFFICES ASSUME NEW g \in tempfds PROVE Readable(g)'
    OBVIOUS
  <2>1. Readable(g) /\ g # f
    BY <1>1, <1>2 DEF PInv, FdsOpen
  <2>2. socket[g] \in Client \ {c}
    BY <1>1, <1>3, <2>1 DEF PInv, Sockets, Readable, IsOpen, IInv, TInv, SocketType
  <2>3. QED
    BY <1>1, <1>2, <1>6, <2>1, <2>2 DEF Readable, IsOpen
<1>19. \A g : IsOpen(g)' <=> IsOpen(g)
  BY <1>1, <1>2 DEF IsOpen
<1>20. FdsOpen'
  BY <1>1, <1>2, <1>4, <1>18, <1>19 DEF PInv, FdsOpen
<1>21. QED
  BY <1>11, <1>12, <1>15, <1>16, <1>17, <1>20 DEF PInv

\* A request that is added is pending as before, with its slot's descriptor.
LEMMA PAdd ==
  ASSUME IInv, PInv, Add
  PROVE  PInv'
<1> DEFINE s == main.slot
<1>1. /\ UNCHANGED <<conn, backlog, socket, readfds, tempfds, running, worker>>
      /\ main.at = "add" /\ waiting' = Append(waiting, s)
      /\ client_info' = [client_info EXCEPT ![s].client_fd = main.fd]
  BY DEF Add, Pool!Submit, network
<1>2. s \in Slot /\ waiting \in Seq(Slot)
  BY <1>1 DEF IInv, TInv, MainHand, MainType, PoolType
<1>3. main'.slot = None /\ main'.at \in {"copy", "scan"} /\ main'.word = main.word
  BY DEF Add, Scanned, IInv, TInv, MainType
<1>4. /\ client_info'[s].client_fd = main.fd /\ client_info'[s].req = client_info[s].req
      /\ \A t \in Slot \ {s} : client_info'[t] = client_info[t]
  BY <1>1, <1>2 DEF IInv, TInv, SlotsType
<1>5. OneRequest' /\ Sockets' /\ AnswersTheAsker'
      /\ \A f : (IsOpen(f)' <=> IsOpen(f)) /\ (Readable(f)' <=> Readable(f))
  BY <1>1, SameNetwork
<1>6. Queued' \subseteq Queued \cup {s}
  BY <1>1, <1>2 DEF Queued
<1>7. \A t \in Slot : Pending(t)' =>
        /\ Pending(t) /\ ReplyFD(t)' = ReplyFD(t)
        /\ client_info'[t].req = client_info[t].req
  <2>1. \A t \in Slot : Pending(t)' => Pending(t)
    BY <1>1, <1>3, <1>6 DEF Pending
  <2>2. \A t \in Slot : ReplyFD(t)' = ReplyFD(t)
    BY <1>3, <1>4, NoneIsNoSlot DEF ReplyFD
  <2>3. QED
    BY <1>4, <2>1, <2>2
<1>8. PendingIsOwed' /\ PendingApart'
  BY <1>1, <1>7, PendingKept DEF PInv
<1>9. WorkersServe'
  BY <1>1, <1>4, WorkersKept
<1>10. FdsOpen'
  BY <1>1, <1>3, <1>5 DEF PInv, FdsOpen
<1>11. QED
  BY <1>5, <1>8, <1>9, <1>10 DEF PInv

\* The main thread closes only connections of which no request is pending.
LEMMA PDrop ==
  ASSUME IInv, PInv, Drop
  PROVE  PInv'
<1> DEFINE f == main.fd
           c == socket[f]
           s == main.slot
<1>1. /\ UNCHANGED <<backlog, readfds, tempfds, waiting, running, worker>>
      /\ main.at = "drop" /\ IsOpen(f)
      /\ conn' = [conn EXCEPT ![c].phase = "gone"]
      /\ socket' = [socket EXCEPT ![f] = None]
      /\ client_info' = [client_info EXCEPT ![s] =
                           [client_fd |-> -1, in_use |-> FALSE, req |-> ZeroRequest]]
  BY DEF Drop, CloseFD, pool, PInv, FdsOpen
<1>2. f \in FD /\ c \in Client /\ s \in Slot
  BY <1>1 DEF IsOpen, IInv, TInv, SocketType, MainHand, MainType
<1>3. main'.slot = None /\ main'.fd = f /\ main'.at = "fd_clr" /\ main'.word = readfds
  BY DEF Drop, IInv, TInv, MainType
<1> HIDE DEF f, c, s
<1>4. conn[c] \in Connection /\ conn[c].phase \in {"open", "closed"}
  BY <1>1, <1>2 DEF PInv, Sockets, IsOpen, c, IInv, TInv, ConnType
<1>5. /\ conn'[c] = [conn[c] EXCEPT !.phase = "gone"]
      /\ \A d \in Client \ {c} : conn'[d] = conn[d]
  BY <1>1, <1>2 DEF IInv, TInv, ConnType
<1>6. /\ conn'[c].phase = "gone" /\ conn'[c].asked = conn[c].asked
      /\ conn'[c].inbox = conn[c].inbox /\ conn'[c].answers = conn[c].answers
  BY <1>4, <1>5 DEF Connection
<1>7. /\ \A g \in FD \ {f} : socket'[g] = socket[g] /\ (socket[g] # None => socket[g] \in Client \ {c})
      /\ socket'[f] = None
  BY <1>1, <1>2 DEF PInv, Sockets, IsOpen, c, IInv, TInv, SocketType
<1>8. OneRequest' /\ AnswersTheAsker'
  BY <1>5, <1>6 DEF PInv, OneRequest, AnswersTheAsker
<1>9. c \notin backlog /\ backlog \subseteq Client
  BY <1>1, <1>2 DEF PInv, Sockets, IsOpen, c, IInv, TInv, ConnType
<1>10. Sockets'
  BY <1>1, <1>2, <1>5, <1>7, <1>9 DEF PInv, Sockets
<1>11. \A t \in Slot : Pending(t) => t # s /\ ReplyFD(t) \in FD \ {f}
  <2>1. \A t \in Slot : Pending(t) => t # s
    BY <1>1, PendingSlot DEF s
  <2>2. \A t \in Slot : Pending(t) => ReplyFD(t) # f
    BY <1>1 DEF PInv, FdsOpen, f
  <2>3. QED
    BY <2>1, <2>2 DEF PInv, PendingIsOwed, Owed, IsOpen
<1>12. \A t \in Slot \ {s} : client_info'[t] = client_info[t]
  BY <1>1 DEF IInv, TInv, SlotsType
<1>13. \A t \in Slot : Pending(t)' => Pending(t)
  BY <1>1, <1>3 DEF Pending, Queued
<1>14. \A t \in Slot : Pending(t) => ReplyFD(t) = client_info[t].client_fd /\ ReplyFD(t)' = ReplyFD(t)
  BY <1>3, <1>11, <1>12, NoneIsNoSlot DEF ReplyFD, s
<1>15. \A t \in Slot : Pending(t) =>
         /\ socket'[ReplyFD(t)] = socket[ReplyFD(t)]
         /\ conn'[socket[ReplyFD(t)]] = conn[socket[ReplyFD(t)]]
  BY <1>5, <1>7, <1>11 DEF PInv, PendingIsOwed, Owed, IsOpen
<1>16. PendingIsOwed' /\ PendingApart'
  BY <1>11, <1>12, <1>13, <1>14, <1>15, PendingKept DEF PInv
<1>17. WorkersServe'
  BY <1>1, <1>11, <1>12, <1>14, <1>15, WorkersKept
<1>18. \A g : g # f /\ IsOpen(g) => IsOpen(g)' /\ (Readable(g) => Readable(g)')
  BY <1>5, <1>7 DEF IsOpen, Readable
<1>19. FdsOpen'
  BY <1>1, <1>3, <1>18 DEF PInv, FdsOpen, Readable, f
<1>20. QED
  BY <1>8, <1>10, <1>16, <1>17, <1>19 DEF PInv

\* With polite clients every step keeps the invariant.
LEMMA PInductive ==
  ASSUME Polite
  PROVE  IInv /\ PInv /\ [Next]_vars => PInv'
<1>1. IInv /\ PInv /\ MainNext => PInv'
  <2>1. PInv => ~SelectFails
    BY DEF PInv, FdsOpen, SelectFails
  <2>2. QED
    BY <2>1, PQuiet, PAccept, PNoSlot, PRecv, PAdd, PDrop DEF MainNext
<1>2. PInv /\ UNCHANGED vars => PInv'
  <2> SUFFICES ASSUME PInv, UNCHANGED vars PROVE PInv'
    OBVIOUS
  <2> USE DEF vars, network, pool
  <2>1. \A s \in Slot : (Pending(s)' <=> Pending(s)) /\ ReplyFD(s)' = ReplyFD(s)
    BY DEF Pending, Queued, ReplyFD
  <2>2. OneRequest' /\ Sockets' /\ AnswersTheAsker' /\ \A f : Readable(f) => Readable(f)'
    BY SameNetwork
  <2>3. PendingIsOwed' /\ PendingApart'
    BY <2>1, PendingKept DEF PInv
  <2>4. WorkersServe'
    BY DEF PInv, WorkersServe
  <2>5. FdsOpen'
    BY <2>1, <2>2, SameFds DEF PInv
  <2>6. QED
    BY <2>2, <2>3, <2>4, <2>5 DEF PInv
<1>3. QED
  BY <1>1, <1>2, PClient, PWorker DEF Next

LEMMA PoliteInvariance ==
  ASSUME Polite
  PROVE  Spec => [](IInv /\ PInv)
<1>1. Init => IInv /\ PInv
  BY InitTInv, InitOwners, PInit DEF IInv
<1>2. IInv /\ PInv /\ [Next]_vars => IInv' /\ PInv'
  BY Invariance, PInductive
<1>3. QED
  BY <1>1, <1>2, PTL DEF Spec

\* While its clients behave as test_client.c does the service keeps going, in
\* every interleaving of the main thread and the workers: select is never given
\* a closed descriptor, and nothing is ever sent to a connection that was reset.
THEOREM PoliteSurvives ==
  ASSUME Polite
  PROVE  Spec => []Survives
<1>1. PInv => Survives
  BY DEF PInv, FdsOpen, Survives
<1>2. QED
  BY <1>1, PoliteInvariance, PTL

\* Their answers go to the connections that asked, or are that of a zeroed
\* request: a descriptor is not closed, nor given to another connection, while
\* a request that came on it is queued or served.
THEOREM PoliteAnswers ==
  ASSUME Polite
  PROVE  Spec => []AnswersTheAsker
<1>1. PInv => AnswersTheAsker
  BY DEF PInv
<1>2. QED
  BY <1>1, PoliteInvariance, PTL

-----------------------------------------------------------------------------
(* How many polite clients the service has room for.                       *)

\* threadpool_add finds room for the request that the main thread has received.
RoomInQueue == main.at = "add" => Len(waiting) < QueueSize

\* The requests in the pool's queue, and that in the main thread's hand, are of as
\* many different connections.
LEMMA RequestsApart ==
  ASSUME IInv, PInv, main.at = "add"
  PROVE  \E f : f \in Injection(1 .. Len(waiting) + 1, Client)
<1> DEFINE N == 1 .. Len(waiting) + 1
           S == [k \in N |-> IF k = Len(waiting) + 1 THEN main.slot ELSE waiting[k]]
           f == [k \in N |-> socket[ReplyFD(S[k])]]
<1>1. Len(waiting) \in Nat /\ waiting \in Seq(Slot) /\ main.slot \in Slot
  BY DEF IInv, TInv, PoolType, MainType, MainHand
<1>2. ASSUME NEW k \in 1 .. Len(waiting) PROVE waiting[k] \in Slot /\ waiting[k] \in Queued
  BY <1>1 DEF Queued
<1>3. ASSUME NEW k \in N PROVE S[k] \in Slot /\ Pending(S[k])
  <2>1. CASE k = Len(waiting) + 1
    BY <1>1, <2>1 DEF Pending
  <2>2. CASE k \in 1 .. Len(waiting)
    BY <1>1, <1>2, <2>2 DEF Pending
  <2>3. QED
    BY <1>1, <2>1, <2>2
<1>4. ASSUME NEW j \in N, NEW k \in N, S[j] = S[k] PROVE j = k
  <2>1. main.slot \notin Queued /\ \A m, n \in 1 .. Len(waiting) : waiting[m] = waiting[n] => m = n
    BY DEF IInv, SlotHasOneOwner
  <2>2. CASE j = Len(waiting) + 1 /\ k # Len(waiting) + 1
    <3>1. k \in 1 .. Len(waiting) /\ S[k] = waiting[k] /\ S[j] = main.slot
      BY <1>1, <2>2
    <3>2. QED
      BY <1>2, <1>4, <2>1, <3>1
  <2>3. CASE k = Len(waiting) + 1 /\ j # Len(waiting) + 1
    <3>1. j \in 1 .. Len(waiting) /\ S[j] = waiting[j] /\ S[k] = main.slot
      BY <1>1, <2>3
    <3>2. QED
      BY <1>2, <1>4, <2>1, <3>1
  <2>4. CASE j # Len(waiting) + 1 /\ k # Len(waiting) + 1
    <3>1. j \in 1 .. Len(waiting) /\ k \in 1 .. Len(waiting) /\ S[j] = waiting[j] /\ S[k] = waiting[k]
      BY <1>1, <2>4
    <3>2. QED
      BY <1>4, <2>1, <3>1
  <2>5. QED
    BY <2>2, <2>3, <2>4
<1>5. ASSUME NEW s \in Slot, Pending(s)
      PROVE  ReplyFD(s) \in FD /\ socket[ReplyFD(s)] # None /\ socket[ReplyFD(s)] \in Client
  <2>1. IsOpen(ReplyFD(s))
    BY <1>5 DEF PInv, PendingIsOwed, Owed
  <2>2. QED
    BY <2>1 DEF IsOpen, IInv, TInv, SocketType
<1> HIDE DEF S
<1>6. f \in [N -> Client]
  BY <1>3, <1>5
<1>7. ASSUME NEW j \in N, NEW k \in N, f[j] = f[k] PROVE j = k
  <2>1. ReplyFD(S[j]) = ReplyFD(S[k])
    BY <1>3, <1>5, <1>7 DEF PInv, Sockets
  <2>2. S[j] = S[k]
    BY <1>3, <2>1 DEF PInv, PendingApart
  <2>3. QED
    BY <1>4, <2>2
<1>8. f \in Injection(N, Client)
  <2> HIDE DEF f
  <2>1. DOMAIN f = N
    BY <1>6
  <2>2. IsInjective(f)
    BY <1>7, <2>1 DEF IsInjective
  <2>3. QED
    BY <1>6, <2>2 DEF Injection
<1>9. QED
  BY <1>8

\* As many polite clients as the pool's queue has places (10 in the code) are never
\* turned away, however few workers there are and however long they take: no
\* connection is closed for want of a place (src/pthread_socket.c:329-333).
THEOREM PoliteFindRoom ==
  ASSUME Polite, IsFiniteSet(Client), Cardinality(Client) <= QueueSize
  PROVE  Spec => []RoomInQueue
<1>1. ASSUME IInv, PInv, main.at = "add" PROVE Len(waiting) < QueueSize
  <2>1. Len(waiting) \in Nat
    BY <1>1 DEF IInv, TInv, PoolType
  <2>2. PICK f : f \in Injection(1 .. Len(waiting) + 1, Client)
    BY <1>1, RequestsApart
  <2>3. Cardinality(1 .. Len(waiting) + 1) <= Cardinality(Client) /\ Cardinality(Client) \in Nat
    BY <2>2, FS_Injection, FS_CardinalityType
  <2> DEFINE n == Len(waiting) + 1
  <2>4. 1 \in Int /\ n \in Int /\ n >= 1
    BY <2>1
  <2> HIDE DEF n
  <2>5. Cardinality(1 .. n) = n
    BY <2>4, FS_Interval
  <2>6. Len(waiting) + 1 <= Cardinality(Client)
    BY <2>3, <2>5 DEF n
  <2>7. QED
    BY <2>1, <2>3, <2>6, SocketServerAssumption
<1>2. IInv /\ PInv => RoomInQueue
  BY <1>1 DEF RoomInQueue
<1>3. QED
  BY <1>2, PoliteInvariance, PTL

=============================================================================
