---------------------------- MODULE SocketServer ----------------------------
(***************************************************************************)
(* The TCP service of src/pthread_socket.c: the main thread accepts        *)
(* connections and receives requests in a select loop, writes each request *)
(* into a slot of client_info and hands the slot to the thread pool; a     *)
(* worker looks the answer up, sends it and gives the slot back.  Slots    *)
(* and readfds are shared without a lock.                                  *)
(*                                                                         *)
(* The pool is what ThreadPool implements, TaskPool.  The kernel's         *)
(* descriptors, connections and select are modelled from how the code uses *)
(* them.  A request asks for the readings of the connection it was sent    *)
(* on, so that an answer tells whose request it answers.  A connection is  *)
(* opened once and carries at most MaxAsks requests; there are descriptors *)
(* for all of them.                                                        *)
(***************************************************************************)
EXTENDS Integers, Sequences, FiniteSets

CONSTANTS
  Client,       \* the connections
  FD,           \* the descriptors accept may return
  MAX_CLIENT,
  Workers,
  QueueSize,
  MaxAsks,      \* bound on the requests of a connection
  Polite,       \* clients behave as test_client.c does
  None, Zero    \* no connection, slot or answer; the source of a zeroed request

ASSUME SocketServerAssumption ==
  /\ FD \subseteq Nat \ {0} /\ Cardinality(Client) <= Cardinality(FD)
  /\ MAX_CLIENT \in Nat \ {0} /\ QueueSize \in Nat \ {0} /\ MaxAsks \in Nat
  /\ Polite \in BOOLEAN
  /\ None \notin Client /\ Zero \notin Client /\ None # Zero
  /\ None \notin 1 .. MAX_CLIENT

VARIABLES
  conn,         \* what is on its way on a connection, and its phase
  backlog,      \* connections not accepted yet
  socket,       \* the connection of each descriptor
  readfds,      \* without the listening socket, which is always in it
  tempfds,      \* what select returned and the scan has not come to
  client_info,
  waiting,      \* the slots added to the pool
  running,      \* the slot that each worker serves
  main,         \* the main thread
  worker

network == <<conn, backlog, socket>>
pool == <<waiting, running>>
vars == <<network, readfds, tempfds, client_info, pool, main, worker>>

Slot == 1 .. MAX_CLIENT
Cmd == {"query", "other"}   \* the two commands answered, and the other three
Request == [cmd : Cmd, from : Client \cup {Zero}]
ZeroRequest == [cmd |-> "query", from |-> Zero]

Pool == INSTANCE TaskPool WITH Task <- Slot, Nothing <- None, Bound <- QueueSize

\* client_info_init, and the pool of socket_init.
Init ==
  /\ conn = [c \in Client |-> [phase |-> "new", asked |-> 0, inbox |-> << >>,
                               answers |-> << >>]]
  /\ backlog = {}
  /\ socket = [f \in FD |-> None]
  /\ readfds = {} /\ tempfds = {}
  /\ client_info = [s \in Slot |-> [client_fd |-> -1, in_use |-> FALSE,
                                    req |-> ZeroRequest]]
  /\ Pool!Init
  /\ main = [at |-> "copy", fd |-> 0, slot |-> None, word |-> {}]
  /\ worker = [w \in Workers |-> [at |-> "idle", answer |-> None, word |-> {}]]

-----------------------------------------------------------------------------
(* The clients.                                                            *)

Outstanding(c) == conn[c].asked > Len(conn[c].answers)

Connect(c) ==
  /\ conn[c].phase = "new" /\ main.at # "killed"
  /\ conn' = [conn EXCEPT ![c].phase = "open"]
  /\ backlog' = backlog \cup {c}
  /\ UNCHANGED <<socket, readfds, tempfds, client_info, pool, main, worker>>

Ask(c, cmd) ==
  /\ conn[c].phase = "open" /\ conn[c].asked < MaxAsks
  /\ Polite => cmd = "query" /\ ~Outstanding(c)
  /\ conn' = [conn EXCEPT ![c].asked = @ + 1, ![c].inbox = Append(@, cmd)]
  /\ UNCHANGED <<backlog, socket, readfds, tempfds, client_info, pool, main, worker>>

Close(c) ==
  /\ conn[c].phase = "open"
  /\ Polite => ~Outstanding(c)
  /\ conn' = [conn EXCEPT ![c].phase = "closed"]
  /\ UNCHANGED <<backlog, socket, readfds, tempfds, client_info, pool, main, worker>>

-----------------------------------------------------------------------------
(* The kernel.                                                             *)

IsOpen(f) == f \in FD /\ socket[f] # None
Readable(f) ==
  IsOpen(f) /\ LET k == conn[socket[f]] IN k.inbox # << >> \/ k.phase # "open"

\* close(f): nothing happens to a descriptor that is not open.
CloseFD(f) ==
  /\ conn' = IF IsOpen(f) THEN [conn EXCEPT ![socket[f]].phase = "gone"] ELSE conn
  /\ socket' = [socket EXCEPT ![f] = None]
  /\ UNCHANGED backlog

-----------------------------------------------------------------------------
(* The main thread.                                                        *)

Goto(label) == main' = [main EXCEPT !.at = label]

\* The next round, when the scan is over.
Scanned(rest) == IF rest = {} THEN "copy" ELSE "scan"

CopyFds ==
  /\ main.at = "copy"
  /\ tempfds' = readfds
  /\ Goto("select")
  /\ UNCHANGED <<network, readfds, client_info, pool, worker>>

\* select fails on a closed descriptor; pthread_socket returns and is called
\* again, cannot bind its port, and selects on nothing.
SelectFails ==
  /\ main.at = "select"
  /\ \E f \in tempfds : ~IsOpen(f)
  /\ readfds' = {} /\ tempfds' = {}
  /\ Goto("down")
  /\ UNCHANGED <<network, client_info, pool, worker>>

Select ==
  /\ main.at = "select"
  /\ \A f \in tempfds : IsOpen(f)
  /\ Goto("asleep")
  /\ UNCHANGED <<network, readfds, tempfds, client_info, pool, worker>>

\* A descriptor closed meanwhile may be reported or not.
Ready ==
  /\ main.at = "asleep"
  /\ \E closed \in SUBSET {f \in tempfds : ~IsOpen(f)} :
       LET ready == {f \in tempfds : Readable(f)} \cup closed IN
         /\ ready # {} \/ backlog # {}
         /\ tempfds' = ready
         /\ Goto(IF backlog # {} THEN "accept" ELSE "scan")
  /\ UNCHANGED <<network, readfds, client_info, pool, worker>>

\* accept takes the lowest descriptor.  FD_SET reads readfds ...
Accept ==
  /\ main.at = "accept"
  /\ \E c \in backlog, f \in FD :
       /\ ~IsOpen(f) /\ \A g \in FD : g < f => IsOpen(g)
       /\ socket' = [socket EXCEPT ![f] = c]
       /\ backlog' = backlog \ {c}
       /\ main' = [main EXCEPT !.at = "fd_set", !.fd = f, !.word = readfds]
  /\ UNCHANGED <<conn, readfds, tempfds, client_info, pool, worker>>

\* ... and writes it.
FdSet ==
  /\ main.at = "fd_set"
  /\ readfds' = main.word \cup {main.fd}
  /\ main' = [main EXCEPT !.at = Scanned(tempfds), !.word = {}]
  /\ UNCHANGED <<network, tempfds, client_info, pool, worker>>

Lowest(f) == f \in tempfds /\ \A g \in tempfds : f <= g
Free(s) == ~client_info[s].in_use

\* client_info_get: the first free slot.
GetSlot ==
  /\ main.at = "scan"
  /\ \E f \in tempfds, s \in Slot :
       /\ Lowest(f)
       /\ Free(s) /\ \A t \in Slot : t < s => ~Free(t)
       /\ client_info' = [client_info EXCEPT ![s].in_use = TRUE]
       /\ main' = [main EXCEPT !.at = "recv", !.fd = f, !.slot = s]
       /\ tempfds' = tempfds \ {f}
  /\ UNCHANGED <<network, readfds, pool, worker>>

\* No slot: what there is to receive is received and forgotten.
NoSlot ==
  /\ main.at = "scan"
  /\ \A s \in Slot : ~Free(s)
  /\ \E f \in tempfds :
       /\ Lowest(f)
       /\ ~IsOpen(f) \/ Readable(f)
       /\ conn' = IF IsOpen(f) THEN [conn EXCEPT ![socket[f]].inbox = << >>] ELSE conn
       /\ tempfds' = tempfds \ {f}
       /\ Goto(Scanned(tempfds'))
  /\ UNCHANGED <<backlog, socket, readfds, client_info, pool, worker>>

\* recv blocks until there is something to receive.
Recv ==
  /\ main.at = "recv"
  /\ Readable(main.fd)
  /\ LET c == socket[main.fd] IN
       /\ conn[c].inbox # << >>
       /\ client_info' = [client_info EXCEPT ![main.slot].req =
                            [cmd |-> Head(conn[c].inbox), from |-> c]]
       /\ conn' = [conn EXCEPT ![c].inbox = Tail(@)]
  /\ Goto("add")
  /\ UNCHANGED <<backlog, socket, readfds, tempfds, pool, worker>>

\* The client has closed, or the descriptor is closed.
RecvFails ==
  /\ main.at = "recv"
  /\ IsOpen(main.fd) =>
       conn[socket[main.fd]].phase # "open" /\ conn[socket[main.fd]].inbox = << >>
  /\ Goto("drop")
  /\ UNCHANGED <<network, readfds, tempfds, client_info, pool, worker>>

\* threadpool_add.
Add ==
  /\ main.at = "add"
  /\ client_info' = [client_info EXCEPT ![main.slot].client_fd = main.fd]
  /\ Pool!Submit(main.slot)
  /\ main' = [main EXCEPT !.at = Scanned(tempfds), !.slot = None]
  /\ UNCHANGED <<network, readfds, tempfds, worker>>

\* Mutant: the slot is given back, and the client never told.
AddForgets ==
  /\ main.at = "add"
  /\ Len(waiting) >= QueueSize
  /\ client_info' = [client_info EXCEPT ![main.slot] =
                       [client_fd |-> -1, in_use |-> FALSE, req |-> ZeroRequest]]
  /\ main' = [main EXCEPT !.at = Scanned(tempfds), !.slot = None]
  /\ UNCHANGED <<network, readfds, tempfds, pool, worker>>

AddFails ==
  /\ main.at = "add"
  /\ client_info' = [client_info EXCEPT ![main.slot].client_fd = main.fd]
  /\ Len(waiting) >= QueueSize
  /\ Goto("drop")
  /\ UNCHANGED <<network, readfds, tempfds, pool, worker>>

\* Mutant: a closed connection stays in readfds.
DropNoClear ==
  /\ main.at = "drop"
  /\ client_info' = [client_info EXCEPT ![main.slot] =
                       [client_fd |-> -1, in_use |-> FALSE, req |-> ZeroRequest]]
  /\ CloseFD(main.fd)
  /\ main' = [main EXCEPT !.at = Scanned(tempfds), !.slot = None]
  /\ UNCHANGED <<readfds, tempfds, pool, worker>>

\* client_info_put and close; FD_CLR reads readfds ...
Drop ==
  /\ main.at = "drop"
  /\ client_info' = [client_info EXCEPT ![main.slot] =
                       [client_fd |-> -1, in_use |-> FALSE, req |-> ZeroRequest]]
  /\ CloseFD(main.fd)
  /\ main' = [main EXCEPT !.at = "fd_clr", !.slot = None, !.word = readfds]
  /\ UNCHANGED <<readfds, tempfds, pool, worker>>

\* ... and writes it.
FdClr ==
  /\ main.at = "fd_clr"
  /\ readfds' = main.word \ {main.fd}
  /\ main' = [main EXCEPT !.at = Scanned(tempfds), !.word = {}]
  /\ UNCHANGED <<network, tempfds, client_info, pool, worker>>

MainNext ==
  \/ CopyFds \/ SelectFails \/ Select \/ Ready \/ Accept \/ FdSet
  \/ GetSlot \/ NoSlot \/ Recv \/ RecvFails \/ Add \/ AddFails \/ Drop \/ FdClr

-----------------------------------------------------------------------------
(* The workers: pthread_recvData.                                          *)

At(w, label) == worker' = [worker EXCEPT ![w].at = label]
Serving(w) == client_info[running[w]]
WorkerFD(w) == Serving(w).client_fd

Start(w) ==
  /\ worker[w].at = "idle"
  /\ Pool!Start(w)
  /\ At(w, "parse")
  /\ UNCHANGED <<network, readfds, tempfds, client_info, main>>

\* Mutant: the slot is given back before the answer is sent.
ParsePut(w) ==
  /\ worker[w].at = "parse"
  /\ LET req == Serving(w).req IN
       worker' = [worker EXCEPT ![w].at = "send",
                    ![w].answer = IF req.cmd = "query" THEN req.from ELSE None]
  /\ client_info' = [client_info EXCEPT ![running[w]].in_use = FALSE]
  /\ UNCHANGED <<network, readfds, tempfds, pool, main>>

\* parse_revData leaves the answer empty for a command it does not know.
Parse(w) ==
  /\ worker[w].at = "parse"
  /\ LET req == Serving(w).req IN
       worker' = [worker EXCEPT ![w].at = "send",
                    ![w].answer = IF req.cmd = "query" THEN req.from ELSE None]
  /\ UNCHANGED <<network, readfds, tempfds, client_info, pool, main>>

\* Mutant: nothing to send is not noticed.
SendAnything(w) ==
  /\ worker[w].at = "send"
  /\ IsOpen(WorkerFD(w))
  /\ LET c == socket[WorkerFD(w)] IN
       /\ conn[c].phase = "open"
       /\ conn' = [conn EXCEPT ![c].answers = Append(@, worker[w].answer)]
  /\ worker' = [worker EXCEPT ![w].at = "put", ![w].answer = None]
  /\ UNCHANGED <<backlog, socket, readfds, tempfds, client_info, pool, main>>

\* Bytes sent to a client that has closed are answered with a reset.
Send(w) ==
  /\ worker[w].at = "send"
  /\ worker[w].answer # None /\ IsOpen(WorkerFD(w))
  /\ LET c == socket[WorkerFD(w)] IN
       /\ conn[c].phase # "reset"
       /\ conn' = IF conn[c].phase = "open"
                  THEN [conn EXCEPT ![c].answers = Append(@, worker[w].answer)]
                  ELSE [conn EXCEPT ![c].phase = "reset"]
  /\ worker' = [worker EXCEPT ![w].at = "put", ![w].answer = None]
  /\ UNCHANGED <<backlog, socket, readfds, tempfds, client_info, pool, main>>

\* A closed descriptor, or nothing to send.
SendFails(w) ==
  /\ worker[w].at = "send"
  /\ IsOpen(WorkerFD(w)) =>
       worker[w].answer = None /\ conn[socket[WorkerFD(w)]].phase # "reset"
  /\ worker' = [worker EXCEPT ![w].at = "close", ![w].answer = None]
  /\ UNCHANGED <<network, readfds, tempfds, client_info, pool, main>>

\* After a reset, send raises SIGPIPE, which nothing handles: the process is
\* gone, and its connections with it.
SigPipe(w) ==
  /\ worker[w].at = "send"
  /\ IsOpen(WorkerFD(w)) /\ conn[socket[WorkerFD(w)]].phase = "reset"
  /\ conn' = [c \in Client |-> [conn[c] EXCEPT !.phase =
                                   IF @ = "new" THEN "new" ELSE "gone"]]
  /\ backlog' = {} /\ socket' = [f \in FD |-> None]
  /\ Goto("killed")
  /\ worker' = [v \in Workers |-> [at |-> "killed", answer |-> None, word |-> {}]]
  /\ UNCHANGED <<readfds, tempfds, client_info, pool>>

WorkerClose(w) ==
  /\ worker[w].at = "close"
  /\ CloseFD(WorkerFD(w))
  /\ At(w, "fd_clr")
  /\ UNCHANGED <<readfds, tempfds, client_info, pool, main>>

\* FD_CLR reads readfds ...
WorkerFdClr(w) ==
  /\ worker[w].at = "fd_clr"
  /\ worker' = [worker EXCEPT ![w].at = "fd_clr_write", ![w].word = readfds]
  /\ UNCHANGED <<network, readfds, tempfds, client_info, pool, main>>

\* ... and writes it.
WorkerFdClrWrite(w) ==
  /\ worker[w].at = "fd_clr_write"
  /\ readfds' = worker[w].word \ {WorkerFD(w)}
  /\ worker' = [worker EXCEPT ![w].at = "put", ![w].word = {}]
  /\ UNCHANGED <<network, tempfds, client_info, pool, main>>

\* Mutant: the slot is not given back.
PutKeeps(w) ==
  /\ worker[w].at = "put"
  /\ client_info' = [client_info EXCEPT ![running[w]].client_fd = -1]
  /\ At(w, "clear")
  /\ UNCHANGED <<network, readfds, tempfds, pool, main>>

\* client_info_put gives the slot back, and then clears the request.
Put(w) ==
  /\ worker[w].at = "put"
  /\ client_info' = [client_info EXCEPT ![running[w]].client_fd = -1,
                                        ![running[w]].in_use = FALSE]
  /\ At(w, "clear")
  /\ UNCHANGED <<network, readfds, tempfds, pool, main>>

Clear(w) ==
  /\ worker[w].at = "clear"
  /\ client_info' = [client_info EXCEPT ![running[w]].req = ZeroRequest]
  /\ Pool!Finish(w)
  /\ At(w, "idle")
  /\ UNCHANGED <<network, readfds, tempfds, main>>

WorkerNext(w) ==
  \/ Start(w) \/ Parse(w) \/ Send(w) \/ SendFails(w) \/ SigPipe(w)
  \/ WorkerClose(w) \/ WorkerFdClr(w) \/ WorkerFdClrWrite(w)
  \/ Put(w) \/ Clear(w)

-----------------------------------------------------------------------------
ClientNext(c) == Connect(c) \/ Close(c) \/ \E cmd \in Cmd : Ask(c, cmd)

Next ==
  \/ \E c \in Client : ClientNext(c)
  \/ MainNext
  \/ \E w \in Workers : WorkerNext(w)

Spec == Init /\ [][Next]_vars

\* The threads run; the clients need not.
FairSpec ==
  /\ Spec
  /\ WF_vars(MainNext)
  /\ \A w \in Workers : WF_vars(WorkerNext(w))

-----------------------------------------------------------------------------
(* Properties.                                                             *)

Connection ==
  [phase : {"new", "open", "closed", "reset", "gone"}, asked : 0 .. MaxAsks,
   inbox : Seq(Cmd), answers : Seq(Client \cup {Zero})]

ConnType == conn \in [Client -> Connection] /\ backlog \subseteq Client

SocketType == socket \in [FD -> Client \cup {None}]

FdsType == readfds \subseteq FD /\ tempfds \subseteq FD

SlotsType ==
  client_info \in [Slot -> [client_fd : FD \cup {-1}, in_use : BOOLEAN, req : Request]]

PoolType == waiting \in Seq(Slot) /\ running \in [Workers -> Slot \cup {None}]

MainType ==
  main \in [at : {"copy", "select", "asleep", "accept", "fd_set", "scan", "recv",
                  "add", "drop", "fd_clr", "down", "killed"},
            fd : FD \cup {0}, slot : Slot \cup {None}, word : SUBSET FD]

WorkerType ==
  worker \in [Workers -> [at : {"idle", "parse", "send", "close", "fd_clr",
                                "fd_clr_write", "put", "clear", "killed"},
                          answer : Client \cup {Zero, None}, word : SUBSET FD]]

TypeOK ==
  /\ ConnType /\ SocketType /\ FdsType /\ SlotsType /\ PoolType
  /\ MainType /\ WorkerType

\* The slots in the pool's queue, and the slot that a worker holds until it
\* gives it back.
Queued == {waiting[k] : k \in 1 .. Len(waiting)}
Holds(w, s) == running[w] = s /\ worker[w].at # "clear"

\* A slot in use is in one place: in the main thread's hand, in the pool's queue
\* or with one worker, and the slots there are in use (client_info_get and
\* client_info_put, src/pthread_socket.c:70-87).
SlotHasOneOwner == main.at # "killed" =>
  /\ \A k, l \in 1 .. Len(waiting) : waiting[k] = waiting[l] => k = l
  /\ main.slot \notin Queued
  /\ \A w \in Workers, s \in Slot : Holds(w, s) =>
       /\ s \notin Queued /\ s # main.slot
       /\ \A v \in Workers : Holds(v, s) => v = w
  /\ \A s \in Slot : client_info[s].in_use <=>
       s \in Queued \/ s = main.slot \/ \E w \in Workers : Holds(w, s)

\* There are enough slots that none is ever missing, and so that no request is
\* thrown away at src/pthread_socket.c:312-317: MAX_CLIENT is more than
\* the pool queues and serves.
SlotsSuffice == main.at = "scan" => \E s \in Slot : Free(s)

\* An answer goes to the connection it was asked on, or is that of a zeroed
\* request (src/pthread_socket.c:244 sends to client_fd, which the main
\* thread may close and reuse).
AnswersTheAsker ==
  \A c \in Client : \A k \in 1 .. Len(conn[c].answers) :
    conn[c].answers[k] \in {c, Zero}

\* No client is answered a request that it did not make.
AnswersTheRequest ==
  \A c \in Client : \A k \in 1 .. Len(conn[c].answers) :
    conn[c].answers[k] # Zero

\* The service keeps going.
Survives == main.at \notin {"down", "killed"}

\* A request is answered or its connection is closed, as long as the service
\* keeps going (the select loop, src/pthread_socket.c:280-341).
AsksAreAnswered ==
  \A c \in Client :
    Outstanding(c) ~> ~Outstanding(c) \/ conn[c].phase # "open" \/ ~Survives

=============================================================================
