---------------------------- MODULE EnvDataNode ----------------------------
(***************************************************************************)
(* The circular queue of src/envDataNode.c, as operators on a record q     *)
(* with the fields of struct __envDataNode_t: the array envData, indexed   *)
(* 0 .. capacity - 1, and the indexes rear and front.  rear is the index   *)
(* of the newest element, front the index of the element popped last, so   *)
(* one slot is always unused and the queue holds Capacity - 1 elements.    *)
(* Contents is the abstraction: the sequence the record stands for.        *)
(***************************************************************************)
EXTENDS Integers, Sequences

CONSTANT Capacity            \* QUEUE_SIZE, 20 in the code

ASSUME CapacityAssumption == Capacity \in Nat \ {0}

Index == 0 .. Capacity - 1

\* The slot k places after slot i.
Slot(i, k) == (i + k) % Capacity

\* Mutant: the modulus forgotten.
SuccNoModulus(i) == i + 1

Succ(i) == Slot(i, 1)

Node(Element) == [envData : [Index -> Element], rear : Index, front : Index]

\* envDataNode_init, given what malloc left in the array.
InitNode(garbage) == [envData |-> garbage, rear |-> 0, front |-> 0]

IsEmpty(q) == q.front = q.rear

IsFull(q) == Succ(q.rear) = q.front

\* envDataNode_push when the queue is not full.
Push(q, d) == [q EXCEPT !.rear = Succ(@), !.envData[Succ(q.rear)] = d]

\* envDataNode_pop: the queue it leaves, and the element it returns.
Pop(q) == [q EXCEPT !.front = Succ(@)]

\* Mutant: the element read before front is advanced.
PoppedTooEarly(q) == q.envData[q.front]

Popped(q) == q.envData[Succ(q.front)]

-----------------------------------------------------------------------------
\* How many slots lie after f up to r.
Span(f, r) == IF f <= r THEN r - f ELSE r - f + Capacity

Size(q) == Span(q.front, q.rear)

Contents(q) == [k \in 1 .. Size(q) |-> q.envData[Slot(q.front, k)]]

=============================================================================
