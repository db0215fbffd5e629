---------------------------- MODULE ReadingStream ----------------------------
(***************************************************************************)
(* What the gateway promises about the readings it receives, without       *)
(* threads, locks or a circular array.  A reading that is accepted waits   *)
(* in pending until it is written to the database, readings are written    *)
(* in the order in which they were accepted, each at most once, and no     *)
(* more than Bound of them wait at a time.  A reading without a device ID  *)
(* is never written; any other is lost only to an SQL failure.             *)
(***************************************************************************)
EXTENDS Integers, Sequences

CONSTANTS
  Reading,      \* what may be accepted: records with a field deviceID
  Bound,        \* how many readings may wait
  SqlMayFail    \* whether an INSERT may fail

VARIABLES
  pending,      \* the readings accepted and not yet disposed of, in order
  row           \* the reading written last

stream == <<pending, row>>

Init ==
  /\ pending = << >>
  /\ row \in Reading

Accept(r) ==
  /\ Len(pending) < Bound
  /\ pending' = Append(pending, r)
  /\ UNCHANGED row

Store ==
  /\ pending # << >>
  /\ Head(pending).deviceID # 0
  /\ row' = Head(pending)
  /\ pending' = Tail(pending)

Discard ==
  /\ pending # << >>
  /\ Head(pending).deviceID = 0 \/ SqlMayFail
  /\ pending' = Tail(pending)
  /\ UNCHANGED row

Next == (\E r \in Reading : Accept(r)) \/ Store \/ Discard

Spec == Init /\ [][Next]_stream

=============================================================================
