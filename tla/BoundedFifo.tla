---------------------------- MODULE BoundedFifo ----------------------------
(***************************************************************************)
(* What ln::RingBufferView promises its users: a first-in first-out queue  *)
(* of at most Capacity elements.  A push in normal mode is all or nothing; *)
(* a push in overwrite mode always succeeds and keeps the newest Capacity  *)
(* elements.  Nothing here knows about heads, tails or wrap-around.        *)
(***************************************************************************)
EXTENDS Integers, Sequences

CONSTANTS
  Value,     \* the elements (T)
  Capacity,  \* storage.size()
  MaxSpan    \* the longest span a caller passes to push()

VARIABLES
  queue,     \* the elements, oldest first
  ret,       \* what the last call returned
  call       \* the last call and its arguments

fifoVars == <<queue, ret, call>>

(* A returned bool, and a returned std::optional<T>.                       *)
Returned(ok) == [ok |-> ok, val |-> <<>>]
SomeValue(v) == [ok |-> TRUE, val |-> <<v>>]

Span == UNION {[1..n -> Value] : n \in 0..MaxSpan}
PushMode == {"normal", "overwrite"}

(* The newest Capacity elements of a sequence.                             *)
Newest(s) ==
  IF Len(s) <= Capacity THEN s ELSE SubSeq(s, Len(s) - Capacity + 1, Len(s))

FifoInit == queue = <<>> /\ ret = Returned(TRUE) /\ call = <<"new">>

(* Both push() overloads: the single-element one is a span of length 1.    *)
FifoPush(vs, mode) ==
  \/ /\ mode = "normal" /\ Len(queue) + Len(vs) > Capacity
     /\ ret' = Returned(FALSE)
     /\ UNCHANGED queue
  \/ /\ mode = "overwrite" \/ Len(queue) + Len(vs) <= Capacity
     /\ ret' = Returned(TRUE)
     /\ queue' = Newest(queue \o vs)

FifoPop ==
  \/ /\ queue = <<>>
     /\ ret' = Returned(FALSE)
     /\ UNCHANGED queue
  \/ /\ queue /= <<>>
     /\ ret' = SomeValue(Head(queue))
     /\ queue' = Tail(queue)

FifoClear == queue' = <<>> /\ UNCHANGED ret

(* A write through operator[] or through an iterator.                      *)
FifoAssign(i, v) ==
  /\ i \in 0..Len(queue) - 1
  /\ queue' = [queue EXCEPT ![i + 1] = v]
  /\ UNCHANGED ret

FifoNext ==
  \/ \E vs \in Span, mode \in PushMode :
       FifoPush(vs, mode) /\ call' = <<"push", vs, mode>>
  \/ FifoPop /\ call' = <<"pop">>
  \/ FifoClear /\ call' = <<"clear">>
  \/ \E i \in 0..Capacity - 1, v \in Value :
       FifoAssign(i, v) /\ call' = <<"assign", i, v>>

FifoSpec == FifoInit /\ [][FifoNext]_fifoVars
============================================================================
