--------------------------- MODULE RingBufferView ---------------------------
(***************************************************************************)
(* ln::RingBufferView<T>: a circular buffer over storage supplied by the   *)
(* caller (ln/core/include/ln/RingBuffer.hpp).  `head' is the slot of the  *)
(* oldest element, `tail' the slot after the newest and `count' the number *)
(* of elements; a full and an empty buffer both have head = tail.          *)
(*                                                                         *)
(* size_t arithmetic on `count' wraps modulo SizeMod (2^32 on the targets, *)
(* a small power of two for model checking).                               *)
(***************************************************************************)
EXTENDS Integers, Sequences

CONSTANTS
  Value,     \* the element type T
  Capacity,  \* storage.size(): 0 for a view over an empty span
  MaxSpan,   \* the longest span a caller passes to push()
  SizeMod    \* 2^w, w the width of size_t

ASSUME CapacityAssumption == Capacity \in Nat
ASSUME SpanAssumption == MaxSpan \in Nat
ASSUME SizeAssumption == SizeMod \in Nat /\ Capacity + MaxSpan < SizeMod
ASSUME ValueAssumption == Value /= {}

VARIABLES
  storage,   \* the slots
  head,      \* index of oldest element
  tail,      \* index one past newest element
  count,
  ret,       \* what the last call returned
  ub,        \* an access left the storage, or a remainder by zero was taken
  call       \* history: the last call and its arguments

vars == <<storage, head, tail, count, ret, ub, call>>

Slot == 0..Capacity - 1
Span == UNION {[1..n -> Value] : n \in 0..MaxSpan}
PushMode == {"normal", "overwrite"}

Returned(ok) == [ok |-> ok, val |-> <<>>]
SomeValue(v) == [ok |-> TRUE, val |-> <<v>>]

(***************************************************************************)
(* Helpers of the class.  A definition named Mutant... is not part of the  *)
(* model: it is a plausible bug in the definition that follows it, kept to *)
(* show that the properties notice it.                                     *)
(***************************************************************************)
empty == count = 0
full == count = Capacity
get_free_space == Capacity - count

MutantAdvanceNoWrap(index, step) == index + step
advance(index, step) == (index + step) % Capacity

\* The count after advance_head(step) and after advance_tail(step).
CountAfterHead(c, step) == (c - step) % SizeMod
CountAfterTail(c, step) == (c + step) % SizeMod

\* The n slots from `at' on exist: what an access to them needs.
Within(at, n) == at \in Slot /\ at + n <= Capacity

\* std::copy_n(src + from, n, &dst[at]), for Within(at, n): the operations test
\* that first, and a copy that would leave the storage is Undefined instead.
CopyN(dst, at, src, from, n) ==
  [i \in Slot |-> IF at <= i /\ i < at + n THEN src[from + (i - at) + 1]
                                           ELSE dst[i]]

MutantContiguousWhenEmpty(h, c, mode) ==
  IF c = Capacity THEN IF mode = "normal" THEN 0 ELSE Capacity - h
  ELSE IF tail > h \/ mode = "overwrite" THEN Capacity - tail
  ELSE h - tail
MutantContiguousFromHead(h, c, mode) ==
  IF c = Capacity THEN IF mode = "normal" THEN 0 ELSE Capacity - h
  ELSE IF mode = "overwrite" THEN Capacity - h
  ELSE IF tail >= h THEN Capacity - tail ELSE h - tail
\* Evaluated after advance_head(), so on the new head h and count c.
get_contiguous_push_space(h, c, mode) ==
  IF c = Capacity THEN IF mode = "normal" THEN 0 ELSE Capacity - h
  ELSE IF tail >= h \/ mode = "overwrite" THEN Capacity - tail
  ELSE h - tail

(***************************************************************************)
(* Operations.  A call with undefined behaviour sets ub and ends the run:  *)
(* nothing can be said of the program after it.                            *)
(***************************************************************************)
Undefined == ub' = TRUE /\ UNCHANGED <<storage, head, tail, count, ret>>

Rejected ==
  /\ ret' = Returned(FALSE)
  /\ UNCHANGED <<storage, head, tail, count, ub>>

\* bool push(const T &value, PushMode mode)
Push(value, mode) ==
  \/ full /\ mode = "normal" /\ Rejected
  \/ ~(full /\ mode = "normal") /\ ~Within(tail, 1) /\ Undefined
  \/ /\ ~(full /\ mode = "normal") /\ Within(tail, 1)
     /\ head' = IF full THEN advance(head, 1) ELSE head
     /\ storage' = CopyN(storage, tail, <<value>>, 0, 1)
     /\ tail' = advance(tail, 1)
     /\ count' = CountAfterTail(IF full THEN CountAfterHead(count, 1) ELSE count, 1)
     /\ ret' = Returned(TRUE)
     /\ UNCHANGED ub

\* The part of push(span) after the early returns: `values' is not empty, and
\* fits or mode is overwrite.
StoreSpan(values, mode) ==
  LET n == Len(values)
      over == IF n > get_free_space THEN n - get_free_space ELSE 0
      h == IF over > 0 THEN advance(head, over) ELSE head
      c == IF over > 0 THEN CountAfterHead(count, over) ELSE count
      space == get_contiguous_push_space(h, c, mode)
      chunk1 == IF space >= n THEN n ELSE space
      chunk2 == n - chunk1
      fits == Within(tail, chunk1) /\ Within(0, chunk2)
  IN  \/ ~fits /\ Undefined
      \/ /\ fits
         /\ storage' = CopyN(CopyN(storage, tail, values, 0, chunk1), 0, values, chunk1, chunk2)
         /\ head' = h
         /\ tail' = advance(tail, n)
         /\ count' = CountAfterTail(c, n)
         /\ ret' = Returned(TRUE)
         /\ UNCHANGED ub

\* bool push(const std::span<const T> &values, PushMode mode)
PushSpan(values, mode) ==
  \/ /\ values = <<>>
     /\ ret' = Returned(TRUE)
     /\ UNCHANGED <<storage, head, tail, count, ub>>
  \/ mode = "normal" /\ Len(values) > get_free_space /\ Rejected
  \/ /\ values /= <<>>
     /\ mode = "overwrite" \/ Len(values) <= get_free_space
     /\ \/ Capacity = 0 /\ Undefined
        \/ Capacity > 0 /\ StoreSpan(values, mode)

\* std::optional<T> pop()
Pop ==
  \/ empty /\ Rejected
  \/ ~empty /\ ~Within(head, 1) /\ Undefined
  \/ /\ ~empty /\ Within(head, 1)
     /\ ret' = SomeValue(storage[head])
     /\ head' = advance(head, 1)
     /\ count' = CountAfterHead(count, 1)
     /\ UNCHANGED <<storage, tail, ub>>

MutantClearKeepsTail ==
  /\ head' = 0 /\ count' = 0
  /\ UNCHANGED <<storage, tail, ret, ub>>
\* void clear()
Clear ==
  /\ head' = 0 /\ tail' = 0 /\ count' = 0
  /\ UNCHANGED <<storage, ret, ub>>

\* The slot operator[] and *iterator refer to.
At(index) == (head + index) % Capacity

\* T &operator[](size_t index), written through; defined for index < size().
Assign(index, value) ==
  /\ index < count
  /\ storage' = [storage EXCEPT ![At(index)] = value]
  /\ UNCHANGED <<head, tail, count, ret, ub>>

\* The backing storage is whatever the caller's memory holds.
Init ==
  /\ storage \in [Slot -> Value]
  /\ head = 0 /\ tail = 0 /\ count = 0
  /\ ret = Returned(TRUE)
  /\ ub = FALSE
  /\ call = <<"new">>

Next ==
  /\ ~ub
  /\ \/ \E value \in Value, mode \in PushMode :
          Push(value, mode) /\ call' = <<"push", <<value>>, mode>>
     \/ \E values \in Span, mode \in PushMode :
          PushSpan(values, mode) /\ call' = <<"push", values, mode>>
     \/ Pop /\ call' = <<"pop">>
     \/ Clear /\ call' = <<"clear">>
     \/ \E index \in Slot, value \in Value :
          Assign(index, value) /\ call' = <<"assign", index, value>>

Spec == Init /\ [][Next]_vars

(***************************************************************************)
(* Properties                                                              *)
(***************************************************************************)
\* Types of the fields: both indices name a slot (0 in an empty view).
TypeOK ==
  /\ storage \in [Slot -> Value]
  /\ head \in Slot \union {0}
  /\ tail \in Slot \union {0}
  /\ count \in 0..SizeMod - 1
  /\ ret \in [ok : BOOLEAN, val : {<<>>} \union {<<v>> : v \in Value}]
  /\ ub \in BOOLEAN

\* No push() or pop() accesses a slot outside the storage or divides by its size
\* when that is zero, and size() never exceeds capacity(): neither chunk that
\* push(span) copies runs past the last slot, even when an overwrite has just
\* moved the head and the space is computed from the moved head.
StaysInStorage == ~ub /\ count <= Capacity

\* head, tail and count describe the same region in every state: the three
\* fields are updated separately by every operation.
Coherent == Capacity > 0 => tail = (head + count) % Capacity

Inv == TypeOK /\ StaysInStorage /\ Coherent

\* The elements a user sees through operator[], oldest first.
Contents == [i \in 1..count |-> storage[At(i - 1)]]

Fifo == INSTANCE BoundedFifo WITH queue <- Contents

\* The circular buffer is a bounded queue: every call changes the visible
\* elements and returns exactly as the abstract queue does.
RefinesFifo == Fifo!FifoSpec
=============================================================================
