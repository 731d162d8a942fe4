----------------------- MODULE RingBufferView_proofs -----------------------
(***************************************************************************)
(* Proofs about RingBufferView for every element type, capacity and width  *)
(* of size_t, provided that no span is longer than the buffer: that its    *)
(* indices stay coherent, and that it implements the bounded queue.        *)
(***************************************************************************)
EXTENDS RingBufferView, SequenceTheorems, TLAPS

\* An index moves by at most one lap, so the remainder subtracts the capacity
\* at most once.
LEMMA ModOnce ==
  ASSUME NEW n \in Nat, n > 0, NEW a \in 0..2 * n - 1
  PROVE  a % n = IF a < n THEN a ELSE a - n
  OBVIOUS

\* advance() of a slot by at most a full lap, without the remainder.
LEMMA AdvanceOnce ==
  ASSUME Capacity > 0, NEW i \in Slot, NEW step \in 0..Capacity
  PROVE  advance(i, step) = IF i + step < Capacity THEN i + step
                                                   ELSE i + step - Capacity
  <1>1. i + step \in 0..2 * Capacity - 1
    BY CapacityAssumption DEF Slot
  <1> QED
    BY <1>1, ModOnce, CapacityAssumption DEF advance, Slot

\* advance() by one is a slot again.
LEMMA AdvanceByOne ==
  ASSUME Capacity > 0, NEW i \in Slot
  PROVE  /\ advance(i, 1) = IF i + 1 < Capacity THEN i + 1 ELSE i + 1 - Capacity
         /\ advance(i, 1) \in Slot
  <1>1. i + 1 \in 0..2 * Capacity - 1
    BY CapacityAssumption DEF Slot
  <1> QED
    BY <1>1, ModOnce, CapacityAssumption DEF advance, Slot

\* size_t subtraction and addition that do not wrap.
LEMMA CountArithmetic ==
  ASSUME NEW c \in 0..Capacity, NEW step \in Nat
  PROVE  /\ step <= c => CountAfterHead(c, step) = c - step
         /\ c + step <= Capacity => CountAfterTail(c, step) = c + step
  <1>1. ASSUME NEW x \in 0..Capacity PROVE x % SizeMod = x
    BY ModOnce, CapacityAssumption, SizeAssumption, SpanAssumption
  <1> QED
    BY <1>1, CapacityAssumption DEF CountAfterHead, CountAfterTail

\* The region is coherent iff tail is head advanced by count, in the form
\* without a remainder.
LEMMA CoherentOnce ==
  ASSUME Capacity > 0, NEW h \in Slot, NEW c \in 0..Capacity
  PROVE  (h + c) % Capacity = IF h + c < Capacity THEN h + c
                                                  ELSE h + c - Capacity
  BY AdvanceOnce DEF advance

\* A copy whose source indices exist keeps the slots well typed.
LEMMA CopyNType ==
  ASSUME NEW dst \in [Slot -> Value], NEW src \in Seq(Value),
         NEW at \in Nat, NEW from \in Nat, NEW n \in Nat,
         from + n <= Len(src)
  PROVE  CopyN(dst, at, src, from, n) \in [Slot -> Value]
  <1>1. ASSUME NEW i \in Slot, at <= i, i < at + n
        PROVE  src[from + (i - at) + 1] \in Value
    <2>1. from + (i - at) + 1 \in 1..Len(src)
      BY <1>1, CapacityAssumption DEF Slot
    <2> QED
      BY <2>1
  <1> QED
    BY <1>1 DEF CopyN

\* A span is a sequence of at most MaxSpan elements.
LEMMA SpanType ==
  ASSUME NEW values \in Span
  PROVE  values \in Seq(Value) /\ Len(values) \in 0..MaxSpan
  BY SpanAssumption DEF Span

\* An empty view is well formed.
LEMMA InitInv ==
  ASSUME Capacity > 0
  PROVE  Init => Inv
  <1> SUFFICES ASSUME Init PROVE Inv
    OBVIOUS
  <1> USE CapacityAssumption
  <1>0. /\ storage \in [Slot -> Value]
        /\ head = 0 /\ tail = 0 /\ count = 0
        /\ ret = Returned(TRUE)
        /\ ub = FALSE
    BY Zenon DEF Init
  <1>1. TypeOK
    BY <1>0, SizeAssumption, SpanAssumption DEF TypeOK, Returned, Slot
  <1>2. StaysInStorage
    BY <1>0 DEF StaysInStorage
  <1>3. Coherent
    BY <1>0, ModOnce DEF Coherent
  <1> QED
    BY <1>1, <1>2, <1>3 DEF Inv

\* The facts about a reachable state that the steps below use, with the
\* remainder of Coherent resolved.
LEMMA InvFacts ==
  ASSUME Capacity > 0, Inv
  PROVE  /\ head \in Slot /\ tail \in Slot /\ count \in 0..Capacity
         /\ storage \in [Slot -> Value]
         /\ tail = IF head + count < Capacity THEN head + count
                                              ELSE head + count - Capacity
  <1>1. head \in Slot /\ tail \in Slot /\ count \in 0..Capacity
    BY CapacityAssumption DEF Inv, TypeOK, StaysInStorage, Slot
  <1> QED
    BY <1>1, CoherentOnce DEF Inv, TypeOK, Coherent

\* Both indices name a slot, so that push() and pop() of one element access the
\* storage.
LEMMA IndicesWithin ==
  ASSUME Capacity > 0, Inv
  PROVE  Within(tail, 1) /\ Within(head, 1)
  <1>1. head \in Slot /\ tail \in Slot
    BY InvFacts
  <1> QED
    BY <1>1, CapacityAssumption DEF Within, Slot

\* What push(span) does once the remainders are resolved: it drops `over'
\* elements, as many as do not fit, and copies chunk1 elements up to the end of
\* the storage and the others to its start.
LEMMA StoreSpanShape ==
  ASSUME Capacity > 0, MaxSpan <= Capacity, Inv,
         NEW values \in Span, NEW mode \in PushMode, values /= <<>>,
         mode = "overwrite" \/ Len(values) <= get_free_space,
         StoreSpan(values, mode)
  PROVE  \E n \in 1..Capacity, over \in 0..count, chunk1 \in 0..Capacity :
           /\ values \in Seq(Value) /\ n = Len(values) /\ chunk1 <= n
           /\ over = IF count + n > Capacity THEN count + n - Capacity ELSE 0
           /\ chunk1 = IF Capacity - tail >= n THEN n ELSE Capacity - tail
           /\ storage' = CopyN(CopyN(storage, tail, values, 0, chunk1), 0, values, chunk1, n - chunk1)
           /\ head' = IF head + over < Capacity THEN head + over ELSE head + over - Capacity
           /\ tail' = IF tail + n < Capacity THEN tail + n ELSE tail + n - Capacity
           /\ count' = count - over + n
           /\ ret' = Returned(TRUE) /\ ub' = ub
  <1> DEFINE n == Len(values)
             over == IF n > get_free_space THEN n - get_free_space ELSE 0
             h == IF over > 0 THEN advance(head, over) ELSE head
             c == IF over > 0 THEN CountAfterHead(count, over) ELSE count
             space == get_contiguous_push_space(h, c, mode)
             chunk1 == IF space >= n THEN n ELSE space
             chunk2 == n - chunk1
             fits == Within(tail, chunk1) /\ Within(0, chunk2)
  <1> USE CapacityAssumption
  <1>1. /\ head \in Slot /\ tail \in Slot /\ count \in 0..Capacity
        /\ tail = IF head + count < Capacity THEN head + count
                                             ELSE head + count - Capacity
    BY InvFacts
  <1>2. values \in Seq(Value) /\ n \in 1..Capacity
    BY SpanType, SpanAssumption
  <1>3. mode /= "overwrite" => count + n <= Capacity
    BY <1>1, <1>2 DEF get_free_space
  <1> HIDE DEF n
  <1>4. /\ over \in 0..count
        /\ over = IF count + n > Capacity THEN count + n - Capacity ELSE 0
    BY <1>1, <1>2 DEF get_free_space
  <1> HIDE DEF over
  <1>5. c = count - over
    BY <1>1, <1>4, CountArithmetic
  <1>6. h \in Slot /\ h = IF head + over < Capacity THEN head + over ELSE head + over - Capacity
    <2>1. CASE over > 0
      <3>1. over \in 0..Capacity /\ h = advance(head, over)
        BY <1>1, <1>4, <2>1
      <3> QED
        BY <3>1, <1>1, AdvanceOnce DEF Slot
    <2>2. CASE ~(over > 0)
      <3>1. over = 0 /\ h = head
        BY <2>2, <1>1, <1>4
      <3> QED
        BY <3>1, <1>1 DEF Slot
    <2> QED
      BY <2>1, <2>2
  <1> HIDE DEF h, c
  <1>7. /\ space \in 0..Capacity
        /\ chunk1 = IF Capacity - tail >= n THEN n ELSE Capacity - tail
    <2>1. c < Capacity
      BY <1>1, <1>2, <1>4, <1>5
    <2>2. space = IF tail >= h \/ mode = "overwrite" THEN Capacity - tail ELSE h - tail
      BY <2>1, <1>1, <1>4, <1>5 DEF get_contiguous_push_space
    <2> HIDE DEF space
    <2>3. space \in 0..Capacity
      BY <2>2, <1>1, <1>6 DEF Slot
    <2>4. CASE tail >= h \/ mode = "overwrite"
      BY <2>2, <2>3, <2>4
    <2>5. CASE ~(tail >= h \/ mode = "overwrite")
      <3>1. over = 0 /\ h = head /\ count + n <= Capacity
        BY <2>5, <1>1, <1>2, <1>3, <1>4, <1>6 DEF Slot
      <3>2. tail = head + count - Capacity
        BY <2>5, <3>1, <1>1 DEF Slot
      <3>3. space >= n /\ Capacity - tail >= n
        BY <2>2, <2>5, <3>1, <3>2, <1>1, <1>2 DEF Slot
      <3> QED
        BY <2>3, <3>3
    <2> QED
      BY <2>4, <2>5
  <1>8. chunk1 \in 0..Capacity /\ chunk1 <= n /\ chunk2 \in 0..Capacity
    BY <1>2, <1>7
  <1> HIDE DEF space, chunk1, chunk2
  <1>8a. fits
    <2>1. tail + chunk1 <= Capacity
      BY <1>1, <1>2, <1>7, <1>8 DEF Slot
    <2>2. tail \in Slot /\ 0 \in Slot /\ 0 + chunk2 <= Capacity
      BY <1>1, <1>8 DEF Slot
    <2> QED
      BY <2>1, <2>2 DEF Within
  <1> HIDE DEF fits
  <1>9. /\ storage' = CopyN(CopyN(storage, tail, values, 0, chunk1), 0, values, chunk1, chunk2)
        /\ head' = h
        /\ tail' = advance(tail, n)
        /\ count' = CountAfterTail(c, n)
        /\ ret' = Returned(TRUE)
        /\ ub' = ub
    <2>1. \/ ~fits /\ Undefined
          \/ /\ fits
             /\ storage' = CopyN(CopyN(storage, tail, values, 0, chunk1), 0, values, chunk1, chunk2)
             /\ head' = h
             /\ tail' = advance(tail, n)
             /\ count' = CountAfterTail(c, n)
             /\ ret' = Returned(TRUE)
             /\ UNCHANGED ub
      BY Zenon DEF StoreSpan, n, over, h, c, space, chunk1, chunk2, fits
    <2> QED
      BY <2>1, <1>8a
  <1>10. count' = count - over + n
    <2>1. c \in 0..Capacity /\ n \in Nat /\ c + n <= Capacity
      BY <1>1, <1>2, <1>4, <1>5
    <2>2. count' = c + n
      BY <2>1, <1>9, CountArithmetic
    <2> QED
      BY <2>2, <1>5
  <1>11. tail' = IF tail + n < Capacity THEN tail + n ELSE tail + n - Capacity
    BY <1>1, <1>2, <1>9, AdvanceOnce
  <1>12. chunk2 = n - chunk1 /\ n = Len(values)
    BY DEF chunk2, n
  <1> QED
    BY <1>2, <1>4, <1>6, <1>7, <1>8, <1>9, <1>10, <1>11, <1>12

\* push(span) preserves the invariant in both modes: the copies fit the storage.
LEMMA StoreSpanInv ==
  ASSUME Capacity > 0, MaxSpan <= Capacity, Inv,
         NEW values \in Span, NEW mode \in PushMode, values /= <<>>,
         mode = "overwrite" \/ Len(values) <= get_free_space,
         StoreSpan(values, mode)
  PROVE  Inv'
  <1> USE CapacityAssumption
  <1>1. /\ head \in Slot /\ tail \in Slot /\ count \in 0..Capacity
        /\ storage \in [Slot -> Value]
        /\ tail = IF head + count < Capacity THEN head + count
                                             ELSE head + count - Capacity
    BY InvFacts
  <1>2. PICK n \in 1..Capacity, over \in 0..count, chunk1 \in 0..Capacity :
          /\ values \in Seq(Value) /\ n = Len(values) /\ chunk1 <= n
          /\ over = IF count + n > Capacity THEN count + n - Capacity ELSE 0
          /\ chunk1 = IF Capacity - tail >= n THEN n ELSE Capacity - tail
          /\ storage' = CopyN(CopyN(storage, tail, values, 0, chunk1), 0, values, chunk1, n - chunk1)
          /\ head' = IF head + over < Capacity THEN head + over ELSE head + over - Capacity
          /\ tail' = IF tail + n < Capacity THEN tail + n ELSE tail + n - Capacity
          /\ count' = count - over + n
          /\ ret' = Returned(TRUE) /\ ub' = ub
    BY StoreSpanShape
  <1>3. head' \in Slot /\ tail' \in Slot /\ count' \in 0..Capacity
    BY <1>1, <1>2 DEF Slot
  <1>4. storage' \in [Slot -> Value]
    <2>1. /\ tail \in Nat /\ chunk1 \in Nat /\ n - chunk1 \in Nat
          /\ 0 + chunk1 <= Len(values) /\ chunk1 + (n - chunk1) <= Len(values)
      BY <1>1, <1>2 DEF Slot
    <2>2. CopyN(storage, tail, values, 0, chunk1) \in [Slot -> Value]
      BY <2>1, <1>1, <1>2, CopyNType
    <2> QED
      BY <2>1, <2>2, <1>2, CopyNType
  <1>5. TypeOK'
    <2>1. ret' = Returned(TRUE) /\ ub' = ub
      BY <1>2
    <2>2. ret' \in [ok : BOOLEAN, val : {<<>>} \union {<<v>> : v \in Value}] /\ ub' \in BOOLEAN
      BY <2>1 DEF Returned, Inv, TypeOK
    <2>3. count' \in 0..SizeMod - 1
      BY <1>3, SizeAssumption, SpanAssumption
    <2> QED
      BY <1>3, <1>4, <2>2, <2>3 DEF TypeOK
  <1>6. StaysInStorage'
    BY <1>2, <1>3 DEF StaysInStorage, Inv
  <1>7. Coherent'
    <2>1. /\ over = IF count + n > Capacity THEN count + n - Capacity ELSE 0
          /\ head' = IF head + over < Capacity THEN head + over ELSE head + over - Capacity
          /\ tail' = IF tail + n < Capacity THEN tail + n ELSE tail + n - Capacity
          /\ count' = count - over + n
      BY <1>2
    <2>2. tail' = IF head' + count' < Capacity THEN head' + count'
                                               ELSE head' + count' - Capacity
      BY <1>1, <2>1 DEF Slot
    <2>3. head' \in Slot /\ count' \in 0..Capacity
      BY <1>3
    <2> QED
      BY <2>2, <2>3, CoherentOnce DEF Coherent
  <1> QED
    BY <1>5, <1>6, <1>7 DEF Inv

\* push() of one element preserves the invariant in both modes, on a full
\* buffer as well.
LEMMA PushInv ==
  ASSUME Capacity > 0, Inv, NEW value \in Value, NEW mode \in PushMode,
         Push(value, mode)
  PROVE  Inv'
  <1> USE CapacityAssumption
  <1> DEFINE h == IF full THEN advance(head, 1) ELSE head
             c == IF full THEN CountAfterHead(count, 1) ELSE count
  <1>0. /\ head \in Slot /\ tail \in Slot /\ count \in 0..Capacity
        /\ storage \in [Slot -> Value]
        /\ tail = IF head + count < Capacity THEN head + count
                                             ELSE head + count - Capacity
    BY InvFacts
  <1>1. CASE Rejected
    BY <1>1 DEF Rejected, Returned, Inv, TypeOK, StaysInStorage, Coherent
  <1>2. CASE /\ head' = h
             /\ storage' = CopyN(storage, tail, <<value>>, 0, 1)
             /\ tail' = advance(tail, 1)
             /\ count' = CountAfterTail(c, 1)
             /\ ret' = Returned(TRUE)
             /\ UNCHANGED ub
    <2>1. /\ c \in 0..Capacity - 1
          /\ h \in Slot
          /\ full => c = count - 1 /\ h = IF head + 1 < Capacity THEN head + 1 ELSE head + 1 - Capacity
          /\ ~full => c = count /\ h = head
      <3>1. CASE full
        <4>1. h = advance(head, 1) /\ c = CountAfterHead(count, 1)
          BY <3>1
        <4>2. count = Capacity /\ 1 <= count
          BY <3>1 DEF full
        <4> HIDE DEF h, c
        <4>3. c = count - 1
          BY <4>1, <4>2, <1>0, CountArithmetic
        <4>4. c \in 0..Capacity - 1
          BY <4>2, <4>3
        <4> QED
          BY <3>1, <4>1, <4>3, <4>4, <1>0, AdvanceByOne
      <3>2. CASE ~full
        <4>1. h = head /\ c = count
          BY <3>2
        <4>2. count # Capacity
          BY <3>2 DEF full
        <4> HIDE DEF h, c
        <4> QED
          BY <3>2, <4>1, <4>2, <1>0 DEF Slot
      <3> QED
        BY <3>1, <3>2
    <2> HIDE DEF h, c
    <2>2. tail' \in Slot /\ tail' = IF tail + 1 < Capacity THEN tail + 1 ELSE tail + 1 - Capacity
      BY <1>2, <1>0, AdvanceByOne
    <2>3. count' = c + 1
      BY <1>2, <2>1, CountArithmetic
    <2>4. storage' \in [Slot -> Value]
      BY <1>2, <1>0, CopyNType DEF Slot
    <2>5. TypeOK'
      BY <1>2, <2>1, <2>2, <2>3, <2>4, SizeAssumption, SpanAssumption
      DEF TypeOK, Inv, Returned
    <2>6. StaysInStorage'
      BY <1>2, <2>1, <2>3 DEF StaysInStorage, Inv
    <2>7. tail' = IF head' + count' < Capacity THEN head' + count'
                                               ELSE head' + count' - Capacity
      BY <1>2, <2>1, <2>2, <2>3, <1>0 DEF Slot, full
    <2>8. Coherent'
      BY <1>2, <2>1, <2>3, <2>7, CoherentOnce DEF Coherent
    <2> QED
      BY <2>5, <2>6, <2>8 DEF Inv
  <1>3. Within(tail, 1)
    BY IndicesWithin
  <1> QED
    BY <1>1, <1>2, <1>3, Zenon DEF Push

\* pop() preserves the invariant: the oldest element leaves the region.
LEMMA PopInv ==
  ASSUME Capacity > 0, Inv, Pop
  PROVE  Inv'
  <1> USE CapacityAssumption
  <1>0. /\ head \in Slot /\ tail \in Slot /\ count \in 0..Capacity
        /\ storage \in [Slot -> Value]
        /\ tail = IF head + count < Capacity THEN head + count
                                             ELSE head + count - Capacity
    BY InvFacts
  <1>1. CASE Rejected
    BY <1>1 DEF Rejected, Returned, Inv, TypeOK, StaysInStorage, Coherent
  <1>2. CASE /\ ~empty
             /\ ret' = SomeValue(storage[head])
             /\ head' = advance(head, 1)
             /\ count' = CountAfterHead(count, 1)
             /\ UNCHANGED <<storage, tail, ub>>
    <2>1. count' = count - 1 /\ count' \in 0..Capacity
      BY <1>2, <1>0, CountArithmetic DEF empty
    <2>2. head' \in Slot /\ head' = IF head + 1 < Capacity THEN head + 1 ELSE head + 1 - Capacity
      BY <1>2, <1>0, AdvanceByOne
    <2>3. TypeOK'
      BY <1>2, <2>1, <2>2, <1>0, SizeAssumption, SpanAssumption
      DEF TypeOK, Inv, SomeValue
    <2>4. StaysInStorage'
      BY <1>2, <2>1 DEF StaysInStorage, Inv
    <2>5. tail' = IF head' + count' < Capacity THEN head' + count'
                                               ELSE head' + count' - Capacity
      BY <1>2, <2>1, <2>2, <1>0 DEF Slot, empty
    <2>6. Coherent'
      BY <2>1, <2>2, <2>5, CoherentOnce DEF Coherent
    <2> QED
      BY <2>3, <2>4, <2>6 DEF Inv
  <1>3. Within(head, 1)
    BY IndicesWithin
  <1> QED
    BY <1>1, <1>2, <1>3 DEF Pop

\* Every step of the buffer preserves the invariant.
LEMMA NextInv ==
  ASSUME Capacity > 0, MaxSpan <= Capacity, Inv, [Next]_vars
  PROVE  Inv'
  <1> USE CapacityAssumption
  <1>1. ASSUME NEW value \in Value, NEW mode \in PushMode, Push(value, mode)
        PROVE  Inv'
    BY <1>1, PushInv
  <1>2. ASSUME NEW values \in Span, NEW mode \in PushMode, PushSpan(values, mode)
        PROVE  Inv'
    <2>1. CASE values = <<>> /\ ret' = Returned(TRUE) /\ UNCHANGED <<storage, head, tail, count, ub>>
      BY <2>1 DEF Inv, TypeOK, StaysInStorage, Coherent, Returned
    <2>2. CASE Rejected
      BY <2>2 DEF Rejected, Returned, Inv, TypeOK, StaysInStorage, Coherent
    <2>3. CASE /\ values /= <<>>
               /\ mode = "overwrite" \/ Len(values) <= get_free_space
               /\ StoreSpan(values, mode)
      BY <1>2, <2>3, StoreSpanInv
    <2>4. Capacity /= 0
      OBVIOUS
    <2> QED
      BY <1>2, <2>1, <2>2, <2>3, <2>4, Zenon DEF PushSpan
  <1>3. CASE Pop
    BY <1>3, PopInv
  <1>4. CASE Clear
    <2>1. Coherent'
      BY <1>4, ModOnce DEF Clear, Coherent
    <2>2. TypeOK'
      BY <1>4, SizeAssumption, SpanAssumption DEF Clear, Inv, TypeOK, Slot
    <2>3. StaysInStorage'
      BY <1>4 DEF Clear, Inv, StaysInStorage
    <2> QED
      BY <2>1, <2>2, <2>3 DEF Inv
  <1>5. ASSUME NEW index \in Slot, NEW value \in Value, Assign(index, value)
        PROVE  Inv'
    BY <1>5 DEF Assign, Inv, TypeOK, StaysInStorage, Coherent
  <1>6. CASE UNCHANGED vars
    BY <1>6 DEF vars, Inv, TypeOK, StaysInStorage, Coherent
  <1> QED
    BY <1>1, <1>2, <1>3, <1>4, <1>5, <1>6 DEF Next

\* No copy of the buffer runs past its storage, it never counts more than its
\* capacity, and its three fields agree, for every element type, capacity and span no
\* longer than the capacity (RingBuffer.hpp 150-256).  The overlong-span run
\* shows that the last condition is needed.
THEOREM RingBufferSafety ==
  ASSUME Capacity > 0, MaxSpan <= Capacity
  PROVE  Spec => [](TypeOK /\ StaysInStorage /\ Coherent)
  <1>1. Init => Inv
    BY InitInv
  <1>2. Inv /\ [Next]_vars => Inv'
    BY NextInv
  <1>3. Inv => TypeOK /\ StaysInStorage /\ Coherent
    BY DEF Inv
  <1> QED
    BY <1>1, <1>2, <1>3, PTL DEF Spec

(***************************************************************************)
(* The queue.  Given the invariant, each operation is looked at slot by    *)
(* slot: where the elements of the new queue stand, and that the operation *)
(* has left or put them there.                                             *)
(***************************************************************************)
\* The slot of an index that is at most one lap past the end.
Wrap(i) == IF i < Capacity THEN i ELSE i - Capacity

\* The elements of a buffer with slots s, head h and count c.
ContentsOf(s, h, c) == [i \in 1..c |-> s[Wrap(h + i - 1)]]

\* They are a sequence, and every index it is read at is a slot.
LEMMA ContentsOfSeq ==
  ASSUME Capacity > 0,
         NEW s \in [Slot -> Value], NEW h \in Slot, NEW c \in 0..Capacity
  PROVE  /\ ContentsOf(s, h, c) \in Seq(Value) /\ Len(ContentsOf(s, h, c)) = c
         /\ \A i \in 1..c : ContentsOf(s, h, c)[i] = s[Wrap(h + i - 1)]
  <1>1. \A i \in 1..c : Wrap(h + i - 1) \in Slot
    BY CapacityAssumption DEF Slot, Wrap
  <1>2. ContentsOf(s, h, c) \in [1..c -> Value]
    BY <1>1 DEF ContentsOf
  <1>3. c \in Nat
    BY CapacityAssumption
  <1> QED
    BY <1>2, <1>3 DEF ContentsOf

\* What operator[] reads is those elements.
LEMMA ContentsWrap ==
  ASSUME Capacity > 0,
         NEW s \in [Slot -> Value], NEW h \in Slot, NEW c \in 0..Capacity
  PROVE  [i \in 1..c |-> s[(h + (i - 1)) % Capacity]] = ContentsOf(s, h, c)
  <1>1. ASSUME NEW i \in 1..c PROVE (h + (i - 1)) % Capacity = Wrap(h + i - 1)
    <2>1. h + (i - 1) \in 0..2 * Capacity - 1 /\ h + (i - 1) = h + i - 1
      BY CapacityAssumption DEF Slot
    <2> QED
      BY <2>1, ModOnce, CapacityAssumption DEF Wrap
  <1> QED
    BY <1>1 DEF ContentsOf

\* The slots t hold the n elements vs after the c that start at h.
Stored(t, h, c, vs, n) == \A k \in 0..n - 1 : t[Wrap(Wrap(h + c) + k)] = vs[k + 1]

\* The slots t still hold the elements of s from the one at index `from' on.
Kept(t, s, h, from, c) == \A k \in from..c - 1 : t[Wrap(h + k)] = s[Wrap(h + k)]

\* A push of n elements onto c drops `over' of them.
Drops(over, c, n) ==
  /\ c + n > Capacity => over = c + n - Capacity
  /\ c + n <= Capacity => over = 0

\* A push that drops `over' elements at the head, keeps the others where they
\* are and puts the new ones behind them leaves the newest elements.
LEMMA PushedContents ==
  ASSUME Capacity > 0,
         NEW s \in [Slot -> Value], NEW t \in [Slot -> Value],
         NEW h \in Slot, NEW c \in 0..Capacity,
         NEW vs \in Seq(Value), NEW n \in 1..Capacity, n = Len(vs),
         NEW over \in 0..c, Drops(over, c, n),
         Stored(t, h, c, vs, n), Kept(t, s, h, over, c)
  PROVE  ContentsOf(t, Wrap(h + over), c - over + n) = Fifo!Newest(ContentsOf(s, h, c) \o vs)
  <1> USE CapacityAssumption
  <1> DEFINE q == ContentsOf(s, h, c)
             all == q \o vs
             new == ContentsOf(t, Wrap(h + over), c - over + n)
             m == c - over + n
  <1>1. /\ q \in Seq(Value) /\ Len(q) = c
        /\ \A i \in 1..c : q[i] = s[Wrap(h + i - 1)]
    BY ContentsOfSeq
  <1>2. over \in 0..c /\ m \in 0..Capacity /\ Wrap(h + over) \in Slot
    BY DEF Drops, Slot, Wrap
  <1>3. /\ new \in Seq(Value) /\ Len(new) = m
        /\ \A i \in 1..m : new[i] = t[Wrap(Wrap(h + over) + i - 1)]
    BY <1>2, ContentsOfSeq
  <1>4. /\ all \in Seq(Value) /\ Len(all) = c + n
        /\ \A i \in 1..c + n : all[i] = IF i <= c THEN q[i] ELSE vs[i - c]
    <2> HIDE DEF q
    <2> QED
      BY <1>1, ConcatProperties
  <1> HIDE DEF q, new, all
  <1>5. ASSUME NEW i \in 1..m PROVE new[i] = all[over + i]
    <2>1. over + i \in 1..c + n /\ over + i - 1 \in Nat
      BY <1>2
    <2>2. Wrap(Wrap(h + over) + i - 1) = Wrap(h + (over + i - 1)) \/ over + i - 1 >= c
      BY <1>2 DEF Slot, Wrap
    <2>3. CASE over + i <= c
      <3>1. over + i - 1 \in over..c - 1
        BY <1>2, <2>3
      <3>2. t[Wrap(h + (over + i - 1))] = s[Wrap(h + (over + i - 1))]
        BY <3>1 DEF Kept
      <3>3. q[over + i] = s[Wrap(h + (over + i - 1))]
        <4>1. over + i \in 1..c /\ h + (over + i) - 1 = h + (over + i - 1)
          BY <1>2, <2>3 DEF Slot
        <4> QED
          BY <4>1, <1>1
      <3>4. new[i] = t[Wrap(h + (over + i - 1))]
        BY <1>2, <1>3, <2>2, <2>3
      <3> QED
        BY <2>1, <2>3, <3>2, <3>3, <3>4, <1>4
    <2>4. CASE ~(over + i <= c)
      <3> DEFINE k == over + i - 1 - c
      <3>1. k \in 0..n - 1
        BY <1>2, <2>4
      <3>2. Wrap(Wrap(h + over) + i - 1) = Wrap(Wrap(h + c) + k)
        BY <1>2, <2>4 DEF Slot, Wrap
      <3>3. k + 1 = over + i - c
        BY <1>2
      <3> HIDE DEF k
      <3>4. new[i] = vs[k + 1]
        BY <1>3, <3>1, <3>2 DEF Stored
      <3> QED
        BY <2>1, <2>4, <3>3, <3>4, <1>4
    <2> QED
      BY <2>3, <2>4, Zenon
  <1>6. CASE c + n <= Capacity
    <2>1. over = 0 /\ m = c + n
      BY <1>2, <1>6 DEF Drops
    <2>2. Fifo!Newest(all) = all
      BY <1>4, <1>6, Zenon DEF Fifo!Newest
    <2>3. \A i \in 1..Len(new) : new[i] = all[i]
      BY <1>3, <1>5, <2>1
    <2>4. new = all
      BY <1>3, <1>4, <2>1, <2>3, SeqEqual
    <2> QED
      BY <2>2, <2>4 DEF new, all, q
  <1>7. CASE c + n > Capacity
    <2> DEFINE cut == SubSeq(all, c + n - Capacity + 1, c + n)
    <2>1. /\ over = c + n - Capacity /\ m = Capacity
          /\ Fifo!Newest(all) = cut
      BY <1>4, <1>7 DEF Drops, Fifo!Newest
    <2>2. \A i \in c + n - Capacity + 1..c + n : all[i] \in Value
      <3>1. \A i \in 1..Len(all) : all[i] \in Value
        BY <1>4, ElementOfSeq
      <3> QED
        BY <3>1, <1>4, <1>7
    <2>3. /\ cut \in Seq(Value) /\ Len(cut) = Capacity
          /\ \A i \in 1..Capacity : cut[i] = all[over + i]
      <3>1. /\ cut \in Seq(Value)
            /\ Len(cut) = IF c + n - Capacity + 1 <= c + n
                          THEN c + n - (c + n - Capacity + 1) + 1 ELSE 0
            /\ \A i \in 1..c + n - (c + n - Capacity + 1) + 1 :
                 cut[i] = all[c + n - Capacity + 1 + i - 1]
        BY <2>2, SubSeqProperties
      <3>2. /\ c + n - (c + n - Capacity + 1) + 1 = Capacity
            /\ \A i \in 1..Capacity : c + n - Capacity + 1 + i - 1 = over + i
        BY <1>7 DEF Drops
      <3> HIDE DEF cut
      <3>3. Len(cut) = Capacity
        <4>1. c + n - Capacity + 1 <= c + n
          OBVIOUS
        <4> QED
          BY <3>1, <3>2, <4>1, Zenon
      <3>4. ASSUME NEW i \in 1..Capacity PROVE cut[i] = all[over + i]
        <4>1. c + n - Capacity + 1 + i - 1 = over + i
          BY <3>2
        <4>2. cut[i] = all[c + n - Capacity + 1 + i - 1]
          BY <3>1, <3>2
        <4> QED
          BY <4>1, <4>2
      <3> QED
        BY <3>1, <3>3, <3>4
    <2> HIDE DEF cut
    <2>4. ASSUME NEW i \in 1..Len(new) PROVE new[i] = cut[i]
      <3>1. i \in 1..m /\ i \in 1..Capacity
        BY <1>3, <2>1
      <3> QED
        BY <3>1, <1>5, <2>3
    <2>5. new = cut
      BY <1>3, <2>1, <2>3, <2>4, SeqEqual
    <2> QED
      BY <2>1, <2>5 DEF new, all, q
  <1>8. c + n <= Capacity \/ c + n > Capacity
    BY DEF Slot
  <1> QED
    BY <1>6, <1>7, <1>8, Zenon

\* The same with its premises under one name, in the form it is cited in.
Pushed(s, t, h, c, vs, n, over) ==
  /\ s \in [Slot -> Value] /\ t \in [Slot -> Value]
  /\ h \in Slot /\ c \in 0..Capacity /\ over \in 0..c
  /\ vs \in Seq(Value) /\ n \in 1..Capacity /\ n = Len(vs)
  /\ Drops(over, c, n) /\ Stored(t, h, c, vs, n) /\ Kept(t, s, h, over, c)

LEMMA PushedQueue ==
  ASSUME Capacity > 0, NEW s, NEW t, NEW h, NEW c, NEW vs, NEW n, NEW over,
         Pushed(s, t, h, c, vs, n, over)
  PROVE  ContentsOf(t, Wrap(h + over), c - over + n) = Fifo!Newest(ContentsOf(s, h, c) \o vs)
  <1>1. /\ s \in [Slot -> Value] /\ t \in [Slot -> Value]
        /\ h \in Slot /\ c \in 0..Capacity /\ over \in 0..c
        /\ vs \in Seq(Value) /\ n \in 1..Capacity /\ n = Len(vs)
        /\ Drops(over, c, n) /\ Stored(t, h, c, vs, n) /\ Kept(t, s, h, over, c)
    BY Zenon DEF Pushed
  <1> QED
    BY <1>1, PushedContents

\* One element of a copy.
LEMMA CopyNAt ==
  ASSUME NEW dst, NEW at, NEW src, NEW from, NEW n, NEW i \in Slot
  PROVE  /\ at <= i /\ i < at + n => CopyN(dst, at, src, from, n)[i] = src[from + (i - at) + 1]
         /\ ~(at <= i /\ i < at + n) => CopyN(dst, at, src, from, n)[i] = dst[i]
  BY DEF CopyN

\* The two chunks of push(span): n elements from the tail on, the part that
\* passes the end at the start of the storage.
LEMMA ChunksStored ==
  ASSUME Capacity > 0, NEW s \in [Slot -> Value], NEW vs \in Seq(Value),
         NEW h \in Slot, NEW c \in 0..Capacity, NEW n \in 1..Capacity,
         NEW over \in 0..c, c - over + n <= Capacity,
         NEW chunk1 \in 0..n,
         chunk1 = IF Capacity - Wrap(h + c) >= n THEN n ELSE Capacity - Wrap(h + c)
  PROVE  LET t == CopyN(CopyN(s, Wrap(h + c), vs, 0, chunk1), 0, vs, chunk1, n - chunk1)
         IN  Stored(t, h, c, vs, n) /\ Kept(t, s, h, over, c)
  <1> USE CapacityAssumption
  <1> DEFINE tl == Wrap(h + c)
             s1 == CopyN(s, tl, vs, 0, chunk1)
             t == CopyN(s1, 0, vs, chunk1, n - chunk1)
  <1>1. tl \in Slot /\ tl + chunk1 <= Capacity /\ n - chunk1 <= tl
        /\ (n - chunk1 > 0 => tl + chunk1 = Capacity)
    BY DEF Slot, Wrap
  <1>2. ASSUME NEW k \in 0..n - 1 PROVE t[Wrap(tl + k)] = vs[k + 1]
    <2> DEFINE i == Wrap(tl + k)
    <2>1. i \in Slot
      BY <1>1 DEF Slot, Wrap
    <2>2. CASE k < chunk1
      <3>1. i = tl + k
        BY <1>1, <2>2 DEF Slot, Wrap
      <3>2. ~(0 <= i /\ i < 0 + (n - chunk1))
        BY <1>1, <3>1 DEF Slot
      <3>3. tl <= i /\ i < tl + chunk1 /\ 0 + (i - tl) + 1 = k + 1
        BY <1>1, <2>2, <3>1 DEF Slot
      <3> HIDE DEF tl, s1, i
      <3>4. t[i] = s1[i]
        BY <2>1, <3>2, CopyNAt
      <3>5. s1[i] = vs[k + 1]
        BY <2>1, <3>3, CopyNAt DEF s1
      <3> QED
        BY <3>4, <3>5 DEF i
    <2>3. CASE ~(k < chunk1)
      <3>1. n - chunk1 > 0
        BY <2>3
      <3>2. i = k - chunk1
        BY <1>1, <2>3, <3>1 DEF Slot, Wrap
      <3>3. 0 <= i /\ i < 0 + (n - chunk1) /\ chunk1 + (i - 0) + 1 = k + 1
        BY <2>3, <3>2
      <3> HIDE DEF tl, s1, i
      <3>4. t[i] = vs[k + 1]
        BY <2>1, <3>3, CopyNAt
      <3> QED
        BY <3>4 DEF i
    <2> QED
      BY <2>2, <2>3
  <1>3. ASSUME NEW k \in over..c - 1 PROVE t[Wrap(h + k)] = s[Wrap(h + k)]
    <2> DEFINE i == Wrap(h + k)
    <2>1. i \in Slot
      BY DEF Slot, Wrap
    <2>2. ~(0 <= i /\ i < 0 + (n - chunk1)) /\ ~(tl <= i /\ i < tl + chunk1)
      BY <1>1 DEF Slot, Wrap
    <2> HIDE DEF tl, s1, i
    <2>3. t[i] = s1[i]
      BY <2>1, <2>2, CopyNAt
    <2>4. s1[i] = s[i]
      BY <2>1, <2>2, CopyNAt DEF s1
    <2> QED
      BY <2>3, <2>4 DEF i
  <1>4. Stored(t, h, c, vs, n)
    BY <1>2 DEF Stored
  <1>5. Kept(t, s, h, over, c)
    BY <1>3 DEF Kept
  <1> QED
    BY <1>4, <1>5

\* What a user sees, before and after a step.
LEMMA ContentsNow ==
  ASSUME Capacity > 0, Inv
  PROVE  Contents = ContentsOf(storage, head, count)
  BY InvFacts, ContentsWrap DEF Contents, At

LEMMA ContentsNext ==
  ASSUME Capacity > 0, Inv'
  PROVE  /\ Contents' = ContentsOf(storage', head', count')
         /\ storage' \in [Slot -> Value] /\ head' \in Slot /\ count' \in 0..Capacity
  <1>1. storage' \in [Slot -> Value] /\ head' \in Slot /\ count' \in 0..Capacity
    BY CapacityAssumption DEF Inv, TypeOK, StaysInStorage, Slot
  <1>2. Contents' = [i \in 1..count' |-> storage'[(head' + (i - 1)) % Capacity]]
    BY DEF Contents, At
  <1> QED
    BY <1>1, <1>2, ContentsWrap

\* A rejected call, and one that has nothing to store, leave the queue.
LEMMA ContentsKept ==
  ASSUME storage' = storage, head' = head, count' = count
  PROVE  Contents' = Contents
  BY DEF Contents, At

LEMMA ContentsLen ==
  ASSUME Capacity > 0, Inv
  PROVE  /\ Contents \in Seq(Value) /\ Len(Contents) = count /\ count \in 0..Capacity
         /\ \A i \in 1..count : Contents[i] = storage[Wrap(head + i - 1)]
  BY InvFacts, ContentsNow, ContentsOfSeq

\* The tail is the slot after the last element.
LEMMA TailWrap ==
  ASSUME Capacity > 0, Inv
  PROVE  tail = Wrap(head + count)
  <1>1. /\ head \in Int /\ count \in Int
        /\ tail = IF head + count < Capacity THEN head + count ELSE head + count - Capacity
    BY InvFacts, CapacityAssumption DEF Slot
  <1>2. CASE head + count < Capacity
    BY <1>1, <1>2 DEF Wrap
  <1>3. CASE ~(head + count < Capacity)
    BY <1>1, <1>3, CapacityAssumption DEF Wrap
  <1> QED
    BY <1>2, <1>3, Zenon

\* push() of one element, in both modes, is that of the queue.
LEMMA PushStep ==
  ASSUME Capacity > 0, Inv, Inv', NEW value \in Value, NEW mode \in PushMode, Push(value, mode)
  PROVE  Fifo!FifoPush(<<value>>, mode)
  <1> USE CapacityAssumption
  <1>1. /\ head \in Slot /\ tail \in Slot /\ count \in 0..Capacity
        /\ storage \in [Slot -> Value] /\ tail = Wrap(head + count)
    BY InvFacts, TailWrap, Zenon
  <1>2. Len(Contents) = count
    BY ContentsLen
  <1>3. <<value>> \in Seq(Value) /\ Len(<<value>>) = 1 /\ <<value>>[1] = value
    OBVIOUS
  <1>4. CASE full /\ mode = "normal" /\ Rejected
    <2>1. Contents' = Contents
      BY <1>4, ContentsKept DEF Rejected
    <2>2. count + 1 > Capacity /\ ret' = Returned(FALSE)
      BY <1>1, <1>4 DEF full, Rejected
    <2>3. Fifo!Returned(FALSE) = Returned(FALSE)
      BY DEF Fifo!Returned, Returned
    <2> QED
      BY <1>2, <1>3, <1>4, <2>1, <2>2, <2>3 DEF Fifo!FifoPush
  <1>5. CASE /\ ~(full /\ mode = "normal")
             /\ head' = IF full THEN advance(head, 1) ELSE head
             /\ storage' = CopyN(storage, tail, <<value>>, 0, 1)
             /\ tail' = advance(tail, 1)
             /\ count' = CountAfterTail(IF full THEN CountAfterHead(count, 1) ELSE count, 1)
             /\ ret' = Returned(TRUE)
             /\ UNCHANGED ub
    <2> DEFINE over == IF full THEN 1 ELSE 0
    <2>1. over \in 0..count /\ Drops(over, count, 1)
      BY <1>1 DEF full, Drops
    <2>2. head' = Wrap(head + over)
      BY <1>1, <1>5, AdvanceByOne DEF Slot, Wrap
    <2>3. count' = count - over + 1
      <3>1. CASE full
        <4>1. /\ CountAfterHead(count, 1) = count - 1
              /\ count - 1 \in 0..Capacity /\ count - 1 + 1 <= Capacity
          BY <1>1, <3>1, CountArithmetic DEF full
        <4> QED
          BY <1>5, <3>1, <4>1, CountArithmetic
      <3>2. CASE ~full
        <4>1. count + 1 <= Capacity
          BY <1>1, <3>2 DEF full
        <4> QED
          BY <1>1, <1>5, <3>2, <4>1, CountArithmetic
      <3> QED
        BY <3>1, <3>2
    <2> HIDE DEF over
    <2>4. Stored(storage', head, count, <<value>>, 1)
      <3>1. Wrap(Wrap(head + count) + 0) = tail
        BY <1>1 DEF Slot, Wrap
      <3>2. storage'[tail] = value
        BY <1>1, <1>3, <1>5, CopyNAt DEF Slot
      <3> QED
        BY <1>3, <3>1, <3>2 DEF Stored
    <2>5. Kept(storage', storage, head, over, count)
      <3> SUFFICES ASSUME NEW k \in over..count - 1
                   PROVE  storage'[Wrap(head + k)] = storage[Wrap(head + k)]
        BY DEF Kept
      <3>1. Wrap(head + k) \in Slot /\ ~(tail <= Wrap(head + k) /\ Wrap(head + k) < tail + 1)
        <4>1. k \in 0..count - 1 /\ (count = Capacity => k /= 0)
          BY <1>1, <2>1 DEF Drops
        <4> QED
          BY <1>1, <4>1 DEF Slot, Wrap
      <3> QED
        BY <1>5, <3>1, CopyNAt
    <2>6. Contents' = Fifo!Newest(Contents \o <<value>>)
      <3>1. storage' \in [Slot -> Value] /\ 1 \in 1..Capacity /\ 1 = Len(<<value>>)
        BY <1>3, ContentsNext
      <3>2. ContentsOf(storage', Wrap(head + over), count - over + 1)
              = Fifo!Newest(ContentsOf(storage, head, count) \o <<value>>)
        <4>1. Pushed(storage, storage', head, count, <<value>>, 1, over)
          BY <1>1, <1>3, <2>1, <2>4, <2>5, <3>1, Zenon DEF Pushed
        <4> QED
          BY <4>1, PushedQueue
      <3> QED
        BY <3>2, <2>2, <2>3, ContentsNow, ContentsNext
    <2>7. mode = "overwrite" \/ Len(Contents) + Len(<<value>>) <= Capacity
      BY <1>1, <1>2, <1>3, <1>5 DEF full, PushMode
    <2>8. ret' = Fifo!Returned(TRUE)
      BY <1>5 DEF Fifo!Returned, Returned
    <2> QED
      BY <2>6, <2>7, <2>8 DEF Fifo!FifoPush
  <1>6. Within(tail, 1)
    BY IndicesWithin
  <1> QED
    BY <1>4, <1>5, <1>6, Zenon DEF Push

\* push() of a span is that of the queue.
LEMMA PushSpanStep ==
  ASSUME Capacity > 0, MaxSpan <= Capacity, Inv, Inv',
         NEW values \in Span, NEW mode \in PushMode, PushSpan(values, mode)
  PROVE  Fifo!FifoPush(values, mode)
  <1> USE CapacityAssumption
  <1>1. /\ head \in Slot /\ tail \in Slot /\ count \in 0..Capacity
        /\ storage \in [Slot -> Value] /\ tail = Wrap(head + count)
    BY InvFacts, TailWrap, Zenon
  <1>2. Contents \in Seq(Value) /\ Len(Contents) = count
    BY ContentsLen
  <1>3. values \in Seq(Value) /\ Len(values) \in Nat
    BY SpanType
  <1>4. CASE /\ values = <<>>
             /\ ret' = Returned(TRUE)
             /\ UNCHANGED <<storage, head, tail, count, ub>>
    <2>1. Contents' = Contents
      BY <1>4, ContentsKept
    <2>2. Contents \o values = Contents
      BY <1>2, <1>4, ConcatEmptySeq
    <2>3. Fifo!Newest(Contents) = Contents
      BY <1>1, <1>2 DEF Fifo!Newest
    <2>4. Len(Contents) + Len(values) <= Capacity
      BY <1>1, <1>2, <1>4
    <2>5. ret' = Fifo!Returned(TRUE)
      BY <1>4 DEF Fifo!Returned, Returned
    <2> QED
      BY <2>1, <2>2, <2>3, <2>4, <2>5 DEF Fifo!FifoPush
  <1>5. CASE mode = "normal" /\ Len(values) > get_free_space /\ Rejected
    <2>1. Contents' = Contents
      BY <1>5, ContentsKept DEF Rejected
    <2>2. Len(Contents) + Len(values) > Capacity
      BY <1>1, <1>2, <1>3, <1>5 DEF get_free_space
    <2>3. ret' = Fifo!Returned(FALSE)
      BY <1>5 DEF Rejected, Fifo!Returned, Returned
    <2> QED
      BY <1>5, <2>1, <2>2, <2>3 DEF Fifo!FifoPush
  <1>6. CASE /\ values /= <<>>
             /\ mode = "overwrite" \/ Len(values) <= get_free_space
             /\ StoreSpan(values, mode)
    <2>1. PICK n \in 1..Capacity, over \in 0..count, chunk1 \in 0..Capacity :
            /\ values \in Seq(Value) /\ n = Len(values) /\ chunk1 <= n
            /\ over = IF count + n > Capacity THEN count + n - Capacity ELSE 0
            /\ chunk1 = IF Capacity - tail >= n THEN n ELSE Capacity - tail
            /\ storage' = CopyN(CopyN(storage, tail, values, 0, chunk1), 0, values, chunk1, n - chunk1)
            /\ head' = IF head + over < Capacity THEN head + over ELSE head + over - Capacity
            /\ tail' = IF tail + n < Capacity THEN tail + n ELSE tail + n - Capacity
            /\ count' = count - over + n
            /\ ret' = Returned(TRUE) /\ ub' = ub
      BY <1>6, StoreSpanShape
    <2>2. /\ over = IF count + n > Capacity THEN count + n - Capacity ELSE 0
          /\ chunk1 <= n /\ count' = count - over + n
          /\ head' = IF head + over < Capacity THEN head + over ELSE head + over - Capacity
      BY <2>1
    <2>3. /\ chunk1 \in 0..n /\ count - over + n <= Capacity
          /\ head' = Wrap(head + over)
          /\ Drops(over, count, n)
      BY <1>1, <2>2 DEF Wrap, Drops
    <2>4. Stored(storage', head, count, values, n) /\ Kept(storage', storage, head, over, count)
      <3>1. chunk1 = IF Capacity - Wrap(head + count) >= n THEN n ELSE Capacity - Wrap(head + count)
        BY <1>1, <2>1
      <3>2. storage' = CopyN(CopyN(storage, Wrap(head + count), values, 0, chunk1),
                             0, values, chunk1, n - chunk1)
        BY <1>1, <2>1
      <3>3. chunk1 \in 0..n /\ count - over + n <= Capacity
        BY <2>2, <2>3
      <3> QED
        BY <1>1, <1>3, <3>1, <3>2, <3>3, ChunksStored
    <2>5. Contents' = Fifo!Newest(Contents \o values)
      <3>1. storage' \in [Slot -> Value] /\ n = Len(values)
        BY <2>1, ContentsNext
      <3>2. ContentsOf(storage', Wrap(head + over), count - over + n)
              = Fifo!Newest(ContentsOf(storage, head, count) \o values)
        <4>1. Pushed(storage, storage', head, count, values, n, over)
          BY <1>1, <1>3, <2>3, <2>4, <3>1, Zenon DEF Pushed
        <4> QED
          BY <4>1, PushedQueue
      <3> QED
        BY <3>2, <2>2, <2>3, ContentsNow, ContentsNext
    <2>6. mode = "overwrite" \/ Len(Contents) + Len(values) <= Capacity
      BY <1>1, <1>2, <1>3, <1>6 DEF get_free_space
    <2>7. ret' = Fifo!Returned(TRUE)
      BY <2>1 DEF Fifo!Returned, Returned
    <2> QED
      BY <2>5, <2>6, <2>7 DEF Fifo!FifoPush
  <1>7. Capacity /= 0
    OBVIOUS
  <1> QED
    BY <1>4, <1>5, <1>6, <1>7, Zenon DEF PushSpan

\* The elements after a step, as ContentsLen gives those before it.
LEMMA ContentsLenNext ==
  ASSUME Capacity > 0, Inv'
  PROVE  /\ Contents' \in Seq(Value) /\ Len(Contents') = count' /\ count' \in 0..Capacity
         /\ \A i \in 1..count' : Contents'[i] = storage'[Wrap(head' + i - 1)]
  BY ContentsNext, ContentsOfSeq

\* pop() takes the first element of the queue.
LEMMA PopStep ==
  ASSUME Capacity > 0, Inv, Inv', Pop
  PROVE  Fifo!FifoPop
  <1> USE CapacityAssumption
  <1>1. head \in Slot /\ count \in 0..Capacity
    BY InvFacts
  <1>2. /\ Contents \in Seq(Value) /\ Len(Contents) = count
        /\ \A i \in 1..count : Contents[i] = storage[Wrap(head + i - 1)]
    BY ContentsLen
  <1>3. CASE empty /\ Rejected
    <2>1. Contents' = Contents
      BY <1>3, ContentsKept DEF Rejected
    <2>2. Contents = <<>>
      BY <1>2, <1>3, EmptySeq DEF empty
    <2>3. ret' = Fifo!Returned(FALSE)
      BY <1>3 DEF Rejected, Fifo!Returned, Returned
    <2> QED
      BY <2>1, <2>2, <2>3 DEF Fifo!FifoPop
  <1>4. CASE /\ ~empty
             /\ ret' = SomeValue(storage[head])
             /\ head' = advance(head, 1)
             /\ count' = CountAfterHead(count, 1)
             /\ UNCHANGED <<storage, tail, ub>>
    <2>1. count \in 1..Capacity /\ Contents /= <<>>
      BY <1>1, <1>2, <1>4, EmptySeq DEF empty
    <2>2. head' = Wrap(head + 1) /\ count' = count - 1
      <3>1. head' = Wrap(head + 1)
        BY <1>1, <1>4, AdvanceByOne DEF Slot, Wrap
      <3>2. CountAfterHead(count, 1) = count - 1
        BY <2>1, CountArithmetic
      <3> QED
        BY <1>4, <3>1, <3>2
    <2>3. ret' = Fifo!SomeValue(Head(Contents))
      <3>1. Wrap(head + 1 - 1) = head
        BY <1>1 DEF Slot, Wrap
      <3>2. 1 \in 1..count /\ Head(Contents) = Contents[1]
        BY <1>2, <2>1
      <3>3. Head(Contents) = storage[head]
        BY <1>2, <3>1, <3>2
      <3> QED
        BY <1>4, <3>3 DEF Fifo!SomeValue, SomeValue
    <2>4. /\ Tail(Contents) \in Seq(Value) /\ Len(Tail(Contents)) = count - 1
          /\ \A i \in 1..count - 1 : Tail(Contents)[i] = Contents[i + 1]
      BY <1>2, <2>1, HeadTailProperties
    <2>5. /\ Contents' \in Seq(Value) /\ Len(Contents') = count - 1
          /\ \A i \in 1..count - 1 : Contents'[i] = storage'[Wrap(head' + i - 1)]
      BY <2>2, ContentsLenNext
    <2>6. ASSUME NEW i \in 1..count - 1 PROVE Contents'[i] = Tail(Contents)[i]
      <3>1. Wrap(Wrap(head + 1) + i - 1) = Wrap(head + (i + 1) - 1) /\ i + 1 \in 1..count
        BY <1>1, <2>1 DEF Slot, Wrap
      <3>2. Tail(Contents)[i] = storage[Wrap(head + (i + 1) - 1)]
        BY <1>2, <2>4, <3>1
      <3>3. Contents'[i] = storage[Wrap(Wrap(head + 1) + i - 1)]
        BY <1>4, <2>2, <2>5
      <3> QED
        BY <3>1, <3>2, <3>3
    <2>7. Contents' = Tail(Contents)
      BY <2>4, <2>5, <2>6, SeqEqual
    <2> QED
      BY <2>1, <2>3, <2>7 DEF Fifo!FifoPop
  <1>5. Within(head, 1)
    BY IndicesWithin
  <1> QED
    BY <1>3, <1>4, <1>5, Zenon DEF Pop

\* clear() empties the queue.
LEMMA ClearStep ==
  ASSUME Capacity > 0, Inv', Clear
  PROVE  Fifo!FifoClear
  <1>1. Contents' \in Seq(Value) /\ Len(Contents') = 0 /\ ret' = ret
    BY ContentsLenNext DEF Clear
  <1>2. Contents' = <<>>
    BY <1>1, EmptySeq
  <1> QED
    BY <1>1, <1>2 DEF Fifo!FifoClear

\* A write through operator[] changes that element of the queue only: no other
\* index names its slot.
LEMMA AssignStep ==
  ASSUME Capacity > 0, Inv, Inv', NEW index \in Slot, NEW value \in Value, Assign(index, value)
  PROVE  Fifo!FifoAssign(index, value)
  <1> USE CapacityAssumption
  <1>1. /\ head \in Slot /\ count \in 0..Capacity /\ storage \in [Slot -> Value]
        /\ index \in 0..count - 1
    BY InvFacts DEF Assign, Slot
  <1>2. /\ Contents \in Seq(Value) /\ Len(Contents) = count
        /\ \A i \in 1..count : Contents[i] = storage[Wrap(head + i - 1)]
    BY ContentsLen
  <1>3. /\ Contents' \in Seq(Value) /\ Len(Contents') = count
        /\ \A i \in 1..count : Contents'[i] = storage'[Wrap(head + i - 1)]
    BY ContentsLenNext DEF Assign
  <1>4. storage' = [storage EXCEPT ![Wrap(head + index)] = value]
    <2>1. At(index) = Wrap(head + index)
      BY <1>1, CoherentOnce DEF At, Wrap
    <2> QED
      BY <2>1 DEF Assign
  <1> DEFINE written == [Contents EXCEPT ![index + 1] = value]
  <1>5. /\ written \in Seq(Value) /\ Len(written) = count
        /\ \A j \in 1..count : written[j] = IF j = index + 1 THEN value ELSE Contents[j]
    <2>1. index + 1 \in 1..Len(Contents)
      BY <1>1, <1>2
    <2> QED
      BY <1>2, <2>1, ExceptSeq
  <1> HIDE DEF written
  <1>6. ASSUME NEW i \in 1..count PROVE Contents'[i] = written[i]
    <2>1. Wrap(head + i - 1) \in Slot /\ Wrap(head + index) \in Slot
      BY <1>1 DEF Slot, Wrap
    <2>2. Wrap(head + i - 1) = Wrap(head + index) <=> i = index + 1
      BY <1>1 DEF Slot, Wrap
    <2>3. CASE i = index + 1
      <3>1. storage'[Wrap(head + i - 1)] = value
        BY <1>1, <1>4, <2>1, <2>2, <2>3
      <3> QED
        BY <1>3, <1>5, <2>3, <3>1
    <2>4. CASE i /= index + 1
      <3>1. storage'[Wrap(head + i - 1)] = storage[Wrap(head + i - 1)]
        BY <1>1, <1>4, <2>1, <2>2, <2>4
      <3> QED
        BY <1>2, <1>3, <1>5, <2>4, <3>1
    <2> QED
      BY <2>3, <2>4
  <1>7. Contents' = written
    BY <1>3, <1>5, <1>6, SeqEqual
  <1> QED
    BY <1>1, <1>2, <1>7 DEF Fifo!FifoAssign, Assign, written

\* Every step of the circular buffer is one of the queue.
LEMMA FifoStep ==
  ASSUME MaxSpan > 0, MaxSpan <= Capacity, Inv, Inv', [Next]_vars
  PROVE  [Fifo!FifoNext]_<<Contents, ret, call>>
  <1>0. Capacity > 0
    BY SpanAssumption, CapacityAssumption
  <1>1. Fifo!Span = Span /\ Fifo!PushMode = PushMode
    BY DEF Fifo!Span, Span, Fifo!PushMode, PushMode
  <1>2. ASSUME NEW value \in Value, NEW mode \in PushMode,
               Push(value, mode), call' = <<"push", <<value>>, mode>>
        PROVE  Fifo!FifoNext
    <2>1. <<value>> \in Span
      BY SpanAssumption DEF Span
    <2>2. Fifo!FifoPush(<<value>>, mode)
      BY <1>0, <1>2, PushStep
    <2> QED
      BY <1>1, <1>2, <2>1, <2>2, Zenon DEF Fifo!FifoNext
  <1>3. ASSUME NEW values \in Span, NEW mode \in PushMode,
               PushSpan(values, mode), call' = <<"push", values, mode>>
        PROVE  Fifo!FifoNext
    <2>1. Fifo!FifoPush(values, mode)
      BY <1>0, <1>3, PushSpanStep
    <2> QED
      BY <1>1, <1>3, <2>1, Zenon DEF Fifo!FifoNext
  <1>4. CASE Pop /\ call' = <<"pop">>
    BY <1>0, <1>4, PopStep, Zenon DEF Fifo!FifoNext
  <1>5. CASE Clear /\ call' = <<"clear">>
    BY <1>0, <1>5, ClearStep, Zenon DEF Fifo!FifoNext
  <1>6. ASSUME NEW index \in Slot, NEW value \in Value,
               Assign(index, value), call' = <<"assign", index, value>>
        PROVE  Fifo!FifoNext
    <2>1. Fifo!FifoAssign(index, value)
      BY <1>0, <1>6, AssignStep
    <2> QED
      BY <1>6, <2>1, Zenon DEF Fifo!FifoNext, Slot
  <1>7. CASE UNCHANGED vars
    BY <1>7, ContentsKept DEF vars
  <1> QED
    BY <1>2, <1>3, <1>4, <1>5, <1>6, <1>7, Zenon DEF Next

\* For every element type, capacity and width of size_t, as long as no span is
\* longer than the buffer, the circular buffer is a bounded queue: both forms of
\* push(), pop(), clear() and operator[] (RingBuffer.hpp 78-203).
THEOREM RingBufferImplementsFifo ==
  ASSUME MaxSpan > 0, MaxSpan <= Capacity
  PROVE  Spec => RefinesFifo
  <1>0. Capacity > 0
    BY SpanAssumption, CapacityAssumption
  <1>1. Init => Fifo!FifoInit
    <2> SUFFICES ASSUME Init PROVE Fifo!FifoInit
      OBVIOUS
    <2>1. Contents = <<>>
      BY <1>0, InitInv, ContentsLen, EmptySeq DEF Init
    <2> QED
      BY <2>1 DEF Init, Fifo!FifoInit, Fifo!Returned, Returned
  <1>2. Init => Inv
    BY <1>0, InitInv
  <1>3. Inv /\ [Next]_vars => Inv'
    BY <1>0, NextInv
  <1>4. Inv /\ Inv' /\ [Next]_vars => [Fifo!FifoNext]_<<Contents, ret, call>>
    BY FifoStep
  <1> QED
    BY <1>1, <1>2, <1>3, <1>4, PTL DEF Spec, RefinesFifo, Fifo!FifoSpec, Fifo!fifoVars
=============================================================================
