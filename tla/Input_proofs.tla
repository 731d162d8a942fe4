----------------------------- MODULE Input_proofs -----------------------------
(***************************************************************************)
(* Proofs about Input, for every character set and buffer size: no edit    *)
(* leaves the buffer, and Input implements LineEdit.                       *)
(***************************************************************************)
EXTENDS Input, SequenceTheorems, TLAPS

\* The two counters, as inequalities.
Counters ==
  /\ cursor_idx \in Nat /\ chars_used \in Nat
  /\ cursor_idx <= chars_used /\ chars_used <= InputCap

Inv == line_buf \in [Index -> Char] /\ Counters /\ NoOverrun /\ ok \in BOOLEAN

\* The invariant is the two properties, with the ranges written out.
LEMMA InvMeans == Inv <=> TypeOK /\ NoOverrun
  <1>1. Counters <=> chars_used \in 0..InputCap /\ cursor_idx \in 0..chars_used
    BY InputCapAssumption DEF Counters
  <1>2. NoOverrun => overrun \subseteq {"read", "write"} \X Int
    BY InputCapAssumption DEF NoOverrun
  <1> QED
    BY <1>1, <1>2 DEF Inv, TypeOK

\* The cleared line satisfies the invariant.
LEMMA InitInv == Init => Inv
  <1>1. Init => Counters
    BY InputCapAssumption DEF Init, Counters
  <1> QED
    BY <1>1 DEF Init, Inv, NoOverrun

\* What memmove() leaves in the buffer is characters.
LEMMA MovedType ==
  ASSUME line_buf \in [Index -> Char],
         NEW dst \in Int, NEW src \in Int, NEW n \in Int, NEW c \in Char
  PROVE  Moved(dst, src, n, c) \in [Index -> Char]
  BY DEF Moved

\* The bytes outside the buffer that such a move touches.
LEMMA OverrunsAtMost ==
  ASSUME NEW dst \in Int, NEW src \in Int, NEW n \in Int,
         0 <= n, 0 <= dst, 0 <= src, dst + n <= InputCap, src + n <= InputCap + 1
  PROVE  Overruns(dst, src, n) \subseteq {<<"read", InputCap>>}
  <1> USE InputCapAssumption
  <1>1. dst..dst + n - 1 \ Index = {}
    BY DEF Index
  <1>2. src..src + n - 1 \ Index \subseteq {InputCap}
    BY DEF Index
  <1>3. Overruns(dst, src, n)
          = ({"write"} \X (dst..dst + n - 1 \ Index)) \union ({"read"} \X (src..src + n - 1 \ Index))
    BY DEF Overruns
  <1>4. ASSUME NEW a \in Overruns(dst, src, n) PROVE a = <<"read", InputCap>>
    <2>1. a \in {"read"} \X (src..src + n - 1 \ Index)
      <3>1. {"write"} \X (dst..dst + n - 1 \ Index) = {}
        BY ONLY <1>1
      <3> QED
        BY ONLY <1>3, <1>4, <3>1
    <2>2. PICK r \in {"read"}, i \in src..src + n - 1 \ Index : a = <<r, i>>
      BY ONLY <2>1
    <2> QED
      BY <1>2, <2>2
  <1> QED
    BY <1>4

\* A move that writes inside the buffer and reads at most one byte after it
\* keeps the buffer well formed.
LEMMA MemmoveInv ==
  ASSUME Inv, NEW dst \in Int, NEW src \in Int, NEW n \in Int, Memmove(dst, src, n),
         0 <= n, 0 <= dst, 0 <= src, dst + n <= InputCap, src + n <= InputCap + 1
  PROVE  line_buf' \in [Index -> Char] /\ NoOverrun'
  <1>1. line_buf' \in [Index -> Char]
    BY MovedType DEF Memmove, Inv
  <1>2. Overruns(dst, src, n) \subseteq {<<"read", InputCap>>}
    BY OverrunsAtMost
  <1>3. NoOverrun'
    BY <1>2 DEF Memmove, Inv, NoOverrun
  <1> QED
    BY <1>1, <1>3

\* Every edit keeps the counters in range and writes inside the buffer.
LEMMA NextInv == Inv /\ [Next]_vars => Inv'
  <1> SUFFICES ASSUME Inv, [Next]_vars PROVE Inv'
    OBVIOUS
  <1> USE InputCapAssumption DEF Counters, Refuse, is_cursor_on_base, is_cursor_on_end
  <1>1. CASE clear \/ step_right \/ step_left
    <2>1. line_buf' = line_buf /\ overrun' = overrun
      BY <1>1 DEF clear, step_right, step_left
    <2>2. Counters'
      BY <1>1 DEF Inv, clear, step_right, step_left
    <2>3. ok' \in BOOLEAN
      BY <1>1 DEF Inv, clear, step_right, step_left
    <2> QED
      BY <2>1, <2>2, <2>3 DEF Inv, NoOverrun
  <1>2. CASE delete_char
    <2>1. CASE Refuse
      BY <2>1 DEF Inv, NoOverrun
    <2>2. CASE ~Refuse
      <3>1. Counters' /\ ok' = TRUE
        BY <1>2, <2>2 DEF Inv, delete_char, is_empty
      <3>2. /\ Memmove(cursor_idx, cursor_idx + 1, chars_used - (cursor_idx + 1))
            /\ cursor_idx < chars_used
        BY <1>2, <2>2 DEF Inv, delete_char, is_empty
      <3>3. /\ cursor_idx \in Int /\ cursor_idx + 1 \in Int /\ chars_used - (cursor_idx + 1) \in Int
            /\ 0 <= chars_used - (cursor_idx + 1) /\ 0 <= cursor_idx /\ 0 <= cursor_idx + 1
            /\ cursor_idx + (chars_used - (cursor_idx + 1)) <= InputCap
            /\ cursor_idx + 1 + (chars_used - (cursor_idx + 1)) <= InputCap + 1
        BY <3>2 DEF Inv
      <3>4. line_buf' \in [Index -> Char] /\ NoOverrun'
        BY <3>2, <3>3, MemmoveInv
      <3> QED
        BY <3>1, <3>4 DEF Inv
    <2> QED
      BY <2>1, <2>2
  <1>3. CASE backspace_char
    <2>1. CASE Refuse
      BY <2>1 DEF Inv, NoOverrun
    <2>2. CASE ~Refuse
      <3>1. Counters' /\ ok' = TRUE
        BY <1>3, <2>2 DEF Inv, backspace_char
      <3>2. CASE is_cursor_on_end
        BY <1>3, <2>2, <3>1, <3>2 DEF Inv, backspace_char, NoOverrun
      <3>3. CASE ~is_cursor_on_end
        <4>1. /\ Memmove(cursor_idx - 1, cursor_idx, chars_used - cursor_idx + 1)
              /\ 0 < cursor_idx
          BY <1>3, <2>2, <3>3 DEF Inv, backspace_char
        <4>2. /\ cursor_idx - 1 \in Int /\ cursor_idx \in Int /\ chars_used - cursor_idx + 1 \in Int
              /\ 0 <= chars_used - cursor_idx + 1 /\ 0 <= cursor_idx - 1 /\ 0 <= cursor_idx
              /\ cursor_idx - 1 + (chars_used - cursor_idx + 1) <= InputCap
              /\ cursor_idx + (chars_used - cursor_idx + 1) <= InputCap + 1
          BY <4>1 DEF Inv
        <4>3. line_buf' \in [Index -> Char] /\ NoOverrun'
          BY <4>1, <4>2, MemmoveInv
        <4> QED
          BY <3>1, <4>3 DEF Inv
      <3> QED
        BY <3>2, <3>3
    <2> QED
      BY <2>1, <2>2
  <1>4. ASSUME NEW c \in Char, insert(c) PROVE Inv'
    <2>1. CASE is_full /\ Refuse
      BY <2>1 DEF Inv, NoOverrun
    <2>2. CASE ~is_full
      <3>1. Counters' /\ ok' = TRUE
        BY <1>4, <2>2 DEF Inv, insert, is_full
      <3>2. NoOverrun'
        <4> DEFINE O == Overruns(cursor_idx + 1, cursor_idx, chars_used - cursor_idx)
        <4>1. O \subseteq {<<"read", InputCap>>}
          BY <2>2, OverrunsAtMost DEF Inv, is_full
        <4>2. {cursor_idx} \ Index = {}
          BY <2>2 DEF Inv, is_full, Index
        <4>3. overrun' = overrun \union O \union ({"write"} \X ({cursor_idx} \ Index))
          BY <1>4, <2>2 DEF insert, is_full
        <4> HIDE DEF O
        <4>4. overrun' = overrun \union O
          BY <4>2, <4>3
        <4> QED
          BY <4>1, <4>4 DEF Inv, NoOverrun
      <3>3. Moved(cursor_idx + 1, cursor_idx, chars_used - cursor_idx, c) \in [Index -> Char]
        BY MovedType DEF Inv
      <3>4. line_buf' \in [Index -> Char]
        BY <1>4, <2>2, <3>3 DEF insert, is_full
      <3> QED
        BY <3>1, <3>2, <3>4 DEF Inv
    <2> QED
      BY <1>4, <2>1, <2>2 DEF insert
  <1>5. CASE UNCHANGED vars
    BY <1>5 DEF vars, Inv, NoOverrun
  <1> QED
    BY <1>1, <1>2, <1>3, <1>4, <1>5 DEF Next

THEOREM InputSafety == Spec => [](TypeOK /\ NoOverrun)
  BY InitInv, NextInv, InvMeans, PTL DEF Spec

\* A line of n characters as the buffer holds it.
TextOf(buf, n) == [i \in 1..n |-> buf[i - 1]]

\* The first n bytes of a buffer, as a text.
LEMMA TextOfSeq ==
  ASSUME NEW buf \in [Index -> Char], NEW n \in Nat, n <= InputCap
  PROVE  /\ TextOf(buf, n) \in Seq(Char) /\ Len(TextOf(buf, n)) = n
         /\ \A i \in 1..n : TextOf(buf, n)[i] = buf[i - 1]
  <1>1. \A i \in 1..n : buf[i - 1] \in Char
    BY InputCapAssumption DEF Index
  <1>2. TextOf(buf, n) \in [1..n -> Char]
    BY <1>1 DEF TextOf
  <1>3. TextOf(buf, n) \in Seq(Char)
    BY <1>2, SeqDef
  <1>4. Len(TextOf(buf, n)) = n
    BY <1>2, <1>3, LenProperties
  <1> QED
    BY <1>3, <1>4 DEF TextOf

\* What a text is, character by character, when one is removed.
LEMMA Removed ==
  ASSUME NEW s \in Seq(Char), NEW i \in 1..Len(s)
  PROVE  LET r == Editor!RemoveAt(s, i)
         IN  /\ r \in Seq(Char) /\ Len(r) = Len(s) - 1
             /\ \A k \in 1..Len(s) - 1 : r[k] = IF k < i THEN s[k] ELSE s[k + 1]
  <1> DEFINE a == SubSeq(s, 1, i - 1)
             b == SubSeq(s, i + 1, Len(s))
  <1>1. Len(s) \in Nat /\ \A k \in 1..Len(s) : s[k] \in Char
    BY LenProperties, ElementOfSeq
  <1>2. /\ a \in Seq(Char) /\ Len(a) = i - 1
        /\ \A k \in 1..i - 1 : a[k] = s[k]
    BY <1>1, SubSeqProperties
  <1>3. /\ b \in Seq(Char) /\ Len(b) = Len(s) - i
        /\ \A k \in 1..Len(s) - i : b[k] = s[k + i]
    BY <1>1, SubSeqProperties
  <1> HIDE DEF a, b
  <1>4. /\ a \o b \in Seq(Char) /\ Len(a \o b) = Len(a) + Len(b)
        /\ \A k \in 1..Len(a) + Len(b) :
             (a \o b)[k] = IF k <= Len(a) THEN a[k] ELSE b[k - Len(a)]
    BY <1>2, <1>3, ConcatProperties
  <1>5. ASSUME NEW k \in 1..Len(s) - 1
        PROVE  (a \o b)[k] = IF k < i THEN s[k] ELSE s[k + 1]
    <2>1. CASE k < i
      BY <1>1, <1>2, <1>3, <1>4, <2>1
    <2>2. CASE k >= i
      <3>1. k - (i - 1) \in 1..Len(s) - i /\ ~(k <= i - 1) /\ k \in 1..Len(a) + Len(b)
        BY <1>1, <1>2, <1>3, <2>2
      <3>2. b[k - (i - 1)] = s[k - (i - 1) + i]
        BY <1>3, <3>1
      <3> QED
        BY <1>1, <1>2, <1>4, <2>2, <3>1, <3>2
    <2>3. k < i \/ k >= i
      BY <1>1
    <2> QED
      BY <2>1, <2>2, <2>3
  <1>6. Len(a \o b) = Len(s) - 1
    BY <1>1, <1>2, <1>3, <1>4
  <1> QED
    BY <1>4, <1>5, <1>6 DEF a, b, Editor!RemoveAt

\* What a text is, character by character, when one is inserted.
LEMMA Inserted ==
  ASSUME NEW s \in Seq(Char), NEW i \in 1..Len(s) + 1, NEW c \in Char
  PROVE  LET r == Editor!InsertAt(s, i, c)
         IN  /\ r \in Seq(Char) /\ Len(r) = Len(s) + 1
             /\ \A k \in 1..i - 1 : r[k] = s[k]
             /\ r[i] = c
             /\ \A k \in i + 1..Len(s) + 1 : r[k] = s[k - 1]
  <1> DEFINE a == SubSeq(s, 1, i - 1)
             b == SubSeq(s, i, Len(s))
             ac == a \o <<c>>
  <1>1. Len(s) \in Nat /\ \A k \in 1..Len(s) : s[k] \in Char
    BY LenProperties, ElementOfSeq
  <1>2. /\ a \in Seq(Char) /\ Len(a) = i - 1
        /\ \A k \in 1..i - 1 : a[k] = s[k]
    BY <1>1, SubSeqProperties
  <1>3. /\ b \in Seq(Char) /\ Len(b) = Len(s) - i + 1
        /\ \A k \in 1..Len(s) - i + 1 : b[k] = s[k + i - 1]
    BY <1>1, SubSeqProperties
  <1>4. <<c>> \in Seq(Char) /\ Len(<<c>>) = 1 /\ <<c>>[1] = c
    OBVIOUS
  <1> HIDE DEF a, b
  <1>5. /\ ac \in Seq(Char) /\ Len(ac) = i
        /\ \A k \in 1..i : ac[k] = IF k < i THEN s[k] ELSE c
    BY <1>1, <1>2, <1>4, ConcatProperties
  <1> HIDE DEF ac
  <1>6. /\ ac \o b \in Seq(Char) /\ Len(ac \o b) = Len(ac) + Len(b)
        /\ \A k \in 1..Len(ac) + Len(b) :
             (ac \o b)[k] = IF k <= Len(ac) THEN ac[k] ELSE b[k - Len(ac)]
    BY <1>3, <1>5, ConcatProperties
  <1>7. (ac \o b)[i] = c /\ \A k \in 1..i - 1 : (ac \o b)[k] = s[k]
    BY <1>1, <1>3, <1>5, <1>6
  <1>8. ASSUME NEW k \in i + 1..Len(s) + 1 PROVE (ac \o b)[k] = s[k - 1]
    <2>1. k - i \in 1..Len(s) - i + 1 /\ ~(k <= i) /\ k \in 1..Len(ac) + Len(b)
      BY <1>1, <1>3, <1>5
    <2>2. b[k - i] = s[k - i + i - 1]
      BY <1>3, <2>1
    <2> QED
      BY <1>1, <1>5, <1>6, <2>1, <2>2
  <1>9. Len(ac \o b) = Len(s) + 1
    BY <1>1, <1>3, <1>5, <1>6
  <1> QED
    BY <1>6, <1>7, <1>8, <1>9 DEF a, b, ac, Editor!InsertAt

\* The line that the buffer holds, as LineEdit has it.
Now == [text |-> Text, cursor |-> cursor_idx]

\* The characters of the line are the bytes before chars_used.
LEMMA TextSeq ==
  ASSUME Inv
  PROVE  /\ Text \in Seq(Char) /\ Len(Text) = chars_used
         /\ \A i \in 1..chars_used : Text[i] = line_buf[i - 1]
  <1>1. Text = TextOf(line_buf, chars_used)
    BY DEF Text, TextOf
  <1> QED
    BY <1>1, TextOfSeq DEF Inv, Counters

\* The line after a step, if its characters are those of s.
LEMMA TextAfter ==
  ASSUME Inv', NEW s \in Seq(Char), Len(s) = chars_used',
         \A k \in 1..chars_used' : s[k] = line_buf'[k - 1]
  PROVE  Text' = s
  <1>1. Text' = TextOf(line_buf', chars_used')
    BY DEF Text, TextOf
  <1>2. line_buf' \in [Index -> Char] /\ chars_used' \in Nat /\ chars_used' <= InputCap
    BY DEF Inv, Counters
  <1>3. /\ TextOf(line_buf', chars_used') \in Seq(Char)
        /\ Len(TextOf(line_buf', chars_used')) = chars_used'
        /\ \A i \in 1..chars_used' : TextOf(line_buf', chars_used')[i] = line_buf'[i - 1]
    BY <1>2, TextOfSeq
  <1> QED
    BY <1>1, <1>3, SeqEqual

\* delete_char(): the move to the left removes the character at the cursor.
LEMMA DeleteText ==
  ASSUME Inv, Inv', delete_char, ~is_cursor_on_end
  PROVE  Text' = Editor!RemoveAt(Text, cursor_idx + 1)
  <1> USE InputCapAssumption
  <1> DEFINE n == chars_used - (cursor_idx + 1)
             r == Editor!RemoveAt(Text, cursor_idx + 1)
  <1>1. cursor_idx < chars_used /\ chars_used' = chars_used - 1 /\ Memmove(cursor_idx, cursor_idx + 1, n)
    BY DEF delete_char, is_empty, is_cursor_on_base, is_cursor_on_end, Inv, Counters
  <1>2. PICK outside \in Char : line_buf' = Moved(cursor_idx, cursor_idx + 1, n, outside)
    BY <1>1 DEF Memmove
  <1>3. /\ r \in Seq(Char) /\ Len(r) = chars_used'
        /\ \A k \in 1..chars_used' : r[k] = IF k < cursor_idx + 1 THEN Text[k] ELSE Text[k + 1]
    <2>1. cursor_idx + 1 \in 1..chars_used /\ chars_used \in Nat
      BY <1>1 DEF Inv, Counters
    <2>2. Text \in Seq(Char) /\ Len(Text) = chars_used
      BY TextSeq
    <2> QED
      BY <1>1, <2>1, <2>2, Removed
  <1>4. ASSUME NEW k \in 1..chars_used' PROVE r[k] = line_buf'[k - 1]
    <2>1. k - 1 \in Index /\ k \in Index /\ k \in 1..chars_used /\ k + 1 \in 1..chars_used
      BY <1>1 DEF Inv, Counters, Index
    <2>2. line_buf'[k - 1] = IF k - 1 \notin cursor_idx..cursor_idx + n - 1 THEN line_buf[k - 1]
                             ELSE IF cursor_idx + 1 + (k - 1 - cursor_idx) \in Index
                             THEN line_buf[cursor_idx + 1 + (k - 1 - cursor_idx)] ELSE outside
      BY <1>2, <2>1 DEF Moved
    <2>3. cursor_idx + 1 + (k - 1 - cursor_idx) = k
      BY DEF Inv, Counters
    <2>4. Text[k] = line_buf[k - 1] /\ Text[k + 1] = line_buf[k]
      BY <2>1, TextSeq
    <2>5. k - 1 \notin cursor_idx..cursor_idx + n - 1 <=> k < cursor_idx + 1
      BY <1>1 DEF Inv, Counters
    <2> QED
      BY <1>3, <2>1, <2>2, <2>3, <2>4, <2>5
  <1> HIDE DEF r
  <1>5. Text' = r
    BY <1>3, <1>4, TextAfter
  <1> QED
    BY <1>5 DEF r

\* backspace_char(): the move to the left removes the one before the cursor.
LEMMA BackspaceText ==
  ASSUME Inv, Inv', backspace_char, ~is_cursor_on_base
  PROVE  Text' = Editor!RemoveAt(Text, cursor_idx)
  <1> USE InputCapAssumption
  <1> DEFINE n == chars_used - cursor_idx + 1
             r == Editor!RemoveAt(Text, cursor_idx)
  <1>1. 0 < cursor_idx /\ chars_used' = chars_used - 1
    BY DEF backspace_char, is_cursor_on_base, Inv, Counters
  <1>2. /\ r \in Seq(Char) /\ Len(r) = chars_used'
        /\ \A k \in 1..chars_used' : r[k] = IF k < cursor_idx THEN Text[k] ELSE Text[k + 1]
    <2>1. cursor_idx \in 1..chars_used /\ chars_used \in Nat
      BY <1>1 DEF Inv, Counters
    <2>2. Text \in Seq(Char) /\ Len(Text) = chars_used
      BY TextSeq
    <2> QED
      BY <1>1, <2>1, <2>2, Removed
  <1>3. ASSUME NEW k \in 1..chars_used' PROVE r[k] = line_buf'[k - 1]
    <2>1. k - 1 \in Index /\ k \in Index /\ k \in 1..chars_used /\ k + 1 \in 1..chars_used
      BY <1>1 DEF Inv, Counters, Index
    <2>2. Text[k] = line_buf[k - 1] /\ Text[k + 1] = line_buf[k]
      BY <2>1, TextSeq
    <2>3. CASE is_cursor_on_end
      <3>1. line_buf' = line_buf /\ k < cursor_idx
        BY <1>1, <2>3 DEF backspace_char, is_cursor_on_base, is_cursor_on_end, Inv,
           Counters
      <3> QED
        BY <1>2, <2>2, <3>1
    <2>4. CASE ~is_cursor_on_end
      <3>1. PICK outside \in Char : line_buf' = Moved(cursor_idx - 1, cursor_idx, n, outside)
        BY <2>4 DEF backspace_char, Memmove
      <3>2. line_buf'[k - 1] = IF k - 1 \notin cursor_idx - 1..cursor_idx - 1 + n - 1
                               THEN line_buf[k - 1]
                               ELSE IF cursor_idx + (k - 1 - (cursor_idx - 1)) \in Index
                               THEN line_buf[cursor_idx + (k - 1 - (cursor_idx - 1))] ELSE outside
        BY <3>1, <2>1 DEF Moved
      <3>3. cursor_idx + (k - 1 - (cursor_idx - 1)) = k
        BY DEF Inv, Counters
      <3>4. k - 1 \notin cursor_idx - 1..cursor_idx - 1 + n - 1 <=> k < cursor_idx
        BY <1>1 DEF Inv, Counters
      <3> QED
        BY <1>2, <2>1, <2>2, <3>2, <3>3, <3>4
    <2> QED
      BY <2>3, <2>4
  <1> HIDE DEF r
  <1>4. Text' = r
    BY <1>2, <1>3, TextAfter
  <1> QED
    BY <1>4 DEF r

\* insert(): the move to the right makes room for the new character.
LEMMA InsertText ==
  ASSUME Inv, Inv', NEW c \in Char, insert(c), ~is_full
  PROVE  Text' = Editor!InsertAt(Text, cursor_idx + 1, c)
  <1> USE InputCapAssumption
  <1> DEFINE n == chars_used - cursor_idx
             r == Editor!InsertAt(Text, cursor_idx + 1, c)
             m == Moved(cursor_idx + 1, cursor_idx, n, c)
  <1>1. chars_used < InputCap /\ chars_used' = chars_used + 1 /\ line_buf' = [m EXCEPT ![cursor_idx] = c]
    BY DEF insert, is_full, Inv, Counters
  <1>2. /\ r \in Seq(Char) /\ Len(r) = chars_used'
        /\ \A k \in 1..cursor_idx : r[k] = Text[k]
        /\ r[cursor_idx + 1] = c
        /\ \A k \in cursor_idx + 2..chars_used' : r[k] = Text[k - 1]
    <2>1. cursor_idx + 1 \in 1..chars_used + 1 /\ chars_used \in Nat
      BY <1>1 DEF Inv, Counters
    <2>2. Text \in Seq(Char) /\ Len(Text) = chars_used
      BY TextSeq
    <2> DEFINE i == cursor_idx + 1
    <2>3. i \in 1..Len(Text) + 1
      BY <2>1, <2>2
    <2> HIDE DEF i
    <2>4. LET ins == Editor!InsertAt(Text, i, c)
          IN  /\ ins \in Seq(Char) /\ Len(ins) = Len(Text) + 1
              /\ \A k \in 1..i - 1 : ins[k] = Text[k]
              /\ ins[i] = c
              /\ \A k \in i + 1..Len(Text) + 1 : ins[k] = Text[k - 1]
      BY <2>2, <2>3, Inserted
    <2>5. i - 1 = cursor_idx /\ i + 1 = cursor_idx + 2 /\ r = Editor!InsertAt(Text, i, c)
      BY DEF i, Inv, Counters
    <2>6. Len(Text) + 1 = chars_used'
      BY <1>1, <2>2
    <2> QED
      BY <2>4, <2>5, <2>6 DEF i
  <1>3. ASSUME NEW k \in 1..chars_used' PROVE r[k] = line_buf'[k - 1]
    <2>1. k - 1 \in Index /\ k \in Int
      BY <1>1 DEF Inv, Counters, Index
    <2>2. m \in [Index -> Char]
      BY MovedType DEF Inv, Counters
    <2>3. line_buf'[k - 1] = IF k - 1 = cursor_idx THEN c ELSE m[k - 1]
      BY <1>1, <2>1, <2>2
    <2>4. m[k - 1] = IF k - 1 \notin cursor_idx + 1..cursor_idx + 1 + n - 1 THEN line_buf[k - 1]
                     ELSE IF cursor_idx + (k - 1 - (cursor_idx + 1)) \in Index
                     THEN line_buf[cursor_idx + (k - 1 - (cursor_idx + 1))] ELSE c
      BY <2>1 DEF Moved
    <2>5. CASE k <= cursor_idx
      <3>1. k \in 1..chars_used /\ k - 1 \notin cursor_idx + 1..cursor_idx + 1 + n - 1
            /\ k - 1 /= cursor_idx /\ k \in 1..cursor_idx
        BY <1>1, <2>1, <2>5 DEF Inv, Counters
      <3> QED
        BY <1>2, <2>3, <2>4, <3>1, TextSeq DEF Inv, Counters
    <2>6. CASE k = cursor_idx + 1
      BY <1>2, <2>3, <2>6 DEF Inv, Counters
    <2>7. CASE k > cursor_idx + 1
      <3>1. /\ k - 1 \in 1..chars_used /\ k - 1 \in cursor_idx + 1..cursor_idx + 1 + n - 1
            /\ cursor_idx + (k - 1 - (cursor_idx + 1)) = k - 1 - 1 /\ k - 1 - 1 \in Index
            /\ k - 1 /= cursor_idx /\ k \in cursor_idx + 2..chars_used'
        BY <1>1, <2>1, <2>7 DEF Inv, Counters, Index
      <3>2. Text[k - 1] = line_buf[k - 1 - 1]
        BY <3>1, TextSeq
      <3> QED
        BY <1>2, <2>3, <2>4, <3>1, <3>2
    <2>8. k <= cursor_idx \/ k = cursor_idx + 1 \/ k > cursor_idx + 1
      BY <2>1 DEF Inv, Counters
    <2> QED
      BY <2>5, <2>6, <2>7, <2>8
  <1> HIDE DEF r
  <1>4. Text' = r
    BY <1>2, <1>3, TextAfter
  <1> QED
    BY <1>4 DEF r

\* The abstract editor at the mapped state.
LEMMA Mapped ==
  ASSUME Inv
  PROVE  /\ Editor!is_cursor_on_base(Now) <=> is_cursor_on_base
         /\ Editor!is_cursor_on_end(Now) <=> is_cursor_on_end
         /\ Editor!is_full(Now) <=> is_full
  BY TextSeq DEF Now, Editor!is_cursor_on_base, Editor!is_cursor_on_end, Editor!is_full,
                 is_cursor_on_base, is_cursor_on_end, is_full

\* A call that the editor cannot follow, and one that it does.
LEMMA Refused ==
  ASSUME Refuse, NEW possible \in BOOLEAN, ~possible, NEW edited
  PROVE  Editor!Try(possible, edited)
  BY DEF Refuse, Editor!Try, Text

\* An edit that was possible and is done is a step of the text editor.
LEMMA Edited ==
  ASSUME ok' = TRUE, NEW possible \in BOOLEAN, possible, NEW edited, Now' = edited
  PROVE  Editor!Try(possible, edited)
  BY DEF Editor!Try, Now

\* The cursor moves exactly when the text editor lets it move.
LEMMA CursorSteps ==
  ASSUME Inv, Inv'
  PROVE  /\ step_right => Editor!Try(Editor!CanStepRight(Now), Editor!StepRight(Now))
         /\ step_left => Editor!Try(Editor!CanStepLeft(Now), Editor!StepLeft(Now))
  <1>1. /\ Editor!CanStepRight(Now) <=> ~is_cursor_on_end /\ ~is_full
        /\ Editor!CanStepRight(Now) \in BOOLEAN
    BY Mapped DEF Editor!CanStepRight
  <1>2. (Editor!CanStepLeft(Now) <=> ~is_cursor_on_base) /\ Editor!CanStepLeft(Now) \in BOOLEAN
    BY Mapped DEF Editor!CanStepLeft
  <1>3. ASSUME step_right
        PROVE  Editor!Try(Editor!CanStepRight(Now), Editor!StepRight(Now))
    <2>1. CASE Editor!CanStepRight(Now)
      <3>1. ok' = TRUE /\ Text' = Text /\ cursor_idx' = cursor_idx + 1
        BY <1>1, <1>3, <2>1 DEF step_right, Text
      <3>2. Now' = Editor!StepRight(Now)
        BY <3>1 DEF Now, Editor!StepRight
      <3> QED
        BY <1>1, <2>1, <3>1, <3>2, Edited
    <2>2. CASE ~Editor!CanStepRight(Now)
      <3>1. Refuse
        BY <1>1, <1>3, <2>2 DEF step_right
      <3> QED
        BY <1>1, <2>2, <3>1, Refused
    <2> QED
      BY <2>1, <2>2
  <1>4. ASSUME step_left
        PROVE  Editor!Try(Editor!CanStepLeft(Now), Editor!StepLeft(Now))
    <2>1. CASE Editor!CanStepLeft(Now)
      <3>1. ok' = TRUE /\ Text' = Text /\ cursor_idx' = cursor_idx - 1
        BY <1>2, <1>4, <2>1 DEF step_left, Text
      <3>2. Now' = Editor!StepLeft(Now)
        BY <3>1 DEF Now, Editor!StepLeft
      <3> QED
        BY <1>2, <2>1, <3>1, <3>2, Edited
    <2>2. CASE ~Editor!CanStepLeft(Now)
      <3>1. Refuse
        BY <1>2, <1>4, <2>2 DEF step_left
      <3> QED
        BY <1>2, <2>2, <3>1, Refused
    <2> QED
      BY <2>1, <2>2
  <1> QED
    BY <1>3, <1>4

\* Both ways of erasing are those of the text editor.
LEMMA EraseSteps ==
  ASSUME Inv, Inv'
  PROVE  /\ delete_char => Editor!Try(Editor!CanDelete(Now), Editor!Delete(Now))
         /\ backspace_char => Editor!Try(Editor!CanBackspace(Now), Editor!Backspace(Now))
  <1>1. (Editor!CanDelete(Now) <=> ~is_cursor_on_end) /\ Editor!CanDelete(Now) \in BOOLEAN
    BY Mapped DEF Editor!CanDelete
  <1>2. (Editor!CanBackspace(Now) <=> ~is_cursor_on_base) /\ Editor!CanBackspace(Now) \in BOOLEAN
    BY Mapped DEF Editor!CanBackspace
  <1>3. ASSUME delete_char PROVE Editor!Try(Editor!CanDelete(Now), Editor!Delete(Now))
    <2>1. CASE Editor!CanDelete(Now)
      <3>1. ok' = TRUE /\ cursor_idx' = cursor_idx
        BY <1>1, <1>3, <2>1 DEF delete_char, is_empty
      <3>2. Text' = Editor!RemoveAt(Text, cursor_idx + 1)
        BY <1>1, <1>3, <2>1, DeleteText
      <3>3. Now' = Editor!Delete(Now)
        BY <3>1, <3>2 DEF Now, Editor!Delete
      <3> QED
        BY <1>1, <2>1, <3>1, <3>3, Edited
    <2>2. CASE ~Editor!CanDelete(Now)
      <3>1. Refuse
        BY <1>1, <1>3, <2>2 DEF delete_char
      <3> QED
        BY <1>1, <2>2, <3>1, Refused
    <2> QED
      BY <2>1, <2>2
  <1>4. ASSUME backspace_char PROVE Editor!Try(Editor!CanBackspace(Now), Editor!Backspace(Now))
    <2>1. CASE Editor!CanBackspace(Now)
      <3>1. ok' = TRUE /\ cursor_idx' = cursor_idx - 1
        BY <1>2, <1>4, <2>1 DEF backspace_char
      <3>2. Text' = Editor!RemoveAt(Text, cursor_idx)
        BY <1>2, <1>4, <2>1, BackspaceText
      <3>3. Now' = Editor!Backspace(Now)
        BY <3>1, <3>2 DEF Now, Editor!Backspace
      <3> QED
        BY <1>2, <2>1, <3>1, <3>3, Edited
    <2>2. CASE ~Editor!CanBackspace(Now)
      <3>1. Refuse
        BY <1>2, <1>4, <2>2 DEF backspace_char
      <3> QED
        BY <1>2, <2>2, <3>1, Refused
    <2> QED
      BY <2>1, <2>2
  <1> QED
    BY <1>3, <1>4

\* Inserting is that of the text editor, and refused when it is.
LEMMA InsertStep ==
  ASSUME Inv, Inv', NEW c \in Char, insert(c)
  PROVE  Editor!Try(Editor!CanInsert(Now), Editor!Insert(Now, c))
  <1>1. (Editor!CanInsert(Now) <=> ~is_full) /\ Editor!CanInsert(Now) \in BOOLEAN
    BY Mapped DEF Editor!CanInsert
  <1>2. CASE Editor!CanInsert(Now)
    <2>1. ok' = TRUE /\ cursor_idx' = cursor_idx + 1
      BY <1>1, <1>2 DEF insert
    <2>2. Text' = Editor!InsertAt(Text, cursor_idx + 1, c)
      BY <1>1, <1>2, InsertText
    <2>3. Now' = Editor!Insert(Now, c)
      BY <2>1, <2>2 DEF Now, Editor!Insert
    <2> QED
      BY <1>1, <1>2, <2>1, <2>3, Edited
  <1>3. CASE ~Editor!CanInsert(Now)
    <2>1. Refuse
      BY <1>1, <1>3 DEF insert
    <2> QED
      BY <1>1, <1>3, <2>1, Refused
  <1> QED
    BY <1>2, <1>3

\* clear() leaves the empty text.
LEMMA ClearStep ==
  ASSUME clear
  PROVE  Now' = Editor!Empty /\ ok' = ok
  <1>1. Text' = <<>> /\ cursor_idx' = 0 /\ ok' = ok
    BY DEF clear, Text
  <1> QED
    BY <1>1 DEF Now, Editor!Empty

\* Every step of Input is one of the text editor.
LEMMA EditorStep ==
  ASSUME Inv, Inv', [Next]_vars
  PROVE  [Editor!LineNext]_<<Now, ok, call>>
  <1> USE DEF Now
  <1>1. CASE clear /\ call' = <<"clear">>
    BY <1>1, ClearStep DEF Editor!LineNext
  <1>2. CASE (step_right /\ call' = <<"right">>) \/ (step_left /\ call' = <<"left">>)
    BY <1>2, CursorSteps DEF Editor!LineNext
  <1>3. CASE (delete_char /\ call' = <<"delete">>) \/ (backspace_char /\ call' = <<"backspace">>)
    BY <1>3, EraseSteps DEF Editor!LineNext
  <1>4. ASSUME NEW c \in Char, insert(c), call' = <<"insert", c>>
        PROVE  Editor!LineNext
    BY <1>4, InsertStep DEF Editor!LineNext
  <1>5. CASE UNCHANGED vars
    BY <1>5 DEF vars, Text
  <1> QED
    BY <1>1, <1>2, <1>3, <1>4, <1>5 DEF Next

\* For every buffer size and character set, the in-place edits are those of a
\* text with a cursor (Input.cpp 16-81).
THEOREM InputRefinesLineEdit == Spec => RefinesLineEdit
  <1>1. Init => Editor!LineInit
    <2> SUFFICES ASSUME Init PROVE Editor!LineInit
      OBVIOUS
    <2>1. Text = <<>>
      BY DEF Init, Text
    <2> QED
      BY <2>1 DEF Init, Editor!LineInit, Editor!Empty
  <1>2. Inv /\ Inv' /\ [Next]_vars => [Editor!LineNext]_<<Now, ok, call>>
    BY EditorStep
  <1> QED
    BY <1>1, <1>2, InitInv, NextInv, PTL DEF Spec, RefinesLineEdit, Editor!LineSpec, Now
==============================================================================
