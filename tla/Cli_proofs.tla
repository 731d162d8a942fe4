----------------------------- MODULE Cli_proofs -----------------------------
(***************************************************************************)
(* Proofs about History and about Cli, which browses and adds to it, for   *)
(* any characters, any lines and any capacities.                           *)
(*                                                                         *)
(* The history: the text of the ring is cut into lines by the places of    *)
(* its newlines; the invariant says that such places exist, and every      *)
(* operation is followed through them.                                     *)
(*                                                                         *)
(* The command line: what a handler prints is at most some backspaces,     *)
(* then characters, then backspaces (Strokes), and the row afterwards is   *)
(* the row before with the characters laid over it (Over).  A handler      *)
(* keeps the row showing the line when those characters are the new line   *)
(* from where it changed on (Repaints, Redraws).                           *)
(*                                                                         *)
(* Where a definition is recursive, what it computes is given and shown to *)
(* be the only solution of its equation, by the least number for which     *)
(* another solution would differ.                                          *)
(***************************************************************************)
EXTENDS Cli, History, SequenceTheorems, FiniteSetTheorems, TLAPS

Text == Char \union {NL}

(***************************************************************************)
(* Induction                                                               *)
(***************************************************************************)
\* A set of numbers has a least one.
LEMMA LeastNat ==
  ASSUME NEW S \in SUBSET Nat, S /= {}
  PROVE  \E x \in S : \A y \in S : x <= y
  <1> DEFINE R == OpToRel(<, Nat)
  <1>1. IsWellFoundedOn(R, Nat)
    BY NatLessThanWellFounded
  <1>2. PICK x \in S : \A y \in S : ~(<<y, x>> \in R)
    BY <1>1, WFMin
  <1>3. ASSUME NEW y \in S, ~(x <= y) PROVE FALSE
    <2>1. x \in Nat /\ y \in Nat /\ y < x
      BY <1>3
    <2>2. <<y, x>> \in R
      BY <2>1 DEF OpToRel
    <2> QED
      BY <1>2, <2>2
  <1> QED
    BY <1>3

\* Two functions that begin alike and stay alike from each number to the next
\* are alike.
Alike(f, g, n) ==
  n \in Nat /\ f[0] = g[0] /\ \A i \in 1..n : f[i - 1] = g[i - 1] => f[i] = g[i]

LEMMA SameFunction ==
  ASSUME NEW n, NEW f, NEW g, Alike(f, g, n)
  PROVE  \A i \in 0..n : f[i] = g[i]
  <1>0. n \in Nat
    BY DEF Alike
  <1> DEFINE S == {i \in 0..n : f[i] /= g[i]}
  <1>1. SUFFICES ASSUME S /= {} PROVE FALSE
    OBVIOUS
  <1>2. S \in SUBSET Nat
    BY <1>0
  <1>3. PICK x \in S : \A y \in S : x <= y
    BY <1>1, <1>2, LeastNat
  <1>4. x \in 1..n /\ x - 1 \in 0..n /\ ~(x <= x - 1)
    BY <1>0, <1>3 DEF Alike
  <1>5. f[x - 1] = g[x - 1]
    BY <1>3, <1>4
  <1> QED
    BY <1>3, <1>4, <1>5 DEF Alike

(***************************************************************************)
(* The places of the newlines                                              *)
(***************************************************************************)
\* pos[k] is the place of the k-th of the n newlines of h; h ends with the last
\* one, and no line but the first is empty.
Cuts(h, pos, n) ==
  /\ pos \in [0..n -> 0..Len(h)] /\ pos[0] = 0 /\ pos[n] = Len(h)
  /\ \A j \in 0..n, k \in 0..n : j < k => pos[j] < pos[k]
  /\ \A i \in 1..Len(h) : h[i] = NL <=> \E k \in 1..n : pos[k] = i
  /\ \A k \in 2..n : pos[k - 1] + 1 < pos[k]

\* The k-th line, without its newline.
Entry(h, pos, k) == SubSeq(h, pos[k - 1] + 1, pos[k] - 1)
EntriesTo(h, pos, k) == [j \in 1..k |-> Entry(h, pos, j)]

\* Place i of the text is in the line after the k-th newline, or that newline.
Within(pos, n, i, k) == k \in 0..n /\ pos[k] <= i /\ (k < n => i < pos[k + 1])

LEMMA WithinOne ==
  ASSUME NEW h \in Seq(Text), NEW n \in Nat, NEW pos, Cuts(h, pos, n), NEW i \in 0..Len(h)
  PROVE  \E k \in 0..n : Within(pos, n, i, k) /\ \A j : Within(pos, n, i, j) => j = k
  <1>1. Len(h) \in Nat /\ \A k \in 0..n : pos[k] \in Nat
    BY LenProperties DEF Cuts
  <1> DEFINE S == {k \in 0..n : k < n => i < pos[k + 1]}
  <1>2. S \in SUBSET Nat /\ n \in S
    OBVIOUS
  <1>3. PICK k \in S : \A j \in S : k <= j
    BY <1>2, LeastNat
  <1>4. pos[k] <= i
    <2>1. CASE k = 0
      BY <1>1, <2>1 DEF Cuts
    <2>2. CASE k /= 0
      <3>1. k - 1 \in 0..n /\ k - 1 < n /\ k - 1 + 1 = k /\ ~(k <= k - 1)
        BY <1>2, <2>2
      <3>2. ~(i < pos[k])
        BY <1>3, <3>1
      <3> QED
        BY <1>1, <3>2
    <2> QED
      BY <2>1, <2>2
  <1>5. Within(pos, n, i, k)
    BY <1>3, <1>4 DEF Within
  <1>6. ASSUME NEW j, Within(pos, n, i, j), j /= k PROVE FALSE
    <2>1. j \in 0..n /\ k \in 0..n /\ pos[j] <= i /\ pos[k] <= i
      BY <1>5, <1>6 DEF Within
    <2>2. CASE j < k
      <3>1. j + 1 \in 0..n /\ j < n /\ (j + 1 = k \/ j + 1 < k)
        BY <2>1, <2>2
      <3>2. i < pos[j + 1] /\ pos[j + 1] <= pos[k]
        BY <1>1, <1>6, <2>1, <3>1 DEF Within, Cuts
      <3> QED
        BY <1>1, <2>1, <3>1, <3>2
    <2>3. CASE k < j
      <3>1. k + 1 \in 0..n /\ k < n /\ (k + 1 = j \/ k + 1 < j)
        BY <2>1, <2>3
      <3>2. i < pos[k + 1] /\ pos[k + 1] <= pos[j]
        BY <1>1, <1>5, <2>1, <3>1 DEF Within, Cuts
      <3> QED
        BY <1>1, <2>1, <3>1, <3>2
    <2> QED
      BY <1>6, <2>1, <2>2, <2>3
  <1> QED
    BY <1>5, <1>6

\* Between two of the places there are only characters of lines.
LEMMA Between ==
  ASSUME NEW h \in Seq(Text), NEW n \in Nat, NEW pos, Cuts(h, pos, n), NEW k \in 1..n
  PROVE  /\ pos[k - 1] \in Nat /\ pos[k] \in Nat /\ pos[k - 1] < pos[k] /\ pos[k] <= Len(h)
         /\ h[pos[k]] = NL
         /\ \A i \in pos[k - 1] + 1..pos[k] - 1 : h[i] \in Char /\ h[i] /= NL
  <1>1. k - 1 \in 0..n /\ k \in 0..n /\ k - 1 < k /\ Len(h) \in Nat
    BY LenProperties
  <1>2. PICK a, b : a = pos[k - 1] /\ b = pos[k]
    OBVIOUS
  <1>3. a \in Nat /\ b \in Nat /\ a < b /\ b <= Len(h)
    BY <1>1, <1>2 DEF Cuts
  <1>4. ASSUME NEW j \in 1..n PROVE pos[j] <= a \/ b <= pos[j]
    <2>1. j \in 0..n /\ (j < k - 1 \/ j = k - 1 \/ j = k \/ k < j)
      OBVIOUS
    <2>2. j < k - 1 => pos[j] < a
      BY <1>1, <1>2, <2>1 DEF Cuts
    <2>3. k < j => b < pos[j]
      BY <1>1, <1>2, <2>1 DEF Cuts
    <2>4. pos[j] \in Nat
      BY <2>1 DEF Cuts
    <2> QED
      BY <1>2, <1>3, <2>1, <2>2, <2>3, <2>4
  <1>5. ASSUME NEW i \in a + 1..b - 1 PROVE h[i] \in Char /\ h[i] /= NL
    <2>1. i \in 1..Len(h)
      BY <1>1, <1>3
    <2>2. h[i] \in Text
      BY <2>1, ElementOfSeq
    <2>3. ASSUME NEW j \in 1..n, pos[j] = i PROVE FALSE
      BY <1>3, <1>4, <2>3
    <2> QED
      BY <2>1, <2>2, <2>3 DEF Cuts, Text
  <1>6. b \in 1..Len(h)
    BY <1>3
  <1>7. h[b] = NL
    BY <1>2, <1>6 DEF Cuts
  <1> QED
    BY <1>2, <1>3, <1>5, <1>7

\* The lines are sequences of characters.
LEMMA EntryProperties ==
  ASSUME NEW h \in Seq(Text), NEW n \in Nat, NEW pos, Cuts(h, pos, n), NEW k \in 1..n
  PROVE  /\ Entry(h, pos, k) \in Seq(Char)
         /\ Len(Entry(h, pos, k)) = pos[k] - pos[k - 1] - 1
         /\ \A i \in 1..pos[k] - pos[k - 1] - 1 : Entry(h, pos, k)[i] = h[pos[k - 1] + i]
  <1>2. PICK a, b : a = pos[k - 1] /\ b = pos[k]
    OBVIOUS
  <1>3. a \in Nat /\ b \in Nat /\ a < b /\ b <= Len(h)
    BY <1>2, Between
  <1>5. ASSUME NEW i \in a + 1..b - 1 PROVE h[i] \in Char
    BY <1>2, Between
  <1>6. PICK e : e = SubSeq(h, a + 1, b - 1)
    OBVIOUS
  <1>7. /\ e \in Seq(Char)
        /\ Len(e) = IF a + 1 <= b - 1 THEN b - 1 - (a + 1) + 1 ELSE 0
        /\ \A i \in 1..b - 1 - (a + 1) + 1 : e[i] = h[a + 1 + i - 1]
    BY <1>3, <1>5, <1>6, SubSeqProperties
  <1>8. Len(e) = b - a - 1 /\ b - 1 - (a + 1) + 1 = b - a - 1
    BY <1>3, <1>7
  <1>9. \A i \in 1..b - a - 1 : a + 1 + i - 1 = a + i
    BY <1>3
  <1>10. \A i \in 1..b - a - 1 : e[i] = h[a + i]
    BY <1>7, <1>8, <1>9
  <1>11. Entry(h, pos, k) = e
    BY <1>2, <1>6 DEF Entry
  <1> QED
    BY <1>2, <1>3, <1>7, <1>8, <1>10, <1>11

(***************************************************************************)
(* Reading the lines off the text                                          *)
(***************************************************************************)
\* The equation of the recursive function in Entries.
Split(h, split, i) ==
  IF i = 0 THEN [lines |-> <<>>, last |-> <<>>]
  ELSE LET before == split[i - 1]
       IN  IF h[i] = NL
           THEN [lines |-> Append(before.lines, before.last), last |-> <<>>]
           ELSE [before EXCEPT !.last = Append(@, h[i])]

LEMMA EntriesDef ==
  \A h : Entries(h) =
           (CHOOSE split : split = [i \in 0..Len(h) |-> Split(h, split, i)])[Len(h)].lines
  BY Zenon DEF Entries, Split

\* What it computes: the lines that end before place i, and the rest.
Seen(h, pos, k, i) == [lines |-> EntriesTo(h, pos, k), last |-> SubSeq(h, pos[k] + 1, i)]

LEMMA SeenStart ==
  ASSUME NEW h \in Seq(Text), NEW pos, NEW n \in Nat, Cuts(h, pos, n)
  PROVE  Seen(h, pos, 0, 0) = [lines |-> <<>>, last |-> <<>>]
  <1>1. SubSeq(h, pos[0] + 1, 0) = <<>>
    BY SubSeqEmpty DEF Cuts
  <1>2. EntriesTo(h, pos, 0) = <<>>
    BY DEF EntriesTo
  <1> QED
    BY <1>1, <1>2 DEF Seen

\* The lines as a sequence.
LEMMA EntriesToProperties ==
  ASSUME NEW h \in Seq(Text), NEW n \in Nat, NEW pos, Cuts(h, pos, n), NEW k \in 0..n
  PROVE  /\ EntriesTo(h, pos, k) \in Seq(Seq(Char)) /\ Len(EntriesTo(h, pos, k)) = k
         /\ \A j \in 1..k : EntriesTo(h, pos, k)[j] = Entry(h, pos, j)
  <1>1. \A j \in 1..n : Entry(h, pos, j) \in Seq(Char)
    BY EntryProperties
  <1>2. EntriesTo(h, pos, k) \in [1..k -> Seq(Char)]
    BY <1>1 DEF EntriesTo
  <1>3. EntriesTo(h, pos, k) \in Seq(Seq(Char))
    BY <1>2, SeqDef
  <1> QED
    BY <1>2, <1>3, LenProperties DEF EntriesTo

\* One more line is seen.
LEMMA EntriesAppend ==
  ASSUME NEW h \in Seq(Text), NEW n \in Nat, NEW pos, Cuts(h, pos, n), NEW k \in 1..n
  PROVE  EntriesTo(h, pos, k) = Append(EntriesTo(h, pos, k - 1), Entry(h, pos, k))
  <1>1. \A j \in 1..n : Entry(h, pos, j) \in Seq(Char)
    BY EntryProperties
  <1>2. k - 1 \in 0..n /\ k \in 0..n
    OBVIOUS
  <1>3. PICK s : s = EntriesTo(h, pos, k - 1)
    OBVIOUS
  <1>4. PICK e : e = Entry(h, pos, k)
    OBVIOUS
  <1>5. PICK u : u = EntriesTo(h, pos, k)
    OBVIOUS
  <1>6. /\ s \in Seq(Seq(Char)) /\ Len(s) = k - 1 /\ e \in Seq(Char)
        /\ \A j \in 1..k - 1 : s[j] = Entry(h, pos, j)
    <2>1. /\ EntriesTo(h, pos, k - 1) \in Seq(Seq(Char))
          /\ Len(EntriesTo(h, pos, k - 1)) = k - 1
          /\ \A j \in 1..k - 1 : EntriesTo(h, pos, k - 1)[j] = Entry(h, pos, j)
      BY <1>2, EntriesToProperties
    <2>2. e \in Seq(Char)
      BY <1>1, <1>4
    <2> QED
      BY <1>3, <2>1, <2>2
  <1>7. /\ u \in Seq(Seq(Char)) /\ Len(u) = k
        /\ \A j \in 1..k : u[j] = Entry(h, pos, j)
    BY <1>2, <1>5, EntriesToProperties
  <1>8. /\ Append(s, e) \in Seq(Seq(Char)) /\ Len(Append(s, e)) = k
        /\ \A j \in 1..k - 1 : Append(s, e)[j] = s[j]
        /\ Append(s, e)[k] = e
    BY <1>6, AppendProperties
  <1>9. \A j \in 1..k : u[j] = Append(s, e)[j]
    BY <1>4, <1>6, <1>7, <1>8
  <1>10. u = Append(s, e)
    BY <1>7, <1>8, <1>9, SeqEqual
  <1> QED
    BY <1>3, <1>4, <1>5, <1>10

\* One place further, the lines and the rest are what the equation says.
LEMMA SeenStep ==
  ASSUME NEW h \in Seq(Text), NEW n \in Nat, NEW pos, Cuts(h, pos, n), NEW i \in 1..Len(h),
         NEW j, NEW k, Within(pos, n, i - 1, j), Within(pos, n, i, k), NEW split,
         split[i - 1] = Seen(h, pos, j, i - 1)
  PROVE  Split(h, split, i) = Seen(h, pos, k, i)
  <1>1. /\ Len(h) \in Nat /\ i \in Nat /\ i /= 0 /\ j \in 0..n /\ k \in 0..n
        /\ \A m \in 0..n : pos[m] \in Nat
    BY LenProperties DEF Cuts, Within
  <1>2. CASE h[i] = NL
    <2>1. PICK m \in 1..n : pos[m] = i
      BY <1>2 DEF Cuts
    <2>2. k = m /\ j = m - 1
      <3>1. m \in 0..n /\ m - 1 \in 0..n /\ m - 1 < m /\ m - 1 + 1 = m /\ m - 1 < n
        OBVIOUS
      <3>2. pos[m - 1] < i /\ (m < n => i < pos[m + 1])
        <4>1. m < n => m + 1 \in 0..n /\ m < m + 1
          BY <3>1
        <4> QED
          BY <2>1, <3>1, <4>1 DEF Cuts
      <3>3. Within(pos, n, i, m)
        BY <1>1, <2>1, <3>1, <3>2 DEF Within
      <3>4. Within(pos, n, i - 1, m - 1)
        BY <1>1, <2>1, <3>1, <3>2 DEF Within
      <3>5. i \in 0..Len(h) /\ i - 1 \in 0..Len(h)
        BY <1>1
      <3> QED
        BY <3>3, <3>4, <3>5, WithinOne
    <2>3. SubSeq(h, pos[m] + 1, i) = <<>>
      BY <1>1, <2>1, SubSeqEmpty
    <2>4. SubSeq(h, pos[m - 1] + 1, i - 1) = Entry(h, pos, m)
      BY <2>1 DEF Entry
    <2>5. EntriesTo(h, pos, m) = Append(EntriesTo(h, pos, m - 1), Entry(h, pos, m))
      BY EntriesAppend
    <2>6. PICK before : before = split[i - 1]
      OBVIOUS
    <2>7. before.lines = EntriesTo(h, pos, m - 1) /\ before.last = Entry(h, pos, m)
      BY <2>2, <2>4, <2>6 DEF Seen
    <2>8. Split(h, split, i) = [lines |-> Append(before.lines, before.last), last |-> <<>>]
      BY <1>1, <1>2, <2>6 DEF Split
    <2> QED
      BY <2>1, <2>2, <2>3, <2>5, <2>7, <2>8 DEF Seen
  <1>3. CASE h[i] /= NL
    <2>1. k = j
      <3>1. j < n => i /= pos[j + 1] /\ pos[j + 1] \in Nat
        <4>1. j < n => j + 1 \in 1..n
          BY <1>1
        <4> QED
          BY <1>1, <1>3, <4>1 DEF Cuts
      <3>2. pos[j] \in Nat /\ pos[j] <= i - 1 /\ (j < n => i - 1 < pos[j + 1])
        BY <1>1 DEF Within
      <3>3. pos[j] <= i /\ (j < n => i < pos[j + 1])
        BY <1>1, <3>1, <3>2
      <3>4. Within(pos, n, i, j)
        BY <1>1, <3>3 DEF Within
      <3>5. i \in 0..Len(h)
        BY <1>1
      <3> QED
        BY <3>4, <3>5, WithinOne
    <2>2. PICK a : a = pos[j]
      OBVIOUS
    <2>3. a \in Nat /\ a <= i - 1
      BY <1>1, <2>2 DEF Within
    <2>4. Append(SubSeq(h, a + 1, i - 1), h[i]) = SubSeq(h, a + 1, i)
      <3>1. a + 1 \in 1..Len(h) /\ i \in a + 1..Len(h) /\ i - 1 \in Int
        BY <1>1, <2>3
      <3>2. SubSeq(h, a + 1, i) = SubSeq(h, a + 1, i - 1) \o <<h[i]>>
        BY <3>1, SubSeqRecursiveSecond
      <3>3. ASSUME NEW m \in a + 1..i - 1 PROVE h[m] \in Text
        <4>1. m \in 1..Len(h)
          BY <1>1, <2>3
        <4> QED
          BY <4>1, ElementOfSeq
      <3>4. SubSeq(h, a + 1, i - 1) \in Seq(Text) /\ h[i] \in Text
        BY <2>3, <3>1, <3>3, SubSeqProperties, ElementOfSeq
      <3> QED
        BY <3>2, <3>4, AppendIsConcat
    <2>5. PICK before : before = split[i - 1]
      OBVIOUS
    <2>6. before = [lines |-> EntriesTo(h, pos, j), last |-> SubSeq(h, a + 1, i - 1)]
      BY <2>2, <2>5 DEF Seen
    <2>7. Split(h, split, i) = [before EXCEPT !.last = Append(@, h[i])]
      BY <1>1, <1>3, <2>5 DEF Split
    <2>8. Split(h, split, i) = [lines |-> EntriesTo(h, pos, j), last |-> SubSeq(h, a + 1, i)]
      BY <2>4, <2>6, <2>7
    <2> QED
      BY <2>1, <2>2, <2>8 DEF Seen
  <1> QED
    BY <1>2, <1>3

\* The lines of a text that the places cut.
LEMMA EntriesAre ==
  ASSUME NEW h \in Seq(Text), NEW n \in Nat, NEW pos, Cuts(h, pos, n)
  PROVE  Entries(h) = EntriesTo(h, pos, n)
  <1>1. Len(h) \in Nat
    BY LenProperties
  <1> DEFINE line_of(i) == CHOOSE k : Within(pos, n, i, k)
             w == [i \in 0..Len(h) |-> Seen(h, pos, line_of(i), i)]
             f == CHOOSE split : split = [i \in 0..Len(h) |-> Split(h, split, i)]
  <1>2. ASSUME NEW i \in 0..Len(h) PROVE Within(pos, n, i, line_of(i))
    <2>1. \E k : Within(pos, n, i, k)
      BY WithinOne
    <2> QED
      BY <2>1
  <1>3. Within(pos, n, 0, 0) /\ Within(pos, n, Len(h), n)
    <2>1. 0 < n => 1 \in 0..n /\ 0 \in 0..n
      OBVIOUS
    <2> QED
      BY <1>1, <2>1 DEF Within, Cuts
  <1>4. line_of(0) = 0 /\ line_of(Len(h)) = n
    BY <1>1, <1>2, <1>3, WithinOne
  <1> HIDE DEF line_of
  <1>5. \A i \in 0..Len(h) : w[i] = Seen(h, pos, line_of(i), i)
    OBVIOUS
  <1> HIDE DEF w
  <1>6. ASSUME NEW i \in 1..Len(h), NEW split, split[i - 1] = w[i - 1]
        PROVE  Split(h, split, i) = w[i]
    <2>1. i \in 0..Len(h) /\ i - 1 \in 0..Len(h)
      BY <1>1
    <2>2. split[i - 1] = Seen(h, pos, line_of(i - 1), i - 1)
      BY <1>5, <1>6, <2>1
    <2> QED
      BY <1>2, <1>5, <2>1, <2>2, SeenStep
  <1>7. \A split : Split(h, split, 0) = w[0]
    BY <1>1, <1>4, <1>5, SeenStart DEF Split
  <1>8. w = [i \in 0..Len(h) |-> Split(h, w, i)]
    <2>1. ASSUME NEW i \in 0..Len(h) PROVE w[i] = Split(h, w, i)
      <3>1. i = 0 \/ i \in 1..Len(h)
        BY <1>1
      <3> QED
        BY <1>6, <1>7, <3>1
    <2>2. w = [i \in 0..Len(h) |-> w[i]]
      BY DEF w
    <2> QED
      BY <2>1, <2>2
  <1>9. f = [i \in 0..Len(h) |-> Split(h, f, i)]
    BY <1>8
  <1> HIDE DEF f
  <1>10. \A i \in 0..Len(h) : f[i] = Split(h, f, i)
    BY <1>9
  <1>11. Alike(f, w, Len(h))
    BY <1>1, <1>6, <1>7, <1>10 DEF Alike
  <1>12. \A i \in 0..Len(h) : f[i] = w[i]
    BY <1>11, SameFunction
  <1>13. f[Len(h)] = Seen(h, pos, n, Len(h))
    BY <1>1, <1>4, <1>5, <1>12
  <1>14. Entries(h) = f[Len(h)].lines
    BY EntriesDef DEF f
  <1> QED
    BY <1>13, <1>14 DEF Seen

(***************************************************************************)
(* The sizes of the lines                                                  *)
(***************************************************************************)
\* The equation of the recursive function in Size.
Sum(lines, size, i) == IF i = 0 THEN 0 ELSE size[i - 1] + Len(lines[i]) + 1

LEMMA SizeDef ==
  \A lines, n : List!Size(lines, n) =
                  (CHOOSE size : size = [i \in 0..n |-> Sum(lines, size, i)])[n]
  BY Zenon DEF List!Size, Sum

\* A function that adds each line and its newline gives the sizes.
Adds(lines, n, p) ==
  p[0] = 0 /\ \A k \in 1..n : p[k] = p[k - 1] + Len(lines[k]) + 1

LEMMA SizeIs ==
  ASSUME NEW lines, NEW n \in Nat, NEW p, Adds(lines, n, p), NEW m \in 0..n
  PROVE  List!Size(lines, m) = p[m]
  <1> DEFINE w == [i \in 0..m |-> p[i]]
             f == CHOOSE size : size = [i \in 0..m |-> Sum(lines, size, i)]
  <1>1. \A i \in 0..m : w[i] = p[i]
    OBVIOUS
  <1> HIDE DEF w
  <1>2. ASSUME NEW i \in 1..m, NEW size, size[i - 1] = w[i - 1]
        PROVE  Sum(lines, size, i) = w[i]
    <2>1. i \in 1..n /\ i - 1 \in 0..m /\ i \in 0..m /\ i /= 0
      OBVIOUS
    <2> QED
      BY <1>1, <1>2, <2>1 DEF Sum, Adds
  <1>3. \A size : Sum(lines, size, 0) = w[0]
    BY <1>1 DEF Sum, Adds
  <1>4. w = [i \in 0..m |-> Sum(lines, w, i)]
    <2>1. ASSUME NEW i \in 0..m PROVE w[i] = Sum(lines, w, i)
      <3>1. i = 0 \/ i \in 1..m
        OBVIOUS
      <3> QED
        BY <1>2, <1>3, <3>1
    <2>2. w = [i \in 0..m |-> w[i]]
      BY DEF w
    <2> QED
      BY <2>1, <2>2
  <1>5. f = [i \in 0..m |-> Sum(lines, f, i)]
    BY <1>4
  <1> HIDE DEF f
  <1>6. \A i \in 0..m : f[i] = Sum(lines, f, i)
    BY <1>5
  <1>7. Alike(f, w, m)
    BY <1>2, <1>3, <1>6 DEF Alike
  <1>8. f[m] = p[m]
    BY <1>1, <1>7, SameFunction
  <1>9. List!Size(lines, m) = f[m]
    BY SizeDef DEF f
  <1> QED
    BY <1>8, <1>9

(***************************************************************************)
(* The searches                                                            *)
(***************************************************************************)
\* The last newline up to a place.
LEMMA LineBeginIs ==
  ASSUME NEW h, NEW p \in Nat, NEW b \in 0..p, b > 0 => h[b] = NL,
         \A i \in b + 1..p : h[i] /= NL
  PROVE  LineBegin(h, p) = b
  <1> DEFINE S == {i \in 1..p : h[i] = NL}
  <1>1. LineBegin(h, p) = IF S /= {} THEN Max(S) ELSE 0
    BY Zenon DEF LineBegin, SelectLastInSubSeq
  <1>2. ASSUME NEW i \in S PROVE i \in Nat /\ i <= b /\ i > 0
    <2>1. ~(i \in b + 1..p)
      OBVIOUS
    <2> QED
      BY <2>1
  <1>3. b > 0 => b \in S
    OBVIOUS
  <1> HIDE DEF S
  <1>4. CASE S = {}
    BY <1>1, <1>3, <1>4
  <1>5. CASE S /= {}
    <2>1. b \in S /\ \A i \in S : b >= i
      BY <1>2, <1>3, <1>5
    <2>2. Max(S) \in S /\ \A i \in S : Max(S) >= i
      BY <2>1 DEF Max
    <2>3. Max(S) >= b /\ Max(S) <= b /\ Max(S) \in Nat
      BY <1>2, <2>1, <2>2
    <2> QED
      BY <1>1, <1>5, <2>3
  <1> QED
    BY <1>4, <1>5

\* The first newline from a place on.
LEMMA LineEndIs ==
  ASSUME NEW h \in Seq(Text), NEW p \in 0..Len(h), NEW e \in p..Len(h),
         e < Len(h) => h[e + 1] = NL, \A i \in p + 1..e : h[i] /= NL
  PROVE  LineEnd(h, p) = e
  <1> DEFINE S == {i \in p + 1..Len(h) : h[i] = NL}
  <1>0. Len(h) \in Nat /\ p \in Nat /\ e \in Nat
    BY LenProperties
  <1>1. LineEnd(h, p) = LET i == IF S /= {} THEN Min(S) ELSE 0
                        IN  IF i > 0 THEN i - 1 ELSE Len(h)
    BY Zenon DEF LineEnd, SelectInSubSeq
  <1>2. ASSUME NEW i \in S PROVE i \in Nat /\ e + 1 <= i /\ i > 0 /\ e < Len(h)
    <2>1. ~(i \in p + 1..e)
      OBVIOUS
    <2> QED
      BY <1>0, <2>1
  <1>3. e < Len(h) => e + 1 \in S
    BY <1>0
  <1> HIDE DEF S
  <1>4. CASE S = {}
    BY <1>0, <1>1, <1>3, <1>4
  <1>5. CASE S /= {}
    <2>1. e + 1 \in S /\ \A i \in S : e + 1 <= i
      BY <1>2, <1>3, <1>5
    <2>2. Min(S) \in S /\ \A i \in S : Min(S) <= i
      BY <2>1 DEF Min
    <2>3. Min(S) = e + 1
      BY <1>0, <1>2, <2>1, <2>2
    <2> QED
      BY <1>0, <1>1, <1>5, <2>3
  <1> QED
    BY <1>4, <1>5

\* The searches from the end of a line stop at the places next to it.
LEMMA Searches ==
  ASSUME NEW h \in Seq(Text), NEW n \in Nat, NEW pos, Cuts(h, pos, n)
  PROVE  /\ \A k \in 0..n : LineBegin(h, pos[k]) = pos[k]
         /\ \A k \in 1..n : LineBegin(h, pos[k] - 1) = pos[k - 1]
         /\ \A k \in 1..n : LineEnd(h, pos[k - 1]) = pos[k] - 1
         /\ LineEnd(h, pos[n]) = pos[n]
  <1>0. Len(h) \in Nat /\ \A k \in 0..n : pos[k] \in 0..Len(h)
    BY LenProperties DEF Cuts
  <1>1. ASSUME NEW k \in 0..n PROVE pos[k] > 0 => k \in 1..n /\ h[pos[k]] = NL
    <2>1. k = 0 => pos[k] = 0
      BY DEF Cuts
    <2>2. k \in 1..n => h[pos[k]] = NL
      BY Between
    <2> QED
      BY <1>0, <2>1, <2>2
  <1>2. ASSUME NEW k \in 0..n PROVE LineBegin(h, pos[k]) = pos[k]
    <2>1. PICK p \in Nat : p = pos[k]
      BY <1>0
    <2>2. p \in 0..p /\ (p > 0 => h[p] = NL) /\ \A i \in p + 1..p : h[i] /= NL
      BY <1>1, <2>1
    <2> QED
      BY <2>1, <2>2, LineBeginIs
  <1>3. ASSUME NEW k \in 1..n
        PROVE LineBegin(h, pos[k] - 1) = pos[k - 1] /\ LineEnd(h, pos[k - 1]) = pos[k] - 1
    <2>1. PICK a, b : a = pos[k - 1] /\ b = pos[k]
      OBVIOUS
    <2>2. /\ a \in Nat /\ b \in Nat /\ a < b /\ b <= Len(h) /\ h[b] = NL
          /\ \A i \in a + 1..b - 1 : h[i] /= NL
      BY <2>1, Between, SMTT(20)
    <2>3. a > 0 => h[a] = NL
      <3>1. k - 1 \in 0..n
        OBVIOUS
      <3> QED
        BY <1>1, <2>1, <3>1
    <2>4. LineBegin(h, b - 1) = a
      <3>1. b - 1 \in Nat /\ a \in 0..b - 1
        BY <2>2
      <3> QED
        BY <2>2, <2>3, <3>1, LineBeginIs
    <2>5. LineEnd(h, a) = b - 1
      <3>1. a \in 0..Len(h) /\ b - 1 \in a..Len(h) /\ b - 1 + 1 = b
        BY <1>0, <2>2
      <3> QED
        BY <2>2, <3>1, LineEndIs
    <2> QED
      BY <2>1, <2>4, <2>5
  <1>4. LineEnd(h, pos[n]) = pos[n]
    <2>1. PICK p : p = Len(h) /\ p = pos[n]
      BY DEF Cuts
    <2>2. /\ p \in 0..Len(h) /\ p \in p..Len(h) /\ ~(p < Len(h))
          /\ \A i \in p + 1..p : h[i] /= NL
      BY <1>0, <2>1
    <2> QED
      BY <2>1, <2>2, LineEndIs
  <1> QED
    BY <1>2, <1>3, <1>4

(***************************************************************************)
(* Adding a line                                                           *)
(***************************************************************************)
\* The end of a text that the ring keeps.
LEMMA NewestProperties ==
  ASSUME NEW s \in Seq(Text)
  PROVE  /\ Newest(s) \in Seq(Text)
         /\ Len(Newest(s)) = IF Len(s) <= HistCap THEN Len(s) ELSE HistCap
         /\ \A i \in 1..Len(Newest(s)) : Newest(s)[i] = s[Len(s) - Len(Newest(s)) + i]
  <1>1. Len(s) \in Nat /\ HistCap \in Nat
    BY LenProperties, CapacityAssumption
  <1>2. CASE Len(s) <= HistCap
    BY <1>1, <1>2 DEF Newest
  <1>3. CASE ~(Len(s) <= HistCap)
    <2>1. PICK from : from = Len(s) - HistCap + 1
      OBVIOUS
    <2>2. PICK b : b = SubSeq(s, from, Len(s))
      OBVIOUS
    <2>3. from \in 1..Len(s) + 1 /\ Len(s) - from + 1 = HistCap
      BY <1>1, <1>3, <2>1
    <2>4. ASSUME NEW i \in from..Len(s) PROVE s[i] \in Text
      <3>1. i \in 1..Len(s)
        BY <1>1, <2>3
      <3> QED
        BY <3>1, ElementOfSeq
    <2>5. /\ b \in Seq(Text) /\ Len(b) = IF from <= Len(s) THEN Len(s) - from + 1 ELSE 0
          /\ \A i \in 1..Len(s) - from + 1 : b[i] = s[from + i - 1]
      BY <1>1, <2>2, <2>3, <2>4, SubSeqProperties
    <2>6. Len(b) = HistCap
      BY <1>1, <2>3, <2>5
    <2>7. \A i \in 1..HistCap : from + i - 1 = Len(s) - HistCap + i
      BY <1>1, <2>1
    <2>8. \A i \in 1..HistCap : b[i] = s[Len(s) - HistCap + i]
      BY <2>3, <2>5, <2>7
    <2>9. Newest(s) = b
      BY <1>3, <2>1, <2>2 DEF Newest
    <2> QED
      BY <1>3, <2>5, <2>6, <2>8, <2>9
  <1> QED
    BY <1>2, <1>3

\* The lines that fit the store.
Fitting == {l \in Seq(Char) : Len(l) \in 1..HistCap}

\* A line and its newline, after a text.
Entered(h, l) == Append(h \o l, NL)

LEMMA EnteredProperties ==
  ASSUME NEW h \in Seq(Text), NEW l \in Fitting
  PROVE  /\ Entered(h, l) \in Seq(Text) /\ Len(Entered(h, l)) = Len(h) + Len(l) + 1
         /\ h \o l \in Seq(Text) /\ Len(h \o l) = Len(h) + Len(l)
         /\ l \in Seq(Char) /\ Len(l) \in 1..HistCap
         /\ \A i \in 1..Len(h) : Entered(h, l)[i] = h[i]
         /\ \A i \in 1..Len(l) : Entered(h, l)[Len(h) + i] = l[i] /\ l[i] \in Char /\ l[i] /= NL
         /\ Entered(h, l)[Len(h) + Len(l) + 1] = NL
         /\ \A i \in 1..Len(h) + Len(l) : Entered(h, l)[i] = (h \o l)[i]
  <1>1. l \in Seq(Char) /\ Len(l) \in 1..HistCap /\ Len(h) \in Nat /\ Len(l) \in Nat
    BY LenProperties DEF Fitting
  <1>2. \A i \in 1..Len(l) : l[i] \in Char /\ l[i] /= NL
    BY <1>1, NewlineAssumption, ElementOfSeq
  <1>3. l \in Seq(Text)
    BY <1>1, <1>2, IsASeq DEF Text
  <1>4. PICK c : c = h \o l
    OBVIOUS
  <1>5. /\ c \in Seq(Text) /\ Len(c) = Len(h) + Len(l)
        /\ \A i \in 1..Len(h) + Len(l) : c[i] = IF i <= Len(h) THEN h[i] ELSE l[i - Len(h)]
    BY <1>3, <1>4, ConcatProperties
  <1>6. PICK s : s = Append(c, NL)
    OBVIOUS
  <1>7. /\ s \in Seq(Text) /\ Len(s) = Len(c) + 1
        /\ \A i \in 1..Len(c) : s[i] = c[i]
        /\ s[Len(c) + 1] = NL
    <2>1. NL \in Text
      BY DEF Text
    <2>2. c \in Seq(Text)
      BY <1>5
    <2> QED
      BY ONLY <1>6, <2>1, <2>2, AppendProperties
  <1>8. \A i \in 1..Len(h) : s[i] = h[i]
    BY <1>1, <1>5, <1>7
  <1>9. ASSUME NEW i \in 1..Len(l) PROVE s[Len(h) + i] = l[i]
    <2>1. /\ Len(h) + i \in 1..Len(h) + Len(l) /\ ~(Len(h) + i <= Len(h))
          /\ Len(h) + i - Len(h) = i
      BY <1>1
    <2> QED
      BY <1>5, <1>7, <2>1, SMTT(20)
  <1>10. Entered(h, l) = s
    BY <1>4, <1>6 DEF Entered
  <1> QED
    BY <1>1, <1>2, <1>4, <1>5, <1>7, <1>8, <1>9, <1>10

\* The two pushes together keep the end of the old text, the line and newline.
LEMMA AddLineIs ==
  ASSUME NEW h \in Seq(Text), Len(h) <= HistCap, NEW l \in Fitting
  PROVE  AddLine(h, l) = Newest(Entered(h, l))
  <1>1. PICK c : c = h \o l
    OBVIOUS
  <1>2. PICK s : s = Entered(h, l)
    OBVIOUS
  <1>3. /\ c \in Seq(Text) /\ Len(c) \in Nat /\ s \in Seq(Text) /\ Len(s) = Len(c) + 1
        /\ \A i \in 1..Len(c) : s[i] = c[i]
        /\ s[Len(c) + 1] = NL /\ HistCap \in Nat /\ HistCap >= 1
    <2>1. /\ c \in Seq(Text) /\ Len(c) = Len(h) + Len(l)
          /\ s \in Seq(Text) /\ Len(s) = Len(h) + Len(l) + 1
          /\ \A i \in 1..Len(h) + Len(l) : s[i] = c[i]
          /\ s[Len(h) + Len(l) + 1] = NL /\ Len(l) \in 1..HistCap
      BY <1>1, <1>2, EnteredProperties
    <2> QED
      BY <2>1, LenProperties, CapacityAssumption
  <1>4. PICK b : b = Newest(c)
    OBVIOUS
  <1>5. /\ b \in Seq(Text) /\ Len(b) = IF Len(c) <= HistCap THEN Len(c) ELSE HistCap
        /\ \A i \in 1..Len(b) : b[i] = c[Len(c) - Len(b) + i]
    BY <1>3, <1>4, NewestProperties
  <1>6. PICK t : t = Append(b, NL)
    OBVIOUS
  <1>7. /\ t \in Seq(Text) /\ Len(t) = Len(b) + 1
        /\ \A i \in 1..Len(b) : t[i] = b[i]
        /\ t[Len(b) + 1] = NL
    <2>1. NL \in Text
      BY DEF Text
    <2> QED
      BY <1>5, <1>6, <2>1, AppendProperties
  <1>8. Len(b) \in Nat /\ Len(t) <= Len(s)
    BY <1>3, <1>5, <1>7
  <1>9. ASSUME NEW i \in 1..Len(t) PROVE t[i] = s[Len(s) - Len(t) + i]
    <2>1. CASE i = Len(b) + 1
      <3>1. Len(s) - Len(t) + i = Len(c) + 1
        BY <1>3, <1>7, <1>8, <2>1
      <3> QED
        BY <1>3, <1>7, <2>1, <3>1
    <2>2. CASE i /= Len(b) + 1
      <3>1. i \in 1..Len(b) /\ Len(s) - Len(t) + i = Len(c) - Len(b) + i
            /\ Len(c) - Len(b) + i \in 1..Len(c)
        BY <1>3, <1>5, <1>7, <1>8, <2>2
      <3> QED
        BY <1>3, <1>5, <1>7, <3>1
    <2> QED
      BY <2>1, <2>2
  <1>10. PICK u, v : u = Newest(t) /\ v = Newest(s)
    OBVIOUS
  <1>11. /\ u \in Seq(Text) /\ Len(u) = IF Len(t) <= HistCap THEN Len(t) ELSE HistCap
         /\ \A i \in 1..Len(u) : u[i] = t[Len(t) - Len(u) + i]
    BY <1>7, <1>10, NewestProperties
  <1>12. /\ v \in Seq(Text) /\ Len(v) = IF Len(s) <= HistCap THEN Len(s) ELSE HistCap
         /\ \A i \in 1..Len(v) : v[i] = s[Len(s) - Len(v) + i]
    BY <1>3, <1>10, NewestProperties
  <1>13. Len(u) = Len(v) /\ Len(u) \in Nat /\ Len(u) <= Len(t)
    BY <1>3, <1>5, <1>7, <1>8, <1>11, <1>12
  <1>14. ASSUME NEW i \in 1..Len(u) PROVE u[i] = v[i]
    <2>1. PICK j : j = Len(t) - Len(u) + i
      OBVIOUS
    <2>2. j \in 1..Len(t) /\ Len(s) - Len(t) + j = Len(s) - Len(v) + i
      BY <1>3, <1>7, <1>8, <1>13, <2>1
    <2>3. u[i] = t[j] /\ t[j] = s[Len(s) - Len(t) + j]
      BY <1>9, <1>11, <2>1, <2>2
    <2>4. v[i] = s[Len(s) - Len(v) + i]
      BY <1>12, <1>13
    <2> QED
      BY <2>2, <2>3, <2>4
  <1>15. u = v
    BY <1>11, <1>12, <1>13, <1>14, SeqEqual
  <1> QED
    BY <1>1, <1>2, <1>4, <1>6, <1>10, <1>15 DEF AddLine

\* The places after a line was entered.
EnteredPlaces(h, pos, n, l) ==
  [k \in 0..n + 1 |-> IF k <= n THEN pos[k] ELSE Len(h) + Len(l) + 1]

LEMMA CutsEnter ==
  ASSUME NEW h \in Seq(Text), NEW n \in Nat, NEW pos, Cuts(h, pos, n), NEW l \in Fitting
  PROVE  /\ Cuts(Entered(h, l), EnteredPlaces(h, pos, n, l), n + 1)
         /\ EntriesTo(Entered(h, l), EnteredPlaces(h, pos, n, l), n + 1)
              = Append(EntriesTo(h, pos, n), l)
  <1>1. PICK s : s = Entered(h, l)
    OBVIOUS
  <1>2. PICK t : t = EnteredPlaces(h, pos, n, l)
    OBVIOUS
  <1>3. PICK len, more : len = Len(h) /\ more = Len(l)
    OBVIOUS
  <1>0. PICK N \in Nat : N = n + 1
    OBVIOUS
  <1>4. /\ s \in Seq(Text) /\ Len(s) = len + more + 1
        /\ l \in Seq(Char) /\ Len(l) = more
        /\ \A i \in 1..len : s[i] = h[i]
        /\ \A i \in 1..more : s[len + i] = l[i] /\ l[i] /= NL
        /\ s[len + more + 1] = NL
    <2>1. /\ s \in Seq(Text) /\ Len(s) = Len(h) + Len(l) + 1
          /\ l \in Seq(Char)
          /\ \A i \in 1..Len(h) : s[i] = h[i]
          /\ \A i \in 1..Len(l) : s[Len(h) + i] = l[i] /\ l[i] /= NL
          /\ s[Len(h) + Len(l) + 1] = NL
      BY <1>1, EnteredProperties, ZenonT(30)
    <2> QED
      BY <1>3, <2>1
  <1>5. len \in Nat /\ more \in Nat /\ more >= 1
    BY <1>3, LenProperties DEF Fitting
  <1>6. /\ \A k \in 0..n : t[k] = pos[k] /\ pos[k] \in 0..len
        /\ t[n + 1] = len + more + 1 /\ pos[0] = 0 /\ pos[n] = len
        /\ DOMAIN t = 0..n + 1
    BY <1>2, <1>3 DEF EnteredPlaces, Cuts
  <1>7. \A k \in 0..N : k \in 0..n \/ k = N
    BY <1>0
  <1>8. t \in [0..N -> 0..Len(s)] /\ t[0] = 0 /\ t[N] = Len(s)
    <2>1. ASSUME NEW k \in 0..N PROVE t[k] \in 0..Len(s)
      <3>1. k \in 0..n => t[k] \in 0..len
        BY <1>6
      <3>2. k = N => t[k] = len + more + 1
        BY <1>0, <1>6
      <3>3. Len(s) = len + more + 1
        BY <1>4
      <3> QED
        BY <1>5, <1>7, <3>1, <3>2, <3>3
    <2>2. t = [k \in 0..N |-> t[k]]
      BY <1>0, <1>2 DEF EnteredPlaces
    <2>3. t \in [0..N -> 0..Len(s)]
      BY <2>1, <2>2
    <2>4. t[0] = 0 /\ t[N] = Len(s)
      BY <1>0, <1>4, <1>6
    <2> QED
      BY <2>3, <2>4
  <1>9. ASSUME NEW j \in 0..N, NEW k \in 0..N, j < k PROVE t[j] < t[k]
    <2>1. j \in 0..n
      BY <1>0, <1>9
    <2>2. CASE k \in 0..n
      BY <1>6, <1>9, <2>1, <2>2 DEF Cuts
    <2>3. CASE k = N
      BY <1>0, <1>5, <1>6, <2>1, <2>3
    <2> QED
      BY <1>7, <2>2, <2>3
  <1>10. ASSUME NEW i \in 1..Len(s) PROVE s[i] = NL <=> \E k \in 1..N : t[k] = i
    <2>1. CASE i <= len
      <3>1. i \in 1..len /\ i /= len + more + 1
        BY <1>5, <2>1
      <3>2. h[i] = NL <=> \E k \in 1..n : pos[k] = i
        BY <1>3, <3>1 DEF Cuts
      <3>3. (\E k \in 1..N : t[k] = i) <=> \E k \in 1..n : pos[k] = i
        BY <1>0, <1>6, <3>1
      <3> QED
        BY <1>4, <3>1, <3>2, <3>3
    <2>2. CASE len < i /\ i < len + more + 1
      <3>1. PICK j : j = i - len
        OBVIOUS
      <3>2. j \in 1..more /\ i = len + j
        BY <1>5, <2>2, <3>1
      <3>3. s[i] /= NL
        BY <1>4, <3>2
      <3>4. ASSUME NEW k \in 1..N PROVE t[k] /= i
        BY <1>0, <1>5, <1>6, <1>7, <2>2
      <3> QED
        BY <3>3, <3>4
    <2>3. CASE i = len + more + 1
      BY <1>0, <1>4, <1>6, <2>3
    <2> QED
      BY <1>4, <1>5, <2>1, <2>2, <2>3
  <1>11. ASSUME NEW k \in 2..N PROVE t[k - 1] + 1 < t[k]
    <2>1. CASE k \in 2..n
      <3>1. k - 1 \in 0..n /\ k \in 0..n
        BY <2>1
      <3> QED
        BY <1>6, <2>1, <3>1 DEF Cuts
    <2>2. CASE k = N
      BY <1>0, <1>5, <1>6, <2>2
    <2> QED
      BY <1>0, <2>1, <2>2
  <1>12. Cuts(s, t, N)
    BY <1>8, <1>9, <1>10, <1>11 DEF Cuts
  <1>16. s \in Seq(Text) /\ N \in Nat
    BY <1>0, <1>4
  <1>17. ASSUME NEW k \in 1..N
         PROVE  /\ Entry(s, t, k) \in Seq(Char)
                /\ Len(Entry(s, t, k)) = t[k] - t[k - 1] - 1
                /\ \A i \in 1..t[k] - t[k - 1] - 1 : Entry(s, t, k)[i] = s[t[k - 1] + i]
    <2>1. Entry(s, t, k) \in Seq(Char)
      BY <1>12, <1>16, EntryProperties
    <2>2. Len(Entry(s, t, k)) = t[k] - t[k - 1] - 1
      BY <1>12, <1>16, EntryProperties
    <2>3. \A i \in 1..t[k] - t[k - 1] - 1 : Entry(s, t, k)[i] = s[t[k - 1] + i]
      BY <1>12, <1>16, EntryProperties
    <2> QED
      BY <2>1, <2>2, <2>3
  <1>18. ASSUME NEW k \in 1..N
         PROVE  EntriesTo(s, t, k) = Append(EntriesTo(s, t, k - 1), Entry(s, t, k))
    BY <1>12, <1>16, EntriesAppend
  <1>13. EntriesTo(s, t, n) = EntriesTo(h, pos, n)
    <2>1. ASSUME NEW k \in 1..n PROVE Entry(s, t, k) = Entry(h, pos, k)
      <3>1. PICK d, e : d = Entry(s, t, k) /\ e = Entry(h, pos, k)
        OBVIOUS
      <3>2. PICK a, b : a = pos[k - 1] /\ b = pos[k]
        OBVIOUS
      <3>3. k - 1 \in 0..n /\ k \in 0..n /\ k \in 1..N
        BY <1>0
      <3>4. t[k - 1] = a /\ t[k] = b
        BY <1>6, <3>2, <3>3
      <3>5. d \in Seq(Char) /\ Len(d) = b - a - 1 /\ \A i \in 1..b - a - 1 : d[i] = s[a + i]
        BY <1>17, <3>1, <3>3, <3>4
      <3>6. e \in Seq(Char) /\ Len(e) = b - a - 1 /\ \A i \in 1..b - a - 1 : e[i] = h[a + i]
        BY <3>1, <3>2, EntryProperties
      <3>7. a \in Nat /\ b \in Nat /\ b <= len
        BY <1>3, <3>2, Between
      <3>8. \A i \in 1..b - a - 1 : a + i \in 1..len
        BY <1>5, <3>7
      <3>9. \A i \in 1..len : s[i] = h[i]
        BY <1>4
      <3>10. \A i \in 1..b - a - 1 : d[i] = e[i]
        BY ONLY <3>5, <3>6, <3>8, <3>9
      <3>11. d = e
        BY ONLY <3>5, <3>6, <3>10, SeqEqual
      <3> QED
        BY <3>1, <3>11
    <2> QED
      BY <2>1 DEF EntriesTo
  <1>14. Entry(s, t, N) = l
    <2>1. PICK d : d = Entry(s, t, N)
      OBVIOUS
    <2>2. N \in 1..N /\ N - 1 = n /\ n \in 0..n
      BY <1>0
    <2>3. t[N - 1] = len /\ t[N] - t[N - 1] - 1 = more
      BY <1>0, <1>5, <1>6, <2>2
    <2>4. d \in Seq(Char) /\ Len(d) = more /\ \A i \in 1..more : d[i] = s[len + i]
      BY <1>17, <2>1, <2>2, <2>3
    <2>5. \A i \in 1..more : d[i] = l[i]
      BY <1>4, <2>4
    <2> QED
      BY <1>4, <2>1, <2>4, <2>5, SeqEqual
  <1>15. EntriesTo(s, t, N) = Append(EntriesTo(s, t, n), Entry(s, t, N))
    <2>1. N \in 1..N /\ N - 1 = n
      BY <1>0
    <2> QED
      BY <1>18, <2>1
  <1> QED
    BY <1>0, <1>1, <1>2, <1>12, <1>13, <1>14, <1>15

(***************************************************************************)
(* Forgetting the oldest characters                                        *)
(***************************************************************************)
\* The places after d characters of the k-th line or before it were forgotten.
ForgottenPlaces(pos, n, d, k) ==
  [j \in 0..n - k + 1 |-> IF j = 0 THEN 0 ELSE pos[k - 1 + j] - d]

\* What remains of a text without its first d characters.
Remains(s, d, b) == b \in Seq(Text) /\ Len(b) = Len(s) - d /\ \A i \in 1..Len(b) : b[i] = s[d + i]

Forgets(s, pos, n, d, k, b, t, m) ==
  /\ d \in Nat /\ k \in 1..n /\ pos[k - 1] <= d /\ d < pos[k]
  /\ Remains(s, d, b) /\ t = ForgottenPlaces(pos, n, d, k) /\ m = n - k + 1

LEMMA CutsForget ==
  ASSUME NEW s \in Seq(Text), NEW n \in Nat, NEW pos, Cuts(s, pos, n), NEW d, NEW k,
         NEW b, NEW t, NEW m, Forgets(s, pos, n, d, k, b, t, m)
  PROVE  Cuts(b, t, m)
  <1>0. /\ d \in Nat /\ k \in 1..n /\ pos[k - 1] <= d /\ d < pos[k]
        /\ Remains(s, d, b) /\ t = ForgottenPlaces(pos, n, d, k) /\ m = n - k + 1
    BY DEF Forgets
  <1>1. /\ Len(s) \in Nat /\ m \in Nat /\ m >= 1
        /\ \A j \in 0..n : pos[j] \in 0..Len(s)
        /\ \A i, j \in 0..n : i < j => pos[i] < pos[j]
    BY <1>0, LenProperties DEF Cuts
  <1>2. pos[n] = Len(s) /\ d < Len(s)
    <2>1. pos[n] = Len(s) /\ k \in 0..n /\ pos[k] \in 0..Len(s)
      BY <1>0, <1>1 DEF Cuts
    <2> QED
      BY <1>0, <1>1, <2>1
  <1>3. b \in Seq(Text) /\ Len(b) = Len(s) - d /\ Len(b) \in Nat
        /\ \A i \in 1..Len(b) : b[i] = s[d + i]
    BY <1>0, <1>1, <1>2 DEF Remains
  <1>4. ASSUME NEW j \in 1..m
        PROVE  t[j] = pos[k - 1 + j] - d /\ k - 1 + j \in k..n /\ t[j] \in 1..Len(b)
    <2>1. t[j] = pos[k - 1 + j] - d /\ k - 1 + j \in k..n /\ k - 1 + j \in 0..n
      BY <1>0 DEF ForgottenPlaces
    <2>2. k - 1 + j = k \/ pos[k] < pos[k - 1 + j]
      BY <1>0, <1>1, <2>1
    <2>3. PICK q : q = pos[k - 1 + j]
      BY <1>0
    <2>4. q \in 0..Len(s) /\ pos[k] \in 0..Len(s) /\ (q = pos[k] \/ pos[k] < q)
      <3>1. k \in 0..n
        BY <1>0
      <3>2. pos[k] \in 0..Len(s) /\ pos[k - 1 + j] \in 0..Len(s)
        BY <1>1, <2>1, <3>1
      <3> QED
        BY <2>2, <2>3, <3>2
    <2>5. q - d \in 1..Len(b)
      BY <1>0, <1>1, <1>3, <2>4, SMTT(20)
    <2> QED
      BY <1>0, <2>1, <2>3, <2>5
  <1>5. t[0] = 0 /\ DOMAIN t = 0..m /\ t = [j \in 0..m |-> t[j]]
    BY <1>0, <1>1 DEF ForgottenPlaces
  <1>6. t \in [0..m -> 0..Len(b)]
    <2>1. ASSUME NEW j \in 0..m PROVE t[j] \in 0..Len(b)
      <3>1. CASE j = 0
        BY <1>0, <1>3, <1>5, <3>1
      <3>2. CASE j \in 1..m
        <4>1. t[j] \in 1..Len(b)
          BY <1>0, <1>4, <3>2
        <4> QED
          BY <1>0, <4>1
      <3> QED
        BY <1>0, <3>1, <3>2
    <2> QED
      BY <1>0, <1>5, <2>1
  <1>7. t[m] = Len(b)
    <2>1. m \in 1..m /\ k - 1 + m = n
      BY <1>0, <1>1
    <2>2. t[m] = pos[n] - d
      BY <1>0, <1>4, <2>1
    <2> QED
      BY <1>0, <1>2, <1>3, <2>2
  <1>8. ASSUME NEW i \in 0..m, NEW j \in 0..m, i < j PROVE t[i] < t[j]
    <2>1. j \in 1..m
      BY <1>0, <1>8
    <2>2. CASE i = 0
      <3>1. t[j] \in 1..Len(b) /\ t[i] = 0
        BY <1>4, <1>5, <2>1, <2>2
      <3> QED
        BY <3>1
    <2>3. CASE i /= 0
      <3>1. i \in 1..m /\ k - 1 + i < k - 1 + j
        BY <1>0, <1>8, <2>3
      <3>2. k - 1 + i \in 0..n /\ k - 1 + j \in 0..n
        BY <1>0, <2>1, <3>1
      <3>3. pos[k - 1 + i] < pos[k - 1 + j] /\ pos[k - 1 + i] \in Nat /\ pos[k - 1 + j] \in Nat
        BY <1>0, <1>1, <3>1, <3>2
      <3> QED
        BY <1>0, <1>4, <2>1, <3>1, <3>3
    <2> QED
      BY <1>0, <2>2, <2>3
  <1>9. ASSUME NEW i \in 1..Len(b) PROVE b[i] = NL <=> \E j \in 1..m : t[j] = i
    <2>1. d + i \in 1..Len(s) /\ b[i] = s[d + i]
      BY <1>0, <1>1, <1>3, SMTT(40)
    <2>2. s[d + i] = NL <=> \E j \in 1..n : pos[j] = d + i
      BY <1>0, <2>1 DEF Cuts
    <2>3. ASSUME NEW j \in 1..n, pos[j] = d + i PROVE \E l \in 1..m : t[l] = i
      <3>1. j \in 0..n /\ k - 1 \in 0..n
        BY <1>0
      <3>2. pos[k - 1] < pos[j] /\ pos[k - 1] \in Nat /\ pos[j] \in Nat
        BY <1>0, <1>1, <2>3, <3>1
      <3>3. ~(j < k - 1) /\ j /= k - 1
        BY <1>0, <1>1, <3>1, <3>2, SMTT(20)
      <3>4. PICK l : l = j - k + 1
        BY <1>0
      <3>5. l \in 1..m /\ k - 1 + l = j
        BY <1>0, <3>3, <3>4
      <3>6. t[l] = pos[j] - d
        BY <1>0, <1>4, <3>5
      <3>7. t[l] = i
        BY <1>0, <2>3, <3>6
      <3> QED
        BY <1>0, <3>5, <3>7
    <2>4. ASSUME NEW j \in 1..m, t[j] = i PROVE \E l \in 1..n : pos[l] = d + i
      <3>1. PICK l : l = k - 1 + j
        BY <1>0
      <3>2. l \in 1..n /\ l \in 0..n /\ i = pos[l] - d
        BY <1>0, <1>4, <2>4, <3>1
      <3>3. pos[l] \in Nat
        BY <1>0, <1>1, <3>2
      <3>4. pos[l] = d + i
        BY <1>0, <3>2, <3>3, SMTT(20)
      <3> QED
        BY <1>0, <3>2, <3>4
    <2> QED
      BY <1>0, <2>1, <2>2, <2>3, <2>4
  <1>10. ASSUME NEW j \in 2..m PROVE t[j - 1] + 1 < t[j]
    <2>1. j \in 1..m /\ j - 1 \in 1..m /\ k - 1 + (j - 1) = k - 1 + j - 1 /\ k - 1 + j \in 2..n
      BY <1>0
    <2>2. t[j] = pos[k - 1 + j] - d /\ t[j - 1] = pos[k - 1 + j - 1] - d
      BY <1>0, <1>4, <2>1
    <2>3. pos[k - 1 + j - 1] + 1 < pos[k - 1 + j]
      BY <1>0, <2>1 DEF Cuts
    <2>4. pos[k - 1 + j - 1] \in Nat /\ pos[k - 1 + j] \in Nat
      BY <1>0, <1>1, <2>1
    <2> QED
      BY <1>0, <2>2, <2>3, <2>4, SMTT(20)
  <1> QED
    BY <1>0, <1>5, <1>6, <1>7, <1>8, <1>9, <1>10 DEF Cuts

\* The lines that remain: the rest of the k-th, and those after it.
Forgotten(all, pos, n, d, k) ==
  <<SubSeq(all[k], d - pos[k - 1] + 1, Len(all[k]))>> \o SubSeq(all, k + 1, n)

LEMMA EntriesForget ==
  ASSUME NEW s \in Seq(Text), NEW n \in Nat, NEW pos, Cuts(s, pos, n), NEW d, NEW k,
         NEW b, NEW t, NEW m, Forgets(s, pos, n, d, k, b, t, m)
  PROVE  EntriesTo(b, t, m) = Forgotten(EntriesTo(s, pos, n), pos, n, d, k)
  <1>0. d \in Nat /\ k \in 1..n /\ pos[k - 1] <= d /\ d < pos[k] /\ Remains(s, d, b)
    BY DEF Forgets
  <1>1. Cuts(b, t, m) /\ b \in Seq(Text) /\ m \in Nat /\ m >= 1
    <2>1. Cuts(b, t, m)
      BY CutsForget
    <2> QED
      BY <2>1 DEF Remains, Forgets
  <1>22. PICK all : all = EntriesTo(s, pos, n)
    OBVIOUS
  <1>2. /\ all \in Seq(Seq(Char)) /\ Len(all) = n
        /\ \A j \in 1..n : all[j] = Entry(s, pos, j)
    <2>1. n \in 0..n
      OBVIOUS
    <2> QED
      BY <1>22, <2>1, EntriesToProperties
  <1>3. PICK u : u = EntriesTo(b, t, m)
    OBVIOUS
  <1>4. u \in Seq(Seq(Char)) /\ Len(u) = m /\ \A j \in 1..m : u[j] = Entry(b, t, j)
    <2>1. m \in 0..m
      BY <1>0, <1>1
    <2>2. /\ EntriesTo(b, t, m) \in Seq(Seq(Char)) /\ Len(EntriesTo(b, t, m)) = m
          /\ \A j \in 1..m : EntriesTo(b, t, m)[j] = Entry(b, t, j)
      BY <1>1, <2>1, EntriesToProperties
    <2> QED
      BY <1>0, <1>3, <2>2
  <1>20. ASSUME NEW j \in 1..m
         PROVE  /\ Entry(b, t, j) \in Seq(Char)
                /\ Len(Entry(b, t, j)) = t[j] - t[j - 1] - 1
                /\ \A i \in 1..t[j] - t[j - 1] - 1 : Entry(b, t, j)[i] = b[t[j - 1] + i]
    <2>1. Entry(b, t, j) \in Seq(Char)
      BY <1>1, EntryProperties
    <2>2. Len(Entry(b, t, j)) = t[j] - t[j - 1] - 1
      BY <1>1, EntryProperties
    <2>3. \A i \in 1..t[j] - t[j - 1] - 1 : Entry(b, t, j)[i] = b[t[j - 1] + i]
      BY <1>1, EntryProperties
    <2> QED
      BY <2>1, <2>2, <2>3
  <1>21. ASSUME NEW j \in 1..n
         PROVE  /\ Entry(s, pos, j) \in Seq(Char)
                /\ Len(Entry(s, pos, j)) = pos[j] - pos[j - 1] - 1
                /\ \A i \in 1..pos[j] - pos[j - 1] - 1 :
                     Entry(s, pos, j)[i] = s[pos[j - 1] + i]
    BY EntryProperties
  <1>5. PICK from, to : from = pos[k - 1] /\ to = pos[k]
    OBVIOUS
  <1>6. from \in Nat /\ to \in Nat /\ from <= d /\ d < to
    BY <1>0, <1>5, Between
  <1>7. PICK e : e = all[k]
    OBVIOUS
  <1>8. e \in Seq(Char) /\ Len(e) = to - from - 1 /\ \A i \in 1..to - from - 1 : e[i] = s[from + i]
    BY <1>0, <1>2, <1>5, <1>7, <1>21, ZenonT(30)
  <1>9. PICK c : c = SubSeq(e, d - from + 1, Len(e))
    OBVIOUS
  <1>10. c \in Seq(Char) /\ Len(c) = to - d - 1 /\ \A i \in 1..to - d - 1 : c[i] = s[d + i]
    <2>1. PICK first, last : first = d - from + 1 /\ last = Len(e)
      OBVIOUS
    <2>2. /\ first \in Int /\ last \in Int /\ last = to - from - 1 /\ last - first + 1 = to - d - 1
          /\ first >= 1 /\ (first <= last <=> to - d - 1 >= 1)
      BY <1>0, <1>6, <1>8, <2>1, SMTT(20)
    <2>3. \A i \in first..last : e[i] \in Char
      BY <1>0, <1>6, <1>8, <2>1, <2>2, ElementOfSeq
    <2>4. /\ c \in Seq(Char) /\ Len(c) = IF first <= last THEN last - first + 1 ELSE 0
          /\ \A i \in 1..last - first + 1 : c[i] = e[first + i - 1]
      BY <1>9, <2>1, <2>2, <2>3, SubSeqProperties
    <2>5. Len(c) = to - d - 1
      BY <1>0, <1>6, <2>2, <2>4
    <2>6. ASSUME NEW i \in 1..to - d - 1 PROVE c[i] = s[d + i]
      <3>1. /\ i \in 1..last - first + 1 /\ first + i - 1 \in 1..to - from - 1
            /\ from + (first + i - 1) = d + i
        BY <1>0, <1>6, <2>1, <2>2
      <3>2. c[i] = e[first + i - 1] /\ e[first + i - 1] = s[from + (first + i - 1)]
        BY <1>0, <1>8, <2>4, <3>1
      <3> QED
        BY <1>0, <3>1, <3>2
    <2> QED
      BY <1>0, <2>4, <2>5, <2>6
  <1>11. /\ \A j \in 1..m : t[j] = pos[k - 1 + j] - d
         /\ t[0] = 0
    BY <1>1 DEF ForgottenPlaces, Forgets
  <1>12. u[1] = c
    <2>1. PICK v : v = u[1]
      OBVIOUS
    <2>2. 1 \in 1..m /\ 1 - 1 = 0 /\ k - 1 + 1 = k
      BY <1>0, <1>1
    <2>3. t[1 - 1] = 0 /\ t[1] = to - d
      BY <1>0, <1>5, <1>11, <2>2
    <2>4. t[1] - t[1 - 1] - 1 = to - d - 1
      BY <1>0, <1>6, <2>3
    <2>5. /\ v \in Seq(Char) /\ Len(v) = to - d - 1
          /\ \A i \in 1..to - d - 1 : v[i] = b[t[1 - 1] + i]
      BY <1>0, <1>4, <1>20, <2>1, <2>2, <2>4
    <2>6. ASSUME NEW i \in 1..to - d - 1 PROVE v[i] = s[d + i]
      <3>1. i \in 1..Len(b)
        <4>1. Len(b) = Len(s) - d /\ to <= Len(s) /\ Len(s) \in Nat
          BY <1>0, <1>5, Between, LenProperties DEF Remains
        <4> QED
          BY <1>0, <1>6, <4>1
      <3>2. b[i] = s[d + i] /\ 0 + i = i
        BY <1>0, <3>1 DEF Remains
      <3> QED
        BY <1>0, <2>3, <2>5, <3>2
    <2>7. \A i \in 1..to - d - 1 : v[i] = c[i]
      BY <1>0, <1>10, <2>6
    <2>8. v = c
      BY ONLY <1>10, <2>5, <2>7, SeqEqual
    <2> QED
      BY <2>1, <2>8
  <1>13. ASSUME NEW j \in 2..m PROVE u[j] = all[k - 1 + j]
    <2>1. PICK l : l = k - 1 + j
      OBVIOUS
    <2>0. m = n - k + 1
      BY DEF Forgets
    <2>2. l \in 1..n /\ j \in 1..m /\ j - 1 \in 1..m /\ k - 1 + (j - 1) = l - 1
      BY <1>0, <2>0, <2>1
    <2>3. PICK x, y : x = pos[l - 1] /\ y = pos[l]
      OBVIOUS
    <2>4. x \in Nat /\ y \in Nat /\ x < y /\ y <= Len(s) /\ Len(s) \in Nat
      BY <1>0, <2>2, <2>3, Between, LenProperties
    <2>5. t[j] = y - d /\ t[j - 1] = x - d
      BY <1>0, <1>11, <2>1, <2>2, <2>3
    <2>6. t[j] - t[j - 1] - 1 = y - x - 1
      BY <1>0, <2>4, <2>5
    <2>7. PICK v, w : v = u[j] /\ w = all[l]
      OBVIOUS
    <2>8. /\ v \in Seq(Char) /\ Len(v) = y - x - 1
          /\ \A i \in 1..y - x - 1 : v[i] = b[t[j - 1] + i]
      <3>1. v = Entry(b, t, j)
        BY <1>4, <2>2, <2>7
      <3> QED
        BY ONLY <1>20, <2>2, <2>6, <3>1
    <2>9. w \in Seq(Char) /\ Len(w) = y - x - 1 /\ \A i \in 1..y - x - 1 : w[i] = s[x + i]
      <3>1. w = Entry(s, pos, l)
        BY <1>2, <2>2, <2>7
      <3> QED
        BY ONLY <1>21, <2>2, <2>3, <3>1
    <2>10. x >= d
      <3>1. l - 1 \in 0..n /\ k \in 0..n /\ (l - 1 = k \/ k < l - 1)
        BY <1>0, <2>0, <2>1
      <3>2. pos[k] <= x
        BY <1>0, <1>5, <1>6, <2>3, <3>1 DEF Cuts
      <3> QED
        BY <1>0, <1>5, <1>6, <2>4, <3>2
    <2>11. ASSUME NEW i \in 1..y - x - 1 PROVE v[i] = w[i]
      <3>1. PICK a : a = x - d + i
        OBVIOUS
      <3>2. Len(b) = Len(s) - d
        BY <1>0 DEF Remains
      <3>3. a \in 1..Len(b) /\ d + a = x + i
        BY <1>0, <2>4, <2>10, <3>1, <3>2
      <3>4. b[a] = s[d + a]
        BY <1>0, <3>3 DEF Remains
      <3>5. v[i] = b[a]
        BY <1>0, <2>5, <2>8, <3>1
      <3> QED
        BY <1>0, <2>9, <3>3, <3>4, <3>5
    <2> QED
      BY <1>0, <2>1, <2>7, <2>8, <2>9, <2>11, SeqEqual
  <1>14. PICK r : r = SubSeq(all, k + 1, n)
    OBVIOUS
  <1>15. /\ r \in Seq(Seq(Char)) /\ Len(r) = m - 1
         /\ \A i \in 1..m - 1 : r[i] = all[k + i]
    <2>1. \A i \in k + 1..n : all[i] \in Seq(Char)
      BY <1>0, <1>2, ElementOfSeq
    <2>2. /\ r \in Seq(Seq(Char)) /\ Len(r) = IF k + 1 <= n THEN n - (k + 1) + 1 ELSE 0
          /\ \A i \in 1..n - (k + 1) + 1 : r[i] = all[k + 1 + i - 1]
      BY <1>0, <1>14, <2>1, SubSeqProperties
    <2>3. n - (k + 1) + 1 = m - 1 /\ Len(r) = m - 1 /\ \A i \in 1..m - 1 : k + 1 + i - 1 = k + i
      BY <1>0, <2>2, SMTT(20) DEF Forgets
    <2> QED
      BY <1>0, <2>2, <2>3
  <1>16. PICK z : z = <<c>> \o r
    OBVIOUS
  <1>17. /\ z \in Seq(Seq(Char)) /\ Len(z) = m
         /\ \A i \in 1..m : z[i] = IF i <= 1 THEN <<c>>[i] ELSE r[i - 1]
    <2>1. <<c>> \in Seq(Seq(Char)) /\ Len(<<c>>) = 1
      BY <1>0, <1>10
    <2>2. 1 + (m - 1) = m
      BY <1>0, <1>1
    <2>3. r \in Seq(Seq(Char)) /\ Len(r) = m - 1
      BY <1>15
    <2>4. <<c>> \o r \in Seq(Seq(Char))
      BY ONLY <2>1, <2>3, ConcatProperties
    <2>5. Len(<<c>> \o r) = Len(<<c>>) + Len(r)
      BY ONLY <2>1, <2>3, ConcatProperties
    <2>6. \A i \in 1..Len(<<c>>) + Len(r) :
            (<<c>> \o r)[i] = IF i <= Len(<<c>>) THEN <<c>>[i] ELSE r[i - Len(<<c>>)]
      BY ONLY <2>1, <2>3, ConcatProperties
    <2>7. Len(z) = m
      BY ONLY <1>16, <2>1, <2>2, <2>3, <2>5
    <2>8. \A i \in 1..m : z[i] = IF i <= 1 THEN <<c>>[i] ELSE r[i - 1]
      BY ONLY <1>16, <2>1, <2>2, <2>3, <2>6
    <2> QED
      BY <1>16, <2>4, <2>7, <2>8
  <1>18. ASSUME NEW i \in 1..m PROVE u[i] = z[i]
    <2>1. CASE i = 1
      BY <1>0, <1>12, <1>17, <2>1
    <2>2. CASE i /= 1
      <3>1. i \in 2..m /\ ~(i <= 1) /\ i - 1 \in 1..m - 1 /\ k + (i - 1) = k - 1 + i
        BY <1>0, <1>1, <2>2
      <3> QED
        BY <1>0, <1>13, <1>15, <1>17, <3>1
    <2> QED
      BY <1>0, <2>1, <2>2
  <1>19. u = z
    BY <1>0, <1>4, <1>17, <1>18, SeqEqual
  <1> QED
    BY <1>3, <1>5, <1>7, <1>9, <1>14, <1>16, <1>19, <1>22 DEF Forgotten

\* The sizes of the lines are the places of their newlines.
LEMMA SizesArePlaces ==
  ASSUME NEW s \in Seq(Text), NEW n \in Nat, NEW pos, Cuts(s, pos, n), NEW m \in 0..n
  PROVE  List!Size(EntriesTo(s, pos, n), m) = pos[m]
  <1>1. PICK all : all = EntriesTo(s, pos, n)
    OBVIOUS
  <1>2. \A j \in 1..n : all[j] = Entry(s, pos, j)
    <2>1. n \in 0..n
      OBVIOUS
    <2> QED
      BY <1>1, <2>1, EntriesToProperties
  <1>3. pos[0] = 0
    BY DEF Cuts
  <1>4. ASSUME NEW k \in 1..n PROVE pos[k] = pos[k - 1] + Len(all[k]) + 1
    <2>1. Len(all[k]) = pos[k] - pos[k - 1] - 1
      BY <1>2, EntryProperties
    <2>2. pos[k] \in Nat /\ pos[k - 1] \in Nat
      BY Between
    <2> QED
      BY <2>1, <2>2
  <1>5. Adds(all, n, pos)
    BY <1>3, <1>4 DEF Adds
  <1> QED
    BY <1>1, <1>5, SizeIs

\* The list forgets in the line that holds the last forgotten character.
LEMMA ForgetIs ==
  ASSUME NEW s \in Seq(Text), NEW n \in Nat, NEW pos, Cuts(s, pos, n), NEW d \in Nat,
         d < Len(s)
  PROVE  \E k \in 1..n :
           /\ pos[k - 1] <= d /\ d < pos[k]
           /\ List!Forget(EntriesTo(s, pos, n), d)
                = Forgotten(EntriesTo(s, pos, n), pos, n, d, k)
  <1> DEFINE all == EntriesTo(s, pos, n)
  <1>1. /\ Len(s) \in Nat /\ \A j \in 0..n : pos[j] \in Nat
        /\ pos[0] = 0 /\ pos[n] = Len(s) /\ n /= 0
    BY LenProperties DEF Cuts
  <1>2. Len(all) = n
    <2>1. n \in 0..n
      OBVIOUS
    <2> QED
      BY <2>1, EntriesToProperties
  <1>3. ASSUME NEW i \in 1..n
        PROVE  List!Size(all, i - 1) = pos[i - 1] /\ List!Size(all, i) = pos[i]
    <2>1. i - 1 \in 0..n /\ i \in 0..n
      OBVIOUS
    <2> QED
      BY <2>1, SizesArePlaces
  <1>4. \E i \in 1..n : pos[i - 1] <= d /\ d < pos[i]
    <2> DEFINE S == {j \in 0..n : d < pos[j]}
    <2>1. n \in S /\ S \in SUBSET Nat
      BY <1>1
    <2>2. PICK i \in S : \A j \in S : i <= j
      BY <2>1, LeastNat
    <2>3. i /= 0 /\ i \in 1..n /\ i - 1 \in 0..n /\ ~(i <= i - 1)
      BY <1>1, <2>2
    <2>4. ~(d < pos[i - 1])
      BY <2>2, <2>3
    <2> QED
      BY <1>1, <2>2, <2>3, <2>4
  <1> DEFINE k == CHOOSE i \in 1..Len(all) : List!Size(all, i - 1) <= d /\ d < List!Size(all, i)
  <1>5. k \in 1..n /\ List!Size(all, k - 1) <= d /\ d < List!Size(all, k)
    <2>1. \E i \in 1..Len(all) : List!Size(all, i - 1) <= d /\ d < List!Size(all, i)
      BY <1>2, <1>3, <1>4
    <2> QED
      BY <1>2, <2>1
  <1>6. List!Forget(all, d)
          = <<SubSeq(all[k], d - List!Size(all, k - 1) + 1, Len(all[k]))>>
              \o SubSeq(all, k + 1, Len(all))
    BY DEF List!Forget
  <1> HIDE DEF k
  <1>7. List!Size(all, k - 1) = pos[k - 1] /\ List!Size(all, k) = pos[k]
    BY <1>3, <1>5
  <1> QED
    BY <1>2, <1>5, <1>6, <1>7 DEF Forgotten

(***************************************************************************)
(* The number of a line                                                    *)
(***************************************************************************)
LEMMA NumberIs ==
  ASSUME NEW h \in Seq(Text), NEW n \in Nat, NEW pos, Cuts(h, pos, n), NEW k \in 0..n
  PROVE  LineNumber(h, pos[k]) = k + 1
  <1> DEFINE S == {i \in Newlines(h) : i <= pos[k]}
             f == [j \in 1..k |-> pos[j]]
  <1>1. /\ \A j \in 0..n : pos[j] \in 0..Len(h)
        /\ \A i, j \in 0..n : i < j => pos[i] < pos[j]
        /\ \A i \in 1..Len(h) : h[i] = NL <=> \E j \in 1..n : pos[j] = i
        /\ Len(h) \in Nat /\ pos[0] = 0
    BY LenProperties DEF Cuts
  <1>2. ASSUME NEW j \in 1..k PROVE f[j] \in S
    <2>1. j \in 1..n /\ j \in 0..n /\ 0 \in 0..n /\ (j = k \/ j < k)
      OBVIOUS
    <2>2. pos[j] \in 1..Len(h) /\ pos[j] <= pos[k]
      BY <1>1, <2>1
    <2> QED
      BY <1>1, <2>1, <2>2 DEF Newlines
  <1>3. ASSUME NEW i \in S PROVE \E j \in 1..k : f[j] = i
    <2>1. PICK j \in 1..n : pos[j] = i
      BY <1>1 DEF Newlines
    <2>2. ~(k < j)
      <3>1. j \in 0..n /\ pos[j] \in Nat /\ pos[k] \in Nat /\ pos[j] <= pos[k]
        BY <1>1, <2>1
      <3> QED
        BY <1>1, <3>1
    <2> QED
      BY <2>1, <2>2
  <1>4. ASSUME NEW i \in 1..k, NEW j \in 1..k, f[i] = f[j] PROVE i = j
    <2>1. i \in 0..n /\ j \in 0..n /\ pos[i] = pos[j] /\ pos[i] \in Nat
      BY <1>1, <1>4
    <2> QED
      BY <1>1, <2>1
  <1>5. f \in [1..k -> S]
    BY <1>2
  <1> HIDE DEF S, f
  <1>6. f \in Bijection(1..k, S)
    BY <1>3, <1>4, <1>5 DEF Bijection, Injection, Surjection, IsInjective
  <1>7. k \in Nat /\ ExistsBijection(1..k, S)
    BY <1>6 DEF ExistsBijection
  <1>8. Cardinality(S) = k
    BY <1>7, FS_CountingElements
  <1> QED
    BY <1>8 DEF LineNumber, S

(***************************************************************************)
(* The invariant                                                           *)
(***************************************************************************)
\* The position is at the beginning of a line, or at the end.
Placed(h, p, pos, n) == n \in Nat /\ Cuts(h, pos, n) /\ \E k \in 0..n : p = pos[k]

HistoryInv ==
  /\ hist \in Seq(Text) /\ Len(hist) <= HistCap /\ line \in Seq(Char)
  /\ \E n, pos : Placed(hist, recall_pos, pos, n)

\* What the recalls return, and where they leave the position.
LEMMA Recalls ==
  ASSUME NEW h \in Seq(Text), NEW n \in Nat, NEW pos, Cuts(h, pos, n), NEW k \in 0..n
  PROVE  /\ k < n => CurrentRecall(h, pos[k]) = Recall(pos[k], Entry(h, pos, k + 1))
         /\ k = n => CurrentRecall(h, pos[k]) = Recall(pos[k], <<>>)
         /\ k > 0 => PreviousRecall(h, pos[k]) = Recall(pos[k - 1], Entry(h, pos, k))
         /\ k = 0 => PreviousRecall(h, pos[k]) = Recall(pos[k], <<>>)
         /\ k + 1 < n => NextRecall(h, pos[k]) = Recall(pos[k + 1], Entry(h, pos, k + 2))
         /\ k + 1 >= n => NextRecall(h, pos[k]) = Recall(pos[k], <<>>)
  <1>1. Len(h) \in Nat /\ \A j \in 0..n : pos[j] \in Nat
    BY LenProperties DEF Cuts
  <1>2. pos[0] = 0 /\ pos[n] = Len(h)
    BY DEF Cuts
  <1>3. /\ \A j \in 0..n : LineBegin(h, pos[j]) = pos[j]
        /\ \A j \in 1..n : LineBegin(h, pos[j] - 1) = pos[j - 1]
        /\ \A j \in 1..n : LineEnd(h, pos[j - 1]) = pos[j] - 1
        /\ LineEnd(h, pos[n]) = pos[n]
    BY Searches
  <1>4. \A p : Chars(h, p, p) = SubSeq(h, p + 1, p)
    BY DEF Chars
  <1>5. \A p \in Nat : Chars(h, p, p) = <<>>
    BY <1>4, SubSeqEmpty
  <1>6. \A j \in 1..n : Chars(h, pos[j - 1], pos[j] - 1) = Entry(h, pos, j)
    BY DEF Chars, Entry
  <1>7. ASSUME NEW j \in 1..n
        PROVE  pos[j] - 1 < Len(h) /\ pos[j] > 0 /\ pos[j] - 1 + 1 = pos[j]
    BY <1>1, Between, SMTT(20)
  <1>8. ASSUME k < n PROVE CurrentRecall(h, pos[k]) = Recall(pos[k], Entry(h, pos, k + 1))
    <2>1. k + 1 \in 1..n /\ k + 1 - 1 = k
      BY <1>8
    <2>2. LineEnd(h, pos[k]) = pos[k + 1] - 1
      BY <1>3, <2>1
    <2>3. Chars(h, pos[k], pos[k + 1] - 1) = Entry(h, pos, k + 1)
      BY <1>6, <2>1
    <2> QED
      BY <2>2, <2>3 DEF CurrentRecall
  <1>9. k = n => CurrentRecall(h, pos[k]) = Recall(pos[k], <<>>)
    BY <1>1, <1>3, <1>5 DEF CurrentRecall
  <1>10. ASSUME k > 0 PROVE PreviousRecall(h, pos[k]) = Recall(pos[k - 1], Entry(h, pos, k))
    <2>1. k \in 1..n
      BY <1>10
    <2>2. LineBegin(h, pos[k]) = pos[k] /\ LineBegin(h, pos[k] - 1) = pos[k - 1] /\ pos[k] > 0
      BY <1>3, <1>7, <2>1
    <2>3. Chars(h, pos[k - 1], pos[k] - 1) = Entry(h, pos, k)
      BY <1>6, <2>1
    <2> QED
      BY <2>2, <2>3 DEF PreviousRecall
  <1>11. ASSUME k = 0 PROVE PreviousRecall(h, pos[k]) = Recall(pos[k], <<>>)
    <2>1. LineBegin(h, pos[k]) = pos[k] /\ ~(pos[k] > 0)
      BY <1>2, <1>3, <1>11
    <2>2. Chars(h, pos[k], pos[k]) = <<>>
      BY <1>1, <1>5
    <2> QED
      BY <2>1, <2>2 DEF PreviousRecall
  <1>12. ASSUME k + 1 < n
         PROVE  NextRecall(h, pos[k]) = Recall(pos[k + 1], Entry(h, pos, k + 2))
    <2>1. k + 1 \in 1..n /\ k + 2 \in 1..n /\ k + 1 - 1 = k /\ k + 2 - 1 = k + 1
      BY <1>12
    <2>2. LineEnd(h, pos[k]) = pos[k + 1] - 1 /\ LineEnd(h, pos[k + 1]) = pos[k + 2] - 1
      BY <1>3, <2>1
    <2>3. /\ pos[k + 1] - 1 < Len(h) /\ pos[k + 1] - 1 + 1 = pos[k + 1]
          /\ pos[k + 2] - 1 < Len(h)
      BY <1>7, <2>1
    <2>4. Chars(h, pos[k + 1], pos[k + 2] - 1) = Entry(h, pos, k + 2)
      BY <1>6, <2>1
    <2> QED
      BY <2>2, <2>3, <2>4 DEF NextRecall
  <1>13. ASSUME k + 1 >= n PROVE NextRecall(h, pos[k]) = Recall(pos[k], <<>>)
    <2>1. LineEnd(h, Len(h)) = Len(h) /\ Chars(h, Len(h), Len(h)) = <<>> /\ ~(Len(h) < Len(h))
      BY <1>1, <1>2, <1>3, <1>5
    <2>2. CASE k = n
      BY <1>2, <2>1, <2>2 DEF NextRecall
    <2>3. CASE k /= n
      <3>1. k + 1 = n /\ k + 1 \in 1..n /\ k + 1 - 1 = k
        BY <1>13, <2>3
      <3>2. LineEnd(h, pos[k]) = pos[k + 1] - 1 /\ pos[k + 1] = Len(h)
        BY <1>2, <1>3, <3>1
      <3>3. Len(h) - 1 < Len(h) /\ Len(h) - 1 + 1 = Len(h)
        BY <1>1
      <3> QED
        BY <2>1, <3>2, <3>3 DEF NextRecall
    <2> QED
      BY <2>2, <2>3
  <1> QED
    BY <1>8, <1>9, <1>10, <1>11, <1>12, <1>13

\* Places like these are what the recalls rely on.
LEMMA CutsFramed ==
  ASSUME NEW h \in Seq(Text), NEW n \in Nat, NEW pos, Cuts(h, pos, n), NEW k \in 0..n
  PROVE  Framed(h, pos[k])
  <1>1. /\ Len(h) \in Nat /\ pos[0] = 0 /\ pos[n] = Len(h)
        /\ \A j \in 0..n : pos[j] \in Nat
        /\ \A i, j \in 0..n : i < j => pos[i] < pos[j]
        /\ \A i \in 1..Len(h) : h[i] = NL <=> \E j \in 1..n : pos[j] = i
        /\ \A j \in 2..n : pos[j - 1] + 1 < pos[j]
    BY LenProperties DEF Cuts
  <1>2. ASSUME NEW j \in 0..n, pos[j] > 0 PROVE h[pos[j]] = NL
    <2>1. j \in 1..n
      BY <1>1, <1>2
    <2> QED
      BY <2>1, Between
  <1>3. ASSUME h /= <<>> PROVE Last(h) = NL
    <2>1. Len(h) > 0
      BY <1>1, <1>3, EmptySeq
    <2>2. n \in 0..n /\ pos[n] > 0
      BY <1>1, <2>1
    <2> QED
      BY <1>1, <1>2, <2>2 DEF Last
  <1>4. ASSUME NEW i \in 1..Len(h) - 1, h[i] = NL, h[i + 1] = NL PROVE FALSE
    <2>1. i \in 1..Len(h) /\ i + 1 \in 1..Len(h)
      BY <1>1
    <2>2. PICK a \in 1..n, b \in 1..n : pos[a] = i /\ pos[b] = i + 1
      BY <1>1, <1>4, <2>1
    <2>3. a \in 0..n /\ b \in 0..n /\ i < i + 1 /\ i \in Nat
      OBVIOUS
    <2>4. a < b
      <3>1. CASE b < a
        <4>1. pos[b] < pos[a]
          BY <1>1, <2>3, <3>1
        <4> QED
          BY <2>2, <2>3, <4>1
      <3>2. CASE b = a
        BY <2>2, <2>3, <3>2
      <3> QED
        BY <3>1, <3>2
    <2>5. b - 1 \in 0..n /\ b \in 2..n /\ (a = b - 1 \/ a < b - 1)
      BY <2>3, <2>4
    <2>6. pos[b - 1] + 1 < i + 1 /\ pos[b - 1] \in Nat
      BY <1>1, <2>2, <2>5
    <2>7. pos[b - 1] >= i
      BY <1>1, <2>2, <2>3, <2>5, SMTT(20)
    <2> QED
      BY <2>3, <2>6, <2>7
  <1> QED
    BY <1>2, <1>3, <1>4 DEF Framed

\* What remains of a text without its first characters has places again, and
\* its lines are what the list keeps when it forgets as many characters.
LEMMA Overwrites ==
  ASSUME NEW s \in Seq(Text), NEW n \in Nat, NEW pos, Cuts(s, pos, n), NEW d \in Nat,
         d < Len(s), NEW b, Remains(s, d, b)
  PROVE  \E m \in Nat : \E t :
           Cuts(b, t, m) /\ EntriesTo(b, t, m) = List!Forget(EntriesTo(s, pos, n), d)
  <1>1. PICK k \in 1..n :
          /\ pos[k - 1] <= d /\ d < pos[k]
          /\ List!Forget(EntriesTo(s, pos, n), d)
               = Forgotten(EntriesTo(s, pos, n), pos, n, d, k)
    BY ForgetIs
  <1>2. Forgets(s, pos, n, d, k, b, ForgottenPlaces(pos, n, d, k), n - k + 1)
    BY <1>1 DEF Forgets
  <1>3. /\ Cuts(b, ForgottenPlaces(pos, n, d, k), n - k + 1)
        /\ EntriesTo(b, ForgottenPlaces(pos, n, d, k), n - k + 1)
             = Forgotten(EntriesTo(s, pos, n), pos, n, d, k)
    BY <1>2, CutsForget, EntriesForget
  <1>4. n - k + 1 \in Nat
    OBVIOUS
  <1> QED
    BY <1>1, <1>3, <1>4

\* What is kept of the lines when one was added.
Kept(all) ==
  LET excess == List!Size(all, Len(all)) - HistCap
  IN  IF excess > 0 THEN List!Forget(all, excess) ELSE all

LEMMA AddPlaces ==
  ASSUME NEW h \in Seq(Text), Len(h) <= HistCap, NEW n \in Nat, NEW pos, Cuts(h, pos, n),
         NEW l \in Fitting
  PROVE  /\ AddLine(h, l) \in Seq(Text) /\ Len(AddLine(h, l)) <= HistCap
         /\ \E m \in Nat : \E t :
              /\ Cuts(AddLine(h, l), t, m)
              /\ EntriesTo(AddLine(h, l), t, m) = Kept(Append(Entries(h), l))
  <1>1. PICK s : s = Entered(h, l)
    OBVIOUS
  <1>2. s \in Seq(Text) /\ Len(s) \in Nat /\ HistCap \in Nat /\ HistCap >= 1
    <2>1. s \in Seq(Text) /\ Len(l) \in 1..HistCap
      BY <1>1, EnteredProperties
    <2> QED
      BY <2>1, LenProperties, CapacityAssumption
  <1>3. PICK b : b = AddLine(h, l)
    OBVIOUS
  <1>4. b = Newest(s)
    BY <1>1, <1>3, AddLineIs
  <1>5. /\ b \in Seq(Text) /\ Len(b) = IF Len(s) <= HistCap THEN Len(s) ELSE HistCap
        /\ \A i \in 1..Len(b) : b[i] = s[Len(s) - Len(b) + i]
    BY <1>2, <1>4, NewestProperties
  <1>6. PICK t, m : t = EnteredPlaces(h, pos, n, l) /\ m = n + 1
    OBVIOUS
  <1>7. m \in Nat /\ m \in 0..m /\ m >= 1
    BY <1>6
  <1>8. Cuts(s, t, m) /\ EntriesTo(s, t, m) = Append(EntriesTo(h, pos, n), l)
    BY <1>1, <1>6, CutsEnter
  <1>9. PICK all : all = EntriesTo(s, t, m)
    OBVIOUS
  <1>10. all = Append(Entries(h), l)
    BY <1>8, <1>9, EntriesAre
  <1>11. Len(all) = m
    BY <1>2, <1>7, <1>8, <1>9, EntriesToProperties
  <1>12. List!Size(all, Len(all)) = Len(s)
    <2>1. s \in Seq(Text) /\ m \in Nat /\ Cuts(s, t, m) /\ m \in 0..m
      BY <1>2, <1>7, <1>8
    <2>3. List!Size(EntriesTo(s, t, m), m) = t[m]
      BY ONLY <2>1, SizesArePlaces
    <2>2. t[m] = Len(s)
      BY <1>8 DEF Cuts
    <2> QED
      BY <1>9, <1>11, <2>2, <2>3
  <1>13. CASE Len(s) <= HistCap
    <2>1. b = s
      BY <1>4, <1>13 DEF Newest
    <2>2. Kept(all) = all
      BY <1>2, <1>12, <1>13 DEF Kept
    <2>3. Cuts(b, t, m) /\ EntriesTo(b, t, m) = Kept(all)
      BY <1>8, <1>9, <2>1, <2>2
    <2>4. Len(b) <= HistCap
      BY <1>13, <2>1
    <2> QED
      BY <1>3, <1>5, <1>7, <1>10, <2>3, <2>4
  <1>14. CASE ~(Len(s) <= HistCap)
    <2>1. PICK d : d = Len(s) - HistCap
      OBVIOUS
    <2>2. d \in Nat /\ d > 0 /\ d < Len(s) /\ Len(b) = Len(s) - d /\ Len(b) <= HistCap
      BY <1>2, <1>5, <1>14, <2>1
    <2>3. Remains(s, d, b)
      <3>1. Len(s) - Len(b) = d
        BY <1>2, <2>2
      <3> QED
        BY <1>5, <2>2, <3>1 DEF Remains
    <2>4. s \in Seq(Text) /\ m \in Nat /\ Cuts(s, t, m) /\ d \in Nat /\ d < Len(s)
      BY <1>2, <1>7, <1>8, <2>2
    <2>5. \E r \in Nat : \E u :
            Cuts(b, u, r) /\ EntriesTo(b, u, r) = List!Forget(EntriesTo(s, t, m), d)
      BY ONLY <2>3, <2>4, Overwrites
    <2>6. PICK r \in Nat : \E u : Cuts(b, u, r) /\ EntriesTo(b, u, r) = List!Forget(all, d)
      BY <1>9, <2>5
    <2>7. PICK u : Cuts(b, u, r) /\ EntriesTo(b, u, r) = List!Forget(all, d)
      BY <2>6
    <2>8. Kept(all) = List!Forget(all, d)
      BY <1>12, <2>1, <2>2 DEF Kept
    <2> QED
      BY <1>3, <1>5, <1>10, <2>2, <2>7, <2>8
  <1> QED
    BY <1>13, <1>14

(***************************************************************************)
(* The steps                                                               *)
(***************************************************************************)
\* What a state of the list looks like, given the places of the newlines.
LEMMA ListState ==
  ASSUME NEW h \in Seq(Text), NEW n \in Nat, NEW pos, Cuts(h, pos, n), NEW k \in 0..n
  PROVE  /\ Entries(h) \in Seq(Seq(Char)) /\ Len(Entries(h)) = n
         /\ \A j \in 1..n : Entries(h)[j] = Entry(h, pos, j) /\ Entry(h, pos, j) \in Seq(Char)
         /\ LineNumber(h, pos[k]) = k + 1
  <1>1. Entries(h) = EntriesTo(h, pos, n) /\ n \in 0..n
    BY EntriesAre
  <1>2. /\ EntriesTo(h, pos, n) \in Seq(Seq(Char)) /\ Len(EntriesTo(h, pos, n)) = n
        /\ \A j \in 1..n : EntriesTo(h, pos, n)[j] = Entry(h, pos, j)
    BY <1>1, EntriesToProperties
  <1>3. \A j \in 1..n : Entry(h, pos, j) \in Seq(Char)
    BY EntryProperties
  <1> QED
    BY <1>1, <1>2, <1>3, NumberIs

\* A recall takes the position to a place, and shows a line or nothing.
LEMMA TakeInv ==
  ASSUME HistoryInv, NEW n \in Nat, NEW pos, Cuts(hist, pos, n), NEW k \in 0..n,
         NEW l \in Seq(Char), Take(Recall(pos[k], l))
  PROVE  HistoryInv' /\ hist' = hist /\ recall_pos' = pos[k] /\ line' = l
  <1>1. hist' = hist /\ recall_pos' = pos[k] /\ line' = l
    BY DEF Take, Recall
  <1> QED
    BY <1>1 DEF HistoryInv, Placed

\* The state of the list before and after a recall.
LEMMA RecallStep ==
  ASSUME HistoryInv, NEW n \in Nat, NEW pos, Cuts(hist, pos, n), NEW k \in 0..n,
         recall_pos = pos[k]
  PROVE  /\ get_current_recall_line => HistoryInv' /\ List!Again
         /\ recall_previous => HistoryInv' /\ List!Older
         /\ recall_next => HistoryInv' /\ List!Newer
  <1>1. hist \in Seq(Text)
    BY DEF HistoryInv
  <1>2. /\ Len(Entries(hist)) = n
        /\ \A j \in 1..n :
             Entries(hist)[j] = Entry(hist, pos, j) /\ Entry(hist, pos, j) \in Seq(Char)
        /\ \A j \in 0..n : LineNumber(hist, pos[j]) = j + 1
    BY <1>1, ListState
  <1>3. ASSUME NEW j \in 0..n, NEW l \in Seq(Char), Take(Recall(pos[j], l))
        PROVE  /\ HistoryInv' /\ Entries(hist)' = Entries(hist) /\ line' = l
               /\ LineNumber(hist, recall_pos)' = j + 1
    <2>1. HistoryInv' /\ hist' = hist /\ recall_pos' = pos[j] /\ line' = l
      BY <1>3, TakeInv
    <2> QED
      BY <1>2, <2>1
  <1>4. LineNumber(hist, recall_pos) = k + 1 /\ <<>> \in Seq(Char)
    BY <1>2
  <1>5. ASSUME get_current_recall_line PROVE HistoryInv' /\ List!Again
    <2>1. CASE k < n
      <3>1. Take(Recall(pos[k], Entry(hist, pos, k + 1)))
        BY <1>1, <1>5, <2>1, Recalls DEF get_current_recall_line
      <3>2. k + 1 \in 1..n
        BY <2>1
      <3>3. /\ HistoryInv' /\ Entries(hist)' = Entries(hist) /\ line' = Entry(hist, pos, k + 1)
            /\ LineNumber(hist, recall_pos)' = k + 1
        BY <1>2, <1>3, <3>1, <3>2
      <3> QED
        BY <1>2, <1>4, <3>2, <3>3 DEF List!Again
    <2>2. CASE k = n
      <3>1. Take(Recall(pos[k], <<>>))
        BY <1>1, <1>5, <2>2, Recalls DEF get_current_recall_line
      <3>2. /\ HistoryInv' /\ Entries(hist)' = Entries(hist) /\ line' = <<>>
            /\ LineNumber(hist, recall_pos)' = k + 1
        BY <1>3, <1>4, <3>1
      <3>3. ~(k + 1 <= n)
        BY <2>2
      <3> QED
        BY <1>2, <1>4, <3>2, <3>3 DEF List!Again
    <2> QED
      BY <2>1, <2>2
  <1>6. ASSUME recall_previous PROVE HistoryInv' /\ List!Older
    <2>1. CASE k > 0
      <3>1. Take(Recall(pos[k - 1], Entry(hist, pos, k)))
        BY <1>1, <1>6, <2>1, Recalls DEF recall_previous
      <3>2. k \in 1..n /\ k - 1 \in 0..n /\ k + 1 - 1 = k /\ k - 1 + 1 = k /\ k + 1 > 1
        BY <2>1
      <3>3. /\ HistoryInv' /\ Entries(hist)' = Entries(hist) /\ line' = Entry(hist, pos, k)
            /\ LineNumber(hist, recall_pos)' = k
        BY <1>2, <1>3, <3>1, <3>2
      <3> QED
        BY <1>2, <1>4, <3>2, <3>3 DEF List!Older
    <2>2. CASE k = 0
      <3>1. Take(Recall(pos[k], <<>>))
        BY <1>1, <1>6, <2>2, Recalls DEF recall_previous
      <3>2. /\ HistoryInv' /\ Entries(hist)' = Entries(hist) /\ line' = <<>>
            /\ LineNumber(hist, recall_pos)' = k + 1
        BY <1>3, <1>4, <3>1
      <3>3. ~(k + 1 > 1)
        BY <2>2
      <3> QED
        BY <1>2, <1>4, <3>2, <3>3 DEF List!Older
    <2> QED
      BY <2>1, <2>2
  <1>7. ASSUME recall_next PROVE HistoryInv' /\ List!Newer
    <2>1. CASE k + 1 < n
      <3>1. Take(Recall(pos[k + 1], Entry(hist, pos, k + 2)))
        BY <1>1, <1>7, <2>1, Recalls DEF recall_next
      <3>2. k + 1 \in 0..n /\ k + 2 \in 1..n /\ k + 1 + 1 = k + 2
        BY <2>1
      <3>3. /\ HistoryInv' /\ Entries(hist)' = Entries(hist) /\ line' = Entry(hist, pos, k + 2)
            /\ LineNumber(hist, recall_pos)' = k + 2
        BY <1>2, <1>3, <3>1, <3>2
      <3> QED
        BY <1>2, <1>4, <2>1, <3>2, <3>3 DEF List!Newer
    <2>2. CASE k + 1 >= n
      <3>1. Take(Recall(pos[k], <<>>))
        BY <1>1, <1>7, <2>2, Recalls DEF recall_next
      <3>2. /\ HistoryInv' /\ Entries(hist)' = Entries(hist) /\ line' = <<>>
            /\ LineNumber(hist, recall_pos)' = k + 1
        BY <1>3, <1>4, <3>1
      <3>3. ~(k + 1 < n)
        BY <2>2
      <3> QED
        BY <1>2, <1>4, <3>2, <3>3 DEF List!Newer
    <2> QED
      BY <2>1, <2>2
  <1> QED
    BY <1>5, <1>6, <1>7

LEMMA AddStep ==
  ASSUME HistoryInv, NEW l \in Lines, add_line(l)
  PROVE  HistoryInv' /\ List!Enter(l)
  <1>0. l \in Fitting
    BY LinesAssumption DEF Fitting
  <1>1. PICK n, pos : Placed(hist, recall_pos, pos, n)
    BY DEF HistoryInv
  <1>2. /\ hist \in Seq(Text) /\ Len(hist) <= HistCap /\ line \in Seq(Char)
        /\ n \in Nat /\ Cuts(hist, pos, n)
    BY <1>1 DEF HistoryInv, Placed
  <1>3. hist' = AddLine(hist, l) /\ recall_pos' = Len(hist') /\ line' = line
    BY DEF add_line
  <1>4. hist' \in Seq(Text) /\ Len(hist') <= HistCap
    BY <1>0, <1>2, <1>3, AddPlaces
  <1>5. PICK m \in Nat : \E t : /\ Cuts(hist', t, m)
                               /\ EntriesTo(hist', t, m) = Kept(Append(Entries(hist), l))
    BY <1>0, <1>2, <1>3, AddPlaces
  <1>6. PICK t : Cuts(hist', t, m) /\ EntriesTo(hist', t, m) = Kept(Append(Entries(hist), l))
    BY <1>5
  <1>7. recall_pos' = t[m] /\ m \in 0..m
    BY <1>3, <1>6 DEF Cuts
  <1>8. HistoryInv'
    BY <1>2, <1>3, <1>4, <1>6, <1>7 DEF HistoryInv, Placed
  <1>9. Entries(hist') = Kept(Append(Entries(hist), l))
    BY <1>4, <1>6, EntriesAre
  <1>10. Len(Entries(hist')) = m /\ LineNumber(hist', recall_pos') = m + 1
    BY <1>4, <1>6, <1>7, ListState
  <1> QED
    BY <1>3, <1>8, <1>9, <1>10 DEF List!Enter, Kept

\* Every step of the history is one of the list, and keeps the invariant.
LEMMA HistoryStep ==
  ASSUME HistoryInv, [HistoryNext]_<<hist, recall_pos, line, call>>
  PROVE  HistoryInv' /\ [List!ListNext]_<<Entries(hist), LineNumber(hist, recall_pos), line, call>>
  <1>1. PICK n, pos : Placed(hist, recall_pos, pos, n)
    BY DEF HistoryInv
  <1>2. n \in Nat /\ Cuts(hist, pos, n)
    BY <1>1 DEF Placed
  <1>3. PICK k \in 0..n : recall_pos = pos[k]
    BY <1>1 DEF Placed
  <1>4. CASE get_current_recall_line /\ call' = <<"current">>
    BY <1>2, <1>3, <1>4, RecallStep DEF List!ListNext
  <1>5. CASE recall_previous /\ call' = <<"previous">>
    BY <1>2, <1>3, <1>5, RecallStep DEF List!ListNext
  <1>6. CASE recall_next /\ call' = <<"next">>
    BY <1>2, <1>3, <1>6, RecallStep DEF List!ListNext
  <1>7. ASSUME NEW l \in Lines, add_line(l), call' = <<"add", l>>
        PROVE  HistoryInv' /\ List!ListNext
    BY <1>7, AddStep DEF List!ListNext
  <1>8. CASE UNCHANGED <<hist, recall_pos, line, call>>
    BY <1>8 DEF HistoryInv, Placed
  <1> QED
    BY <1>4, <1>5, <1>6, <1>7, <1>8 DEF HistoryNext

(***************************************************************************)
(* The theorems                                                            *)
(***************************************************************************)
\* The empty history is one line's beginning, and the empty list.
LEMMA HistoryStart ==
  ASSUME HistoryInit
  PROVE  HistoryInv /\ List!ListInit
  <1>1. hist = <<>> /\ recall_pos = 0 /\ line = <<>> /\ call = <<"new">>
    BY DEF HistoryInit
  <1>2. hist \in Seq(Text) /\ Len(hist) = 0 /\ line \in Seq(Char) /\ HistCap \in Nat
    BY <1>1, CapacityAssumption
  <1>3. PICK pos : pos = [j \in 0..0 |-> 0]
    OBVIOUS
  <1>4. pos[0] = 0 /\ DOMAIN pos = 0..0
    BY <1>3
  <1>5. Cuts(hist, pos, 0)
    BY <1>2, <1>3, <1>4 DEF Cuts
  <1>6. 0 \in 0..0 /\ 0 \in Nat
    OBVIOUS
  <1>7. HistoryInv
    BY <1>1, <1>2, <1>4, <1>5, <1>6 DEF HistoryInv, Placed
  <1>8. Entries(hist) \in Seq(Seq(Char)) /\ Len(Entries(hist)) = 0
    BY <1>2, <1>5, <1>6, ListState
  <1>9. Entries(hist) = <<>>
    BY <1>8, EmptySeq
  <1>10. LineNumber(hist, recall_pos) = 1
    BY <1>1, <1>2, <1>4, <1>5, <1>6, ListState
  <1> QED
    BY <1>1, <1>7, <1>9, <1>10 DEF List!ListInit

\* The invariant says more than the two that are checked.
LEMMA InvSafe ==
  ASSUME HistoryInv
  PROVE  HistoryTypeOK /\ RecallFramed
  <1>1. PICK n, pos : Placed(hist, recall_pos, pos, n)
    BY DEF HistoryInv
  <1>2. hist \in Seq(Text) /\ n \in Nat /\ Cuts(hist, pos, n)
    BY <1>1 DEF HistoryInv, Placed
  <1>3. PICK k \in 0..n : recall_pos = pos[k]
    BY <1>1 DEF Placed
  <1>4. RecallFramed
    BY <1>2, <1>3, CutsFramed DEF RecallFramed
  <1>5. pos[k] \in 0..Len(hist)
    BY <1>2 DEF Cuts
  <1> QED
    BY <1>3, <1>4, <1>5 DEF HistoryInv, HistoryTypeOK, Text

\* In every reachable state the ring is whole lines, except that the oldest
\* may have lost its beginning, and the position of the arrow keys is at the
\* beginning of a line or at the end: no overwrite leaves it inside one.
THEOREM HistorySafety == HistorySpec => [](HistoryTypeOK /\ RecallFramed)
  <1>1. HistoryInit => HistoryInv
    BY HistoryStart
  <1>2. HistoryInv /\ [HistoryNext]_<<hist, recall_pos, line, call>> => HistoryInv'
    BY HistoryStep
  <1>3. HistoryInv => HistoryTypeOK /\ RecallFramed
    BY InvSafe
  <1> QED
    BY <1>1, <1>2, <1>3, PTL DEF HistorySpec

\* The history is a list of lines, for every set of lines and every size of
\* the store: every call is a step of the list, so the searches for newlines
\* return whole entries in order, whatever has been overwritten.
THEOREM HistoryImplementsList == HistorySpec => RefinesHistoryList
  <1>1. HistoryInit => HistoryInv /\ List!ListInit
    BY HistoryStart
  <1>2. HistoryInv /\ [HistoryNext]_<<hist, recall_pos, line, call>>
          => /\ HistoryInv'
             /\ [List!ListNext]_<<Entries(hist), LineNumber(hist, recall_pos), line, call>>
    BY HistoryStep
  <1> QED
    BY <1>1, <1>2, PTL DEF HistorySpec, RefinesHistoryList, List!ListSpec, List!listVars

(***************************************************************************)
(* The terminal                                                            *)
(***************************************************************************)
\* What the columns of the row may show: a backspace is not among it.
Shown == Char \union {Blank, ">"}
Row == [Column -> Shown]
Terminal(row, col) == [row |-> row, col |-> col]

\* The column after n backspaces.
Back(col, n) == IF n <= col THEN col - n ELSE 0

\* The row after the first m of the characters w were printed from a column on.
Over(row, col, w, m) ==
  [i \in Column |-> IF col <= i /\ i < col + m THEN w[i - col + 1] ELSE row[i]]

\* The equation of the recursive function in print.
Printing(s, text, shown, i) == IF i = 0 THEN s ELSE PrintChar(shown[i - 1], text[i])

LEMMA PrintDef ==
  \A s, text : print(s, text) =
    (CHOOSE shown : shown = [i \in 0..Len(text) |-> Printing(s, text, shown, i)])[Len(text)]
  BY Zenon DEF print, Printing

\* A function that prints the characters one after the other gives the screen.
Prints(f, s, text, n) == f[0] = s /\ \A i \in 1..n : f[i] = PrintChar(f[i - 1], text[i])

LEMMA PrintIs ==
  ASSUME NEW s, NEW text, NEW n \in Nat, Len(text) = n, NEW p, Prints(p, s, text, n)
  PROVE  print(s, text) = p[n]
  <1> DEFINE w == [i \in 0..n |-> p[i]]
             f == CHOOSE shown : shown = [i \in 0..n |-> Printing(s, text, shown, i)]
  <1>1. \A i \in 0..n : w[i] = p[i]
    OBVIOUS
  <1>0. w = [i \in 0..n |-> w[i]]
    OBVIOUS
  <1> HIDE DEF w
  <1>2. ASSUME NEW i \in 1..n, NEW shown, shown[i - 1] = w[i - 1]
        PROVE  Printing(s, text, shown, i) = w[i]
    <2>1. i - 1 \in 0..n /\ i \in 0..n /\ i /= 0
      OBVIOUS
    <2>2. p[i] = PrintChar(p[i - 1], text[i])
      BY DEF Prints
    <2> QED
      BY <1>1, <1>2, <2>1, <2>2 DEF Printing
  <1>3. \A shown : Printing(s, text, shown, 0) = w[0]
    BY <1>1 DEF Printing, Prints
  <1>4. w = [i \in 0..n |-> Printing(s, text, w, i)]
    <2>1. ASSUME NEW i \in 0..n PROVE w[i] = Printing(s, text, w, i)
      <3>1. i = 0 \/ i \in 1..n
        OBVIOUS
      <3> QED
        BY <1>2, <1>3, <3>1
    <2> QED
      BY <1>0, <2>1
  <1>5. f = [i \in 0..n |-> Printing(s, text, f, i)]
    BY <1>4
  <1> HIDE DEF f
  <1>6. \A i \in 0..n : f[i] = Printing(s, text, f, i)
    BY <1>5
  <1>7. Alike(f, w, n)
    BY <1>2, <1>3, <1>6 DEF Alike
  <1>8. f[n] = p[n]
    BY <1>1, <1>7, SameFunction
  <1>9. print(s, text) = f[n]
    BY PrintDef DEF f
  <1> QED
    BY <1>8, <1>9

LEMMA PrintBackspace ==
  \A row, col : PrintChar(Terminal(row, col), BS) = Terminal(row, IF col = 0 THEN 0 ELSE col - 1)
  BY DEF PrintChar, Terminal

LEMMA PrintOther ==
  \A row, col, c : c /= BS =>
    PrintChar(Terminal(row, col), c) = Terminal([row EXCEPT ![col] = c], col + 1)
  BY DEF PrintChar, Terminal

LEMMA OverStep ==
  ASSUME NEW row, NEW col \in Nat, NEW w, NEW j \in Nat, j >= 1
  PROVE  [Over(row, col, w, j - 1) EXCEPT ![col + j - 1] = w[j]] = Over(row, col, w, j)
  <1>1. ASSUME NEW i \in Column
        PROVE  [Over(row, col, w, j - 1) EXCEPT ![col + j - 1] = w[j]][i] = Over(row, col, w, j)[i]
    <2>1. i \in Int
      BY <1>1 DEF Column, Prompt
    <2>2. Over(row, col, w, j)[i] = IF col <= i /\ i < col + j THEN w[i - col + 1] ELSE row[i]
      BY DEF Over
    <2>3. Over(row, col, w, j - 1)[i]
            = IF col <= i /\ i < col + (j - 1) THEN w[i - col + 1] ELSE row[i]
      BY DEF Over
    <2>4. [Over(row, col, w, j - 1) EXCEPT ![col + j - 1] = w[j]][i]
            = IF i = col + j - 1 THEN w[j] ELSE Over(row, col, w, j - 1)[i]
      BY DEF Over
    <2>5. CASE i = col + j - 1
      <3>1. i - col + 1 = j /\ col <= i /\ i < col + j
        BY <2>1, <2>5
      <3> QED
        BY <2>2, <2>4, <2>5, <3>1
    <2>6. CASE i /= col + j - 1
      <3>1. i < col + j <=> i < col + (j - 1)
        BY <2>1, <2>6
      <3> QED
        BY <2>2, <2>3, <2>4, <2>6, <3>1
    <2> QED
      BY <2>5, <2>6
  <1> QED
    BY <1>1 DEF Over

LEMMA OverNothing ==
  ASSUME NEW row \in Row, NEW col \in Nat, NEW w
  PROVE  Over(row, col, w, 0) = row
  <1>1. \A i \in Column : i \in Int
    BY DEF Column, Prompt
  <1>2. \A i \in Column : ~(col <= i /\ i < col + 0)
    BY <1>1
  <1>3. row = [i \in Column |-> row[i]]
    BY DEF Row
  <1> QED
    BY <1>2, <1>3 DEF Over

\* Every text the command line prints: a backspaces, m characters, b backspaces.
Strokes(text, a, w, m, b) ==
  /\ a \in Nat /\ m \in Nat /\ b \in Nat /\ Len(text) = a + m + b
  /\ \A i \in 1..a : text[i] = BS
  /\ \A i \in 1..m : text[a + i] = w[i] /\ w[i] /= BS
  /\ \A i \in 1..b : text[a + m + i] = BS

LEMMA PrintStrokes ==
  ASSUME NEW row \in Row, NEW col \in Nat, NEW text, NEW w,
         NEW a \in Nat, NEW m \in Nat, NEW b \in Nat,
         Strokes(text, a, w, m, b), b <= Back(col, a) + m
  PROVE  print(Terminal(row, col), text)
           = Terminal(Over(row, Back(col, a), w, m), Back(col, a) + m - b)
  <1> DEFINE s == Terminal(row, col)
             from == Back(col, a)
             f == [i \in 0..a + m + b |->
                     IF i <= a THEN Terminal(row, Back(col, i))
                     ELSE IF i <= a + m THEN Terminal(Over(row, from, w, i - a), from + (i - a))
                     ELSE Terminal(Over(row, from, w, m), from + m - (i - a - m))]
  <1>1. PICK n \in Nat : n = a + m + b
    OBVIOUS
  <1>2. from \in Nat
    BY DEF Back
  <1>3. \A i \in 0..a : f[i] = Terminal(row, Back(col, i))
    OBVIOUS
  <1>4. \A j \in 0..m : f[a + j] = Terminal(Over(row, from, w, j), from + j)
    <2>1. CASE m = 0
      <3>1. f[a] = Terminal(row, from) /\ a + 0 = a /\ from + 0 = from
        BY <1>2, <1>3
      <3> QED
        BY <1>2, <2>1, <3>1, OverNothing
    <2>2. ASSUME NEW j \in 1..m PROVE f[a + j] = Terminal(Over(row, from, w, j), from + j)
      <3>1. a + j \in 0..a + m + b /\ ~(a + j <= a) /\ a + j <= a + m /\ a + j - a = j
        OBVIOUS
      <3> QED
        BY <3>1
    <2>3. f[a + 0] = Terminal(Over(row, from, w, 0), from + 0)
      <3>1. f[a] = Terminal(row, from) /\ a + 0 = a /\ from + 0 = from
        BY <1>2, <1>3
      <3> QED
        BY <1>2, <3>1, OverNothing
    <2> QED
      BY <2>2, <2>3
  <1>5. \A j \in 0..b : f[a + m + j] = Terminal(Over(row, from, w, m), from + m - j)
    <2>1. ASSUME NEW j \in 1..b
          PROVE  f[a + m + j] = Terminal(Over(row, from, w, m), from + m - j)
      <3>1. /\ a + m + j \in 0..a + m + b /\ ~(a + m + j <= a) /\ ~(a + m + j <= a + m)
            /\ a + m + j - a - m = j
        OBVIOUS
      <3> QED
        BY <3>1
    <2>2. f[a + m + 0] = Terminal(Over(row, from, w, m), from + m - 0)
      <3>1. a + m + 0 = a + m /\ from + m - 0 = from + m /\ m \in 0..m
        BY <1>2
      <3> QED
        BY <1>4, <3>1
    <2> QED
      BY <2>1, <2>2
  <1>6. f[0] = s
    <2>1. Back(col, 0) = col /\ 0 \in 0..a
      BY DEF Back
    <2> QED
      BY <1>3, <2>1
  <1> HIDE DEF f, s
  <1>7. ASSUME NEW i \in 1..a PROVE f[i] = PrintChar(f[i - 1], text[i])
    <2>1. i \in 0..a /\ i - 1 \in 0..a
      OBVIOUS
    <2>2. text[i] = BS
      BY DEF Strokes
    <2>3. Back(col, i) = IF Back(col, i - 1) = 0 THEN 0 ELSE Back(col, i - 1) - 1
      BY DEF Back
    <2> QED
      BY <1>3, <2>1, <2>2, <2>3, PrintBackspace
  <1>8. ASSUME NEW j \in 1..m PROVE f[a + j] = PrintChar(f[a + j - 1], text[a + j])
    <2>1. j \in 0..m /\ j - 1 \in 0..m /\ a + j - 1 = a + (j - 1) /\ j \in Nat /\ j >= 1
      OBVIOUS
    <2>2. text[a + j] = w[j] /\ w[j] /= BS
      BY DEF Strokes
    <2>3. f[a + j - 1] = Terminal(Over(row, from, w, j - 1), from + (j - 1))
      BY <1>4, <2>1
    <2>4. PrintChar(f[a + j - 1], text[a + j])
            = Terminal([Over(row, from, w, j - 1) EXCEPT ![from + (j - 1)] = w[j]],
                       from + (j - 1) + 1)
      BY <2>2, <2>3, PrintOther
    <2>5. from + (j - 1) = from + j - 1 /\ from + (j - 1) + 1 = from + j
      BY <1>2
    <2>6. [Over(row, from, w, j - 1) EXCEPT ![from + j - 1] = w[j]] = Over(row, from, w, j)
      BY <1>2, <2>1, OverStep
    <2>7. f[a + j] = Terminal(Over(row, from, w, j), from + j)
      BY <1>4, <2>1
    <2> QED
      BY <2>4, <2>5, <2>6, <2>7
  <1>9. ASSUME NEW j \in 1..b PROVE f[a + m + j] = PrintChar(f[a + m + j - 1], text[a + m + j])
    <2>1. j \in 0..b /\ j - 1 \in 0..b /\ a + m + j - 1 = a + m + (j - 1)
      OBVIOUS
    <2>2. text[a + m + j] = BS
      BY DEF Strokes
    <2>3. f[a + m + j - 1] = Terminal(Over(row, from, w, m), from + m - (j - 1))
      BY <1>5, <2>1
    <2>5. f[a + m + j] = Terminal(Over(row, from, w, m), from + m - j)
      BY <1>5, <2>1
    <2>6. PICK r : r = Over(row, from, w, m)
      OBVIOUS
    <2>4. PICK c \in Int : c = from + m - (j - 1)
      BY <1>2
    <2>7. c /= 0 /\ c - 1 = from + m - j
      BY <1>2, <2>4
    <2>8. PrintChar(Terminal(r, c), BS) = Terminal(r, c - 1)
      BY <2>7, PrintBackspace
    <2> QED
      BY <2>2, <2>3, <2>4, <2>5, <2>6, <2>7, <2>8
  <1>10. ASSUME NEW i \in 1..n PROVE f[i] = PrintChar(f[i - 1], text[i])
    <2>1. CASE i \in 1..a
      BY <1>7, <2>1
    <2>2. CASE i \in a + 1..a + m
      <3>1. i - a \in 1..m /\ a + (i - a) = i
        BY <2>2
      <3> QED
        BY <1>8, <3>1
    <2>3. CASE i \in a + m + 1..a + m + b
      <3>1. PICK j \in 1..b : i = a + m + j
        <4>1. i - a - m \in 1..b /\ i = a + m + (i - a - m)
          BY <2>3
        <4> QED
          BY ONLY <4>1
      <3>2. i - 1 = a + m + j - 1
        BY <3>1
      <3>3. f[a + m + j] = PrintChar(f[a + m + j - 1], text[a + m + j])
        BY <1>9
      <3> QED
        BY <3>1, <3>2, <3>3, Zenon
    <2> QED
      BY <1>1, <2>1, <2>2, <2>3
  <1>11. Prints(f, s, text, n)
    BY <1>6, <1>10 DEF Prints
  <1>12. Len(text) = n
    BY <1>1 DEF Strokes
  <1>13. print(s, text) = f[n]
    BY <1>11, <1>12, PrintIs
  <1>14. f[n] = Terminal(Over(row, from, w, m), from + m - b)
    <2>1. b \in 0..b
      OBVIOUS
    <2> QED
      BY <1>1, <1>5, <2>1
  <1> QED
    BY <1>13, <1>14 DEF s

(***************************************************************************)
(* The line and what is printed of it                                      *)
(***************************************************************************)
\* What a text is, character by character, when one is removed.
LEMMA Removed ==
  ASSUME NEW s \in Seq(Char), NEW i \in 1..Len(s)
  PROVE  LET r == Line!RemoveAt(s, i)
         IN  /\ r \in Seq(Char) /\ Len(r) = Len(s) - 1
             /\ \A k \in 1..Len(s) - 1 : r[k] = IF k < i THEN s[k] ELSE s[k + 1]
  <1> DEFINE a == SubSeq(s, 1, i - 1)
             b == SubSeq(s, i + 1, Len(s))
  <1>1. Len(s) \in Nat /\ \A k \in 1..Len(s) : s[k] \in Char
    BY LenProperties, ElementOfSeq
  <1>2. /\ a \in Seq(Char) /\ Len(a) = i - 1
        /\ \A k \in 1..i - 1 : a[k] = s[k]
    BY <1>1, SubSeqProperties
  <1>3. /\ b \in Seq(Char) /\ Len(b) = Len(s) - i
        /\ \A k \in 1..Len(s) - i : b[k] = s[k + i]
    BY <1>1, SubSeqProperties
  <1> HIDE DEF a, b
  <1>4. /\ a \o b \in Seq(Char) /\ Len(a \o b) = Len(a) + Len(b)
        /\ \A k \in 1..Len(a) + Len(b) :
             (a \o b)[k] = IF k <= Len(a) THEN a[k] ELSE b[k - Len(a)]
    BY <1>2, <1>3, ConcatProperties
  <1>5. ASSUME NEW k \in 1..Len(s) - 1
        PROVE  (a \o b)[k] = IF k < i THEN s[k] ELSE s[k + 1]
    <2>1. CASE k < i
      BY <1>1, <1>2, <1>3, <1>4, <2>1
    <2>2. CASE k >= i
      <3>1. k - (i - 1) \in 1..Len(s) - i /\ ~(k <= i - 1) /\ k \in 1..Len(a) + Len(b)
        BY <1>1, <1>2, <1>3, <2>2
      <3>2. b[k - (i - 1)] = s[k - (i - 1) + i]
        BY <1>3, <3>1
      <3> QED
        BY <1>1, <1>2, <1>4, <2>2, <3>1, <3>2
    <2>3. k < i \/ k >= i
      BY <1>1
    <2> QED
      BY <2>1, <2>2, <2>3
  <1>6. Len(a \o b) = Len(s) - 1
    BY <1>1, <1>2, <1>3, <1>4
  <1> QED
    BY <1>4, <1>5, <1>6 DEF a, b, Line!RemoveAt

\* What a text is, character by character, when one is inserted.
LEMMA Inserted ==
  ASSUME NEW s \in Seq(Char), NEW i \in 1..Len(s) + 1, NEW c \in Char
  PROVE  LET r == Line!InsertAt(s, i, c)
         IN  /\ r \in Seq(Char) /\ Len(r) = Len(s) + 1
             /\ \A k \in 1..i - 1 : r[k] = s[k]
             /\ r[i] = c
             /\ \A k \in i + 1..Len(s) + 1 : r[k] = s[k - 1]
  <1> DEFINE a == SubSeq(s, 1, i - 1)
             b == SubSeq(s, i, Len(s))
             ac == a \o <<c>>
  <1>1. Len(s) \in Nat /\ \A k \in 1..Len(s) : s[k] \in Char
    BY LenProperties, ElementOfSeq
  <1>2. /\ a \in Seq(Char) /\ Len(a) = i - 1
        /\ \A k \in 1..i - 1 : a[k] = s[k]
    BY <1>1, SubSeqProperties
  <1>3. /\ b \in Seq(Char) /\ Len(b) = Len(s) - i + 1
        /\ \A k \in 1..Len(s) - i + 1 : b[k] = s[k + i - 1]
    BY <1>1, SubSeqProperties
  <1>4. <<c>> \in Seq(Char) /\ Len(<<c>>) = 1 /\ <<c>>[1] = c
    OBVIOUS
  <1> HIDE DEF a, b
  <1>5. /\ ac \in Seq(Char) /\ Len(ac) = i
        /\ \A k \in 1..i : ac[k] = IF k < i THEN s[k] ELSE c
    BY <1>1, <1>2, <1>4, ConcatProperties
  <1> HIDE DEF ac
  <1>6. /\ ac \o b \in Seq(Char) /\ Len(ac \o b) = Len(ac) + Len(b)
        /\ \A k \in 1..Len(ac) + Len(b) :
             (ac \o b)[k] = IF k <= Len(ac) THEN ac[k] ELSE b[k - Len(ac)]
    BY <1>3, <1>5, ConcatProperties
  <1>7. (ac \o b)[i] = c /\ \A k \in 1..i - 1 : (ac \o b)[k] = s[k]
    BY <1>1, <1>3, <1>5, <1>6
  <1>8. ASSUME NEW k \in i + 1..Len(s) + 1 PROVE (ac \o b)[k] = s[k - 1]
    <2>1. k - i \in 1..Len(s) - i + 1 /\ ~(k <= i) /\ k \in 1..Len(ac) + Len(b)
      BY <1>1, <1>3, <1>5
    <2>2. b[k - i] = s[k - i + i - 1]
      BY <1>3, <2>1
    <2> QED
      BY <1>1, <1>5, <1>6, <2>1, <2>2
  <1>9. Len(ac \o b) = Len(s) + 1
    BY <1>1, <1>3, <1>5, <1>6
  <1> QED
    BY <1>6, <1>7, <1>8, <1>9 DEF a, b, ac, Line!InsertAt

\* The characters of the line from one on.
LEMMA FromProperties ==
  ASSUME NEW s \in Seq(Char), NEW i \in 1..Len(s) + 1
  PROVE  /\ SubSeq(s, i, Len(s)) \in Seq(Char) /\ Len(SubSeq(s, i, Len(s))) = Len(s) - i + 1
         /\ \A k \in 1..Len(s) - i + 1 : SubSeq(s, i, Len(s))[k] = s[i - 1 + k]
  <1>1. Len(s) \in Nat /\ \A k \in 1..Len(s) : s[k] \in Char
    BY LenProperties, ElementOfSeq
  <1> QED
    BY <1>1, SubSeqProperties

\* Every character of a line can be shown, and none is a backspace.
LEMMA ShownProperties ==
  /\ \A s \in Seq(Char) : s \in Seq(Shown \union {BS})
  /\ \A c \in Shown : c /= BS
  /\ Char \subseteq Shown /\ Blank \in Shown
  <1>1. Char \subseteq Shown /\ Blank \in Shown
    BY DEF Shown
  <1>2. \A c \in Shown : c /= BS
    BY CharAssumption DEF Shown, Blank, BS
  <1>3. ASSUME NEW s \in Seq(Char) PROVE s \in Seq(Shown \union {BS})
    <2>1. Len(s) \in Nat /\ s \in [1..Len(s) -> Char]
      BY LenProperties
    <2>2. s \in [1..Len(s) -> Shown \union {BS}]
      BY <1>1, <2>1
    <2> QED
      BY <2>1, <2>2, SeqDef
  <1> QED
    BY <1>1, <1>2, <1>3

LEMMA TimesProperties ==
  ASSUME NEW c \in {Blank, BS}, NEW n \in Nat
  PROVE  /\ Times(c, n) \in Seq(Shown \union {BS}) /\ Len(Times(c, n)) = n
         /\ \A i \in 1..n : Times(c, n)[i] = c
  <1>1. c \in Shown \union {BS}
    BY DEF Shown
  <1>2. Times(c, n) \in [1..n -> Shown \union {BS}]
    BY <1>1 DEF Times
  <1>3. Times(c, n) \in Seq(Shown \union {BS})
    BY <1>2, SeqDef
  <1> QED
    BY <1>2, <1>3, LenProperties DEF Times

\* Three texts one after the other.
LEMMA ThreeParts ==
  ASSUME NEW S, NEW x \in Seq(S), NEW y \in Seq(S), NEW z \in Seq(S)
  PROVE  LET t == x \o y \o z
         IN  /\ t \in Seq(S) /\ Len(t) = Len(x) + Len(y) + Len(z)
             /\ \A i \in 1..Len(x) : t[i] = x[i]
             /\ \A i \in 1..Len(y) : t[Len(x) + i] = y[i]
             /\ \A i \in 1..Len(z) : t[Len(x) + Len(y) + i] = z[i]
  <1>1. PICK a \in Nat, b \in Nat, c \in Nat : a = Len(x) /\ b = Len(y) /\ c = Len(z)
    BY LenProperties
  <1>2. PICK u : u = x \o y
    OBVIOUS
  <1>3. /\ u \in Seq(S) /\ Len(u) = a + b
        /\ \A i \in 1..a + b : u[i] = IF i <= a THEN x[i] ELSE y[i - a]
    BY <1>1, <1>2, ConcatProperties
  <1>4. PICK t : t = u \o z
    OBVIOUS
  <1>5. /\ t \in Seq(S) /\ Len(t) = a + b + c
        /\ \A i \in 1..a + b + c : t[i] = IF i <= a + b THEN u[i] ELSE z[i - (a + b)]
    <2>1. u \in Seq(S)
      BY <1>3
    <2>2. /\ u \o z \in Seq(S) /\ Len(u \o z) = Len(u) + Len(z)
          /\ \A i \in 1..Len(u) + Len(z) :
               (u \o z)[i] = IF i <= Len(u) THEN u[i] ELSE z[i - Len(u)]
      BY ONLY <2>1, z \in Seq(S), ConcatProperties
    <2> QED
      BY <1>1, <1>3, <1>4, <2>2
  <1>6. ASSUME NEW i \in 1..a PROVE t[i] = x[i]
    <2>1. i \in 1..a + b /\ i \in 1..a + b + c /\ i <= a /\ i <= a + b
      OBVIOUS
    <2> QED
      BY <1>3, <1>5, <2>1
  <1>7. ASSUME NEW i \in 1..b PROVE t[a + i] = y[i]
    <2>1. /\ a + i \in 1..a + b /\ a + i \in 1..a + b + c /\ ~(a + i <= a)
          /\ a + i <= a + b /\ a + i - a = i
      OBVIOUS
    <2> QED
      BY <1>3, <1>5, <2>1
  <1>8. ASSUME NEW i \in 1..c PROVE t[a + b + i] = z[i]
    <2>1. a + b + i \in 1..a + b + c /\ ~(a + b + i <= a + b) /\ a + b + i - (a + b) = i
      OBVIOUS
    <2> QED
      BY <1>5, <2>1
  <1> QED
    BY <1>1, <1>2, <1>4, <1>5, <1>6, <1>7, <1>8

(***************************************************************************)
(* The row                                                                 *)
(***************************************************************************)
\* The row that shows a line.
Cells(text) ==
  [i \in Column |->
     IF i < Prompt THEN ">"
     ELSE IF i - Prompt < Len(text) THEN text[i - Prompt + 1] ELSE Blank]

LEMMA ColumnIs ==
  Column = 0..Prompt + InputCap + 1 /\ Prompt = 2 /\ InputCap \in Nat /\ InputCap >= 1
  BY CapAssumption, CapacityAssumption DEF Column, Prompt

LEMMA CellsRow ==
  ASSUME NEW text \in Seq(Char)
  PROVE  Cells(text) \in Row
  <1>1. Len(text) \in Nat /\ \A k \in 1..Len(text) : text[k] \in Shown
    BY LenProperties, ElementOfSeq, ShownProperties
  <1>2. ASSUME NEW i \in Column, ~(i < Prompt), i - Prompt < Len(text)
        PROVE  text[i - Prompt + 1] \in Shown
    <2>1. i - Prompt + 1 \in 1..Len(text)
      BY <1>1, <1>2, ColumnIs
    <2> QED
      BY <1>1, <2>1
  <1>3. ">" \in Shown /\ Blank \in Shown
    BY DEF Shown
  <1> QED
    BY <1>2, <1>3 DEF Cells, Row

LEMMA OverRow ==
  ASSUME NEW row \in Row, NEW col \in Nat, NEW m \in Nat, NEW w, \A i \in 1..m : w[i] \in Shown
  PROVE  Over(row, col, w, m) \in Row
  <1>1. ASSUME NEW i \in Column, col <= i, i < col + m PROVE w[i - col + 1] \in Shown
    <2>1. i - col + 1 \in 1..m
      BY <1>1, ColumnIs
    <2> QED
      BY <2>1
  <1>2. \A i \in Column : row[i] \in Shown
    BY DEF Row
  <1> QED
    BY <1>1, <1>2 DEF Over, Row

\* Printing a new line, from the first place where it differs from the old one,
\* and blanks to where the old one ended, shows the new line; and printing a
\* part of the line that is there changes nothing.
Repaints(text, new, p, w, m) ==
  /\ p \in Nat /\ m \in Nat /\ p <= Len(text) /\ p <= Len(new)
  /\ text = new \/ (Len(text) <= p + m /\ Len(new) <= p + m)
  /\ \A i \in 1..p : text[i] = new[i]
  /\ \A i \in 1..m : w[i] = IF p + i <= Len(new) THEN new[p + i] ELSE Blank

LEMMA Repaint ==
  ASSUME NEW text \in Seq(Char), NEW new \in Seq(Char), NEW p, NEW w, NEW m,
         Repaints(text, new, p, w, m)
  PROVE  Over(Cells(text), Prompt + p, w, m) = Cells(new)
  <1>1. PICK k \in Nat, n \in Nat : k = Len(text) /\ n = Len(new)
    BY LenProperties
  <1>2. /\ p \in Nat /\ m \in Nat /\ p <= k /\ p <= n
        /\ text = new \/ (k <= p + m /\ n <= p + m)
        /\ \A i \in 1..p : text[i] = new[i]
        /\ \A i \in 1..m : w[i] = IF p + i <= n THEN new[p + i] ELSE Blank
    BY <1>1 DEF Repaints
  <1>3. ASSUME NEW i \in Column PROVE Over(Cells(text), Prompt + p, w, m)[i] = Cells(new)[i]
    <2>1. Over(Cells(text), Prompt + p, w, m)[i]
            = IF Prompt + p <= i /\ i < Prompt + p + m THEN w[i - (Prompt + p) + 1]
              ELSE Cells(text)[i]
      BY DEF Over
    <2>2. Cells(text)[i] = IF i < Prompt THEN ">"
                           ELSE IF i - Prompt < k THEN text[i - Prompt + 1] ELSE Blank
      BY <1>1 DEF Cells
    <2>3. Cells(new)[i] = IF i < Prompt THEN ">"
                          ELSE IF i - Prompt < n THEN new[i - Prompt + 1] ELSE Blank
      BY <1>1 DEF Cells
    <2>4. i \in Nat /\ Prompt = 2
      BY ColumnIs
    <2>5. CASE i < Prompt
      BY <1>2, <2>1, <2>2, <2>3, <2>4, <2>5
    <2>6. CASE Prompt <= i /\ i < Prompt + p
      <3>1. i - Prompt + 1 \in 1..p /\ i - Prompt < k /\ i - Prompt < n
        BY <1>2, <2>4, <2>6
      <3> QED
        BY <1>2, <2>1, <2>2, <2>3, <2>4, <2>6, <3>1
    <2>7. CASE Prompt + p <= i /\ i < Prompt + p + m
      <3>1. PICK j \in 1..m : j = i - (Prompt + p) + 1
        BY <1>2, <2>4, <2>7
      <3>2. p + j = i - Prompt + 1 /\ (p + j <= n <=> i - Prompt < n) /\ ~(i < Prompt)
        BY <1>2, <2>4, <2>7, <3>1
      <3>3. w[j] = IF p + j <= n THEN new[p + j] ELSE Blank
        BY <1>2
      <3> QED
        BY <2>1, <2>3, <2>7, <3>1, <3>2, <3>3
    <2>8. CASE Prompt + p + m <= i
      <3>1. Over(Cells(text), Prompt + p, w, m)[i] = Cells(text)[i]
        BY <1>2, <2>1, <2>4, <2>8
      <3>2. CASE k <= p + m /\ n <= p + m
        <4>1. ~(i - Prompt < k) /\ ~(i - Prompt < n) /\ ~(i < Prompt)
          BY <1>2, <2>4, <2>8, <3>2
        <4> QED
          BY <2>2, <2>3, <3>1, <4>1
      <3> QED
        BY <1>2, <3>1, <3>2
    <2> QED
      BY <1>2, <2>4, <2>5, <2>6, <2>7, <2>8
  <1> QED
    BY <1>3 DEF Over, Cells

(***************************************************************************)
(* Editing with redraw                                                     *)
(***************************************************************************)
\* A line and a screen, and what is always true of them: the terminal's cursor
\* may be left of where it should be, after a recall with the line's cursor
\* inside the line, but never right of it.
Edit(text, cur, row, col) ==
  [line |-> [text |-> text, cursor |-> cur], screen |-> Terminal(row, col)]

Proper(text, cur, row, col) ==
  /\ text \in Seq(Char) /\ Len(text) <= InputCap /\ cur \in 0..Len(text)
  /\ row \in Row /\ col \in 0..Prompt + cur

Editing(e, text, cur, row, col) ==
  e = Edit(text, cur, row, col) /\ Proper(text, cur, row, col)
Good(e) ==
  \E text \in Seq(Char) : \E cur \in Nat : \E row \in Row : \E col \in Nat :
    Editing(e, text, cur, row, col)

\* The screen shows the line.
Synced(text, cur, row, col) == row = Cells(text) /\ col = Prompt + cur
Shows(e) == e.screen = RowOf(e.line)

LEMMA ShowsSynced ==
  \A text, cur, row, col : Shows(Edit(text, cur, row, col)) <=> Synced(text, cur, row, col)
  BY DEF Shows, Edit, Synced, RowOf, Cells, Terminal

\* What every edit does: it ends well, and in step if it began in step.
Follows(e, f) == Good(f) /\ (Shows(e) => Shows(f))

LEMMA FollowsBy ==
  ASSUME NEW text, NEW cur, NEW row, NEW col, NEW text2, NEW cur2, NEW row2, NEW col2,
         Proper(text2, cur2, row2, col2),
         Synced(text, cur, row, col) => Synced(text2, cur2, row2, col2)
  PROVE  Follows(Edit(text, cur, row, col), Edit(text2, cur2, row2, col2))
  <1>1. text2 \in Seq(Char) /\ cur2 \in Nat /\ row2 \in Row /\ col2 \in Nat
    <2>1. Len(text2) \in Nat
      BY LenProperties DEF Proper
    <2> QED
      BY <2>1, ColumnIs DEF Proper
  <1>2. Good(Edit(text2, cur2, row2, col2))
    BY <1>1 DEF Good, Editing
  <1> QED
    BY <1>2, ShowsSynced DEF Follows

\* What every edit prints: the new line from the place where it may differ from
\* the old one, and backspaces to the line's new cursor.
Redraws(text, cur, text2, cur2, strokes, w, a, m, b) ==
  /\ Len(text2) <= InputCap /\ cur2 \in 0..Len(text2)
  /\ Strokes(strokes, a, w, m, b) /\ \A i \in 1..m : w[i] \in Shown
  /\ a <= cur /\ Repaints(text, text2, cur - a, w, m)
  /\ b <= m /\ cur2 + b = cur - a + m

LEMMA DrawnFollows ==
  ASSUME NEW text \in Seq(Char), NEW cur \in Nat, NEW row \in Row, NEW col \in Nat,
         Proper(text, cur, row, col), NEW text2 \in Seq(Char), NEW cur2 \in Nat,
         NEW strokes, NEW w, NEW a \in Nat, NEW m \in Nat, NEW b \in Nat,
         Redraws(text, cur, text2, cur2, strokes, w, a, m, b)
  PROVE  Follows(Edit(text, cur, row, col),
                 Drawn(Edit(text, cur, row, col), [text |-> text2, cursor |-> cur2], strokes))
  <1>1. PICK n \in Nat, n2 \in Nat : n = Len(text) /\ n2 = Len(text2)
    BY LenProperties
  <1>2. cur <= n /\ col <= Prompt + cur
    BY <1>1, ColumnIs DEF Proper
  <1>3. PICK from \in Nat : from = Back(col, a)
    <2>1. Back(col, a) \in Nat
      BY DEF Back
    <2> QED
      BY <2>1
  <1>0. /\ n2 <= InputCap /\ cur2 <= n2 /\ a <= cur /\ b <= m /\ cur2 + b = cur - a + m
        /\ Strokes(strokes, a, w, m, b) /\ \A i \in 1..m : w[i] \in Shown
        /\ Repaints(text, text2, cur - a, w, m)
    BY <1>1 DEF Redraws
  <1>4. from + m - b \in 0..Prompt + cur2
    BY <1>0, <1>2, <1>3, ColumnIs DEF Back
  <1>5. PICK row2, col2 : row2 = Over(row, from, w, m) /\ col2 = from + m - b
    OBVIOUS
  <1>6. row2 \in Row
    BY <1>0, <1>5, OverRow
  <1>7. Proper(text2, cur2, row2, col2)
    BY <1>0, <1>1, <1>4, <1>5, <1>6 DEF Proper
  <1>8. ASSUME Synced(text, cur, row, col) PROVE Synced(text2, cur2, row2, col2)
    <2>1. row = Cells(text) /\ col = Prompt + cur
      BY <1>8 DEF Synced
    <2>2. from = Prompt + (cur - a)
      BY <1>0, <1>2, <1>3, <2>1, ColumnIs DEF Back
    <2>3. Over(Cells(text), Prompt + (cur - a), w, m) = Cells(text2)
      BY <1>0, Repaint
    <2>4. Prompt + (cur - a) + m - b = Prompt + cur2
      BY <1>0, <1>2, ColumnIs
    <2> QED
      BY <1>5, <2>1, <2>2, <2>3, <2>4 DEF Synced
  <1>9. Drawn(Edit(text, cur, row, col), [text |-> text2, cursor |-> cur2], strokes)
          = Edit(text2, cur2, row2, col2)
    <2>1. b <= Back(col, a) + m
      BY <1>0, <1>3
    <2>2. Drawn(Edit(text, cur, row, col), [text |-> text2, cursor |-> cur2], strokes)
            = Edit(text2, cur2, Over(row, Back(col, a), w, m), Back(col, a) + m - b)
      <3>1. print(Terminal(row, col), strokes)
              = Terminal(Over(row, Back(col, a), w, m), Back(col, a) + m - b)
        BY <1>0, <2>1, PrintStrokes
      <3> QED
        BY <3>1 DEF Drawn, Edit
    <2> QED
      BY <1>3, <1>5, <2>2
  <1> QED
    BY <1>7, <1>8, <1>9, FollowsBy

\* The pieces of the printed texts.
LEMMA StrokesTail ==
  ASSUME NEW w \in Seq(Char), NEW b \in Nat
  PROVE  Strokes(w \o Times(BS, b), 0, w, Len(w), b) /\ \A i \in 1..Len(w) : w[i] \in Shown
  <1>1. PICK m \in Nat : m = Len(w)
    BY LenProperties
  <1>2. PICK t : t = Times(BS, b)
    OBVIOUS
  <1>3. t \in Seq(Shown \union {BS}) /\ Len(t) = b /\ \A i \in 1..b : t[i] = BS
    BY <1>2, TimesProperties
  <1>4. w \in Seq(Shown \union {BS}) /\ \A i \in 1..m : w[i] \in Shown /\ w[i] /= BS
    BY <1>1, ShownProperties, ElementOfSeq
  <1>5. PICK x : x = w \o t
    OBVIOUS
  <1>6. Len(x) = m + b /\ \A i \in 1..m + b : x[i] = IF i <= m THEN w[i] ELSE t[i - m]
    <2>1. t \in Seq(Shown \union {BS}) /\ w \in Seq(Shown \union {BS})
      BY <1>3, <1>4
    <2>2. /\ Len(w \o t) = Len(w) + Len(t)
          /\ \A i \in 1..Len(w) + Len(t) : (w \o t)[i] = IF i <= Len(w) THEN w[i] ELSE t[i - Len(w)]
      BY ONLY <2>1, ConcatProperties
    <2> QED
      BY <1>1, <1>3, <1>5, <2>2
  <1>7. \A i \in 1..m : x[0 + i] = w[i]
    <2>1. \A i \in 1..m : i \in 1..m + b /\ i <= m /\ 0 + i = i
      OBVIOUS
    <2> QED
      BY <1>6, <2>1
  <1>8. ASSUME NEW i \in 1..b PROVE x[0 + m + i] = BS
    <2>1. m + i \in 1..m + b /\ ~(m + i <= m) /\ m + i - m = i /\ 0 + m + i = m + i
      OBVIOUS
    <2> QED
      BY <1>3, <1>6, <2>1
  <1>9. \A i \in 1..0 : FALSE
    OBVIOUS
  <1>10. Strokes(x, 0, w, m, b)
    BY <1>4, <1>6, <1>7, <1>8, <1>9 DEF Strokes
  <1> QED
    BY <1>1, <1>2, <1>4, <1>5, <1>10

\* A character typed, at the end of a line or inside it.
LEMMA InsertFollows ==
  ASSUME NEW text \in Seq(Char), NEW cur \in Nat, NEW row \in Row, NEW col \in Nat,
         NEW e, Editing(e, text, cur, row, col), NEW c \in Char
  PROVE  Follows(e, insert(e, c))
  <1>4. e = Edit(text, cur, row, col) /\ Proper(text, cur, row, col)
    BY DEF Editing
  <1>0. Good(e)
    BY DEF Good
  <1>5. PICK n \in Nat : n = Len(text)
    BY LenProperties
  <1>6. cur <= n /\ n <= InputCap
    BY <1>4, <1>5 DEF Proper
  <1>7. CASE n = InputCap
    <2>1. insert(e, c) = e
      BY <1>4, <1>5, <1>7 DEF insert, Edit, Line!CanInsert, Line!is_full
    <2> QED
      BY <1>0, <2>1 DEF Follows
  <1>8. CASE n /= InputCap
    <2>1. PICK new : new = Line!InsertAt(text, cur + 1, c)
      OBVIOUS
    <2>2. /\ new \in Seq(Char) /\ Len(new) = n + 1
          /\ \A k \in 1..cur : new[k] = text[k]
          /\ new[cur + 1] = c
          /\ \A k \in cur + 2..n + 1 : new[k] = text[k - 1]
      <3>1. PICK i \in Nat : i = cur + 1
        OBVIOUS
      <3>2. i \in 1..Len(text) + 1
        BY <1>5, <1>6, <3>1
      <3>3. LET r == Line!InsertAt(text, i, c)
            IN  /\ r \in Seq(Char) /\ Len(r) = Len(text) + 1
                /\ \A k \in 1..i - 1 : r[k] = text[k]
                /\ r[i] = c
                /\ \A k \in i + 1..Len(text) + 1 : r[k] = text[k - 1]
        BY <3>2, Inserted
      <3>4. i - 1 = cur /\ i + 1 = cur + 2
        BY <3>1
      <3> QED
        BY <1>5, <2>1, <3>1, <3>3, <3>4
    <2>3. PICK w : w = SubSeq(new, cur + 1, Len(new))
      OBVIOUS
    <2>4. /\ w \in Seq(Char) /\ Len(w) = n - cur + 1
          /\ \A k \in 1..n - cur + 1 : w[k] = new[cur + k]
      <3>1. cur + 1 \in 1..n + 1 + 1 /\ n + 1 - (cur + 1) + 1 = n - cur + 1 /\ cur + 1 - 1 = cur
        BY <1>6
      <3>2. cur + 1 \in 1..Len(new) + 1
        BY <2>2, <3>1
      <3>3. /\ w \in Seq(Char) /\ Len(w) = Len(new) - (cur + 1) + 1
            /\ \A k \in 1..Len(new) - (cur + 1) + 1 : w[k] = new[cur + 1 - 1 + k]
        BY <2>2, <2>3, <3>2, FromProperties
      <3> QED
        BY <2>2, <3>1, <3>3
    <2>5. PICK strokes : strokes = w \o Times(BS, n - cur)
      OBVIOUS
    <2>6. PICK b \in Nat, m \in Nat : b = n - cur /\ m = n - cur + 1
      BY <1>6
    <2>7. Strokes(strokes, 0, w, m, b) /\ \A i \in 1..m : w[i] \in Shown
      BY <2>4, <2>5, <2>6, StrokesTail
    <2>8. Repaints(text, new, cur - 0, w, m)
      <3>1. \A i \in 1..m : cur + i <= n + 1
        BY <1>6, <2>6
      <3> QED
        BY <1>5, <1>6, <2>2, <2>4, <2>6, <3>1 DEF Repaints
    <2>9. Redraws(text, cur, new, cur + 1, strokes, w, 0, m, b)
      <3>1. /\ cur + 1 \in 0..n + 1 /\ n + 1 <= InputCap /\ 0 <= cur /\ b <= m
            /\ cur + 1 + b = cur - 0 + m
        BY <1>6, <1>8, <2>6, ColumnIs
      <3> QED
        BY <2>2, <2>7, <2>8, <3>1 DEF Redraws
    <2>10. insert(e, c) = Drawn(e, [text |-> new, cursor |-> cur + 1], strokes)
      <3>1. Line!CanInsert(e.line)
        BY <1>4, <1>5, <1>8 DEF Edit, Line!CanInsert, Line!is_full
      <3>2. Line!Insert(e.line, c) = [text |-> new, cursor |-> cur + 1]
        BY <1>4, <2>1 DEF Edit, Line!Insert
      <3>3. n + 1 - (cur + 1) = n - cur
        OBVIOUS
      <3>4. insert(e, c) = Drawn(e, Line!Insert(e.line, c),
              From(Line!Insert(e.line, c), Line!Insert(e.line, c).cursor)
                \o BackToCursor(Line!Insert(e.line, c)))
        BY <3>1 DEF insert
      <3>5. From([text |-> new, cursor |-> cur + 1], cur + 1) = w
        BY <2>3 DEF From
      <3>6. BackToCursor([text |-> new, cursor |-> cur + 1]) = Times(BS, n - cur)
        BY <2>2, <3>3 DEF BackToCursor
      <3> QED
        BY <2>5, <3>2, <3>4, <3>5, <3>6
    <2>11. cur + 1 \in Nat /\ 0 \in Nat
      OBVIOUS
    <2> QED
      BY <1>4, <2>2, <2>6, <2>9, <2>10, <2>11, DrawnFollows
  <1> QED
    BY <1>7, <1>8

LEMMA StrokesErase ==
  ASSUME NEW w \in Seq(Char), NEW b \in Nat
  PROVE  /\ Strokes(w \o <<Blank, BS>> \o Times(BS, b), 0, Append(w, Blank), Len(w) + 1, b + 1)
         /\ Strokes(<<BS>> \o w \o <<Blank, BS>> \o Times(BS, b),
                    1, Append(w, Blank), Len(w) + 1, b + 1)
         /\ \A i \in 1..Len(w) : Append(w, Blank)[i] = w[i]
         /\ Append(w, Blank)[Len(w) + 1] = Blank
         /\ \A i \in 1..Len(w) + 1 : Append(w, Blank)[i] \in Shown
  <1> DEFINE S == Shown \union {BS}
  <1>1. PICK m \in Nat : m = Len(w)
    BY LenProperties
  <1>2. PICK t, y, v : t = Times(BS, b) /\ y = <<Blank, BS>> /\ v = Append(w, Blank)
    OBVIOUS
  <1>3. t \in Seq(S) /\ Len(t) = b /\ \A i \in 1..b : t[i] = BS
    BY <1>2, TimesProperties
  <1>4. w \in Seq(S) /\ \A i \in 1..m : w[i] \in Shown /\ w[i] /= BS
    BY <1>1, ShownProperties, ElementOfSeq
  <1>5. BS \in S /\ Blank \in S /\ Blank \in Shown /\ Blank /= BS
    BY ShownProperties
  <1> HIDE DEF S
  <1>6. y \in Seq(S) /\ Len(y) = 2 /\ y[1] = Blank /\ y[2] = BS
    BY <1>2, <1>5
  <1>7. /\ Len(v) = m + 1 /\ \A i \in 1..m : v[i] = w[i]
        /\ v[m + 1] = Blank
    BY <1>1, <1>2, <1>4, <1>5, AppendProperties
  <1>8. \A i \in 1..m + 1 : v[i] \in Shown /\ v[i] /= BS
    <2>1. \A i \in 1..m + 1 : i \in 1..m \/ i = m + 1
      OBVIOUS
    <2> QED
      BY <1>4, <1>5, <1>7, <2>1
  <1>9. PICK x : x = <<BS>> \o w
    OBVIOUS
  <1>10. x \in Seq(S) /\ Len(x) = m + 1 /\ x[1] = BS /\ \A i \in 1..m : x[1 + i] = w[i]
    <2>1. PICK u : u = <<BS>>
      OBVIOUS
    <2>2. u \in Seq(S) /\ Len(u) = 1 /\ u[1] = BS
      BY <1>5, <2>1
    <2>3. /\ x \in Seq(S) /\ Len(x) = 1 + m
          /\ \A i \in 1..1 + m : x[i] = IF i <= 1 THEN u[i] ELSE w[i - 1]
      <3>1. /\ u \o w \in Seq(S) /\ Len(u \o w) = Len(u) + Len(w)
            /\ \A i \in 1..Len(u) + Len(w) :
                 (u \o w)[i] = IF i <= Len(u) THEN u[i] ELSE w[i - Len(u)]
        BY ONLY <1>4, <2>2, ConcatProperties
      <3> QED
        BY <1>1, <1>9, <2>1, <2>2, <3>1
    <2>4. \A i \in 1..m : 1 + i \in 1..1 + m /\ ~(1 + i <= 1) /\ 1 + i - 1 = i
      OBVIOUS
    <2>5. 1 \in 1..1 + m /\ 1 + m = m + 1
      OBVIOUS
    <2> QED
      BY <2>2, <2>3, <2>4, <2>5
  <1>11. ASSUME NEW a \in 0..1, NEW r \in Seq(S), Len(r) = a + m,
                \A i \in 1..a : r[i] = BS, \A i \in 1..m : r[a + i] = w[i],
                NEW s, s = r \o y \o t
         PROVE  Strokes(s, a, v, m + 1, b + 1)
    <2>1. /\ Len(s) = Len(r) + Len(y) + Len(t)
          /\ \A i \in 1..Len(r) : s[i] = r[i]
          /\ \A i \in 1..Len(y) : s[Len(r) + i] = y[i]
          /\ \A i \in 1..Len(t) : s[Len(r) + Len(y) + i] = t[i]
      <3>1. LET z == r \o y \o t
            IN  /\ z \in Seq(S) /\ Len(z) = Len(r) + Len(y) + Len(t)
                /\ \A i \in 1..Len(r) : z[i] = r[i]
                /\ \A i \in 1..Len(y) : z[Len(r) + i] = y[i]
                /\ \A i \in 1..Len(t) : z[Len(r) + Len(y) + i] = t[i]
        <4>1. r \in Seq(S) /\ y \in Seq(S) /\ t \in Seq(S)
          BY <1>3, <1>6
        <4> QED
          BY ONLY <4>1, ThreeParts
      <3> QED
        BY <1>11, <3>1
    <2>2. /\ Len(s) = a + m + 2 + b
          /\ \A i \in 1..a + m : s[i] = r[i]
          /\ s[a + m + 1] = Blank /\ s[a + m + 2] = BS
          /\ \A i \in 1..b : s[a + m + 2 + i] = BS
      <3>1. Len(s) = a + m + 2 + b
        BY <1>3, <1>6, <1>11, <2>1
      <3>2. \A i \in 1..a + m : s[i] = r[i]
        BY <1>11, <2>1
      <3>3. s[a + m + 1] = Blank /\ s[a + m + 2] = BS
        BY <1>6, <1>11, <2>1
      <3>4. \A i \in 1..b : s[a + m + 2 + i] = BS
        BY <1>3, <1>6, <1>11, <2>1
      <3> QED
        BY <3>1, <3>2, <3>3, <3>4
    <2>3. \A i \in 1..a : s[i] = BS
      BY <1>11, <2>2
    <2>4. ASSUME NEW i \in 1..m + 1 PROVE s[a + i] = v[i]
      <3>1. CASE i \in 1..m
        <4>1. a + i \in 1..a + m
          BY <3>1
        <4> QED
          BY <1>7, <1>11, <2>2, <3>1, <4>1
      <3>2. CASE i = m + 1
        <4>1. a + i = a + m + 1
          BY <3>2
        <4> QED
          BY <1>7, <2>2, <3>2, <4>1
      <3> QED
        BY <3>1, <3>2
    <2>5. ASSUME NEW i \in 1..b + 1 PROVE s[a + (m + 1) + i] = BS
      <3>1. CASE i = 1
        <4>1. a + (m + 1) + i = a + m + 2
          BY <3>1
        <4> QED
          BY <2>2, <4>1
      <3>2. CASE i /= 1
        <4>1. i - 1 \in 1..b /\ a + (m + 1) + i = a + m + 2 + (i - 1)
          BY <3>2
        <4> QED
          BY <2>2, <4>1
      <3> QED
        BY <3>1, <3>2
    <2>6. /\ Len(s) = a + (m + 1) + (b + 1) /\ a \in Nat /\ m + 1 \in Nat /\ b + 1 \in Nat
      BY <2>2
    <2> QED
      BY <1>8, <2>3, <2>4, <2>5, <2>6 DEF Strokes
  <1>12. Strokes(w \o y \o t, 0, v, m + 1, b + 1)
    <2>1. \A i \in 1..0 : FALSE
      OBVIOUS
    <2>2. Len(w) = 0 + m /\ (\A i \in 1..m : w[0 + i] = w[i]) /\ 0 \in 0..1
      BY <1>1
    <2> QED
      BY <1>4, <1>11, <2>1, <2>2
  <1>13. Strokes(x \o y \o t, 1, v, m + 1, b + 1)
    <2>1. \A i \in 1..1 : i = 1
      OBVIOUS
    <2>2. Len(x) = 1 + m /\ 1 \in 0..1
      BY <1>10
    <2> QED
      BY <1>10, <1>11, <2>1, <2>2
  <1> QED
    BY <1>1, <1>2, <1>7, <1>8, <1>9, <1>12, <1>13

\* The line without the character after place p, and what of it is printed.
Erased(text, p) == Line!RemoveAt(text, p + 1)
Rest(text, p) == SubSeq(Erased(text, p), p + 1, Len(Erased(text, p)))

\* What the two ways of erasing a character have in common.
LEMMA EraseRedraws ==
  ASSUME NEW text \in Seq(Char), Len(text) <= InputCap, NEW p \in Nat, p < Len(text)
  PROVE  LET new == Erased(text, p)
             m == Len(text) - p
             tail == Times(BS, Len(new) - p)
             w == Append(Rest(text, p), Blank)
         IN  /\ new \in Seq(Char) /\ m \in Nat
             /\ Redraws(text, p, new, p, Rest(text, p) \o <<Blank, BS>> \o tail, w, 0, m, m)
             /\ Redraws(text, p + 1, new, p,
                        <<BS>> \o Rest(text, p) \o <<Blank, BS>> \o tail, w, 1, m, m)
  <1>1. PICK n \in Nat : n = Len(text)
    BY LenProperties
  <1>2. PICK m \in Nat : m = n - p
    <2>1. n - p \in Nat
      BY <1>1
    <2> QED
      BY <2>1
  <1>3. PICK new : new = Erased(text, p)
    OBVIOUS
  <1>4. /\ new \in Seq(Char) /\ Len(new) = n - 1
        /\ \A k \in 1..n - 1 : new[k] = IF k < p + 1 THEN text[k] ELSE text[k + 1]
    <2>1. PICK i \in Nat : i = p + 1
      OBVIOUS
    <2>2. i \in 1..Len(text)
      BY <1>1, <2>1
    <2>3. LET r == Line!RemoveAt(text, i)
          IN  /\ r \in Seq(Char) /\ Len(r) = Len(text) - 1
              /\ \A k \in 1..Len(text) - 1 : r[k] = IF k < i THEN text[k] ELSE text[k + 1]
      BY <2>2, Removed
    <2> QED
      BY <1>1, <1>3, <2>1, <2>3 DEF Erased
  <1>5. PICK rest : rest = Rest(text, p)
    OBVIOUS
  <1>6. /\ rest \in Seq(Char) /\ Len(rest) = m - 1
        /\ \A k \in 1..m - 1 : rest[k] = new[p + k]
    <2>1. PICK i \in Nat : i = p + 1
      OBVIOUS
    <2>2. i \in 1..Len(new) + 1 /\ n - 1 - i + 1 = m - 1 /\ i - 1 = p
      BY <1>1, <1>2, <1>4, <2>1
    <2>3. /\ SubSeq(new, i, Len(new)) \in Seq(Char)
          /\ Len(SubSeq(new, i, Len(new))) = Len(new) - i + 1
          /\ \A k \in 1..Len(new) - i + 1 : SubSeq(new, i, Len(new))[k] = new[i - 1 + k]
      BY <1>4, <2>2, FromProperties
    <2>4. rest = SubSeq(new, i, Len(new))
      BY <1>3, <1>5, <2>1 DEF Rest
    <2> QED
      BY <1>4, <2>2, <2>3, <2>4
  <1>7. PICK w, b : w = Append(rest, Blank) /\ b = Len(new) - p
    OBVIOUS
  <1>8. b = m - 1 /\ b \in Nat /\ m - 1 + 1 = m
    BY <1>1, <1>2, <1>4, <1>7
  <1>9. PICK s0, s1 : /\ s0 = rest \o <<Blank, BS>> \o Times(BS, b)
                      /\ s1 = <<BS>> \o rest \o <<Blank, BS>> \o Times(BS, b)
    OBVIOUS
  <1>10. /\ Strokes(s0, 0, w, m, m) /\ Strokes(s1, 1, w, m, m)
         /\ \A i \in 1..m - 1 : w[i] = rest[i]
         /\ w[m] = Blank
         /\ \A i \in 1..m : w[i] \in Shown
    <2>1. b \in Nat /\ rest \in Seq(Char)
      BY <1>6, <1>8
    <2>2. /\ Strokes(s0, 0, w, Len(rest) + 1, b + 1) /\ Strokes(s1, 1, w, Len(rest) + 1, b + 1)
          /\ \A i \in 1..Len(rest) : w[i] = rest[i]
          /\ w[Len(rest) + 1] = Blank
          /\ \A i \in 1..Len(rest) + 1 : w[i] \in Shown
      BY <1>7, <1>9, <2>1, StrokesErase, ZenonT(30)
    <2>3. Len(rest) = m - 1 /\ Len(rest) + 1 = m /\ b + 1 = m
      BY <1>6, <1>8
    <2> QED
      BY <2>2, <2>3
  <1>11. Repaints(text, new, p, w, m)
    <2>1. \A i \in 1..p : i \in 1..n - 1 /\ i < p + 1
      BY <1>1
    <2>2. \A i \in 1..p : text[i] = new[i]
      BY <1>4, <2>1
    <2>3. ASSUME NEW i \in 1..m PROVE w[i] = IF p + i <= n - 1 THEN new[p + i] ELSE Blank
      <3>1. p + i <= n - 1 <=> i \in 1..m - 1
        BY <1>1, <1>2
      <3>2. i \in 1..m - 1 \/ i = m
        OBVIOUS
      <3> QED
        BY <1>6, <1>10, <3>1, <3>2
    <2>4. p <= n /\ p <= n - 1 /\ n <= p + m /\ n - 1 <= p + m
      BY <1>1, <1>2
    <2> QED
      BY <1>1, <1>4, <2>2, <2>3, <2>4 DEF Repaints
  <1>12. ASSUME NEW a \in 0..1, NEW s, Strokes(s, a, w, m, m)
         PROVE  Redraws(text, p + a, new, p, s, w, a, m, m)
    <2>1. /\ n - 1 <= InputCap /\ p \in 0..n - 1 /\ a <= p + a /\ p + a - a = p
          /\ m <= m /\ p + m = p + a - a + m
      BY <1>1, <1>2, ColumnIs
    <2> QED
      BY <1>4, <1>10, <1>11, <1>12, <2>1 DEF Redraws
  <1>13. /\ Redraws(text, p + 0, new, p, s0, w, 0, m, m)
         /\ Redraws(text, p + 1, new, p, s1, w, 1, m, m)
    <2>1. 0 \in 0..1 /\ 1 \in 0..1
      OBVIOUS
    <2> QED
      BY <1>10, <1>12, <2>1
  <1>14. p + 0 = p
    OBVIOUS
  <1> QED
    BY <1>1, <1>2, <1>3, <1>4, <1>5, <1>7, <1>9, <1>13, <1>14, Zenon

\* The delete key.
LEMMA DeleteFollows ==
  ASSUME NEW text \in Seq(Char), NEW cur \in Nat, NEW row \in Row, NEW col \in Nat,
         NEW e, Editing(e, text, cur, row, col)
  PROVE  Follows(e, delete_char(e))
  <1>1. e = Edit(text, cur, row, col) /\ Proper(text, cur, row, col)
    BY DEF Editing
  <1>2. Good(e)
    BY DEF Good
  <1>3. PICK n \in Nat : n = Len(text)
    BY LenProperties
  <1>4. cur <= n /\ n <= InputCap
    BY <1>1, <1>3 DEF Proper
  <1>5. CASE cur = n
    <2>1. delete_char(e) = e
      BY <1>1, <1>3, <1>5 DEF delete_char, Edit, Line!CanDelete, Line!is_cursor_on_end
    <2> QED
      BY <1>2, <2>1 DEF Follows
  <1>6. CASE cur /= n
    <2>1. PICK new, m, w, s :
             /\ new = Erased(text, cur) /\ m = Len(text) - cur /\ w = Append(Rest(text, cur), Blank)
             /\ s = Rest(text, cur) \o <<Blank, BS>> \o Times(BS, Len(new) - cur)
      OBVIOUS
    <2>2. cur < Len(text) /\ Len(text) <= InputCap
      BY <1>3, <1>4, <1>6
    <2>3. new \in Seq(Char) /\ m \in Nat /\ Redraws(text, cur, new, cur, s, w, 0, m, m)
      BY <2>1, <2>2, EraseRedraws, ZenonT(30)
    <2>4. delete_char(e) = Drawn(e, [text |-> new, cursor |-> cur], s)
      <3>1. Line!CanDelete(e.line)
        BY <1>1, <1>3, <1>6 DEF Edit, Line!CanDelete, Line!is_cursor_on_end
      <3>2. Line!Delete(e.line) = [text |-> new, cursor |-> cur]
        BY <1>1, <2>1 DEF Edit, Line!Delete, Erased
      <3>3. From([text |-> new, cursor |-> cur], cur + 1) = Rest(text, cur)
        BY <2>1 DEF From, Rest
      <3>4. BackToCursor([text |-> new, cursor |-> cur]) = Times(BS, Len(new) - cur)
        BY DEF BackToCursor
      <3>5. delete_char(e) = Drawn(e, Line!Delete(e.line),
              From(Line!Delete(e.line), Line!Delete(e.line).cursor + 1)
                \o <<Blank, BS>> \o BackToCursor(Line!Delete(e.line)))
        BY <3>1 DEF delete_char
      <3> QED
        BY <2>1, <3>2, <3>3, <3>4, <3>5
    <2>5. 0 \in Nat
      OBVIOUS
    <2> QED
      BY <1>1, <2>3, <2>4, <2>5, DrawnFollows
  <1> QED
    BY <1>5, <1>6

\* The backspace key.
LEMMA BackspaceFollows ==
  ASSUME NEW text \in Seq(Char), NEW cur \in Nat, NEW row \in Row, NEW col \in Nat,
         NEW e, Editing(e, text, cur, row, col)
  PROVE  Follows(e, backspace_char(e))
  <1>1. e = Edit(text, cur, row, col) /\ Proper(text, cur, row, col)
    BY DEF Editing
  <1>2. Good(e)
    BY DEF Good
  <1>3. PICK n \in Nat : n = Len(text)
    BY LenProperties
  <1>4. cur <= n /\ n <= InputCap
    BY <1>1, <1>3 DEF Proper
  <1>5. CASE cur = 0
    <2>1. backspace_char(e) = e
      BY <1>1, <1>5 DEF backspace_char, Edit, Line!CanBackspace, Line!is_cursor_on_base
    <2> QED
      BY <1>2, <2>1 DEF Follows
  <1>6. CASE cur /= 0
    <2>0. PICK p \in Nat : cur = p + 1
      <3>1. cur - 1 \in Nat /\ cur = cur - 1 + 1
        BY <1>6
      <3> QED
        BY <3>1
    <2>1. PICK new, m, w, s :
             /\ new = Erased(text, p) /\ m = Len(text) - p /\ w = Append(Rest(text, p), Blank)
             /\ s = <<BS>> \o Rest(text, p) \o <<Blank, BS>> \o Times(BS, Len(new) - p)
      OBVIOUS
    <2>2. p < Len(text) /\ Len(text) <= InputCap
      BY <1>3, <1>4, <2>0
    <2>3. new \in Seq(Char) /\ m \in Nat /\ Redraws(text, p + 1, new, p, s, w, 1, m, m)
      BY <2>1, <2>2, EraseRedraws, ZenonT(30)
    <2>4. backspace_char(e) = Drawn(e, [text |-> new, cursor |-> p], s)
      <3>1. Line!CanBackspace(e.line) /\ cur - 1 = p
        BY <1>1, <1>6, <2>0 DEF Edit, Line!CanBackspace, Line!is_cursor_on_base
      <3>2. Line!Backspace(e.line) = [text |-> new, cursor |-> p]
        BY <1>1, <2>0, <2>1, <3>1 DEF Edit, Line!Backspace, Erased
      <3>3. From([text |-> new, cursor |-> p], p + 1) = Rest(text, p)
        BY <2>1 DEF From, Rest
      <3>4. BackToCursor([text |-> new, cursor |-> p]) = Times(BS, Len(new) - p)
        BY DEF BackToCursor
      <3>5. backspace_char(e) = Drawn(e, Line!Backspace(e.line),
              <<BS>> \o From(Line!Backspace(e.line), Line!Backspace(e.line).cursor + 1)
                \o <<Blank, BS>> \o BackToCursor(Line!Backspace(e.line)))
        BY <3>1 DEF backspace_char
      <3> QED
        BY <2>1, <3>2, <3>3, <3>4, <3>5
    <2>5. 1 \in Nat
      OBVIOUS
    <2>6. Redraws(text, cur, new, p, s, w, 1, m, m)
      BY <2>0, <2>3
    <2> QED
      BY <1>1, <2>3, <2>4, <2>5, <2>6, DrawnFollows
  <1> QED
    BY <1>5, <1>6

\* The keys that only move the cursor.
LEMMA StrokesMove ==
  /\ Strokes(<<BS>>, 1, <<>>, 0, 0)
  /\ \A n \in Nat : Strokes(Times(BS, n), n, <<>>, 0, 0)
  /\ \A c \in Char : Strokes(<<c>>, 0, <<c>>, 1, 0) /\ <<c>>[1] \in Shown
  <1>0. \A i \in 1..0 : FALSE
    OBVIOUS
  <1>1. Strokes(<<BS>>, 1, <<>>, 0, 0)
    <2>1. Len(<<BS>>) = 1 /\ \A i \in 1..1 : <<BS>>[i] = BS
      OBVIOUS
    <2> QED
      BY <1>0, <2>1 DEF Strokes
  <1>2. ASSUME NEW n \in Nat PROVE Strokes(Times(BS, n), n, <<>>, 0, 0)
    <2>1. Len(Times(BS, n)) = n /\ \A i \in 1..n : Times(BS, n)[i] = BS
      BY TimesProperties
    <2>2. n + 0 + 0 = n
      OBVIOUS
    <2> QED
      BY <1>0, <2>1, <2>2 DEF Strokes
  <1>3. ASSUME NEW c \in Char PROVE Strokes(<<c>>, 0, <<c>>, 1, 0) /\ <<c>>[1] \in Shown
    <2>1. Len(<<c>>) = 1 /\ <<c>>[1] = c /\ \A i \in 1..1 : i = 1 /\ 0 + i = 1
      OBVIOUS
    <2>2. c \in Shown /\ c /= BS
      BY ShownProperties
    <2> QED
      BY <1>0, <2>1, <2>2 DEF Strokes
  <1> QED
    BY <1>1, <1>2, <1>3

LEMMA MoveRedraws ==
  ASSUME NEW text \in Seq(Char), Len(text) <= InputCap, NEW cur \in Nat, cur <= Len(text),
         NEW a \in Nat, a <= cur, NEW strokes, Strokes(strokes, a, <<>>, 0, 0)
  PROVE  Redraws(text, cur, text, cur - a, strokes, <<>>, a, 0, 0)
  <1>1. Len(text) \in Nat
    BY LenProperties
  <1>2. \A i \in 1..0 : FALSE
    OBVIOUS
  <1>3. Repaints(text, text, cur - a, <<>>, 0)
    BY <1>1, <1>2 DEF Repaints
  <1>4. cur - a \in 0..Len(text) /\ cur - a + 0 = cur - a + 0 /\ 0 <= 0
    BY <1>1
  <1> QED
    BY <1>2, <1>3, <1>4 DEF Redraws

LEMMA MoveFollows ==
  ASSUME NEW text \in Seq(Char), NEW cur \in Nat, NEW row \in Row, NEW col \in Nat,
         NEW e, Editing(e, text, cur, row, col)
  PROVE  /\ Follows(e, on_arrow_left_key(e))
         /\ Follows(e, on_arrow_right_key(e))
         /\ Follows(e, on_home_key(e))
  <1>1. e = Edit(text, cur, row, col) /\ Proper(text, cur, row, col)
    BY DEF Editing
  <1>2. Follows(e, e)
    BY DEF Good, Follows
  <1>3. PICK n \in Nat : n = Len(text)
    BY LenProperties
  <1>4. cur <= n /\ n <= InputCap /\ 0 \in Nat /\ 1 \in Nat
    BY <1>1, <1>3 DEF Proper
  <1>5. Follows(e, on_arrow_left_key(e))
    <2>1. CASE cur = 0
      <3>1. on_arrow_left_key(e) = e
        BY <1>1, <2>1 DEF on_arrow_left_key, Edit, Line!CanStepLeft, Line!is_cursor_on_base
      <3> QED
        BY <1>2, <3>1
    <2>2. CASE cur /= 0
      <3>1. cur - 1 \in Nat /\ 1 <= cur /\ cur <= Len(text) /\ Len(text) <= InputCap
        BY <1>3, <1>4, <2>2
      <3>2. Redraws(text, cur, text, cur - 1, <<BS>>, <<>>, 1, 0, 0)
        BY <1>4, <3>1, StrokesMove, MoveRedraws
      <3>3. on_arrow_left_key(e) = Drawn(e, [text |-> text, cursor |-> cur - 1], <<BS>>)
        BY <1>1, <2>2 DEF on_arrow_left_key, Edit, Line!CanStepLeft, Line!is_cursor_on_base,
                          Line!StepLeft
      <3> QED
        BY <1>1, <1>4, <3>1, <3>2, <3>3, DrawnFollows
    <2> QED
      BY <2>1, <2>2
  <1>6. Follows(e, on_arrow_right_key(e))
    <2>1. CASE ~Line!CanStepRight(e.line)
      <3>1. on_arrow_right_key(e) = e
        BY <2>1 DEF on_arrow_right_key
      <3> QED
        BY <1>2, <3>1
    <2>2. CASE Line!CanStepRight(e.line)
      <3>1. cur /= n
        BY <1>1, <1>3, <2>2 DEF Edit, Line!CanStepRight, Line!is_cursor_on_end
      <3>2. cur + 1 \in 1..Len(text) /\ cur + 1 \in Nat
        BY <1>3, <1>4, <3>1
      <3>3. PICK c \in Char : c = text[cur + 1]
        BY <3>2, ElementOfSeq
      <3>4. Strokes(<<c>>, 0, <<c>>, 1, 0) /\ <<c>>[1] \in Shown /\ <<c>>[1] = c
        BY StrokesMove
      <3>5. \A i \in 1..1 : i = 1
        OBVIOUS
      <3>6. Repaints(text, text, cur - 0, <<c>>, 1)
        BY <1>3, <1>4, <3>2, <3>3, <3>4, <3>5 DEF Repaints
      <3>7. Redraws(text, cur, text, cur + 1, <<c>>, <<c>>, 0, 1, 0)
        <4>1. /\ cur + 1 \in 0..Len(text) /\ Len(text) <= InputCap /\ 0 <= cur /\ 0 <= 1
              /\ cur + 1 + 0 = cur - 0 + 1
          BY <1>3, <1>4, <3>2
        <4> QED
          BY <3>4, <3>5, <3>6, <4>1 DEF Redraws
      <3>8. on_arrow_right_key(e) = Drawn(e, [text |-> text, cursor |-> cur + 1], <<c>>)
        BY <1>1, <2>2, <3>3 DEF on_arrow_right_key, Edit, Line!StepRight
      <3> QED
        BY <1>1, <1>4, <3>2, <3>7, <3>8, DrawnFollows
    <2> QED
      BY <2>1, <2>2
  <1>7. Follows(e, on_home_key(e))
    <2>1. Redraws(text, cur, text, cur - cur, Times(BS, cur), <<>>, cur, 0, 0)
      BY <1>3, <1>4, StrokesMove, MoveRedraws
    <2>2. cur - cur = 0
      OBVIOUS
    <2>3. on_home_key(e) = Drawn(e, [text |-> text, cursor |-> 0], Times(BS, cur))
      BY <1>1 DEF on_home_key, Edit
    <2>4. Redraws(text, cur, text, 0, Times(BS, cur), <<>>, cur, 0, 0)
      BY <2>1, <2>2
    <2> QED
      BY <1>1, <1>4, <2>3, <2>4, DrawnFollows
  <1> QED
    BY <1>5, <1>6, <1>7

\* Every key that edits the line, whatever the line and the screen.
LEMMA EditsFollow ==
  ASSUME NEW e, Good(e)
  PROVE  /\ Follows(e, delete_char(e)) /\ Follows(e, backspace_char(e))
         /\ Follows(e, on_arrow_left_key(e)) /\ Follows(e, on_arrow_right_key(e))
         /\ Follows(e, on_home_key(e))
         /\ \A c \in Char : Follows(e, insert(e, c))
  <1>1. PICK text \in Seq(Char) : \E cur \in Nat : \E row \in Row : \E col \in Nat :
          Editing(e, text, cur, row, col)
    BY DEF Good
  <1>2. PICK cur \in Nat : \E row \in Row : \E col \in Nat : Editing(e, text, cur, row, col)
    BY <1>1
  <1>3. PICK row \in Row : \E col \in Nat : Editing(e, text, cur, row, col)
    BY <1>2
  <1>4. PICK col \in Nat : Editing(e, text, cur, row, col)
    BY <1>3
  <1> QED
    BY <1>4, DeleteFollows, BackspaceFollows, MoveFollows, InsertFollows

(***************************************************************************)
(* Replacing the line                                                      *)
(***************************************************************************)
\* An empty line, and an empty row if the line was shown with its cursor at
\* the end.
LEMMA ClearEmpties ==
  ASSUME NEW text \in Seq(Char), NEW cur \in Nat, NEW row \in Row, NEW col \in Nat,
         NEW e, Editing(e, text, cur, row, col)
  PROVE  \E row2 \in Row : \E col2 \in Nat :
           /\ Editing(clear_input(e), <<>>, 0, row2, col2)
           /\ Shows(e) /\ cur = Len(text) => Synced(<<>>, 0, row2, col2)
  <1>1. e = Edit(text, cur, row, col) /\ Proper(text, cur, row, col)
    BY DEF Editing
  <1>2. PICK n \in Nat : n = Len(text)
    BY LenProperties
  <1>3. cur <= n /\ n <= InputCap /\ col <= Prompt + cur
    BY <1>1, <1>2, ColumnIs DEF Proper
  <1>4. PICK b : b = Times(Blank, n)
    OBVIOUS
  <1>5. /\ b \in Seq(Shown \union {BS}) /\ Len(b) = n /\ \A i \in 1..n : b[i] = Blank
        /\ Blank \in Shown /\ Blank /= BS
    BY <1>4, TimesProperties, ShownProperties
  <1>6. PICK t : t = Times(BS, n)
    OBVIOUS
  <1>7. t \in Seq(Shown \union {BS}) /\ Len(t) = n /\ \A i \in 1..n : t[i] = BS
    BY <1>6, TimesProperties
  <1>8. PICK s : s = t \o b \o t
    OBVIOUS
  <1>9. Strokes(s, n, b, n, n)
    <2>1. b \in Seq(Shown \union {BS}) /\ t \in Seq(Shown \union {BS})
      BY <1>5, <1>7
    <2>2. LET z == t \o b \o t
          IN  /\ z \in Seq(Shown \union {BS}) /\ Len(z) = Len(t) + Len(b) + Len(t)
              /\ \A i \in 1..Len(t) : z[i] = t[i]
              /\ \A i \in 1..Len(b) : z[Len(t) + i] = b[i]
              /\ \A i \in 1..Len(t) : z[Len(t) + Len(b) + i] = t[i]
      BY ONLY <2>1, ThreeParts
    <2>3. /\ Len(s) = n + n + n
          /\ \A i \in 1..n : s[i] = t[i] /\ s[n + i] = b[i] /\ s[n + n + i] = t[i]
      BY <1>5, <1>7, <1>8, <2>2
    <2> QED
      BY <1>5, <1>7, <2>3 DEF Strokes
  <1>10. PICK from \in Nat : from = Back(col, n)
    <2>1. Back(col, n) \in Nat
      BY DEF Back
    <2> QED
      BY <2>1
  <1>11. from <= Prompt
    BY <1>3, <1>10, ColumnIs DEF Back
  <1>12. PICK row2 : row2 = Over(row, from, b, n)
    OBVIOUS
  <1>13. row2 \in Row
    BY <1>5, <1>12, OverRow
  <1>14. clear_input(e) = Edit(<<>>, 0, row2, from)
    <2>1. clear_input(e) = Drawn(e, [text |-> <<>>, cursor |-> 0], s)
      BY <1>1, <1>2, <1>4, <1>6, <1>8 DEF clear_input, Edit, Line!Empty
    <2>2. n <= Back(col, n) + n /\ from + n - n = from
      BY <1>10
    <2>3. Drawn(Edit(text, cur, row, col), [text |-> <<>>, cursor |-> 0], s)
            = Edit(<<>>, 0, Over(row, Back(col, n), b, n), Back(col, n) + n - n)
      <3>1. print(Terminal(row, col), s)
              = Terminal(Over(row, Back(col, n), b, n), Back(col, n) + n - n)
        BY <1>9, <2>2, PrintStrokes
      <3> QED
        BY <3>1 DEF Drawn, Edit
    <2> QED
      BY <1>1, <1>10, <1>12, <2>1, <2>2, <2>3
  <1>15. <<>> \in Seq(Char) /\ Len(<<>>) = 0
    OBVIOUS
  <1>16. Editing(clear_input(e), <<>>, 0, row2, from)
    BY <1>11, <1>13, <1>14, <1>15, ColumnIs DEF Editing, Proper
  <1>17. ASSUME Shows(e), cur = Len(text) PROVE Synced(<<>>, 0, row2, from)
    <2>1. row = Cells(text) /\ col = Prompt + cur
      BY <1>1, <1>17, ShowsSynced DEF Synced
    <2>2. from = Prompt /\ Prompt + 0 = Prompt
      BY <1>2, <1>10, <1>17, <2>1, ColumnIs DEF Back
    <2>3. Repaints(text, <<>>, 0, b, n)
      <3>1. \A i \in 1..n : ~(0 + i <= 0)
        OBVIOUS
      <3>2. \A i \in 1..0 : FALSE
        OBVIOUS
      <3> QED
        BY <1>2, <1>5, <1>15, <3>1, <3>2 DEF Repaints
    <2>4. Over(Cells(text), Prompt + 0, b, n) = Cells(<<>>)
      <3>1. ASSUME NEW new \in Seq(Char), NEW p, Repaints(text, new, p, b, n)
            PROVE  Over(Cells(text), Prompt + p, b, n) = Cells(new)
        BY <3>1, Repaint
      <3> QED
        BY <1>15, <2>3, <3>1, Zenon
    <2> QED
      BY <1>12, <2>1, <2>2, <2>4 DEF Synced
  <1> QED
    BY <1>13, <1>16, <1>17

\* The equation of the recursive function in Typed.
Typing(e, text, typed, i) == IF i = 0 THEN e ELSE insert(typed[i - 1], text[i])

LEMMA TypedDef ==
  \A e, text : Typed(e, text) =
    (CHOOSE typed : typed = [i \in 0..Len(text) |-> Typing(e, text, typed, i)])[Len(text)]
  BY Zenon DEF Typed, Typing

\* A function that inserts the characters one after the other gives the result.
Types(f, e, text, n) == f[0] = e /\ \A i \in 1..n : f[i] = insert(f[i - 1], text[i])

LEMMA TypedIs ==
  ASSUME NEW e, NEW text, NEW n \in Nat, Len(text) = n, NEW p, Types(p, e, text, n)
  PROVE  Typed(e, text) = p[n]
  <1> DEFINE w == [i \in 0..n |-> p[i]]
             f == CHOOSE typed : typed = [i \in 0..n |-> Typing(e, text, typed, i)]
  <1>1. \A i \in 0..n : w[i] = p[i]
    OBVIOUS
  <1>0. w = [i \in 0..n |-> w[i]]
    OBVIOUS
  <1> HIDE DEF w
  <1>2. ASSUME NEW i \in 1..n, NEW typed, typed[i - 1] = w[i - 1]
        PROVE  Typing(e, text, typed, i) = w[i]
    <2>1. i - 1 \in 0..n /\ i \in 0..n /\ i /= 0
      OBVIOUS
    <2>2. p[i] = insert(p[i - 1], text[i])
      BY DEF Types
    <2> QED
      BY <1>1, <1>2, <2>1, <2>2 DEF Typing
  <1>3. \A typed : Typing(e, text, typed, 0) = w[0]
    BY <1>1 DEF Typing, Types
  <1>4. w = [i \in 0..n |-> Typing(e, text, w, i)]
    <2>1. ASSUME NEW i \in 0..n PROVE w[i] = Typing(e, text, w, i)
      <3>1. i = 0 \/ i \in 1..n
        OBVIOUS
      <3> QED
        BY <1>2, <1>3, <3>1
    <2> QED
      BY <1>0, <2>1
  <1>5. f = [i \in 0..n |-> Typing(e, text, f, i)]
    BY <1>4
  <1> HIDE DEF f
  <1>6. \A i \in 0..n : f[i] = Typing(e, text, f, i)
    BY <1>5
  <1>7. Alike(f, w, n)
    BY <1>2, <1>3, <1>6 DEF Alike
  <1>8. f[n] = p[n]
    BY <1>1, <1>7, SameFunction
  <1>9. Typed(e, text) = f[n]
    BY TypedDef DEF f
  <1> QED
    BY <1>8, <1>9

\* A character typed at the end of a line that was typed from an empty one.
LEMMA TypeLast ==
  ASSUME NEW text \in Seq(Char), Len(text) <= InputCap, NEW row \in Row, NEW col \in Nat,
         NEW i \in 1..Len(text)
  PROVE  insert(Edit(SubSeq(text, 1, i - 1), i - 1,
                     Over(row, col, text, i - 1), col + (i - 1)), text[i])
           = Edit(SubSeq(text, 1, i), i, Over(row, col, text, i), col + i)
  <1>1. PICK n \in Nat : n = Len(text)
    BY LenProperties
  <1>2. PICK k \in Nat : k = i - 1
    <2>1. i - 1 \in Nat
      OBVIOUS
    <2> QED
      BY <2>1
  <1>3. i = k + 1 /\ i \in Nat /\ k < n /\ i <= n /\ n <= InputCap
    BY <1>1, <1>2
  <1>4. PICK c \in Char : c = text[i]
    BY ElementOfSeq
  <1>5. ASSUME NEW j \in 0..n
        PROVE  /\ SubSeq(text, 1, j) \in Seq(Char) /\ Len(SubSeq(text, 1, j)) = j
               /\ \A x \in 1..j : SubSeq(text, 1, j)[x] = text[x]
    <2>1. \A x \in 1..j : text[x] \in Char
      <3>1. \A x \in 1..j : x \in 1..Len(text)
        BY <1>1
      <3> QED
        BY <3>1, ElementOfSeq
    <2>2. /\ SubSeq(text, 1, j) \in Seq(Char)
          /\ Len(SubSeq(text, 1, j)) = IF 1 <= j THEN j - 1 + 1 ELSE 0
          /\ \A x \in 1..j - 1 + 1 : SubSeq(text, 1, j)[x] = text[1 + x - 1]
      <3>1. 1 \in Int /\ j \in Int
        OBVIOUS
      <3> QED
        BY <2>1, <3>1, SubSeqProperties
    <2>3. j - 1 + 1 = j /\ \A x \in 1..j : 1 + x - 1 = x
      OBVIOUS
    <2> QED
      BY <2>2, <2>3
  <1>6. PICK a, b : a = SubSeq(text, 1, k) /\ b = SubSeq(text, 1, i)
    OBVIOUS
  <1>7. /\ a \in Seq(Char) /\ Len(a) = k /\ \A x \in 1..k : a[x] = text[x]
        /\ b \in Seq(Char) /\ Len(b) = i /\ \A x \in 1..i : b[x] = text[x]
    <2>1. k \in 0..n /\ i \in 0..n
      BY <1>3
    <2> QED
      BY <1>5, <1>6, <2>1
  <1>8. Line!InsertAt(a, k + 1, c) = b
    <2>1. PICK r : r = Line!InsertAt(a, i, c)
      OBVIOUS
    <2>2. i \in 1..Len(a) + 1
      BY <1>3, <1>7
    <2>3. LET q == Line!InsertAt(a, i, c)
          IN  /\ q \in Seq(Char) /\ Len(q) = Len(a) + 1
              /\ \A x \in 1..i - 1 : q[x] = a[x]
              /\ q[i] = c
              /\ \A x \in i + 1..Len(a) + 1 : q[x] = a[x - 1]
      BY <1>7, <2>2, Inserted
    <2>4. r \in Seq(Char) /\ Len(r) = i /\ (\A x \in 1..k : r[x] = a[x]) /\ r[i] = c
      BY <1>2, <1>3, <1>7, <2>1, <2>3
    <2>5. ASSUME NEW x \in 1..i PROVE r[x] = b[x]
      <3>1. x \in 1..k \/ x = i
        BY <1>3
      <3> QED
        BY <1>4, <1>7, <2>4, <3>1
    <2>6. r = b
      BY <1>7, <2>4, <2>5, SeqEqual
    <2> QED
      BY <1>3, <2>1, <2>6
  <1>9. PICK s : s = SubSeq(b, i, Len(b)) \o Times(BS, i - i)
    OBVIOUS
  <1>10. SubSeq(b, i, Len(b)) = <<c>>
    <2>1. i \in 1..Len(b) + 1 /\ Len(b) - i + 1 = 1 /\ i - 1 + 1 = i /\ 1 \in 1..1
      BY <1>7
    <2>2. PICK q : q = SubSeq(b, i, Len(b))
      OBVIOUS
    <2>3. q \in Seq(Char) /\ Len(q) = 1 /\ q[1] = b[i]
      BY <1>7, <2>1, <2>2, FromProperties
    <2>4. b[i] = c
      BY <1>4, <1>7
    <2>5. <<c>> \in Seq(Char) /\ Len(<<c>>) = 1 /\ <<c>>[1] = c /\ \A x \in 1..1 : x = 1
      OBVIOUS
    <2>6. q = <<c>>
      BY <2>3, <2>4, <2>5, SeqEqual
    <2> QED
      BY <2>2, <2>6
  <1>11. Strokes(s, 0, <<c>>, 1, 0)
    <2>1. i - i = 0 /\ <<c>> \in Seq(Char) /\ Len(<<c>>) = 1 /\ 0 \in Nat
      OBVIOUS
    <2>2. Strokes(<<c>> \o Times(BS, 0), 0, <<c>>, Len(<<c>>), 0)
      BY <2>1, StrokesTail
    <2> QED
      BY <1>9, <1>10, <2>1, <2>2
  <1>12. PICK row1 : row1 = Over(row, col, text, k)
    OBVIOUS
  <1>13. row1 \in Row
    <2>1. \A x \in 1..k : text[x] \in Shown
      <3>1. \A x \in 1..k : x \in 1..Len(text)
        BY <1>1, <1>3
      <3> QED
        BY <3>1, ElementOfSeq, ShownProperties
    <2> QED
      BY <1>12, <2>1, OverRow
  <1>14. Over(row1, col + k, <<c>>, 1) = Over(row, col, text, i)
    <2>1. ASSUME NEW x \in Column
          PROVE  Over(row1, col + k, <<c>>, 1)[x] = Over(row, col, text, i)[x]
      <3>1. Over(row1, col + k, <<c>>, 1)[x]
              = IF col + k <= x /\ x < col + k + 1 THEN <<c>>[x - (col + k) + 1] ELSE row1[x]
        BY DEF Over
      <3>2. row1[x] = IF col <= x /\ x < col + k THEN text[x - col + 1] ELSE row[x]
        BY <1>12 DEF Over
      <3>3. Over(row, col, text, i)[x]
              = IF col <= x /\ x < col + i THEN text[x - col + 1] ELSE row[x]
        BY DEF Over
      <3>4. x \in Int
        BY ColumnIs
      <3>5. CASE x = col + k
        <4>1. x - (col + k) + 1 = 1 /\ x - col + 1 = i /\ col + k <= x /\ x < col + k + 1
              /\ col <= x /\ x < col + i
          BY <1>3, <3>4, <3>5
        <4>2. <<c>>[1] = c
          OBVIOUS
        <4> QED
          BY <1>4, <3>1, <3>3, <4>1, <4>2
      <3>6. CASE x /= col + k
        <4>1. ~(col + k <= x /\ x < col + k + 1) /\ (x < col + k <=> x < col + i)
          BY <1>3, <3>4, <3>6
        <4> QED
          BY <3>1, <3>2, <3>3, <4>1
      <3> QED
        BY <3>5, <3>6
    <2> QED
      BY <2>1 DEF Over
  <1>15. PICK e : e = Edit(a, k, row1, col + k)
    OBVIOUS
  <1>16. insert(e, c) = Drawn(e, [text |-> b, cursor |-> i], s)
    <2>1. Line!CanInsert(e.line)
      <3>1. Len(a) /= InputCap
        BY <1>3, <1>7
      <3> QED
        BY <1>15, <3>1 DEF Edit, Line!CanInsert, Line!is_full
    <2>2. Line!Insert(e.line, c) = [text |-> b, cursor |-> i]
      BY <1>3, <1>8, <1>15 DEF Edit, Line!Insert
    <2>3. insert(e, c) = Drawn(e, Line!Insert(e.line, c),
            From(Line!Insert(e.line, c), Line!Insert(e.line, c).cursor)
              \o BackToCursor(Line!Insert(e.line, c)))
      BY <2>1 DEF insert
    <2>4. From([text |-> b, cursor |-> i], i) = SubSeq(b, i, Len(b))
      BY DEF From
    <2>5. BackToCursor([text |-> b, cursor |-> i]) = Times(BS, i - i)
      BY <1>7 DEF BackToCursor
    <2>6. Line!Insert(e.line, c).cursor = i
      BY <2>2
    <2> QED
      BY <1>9, <2>2, <2>3, <2>4, <2>5, <2>6, Zenon
  <1>17. Drawn(e, [text |-> b, cursor |-> i], s) = Edit(b, i, Over(row, col, text, i), col + i)
    <2>1. /\ Back(col + k, 0) = col + k /\ 0 <= Back(col + k, 0) + 1 /\ col + k \in Nat
          /\ col + k + 1 - 0 = col + i
      BY <1>3 DEF Back
    <2>2. Drawn(e, [text |-> b, cursor |-> i], s)
            = Edit(b, i, Over(row1, Back(col + k, 0), <<c>>, 1), Back(col + k, 0) + 1 - 0)
      <3>1. 0 \in Nat /\ 1 \in Nat
        OBVIOUS
      <3>2. print(Terminal(row1, col + k), s)
              = Terminal(Over(row1, Back(col + k, 0), <<c>>, 1), Back(col + k, 0) + 1 - 0)
        BY <1>11, <1>13, <2>1, <3>1, PrintStrokes
      <3> QED
        BY <1>15, <3>2 DEF Drawn, Edit
    <2> QED
      BY <1>14, <2>1, <2>2
  <1> QED
    BY <1>2, <1>4, <1>6, <1>12, <1>15, <1>16, <1>17

\* A text typed into an empty line becomes the line, if there is room for it.
LEMMA TypedText ==
  ASSUME NEW text \in Seq(Char), Len(text) <= InputCap, NEW row \in Row, NEW col \in Nat
  PROVE  Typed(Edit(<<>>, 0, row, col), text)
           = Edit(text, Len(text), Over(row, col, text, Len(text)), col + Len(text))
  <1>1. PICK n \in Nat : n = Len(text)
    BY LenProperties
  <1> DEFINE typing(i) == Edit(SubSeq(text, 1, i), i, Over(row, col, text, i), col + i)
             f == [i \in 0..n |-> typing(i)]
  <1>2. \A i \in 0..n : f[i] = typing(i)
    OBVIOUS
  <1> HIDE DEF f
  <1>3. typing(0) = Edit(<<>>, 0, row, col)
    <2>1. SubSeq(text, 1, 0) = <<>>
      BY SubSeqEmpty
    <2>2. Over(row, col, text, 0) = row /\ col + 0 = col
      BY OverNothing
    <2> QED
      BY <2>1, <2>2
  <1>4. typing(n) = Edit(text, n, Over(row, col, text, n), col + n)
    <2>1. \A x \in 1..n : text[x] \in Char
      BY <1>1, ElementOfSeq
    <2>2. PICK b : b = SubSeq(text, 1, n)
      OBVIOUS
    <2>3. b \in Seq(Char) /\ Len(b) = n /\ \A x \in 1..n : b[x] = text[x]
      <3>1. 1 \in Int /\ n \in Int /\ n - 1 + 1 = n /\ \A x \in 1..n : 1 + x - 1 = x
        OBVIOUS
      <3>2. /\ b \in Seq(Char) /\ Len(b) = IF 1 <= n THEN n - 1 + 1 ELSE 0
            /\ \A x \in 1..n - 1 + 1 : b[x] = text[1 + x - 1]
        BY <2>1, <2>2, <3>1, SubSeqProperties
      <3> QED
        BY <3>1, <3>2
    <2>4. b = text
      BY <1>1, <2>3, SeqEqual
    <2> QED
      BY <2>2, <2>4
  <1>5. ASSUME NEW i \in 1..n PROVE f[i] = insert(f[i - 1], text[i])
    <2>1. i \in 0..n /\ i - 1 \in 0..n /\ i \in 1..Len(text)
      BY <1>1
    <2>2. insert(typing(i - 1), text[i]) = typing(i)
      BY <2>1, TypeLast
    <2> QED
      BY <1>2, <2>1, <2>2
  <1>6. 0 \in 0..n /\ n \in 0..n
    OBVIOUS
  <1>7. f[0] = Edit(<<>>, 0, row, col) /\ f[n] = Edit(text, n, Over(row, col, text, n), col + n)
    BY <1>2, <1>3, <1>4, <1>6
  <1> HIDE DEF typing
  <1>8. Types(f, Edit(<<>>, 0, row, col), text, n)
    BY <1>5, <1>7 DEF Types
  <1>9. Typed(Edit(<<>>, 0, row, col), text) = f[n]
    BY <1>1, <1>8, TypedIs
  <1> QED
    BY <1>1, <1>7, <1>9

\* A recalled line replaces whatever was there; the screen shows it if it
\* showed the old line with the cursor at its end.
LEMMA ReplacedText ==
  ASSUME NEW e, Good(e), NEW new \in Seq(Char), Len(new) <= InputCap
  PROVE  /\ Good(Replaced(e, new))
         /\ Replaced(e, new).line = [text |-> new, cursor |-> Len(new)]
         /\ Shows(e) /\ Line!is_cursor_on_end(e.line) => Shows(Replaced(e, new))
  <1>1. PICK text \in Seq(Char) : \E cur \in Nat : \E row \in Row : \E col \in Nat :
          Editing(e, text, cur, row, col)
    BY DEF Good
  <1>2. PICK cur \in Nat : \E row \in Row : \E col \in Nat : Editing(e, text, cur, row, col)
    BY <1>1
  <1>3. PICK row \in Row : \E col \in Nat : Editing(e, text, cur, row, col)
    BY <1>2
  <1>4. PICK col \in Nat : Editing(e, text, cur, row, col)
    BY <1>3
  <1>5. PICK row2 \in Row : \E col2 \in Nat :
           /\ Editing(clear_input(e), <<>>, 0, row2, col2)
           /\ Shows(e) /\ cur = Len(text) => Synced(<<>>, 0, row2, col2)
    BY <1>4, ClearEmpties
  <1>6. PICK col2 \in Nat :
           /\ Editing(clear_input(e), <<>>, 0, row2, col2)
           /\ Shows(e) /\ cur = Len(text) => Synced(<<>>, 0, row2, col2)
    BY <1>5
  <1>7. clear_input(e) = Edit(<<>>, 0, row2, col2) /\ col2 <= Prompt
    <2>1. Prompt + 0 = Prompt
      BY ColumnIs
    <2> QED
      BY <1>6, <2>1, ColumnIs DEF Editing, Proper
  <1>8. PICK n \in Nat : n = Len(new)
    BY LenProperties
  <1>9. PICK row3 : row3 = Over(row2, col2, new, n)
    OBVIOUS
  <1>10. row3 \in Row
    <2>1. \A i \in 1..n : new[i] \in Shown
      BY <1>8, ElementOfSeq, ShownProperties
    <2> QED
      BY <1>9, <2>1, OverRow
  <1>11. Replaced(e, new) = Edit(new, n, row3, col2 + n)
    BY <1>7, <1>8, <1>9, TypedText DEF Replaced
  <1>12. Editing(Replaced(e, new), new, n, row3, col2 + n) /\ col2 + n \in Nat
    BY <1>7, <1>8, <1>10, <1>11, ColumnIs DEF Editing, Proper
  <1>13. Good(Replaced(e, new))
    BY <1>8, <1>10, <1>12 DEF Good
  <1>14. Replaced(e, new).line = [text |-> new, cursor |-> Len(new)]
    BY <1>8, <1>11 DEF Edit
  <1>15. ASSUME Shows(e), Line!is_cursor_on_end(e.line) PROVE Shows(Replaced(e, new))
    <2>1. cur = Len(text)
      BY <1>4, <1>15 DEF Editing, Edit, Line!is_cursor_on_end
    <2>2. row2 = Cells(<<>>) /\ col2 = Prompt + 0
      BY <1>6, <1>15, <2>1 DEF Synced
    <2>3. PICK none \in Seq(Char) : none = <<>>
      <3>1. <<>> \in Seq(Char)
        OBVIOUS
      <3> QED
        BY <3>1
    <2>4. Repaints(none, new, 0, new, n)
      <3>1. Len(none) = 0 /\ \A i \in 1..0 : FALSE
        BY <2>3
      <3>2. \A i \in 1..n : 0 + i <= n /\ 0 + i = i
        OBVIOUS
      <3> QED
        BY <1>8, <3>1, <3>2 DEF Repaints
    <2>5. Over(Cells(none), Prompt + 0, new, n) = Cells(new)
      BY <2>4, Repaint
    <2>6. Prompt + 0 = Prompt
      BY ColumnIs
    <2>7. Synced(new, n, row3, col2 + n)
      BY <1>9, <2>2, <2>3, <2>5, <2>6 DEF Synced
    <2> QED
      BY <1>11, <2>7, ShowsSynced
  <1> QED
    BY <1>13, <1>14, <1>15

(***************************************************************************)
(* The history of the command line                                         *)
(***************************************************************************)
\* Every line of the history fits the input: no run of other characters than
\* newlines is longer.
LinesFit(h) ==
  \A i \in 1..Len(h), j \in 1..Len(h) : (\A x \in i..j : h[x] /= NL) => j - i < InputCap

LEMMA EntryFits ==
  ASSUME NEW h \in Seq(Text), NEW n \in Nat, NEW pos, Cuts(h, pos, n), LinesFit(h), NEW k \in 1..n
  PROVE  Entry(h, pos, k) \in Seq(Char) /\ Len(Entry(h, pos, k)) <= InputCap
  <1>1. PICK a, b : a = pos[k - 1] /\ b = pos[k]
    OBVIOUS
  <1>2. /\ a \in Nat /\ b \in Nat /\ a < b /\ b <= Len(h) /\ Len(h) \in Nat
        /\ \A i \in a + 1..b - 1 : h[i] /= NL
    BY <1>1, Between, LenProperties
  <1>3. Entry(h, pos, k) \in Seq(Char) /\ Len(Entry(h, pos, k)) = b - a - 1
    BY <1>1, EntryProperties
  <1>4. b - a - 1 <= InputCap
    <2>1. CASE b = a + 1
      BY <1>2, <2>1, ColumnIs
    <2>2. CASE b /= a + 1
      <3>1. a + 1 \in 1..Len(h) /\ b - 1 \in 1..Len(h)
        BY <1>2, <2>2
      <3>2. b - 1 - (a + 1) < InputCap
        BY <1>2, <3>1 DEF LinesFit
      <3> QED
        BY <1>2, <3>2, ColumnIs
    <2> QED
      BY <2>1, <2>2
  <1> QED
    BY <1>3, <1>4

\* The end of a text after a line was entered: the newline of the text before,
\* if anything of it is left, the line, and its newline.
LEMMA AddedEnd ==
  ASSUME NEW h \in Seq(Text), Len(h) <= HistCap, NEW n \in Nat, NEW pos, Cuts(h, pos, n),
         NEW l \in Fitting
  PROVE  LET b == AddLine(h, l)
             s == Entered(h, l)
         IN  /\ b \in Seq(Text) /\ Len(b) = IF Len(s) <= HistCap THEN Len(s) ELSE HistCap
             /\ \A i \in 1..Len(b) : b[i] = s[Len(s) - Len(b) + i]
             /\ Len(s) = Len(h) + Len(l) + 1 /\ Len(h) \in Nat /\ Len(l) \in 1..HistCap
             /\ HistCap \in Nat
             /\ Len(h) > 0 => s[Len(h)] = NL
             /\ \A i \in 1..Len(h) : s[i] = h[i]
             /\ \A i \in 1..Len(l) : s[Len(h) + i] = l[i] /\ l[i] /= NL
             /\ s[Len(h) + Len(l) + 1] = NL
  <1>1. PICK s : s = Entered(h, l)
    OBVIOUS
  <1>2. /\ s \in Seq(Text) /\ Len(s) = Len(h) + Len(l) + 1 /\ Len(l) \in 1..HistCap
        /\ \A i \in 1..Len(h) : s[i] = h[i]
        /\ \A i \in 1..Len(l) : s[Len(h) + i] = l[i] /\ l[i] /= NL
        /\ s[Len(h) + Len(l) + 1] = NL
    BY <1>1, EnteredProperties, ZenonT(30)
  <1>3. PICK b : b = AddLine(h, l)
    OBVIOUS
  <1>4. b = Newest(s)
    BY <1>1, <1>3, AddLineIs
  <1>5. /\ b \in Seq(Text) /\ Len(b) = IF Len(s) <= HistCap THEN Len(s) ELSE HistCap
        /\ \A i \in 1..Len(b) : b[i] = s[Len(s) - Len(b) + i]
    BY <1>2, <1>4, NewestProperties
  <1>6. Len(h) \in Nat /\ HistCap \in Nat
    BY LenProperties, CapacityAssumption
  <1>7. ASSUME Len(h) > 0 PROVE s[Len(h)] = NL
    <2>1. n \in 1..n /\ pos[n] = Len(h)
      BY <1>6, <1>7 DEF Cuts
    <2>2. h[Len(h)] = NL
      BY <2>1, Between
    <2>3. Len(h) \in 1..Len(h)
      BY <1>6, <1>7
    <2> QED
      BY <1>2, <2>2, <2>3
  <1> QED
    BY <1>1, <1>2, <1>3, <1>5, <1>6, <1>7

LEMMA AddFits ==
  ASSUME NEW h \in Seq(Text), Len(h) <= HistCap, NEW n \in Nat, NEW pos, Cuts(h, pos, n),
         LinesFit(h), NEW l \in Fitting, Len(l) <= InputCap
  PROVE  LinesFit(AddLine(h, l))
  <1>1. PICK b, s : b = AddLine(h, l) /\ s = Entered(h, l)
    OBVIOUS
  <1>2. PICK k \in Nat, m \in Nat, c \in Nat, z \in Nat :
          k = Len(h) /\ m = Len(l) /\ c = Len(b) /\ z = Len(s)
    <2>1. b \in Seq(Text) /\ s \in Seq(Text) /\ l \in Seq(Char)
      BY <1>1, AddedEnd, EnteredProperties
    <2> QED
      BY <2>1, LenProperties
  <1>3. /\ c = IF z <= HistCap THEN z ELSE HistCap
        /\ \A i \in 1..c : b[i] = s[z - c + i]
        /\ z = k + m + 1 /\ HistCap \in Nat
        /\ k > 0 => s[k] = NL
        /\ \A i \in 1..k : s[i] = h[i]
        /\ s[k + m + 1] = NL
    <2>1. /\ Len(b) = IF Len(s) <= HistCap THEN Len(s) ELSE HistCap
          /\ \A i \in 1..Len(b) : b[i] = s[Len(s) - Len(b) + i]
          /\ Len(s) = Len(h) + Len(l) + 1
          /\ HistCap \in Nat
          /\ Len(h) > 0 => s[Len(h)] = NL
          /\ \A i \in 1..Len(h) : s[i] = h[i]
          /\ s[Len(h) + Len(l) + 1] = NL
      BY <1>1, AddedEnd
    <2> QED
      BY ONLY <1>2, <2>1
  <1>4. PICK d \in Nat : d = z - c
    <2>1. z - c \in Nat
      BY <1>3
    <2> QED
      BY <2>1
  <1>5. ASSUME NEW i \in 1..z, NEW j \in 1..z, \A x \in i..j : s[x] /= NL
        PROVE  j - i < InputCap
    <2>1. CASE j < i
      BY <2>1, ColumnIs
    <2>2. CASE i <= j /\ j <= k
      <3>1. i \in 1..k /\ j \in 1..k /\ \A x \in i..j : x \in 1..k
        BY <2>2
      <3>2. \A x \in i..j : h[x] /= NL
        BY <1>3, <1>5, <3>1
      <3> QED
        BY <1>2, <3>1, <3>2 DEF LinesFit
    <2>3. CASE i <= j /\ i <= k /\ k < j
      <3>1. k \in i..j /\ k > 0
        BY <2>3
      <3> QED
        BY <1>3, <1>5, <3>1
    <2>4. CASE k < i /\ i <= j
      <3>1. j /= k + m + 1
        <4>1. j \in i..j
          BY <2>4
        <4> QED
          BY <1>3, <1>5, <4>1
      <3>2. m <= InputCap
        BY <1>2
      <3> QED
        BY <1>3, <2>4, <3>1, <3>2, ColumnIs
    <2> QED
      BY <2>1, <2>2, <2>3, <2>4
  <1>6. ASSUME NEW i \in 1..c, NEW j \in 1..c, \A x \in i..j : b[x] /= NL
        PROVE  j - i < InputCap
    <2>1. PICK p \in 1..z, q \in 1..z : p = d + i /\ q = d + j
      <3>1. d + i \in 1..z /\ d + j \in 1..z
        BY <1>3, <1>4
      <3> QED
        BY <3>1
    <2>2. ASSUME NEW x \in p..q PROVE s[x] /= NL
      <3>1. PICK y \in i..j : x = d + y
        <4>1. x - d \in i..j /\ x = d + (x - d)
          BY <2>1
        <4> QED
          BY <4>1
      <3>2. y \in 1..c
        BY <3>1
      <3>3. b[y] = s[d + y]
        BY <1>3, <1>4, <3>2
      <3> QED
        BY <1>6, <3>1, <3>3
    <2>3. q - p < InputCap
      BY <1>5, <2>2
    <2>4. q - p = j - i
      BY <2>1
    <2> QED
      BY <2>3, <2>4
  <1> QED
    BY <1>1, <1>2, <1>6 DEF LinesFit

\* A line that the store has room for is the last of the lines afterwards.
LEMMA AddedIsEntry ==
  ASSUME NEW h \in Seq(Text), Len(h) <= HistCap, NEW n \in Nat, NEW pos, Cuts(h, pos, n),
         NEW l \in Fitting, Len(l) < HistCap
  PROVE  \E k \in DOMAIN Entries(AddLine(h, l)) : Entries(AddLine(h, l))[k] = l
  <1>1. PICK b, s : b = AddLine(h, l) /\ s = Entered(h, l)
    OBVIOUS
  <1>0. b \in Seq(Text) /\ l \in Seq(Char)
    BY <1>1, AddedEnd, EnteredProperties
  <1>2. PICK k \in Nat, m \in Nat, c \in Nat : k = Len(h) /\ m = Len(l) /\ c = Len(b)
    BY <1>0, LenProperties
  <1>3. /\ c = IF k + m + 1 <= HistCap THEN k + m + 1 ELSE HistCap
        /\ \A i \in 1..c : b[i] = s[(k + m + 1) - c + i]
        /\ m \in 1..HistCap /\ HistCap \in Nat
        /\ k > 0 => s[k] = NL
        /\ \A i \in 1..m : s[k + i] = l[i] /\ l[i] /= NL
        /\ s[k + m + 1] = NL
    <2>1. /\ Len(b) = IF Len(s) <= HistCap THEN Len(s) ELSE HistCap
          /\ \A i \in 1..Len(b) : b[i] = s[Len(s) - Len(b) + i]
      BY <1>1, AddedEnd
    <2>2. /\ Len(s) = Len(h) + Len(l) + 1 /\ Len(l) \in 1..HistCap
          /\ HistCap \in Nat
          /\ Len(h) > 0 => s[Len(h)] = NL
      BY <1>1, AddedEnd
    <2>3. /\ \A i \in 1..Len(l) : s[Len(h) + i] = l[i] /\ l[i] /= NL
          /\ s[Len(h) + Len(l) + 1] = NL
      BY <1>1, AddedEnd
    <2>4. Len(s) = k + m + 1 /\ Len(b) = c /\ Len(h) = k /\ Len(l) = m
      BY ONLY <1>2, <2>2
    <2>5. /\ c = IF k + m + 1 <= HistCap THEN k + m + 1 ELSE HistCap
          /\ \A i \in 1..c : b[i] = s[(k + m + 1) - c + i]
      BY ONLY <2>1, <2>4
    <2>6. /\ m \in 1..HistCap /\ HistCap \in Nat
          /\ k > 0 => s[k] = NL
          /\ \A i \in 1..m : s[k + i] = l[i] /\ l[i] /= NL
          /\ s[k + m + 1] = NL
      BY ONLY <2>2, <2>3, <2>4
    <2> QED
      BY ONLY <2>5, <2>6
  <1>4. PICK q \in Nat : c = q + m + 1
    <2>1. m < HistCap
      BY <1>2
    <2>2. m + 1 <= c
      BY <1>3, <2>1
    <2>3. c - (m + 1) \in Nat /\ c = (c - (m + 1)) + m + 1
      BY <2>2
    <2> QED
      BY <2>3
  <1>5. ASSUME NEW i \in 1..m PROVE b[q + i] = l[i] /\ l[i] /= NL
    <2>1. q + i \in 1..c /\ (k + m + 1) - c + (q + i) = k + i
      BY <1>4
    <2>2. b[q + i] = s[(k + m + 1) - c + (q + i)]
      BY ONLY <1>3, <2>1
    <2>3. s[k + i] = l[i] /\ l[i] /= NL
      BY <1>3
    <2> QED
      BY ONLY <2>1, <2>2, <2>3
  <1>6. ASSUME q > 0 PROVE b[q] = NL
    <2>1. q \in 1..c /\ (k + m + 1) - c + q = k /\ k > 0
      BY <1>3, <1>4, <1>6
    <2> QED
      BY <1>3, <2>1
  <1>7. PICK r \in Nat : \E t : Cuts(b, t, r)
    <2>1. \E r \in Nat : \E t : /\ Cuts(AddLine(h, l), t, r)
                               /\ EntriesTo(AddLine(h, l), t, r) = Kept(Append(Entries(h), l))
      BY AddPlaces
    <2> QED
      BY <1>1, <2>1
  <1>8. PICK t : Cuts(b, t, r)
    BY <1>7
  <1>9. t[0] = 0 /\ t[r] = c /\ r /= 0
    <2>1. t[0] = 0 /\ t[r] = Len(b)
      BY <1>8 DEF Cuts
    <2>2. c /= 0
      BY <1>4
    <2> QED
      BY <1>2, <2>1, <2>2
  <1>10. r \in 1..r /\ r - 1 \in 0..r
    BY <1>9
  <1>11. PICK p : p = t[r - 1]
    OBVIOUS
  <1>12. /\ p \in Nat /\ p < c
         /\ \A i \in p + 1..c - 1 : b[i] /= NL
    BY <1>0, <1>8, <1>9, <1>10, <1>11, Between
  <1>13. p > 0 => b[p] = NL
    <2>1. ASSUME p > 0 PROVE b[p] = NL
      <3>1. r - 1 /= 0
        BY <1>9, <1>11, <2>1
      <3>2. r - 1 \in 1..r
        BY <1>10, <3>1
      <3> QED
        BY <1>0, <1>8, <1>11, <3>2, Between
    <2> QED
      BY <2>1
  <1>14. p = q
    <2>1. ASSUME p < q PROVE FALSE
      <3>1. q \in p + 1..c - 1 /\ q > 0
        BY <1>4, <1>12, <2>1
      <3> QED
        BY <1>6, <1>12, <3>1
    <2>2. ASSUME q < p PROVE FALSE
      <3>1. PICK i \in 1..m : p = q + i
        <4>1. p - q \in 1..m /\ p = q + (p - q)
          BY <1>4, <1>12, <2>2
        <4> QED
          BY <4>1
      <3>2. b[p] /= NL
        BY <1>5, <3>1
      <3>3. p > 0
        BY <1>12, <2>2
      <3> QED
        BY <1>13, <3>2, <3>3
    <2> QED
      BY <1>12, <2>1, <2>2
  <1>15. PICK e : e = Entry(b, t, r)
    OBVIOUS
  <1>16. e \in Seq(Char) /\ Len(e) = m /\ \A i \in 1..m : e[i] = b[q + i]
    <2>1. /\ e \in Seq(Char) /\ Len(e) = t[r] - t[r - 1] - 1
          /\ \A i \in 1..t[r] - t[r - 1] - 1 : e[i] = b[t[r - 1] + i]
      BY <1>0, <1>8, <1>10, <1>15, EntryProperties
    <2>2. t[r] - t[r - 1] - 1 = m /\ t[r - 1] = q
      BY <1>4, <1>9, <1>11, <1>14
    <2> QED
      BY <2>1, <2>2
  <1>17. e = l
    BY <1>0, <1>2, <1>5, <1>16, SeqEqual
  <1>18. /\ Entries(b) \in Seq(Seq(Char)) /\ Len(Entries(b)) = r /\ Entries(b)[r] = e
    BY <1>0, <1>8, <1>10, <1>15, ListState
  <1>19. r \in DOMAIN Entries(b)
    BY <1>10, <1>18, LenProperties
  <1> QED
    BY <1>1, <1>17, <1>18, <1>19

\* The history as the command line keeps it: lines that fit the input, and the
\* position at the beginning of one of them or at the end.
HistoryGood(h, p) ==
  /\ h \in Seq(Text) /\ Len(h) <= HistCap /\ LinesFit(h)
  /\ \E n, pos : Placed(h, p, pos, n)

IsEntry(h, l) == \E k \in DOMAIN Entries(h) : l = Entries(h)[k]

\* What a recall gives: a place, and an entry that fits the input or nothing.
Found(h, r) ==
  /\ HistoryGood(h, r.pos)
  /\ r.line \in Seq(Char) /\ Len(r.line) <= InputCap
  /\ r.line = <<>> \/ IsEntry(h, r.line)

LEMMA FoundEntry ==
  ASSUME NEW h \in Seq(Text), Len(h) <= HistCap, LinesFit(h),
         NEW n \in Nat, NEW pos, Cuts(h, pos, n), NEW j \in 0..n, NEW k \in 1..n
  PROVE  Found(h, Recall(pos[j], Entry(h, pos, k))) /\ Found(h, Recall(pos[j], <<>>))
  <1>1. PICK p, l : p = pos[j] /\ l = Entry(h, pos, k)
    OBVIOUS
  <1>2. HistoryGood(h, p)
    BY <1>1 DEF HistoryGood, Placed
  <1>3. l \in Seq(Char) /\ Len(l) <= InputCap
    BY <1>1, EntryFits
  <1>4. IsEntry(h, l)
    <2>1. /\ Entries(h) \in Seq(Seq(Char)) /\ Len(Entries(h)) = n
          /\ Entries(h)[k] = Entry(h, pos, k)
      <3>1. 0 \in 0..n
        OBVIOUS
      <3> QED
        BY <3>1, ListState
    <2>2. k \in DOMAIN Entries(h)
      BY <2>1, LenProperties
    <2> QED
      BY <1>1, <2>1, <2>2 DEF IsEntry
  <1>5. Recall(p, l).pos = p /\ Recall(p, l).line = l
    BY DEF Recall
  <1>6. Recall(p, <<>>).pos = p /\ Recall(p, <<>>).line = <<>>
    BY DEF Recall
  <1>7. <<>> \in Seq(Char) /\ Len(<<>>) <= InputCap
    BY ColumnIs
  <1>8. Found(h, Recall(p, l))
    BY <1>2, <1>3, <1>4, <1>5 DEF Found
  <1>9. Found(h, Recall(p, <<>>))
    BY <1>2, <1>6, <1>7 DEF Found
  <1> QED
    BY <1>1, <1>8, <1>9

LEMMA FoundNothing ==
  ASSUME NEW h, NEW p, HistoryGood(h, p)
  PROVE  Found(h, Recall(p, <<>>))
  <1>1. Recall(p, <<>>).pos = p /\ Recall(p, <<>>).line = <<>>
    BY DEF Recall
  <1>2. <<>> \in Seq(Char) /\ Len(<<>>) <= InputCap
    BY ColumnIs
  <1> QED
    BY <1>1, <1>2 DEF Found

LEMMA RecallFound ==
  ASSUME NEW h, NEW p, HistoryGood(h, p)
  PROVE  /\ Found(h, CurrentRecall(h, p))
         /\ Found(h, PreviousRecall(h, p))
         /\ Found(h, NextRecall(h, p))
  <1>1. PICK n, pos : Placed(h, p, pos, n)
    BY DEF HistoryGood
  <1>2. n \in Nat /\ Cuts(h, pos, n)
    BY <1>1 DEF Placed
  <1>3. PICK k \in 0..n : p = pos[k]
    BY <1>1 DEF Placed
  <1>4. h \in Seq(Text) /\ Len(h) <= HistCap /\ LinesFit(h)
    BY DEF HistoryGood
  <1>5. Found(h, Recall(pos[k], <<>>))
    BY <1>3, FoundNothing
  <1>6. Found(h, CurrentRecall(h, p))
    <2>1. CASE k < n
      <3>1. k + 1 \in 1..n
        BY <1>2, <2>1
      <3>2. Found(h, Recall(pos[k], Entry(h, pos, k + 1)))
        BY <1>2, <1>4, <3>1, FoundEntry
      <3>3. CurrentRecall(h, pos[k]) = Recall(pos[k], Entry(h, pos, k + 1))
        BY <1>2, <1>4, <2>1, Recalls
      <3> QED
        BY <1>3, <3>2, <3>3
    <2>2. CASE k = n
      <3>1. CurrentRecall(h, pos[k]) = Recall(pos[k], <<>>)
        BY <1>2, <1>4, <2>2, Recalls
      <3> QED
        BY <1>3, <1>5, <3>1
    <2> QED
      BY <1>2, <2>1, <2>2
  <1>7. Found(h, PreviousRecall(h, p))
    <2>1. CASE k > 0
      <3>1. k \in 1..n /\ k - 1 \in 0..n
        BY <1>2, <2>1
      <3>2. Found(h, Recall(pos[k - 1], Entry(h, pos, k)))
        BY <1>2, <1>4, <3>1, FoundEntry
      <3>3. PreviousRecall(h, pos[k]) = Recall(pos[k - 1], Entry(h, pos, k))
        BY <1>2, <1>4, <2>1, Recalls
      <3> QED
        BY <1>3, <3>2, <3>3
    <2>2. CASE k = 0
      <3>1. PreviousRecall(h, pos[k]) = Recall(pos[k], <<>>)
        BY <1>2, <1>4, <2>2, Recalls
      <3> QED
        BY <1>3, <1>5, <3>1
    <2> QED
      BY <1>2, <2>1, <2>2
  <1>8. Found(h, NextRecall(h, p))
    <2>1. CASE k + 1 < n
      <3>1. k + 1 \in 0..n /\ k + 2 \in 1..n
        BY <1>2, <2>1
      <3>2. Found(h, Recall(pos[k + 1], Entry(h, pos, k + 2)))
        BY <1>2, <1>4, <3>1, FoundEntry
      <3>3. NextRecall(h, pos[k]) = Recall(pos[k + 1], Entry(h, pos, k + 2))
        BY <1>2, <1>4, <2>1, Recalls
      <3> QED
        BY <1>3, <3>2, <3>3
    <2>2. CASE k + 1 >= n
      <3>1. NextRecall(h, pos[k]) = Recall(pos[k], <<>>)
        BY <1>2, <1>4, <2>2, Recalls
      <3> QED
        BY <1>3, <1>5, <3>1
    <2> QED
      BY <1>2, <2>1, <2>2
  <1> QED
    BY <1>6, <1>7, <1>8

\* The history after a line that fits the input was entered.
LEMMA AddGood ==
  ASSUME NEW h, NEW p, HistoryGood(h, p), NEW l \in Seq(Char), l /= <<>>, Len(l) <= InputCap
  PROVE  /\ HistoryGood(AddLine(h, l), Len(AddLine(h, l)))
         /\ Len(l) < HistCap => IsEntry(AddLine(h, l), l)
  <1>1. PICK n, pos : Placed(h, p, pos, n)
    BY DEF HistoryGood
  <1>2. n \in Nat /\ Cuts(h, pos, n)
    BY <1>1 DEF Placed
  <1>3. h \in Seq(Text) /\ Len(h) <= HistCap /\ LinesFit(h)
    BY DEF HistoryGood
  <1>4. l \in Fitting
    <2>1. Len(l) \in Nat /\ Len(l) /= 0
      BY LenProperties, EmptySeq
    <2>2. InputCap \in 1..HistCap /\ HistCap \in Nat
      BY CapAssumption, CapacityAssumption
    <2> QED
      BY <2>1, <2>2 DEF Fitting
  <1>5. PICK b : b = AddLine(h, l)
    OBVIOUS
  <1>6. /\ b \in Seq(Text) /\ Len(b) <= HistCap
        /\ \E m \in Nat : \E t : Cuts(b, t, m)
    BY <1>2, <1>3, <1>4, <1>5, AddPlaces
  <1>7. PICK m \in Nat : \E t : Cuts(b, t, m)
    BY <1>6
  <1>8. PICK t : Cuts(b, t, m)
    BY <1>7
  <1>9. Len(b) = t[m] /\ m \in 0..m
    BY <1>8 DEF Cuts
  <1>10. Placed(b, Len(b), t, m)
    BY <1>8, <1>9 DEF Placed
  <1>11. LinesFit(b)
    BY <1>2, <1>3, <1>4, <1>5, AddFits
  <1>12. HistoryGood(b, Len(b))
    BY <1>6, <1>10, <1>11 DEF HistoryGood
  <1>13. ASSUME Len(l) < HistCap PROVE IsEntry(b, l)
    <2>1. \E k \in DOMAIN Entries(AddLine(h, l)) : Entries(AddLine(h, l))[k] = l
      BY <1>2, <1>3, <1>4, <1>13, AddedIsEntry
    <2> QED
      BY <1>5, <2>1 DEF IsEntry
  <1> QED
    BY <1>5, <1>12, <1>13

(***************************************************************************)
(* The invariant                                                           *)
(***************************************************************************)
CliInv ==
  /\ escape_state \in EscapeState
  /\ Good(Here)
  /\ HistoryGood(hist, recall_pos)
  /\ previously_called_from_history \in BOOLEAN
  /\ ret \in BOOLEAN

\* The line is empty and the row is fresh, at the start and after Enter.
LEMMA FreshGood ==
  LET e == [line |-> Line!Empty, screen |-> FreshRow] IN Good(e) /\ Shows(e)
  <1>1. PICK none \in Seq(Char) : none = <<>>
    <2>1. <<>> \in Seq(Char)
      OBVIOUS
    <2> QED
      BY <2>1
  <1>2. Len(none) = 0
    BY <1>1
  <1>3. ASSUME NEW i \in Column PROVE ~(i - Prompt < 0) \/ i < Prompt
    BY ColumnIs
  <1>4. Cells(none) = [i \in Column |-> IF i < Prompt THEN ">" ELSE Blank]
    BY <1>2, <1>3 DEF Cells
  <1>5. PICK row \in Row : row = Cells(none)
    BY CellsRow
  <1>6. FreshRow = Terminal(row, Prompt)
    BY <1>4, <1>5 DEF FreshRow, Terminal
  <1>7. [line |-> Line!Empty, screen |-> FreshRow] = Edit(none, 0, row, Prompt)
    BY <1>1, <1>6 DEF Edit, Line!Empty
  <1>8. Prompt = Prompt + 0 /\ Prompt \in Nat /\ InputCap \in Nat
    BY ColumnIs
  <1>9. Synced(none, 0, row, Prompt)
    BY <1>5, <1>8 DEF Synced
  <1>10. Proper(none, 0, row, Prompt)
    BY <1>2, <1>8, ColumnIs DEF Proper
  <1>11. Good(Edit(none, 0, row, Prompt))
    BY <1>8, <1>10 DEF Good, Editing
  <1> QED
    BY <1>7, <1>9, <1>11, ShowsSynced

LEMMA CliStart ==
  ASSUME Init
  PROVE  CliInv
  <1>1. /\ escape_state \in EscapeState
        /\ previously_called_from_history \in BOOLEAN /\ ret \in BOOLEAN
    BY StaleAssumption DEF Init
  <1>2. Good(Here)
    BY FreshGood DEF Init, Here
  <1>3. hist = <<>> /\ recall_pos = 0
    BY DEF Init
  <1>4. hist \in Seq(Text) /\ Len(hist) = 0 /\ HistCap \in Nat
    BY <1>3, CapacityAssumption
  <1>5. PICK pos : pos = [j \in 0..0 |-> 0]
    OBVIOUS
  <1>6. pos[0] = 0 /\ DOMAIN pos = 0..0
    BY <1>5
  <1>7. Cuts(hist, pos, 0)
    BY <1>4, <1>5, <1>6 DEF Cuts
  <1>8. 0 \in 0..0 /\ 0 \in Nat
    OBVIOUS
  <1>9. Placed(hist, recall_pos, pos, 0)
    BY <1>3, <1>6, <1>7, <1>8 DEF Placed
  <1>10. LinesFit(hist)
    BY <1>4 DEF LinesFit
  <1> QED
    BY <1>1, <1>2, <1>4, <1>9, <1>10 DEF CliInv, HistoryGood

LEMMA BecomeIs ==
  ASSUME NEW f, Good(f), Become(f)
  PROVE  Here' = f
  <1>1. PICK text \in Seq(Char) : \E cur \in Nat : \E row \in Row : \E col \in Nat :
          Editing(f, text, cur, row, col)
    BY DEF Good
  <1>2. PICK cur \in Nat : \E row \in Row : \E col \in Nat : Editing(f, text, cur, row, col)
    BY <1>1
  <1>3. PICK row \in Row : \E col \in Nat : Editing(f, text, cur, row, col)
    BY <1>2
  <1>4. PICK col \in Nat : Editing(f, text, cur, row, col)
    BY <1>3
  <1>5. f = Edit(text, cur, row, col)
    BY <1>4 DEF Editing
  <1>6. f = [line |-> f.line, screen |-> f.screen]
    BY <1>5 DEF Edit
  <1> QED
    BY <1>6 DEF Become, Here

\* A step keeps the row that showed the line showing it, unless it is a recall
\* with the cursor inside the line.
InStep ==
  /\ screen = RowOf(input)
  /\ on_arrow_up_key \/ on_arrow_down_key => Line!is_cursor_on_end(input)
  => screen' = RowOf(input')

Flags == /\ escape_state' \in EscapeState /\ ret' \in BOOLEAN
         /\ previously_called_from_history' \in BOOLEAN

\* A step that edits the line and leaves the history alone.
LEMMA EditStep ==
  ASSUME CliInv, NEW f, Follows(Here, f), Become(f), UNCHANGED historyVars,
         escape_state' \in EscapeState, ret' \in BOOLEAN
  PROVE  CliInv' /\ InStep
  <1>1. Good(f) /\ (Shows(Here) => Shows(f))
    BY DEF Follows
  <1>2. Here' = f
    BY <1>1, BecomeIs
  <1>3. Good(Here') /\ (Shows(Here) => Shows(Here'))
    BY <1>1, <1>2
  <1>4. /\ hist' = hist /\ recall_pos' = recall_pos
        /\ previously_called_from_history' = previously_called_from_history
    BY DEF historyVars
  <1>5. InStep
    BY <1>3 DEF InStep, Shows, Here
  <1>6. CliInv'
    BY <1>3, <1>4 DEF CliInv
  <1> QED
    BY <1>5, <1>6

\* A step that leaves the line alone.
LEMMA IdleStep ==
  ASSUME CliInv, UNCHANGED <<input, screen, historyVars>>,
         escape_state' \in EscapeState, ret' \in BOOLEAN
  PROVE  CliInv' /\ InStep
  <1>1. /\ input' = input /\ screen' = screen /\ hist' = hist /\ recall_pos' = recall_pos
        /\ previously_called_from_history' = previously_called_from_history
    BY DEF historyVars
  <1>2. InStep
    BY <1>1 DEF InStep
  <1>3. CliInv'
    BY <1>1 DEF CliInv, Here
  <1> QED
    BY <1>2, <1>3

LEMMA ShowStep ==
  ASSUME CliInv, NEW r, Found(hist, r), Show(r)
  PROVE  /\ Good(Here)' /\ HistoryGood(hist, recall_pos)'
         /\ screen = RowOf(input) /\ Line!is_cursor_on_end(input) => screen' = RowOf(input')
         /\ \/ input' = input
            \/ input' = [text |-> r.line, cursor |-> Len(r.line)] /\ IsEntry(hist, r.line)
  <1>1. hist' = hist /\ recall_pos' = r.pos /\ HistoryGood(hist, r.pos)
    BY DEF Show, Found
  <1>2. Good(Here)
    BY DEF CliInv
  <1>3. CASE r.line = <<>>
    <2>1. Become(Here)
      BY <1>3 DEF Show
    <2>2. Here' = Here
      BY <1>2, <2>1, BecomeIs
    <2>3. input' = input /\ screen' = screen
      BY <2>1 DEF Become, Here
    <2>4. Good(Here)' /\ HistoryGood(hist, recall_pos)'
      BY <1>1, <1>2, <2>2
    <2> QED
      BY <2>3, <2>4
  <1>4. CASE r.line /= <<>>
    <2>1. PICK new \in Seq(Char) : new = r.line /\ Len(new) <= InputCap
      BY DEF Found
    <2>2. Become(Replaced(Here, new))
      BY <1>4, <2>1 DEF Show
    <2>3. /\ Good(Replaced(Here, new))
          /\ Replaced(Here, new).line = [text |-> new, cursor |-> Len(new)]
          /\ Shows(Here) /\ Line!is_cursor_on_end(Here.line) => Shows(Replaced(Here, new))
      BY <1>2, <2>1, ReplacedText
    <2>4. Here' = Replaced(Here, new)
      BY <2>2, <2>3, BecomeIs
    <2>5. input' = [text |-> new, cursor |-> Len(new)]
      BY <2>3, <2>4 DEF Here
    <2>6. Good(Here') /\ (Shows(Here) /\ Line!is_cursor_on_end(Here.line) => Shows(Here'))
      BY <2>3, <2>4
    <2>7. screen = RowOf(input) /\ Line!is_cursor_on_end(input) => screen' = RowOf(input')
      BY <2>6 DEF Shows, Here
    <2>8. IsEntry(hist, new)
      BY <1>4, <2>1 DEF Found
    <2>9. Good(Here)' /\ HistoryGood(hist, recall_pos)'
      BY <1>1, <2>6
    <2> QED
      BY <2>1, <2>5, <2>7, <2>8, <2>9
  <1> QED
    BY <1>3, <1>4

LEMMA RecallKeyStep ==
  ASSUME CliInv, on_arrow_up_key \/ on_arrow_down_key
  PROVE  /\ Good(Here)' /\ HistoryGood(hist, recall_pos)' /\ InStep
         /\ previously_called_from_history' \in BOOLEAN
         /\ \/ input' = input
            \/ \E l : input' = [text |-> l, cursor |-> Len(l)] /\ IsEntry(hist, l)
  <1>1. /\ Found(hist, CurrentRecall(hist, recall_pos))
        /\ Found(hist, PreviousRecall(hist, recall_pos))
        /\ Found(hist, NextRecall(hist, recall_pos))
    BY RecallFound DEF CliInv
  <1>2. PICK r : Found(hist, r) /\ Show(r)
    <2>1. CASE on_arrow_up_key
      BY <1>1, <2>1 DEF on_arrow_up_key
    <2>2. CASE on_arrow_down_key
      BY <1>1, <2>2 DEF on_arrow_down_key
    <2> QED
      BY <2>1, <2>2
  <1>3. /\ Good(Here)' /\ HistoryGood(hist, recall_pos)'
        /\ screen = RowOf(input) /\ Line!is_cursor_on_end(input) => screen' = RowOf(input')
        /\ \/ input' = input
           \/ input' = [text |-> r.line, cursor |-> Len(r.line)] /\ IsEntry(hist, r.line)
    BY <1>2, ShowStep
  <1>4. previously_called_from_history' \in BOOLEAN
    BY DEF CliInv, on_arrow_up_key, on_arrow_down_key
  <1>5. InStep
    BY <1>3 DEF InStep
  <1> QED
    BY <1>3, <1>4, <1>5

LEMMA RememberStep ==
  ASSUME CliInv, Remember(input.text)
  PROVE  /\ HistoryGood(hist, recall_pos)' /\ previously_called_from_history' \in BOOLEAN
         /\ Len(input.text) \in 1..HistCap - 1 => IsEntry(hist', input.text)
  <1>1. PICK text \in Seq(Char) : text = input.text /\ Len(text) <= InputCap
    <2>1. PICK text \in Seq(Char) : \E cur \in Nat : \E row \in Row : \E col \in Nat :
            Editing(Here, text, cur, row, col)
      BY DEF CliInv, Good
    <2>2. Here.line.text = text /\ Len(text) <= InputCap
      BY <2>1 DEF Editing, Edit, Proper
    <2> QED
      BY <2>2 DEF Here
  <1>2. HistoryGood(hist, recall_pos) /\ previously_called_from_history \in BOOLEAN
    BY DEF CliInv
  <1>3. Remember(text)
    BY <1>1
  <1>4. CASE text = <<>>
    <2>1. UNCHANGED historyVars
      BY <1>3, <1>4 DEF Remember
    <2>2. /\ hist' = hist /\ recall_pos' = recall_pos
          /\ previously_called_from_history' = previously_called_from_history
      BY <2>1 DEF historyVars
    <2>3. ~(Len(text) \in 1..HistCap - 1)
      BY <1>4
    <2> QED
      BY <1>1, <1>2, <2>2, <2>3
  <1>5. CASE text /= <<>> /\ text = CurrentRecall(hist, recall_pos).line
    <2>1. hist' = hist /\ recall_pos' = recall_pos /\ previously_called_from_history' = TRUE
      BY <1>3, <1>5 DEF Remember
    <2>2. Found(hist, CurrentRecall(hist, recall_pos))
      BY <1>2, RecallFound
    <2>3. IsEntry(hist, text)
      BY <1>5, <2>2 DEF Found
    <2> QED
      BY <1>1, <1>2, <2>1, <2>3
  <1>6. CASE text /= <<>> /\ text /= CurrentRecall(hist, recall_pos).line
    <2>1. /\ hist' = AddLine(hist, text) /\ recall_pos' = Len(hist')
          /\ previously_called_from_history' = previously_called_from_history
      BY <1>3, <1>6 DEF Remember
    <2>2. /\ HistoryGood(AddLine(hist, text), Len(AddLine(hist, text)))
          /\ Len(text) < HistCap => IsEntry(AddLine(hist, text), text)
      BY <1>1, <1>2, <1>6, AddGood
    <2>3. HistoryGood(hist', recall_pos') /\ (Len(text) < HistCap => IsEntry(hist', text))
      BY <2>1, <2>2
    <2>4. ASSUME Len(text) \in 1..HistCap - 1 PROVE Len(text) < HistCap
      BY <2>4, CapacityAssumption
    <2> QED
      BY <1>1, <1>2, <2>1, <2>3, <2>4
  <1> QED
    BY <1>4, <1>5, <1>6

(***************************************************************************)
(* The steps                                                               *)
(***************************************************************************)
\* Every character keeps the invariant and the row.
LEMMA CharStep ==
  ASSUME CliInv, NEW c, put_char(c)
  PROVE  CliInv' /\ InStep
  <1> USE DEF EscapeState
  <1>0. Good(Here)
    BY DEF CliInv
  <1>1. /\ Follows(Here, delete_char(Here)) /\ Follows(Here, backspace_char(Here))
        /\ Follows(Here, on_arrow_left_key(Here)) /\ Follows(Here, on_arrow_right_key(Here))
        /\ Follows(Here, on_home_key(Here))
        /\ \A d \in Char : Follows(Here, insert(Here, d))
    BY <1>0, EditsFollow
  <1>2. CASE Escape(c) \/ OpenDelimiter(c) \/ DeleteKeyNumber(c)
    BY <1>2, IdleStep DEF Escape, OpenDelimiter, DeleteKeyNumber, Handled
  <1>3. CASE DeleteInSequence(c) \/ DeleteKey(c)
    <2>1. /\ Become(delete_char(Here)) /\ UNCHANGED historyVars
          /\ escape_state' \in EscapeState /\ ret' \in BOOLEAN
      BY <1>3 DEF DeleteInSequence, DeleteKey, Handled
    <2> QED
      BY <1>1, <2>1, EditStep
  <1>4. CASE CursorKey(c)
    <2>1. /\ UNCHANGED historyVars /\ escape_state' \in EscapeState /\ ret' \in BOOLEAN
          /\ \/ Become(on_home_key(Here)) \/ Become(on_arrow_right_key(Here))
             \/ Become(on_arrow_left_key(Here))
      BY <1>4 DEF CursorKey, Handled
    <2>2. PICK f : Follows(Here, f) /\ Become(f)
      BY <1>1, <2>1
    <2> QED
      BY <2>1, <2>2, EditStep
  <1>5. CASE BrowseKey(c)
    <2>1. /\ on_arrow_up_key \/ on_arrow_down_key
          /\ escape_state' \in EscapeState /\ ret' \in BOOLEAN
      BY <1>5 DEF BrowseKey, Handled
    <2>2. /\ Good(Here)' /\ HistoryGood(hist, recall_pos)' /\ InStep
          /\ previously_called_from_history' \in BOOLEAN
      BY <2>1, RecallKeyStep
    <2> QED
      BY <2>1, <2>2 DEF CliInv
  <1>6. ASSUME Outside(c) PROVE escape_state' \in EscapeState
    BY <1>6 DEF Outside
  <1>7. CASE Enter(c)
    <2>1. /\ Remember(input.text) /\ input' = Line!Empty /\ screen' = FreshRow
          /\ ret' \in BOOLEAN /\ Outside(c)
      BY <1>7 DEF Enter
    <2>2. HistoryGood(hist, recall_pos)' /\ previously_called_from_history' \in BOOLEAN
      BY <2>1, RememberStep
    <2>3. Good(Here') /\ Shows(Here')
      BY <2>1, FreshGood DEF Here
    <2>4. InStep
      BY <2>3 DEF InStep, Shows, Here
    <2>5. CliInv'
      BY <1>6, <2>1, <2>2, <2>3 DEF CliInv
    <2> QED
      BY <2>4, <2>5
  <1>8. CASE Backspace(c)
    <2>1. /\ Become(backspace_char(Here)) /\ UNCHANGED historyVars
          /\ escape_state' \in EscapeState /\ ret' \in BOOLEAN
      BY <1>6, <1>8 DEF Backspace
    <2> QED
      BY <1>1, <2>1, EditStep
  <1>9. CASE Type(c)
    <2>1. /\ Become(insert(Here, c)) /\ UNCHANGED historyVars /\ c \in Char
          /\ escape_state' \in EscapeState /\ ret' \in BOOLEAN
      BY <1>6, <1>9 DEF Type
    <2> QED
      BY <1>1, <2>1, EditStep
  <1>10. CASE Ignore(c)
    BY <1>6, <1>10, IdleStep DEF Ignore
  <1> QED
    BY <1>2, <1>3, <1>4, <1>5, <1>7, <1>8, <1>9, <1>10 DEF put_char, handle_escape

LEMMA CliStep ==
  ASSUME CliInv, [Next]_vars
  PROVE  CliInv' /\ InStep
  <1>1. CASE Next
    <2>1. PICK c \in keys : put_char(c)
      BY <1>1 DEF Next
    <2> QED
      BY <2>1, CharStep
  <1>2. CASE UNCHANGED vars
    <2>1. /\ UNCHANGED <<input, screen, hist, recall_pos>> /\ escape_state' = escape_state
          /\ previously_called_from_history' = previously_called_from_history /\ ret' = ret
      BY <1>2 DEF vars
    <2> QED
      BY <2>1, IdleStep DEF CliInv, historyVars
  <1> QED
    BY <1>1, <1>2

(***************************************************************************)
(* The theorems                                                            *)
(***************************************************************************)
LEMMA CliTyped ==
  ASSUME CliInv
  PROVE  TypeOK
  <1>1. PICK text \in Seq(Char) : \E cur \in Nat : \E row \in Row : \E col \in Nat :
          Editing(Here, text, cur, row, col)
    BY DEF CliInv, Good
  <1>2. PICK cur \in Nat : \E row \in Row : \E col \in Nat : Editing(Here, text, cur, row, col)
    BY <1>1
  <1>3. PICK row \in Row : \E col \in Nat : Editing(Here, text, cur, row, col)
    BY <1>2
  <1>4. PICK col \in Nat : Editing(Here, text, cur, row, col)
    BY <1>3
  <1>5. Here = Edit(text, cur, row, col) /\ Proper(text, cur, row, col)
    BY <1>4 DEF Editing
  <1>6. input = [text |-> text, cursor |-> cur] /\ screen = [row |-> row, col |-> col]
    BY <1>5 DEF Here, Edit, Terminal
  <1>7. PICK n \in Nat : n = Len(text)
    BY LenProperties
  <1>8. n <= InputCap /\ cur \in 0..n /\ col \in 0..Prompt + cur /\ InputCap \in Nat
    BY <1>5, <1>7, ColumnIs DEF Proper
  <1>9. input \in Line!Line /\ input.cursor <= Len(input.text)
    <2>1. text \in [1..n -> Char] /\ n \in 0..InputCap /\ cur \in 0..InputCap
      BY <1>7, <1>8, LenProperties, ElementOfSeq
    <2>2. text \in UNION {[1..i -> Char] : i \in 0..InputCap}
      BY <2>1
    <2>3. input \in Line!Line
      BY <1>6, <2>1, <2>2 DEF Line!Line
    <2> QED
      BY <1>6, <1>7, <1>8, <2>3
  <1>10. screen.row \in [Column -> Char \union {Blank, ">"}] /\ screen.col \in Column
    <2>1. row \in [Column -> Char \union {Blank, ">"}]
      BY <1>5 DEF Proper, Row, Shown
    <2>2. col \in Column
      BY <1>8, ColumnIs
    <2> QED
      BY <1>6, <2>1, <2>2
  <1>11. hist \in Seq(Char \union {NL}) /\ Len(hist) <= HistCap /\ recall_pos \in 0..Len(hist)
    <2>1. PICK m, pos : Placed(hist, recall_pos, pos, m)
      BY DEF CliInv, HistoryGood
    <2>2. PICK k \in 0..m : recall_pos = pos[k] /\ Cuts(hist, pos, m)
      BY <2>1 DEF Placed
    <2>3. pos[k] \in 0..Len(hist)
      BY <2>2 DEF Cuts
    <2> QED
      BY <2>2, <2>3 DEF CliInv, HistoryGood, Text
  <1> QED
    BY <1>9, <1>10, <1>11 DEF CliInv, TypeOK

\* Every field of the command line has its type in every reachable state, the
\* cursor is in the line and the position of the arrow keys in the history:
\* whatever is printed, the terminal's cursor stays on the row.
THEOREM CliTypes == Spec => []TypeOK
  <1>1. Init => CliInv
    BY CliStart
  <1>2. CliInv /\ [Next]_vars => CliInv'
    BY CliStep
  <1>3. CliInv => TypeOK
    BY CliTyped
  <1> QED
    BY <1>1, <1>2, <1>3, PTL DEF Spec

\* Every key leaves the terminal showing the line and the cursor, for every
\* length of the line and every set of characters, except for a recall with
\* the cursor inside the line.
THEOREM ScreenShowsLine == Spec => ScreenInSync
  <1>1. Init => CliInv
    BY CliStart
  <1>2. CliInv /\ [Next]_vars => CliInv' /\ InStep
    BY CliStep
  <1> QED
    BY <1>1, <1>2, PTL DEF Spec, ScreenInSync, InStep

LEMMA RecallShows ==
  ASSUME CliInv, on_arrow_up_key \/ on_arrow_down_key, input' /= input
  PROVE  \E k \in DOMAIN Entries(hist) :
           input' = [text |-> Entries(hist)[k], cursor |-> Len(Entries(hist)[k])]
  <1>1. PICK l : input' = [text |-> l, cursor |-> Len(l)] /\ IsEntry(hist, l)
    BY RecallKeyStep
  <1>2. PICK k \in DOMAIN Entries(hist) : l = Entries(hist)[k]
    BY <1>1 DEF IsEntry
  <1> QED
    BY <1>1, <1>2

\* A recall that changes the input puts a whole entry of the history there, with
\* the cursor at its end, whatever was typed before and whatever the ring has
\* overwritten.
THEOREM RecallsShowEntries == Spec => RecallShowsEntry
  <1>1. Init => CliInv
    BY CliStart
  <1>2. CliInv /\ [Next]_vars => CliInv'
    BY CliStep
  <1>3. CliInv /\ (on_arrow_up_key \/ on_arrow_down_key) /\ input' /= input =>
          \E k \in DOMAIN Entries(hist) :
            input' = [text |-> Entries(hist)[k], cursor |-> Len(Entries(hist)[k])]
    BY RecallShows
  <1> QED
    BY <1>1, <1>2, <1>3, PTL DEF Spec, RecallShowsEntry

LEMMA EnterKeeps ==
  ASSUME CliInv, Enter(CR), Len(input.text) \in 1..HistCap - 1
  PROVE  \E k \in DOMAIN Entries(hist') : Entries(hist')[k] = input.text
  <1>1. Remember(input.text)
    BY DEF Enter
  <1>2. IsEntry(hist', input.text)
    BY <1>1, RememberStep
  <1> QED
    BY <1>2 DEF IsEntry

\* A line that is executed is an entry of the history afterwards, be it added
\* or taken for the one recalled, whatever the ring overwrites for it.
THEOREM LinesAreKept == Spec => EnteredLineKept
  <1>1. Init => CliInv
    BY CliStart
  <1>2. CliInv /\ [Next]_vars => CliInv'
    BY CliStep
  <1>3. CliInv /\ Enter(CR) /\ Len(input.text) \in 1..HistCap - 1 =>
          \E k \in DOMAIN Entries(hist') : Entries(hist')[k] = input.text
    BY EnterKeeps
  <1> QED
    BY <1>1, <1>2, <1>3, PTL DEF Spec, EnteredLineKept
=============================================================================
