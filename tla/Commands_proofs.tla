--------------------------- MODULE Commands_proofs ---------------------------
(***************************************************************************)
(* Proofs about Commands, for any commands, lists and lines.               *)
(***************************************************************************)
EXTENDS Commands, SequenceTheorems, FiniteSetTheorems, TLAPS

(***************************************************************************)
(* Induction                                                               *)
(***************************************************************************)
\* A set of numbers has a least one.
LEMMA LeastNat ==
  ASSUME NEW S \in SUBSET Nat, S /= {}
  PROVE  \E x \in S : \A y \in S : x <= y
  <1> DEFINE R == OpToRel(<, Nat)
  <1>1. IsWellFoundedOn(R, Nat)
    BY NatLessThanWellFounded
  <1>2. PICK x \in S : \A y \in S : ~(<<y, x>> \in R)
    BY <1>1, WFMin
  <1>3. ASSUME NEW y \in S, ~(x <= y) PROVE FALSE
    <2>1. x \in Nat /\ y \in Nat /\ y < x
      BY <1>3
    <2>2. <<y, x>> \in R
      BY <2>1 DEF OpToRel
    <2> QED
      BY <1>2, <2>2
  <1> QED
    BY <1>3

\* Two functions on 1..n that are alike at each number, if they are before it,
\* are alike.
Alike(f, g, n) ==
  n \in Nat /\ \A i \in 1..n : (i > 1 => f[i - 1] = g[i - 1]) => f[i] = g[i]

LEMMA SameFunction ==
  ASSUME NEW n, NEW f, NEW g, Alike(f, g, n)
  PROVE  \A i \in 1..n : f[i] = g[i]
  <1>0. n \in Nat
    BY DEF Alike
  <1> DEFINE S == {i \in 1..n : f[i] /= g[i]}
  <1>1. SUFFICES ASSUME S /= {} PROVE FALSE
    OBVIOUS
  <1>2. S \in SUBSET Nat
    BY <1>0
  <1>3. PICK x \in S : \A y \in S : x <= y
    BY <1>1, <1>2, LeastNat
  <1>4. x \in 1..n /\ (x > 1 => x - 1 \in 1..n /\ ~(x <= x - 1))
    BY <1>0, <1>3
  <1>5. x > 1 => f[x - 1] = g[x - 1]
    BY <1>3, <1>4
  <1> QED
    BY <1>3, <1>4, <1>5 DEF Alike

(***************************************************************************)
(* The lists.  The invariant gives each list as a sequence without         *)
(* repetitions whose links the nodes hold.                                 *)
(***************************************************************************)
Member(list, c) ==
  c \in constructed /\ ListOf(c) = list /\ ~(c \in early /\ Parent(c) \in constructed)

Linked(list, s) ==
  /\ s \in Seq(Cmd)
  /\ \A i, j \in 1..Len(s) : s[i] = s[j] => i = j
  /\ \A c \in Cmd : Member(list, c) <=> \E i \in 1..Len(s) : s[i] = c
  /\ head[list] = IF Len(s) = 0 THEN None ELSE s[1]
  /\ \A i \in 1..Len(s) : next[s[i]] = IF i < Len(s) THEN s[i + 1] ELSE None

LinkInv ==
  /\ constructed \subseteq Cmd /\ early \subseteq constructed
  /\ head \in [Lists -> Cmd \union {None}] /\ next \in [Cmd -> Cmd \union {None}]
  /\ \A c \in constructed : Parent(c) \in Cmd \ constructed => c \in early
  /\ \A c \in early : Parent(c) \in Cmd
  /\ \A list \in Lists : \E s : Linked(list, s)

LEMMA LinkInit ==
  ASSUME Init
  PROVE  LinkInv
  <1>1. ASSUME NEW list \in Lists PROVE Linked(list, <<>>)
    BY <1>1 DEF Init, Linked, Member
  <1> QED
    BY <1>1 DEF Init, LinkInv

\* Whose members the construction of a command changes, and how.
LEMMA ConstructMembers ==
  ASSUME LinkInv, NEW c \in Cmd, Construct(c), NEW list \in Lists, NEW x \in Cmd
  PROVE  Member(list, x)' <=> IF list = c THEN FALSE
                              ELSE Member(list, x) \/ (list = ListOf(c) /\ x = c)
  <1>1. /\ c \notin constructed /\ constructed' = constructed \union {c}
        /\ early' = IF Parent(c) \in Cmd \ constructed THEN early \union {c} ELSE early
        /\ early \subseteq constructed
        /\ \A y \in constructed : Parent(y) \in Cmd \ constructed => y \in early
    BY DEF Construct, LinkInv
  <1>2. Parent(c) /= c /\ (ListOf(x) = c => Parent(x) = c) /\ (Parent(x) = c => ListOf(x) = c)
    BY ParentAssumption, CmdAssumption DEF ListOf
  <1>3. ListOf(c) /= c
    BY ParentAssumption, CmdAssumption DEF ListOf
  <1>4. CASE x = c
    BY <1>1, <1>2, <1>3, <1>4 DEF Member
  <1>5. CASE x /= c /\ list = c
    BY <1>1, <1>2, <1>5 DEF Member
  <1>6. CASE x /= c /\ list /= c
    BY <1>1, <1>2, <1>6 DEF Member
  <1> QED
    BY <1>4, <1>5, <1>6

\* A new command goes to the front of its list, and has no children.
LEMMA ConstructLinks ==
  ASSUME LinkInv, NEW c \in Cmd, Construct(c)
  PROVE  LinkInv'
  <1>1. /\ c \notin constructed /\ constructed' = constructed \union {c}
        /\ early' = IF Parent(c) \in Cmd \ constructed THEN early \union {c} ELSE early
        /\ constructed \subseteq Cmd /\ early \subseteq constructed
        /\ \A y \in constructed : Parent(y) \in Cmd \ constructed => y \in early
        /\ \A y \in early : Parent(y) \in Cmd
    BY DEF Construct, LinkInv
  <1>2. /\ ListOf(c) \in Lists /\ ListOf(c) /= c /\ c \in Lists /\ None \notin Cmd
        /\ Parent(c) /= c
    BY ParentAssumption, CmdAssumption DEF ListOf, Lists
  <1>3. /\ head \in [Lists -> Cmd \union {None}] /\ next \in [Cmd -> Cmd \union {None}]
        /\ head' = [head EXCEPT ![c] = None, ![ListOf(c)] = c]
        /\ next' = [next EXCEPT ![c] = head[ListOf(c)]]
    BY DEF Construct, push_front, LinkInv
  <1>4. /\ head' \in [Lists -> Cmd \union {None}] /\ next' \in [Cmd -> Cmd \union {None}]
        /\ head'[c] = None /\ head'[ListOf(c)] = c /\ next'[c] = head[ListOf(c)]
        /\ \A list \in Lists : list /= c /\ list /= ListOf(c) => head'[list] = head[list]
        /\ \A x \in Cmd : x /= c => next'[x] = next[x]
    BY <1>2, <1>3
  <1>5. ASSUME NEW list \in Lists PROVE \E s : Linked(list, s)'
    <2>1. \A x \in Cmd : Member(list, x)' <=> IF list = c THEN FALSE
                                ELSE Member(list, x) \/ (list = ListOf(c) /\ x = c)
      BY ConstructMembers
    <2>2. PICK s : Linked(list, s)
      BY DEF LinkInv
    <2>3. /\ s \in Seq(Cmd) /\ Len(s) \in Nat
          /\ \A i \in 1..Len(s) : s[i] \in Cmd /\ s[i] \in constructed
      BY <2>2, ElementOfSeq, LenProperties DEF Linked, Member
    <2>4. CASE list = c
      <3>1. Linked(list, <<>>)'
        BY <1>4, <2>1, <2>4 DEF Linked
      <3> QED
        BY <3>1
    <2>5. CASE list /= c /\ list /= ListOf(c)
      <3>1. Linked(list, s)'
        BY <1>1, <1>4, <2>1, <2>2, <2>3, <2>5 DEF Linked
      <3> QED
        BY <3>1
    <2>6. CASE list = ListOf(c)
      <3>1. PICK t : t = <<c>> \o s
        OBVIOUS
      <3>2. /\ t \in Seq(Cmd) /\ Len(t) = Len(s) + 1 /\ t[1] = c
            /\ \A i \in 1..Len(s) : t[i + 1] = s[i]
        <4>1. <<c>> \in Seq(Cmd) /\ Len(<<c>>) = 1 /\ <<c>>[1] = c
          OBVIOUS
        <4> QED
          BY <2>3, <3>1, <4>1, ConcatProperties
      <3>3. ASSUME NEW i \in 1..Len(t) PROVE i = 1 \/ (i - 1 \in 1..Len(s) /\ t[i] = s[i - 1])
        BY <2>3, <3>2
      <3>4. ASSUME NEW i \in 1..Len(t), NEW j \in 1..Len(t), t[i] = t[j] PROVE i = j
        BY <1>1, <2>2, <2>3, <3>2, <3>3, <3>4 DEF Linked
      <3>5. ASSUME NEW x \in Cmd PROVE Member(list, x)' <=> \E i \in 1..Len(t) : t[i] = x
        <4>1. Member(list, x)' <=> Member(list, x) \/ x = c
          BY <1>2, <2>1, <2>6
        <4>2. Member(list, x) <=> \E i \in 1..Len(s) : s[i] = x
          BY <2>2 DEF Linked
        <4>3. ASSUME NEW i \in 1..Len(s) PROVE i + 1 \in 1..Len(t) /\ t[i + 1] = s[i]
          BY <2>3, <3>2
        <4>4. 1 \in 1..Len(t) /\ t[1] = c
          BY <2>3, <3>2
        <4> QED
          BY <3>3, <4>1, <4>2, <4>3, <4>4
      <3>6. ASSUME NEW i \in 1..Len(t)
            PROVE  next'[t[i]] = IF i < Len(t) THEN t[i + 1] ELSE None
        <4>1. CASE i = 1
          <5>1. t[i] = c /\ next'[c] = head[list] /\ (Len(s) > 0 => head[list] = s[1])
            BY <1>1, <1>4, <2>2, <2>3, <2>6, <3>2, <4>1 DEF Linked
          <5>2. Len(s) = 0 => head[list] = None
            BY <2>2, <2>3 DEF Linked
          <5>3. Len(s) > 0 => t[2] = s[1]
            BY <2>3, <3>2
          <5> QED
            BY <2>3, <3>2, <4>1, <5>1, <5>2, <5>3
        <4>2. CASE i /= 1
          <5>1. i - 1 \in 1..Len(s) /\ t[i] = s[i - 1]
            BY <3>3, <3>6, <4>2
          <5>2. next[s[i - 1]] = IF i - 1 < Len(s) THEN s[i - 1 + 1] ELSE None
            BY <2>2, <5>1 DEF Linked
          <5>3. s[i - 1] /= c /\ next'[s[i - 1]] = next[s[i - 1]]
            BY <1>1, <1>4, <2>2, <2>3, <2>6, <5>1 DEF Linked
          <5>4. i - 1 < Len(s) => t[i + 1] = s[i - 1 + 1]
            BY <2>3, <3>2, <5>1
          <5> QED
            BY <2>3, <3>2, <5>1, <5>2, <5>3, <5>4
        <4> QED
          BY <4>1, <4>2
      <3>7. Len(t) > 0 /\ head'[list] = t[1]
        BY <1>4, <2>3, <2>6, <3>2
      <3>8. Linked(list, t)'
        BY <3>2, <3>4, <3>5, <3>6, <3>7 DEF Linked
      <3> QED
        BY <3>8
    <2> QED
      BY <2>4, <2>5, <2>6
  <1>6. constructed' \subseteq Cmd /\ early' \subseteq constructed'
    BY <1>1
  <1>7. \A y \in constructed' : Parent(y) \in Cmd \ constructed' => y \in early'
    BY <1>1
  <1>8. \A y \in early' : Parent(y) \in Cmd
    BY <1>1
  <1> QED
    BY <1>4, <1>5, <1>6, <1>7, <1>8 DEF LinkInv

LEMMA LinkStep ==
  ASSUME LinkInv, [Next]_vars
  PROVE  LinkInv'
  <1>1. ASSUME NEW c \in Cmd, Construct(c) PROVE LinkInv'
    BY <1>1, ConstructLinks
  <1>2. ASSUME UNCHANGED <<constructed, head, next, early>> PROVE LinkInv'
    BY <1>2 DEF LinkInv, Linked, Member
  <1>3. ASSUME NEW words \in Lines, NEW complete \in BOOLEAN, execute_line(words, complete)
        PROVE  LinkInv'
    BY <1>2, <1>3 DEF execute_line
  <1>4. CASE Prompt
    BY <1>2, <1>4 DEF Prompt
  <1>5. CASE UNCHANGED vars
    BY <1>2, <1>5 DEF vars
  <1> QED
    BY <1>1, <1>3, <1>4, <1>5 DEF Next

(***************************************************************************)
(* Walking a list                                                          *)
(***************************************************************************)
\* The equation of the recursive function in Chain.
Node(list, node, n) ==
  IF n = 1 THEN head[list] ELSE IF node[n - 1] = None THEN None ELSE next[node[n - 1]]

\* node is its only solution.
Walk(list, node) ==
  /\ node = [n \in 1..Cardinality(Cmd) |-> Node(list, node, n)]
  /\ \A f : f = [n \in 1..Cardinality(Cmd) |-> Node(list, f, n)] => f = node

LEMMA ChainDef ==
  ASSUME NEW list, NEW node, Walk(list, node)
  PROVE  Chain(list) = [n \in 1..Cardinality({m \in DOMAIN node : node[m] /= None}) |-> node[n]]
  <1>1. (CHOOSE f : f = [n \in 1..Cardinality(Cmd) |-> Node(list, f, n)]) = node
    BY DEF Walk
  <1>2. Chain(list) =
          LET f == CHOOSE f : f = [n \in 1..Cardinality(Cmd) |-> Node(list, f, n)]
          IN  [n \in 1..Cardinality({m \in DOMAIN f : f[m] /= None}) |-> f[n]]
    BY Zenon DEF Chain, Node
  <1> QED
    BY <1>1, <1>2

\* A sequence without repetitions is no longer than there are commands.
LEMMA NoRepetitions ==
  ASSUME NEW s \in Seq(Cmd), \A i, j \in 1..Len(s) : s[i] = s[j] => i = j
  PROVE  Len(s) <= Cardinality(Cmd)
  <1>1. s \in Injection(1..Len(s), Cmd)
    BY LenProperties DEF Injection, IsInjective
  <1>2. Cardinality(1..Len(s)) <= Cardinality(Cmd)
    BY <1>1, FS_Injection, CmdAssumption
  <1>3. PICK n \in Nat : n = Len(s)
    BY LenProperties
  <1>4. Cardinality(1..n) = n
    <2>1. Cardinality(1..n) = IF 1 > n THEN 0 ELSE n - 1 + 1
      BY FS_Interval
    <2> QED
      BY <2>1
  <1> QED
    BY <1>2, <1>3, <1>4

\* The walk from the head of a list is its sequence.
LEMMA ChainIs ==
  ASSUME NEW list, NEW s, Linked(list, s)
  PROVE  Chain(list) = s
  <1>1. PICK N : N = Cardinality(Cmd)
    OBVIOUS
  <1>2. N \in Nat /\ None \notin Cmd
    BY <1>1, FS_CardinalityType, CmdAssumption
  <1>3. /\ s \in Seq(Cmd) /\ Len(s) \in Nat
        /\ s \in [1..Len(s) -> Cmd]
        /\ \A i \in 1..Len(s) : s[i] \in Cmd /\ s[i] /= None
    BY <1>2, LenProperties DEF Linked
  <1>4. Len(s) <= N
    BY <1>1, <1>3, NoRepetitions DEF Linked
  <1>5. PICK node : node = [n \in 1..N |-> IF n <= Len(s) THEN s[n] ELSE None]
    OBVIOUS
  <1>6. /\ DOMAIN node = 1..N
        /\ \A n \in 1..N : node[n] = IF n <= Len(s) THEN s[n] ELSE None
    BY <1>5
  <1>7. ASSUME NEW n \in 1..N PROVE node[n] = Node(list, node, n)
    <2>1. CASE n = 1
      BY <1>3, <1>6, <2>1 DEF Node, Linked
    <2>2. CASE n /= 1 /\ n - 1 <= Len(s)
      <3>1. /\ n - 1 \in 1..N /\ n - 1 \in 1..Len(s) /\ n - 1 + 1 = n
            /\ n - 1 < Len(s) <=> n <= Len(s)
        BY <1>2, <1>3, <2>2
      <3>2. node[n - 1] = s[n - 1] /\ s[n - 1] /= None
        BY <1>3, <1>6, <3>1
      <3>3. next[s[n - 1]] = IF n <= Len(s) THEN s[n] ELSE None
        BY <3>1 DEF Linked
      <3> QED
        BY <1>6, <2>2, <3>2, <3>3 DEF Node
    <2>3. CASE n /= 1 /\ ~(n - 1 <= Len(s))
      <3>1. n - 1 \in 1..N /\ ~(n <= Len(s))
        BY <1>2, <1>3, <2>3
      <3>2. node[n - 1] = None /\ node[n] = None
        BY <1>6, <2>3, <3>1
      <3> QED
        BY <2>3, <3>2 DEF Node
    <2> QED
      BY <2>1, <2>2, <2>3
  <1>8. node = [n \in 1..N |-> Node(list, node, n)]
    BY <1>5, <1>7
  <1>9. ASSUME NEW f, f = [n \in 1..N |-> Node(list, f, n)] PROVE f = node
    <2>1. \A n \in 1..N : f[n] = Node(list, f, n)
      BY <1>9
    <2>2. ASSUME NEW n \in 1..N, n > 1 => f[n - 1] = node[n - 1] PROVE f[n] = node[n]
      BY <1>7, <2>1, <2>2 DEF Node
    <2>3. \A n \in 1..N : f[n] = node[n]
      BY <1>2, <2>2, SameFunction DEF Alike
    <2>4. DOMAIN f = 1..N
      BY <1>9
    <2>5. f = [n \in 1..N |-> f[n]] /\ node = [n \in 1..N |-> node[n]]
      BY <1>5, <1>6, <1>9, <2>4
    <2> QED
      BY <2>3, <2>5
  <1>10. Chain(list) = [n \in 1..Cardinality({m \in DOMAIN node : node[m] /= None}) |-> node[n]]
    <2>1. node = [n \in 1..Cardinality(Cmd) |-> Node(list, node, n)]
      BY <1>1, <1>8
    <2>2. ASSUME NEW f, f = [n \in 1..Cardinality(Cmd) |-> Node(list, f, n)] PROVE f = node
      BY <1>1, <1>9, <2>2
    <2>3. Walk(list, node)
      BY <2>1, <2>2 DEF Walk
    <2> QED
      BY <2>3, ChainDef
  <1>11. {m \in DOMAIN node : node[m] /= None} = 1..Len(s)
    BY <1>2, <1>3, <1>4, <1>6
  <1>12. Cardinality(1..Len(s)) = Len(s)
    BY <1>3, FS_Interval
  <1>13. Chain(list) = [n \in 1..Len(s) |-> node[n]]
    BY <1>10, <1>11, <1>12
  <1>14. \A n \in 1..Len(s) : node[n] = s[n]
    BY <1>2, <1>3, <1>4, <1>6
  <1> QED
    BY <1>3, <1>13, <1>14

\* Each list that a command can be in is walked to its end, and holds the
\* commands that are its members, once each.
LEMMA ChainMembers ==
  ASSUME LinkInv, NEW list \in Lists
  PROVE  /\ Chain(list) \in Seq(Cmd)
         /\ \A i, j \in 1..Len(Chain(list)) : Chain(list)[i] = Chain(list)[j] => i = j
         /\ \A c \in Cmd : Member(list, c) <=> \E i \in 1..Len(Chain(list)) : Chain(list)[i] = c
  <1>1. PICK s : Linked(list, s)
    BY DEF LinkInv
  <1>2. Chain(list) = s
    BY <1>1, ChainIs
  <1> QED
    BY <1>1, <1>2 DEF Linked

LEMMA LinkInvWhole ==
  ASSUME LinkInv
  PROVE  ListsWhole
  <1>1. SUFFICES ASSUME NEW list \in Lists, NEW c \in Cmd
        PROVE  Cardinality({i \in DOMAIN Chain(list) : Chain(list)[i] = c})
                 = IF Member(list, c) THEN 1 ELSE 0
    BY DEF ListsWhole, Member
  <1>2. PICK s : s = Chain(list)
    OBVIOUS
  <1>3. /\ s \in Seq(Cmd)
        /\ \A i, j \in 1..Len(s) : s[i] = s[j] => i = j
        /\ Member(list, c) <=> \E i \in 1..Len(s) : s[i] = c
    BY <1>2, ChainMembers
  <1>4. DOMAIN s = 1..Len(s)
    BY <1>3, LenProperties
  <1>5. CASE Member(list, c)
    <2>1. PICK i \in 1..Len(s) : s[i] = c
      BY <1>3, <1>5
    <2>2. {j \in DOMAIN s : s[j] = c} = {i}
      BY <1>3, <1>4, <2>1
    <2> QED
      BY <1>2, <1>5, <2>2, FS_Singleton
  <1>6. CASE ~Member(list, c)
    <2>1. {j \in DOMAIN s : s[j] = c} = {}
      BY <1>3, <1>4, <1>6
    <2> QED
      BY <1>2, <1>6, <2>1, FS_EmptySet
  <1> QED
    BY <1>5, <1>6

(***************************************************************************)
(* Paths                                                                   *)
(***************************************************************************)
\* p leads from a command without a parent down to c.
IsPath(p, c) ==
  /\ p \in Seq(Cmd) /\ Len(p) \in 1..Cardinality(Cmd)
  /\ Parent(p[1]) = None /\ p[Len(p)] = c
  /\ \A i \in 2..Len(p) : Parent(p[i]) = p[i - 1]

\* The equation of the recursive function in Ancestry, and its only solution.
Up(c, up, n) == IF n = 1 THEN c ELSE IF up[n - 1] = None THEN None ELSE Parent(up[n - 1])

Climb(c, up) ==
  /\ up = [n \in 1..Cardinality(Cmd) |-> Up(c, up, n)]
  /\ \A f : f = [n \in 1..Cardinality(Cmd) |-> Up(c, f, n)] => f = up

LEMMA AncestryIs ==
  ASSUME NEW c, NEW up, Climb(c, up)
  PROVE  Ancestry(c) = up
  <1>1. (CHOOSE f : f = [n \in 1..Cardinality(Cmd) |-> Up(c, f, n)]) = up
    BY DEF Climb
  <1>2. Ancestry(c) = CHOOSE f : f = [n \in 1..Cardinality(Cmd) |-> Up(c, f, n)]
    BY Zenon DEF Ancestry, Up
  <1> QED
    BY <1>1, <1>2

LEMMA PathIs ==
  ASSUME NEW c \in Cmd, NEW p, IsPath(p, c)
  PROVE  Path(c) = p /\ Depth(c) = Len(p) /\ resolve_cmd_depth(c) = Len(p) - 1
  <1>1. PICK N, d : N = Cardinality(Cmd) /\ d = Len(p)
    OBVIOUS
  <1>2. /\ N \in Nat /\ None \notin Cmd /\ d \in Nat /\ d >= 1 /\ d <= N
        /\ p \in [1..d -> Cmd] /\ \A i \in 1..d : p[i] \in Cmd /\ p[i] /= None
    <2>1. N \in Nat /\ None \notin Cmd
      BY <1>1, FS_CardinalityType, CmdAssumption
    <2> QED
      BY <1>1, <2>1, LenProperties DEF IsPath
  <1>3. /\ Parent(p[1]) = None /\ p[d] = c
        /\ \A i \in 2..d : Parent(p[i]) = p[i - 1]
    BY <1>1 DEF IsPath
  <1>4. PICK up : up = [n \in 1..N |-> IF n <= d THEN p[d + 1 - n] ELSE None]
    OBVIOUS
  <1>5. /\ DOMAIN up = 1..N
        /\ \A n \in 1..N : up[n] = IF n <= d THEN p[d + 1 - n] ELSE None
    BY <1>4
  <1>6. ASSUME NEW n \in 1..N PROVE up[n] = Up(c, up, n)
    <2>1. CASE n = 1
      BY <1>2, <1>3, <1>5, <2>1 DEF Up
    <2>2. CASE n /= 1 /\ n <= d
      <3>1. /\ n - 1 \in 1..N /\ n - 1 <= d
            /\ d + 1 - (n - 1) \in 2..d /\ d + 1 - (n - 1) - 1 = d + 1 - n
        BY <1>2, <2>2
      <3>2. up[n - 1] = p[d + 1 - (n - 1)] /\ up[n - 1] /= None
        BY <1>2, <1>5, <3>1
      <3>3. Parent(up[n - 1]) = p[d + 1 - n]
        <4>1. PICK j \in 2..d : j = d + 1 - (n - 1)
          BY <3>1
        <4>2. Parent(p[j]) = p[j - 1] /\ j - 1 = d + 1 - n
          BY <1>2, <1>3, <3>1, <4>1
        <4> QED
          BY <3>2, <4>1, <4>2
      <3> QED
        BY <1>5, <2>2, <3>2, <3>3 DEF Up
    <2>3. CASE n = d + 1
      <3>1. n /= 1 /\ n - 1 \in 1..N /\ n - 1 <= d /\ d + 1 - (n - 1) = 1 /\ ~(n <= d)
        BY <1>2, <2>3
      <3>2. up[n - 1] = p[1] /\ up[n] = None
        BY <1>5, <3>1
      <3> QED
        BY <1>3, <3>1, <3>2 DEF Up
    <2>4. CASE n > d + 1
      <3>1. n /= 1 /\ n - 1 \in 1..N /\ ~(n - 1 <= d) /\ ~(n <= d)
        BY <1>2, <2>4
      <3>2. up[n - 1] = None /\ up[n] = None
        BY <1>5, <3>1
      <3> QED
        BY <3>1, <3>2 DEF Up
    <2> QED
      BY <1>2, <2>1, <2>2, <2>3, <2>4
  <1>7. ASSUME NEW f, f = [n \in 1..N |-> Up(c, f, n)] PROVE f = up
    <2>1. \A n \in 1..N : f[n] = Up(c, f, n)
      BY <1>7
    <2>2. ASSUME NEW n \in 1..N, n > 1 => f[n - 1] = up[n - 1] PROVE f[n] = up[n]
      BY <1>6, <2>1, <2>2 DEF Up
    <2>3. \A n \in 1..N : f[n] = up[n]
      <3>1. Alike(f, up, N)
        BY <1>2, <2>2 DEF Alike
      <3> QED
        BY <3>1, SameFunction
    <2>4. f = [n \in 1..N |-> f[n]] /\ up = [n \in 1..N |-> up[n]]
      BY <1>4, <1>5, <1>7
    <2> QED
      BY <2>3, <2>4
  <1>8. Climb(c, up)
    <2>1. up = [n \in 1..Cardinality(Cmd) |-> Up(c, up, n)]
      BY <1>1, <1>4, <1>6
    <2>2. ASSUME NEW f, f = [n \in 1..Cardinality(Cmd) |-> Up(c, f, n)] PROVE f = up
      BY <1>1, <1>7, <2>2
    <2> QED
      BY <2>1, <2>2 DEF Climb
  <1>9. {n \in DOMAIN up : up[n] /= None} = 1..d
    BY <1>2, <1>5
  <1>10. d = Cardinality({n \in DOMAIN up : up[n] /= None})
    <2>1. Cardinality(1..d) = d
      BY <1>2, FS_Interval
    <2> QED
      BY <1>9, <2>1
  <1>11. Path(c) = [i \in 1..d |-> up[d + 1 - i]]
    <2>1. Ancestry(c) = up
      BY <1>8, AncestryIs
    <2>2. d = Cardinality({n \in DOMAIN Ancestry(c) : Ancestry(c)[n] /= None})
      BY <1>10, <2>1
    <2>3. Path(c) = [i \in 1..d |-> Ancestry(c)[d + 1 - i]]
      BY Zenon, <2>2 DEF Path
    <2> QED
      BY <2>1, <2>3
  <1>12. ASSUME NEW i \in 1..d PROVE up[d + 1 - i] = p[i]
    <2>1. d + 1 - i \in 1..N /\ d + 1 - i <= d /\ d + 1 - (d + 1 - i) = i
      BY <1>2
    <2> QED
      BY <1>5, <2>1
  <1>13. Path(c) = p
    BY <1>2, <1>11, <1>12
  <1>14. resolve_cmd_depth(c) = d - 1
    <2>1. {n \in 2..N : up[n] /= None} = 2..d
      BY <1>2, <1>5
    <2>2. Cardinality(2..d) = d - 1
      BY <1>2, FS_Interval
    <2>3. Ancestry(c) = up
      BY <1>8, AncestryIs
    <2> QED
      BY <1>1, <2>1, <2>2, <2>3 DEF resolve_cmd_depth
  <1> QED
    BY <1>1, <1>13, <1>14 DEF Depth

\* One command further down.
LEMMA PathLonger ==
  ASSUME NEW c \in Cmd, NEW p, NEW q, IsPath(q, Parent(c)), Parent(c) \in Cmd,
         p = Append(q, c), Len(q) < Cardinality(Cmd)
  PROVE  IsPath(p, c)
  <1>1. /\ q \in Seq(Cmd) /\ Len(q) \in Nat /\ Len(q) >= 1 /\ Cardinality(Cmd) \in Nat
        /\ Parent(q[1]) = None /\ q[Len(q)] = Parent(c)
        /\ \A i \in 2..Len(q) : Parent(q[i]) = q[i - 1]
    BY LenProperties, FS_CardinalityType, CmdAssumption DEF IsPath
  <1>2. /\ p \in Seq(Cmd) /\ Len(p) = Len(q) + 1 /\ p[Len(q) + 1] = c
        /\ \A i \in 1..Len(q) : p[i] = q[i]
    BY <1>1, AppendProperties
  <1>3. ASSUME NEW i \in 2..Len(p) PROVE Parent(p[i]) = p[i - 1]
    <2>1. CASE i = Len(q) + 1
      BY <1>1, <1>2, <2>1
    <2>2. CASE i \in 2..Len(q)
      BY <1>1, <1>2, <2>2
    <2> QED
      BY <1>1, <1>2, <2>1, <2>2
  <1> QED
    BY <1>1, <1>2, <1>3 DEF IsPath

\* In a forest, each command has a path.
LEMMA PathExists ==
  ASSUME Forest, NEW c \in Cmd
  PROVE  \E p : IsPath(p, c)
  <1>1. PICK level \in [Cmd -> 1..Cardinality(Cmd)] :
          \A x \in Cmd : Parent(x) \in Cmd => level[Parent(x)] < level[x]
    BY DEF Forest
  <1>2. Cardinality(Cmd) \in Nat
    BY FS_CardinalityType, CmdAssumption
  <1> DEFINE Short(x) == \E p : IsPath(p, x) /\ Len(p) <= level[x]
  <1> DEFINE S == {n \in Nat : \E x \in Cmd : level[x] = n /\ ~Short(x)}
  <1>3. SUFFICES ASSUME S /= {} PROVE FALSE
    BY <1>1, <1>2
  <1>4. PICK n \in S : \A m \in S : n <= m
    BY <1>3, LeastNat
  <1>5. PICK x \in Cmd : level[x] = n /\ ~Short(x)
    BY <1>4
  <1>6. CASE Parent(x) = None
    <2>1. <<x>> \in Seq(Cmd) /\ Len(<<x>>) = 1 /\ <<x>>[1] = x
      OBVIOUS
    <2>2. IsPath(<<x>>, x)
      BY <1>1, <1>2, <1>6, <2>1 DEF IsPath
    <2> QED
      <3>1. 1 <= level[x]
        BY <1>1, <1>2
      <3> QED
        BY <1>5, <2>1, <2>2, <3>1
  <1>7. CASE Parent(x) /= None
    <2>1. Parent(x) \in Cmd /\ level[Parent(x)] < level[x]
      BY <1>1, <1>7, ParentAssumption
    <2>2. level[Parent(x)] \in Nat /\ level[x] \in Nat /\ level[x] <= Cardinality(Cmd)
      BY <1>1, <1>2, <2>1
    <2>3. level[Parent(x)] \notin S
      BY <1>4, <1>5, <2>1, <2>2
    <2>4. Short(Parent(x))
      BY <2>1, <2>2, <2>3
    <2>5. PICK q : IsPath(q, Parent(x)) /\ Len(q) <= level[Parent(x)]
      BY <2>4
    <2>6. q \in Seq(Cmd) /\ Len(q) \in Nat
      BY <2>5, LenProperties DEF IsPath
    <2>7. Len(q) < Cardinality(Cmd) /\ Len(q) + 1 <= level[x]
      BY <1>2, <2>1, <2>2, <2>5, <2>6
    <2>8. IsPath(Append(q, x), x)
      BY <2>1, <2>5, <2>7, PathLonger
    <2>9. Len(Append(q, x)) = Len(q) + 1
      BY <2>6, AppendProperties
    <2> QED
      BY <1>5, <2>7, <2>8, <2>9
  <1> QED
    BY <1>6, <1>7

\* What a path is, and how it grows from the parent's.
LEMMA PathProperties ==
  ASSUME Forest, NEW c \in Cmd
  PROVE  /\ Path(c) \in Seq(Cmd) /\ Len(Path(c)) = Depth(c) /\ Depth(c) \in Nat /\ Depth(c) >= 1
         /\ Path(c)[Depth(c)] = c /\ Path(c)[1] \in Cmd /\ Parent(Path(c)[1]) = None
         /\ Parent(c) = None => Depth(c) = 1
         /\ Parent(c) \in Cmd => Depth(c) = Depth(Parent(c)) + 1
         /\ Parent(c) \in Cmd => \A i \in 1..Depth(Parent(c)) : Path(c)[i] = Path(Parent(c))[i]
  <1>1. PICK p : IsPath(p, c)
    BY PathExists
  <1>2. Path(c) = p /\ Depth(c) = Len(p)
    BY <1>1, PathIs
  <1>3. /\ p \in Seq(Cmd) /\ Len(p) \in Nat /\ Len(p) >= 1 /\ Len(p) <= Cardinality(Cmd)
        /\ Cardinality(Cmd) \in Nat
        /\ p[Len(p)] = c /\ p[1] \in Cmd /\ Parent(p[1]) = None
        /\ \A i \in 1..Len(p) : p[i] \in Cmd
        /\ \A i \in 2..Len(p) : Parent(p[i]) = p[i - 1]
    BY <1>1, ElementOfSeq, LenProperties, FS_CardinalityType, CmdAssumption DEF IsPath
  <1>4. ASSUME Parent(c) = None PROVE Len(p) = 1
    <2>1. CASE Len(p) >= 2
      <3>1. Len(p) \in 2..Len(p) /\ Len(p) - 1 \in 1..Len(p)
        BY <1>3, <2>1
      <3>2. Parent(p[Len(p)]) = p[Len(p) - 1] /\ p[Len(p) - 1] \in Cmd
        BY <1>3, <3>1
      <3> QED
        BY <1>3, <1>4, <3>2, CmdAssumption
    <2>2. PICK n \in Nat : n = Len(p)
      BY <1>3
    <2>3. n >= 1
      BY <1>3, <2>2
    <2>4. n = 1 \/ n >= 2
      BY ONLY n \in Nat, <2>3
    <2> QED
      BY <2>1, <2>2, <2>4, Zenon
  <1>5. ASSUME Parent(c) \in Cmd
        PROVE  /\ Len(p) = Depth(Parent(c)) + 1
               /\ \A i \in 1..Depth(Parent(c)) : p[i] = Path(Parent(c))[i]
    <2>1. Len(p) >= 2
      BY <1>3, <1>5, CmdAssumption
    <2>2. PICK q : q = SubSeq(p, 1, Len(p) - 1)
      OBVIOUS
    <2>3. /\ q \in Seq(Cmd) /\ Len(q) = Len(p) - 1
          /\ \A i \in 1..Len(p) - 1 : q[i] = p[i]
      <3>0. Len(p) - 1 \in Nat
        BY <1>3
      <3>1. PICK n \in Nat : n = Len(p) - 1
        BY <3>0
      <3>2. \A i \in 1..n : p[i] \in Cmd
        BY <1>3, <3>1
      <3>3. /\ SubSeq(p, 1, n) \in Seq(Cmd) /\ Len(SubSeq(p, 1, n)) = n
            /\ \A i \in 1..n : SubSeq(p, 1, n)[i] = p[i]
        BY <3>2, SubSeqProperties
      <3> QED
        BY <2>2, <3>1, <3>3
    <2>4. q[Len(q)] = Parent(c)
      <3>1. Len(p) \in 2..Len(p) /\ Len(p) - 1 \in 1..Len(p) - 1
        BY <1>3, <2>1
      <3>2. Parent(p[Len(p)]) = p[Len(p) - 1]
        BY <1>3, <3>1
      <3> QED
        BY <1>3, <2>3, <3>1, <3>2
    <2>5. IsPath(q, Parent(c))
      <3>1. /\ 1 \in 1..Len(p) - 1 /\ Len(p) - 1 \in 1..Cardinality(Cmd)
            /\ \A i \in 2..Len(p) - 1 :
                 i \in 2..Len(p) /\ i \in 1..Len(p) - 1 /\ i - 1 \in 1..Len(p) - 1
        BY <1>3, <2>1
      <3> QED
        BY <1>3, <2>3, <2>4, <3>1 DEF IsPath
    <2>6. Path(Parent(c)) = q /\ Depth(Parent(c)) = Len(q)
      BY <1>5, <2>5, PathIs
    <2> QED
      BY <1>3, <2>3, <2>6
  <1> QED
    BY <1>2, <1>3, <1>4, <1>5

(***************************************************************************)
(* Searching a list                                                        *)
(***************************************************************************)
\* The least number of a set is the one that is chosen.
LEMMA MinOf ==
  ASSUME NEW S \in SUBSET Nat, S /= {}
  PROVE  Min(S) \in S /\ \A x \in S : Min(S) <= x
  <1>1. \E x \in S : \A y \in S : x <= y
    BY LeastNat
  <1> QED
    BY <1>1 DEF Min

\* Once all commands are constructed, a search of a list finds the commands
\* that are linked into it and not wiped out of it.
Complete == LinkInv /\ constructed = Cmd

Holds(list, c) == c \in Cmd /\ ListOf(c) = list /\ c \notin early

LEMMA HoldsMember ==
  ASSUME Complete, NEW list, NEW c \in Cmd
  PROVE  Holds(list, c) <=> Member(list, c)
  BY DEF Complete, LinkInv, Holds, Member

LEMMA FindInIs ==
  ASSUME Complete, NEW list \in Lists, NEW word
  PROVE  /\ FindIn(list, word) = None => \A c : Holds(list, c) => word \notin CfgOf[c].name
         /\ FindIn(list, word) /= None => Holds(list, FindIn(list, word))
                                          /\ word \in CfgOf[FindIn(list, word)].name
  <1>1. PICK s : s = Chain(list)
    OBVIOUS
  <1>2. /\ s \in Seq(Cmd)
        /\ \A c \in Cmd : Member(list, c) <=> \E i \in 1..Len(s) : s[i] = c
    BY <1>1, ChainMembers DEF Complete
  <1>3. /\ Len(s) \in Nat /\ \A i \in 1..Len(s) : s[i] \in Cmd /\ Holds(list, s[i])
        /\ \A c : Holds(list, c) => \E i \in 1..Len(s) : s[i] = c
    <2>1. Len(s) \in Nat /\ \A i \in 1..Len(s) : s[i] \in Cmd
      BY <1>2, ElementOfSeq, LenProperties
    <2>2. \A c \in Cmd : Holds(list, c) <=> Member(list, c)
      BY HoldsMember
    <2> QED
      BY <1>2, <2>1, <2>2 DEF Holds
  <1> DEFINE S == {i \in 1..Len(s) : word \in CfgOf[s[i]].name}
  <1>4. FindIn(list, word) = LET hit == IF S /= {} THEN Min(S) ELSE 0
                             IN  IF hit = 0 THEN None ELSE s[hit]
    <2>1. FindIn(list, word) =
            LET I == {i \in 1..Len(Chain(list)) : word \in CfgOf[Chain(list)[i]].name}
                hit == IF I /= {} THEN Min(I) ELSE 0
            IN  IF hit = 0 THEN None ELSE Chain(list)[hit]
      BY Zenon DEF FindIn, SelectInSeq, matches_any_token
    <2> QED
      BY <1>1, <2>1
  <1>5. CASE S = {}
    <2>1. FindIn(list, word) = None
      BY <1>4, <1>5
    <2>2. \A i \in 1..Len(s) : word \notin CfgOf[s[i]].name
      BY <1>5
    <2> QED
      BY <1>3, <2>1, <2>2
  <1>6. CASE S /= {}
    <2>1. S \in SUBSET Nat
      BY <1>3
    <2>2. PICK i \in S : i = Min(S)
      BY <1>6, <2>1, MinOf
    <2>3. i \in 1..Len(s) /\ i /= 0 /\ word \in CfgOf[s[i]].name
      BY <1>3
    <2>4. FindIn(list, word) = s[i]
      BY <1>4, <1>6, <2>2, <2>3
    <2>5. s[i] /= None
      BY <1>3, <2>3, CmdAssumption
    <2> QED
      BY <1>3, <2>3, <2>4, <2>5
  <1> QED
    BY <1>5, <1>6

\* If no two of them share a name, it finds the only one with the name.
LEMMA FindInOnly ==
  ASSUME Complete, NamesClear, NEW list \in Lists, NEW c, Holds(list, c), NEW word,
         word \in CfgOf[c].name
  PROVE  FindIn(list, word) = c
  <1>1. FindIn(list, word) /= None
    BY FindInIs
  <1>2. Holds(list, FindIn(list, word)) /\ word \in CfgOf[FindIn(list, word)].name
    BY <1>1, FindInIs
  <1> QED
    BY <1>2 DEF Holds, NamesClear

(***************************************************************************)
(* The commands that words name                                            *)
(***************************************************************************)
\* x is i deep below r, and linked, and the words begin with its names.
Matches(x, i, r, words) ==
  x \in Registered /\ Names(x, words) /\ Depth(x) = i /\ Path(x)[1] = r

LEMMA MatchRoot ==
  ASSUME Forest, NEW x, NEW r, NEW words, Matches(x, 1, r, words)
  PROVE  x = r /\ Parent(x) = None /\ x \notin early /\ words[1] \in CfgOf[x].name
  <1>1. x \in Cmd /\ Depth(x) = 1 /\ Path(x)[1] = r
    BY DEF Matches, Registered
  <1>2. Path(x)[Depth(x)] = x /\ Parent(Path(x)[1]) = None
    BY <1>1, PathProperties
  <1>3. 1 \in 1..Depth(x)
    BY <1>1
  <1> QED
    BY <1>1, <1>2, <1>3 DEF Matches, Registered, Names

LEMMA RootMatches ==
  ASSUME Forest, NEW x \in Cmd, Parent(x) = None, x \notin early, NEW words,
         Len(words) \in Nat, Len(words) >= 1, words[1] \in CfgOf[x].name
  PROVE  Matches(x, 1, x, words)
  <1>1. Depth(x) = 1 /\ Path(x)[Depth(x)] = x
    BY PathProperties
  <1>2. \A i \in 1..Depth(x) : i = 1
    BY <1>1
  <1> QED
    BY <1>1, <1>2 DEF Matches, Registered, Names

LEMMA MatchUp ==
  ASSUME Forest, NEW x, NEW i \in Nat, i > 1, NEW r, NEW words, Matches(x, i, r, words)
  PROVE  /\ x \in Cmd /\ Parent(x) \in Cmd /\ Matches(Parent(x), i - 1, r, words)
         /\ x \notin early /\ words[i] \in CfgOf[x].name
  <1>1. /\ x \in Cmd /\ Depth(x) = i /\ Path(x)[1] = r /\ i <= Len(words)
        /\ \A j \in 1..i : Path(x)[j] \notin early /\ words[j] \in CfgOf[Path(x)[j]].name
    BY DEF Matches, Registered, Names
  <1>2. Parent(x) \in Cmd
    BY <1>1, PathProperties, ParentAssumption
  <1>3. /\ Depth(Parent(x)) \in Nat /\ Depth(Parent(x)) >= 1 /\ i = Depth(Parent(x)) + 1
        /\ Path(x)[i] = x
        /\ \A j \in 1..Depth(Parent(x)) : Path(x)[j] = Path(Parent(x))[j]
    BY <1>1, <1>2, PathProperties
  <1>4. i \in 1..i /\ x \notin early /\ words[i] \in CfgOf[x].name
    BY <1>1, <1>3
  <1>5. Depth(Parent(x)) = i - 1 /\ 1 \in 1..Depth(Parent(x)) /\ \A j \in 1..i - 1 : j \in 1..i
    BY <1>3
  <1>6. Path(Parent(x))[1] = r /\ \A j \in 1..i - 1 :
          Path(Parent(x))[j] \notin early /\ words[j] \in CfgOf[Path(Parent(x))[j]].name
    BY <1>1, <1>3, <1>5
  <1>7. Depth(Parent(x)) <= Len(words)
    BY <1>1, <1>3
  <1> QED
    BY <1>2, <1>4, <1>5, <1>6, <1>7 DEF Matches, Registered, Names

LEMMA MatchDown ==
  ASSUME Forest, NEW x \in Cmd, NEW i \in Nat, i > 1, NEW r, NEW words, Len(words) \in Nat,
         Parent(x) \in Cmd, Matches(Parent(x), i - 1, r, words), x \notin early,
         i <= Len(words), words[i] \in CfgOf[x].name
  PROVE  Matches(x, i, r, words)
  <1>1. /\ Depth(Parent(x)) = i - 1 /\ Path(Parent(x))[1] = r
        /\ \A j \in 1..i - 1 : /\ Path(Parent(x))[j] \notin early
                               /\ words[j] \in CfgOf[Path(Parent(x))[j]].name
    BY DEF Matches, Registered, Names
  <1>2. /\ Depth(x) = Depth(Parent(x)) + 1 /\ Path(x)[Depth(x)] = x
        /\ \A j \in 1..Depth(Parent(x)) : Path(x)[j] = Path(Parent(x))[j]
    BY PathProperties
  <1>3. Depth(x) = i /\ 1 \in 1..i - 1 /\ \A j \in 1..i : j \in 1..i - 1 \/ j = i
    BY <1>1, <1>2
  <1>4. Path(x)[1] = r /\ \A j \in 1..i :
          Path(x)[j] \notin early /\ words[j] \in CfgOf[Path(x)[j]].name
    BY <1>1, <1>2, <1>3
  <1> QED
    BY <1>3, <1>4 DEF Matches, Registered, Names

\* At each depth, at most one.
LEMMA MatchOne ==
  ASSUME Forest, NamesClear, NEW r, NEW words, NEW i \in Nat, i >= 1,
         NEW x, NEW y, Matches(x, i, r, words), Matches(y, i, r, words)
  PROVE  x = y
  <1> DEFINE S == {n \in Nat : /\ n >= 1
                            /\ \E a, b : /\ a /= b /\ Matches(a, n, r, words)
                                        /\ Matches(b, n, r, words)}
  <1>1. SUFFICES ASSUME S /= {} PROVE FALSE
    OBVIOUS
  <1>2. PICK n \in S : \A m \in S : n <= m
    BY <1>1, LeastNat
  <1>3. PICK a, b : a /= b /\ Matches(a, n, r, words) /\ Matches(b, n, r, words)
    BY <1>2
  <1>4. CASE n = 1
    BY <1>3, <1>4, MatchRoot
  <1>5. CASE n > 1
    <2>1. /\ a \in Cmd /\ Parent(a) \in Cmd /\ Matches(Parent(a), n - 1, r, words)
          /\ words[n] \in CfgOf[a].name
      BY <1>2, <1>3, <1>5, MatchUp
    <2>2. /\ b \in Cmd /\ Parent(b) \in Cmd /\ Matches(Parent(b), n - 1, r, words)
          /\ words[n] \in CfgOf[b].name
      BY <1>2, <1>3, <1>5, MatchUp
    <2>3. n - 1 \in Nat /\ n - 1 >= 1 /\ n - 1 \notin S
      BY <1>2, <1>5
    <2>4. Parent(a) = Parent(b)
      BY <2>1, <2>2, <2>3
    <2> QED
      BY <1>3, <2>1, <2>2, <2>4, CmdAssumption DEF NamesClear, ListOf
  <1> QED
    BY <1>2, <1>4, <1>5

(***************************************************************************)
(* The descent from a command of a list                                    *)
(***************************************************************************)
\* The equation of the recursive function in Descend, and its only solution.
Step(r, words, path, i) ==
  IF i = 1 THEN r ELSE IF path[i - 1] = None THEN None ELSE FindIn(path[i - 1], words[i])

Trail(r, words, path) ==
  /\ path = [i \in DOMAIN words |-> Step(r, words, path, i)]
  /\ \A f : f = [i \in DOMAIN words |-> Step(r, words, f, i)] => f = path

Deepest(words, path, i) == path[i] /= None /\ \A j \in i + 1..Len(words) : path[j] = None

LEMMA DescendDef ==
  ASSUME NEW r, NEW words, NEW path, Trail(r, words, path), NEW depth,
         depth = CHOOSE i \in DOMAIN words : Deepest(words, path, i)
  PROVE  Descend(r, words)
           = [cmd |-> path[depth], rest |-> SubSeq(words, depth + 1, Len(words))]
  <1>1. (CHOOSE f : f = [i \in DOMAIN words |-> Step(r, words, f, i)]) = path
    BY DEF Trail
  <1>2. Descend(r, words) =
          LET f == CHOOSE f : f = [i \in DOMAIN words |-> Step(r, words, f, i)]
              d == CHOOSE i \in DOMAIN words : Deepest(words, f, i)
          IN  [cmd |-> f[d], rest |-> SubSeq(words, d + 1, Len(words))]
    BY Zenon DEF Descend, Step, Deepest
  <1> QED
    BY <1>1, <1>2

LEMMA TrailOnly ==
  ASSUME NEW r, NEW words, NEW path, Len(words) \in Nat, DOMAIN words = 1..Len(words),
         path = [i \in DOMAIN words |-> Step(r, words, path, i)]
  PROVE  Trail(r, words, path)
  <1>1. DOMAIN path = 1..Len(words) /\ \A i \in 1..Len(words) : path[i] = Step(r, words, path, i)
    OBVIOUS
  <1>2. ASSUME NEW f, f = [i \in DOMAIN words |-> Step(r, words, f, i)] PROVE f = path
    <2>1. DOMAIN f = 1..Len(words) /\ \A i \in 1..Len(words) : f[i] = Step(r, words, f, i)
      BY <1>2
    <2>2. ASSUME NEW i \in 1..Len(words), i > 1 => f[i - 1] = path[i - 1] PROVE f[i] = path[i]
      <3>1. f[i] = Step(r, words, f, i) /\ path[i] = Step(r, words, path, i)
        BY <1>1, <2>1
      <3>2. i = 1 \/ i > 1
        OBVIOUS
      <3>3. Step(r, words, f, i) = Step(r, words, path, i)
        BY <2>2, <3>2 DEF Step
      <3> QED
        BY <3>1, <3>3
    <2>3. Alike(f, path, Len(words))
      BY <2>2 DEF Alike
    <2>4. \A i \in 1..Len(words) : f[i] = path[i]
      BY <2>3, SameFunction
    <2>5. f = [i \in 1..Len(words) |-> f[i]] /\ path = [i \in 1..Len(words) |-> path[i]]
      BY <1>1, <1>2, <2>1
    <2> QED
      BY <2>4, <2>5
  <1> QED
    BY <1>2 DEF Trail

\* Every line has a trail, whatever the commands are.
LEMMA TrailExists ==
  ASSUME NEW r, NEW words, Len(words) \in Nat, DOMAIN words = 1..Len(words)
  PROVE  \E path : Trail(r, words, path)
  <1> DEFINE Trod(n, f) == f = [i \in 1..n |-> Step(r, words, f, i)]
             S == {n \in Nat : ~\E f : Trod(n, f)}
  <1>1. ASSUME S /= {} PROVE FALSE
    <2>1. PICK n \in S : \A m \in S : n <= m
      BY <1>1, LeastNat
    <2>2. CASE n = 0
      <3>1. Trod(0, [i \in 1..0 |-> None])
        OBVIOUS
      <3> QED
        BY <2>1, <2>2, <3>1
    <2>3. CASE n /= 0
      <3>1. n - 1 \in Nat /\ n - 1 \notin S
        BY <2>1, <2>3
      <3>2. PICK g : Trod(n - 1, g)
        BY <3>1
      <3>3. PICK f : f = [i \in 1..n |-> IF i = n THEN Step(r, words, g, n) ELSE g[i]]
        OBVIOUS
      <3>4. f[n] = Step(r, words, g, n) /\ \A i \in 1..n - 1 : f[i] = g[i]
        BY <2>1, <2>3, <3>3
      <3>5. ASSUME NEW i \in 1..n PROVE f[i] = Step(r, words, f, i)
        <4>1. i = 1 \/ i - 1 \in 1..n - 1
          BY <2>1
        <4>2. Step(r, words, f, i) = Step(r, words, g, i)
          BY <3>4, <4>1 DEF Step
        <4>3. CASE i = n
          BY <3>4, <4>2, <4>3
        <4>4. CASE i \in 1..n - 1
          <5>1. g[i] = Step(r, words, g, i)
            BY <3>2, <4>4
          <5> QED
            BY <3>4, <4>2, <4>4, <5>1
        <4> QED
          BY <2>1, <4>3, <4>4
      <3>6. f = [i \in 1..n |-> f[i]]
        BY <3>3
      <3>7. Trod(n, f)
        BY <3>5, <3>6
      <3> QED
        BY <2>1, <3>7
    <2> QED
      BY <2>2, <2>3
  <1>2. PICK path : Trod(Len(words), path)
    BY <1>1
  <1>3. path = [i \in DOMAIN words |-> Step(r, words, path, i)]
    BY <1>2
  <1> QED
    BY <1>3, TrailOnly

\* The command that matches i words, if one does.
Reached(r, words, i) ==
  IF \E x : Matches(x, i, r, words) THEN CHOOSE x : Matches(x, i, r, words) ELSE None

LEMMA ReachedIs ==
  ASSUME Forest, NamesClear, NEW r, NEW words, NEW i \in Nat, i >= 1
  PROVE  /\ Reached(r, words, i) /= None => Matches(Reached(r, words, i), i, r, words)
         /\ \A x : Matches(x, i, r, words) => Reached(r, words, i) = x /\ x \in Cmd
  <1>1. ASSUME NEW x, Matches(x, i, r, words) PROVE Reached(r, words, i) = x /\ x \in Cmd
    BY <1>1, MatchOne DEF Reached, Matches, Registered
  <1>2. ASSUME Reached(r, words, i) /= None PROVE Matches(Reached(r, words, i), i, r, words)
    BY <1>2 DEF Reached
  <1> QED
    BY <1>1, <1>2

\* r is in a list, and its name is the first word.
Rooted(r, words) ==
  /\ r \in Cmd /\ Parent(r) = None /\ r \notin early
  /\ Len(words) \in Nat /\ Len(words) >= 1 /\ DOMAIN words = 1..Len(words)
  /\ words[1] \in CfgOf[r].name

LEMMA TrailIs ==
  ASSUME Complete, Forest, NamesClear, NEW r, NEW words, Rooted(r, words)
  PROVE  Trail(r, words, [i \in DOMAIN words |-> Reached(r, words, i)])
  <1>1. /\ r \in Cmd /\ Parent(r) = None /\ r \notin early
        /\ Len(words) \in Nat /\ Len(words) >= 1 /\ DOMAIN words = 1..Len(words)
        /\ words[1] \in CfgOf[r].name /\ None \notin Cmd
    BY CmdAssumption DEF Rooted
  <1>2. PICK path : path = [i \in DOMAIN words |-> Reached(r, words, i)]
    OBVIOUS
  <1>3. DOMAIN path = 1..Len(words) /\ \A i \in 1..Len(words) : path[i] = Reached(r, words, i)
    BY <1>1, <1>2
  <1>4. ASSUME NEW i \in 1..Len(words) PROVE path[i] = Step(r, words, path, i)
    <2>1. CASE i = 1
      <3>1. Matches(r, 1, r, words)
        BY <1>1, RootMatches
      <3>2. Reached(r, words, 1) = r
        BY <3>1, ReachedIs
      <3> QED
        BY <1>3, <2>1, <3>2 DEF Step
    <2>2. CASE i /= 1
      <3>1. /\ i \in Nat /\ i > 1 /\ i <= Len(words)
            /\ i - 1 \in 1..Len(words) /\ i - 1 \in Nat /\ i - 1 >= 1
        BY <1>1, <2>2
      <3>2. path[i - 1] = Reached(r, words, i - 1) /\ path[i] = Reached(r, words, i)
        BY <1>3, <3>1
      <3>3. ASSUME NEW x, Matches(x, i, r, words)
            PROVE  /\ path[i - 1] = Parent(x) /\ Parent(x) \in Cmd
                   /\ Holds(Parent(x), x) /\ words[i] \in CfgOf[x].name
        <4>1. /\ x \in Cmd /\ Parent(x) \in Cmd /\ Matches(Parent(x), i - 1, r, words)
              /\ x \notin early /\ words[i] \in CfgOf[x].name
          BY <3>1, <3>3, MatchUp
        <4>2. Reached(r, words, i - 1) = Parent(x)
          BY <3>1, <4>1, ReachedIs
        <4> QED
          BY <1>1, <3>2, <4>1, <4>2 DEF Holds, ListOf
      <3>4. CASE path[i - 1] = None
        <4>1. \A x : ~Matches(x, i, r, words)
          BY <1>1, <3>3, <3>4
        <4>2. path[i] = None
          BY <3>2, <4>1 DEF Reached
        <4> QED
          BY <2>2, <3>4, <4>2 DEF Step
      <3>5. CASE path[i - 1] /= None
        <4>1. PICK y : y = path[i - 1]
          OBVIOUS
        <4>2. Matches(y, i - 1, r, words) /\ y \in Cmd /\ y \in Lists
          BY <3>1, <3>2, <3>5, <4>1, ReachedIs DEF Lists
        <4>3. CASE FindIn(y, words[i]) = None
          <5>1. \A x : ~Matches(x, i, r, words)
            BY <3>3, <4>1, <4>2, <4>3, FindInIs
          <5>2. path[i] = None
            BY <3>2, <5>1 DEF Reached
          <5> QED
            BY <2>2, <3>5, <4>1, <4>3, <5>2 DEF Step
        <4>4. CASE FindIn(y, words[i]) /= None
          <5>1. PICK x : x = FindIn(y, words[i])
            OBVIOUS
          <5>2. Holds(y, x) /\ words[i] \in CfgOf[x].name
            BY <4>2, <4>4, <5>1, FindInIs
          <5>3. x \in Cmd /\ Parent(x) = y /\ x \notin early
            BY <4>2, <5>2, ParentAssumption DEF Holds, ListOf
          <5>4. Matches(x, i, r, words)
            BY <1>1, <3>1, <4>2, <5>2, <5>3, MatchDown
          <5>5. path[i] = x
            BY <3>1, <3>2, <5>4, ReachedIs
          <5> QED
            BY <2>2, <3>5, <4>1, <5>1, <5>5 DEF Step
        <4> QED
          BY <4>3, <4>4
      <3> QED
        BY <3>4, <3>5
    <2> QED
      BY <2>1, <2>2
  <1>5. path = [i \in DOMAIN words |-> Step(r, words, path, i)]
    BY <1>1, <1>2, <1>4
  <1>6. Trail(r, words, path)
    BY <1>1, <1>5, TrailOnly
  <1> QED
    BY <1>2, <1>6

\* The deepest place on the trail exists, and is the only one.
LEMMA DeepestIs ==
  ASSUME NEW words, NEW path, DOMAIN words = 1..Len(words), Len(words) \in Nat,
         Len(words) >= 1, path[1] /= None
  PROVE  LET d == CHOOSE i \in DOMAIN words : Deepest(words, path, i)
         IN  d \in 1..Len(words) /\ Deepest(words, path, d)
  <1>1. PICK n \in Nat : n = Len(words)
    OBVIOUS
  <1> DEFINE S == {k \in 0..n - 1 : path[n - k] /= None}
  <1>2. S \in SUBSET Nat /\ n - 1 \in S
    BY <1>1
  <1>3. PICK k \in S : \A m \in S : k <= m
    BY <1>2, LeastNat
  <1>4. n - k \in 1..n /\ path[n - k] /= None
    BY <1>1
  <1>5. ASSUME NEW j \in n - k + 1..n PROVE path[j] = None
    <2>1. n - j \in 0..n - 1 /\ n - (n - j) = j /\ ~(k <= n - j)
      BY <1>1, <1>4
    <2> QED
      BY <1>3, <2>1
  <1>6. n - k \in 1..Len(words) /\ Deepest(words, path, n - k)
    BY <1>1, <1>4, <1>5 DEF Deepest
  <1>7. \E i \in DOMAIN words : Deepest(words, path, i)
    BY <1>6
  <1> QED
    BY ONLY <1>7, SMTT(30)

\* The descent ends at the deepest command that matches.
LEMMA DescendIs ==
  ASSUME Complete, Forest, NamesClear, NEW r, NEW words, Rooted(r, words)
  PROVE  \E d \in 1..Len(words) : \E x :
           /\ Matches(x, d, r, words)
           /\ Descend(r, words) = [cmd |-> x, rest |-> SubSeq(words, d + 1, Len(words))]
           /\ \A j \in d + 1..Len(words) : \A y : ~Matches(y, j, r, words)
  <1>1. /\ r \in Cmd /\ Parent(r) = None /\ r \notin early
        /\ Len(words) \in Nat /\ Len(words) >= 1 /\ DOMAIN words = 1..Len(words)
        /\ words[1] \in CfgOf[r].name /\ None \notin Cmd
    BY CmdAssumption DEF Rooted
  <1>2. PICK path : path = [i \in DOMAIN words |-> Reached(r, words, i)]
    OBVIOUS
  <1>3. \A i \in 1..Len(words) : path[i] = Reached(r, words, i)
    BY <1>1, <1>2
  <1>4. Trail(r, words, path)
    BY <1>2, TrailIs
  <1>5. path[1] /= None
    <2>1. Matches(r, 1, r, words)
      BY <1>1, RootMatches
    <2>2. Reached(r, words, 1) = r
      BY <2>1, ReachedIs
    <2> QED
      BY <1>1, <1>3, <2>2
  <1>6. PICK d : d = CHOOSE i \in DOMAIN words : Deepest(words, path, i)
    OBVIOUS
  <1>7. d \in 1..Len(words) /\ Deepest(words, path, d)
    BY <1>1, <1>5, <1>6, DeepestIs
  <1>8. Descend(r, words) = [cmd |-> path[d], rest |-> SubSeq(words, d + 1, Len(words))]
    BY <1>4, <1>6, DescendDef
  <1>9. d \in Nat /\ d >= 1 /\ path[d] = Reached(r, words, d) /\ path[d] /= None
    BY <1>1, <1>3, <1>7 DEF Deepest
  <1>10. Matches(path[d], d, r, words)
    BY <1>9, ReachedIs
  <1>11. ASSUME NEW j \in d + 1..Len(words), NEW y, Matches(y, j, r, words) PROVE FALSE
    <2>1. j \in Nat /\ j >= 1 /\ j \in 1..Len(words)
      BY <1>1, <1>9
    <2>2. Reached(r, words, j) = y /\ y \in Cmd
      BY <1>11, <2>1, ReachedIs
    <2>3. path[j] = None
      BY <1>7 DEF Deepest
    <2> QED
      BY <1>1, <1>3, <2>1, <2>2, <2>3
  <1> QED
    BY <1>7, <1>8, <1>10, <1>11

(***************************************************************************)
(* The search of all lists                                                 *)
(***************************************************************************)
\* A sequence is its beginning and its rest.
LEMMA BeginningAndRest ==
  ASSUME NEW W, NEW s \in Seq(W), NEW d \in 0..Len(s)
  PROVE  SubSeq(s, 1, d) \o SubSeq(s, d + 1, Len(s)) = s
  <1>1. PICK n \in Nat : n = Len(s)
    BY LenProperties
  <1>2. 1 \in 1..n + 1 /\ d \in 1 - 1..n /\ n \in d..n
    BY <1>1
  <1>3. SubSeq(s, 1, d) \o SubSeq(s, d + 1, n) = SubSeq(s, 1, n)
    BY <1>1, <1>2, ConcatAdjacentSubSeq
  <1> QED
    BY <1>1, <1>3, SubSeqFull

\* The lists that hold a command with the first word for a name.
Hits(words) == {i \in 1..Len(cmd_lists) : FindIn(cmd_lists[i], words[1]) /= None}

LEMMA FindCmdDef ==
  ASSUME NEW words
  PROVE  find_cmd(words) =
           LET hit == IF Hits(words) /= {} THEN Min(Hits(words)) ELSE 0
           IN  IF words = <<>> \/ words[1] = <<>> \/ hit = 0 THEN NotFound
               ELSE Descend(FindIn(cmd_lists[hit], words[1]), words)
  BY Zenon DEF find_cmd, SelectInSeq, Hits

LEMMA ConfiguredLists ==
  /\ Len(cmd_lists) \in Nat /\ DOMAIN cmd_lists = 1..Len(cmd_lists)
  /\ \A i \in 1..Len(cmd_lists) : cmd_lists[i] \in Lists \ Cmd
  /\ \A l \in Lists \ Cmd : \E i \in 1..Len(cmd_lists) : cmd_lists[i] = l
  <1>1. Len(cmd_lists) \in Nat /\ DOMAIN cmd_lists = 1..Len(cmd_lists)
    BY ListsAssumption, LenProperties
  <1>2. \A i \in 1..Len(cmd_lists) : cmd_lists[i] \in Lists \ Cmd
    BY ListsAssumption, ElementOfSeq
  <1> QED
    BY <1>1, <1>2 DEF Lists

\* Wherever the descent ends it is at a command, and what is left of the words
\* are words: of commands that may be below themselves too.
LEMMA DescendTyped ==
  ASSUME Complete, NEW r \in Cmd, NEW W, NEW words \in Seq(W), words /= <<>>
  PROVE  /\ Descend(r, words).cmd \in Cmd
         /\ Descend(r, words).rest \in Seq(W) /\ Len(Descend(r, words).rest) <= Len(words)
  <1>1. PICK n \in Nat : n = Len(words) /\ n >= 1 /\ DOMAIN words = 1..n
    BY LenProperties, EmptySeq
  <1>2. PICK path : Trail(r, words, path)
    BY <1>1, TrailExists
  <1>3. \A i \in 1..n : path[i] = Step(r, words, path, i)
    BY <1>1, <1>2 DEF Trail
  <1>4. r \in Cmd /\ r /= None
    BY CmdAssumption
  <1>5. path[1] = r
    BY <1>1, <1>3 DEF Step
  <1> DEFINE S == {i \in 1..n : path[i] \notin Cmd \union {None}}
  <1>6. ASSUME S /= {} PROVE FALSE
    <2>1. S \in SUBSET Nat
      OBVIOUS
    <2>2. PICK i \in S : \A m \in S : i <= m
      BY <1>6, <2>1, LeastNat
    <2>3. i \in 2..n /\ i - 1 \in 1..n /\ ~(i <= i - 1) /\ i /= 1
      <3>1. i /= 1
        BY <1>4, <1>5, <2>2
      <3> QED
        BY <2>2, <3>1
    <2>4. path[i - 1] \in Cmd \union {None}
      BY <2>2, <2>3
    <2>5. path[i] = IF path[i - 1] = None THEN None ELSE FindIn(path[i - 1], words[i])
      BY <1>3, <2>2, <2>3 DEF Step
    <2>6. path[i - 1] /= None => FindIn(path[i - 1], words[i]) \in Cmd \union {None}
      <3>1. path[i - 1] \in Cmd => path[i - 1] \in Lists
        BY DEF Lists
      <3> QED
        BY <2>4, <3>1, FindInIs DEF Holds
    <2> QED
      BY <2>2, <2>5, <2>6
  <1>7. PICK d : d = CHOOSE i \in DOMAIN words : Deepest(words, path, i)
    OBVIOUS
  <1>8. d \in 1..n /\ path[d] /= None
    <2>1. d \in 1..Len(words) /\ Deepest(words, path, d)
      BY <1>1, <1>4, <1>5, <1>7, DeepestIs
    <2> QED
      BY <1>1, <2>1 DEF Deepest
  <1>9. path[d] \in Cmd
    BY <1>6, <1>8
  <1>10. Descend(r, words) = [cmd |-> path[d], rest |-> SubSeq(words, d + 1, Len(words))]
    BY <1>2, <1>7, DescendDef
  <1>11. PICK s : s = SubSeq(words, d + 1, n)
    OBVIOUS
  <1>12. s \in Seq(W) /\ Len(s) <= n
    <2>1. \A i \in d + 1..n : words[i] \in W
      BY <1>1, <1>8, ElementOfSeq
    <2>2. d + 1 \in Int /\ n \in Int
      BY <1>8
    <2>3. s \in Seq(W)
      BY <1>11, <2>1, <2>2, SubSeqProperties
    <2>4. Len(s) = IF d + 1 <= n THEN n - (d + 1) + 1 ELSE 0
      BY <1>11, <2>1, <2>2, SubSeqProperties
    <2>5. Len(s) <= n
      BY <1>8, <2>4
    <2> QED
      BY <2>3, <2>5
  <1> QED
    BY <1>1, <1>9, <1>10, <1>11, <1>12

LEMMA FindCmdTyped ==
  ASSUME Complete, NEW W, NEW words \in Seq(W)
  PROVE  /\ find_cmd(words).cmd \in Cmd \union {None}
         /\ find_cmd(words).rest \in Seq(W) /\ Len(find_cmd(words).rest) <= Len(words)
  <1>1. PICK h : h = IF Hits(words) /= {} THEN Min(Hits(words)) ELSE 0
    OBVIOUS
  <1>2. find_cmd(words) =
          IF words = <<>> \/ words[1] = <<>> \/ h = 0 THEN NotFound
          ELSE Descend(FindIn(cmd_lists[h], words[1]), words)
    BY <1>1, FindCmdDef
  <1>3. CASE find_cmd(words) = NotFound
    <2>1. <<>> \in Seq(W) /\ Len(<<>>) = 0 /\ Len(words) >= 0
      BY LenProperties
    <2>2. NotFound.cmd = None /\ NotFound.rest = <<>>
      BY DEF NotFound
    <2> QED
      BY <1>3, <2>1, <2>2
  <1>4. CASE find_cmd(words) /= NotFound
    <2>1. words /= <<>> /\ h /= 0
      BY <1>2, <1>4
    <2>2. h \in Hits(words)
      <3>1. Hits(words) \in SUBSET Nat
        BY DEF Hits
      <3> QED
        BY <1>1, <2>1, <3>1, MinOf
    <2>3. cmd_lists[h] \in Lists /\ FindIn(cmd_lists[h], words[1]) /= None
      BY <2>2, ConfiguredLists DEF Hits
    <2>4. PICK r : r = FindIn(cmd_lists[h], words[1])
      OBVIOUS
    <2>5. r \in Cmd
      BY <2>3, <2>4, FindInIs DEF Holds
    <2>6. find_cmd(words) = Descend(r, words)
      BY <1>2, <1>4, <2>4
    <2> QED
      BY <2>1, <2>5, <2>6, DescendTyped
  <1> QED
    BY <1>3, <1>4

\* A command whose path the words begin with is below one that a list holds.
Fits(c, words) == c \in Registered /\ Names(c, words)

LEMMA FitRooted ==
  ASSUME Forest, NEW W, NEW words \in Seq(W), NEW c, Fits(c, words)
  PROVE  /\ Rooted(Path(c)[1], words) /\ Matches(c, Depth(c), Path(c)[1], words)
         /\ Depth(c) \in 1..Len(words) /\ Holds(ListOf(Path(c)[1]), Path(c)[1])
         /\ ListOf(Path(c)[1]) \in Lists \ Cmd
  <1>1. /\ c \in Cmd /\ Depth(c) \in Nat /\ Depth(c) >= 1
        /\ Path(c)[1] \in Cmd /\ Parent(Path(c)[1]) = None
    BY PathProperties DEF Fits, Registered
  <1>2. 1 \in 1..Depth(c)
    BY <1>1
  <1>3. /\ Depth(c) <= Len(words) /\ words[1] \in CfgOf[Path(c)[1]].name
        /\ Path(c)[1] \notin early
    BY <1>2 DEF Fits, Registered, Names
  <1>4. Len(words) \in Nat /\ DOMAIN words = 1..Len(words)
    BY LenProperties
  <1>5. Depth(c) \in 1..Len(words) /\ Len(words) >= 1
    BY <1>1, <1>3, <1>4
  <1>6. ListOf(Path(c)[1]) \in Lists \ Cmd
    BY <1>1, ParentAssumption
  <1> QED
    BY <1>1, <1>3, <1>4, <1>5, <1>6 DEF Rooted, Matches, Holds, Fits

LEMMA FitHit ==
  ASSUME Complete, Forest, NamesClear, NEW W, NEW words \in Seq(W), NEW c, Fits(c, words)
  PROVE  /\ Rank(c) \in Hits(words)
         /\ FindIn(cmd_lists[Rank(c)], words[1]) = Path(c)[1]
  <1>1. PICK r : r = Path(c)[1]
    OBVIOUS
  <1>2. Rooted(r, words) /\ Holds(ListOf(r), r) /\ ListOf(r) \in Lists \ Cmd
    BY <1>1, FitRooted
  <1>3. r \in Cmd /\ words[1] \in CfgOf[r].name
    BY <1>2 DEF Rooted
  <1>4. FindIn(ListOf(r), words[1]) = r /\ r /= None
    BY <1>2, <1>3, FindInOnly, CmdAssumption
  <1> DEFINE S == {i \in DOMAIN cmd_lists : cmd_lists[i] = ListOf(r)}
  <1>5. S \in SUBSET Nat /\ S /= {}
    BY <1>2, ConfiguredLists
  <1>6. Rank(c) = Min(S)
    BY <1>1 DEF Rank
  <1>7. Rank(c) \in S
    BY <1>5, <1>6, MinOf
  <1> QED
    BY <1>1, <1>4, <1>7, ConfiguredLists DEF Hits

\* The search finds the longest path of the first list that has any.
LEMMA LongestPathIs ==
  ASSUME Complete, Forest, NamesClear, NEW W, NEW words \in Seq(W)
  PROVE  /\ LongestPath(words, find_cmd(words))
         /\ find_cmd(words).rest \in Seq(W) /\ Len(find_cmd(words).rest) <= Len(words)
  <1>1. PICK f : f = find_cmd(words)
    OBVIOUS
  <1>2. PICK H : H = Hits(words)
    OBVIOUS
  <1>3. H \in SUBSET Nat /\ None \notin Cmd
    BY <1>2, CmdAssumption DEF Hits
  <1>4. ASSUME NEW c, Fits(c, words)
        PROVE  /\ words /= <<>> /\ words[1] /= <<>> /\ Rank(c) \in H
               /\ FindIn(cmd_lists[Rank(c)], words[1]) = Path(c)[1]
               /\ Matches(c, Depth(c), Path(c)[1], words) /\ Depth(c) \in 1..Len(words)
    <2>1. /\ Rooted(Path(c)[1], words) /\ Depth(c) \in 1..Len(words)
          /\ Matches(c, Depth(c), Path(c)[1], words)
      BY <1>4, FitRooted
    <2>2. words /= <<>> /\ words[1] /= <<>>
      BY <2>1 DEF Rooted, NamesClear
    <2> QED
      BY <1>2, <1>4, <2>1, <2>2, FitHit
  <1>5. CASE words = <<>> \/ words[1] = <<>> \/ H = {}
    <2>1. f = NotFound
      BY <1>1, <1>2, <1>5, FindCmdDef
    <2>2. f.cmd = None /\ f.rest = <<>>
      BY <2>1 DEF NotFound
    <2>3. \A c : ~Fits(c, words)
      BY <1>4, <1>5
    <2>4. f.rest \in Seq(W) /\ Len(f.rest) <= Len(words)
      BY <2>2, LenProperties
    <2> QED
      BY <1>1, <2>2, <2>3, <2>4 DEF LongestPath, Fits
  <1>6. CASE ~(words = <<>> \/ words[1] = <<>> \/ H = {})
    <2>1. PICK h \in H : h = Min(H) /\ \A i \in H : h <= i
      BY <1>3, <1>6, MinOf
    <2>2. /\ h \in 1..Len(cmd_lists) /\ h \in Nat /\ h /= 0
          /\ FindIn(cmd_lists[h], words[1]) /= None
      BY <1>2, <1>3, <2>1 DEF Hits
    <2>3. PICK r : r = FindIn(cmd_lists[h], words[1])
      OBVIOUS
    <2>4. f = Descend(r, words)
      BY <1>1, <1>2, <1>6, <2>1, <2>2, <2>3, FindCmdDef
    <2>5. cmd_lists[h] \in Lists \ Cmd
      BY <2>2, ConfiguredLists
    <2>6. Holds(cmd_lists[h], r) /\ words[1] \in CfgOf[r].name
      BY <2>2, <2>3, <2>5, FindInIs
    <2>7. r \in Cmd /\ ListOf(r) = cmd_lists[h] /\ r \notin early /\ Parent(r) = None
      BY <2>5, <2>6, ParentAssumption DEF Holds, ListOf
    <2>8. Len(words) \in Nat /\ Len(words) >= 1 /\ DOMAIN words = 1..Len(words)
      BY <1>6, EmptySeq, LenProperties
    <2>9. Rooted(r, words)
      BY <2>6, <2>7, <2>8 DEF Rooted
    <2>10. PICK d \in 1..Len(words) : \E x :
             /\ Matches(x, d, r, words)
             /\ Descend(r, words) = [cmd |-> x, rest |-> SubSeq(words, d + 1, Len(words))]
             /\ \A j \in d + 1..Len(words) : \A y : ~Matches(y, j, r, words)
      BY <2>9, DescendIs
    <2>11. PICK x :
             /\ Matches(x, d, r, words)
             /\ Descend(r, words) = [cmd |-> x, rest |-> SubSeq(words, d + 1, Len(words))]
             /\ \A j \in d + 1..Len(words) : \A y : ~Matches(y, j, r, words)
      BY <2>10
    <2>12. f.cmd = x /\ f.rest = SubSeq(words, d + 1, Len(words))
      BY <2>4, <2>11
    <2>13. Fits(x, words) /\ Depth(x) = d /\ Path(x)[1] = r /\ x /= None
      BY <1>3, <2>11 DEF Matches, Fits, Registered
    <2>14. SubSeq(words, 1, d) \o SubSeq(words, d + 1, Len(words)) = words
      <3>1. d \in 0..Len(words)
        BY <2>8
      <3> QED
        BY <3>1, BeginningAndRest
    <2>15. Rank(x) = h
      <3> DEFINE S == {i \in DOMAIN cmd_lists : cmd_lists[i] = ListOf(r)}
      <3>1. h \in S /\ S \in SUBSET Nat
        BY <2>2, <2>7, ConfiguredLists
      <3>2. ASSUME NEW i \in S PROVE h <= i
        <4>1. i \in H
          BY <1>2, <2>2, <2>7, ConfiguredLists DEF Hits
        <4> QED
          BY <2>1, <4>1
      <3>3. Rank(x) = Min(S)
        BY <2>13 DEF Rank
      <3>4. Min(S) \in S /\ Min(S) <= h
        BY <3>1, MinOf
      <3>5. h <= Min(S) /\ Min(S) \in Nat
        BY <3>1, <3>2, <3>4
      <3> QED
        BY <2>2, <3>3, <3>4, <3>5
    <2>16. ASSUME NEW c, Fits(c, words)
           PROVE  Rank(x) < Rank(c) \/ (Rank(x) = Rank(c) /\ Depth(c) <= Depth(x))
      <3>1. /\ Rank(c) \in H /\ FindIn(cmd_lists[Rank(c)], words[1]) = Path(c)[1]
            /\ Matches(c, Depth(c), Path(c)[1], words) /\ Depth(c) \in 1..Len(words)
        BY <1>4, <2>16
      <3>2. Rank(c) \in Nat /\ h <= Rank(c)
        BY <1>3, <2>1, <3>1
      <3>3. CASE Rank(c) = h
        <4>1. Path(c)[1] = r
          BY <2>3, <3>1, <3>3
        <4>2. Depth(c) \notin d + 1..Len(words)
          BY <2>11, <3>1, <4>1
        <4>3. Depth(c) <= d
          BY <2>8, <3>1, <4>2
        <4> QED
          BY <2>13, <2>15, <3>3, <4>3
      <3>4. CASE Rank(c) /= h
        BY <2>2, <2>15, <3>2, <3>4
      <3> QED
        BY <3>3, <3>4
    <2>17. f.rest \in Seq(W) /\ Len(f.rest) <= Len(words)
      <3>1. PICK n \in Nat : n = Len(words)
        BY <2>8
      <3>2. /\ d + 1 \in Int /\ n \in Int /\ \A i \in d + 1..n : words[i] \in W
            /\ (IF d + 1 <= n THEN n - (d + 1) + 1 ELSE 0) <= n
        BY <3>1, ElementOfSeq
      <3>3. SubSeq(words, d + 1, n) \in Seq(W) /\ Len(SubSeq(words, d + 1, n)) <= n
        BY <3>2, SubSeqProperties
      <3> QED
        BY <2>12, <3>1, <3>3, SMTT(30)
    <2> QED
      BY <1>1, <2>12, <2>13, <2>14, <2>16, <2>17 DEF LongestPath, Fits
  <1> QED
    BY <1>5, <1>6

\* That is one command.
LEMMA LongestPathOne ==
  ASSUME Forest, NamesClear, NEW W, NEW words \in Seq(W),
         NEW f, NEW g, LongestPath(words, f), LongestPath(words, g)
  PROVE  f.cmd = g.cmd
  <1>1. CASE f.cmd = None \/ g.cmd = None
    <2>1. f.cmd = None <=> g.cmd = None
      BY DEF LongestPath
    <2> QED
      BY <1>1, <2>1
  <1>2. CASE f.cmd /= None /\ g.cmd /= None
    <2>1. PICK x, y : x = f.cmd /\ y = g.cmd
      OBVIOUS
    <2>2. Fits(x, words) /\ Fits(y, words) /\ x \in Cmd /\ y \in Cmd
      BY <1>2, <2>1 DEF LongestPath, Fits, Registered
    <2>3. /\ Rank(x) < Rank(y) \/ (Rank(x) = Rank(y) /\ Depth(y) <= Depth(x))
          /\ Rank(y) < Rank(x) \/ (Rank(y) = Rank(x) /\ Depth(x) <= Depth(y))
      BY <1>2, <2>1, <2>2 DEF LongestPath, Fits
    <2>4. /\ Rooted(Path(x)[1], words) /\ Matches(x, Depth(x), Path(x)[1], words)
          /\ Rooted(Path(y)[1], words) /\ Matches(y, Depth(y), Path(y)[1], words)
          /\ ListOf(Path(x)[1]) \in Lists \ Cmd /\ ListOf(Path(y)[1]) \in Lists \ Cmd
      BY <2>2, FitRooted
    <2>5. /\ Rank(x) \in Nat /\ cmd_lists[Rank(x)] = ListOf(Path(x)[1])
          /\ Rank(y) \in Nat /\ cmd_lists[Rank(y)] = ListOf(Path(y)[1])
      <3>1. ASSUME NEW c, ListOf(Path(c)[1]) \in Lists \ Cmd
            PROVE  Rank(c) \in Nat /\ cmd_lists[Rank(c)] = ListOf(Path(c)[1])
        <4> DEFINE S == {i \in DOMAIN cmd_lists : cmd_lists[i] = ListOf(Path(c)[1])}
        <4>1. S \in SUBSET Nat /\ S /= {}
          BY <3>1, ConfiguredLists
        <4>2. Rank(c) = Min(S)
          BY DEF Rank
        <4> QED
          BY <4>1, <4>2, MinOf
      <3> QED
        BY <2>4, <3>1
    <2>6. Depth(x) \in Nat /\ Depth(x) >= 1 /\ Depth(y) \in Nat
      BY <2>2, PathProperties
    <2>7. Rank(x) = Rank(y) /\ Depth(x) = Depth(y)
      BY <2>3, <2>5, <2>6
    <2>8. Path(x)[1] = Path(y)[1]
      BY <2>4, <2>5, <2>7 DEF Rooted, NamesClear
    <2>9. x = y
      BY <2>4, <2>6, <2>7, <2>8, MatchOne
    <2> QED
      BY <2>1, <2>9
  <1> QED
    BY <1>1, <1>2

(***************************************************************************)
(* Scanning a line                                                         *)
(***************************************************************************)
\* The equation of the recursive function in tokenize, from any state on.
Scan(s, line, f, i) == IF i = 0 THEN s ELSE Consume(f[i - 1], line[i])

Scans(s, line, f) == f = [i \in 0..Len(line) |-> Scan(s, line, f, i)]

Run(s, line) == (CHOOSE f : Scans(s, line, f))[Len(line)]

\* It has a solution: the least length without one would have one.
LEMMA ScanExists ==
  ASSUME NEW s, NEW line, Len(line) \in Nat
  PROVE  \E f : Scans(s, line, f)
  <1> DEFINE To(n, f) == f = [i \in 0..n |-> Scan(s, line, f, i)]
  <1> DEFINE S == {n \in Nat : ~\E f : To(n, f)}
  <1>1. SUFFICES ASSUME S /= {} PROVE FALSE
    BY DEF Scans
  <1>2. PICK n \in S : \A m \in S : n <= m
    BY <1>1, LeastNat
  <1>3. CASE n = 0
    <2>1. PICK f : f = [i \in 0..0 |-> s]
      OBVIOUS
    <2>2. \A i \in 0..0 : Scan(s, line, f, i) = s
      BY DEF Scan
    <2>3. To(0, f)
      BY <2>1, <2>2
    <2> QED
      BY <1>2, <1>3, <2>3
  <1>4. CASE n /= 0
    <2>1. n - 1 \in Nat /\ n - 1 \notin S
      BY <1>2, <1>4
    <2>2. PICK g : To(n - 1, g)
      BY <2>1
    <2>3. PICK f : f = [i \in 0..n |-> IF i = n THEN Consume(g[n - 1], line[n]) ELSE g[i]]
      OBVIOUS
    <2>4. f[n] = Consume(g[n - 1], line[n]) /\ \A i \in 0..n - 1 : f[i] = g[i]
      BY <1>2, <2>3
    <2>5. ASSUME NEW i \in 0..n PROVE f[i] = Scan(s, line, f, i)
      <3>1. CASE i = n
        <4>1. f[n - 1] = g[n - 1]
          BY <1>2, <1>4, <2>4
        <4> QED
          BY <1>4, <2>4, <3>1, <4>1 DEF Scan
      <3>2. CASE i = 0
        <4>1. g[0] = s /\ f[0] = g[0]
          BY <2>1, <2>2, <2>4 DEF Scan
        <4> QED
          BY <3>2, <4>1 DEF Scan
      <3>3. CASE i \in 1..n - 1
        <4>1. f[i] = g[i] /\ f[i - 1] = g[i - 1] /\ i \in 0..n - 1 /\ i /= 0
          BY <1>2, <2>4, <3>3
        <4>2. g[i] = Scan(s, line, g, i)
          BY <2>2, <4>1
        <4> QED
          BY <4>1, <4>2 DEF Scan
      <3> QED
        BY <1>2, <3>1, <3>2, <3>3
    <2>6. DOMAIN f = 0..n /\ f = [i \in 0..n |-> f[i]]
      BY <2>3
    <2>7. To(n, f)
      BY <2>5, <2>6
    <2> QED
      BY <1>2, <2>7
  <1> QED
    BY <1>3, <1>4

LEMMA ScansAt ==
  ASSUME NEW s, NEW line, Len(line) \in Nat, NEW f, Scans(s, line, f)
  PROVE  f[0] = s /\ \A i \in 1..Len(line) : f[i] = Consume(f[i - 1], line[i])
  BY DEF Scans, Scan

\* And only one: whatever solves it gives what the scan comes to.
LEMMA RunIs ==
  ASSUME NEW s, NEW line, Len(line) \in Nat,
         NEW f, f[0] = s, \A i \in 1..Len(line) : f[i] = Consume(f[i - 1], line[i])
  PROVE  Run(s, line) = f[Len(line)]
  <1>1. PICK g : g = CHOOSE h : Scans(s, line, h)
    OBVIOUS
  <1>2. Scans(s, line, g)
    BY <1>1, ScanExists
  <1>3. g[0] = s /\ \A i \in 1..Len(line) : g[i] = Consume(g[i - 1], line[i])
    BY <1>2, ScansAt
  <1> DEFINE S == {i \in 0..Len(line) : f[i] /= g[i]}
  <1>4. CASE S = {}
    <2>1. f[Len(line)] = g[Len(line)]
      BY <1>4
    <2> QED
      BY <1>1, <2>1 DEF Run
  <1>5. CASE S /= {}
    <2>1. PICK n \in S : \A m \in S : n <= m
      <3>1. S \in SUBSET Nat
        OBVIOUS
      <3> QED
        BY <1>5, <3>1, LeastNat
    <2>2. n /= 0 /\ n \in 1..Len(line) /\ n - 1 \in 0..Len(line) /\ ~(n <= n - 1)
      BY <1>3
    <2>3. f[n - 1] = g[n - 1]
      BY <2>1, <2>2
    <2> QED
      BY <1>3, <2>1, <2>2, <2>3
  <1> QED
    BY <1>4, <1>5

LEMMA RunSteps ==
  ASSUME NEW s, NEW line, Len(line) \in Nat
  PROVE  \E f : /\ f[0] = s /\ \A i \in 1..Len(line) : f[i] = Consume(f[i - 1], line[i])
               /\ Run(s, line) = f[Len(line)]
  <1>1. PICK f : Scans(s, line, f)
    BY ScanExists
  <1>2. f[0] = s /\ \A i \in 1..Len(line) : f[i] = Consume(f[i - 1], line[i])
    BY <1>1, ScansAt
  <1>3. Run(s, line) = f[Len(line)]
    BY <1>2, RunIs
  <1> QED
    BY <1>2, <1>3

LEMMA TokenizeRun ==
  ASSUME NEW line
  PROVE  tokenize(line) =
           LET s == Run(Start, line)
               t == EmitOpen(s)
           IN  IF ~t.room \/ (s.open /\ s.quote_char /= None) THEN Failed ELSE t.args
  BY Zenon DEF tokenize, Run, Scans, Scan

LEMMA RunFull ==
  ASSUME NEW s, ~s.room, NEW line, Len(line) \in Nat
  PROVE  Run(s, line) = s
  <1>1. PICK f : f = [i \in 0..Len(line) |-> s]
    OBVIOUS
  <1>2. f[0] = s /\ f[Len(line)] = s
    BY <1>1
  <1>3. \A i \in 1..Len(line) : f[i] = Consume(f[i - 1], line[i])
    <2>1. \A i \in 1..Len(line) : f[i] = s /\ f[i - 1] = s
      BY <1>1
    <2>2. \A c : Consume(s, c) = s
      BY DEF Consume
    <2> QED
      BY <2>1, <2>2
  <1> QED
    BY <1>2, <1>3, RunIs

LEMMA RunNone ==
  ASSUME NEW s
  PROVE  Run(s, <<>>) = s
  <1>1. PICK f : f = [i \in 0..0 |-> s]
    OBVIOUS
  <1>2. f[0] = s /\ Len(<<>>) = 0
    BY <1>1
  <1> QED
    BY <1>2, RunIs

LEMMA RunOne ==
  ASSUME NEW s, NEW c
  PROVE  Run(s, <<c>>) = Consume(s, c)
  <1>1. PICK f : f = [i \in 0..1 |-> IF i = 0 THEN s ELSE Consume(s, c)]
    OBVIOUS
  <1>2. f[0] = s /\ f[1] = Consume(s, c)
    BY <1>1
  <1>3. Len(<<c>>) = 1 /\ <<c>>[1] = c
    OBVIOUS
  <1>4. \A i \in 1..1 : f[i] = Consume(f[i - 1], <<c>>[i])
    BY <1>2, <1>3
  <1> QED
    BY <1>2, <1>3, <1>4, RunIs

\* A line is scanned one part after the other.
LEMMA RunConcat ==
  ASSUME NEW C, NEW a \in Seq(C), NEW b \in Seq(C), NEW s
  PROVE  Run(s, a \o b) = Run(Run(s, a), b)
  <1>1. PICK l : l = a \o b
    OBVIOUS
  <1>2. PICK m \in Nat, n \in Nat : m = Len(a) /\ n = Len(b)
    BY LenProperties
  <1>3. Len(l) = m + n /\ \A i \in 1..m + n : l[i] = IF i <= m THEN a[i] ELSE b[i - m]
    BY <1>1, <1>2, ConcatProperties
  <1>4. PICK f : /\ f[0] = s /\ \A i \in 1..Len(l) : f[i] = Consume(f[i - 1], l[i])
                 /\ Run(s, l) = f[Len(l)]
    <2>1. Len(l) \in Nat
      BY <1>3
    <2> QED
      BY <2>1, RunSteps
  <1>5. f[0] = s /\ (\A i \in 1..m + n : f[i] = Consume(f[i - 1], l[i])) /\ Run(s, l) = f[m + n]
    <2>1. Len(l) = m + n
      BY <1>3
    <2> QED
      BY <1>4, <2>1
  <1>6. f[m] = Run(s, a)
    <2>1. \A i \in 1..m : l[i] = a[i] /\ i \in 1..m + n
      BY <1>3
    <2>2. \A i \in 1..m : f[i] = Consume(f[i - 1], a[i])
      BY <1>5, <2>1
    <2> QED
      BY <1>2, <1>5, <2>2, RunIs
  <1>7. PICK g : g = [i \in 0..n |-> f[m + i]]
    OBVIOUS
  <1>8. g[0] = f[m] /\ g[n] = f[m + n]
    BY <1>7
  <1>9. ASSUME NEW i \in 1..n PROVE g[i] = Consume(g[i - 1], b[i])
    <2>1. g[i] = f[m + i] /\ g[i - 1] = f[m + (i - 1)]
      BY <1>7
    <2>2. m + i \in 1..m + n /\ ~(m + i <= m) /\ m + i - m = i /\ m + i - 1 = m + (i - 1)
      OBVIOUS
    <2>3. l[m + i] = b[i]
      BY <1>3, <2>2
    <2> QED
      BY <1>5, <2>1, <2>2, <2>3
  <1>10. Run(f[m], b) = g[n]
    BY <1>2, <1>8, <1>9, RunIs
  <1> QED
    BY <1>1, <1>5, <1>6, <1>8, <1>10

\* A state of the scan, and one that has room, field by field.
Fields == {"args", "open", "word", "quote_char", "room"}

At(s, a, o, w, q) ==
  /\ DOMAIN s = Fields /\ s.room = TRUE
  /\ s.args = a /\ s.open = o /\ s.word = w /\ s.quote_char = q

Full(s) == DOMAIN s = Fields /\ ~s.room

LEMMA Marks == None \notin Quotes /\ Blank \notin Quotes /\ Blank /= None /\ "'" \in Quotes
  BY DEF None, Quotes, Blank

LEMMA StartAt == At(Start, <<>>, FALSE, <<>>, None)
  BY DEF Start, At, Fields

LEMMA EmitAt ==
  ASSUME NEW s, NEW a, NEW o, NEW w, NEW q, At(s, a, o, w, q)
  PROVE  /\ o = FALSE => At(EmitOpen(s), a, FALSE, w, q)
         /\ o = TRUE /\ Len(a) < ArgsMax => At(EmitOpen(s), Append(a, w), FALSE, <<>>, q)
         /\ o = TRUE /\ ~(Len(a) < ArgsMax) => Full(EmitOpen(s))
  <1>1. CASE o = FALSE
    BY <1>1 DEF EmitOpen, At
  <1>2. CASE o = TRUE /\ Len(a) < ArgsMax
    <2>1. EmitOpen(s) = [s EXCEPT !.args = Append(@, s.word), !.open = FALSE, !.word = <<>>]
      BY <1>2 DEF EmitOpen, Emit, At
    <2> QED
      BY <1>2, <2>1 DEF At, Fields
  <1>3. CASE o = TRUE /\ ~(Len(a) < ArgsMax)
    <2>1. EmitOpen(s) = [s EXCEPT !.room = FALSE]
      BY <1>3 DEF EmitOpen, Emit, At
    <2> QED
      BY <1>3, <2>1 DEF At, Full, Fields
  <1> QED
    BY <1>1, <1>2, <1>3

LEMMA EmitFull ==
  ASSUME NEW s, Full(s)
  PROVE  Full(EmitOpen(s))
  BY DEF EmitOpen, Emit, Full, Fields

LEMMA ExtendAt ==
  ASSUME NEW s, NEW a, NEW o, NEW w, NEW q, At(s, a, o, w, q), NEW c,
         IF q /= None THEN c /= q ELSE c \notin Quotes \union {Blank}
  PROVE  At(Consume(s, c), a, TRUE, Append(w, c), q)
  <1>1. Consume(s, c) = Extend(s, c)
    BY DEF Consume, At
  <1>2. At(Extend(s, c), a, TRUE, Append(w, c), q)
    BY DEF Extend, At, Fields
  <1> QED
    BY <1>1, <1>2

LEMMA BlankAt ==
  ASSUME NEW s, NEW a, NEW o, NEW w, At(s, a, o, w, None)
  PROVE  Consume(s, Blank) = EmitOpen(s)
  BY Marks DEF Consume, At

LEMMA QuoteAt ==
  ASSUME NEW s, NEW a, NEW o, NEW w, At(s, a, o, w, None), NEW c \in Quotes
  PROVE  /\ Full(EmitOpen(s)) => Consume(s, c) = EmitOpen(s)
         /\ \A b, v : At(EmitOpen(s), b, FALSE, v, None) => At(Consume(s, c), b, TRUE, v, c)
  <1>1. Consume(s, c) = LET t == EmitOpen(s) IN IF t.room THEN OpenQuote(t, c) ELSE t
    BY DEF Consume, At
  <1>2. ASSUME NEW b, NEW v, At(EmitOpen(s), b, FALSE, v, None)
        PROVE  At(Consume(s, c), b, TRUE, v, c)
    <2>1. Consume(s, c) = OpenQuote(EmitOpen(s), c)
      BY <1>1, <1>2 DEF At
    <2>2. ASSUME NEW t, At(t, b, FALSE, v, None) PROVE At(OpenQuote(t, c), b, TRUE, v, c)
      BY <2>2 DEF At, OpenQuote, Fields
    <2> QED
      BY <1>2, <2>1, <2>2
  <1> QED
    BY <1>1, <1>2 DEF Full

\* The closing quote ends the word.
LEMMA CloseAt ==
  ASSUME NEW s, NEW a, NEW w, NEW q, At(s, a, TRUE, w, q), q /= None
  PROVE  \E t : At(t, a, TRUE, w, None) /\ Consume(s, q) = EmitOpen(t)
  <1>1. Consume(s, q) = EmitOpen([s EXCEPT !.quote_char = None])
    BY DEF Consume, At
  <1>2. At([s EXCEPT !.quote_char = None], a, TRUE, w, None)
    BY DEF At, Fields
  <1> QED
    BY <1>1, <1>2

LEMMA SubSeqGrows ==
  ASSUME NEW C, NEW t \in Seq(C), NEW i \in 1..Len(t)
  PROVE  /\ Append(SubSeq(t, 1, i - 1), t[i]) = SubSeq(t, 1, i)
         /\ SubSeq(t, 1, i) \in Seq(C) /\ Len(SubSeq(t, 1, i)) = i
         /\ SubSeq(t, 1, i - 1) \in Seq(C) /\ Len(SubSeq(t, 1, i - 1)) = i - 1
  <1>1. PICK n \in Nat : n = Len(t)
    BY LenProperties
  <1>2. i \in Nat /\ i - 1 \in Int /\ 1 <= i /\ i <= n /\ \A j \in 1..n : t[j] \in C
    BY <1>1, ElementOfSeq
  <1>3. ASSUME NEW m \in 0..n PROVE SubSeq(t, 1, m) \in Seq(C) /\ Len(SubSeq(t, 1, m)) = m
    <2>1. /\ m \in Int /\ \A j \in 1..m : t[j] \in C
          /\ (IF 1 <= m THEN m - 1 + 1 ELSE 0) = m
      BY <1>2
    <2> QED
      BY <2>1, SubSeqProperties
  <1>4. i - 1 \in 0..n /\ i \in 0..n /\ 1 \in 1..n /\ i \in 1..n
    BY <1>2
  <1>5. SubSeq(t, 1, i) = SubSeq(t, 1, i - 1) \o <<t[i]>>
    BY <1>1, <1>4, SubSeqRecursiveSecond
  <1>6. Append(SubSeq(t, 1, i - 1), t[i]) = SubSeq(t, 1, i - 1) \o <<t[i]>>
    BY <1>2, <1>3, <1>4, AppendIsConcat
  <1> QED
    BY <1>3, <1>4, <1>5, <1>6

\* The letters of a word are added to it.
LEMMA RunText ==
  ASSUME NEW C, NEW text \in Seq(C), NEW s, NEW a, NEW q,
         IF q = None THEN At(s, a, FALSE, <<>>, None) /\ text /= <<>>
         ELSE At(s, a, TRUE, <<>>, q),
         \A i \in 1..Len(text) :
           IF q /= None THEN text[i] /= q ELSE text[i] \notin Quotes \union {Blank}
  PROVE  At(Run(s, text), a, TRUE, text, q)
  <1>1. PICK n \in Nat : n = Len(text)
    BY LenProperties
  <1>2. PICK f : /\ f[0] = s /\ \A i \in 1..n : f[i] = Consume(f[i - 1], text[i])
                 /\ Run(s, text) = f[n]
    <2>1. Len(text) \in Nat
      BY LenProperties
    <2>2. \E f : /\ f[0] = s /\ \A i \in 1..Len(text) : f[i] = Consume(f[i - 1], text[i])
                 /\ Run(s, text) = f[Len(text)]
      BY <2>1, RunSteps
    <2> QED
      BY <1>1, <2>2
  <1> DEFINE P(i) == At(f[i], a, TRUE, SubSeq(text, 1, i), q)
             S == {i \in 1..n : ~P(i)}
  <1>3. ASSUME NEW i \in 1..n, NEW o, At(f[i - 1], a, o, SubSeq(text, 1, i - 1), q)
        PROVE  P(i)
    <2>1. At(f[i], a, TRUE, Append(SubSeq(text, 1, i - 1), text[i]), q)
      <3>1. f[i] = Consume(f[i - 1], text[i])
        BY <1>2
      <3>2. IF q /= None THEN text[i] /= q ELSE text[i] \notin Quotes \union {Blank}
        BY <1>1
      <3> QED
        BY <1>3, <3>1, <3>2, ExtendAt
    <2>2. Append(SubSeq(text, 1, i - 1), text[i]) = SubSeq(text, 1, i)
      BY <1>1, SubSeqGrows
    <2> QED
      BY <2>1, <2>2
  <1>4. \E o : At(f[0], a, o, SubSeq(text, 1, 0), q)
    <2>1. SubSeq(text, 1, 0) = <<>>
      BY SubSeqEmpty
    <2>2. At(s, a, FALSE, <<>>, q) \/ At(s, a, TRUE, <<>>, q)
      OBVIOUS
    <2> QED
      BY <1>2, <2>1, <2>2
  <1>5. CASE S /= {}
    <2>1. PICK i \in S : \A j \in S : i <= j
      <3>1. S \in SUBSET Nat
        <4>1. 1..n \subseteq Nat
          BY <1>1
        <4>2. S \subseteq 1..n
          BY Zenon
        <4> QED
          BY <4>1, <4>2
      <3> QED
        BY <1>5, <3>1, LeastNat
    <2>2. i \in 1..n /\ (i = 1 \/ i - 1 \in 1..n) /\ ~(i <= i - 1)
      BY <1>1, <2>1
    <2>3. CASE i = 1
      <3>1. i - 1 = 0
        BY <2>3
      <3> QED
        BY <1>3, <1>4, <2>1, <2>2, <3>1
    <2>4. CASE i - 1 \in 1..n
      <3>1. P(i - 1)
        BY <2>1, <2>2, <2>4
      <3> QED
        BY <1>3, <2>1, <2>2, <3>1
    <2> QED
      BY <2>2, <2>3, <2>4
  <1>6. CASE S = {}
    <2>1. CASE n = 0
      <3>1. text = <<>>
        BY <1>1, <2>1, EmptySeq
      <3>2. At(s, a, TRUE, text, q)
        BY <3>1
      <3> QED
        BY <1>2, <2>1, <3>2
    <2>2. CASE n /= 0
      <3>1. n \in 1..n
        BY <1>1, <2>2
      <3>2. P(n)
        BY <1>6, <3>1
      <3>3. SubSeq(text, 1, n) = text
        BY <1>1, SubSeqFull
      <3> QED
        BY <1>2, <3>2, <3>3
    <2> QED
      BY <2>1, <2>2
  <1> QED
    BY <1>5, <1>6

(***************************************************************************)
(* Writing a line                                                          *)
(***************************************************************************)
\* The equation of the recursive function in FlattenSeq, and its solution.
Flat(seqs, f, i) == IF i = 1 THEN seqs[i] ELSE f[i - 1] \o seqs[i]

Flattens(seqs, n, f) == f = [i \in 1..n |-> Flat(seqs, f, i)]

LEMMA FlatExists ==
  ASSUME NEW seqs, NEW N \in Nat
  PROVE  \E f : Flattens(seqs, N, f)
  <1> DEFINE S == {n \in Nat : ~\E f : Flattens(seqs, n, f)}
  <1>1. SUFFICES ASSUME S /= {} PROVE FALSE
    OBVIOUS
  <1>2. PICK n \in S : \A m \in S : n <= m
    BY <1>1, LeastNat
  <1>3. CASE n = 0
    <2>1. Flattens(seqs, 0, <<>>)
      BY DEF Flattens
    <2> QED
      BY <1>2, <1>3, <2>1
  <1>4. CASE n /= 0
    <2>1. n - 1 \in Nat /\ n - 1 \notin S
      BY <1>2, <1>4
    <2>2. PICK g : Flattens(seqs, n - 1, g)
      BY <2>1
    <2>3. PICK f : f = [i \in 1..n |-> IF i = n THEN Flat(seqs, g, n) ELSE g[i]]
      OBVIOUS
    <2>4. f[n] = Flat(seqs, g, n) /\ \A i \in 1..n - 1 : f[i] = g[i]
      BY <1>2, <1>4, <2>3
    <2>5. ASSUME NEW i \in 1..n PROVE f[i] = Flat(seqs, f, i)
      <3>1. i = 1 \/ i - 1 \in 1..n - 1
        BY <1>2
      <3>2. i /= 1 => f[i - 1] = g[i - 1]
        BY <2>4, <3>1
      <3>3. Flat(seqs, f, i) = Flat(seqs, g, i)
        BY <3>2 DEF Flat
      <3>4. CASE i = n
        BY <2>4, <3>3, <3>4
      <3>5. CASE i \in 1..n - 1
        <4>1. g[i] = Flat(seqs, g, i)
          BY <2>2, <3>5 DEF Flattens
        <4> QED
          BY <2>4, <3>3, <3>5, <4>1
      <3> QED
        BY <1>2, <3>4, <3>5
    <2>6. DOMAIN f = 1..n /\ f = [i \in 1..n |-> f[i]]
      BY <2>3
    <2>7. Flattens(seqs, n, f)
      BY <2>5, <2>6 DEF Flattens
    <2> QED
      BY <1>2, <2>7
  <1> QED
    BY <1>3, <1>4

LEMMA FlattenIs ==
  ASSUME NEW seqs, NEW N \in Nat, Len(seqs) = N, N /= 0
  PROVE  \E f : /\ f[1] = seqs[1] /\ \A i \in 2..N : f[i] = f[i - 1] \o seqs[i]
               /\ FlattenSeq(seqs) = f[N]
  <1>1. FlattenSeq(seqs) = (CHOOSE f : Flattens(seqs, N, f))[N]
    <2>1. FlattenSeq(seqs) = IF Len(seqs) = 0 THEN seqs
                             ELSE (CHOOSE f : Flattens(seqs, Len(seqs), f))[Len(seqs)]
      BY Zenon DEF FlattenSeq, Flattens, Flat
    <2> QED
      BY <2>1
  <1>2. PICK f : f = CHOOSE h : Flattens(seqs, N, h)
    OBVIOUS
  <1>3. Flattens(seqs, N, f)
    BY <1>2, FlatExists
  <1>4. f[1] = seqs[1] /\ \A i \in 2..N : f[i] = f[i - 1] \o seqs[i]
    <2>1. \A i \in 1..N : f[i] = Flat(seqs, f, i)
      BY <1>3 DEF Flattens
    <2>2. 1 \in 1..N /\ \A i \in 2..N : i \in 1..N /\ i /= 1
      OBVIOUS
    <2> QED
      BY <2>1, <2>2 DEF Flat
  <1> QED
    BY <1>1, <1>2, <1>4

Char == Letter \union Quotes \union {Blank}

Readable(words) == words \in Seq(WrittenWord) /\ Legible(words)

LEMMA TextsTyped ==
  ASSUME NEW words, Readable(words)
  PROVE  Texts(words) \in Seq(Seq(Letter)) /\ Len(Texts(words)) = Len(words)
  <1>1. PICK n \in Nat : n = Len(words) /\ DOMAIN words = 1..n
    BY LenProperties DEF Readable
  <1>2. \A j \in 1..n : words[j].text \in Seq(Letter)
    <2>1. \A j \in 1..n : words[j] \in WrittenWord
      BY <1>1, ElementOfSeq DEF Readable
    <2> QED
      BY <2>1 DEF WrittenWord
  <1>3. Texts(words) = [j \in 1..n |-> words[j].text]
    BY <1>1 DEF Texts
  <1> QED
    BY <1>1, <1>2, <1>3

LEMMA ReadableWord ==
  ASSUME NEW words, Readable(words), NEW i \in 1..Len(words)
  PROVE  /\ words[i].text \in Seq(Letter) /\ words[i].text \in Seq(Char)
         /\ words[i].quote \in Quotes \union {None} /\ words[i].gap \in BOOLEAN
         /\ Written(words[i]) \in Seq(Char) /\ Texts(words) \in Seq(Seq(Letter))
         /\ Len(Texts(words)) = Len(words) /\ Texts(words)[i] = words[i].text
  <1>1. words[i] \in WrittenWord
    BY ElementOfSeq DEF Readable
  <1>2. /\ words[i].text \in Seq(Letter) /\ words[i].quote \in Quotes \union {None}
        /\ words[i].gap \in BOOLEAN
    BY <1>1 DEF WrittenWord
  <1>3. words[i].text \in Seq(Char)
    <2>1. Letter \subseteq Char
      BY DEF Char
    <2> QED
      BY <1>2, <2>1, SeqMonotonic
  <1>4. Written(words[i]) \in Seq(Char)
    <2>1. Blank \in Char /\ Quotes \subseteq Char
      BY DEF Char
    <2>2. \A a, b \in Seq(Char) : a \o b \in Seq(Char)
      BY ConcatProperties
    <2>3. <<>> \in Seq(Char) /\ \A c \in Char : <<c>> \in Seq(Char)
      OBVIOUS
    <2>4. words[i].quote /= None => <<words[i].quote>> \in Seq(Char)
      BY <1>2, <2>1, <2>3
    <2>5. <<Blank>> \in Seq(Char)
      BY <2>1, <2>3
    <2> QED
      BY <1>3, <2>2, <2>3, <2>4, <2>5 DEF Written
  <1>5. Texts(words) \in Seq(Seq(Letter)) /\ Len(Texts(words)) = Len(words)
    BY TextsTyped
  <1>6. Texts(words)[i] = words[i].text
    <2>1. DOMAIN words = 1..Len(words)
      BY LenProperties DEF Readable
    <2> QED
      BY <2>1 DEF Texts
  <1> QED
    BY <1>2, <1>3, <1>4, <1>5, <1>6

\* Where the scan may stand after the first k words: the last of them is ended,
\* or it is bare and open, or there was no room for one of them.
Ended(words, k, s) ==
  \/ Full(s) /\ k > ArgsMax
  \/ At(s, SubSeq(Texts(words), 1, k), FALSE, <<>>, None) /\ k <= ArgsMax

Opened(words, k, s) ==
  /\ k >= 1 /\ k - 1 <= ArgsMax /\ words[k].quote = None
  /\ At(s, SubSeq(Texts(words), 1, k - 1), TRUE, words[k].text, None)

LEMMA WordEnds ==
  ASSUME NEW words, Readable(words), NEW k \in 1..Len(words), k - 1 <= ArgsMax, NEW s,
         At(s, SubSeq(Texts(words), 1, k - 1), TRUE, words[k].text, None)
  PROVE  Ended(words, k, EmitOpen(s))
  <1>1. PICK T : T = Texts(words)
    OBVIOUS
  <1>2. T \in Seq(Seq(Letter)) /\ Len(T) = Len(words) /\ T[k] = words[k].text
    BY <1>1, ReadableWord
  <1>3. /\ Append(SubSeq(T, 1, k - 1), words[k].text) = SubSeq(T, 1, k)
        /\ Len(SubSeq(T, 1, k - 1)) = k - 1
    <2>1. k \in 1..Len(T)
      BY <1>2
    <2>2. /\ Append(SubSeq(T, 1, k - 1), T[k]) = SubSeq(T, 1, k)
          /\ Len(SubSeq(T, 1, k - 1)) = k - 1
      BY ONLY <1>2, <2>1, SubSeqGrows
    <2> QED
      BY <1>2, <2>2
  <1>4. k \in Nat /\ (k - 1 < ArgsMax => k <= ArgsMax) /\ (~(k - 1 < ArgsMax) => k > ArgsMax)
    <2>1. Len(words) \in Nat
      BY LenProperties DEF Readable
    <2> QED
      BY <2>1, ArgsMaxAssumption
  <1>5. CASE k - 1 < ArgsMax
    <2>1. At(EmitOpen(s), Append(SubSeq(T, 1, k - 1), words[k].text), FALSE, <<>>, None)
      BY <1>1, <1>3, <1>5, EmitAt
    <2> QED
      BY <1>1, <1>3, <1>4, <1>5, <2>1 DEF Ended
  <1>6. CASE ~(k - 1 < ArgsMax)
    <2>1. Full(EmitOpen(s))
      BY <1>1, <1>3, <1>6, EmitAt
    <2> QED
      BY <1>4, <1>6, <2>1 DEF Ended
  <1> QED
    BY <1>5, <1>6

LEMMA Ending ==
  ASSUME NEW words, Readable(words), NEW k \in 0..Len(words), NEW s,
         Ended(words, k, s) \/ Opened(words, k, s)
  PROVE  Ended(words, k, EmitOpen(s))
  <1>1. CASE Full(s) /\ k > ArgsMax
    BY <1>1, EmitFull DEF Ended
  <1>2. CASE At(s, SubSeq(Texts(words), 1, k), FALSE, <<>>, None) /\ k <= ArgsMax
    BY <1>2, EmitAt DEF Ended
  <1>3. CASE Opened(words, k, s)
    <2>1. k \in 1..Len(words)
      <3>1. k >= 1
        BY <1>3 DEF Opened
      <3> QED
        BY <3>1
    <2> QED
      BY <1>3, <2>1, WordEnds DEF Opened
  <1> QED
    BY <1>1, <1>2, <1>3 DEF Ended

\* A blank ends a word that is open.
LEMMA GapEnds ==
  ASSUME NEW words, Readable(words), NEW k \in 0..Len(words), NEW s,
         Ended(words, k, s) \/ Opened(words, k, s)
  PROVE  Ended(words, k, Run(s, <<Blank>>))
  <1>1. CASE Full(s)
    <2>1. Len(<<Blank>>) \in Nat
      OBVIOUS
    <2>2. Run(s, <<Blank>>) = s
      BY <1>1, <2>1, RunFull DEF Full
    <2>3. ~Opened(words, k, s)
      BY <1>1 DEF Opened, Full, At
    <2> QED
      BY <2>2, <2>3
  <1>2. CASE ~Full(s)
    <2>1. Run(s, <<Blank>>) = EmitOpen(s)
      <3>1. \E a, o, w : At(s, a, o, w, None)
        BY <1>2 DEF Ended, Opened
      <3> QED
        BY <3>1, BlankAt, RunOne
    <2> QED
      BY <2>1, Ending
  <1> QED
    BY <1>1, <1>2

\* A bare word is left open.
LEMMA BareOpens ==
  ASSUME NEW words, Readable(words), NEW k \in 1..Len(words), NEW s,
         Ended(words, k - 1, s), words[k].quote = None
  PROVE  LET t == Run(s, words[k].text)
         IN  Ended(words, k, t) \/ Opened(words, k, t)
  <1>1. PICK w : w = words[k]
    OBVIOUS
  <1>2. Len(words) \in Nat /\ k \in 1..Len(words) /\ k - 1 \in Nat /\ k >= 1
    BY LenProperties DEF Readable
  <1>3. w.text \in Seq(Letter) /\ Len(w.text) \in Nat /\ DOMAIN w.text = 1..Len(w.text)
    BY <1>1, <1>2, ReadableWord, LenProperties
  <1>4. CASE Full(s) /\ k - 1 > ArgsMax
    <2>1. Run(s, w.text) = s
      BY <1>3, <1>4, RunFull DEF Full
    <2>2. k > ArgsMax
      BY <1>2, <1>4, ArgsMaxAssumption
    <2> QED
      BY <1>1, <1>4, <2>1, <2>2 DEF Ended
  <1>5. CASE At(s, SubSeq(Texts(words), 1, k - 1), FALSE, <<>>, None) /\ k - 1 <= ArgsMax
    <2>1. /\ w.text /= <<>>
          /\ {w.text[j] : j \in DOMAIN w.text} \intersect (Quotes \union {Blank}) = {}
      <3>1. k \in DOMAIN words
        BY <1>2, LenProperties DEF Readable
      <3> QED
        BY <1>1, <3>1 DEF Readable, Legible
    <2>2. \A j \in 1..Len(w.text) : w.text[j] \notin Quotes \union {Blank}
      BY <1>3, <2>1
    <2>3. At(Run(s, w.text), SubSeq(Texts(words), 1, k - 1), TRUE, w.text, None)
      BY ONLY <1>3, <1>5, <2>1, <2>2, RunText
    <2>4. At(Run(s, words[k].text), SubSeq(Texts(words), 1, k - 1), TRUE, words[k].text, None)
      BY <1>1, <1>2, <2>3
    <2>5. k - 1 <= ArgsMax /\ k >= 1
      BY <1>2, <1>5
    <2>6. Opened(words, k, Run(s, words[k].text))
      BY ONLY <2>4, <2>5, words[k].quote = None DEF Opened
    <2> QED
      BY <2>6
  <1> QED
    BY <1>4, <1>5 DEF Ended

\* A quoted word is ended by its quote.
LEMMA QuotedEnds ==
  ASSUME NEW words, Readable(words), NEW k \in 1..Len(words), NEW s,
         Ended(words, k - 1, s) \/ Opened(words, k - 1, s),
         NEW q, q = words[k].quote, q /= None
  PROVE  Ended(words, k, Run(s, <<q>> \o words[k].text \o <<q>>))
  <1>1. PICK text : text = words[k].text
    OBVIOUS
  <1>2. Len(words) \in Nat /\ k \in 1..Len(words) /\ k - 1 \in Nat /\ k - 1 \in 0..Len(words)
    BY LenProperties DEF Readable
  <1>3. text \in Seq(Char) /\ q \in Quotes
    BY <1>1, <1>2, ReadableWord
  <1>4. Len(text) \in Nat /\ DOMAIN text = 1..Len(text) /\ <<q>> \in Seq(Char)
    BY <1>3, LenProperties DEF Char
  <1>5. \A j \in 1..Len(text) : text[j] /= q
    <2>1. k \in DOMAIN words
      BY <1>2, LenProperties DEF Readable
    <2>2. q \notin {text[j] : j \in DOMAIN text}
      BY <1>1, <2>1 DEF Readable, Legible
    <2> QED
      BY <1>4, <2>2
  <1>6. Run(s, <<q>> \o text \o <<q>>) = Consume(Run(Consume(s, q), text), q)
    <2>1. <<q>> \o text \in Seq(Char)
      BY <1>3, <1>4, ConcatProperties
    <2>2. \A a, b \in Seq(Char) : Run(s, a \o b) = Run(Run(s, a), b)
      BY ONLY RunConcat
    <2>3. Run(s, <<q>> \o text \o <<q>>) = Run(Run(s, <<q>> \o text), <<q>>)
      BY ONLY <1>4, <2>1, <2>2
    <2>4. Run(s, <<q>> \o text) = Run(Run(s, <<q>>), text)
      BY ONLY <1>3, <1>4, <2>2
    <2> QED
      BY <2>3, <2>4, RunOne
  <1>7. \A e : Full(e) => Consume(Run(e, text), q) = e /\ Consume(e, q) = e
    <2>1. ASSUME NEW e, Full(e) PROVE Run(e, text) = e /\ Consume(e, q) = e
      BY <1>4, <2>1, RunFull DEF Full, Consume
    <2> QED
      BY <2>1
  <1>8. \A e : Full(e) /\ k - 1 > ArgsMax => Ended(words, k, e)
    <2>1. k - 1 > ArgsMax => k > ArgsMax
      BY <1>2, ArgsMaxAssumption
    <2> QED
      BY <2>1 DEF Ended
  <1>9. Ended(words, k - 1, EmitOpen(s))
    BY <1>2, Ending
  <1>10. CASE Full(s)
    <2>1. k - 1 > ArgsMax
      BY <1>10 DEF Ended, Opened, Full, At
    <2> QED
      BY <1>1, <1>6, <1>7, <1>8, <1>10, <2>1
  <1>11. CASE ~Full(s)
    <2>1. PICK a, o, w : At(s, a, o, w, None)
      BY <1>11 DEF Ended, Opened
    <2>2. CASE Full(EmitOpen(s)) /\ k - 1 > ArgsMax
      <3>1. Consume(s, q) = EmitOpen(s)
        BY <1>3, <2>1, <2>2, QuoteAt
      <3> QED
        BY <1>1, <1>6, <1>7, <1>8, <2>2, <3>1
    <2>3. CASE /\ At(EmitOpen(s), SubSeq(Texts(words), 1, k - 1), FALSE, <<>>, None)
               /\ k - 1 <= ArgsMax
      <3>1. At(Consume(s, q), SubSeq(Texts(words), 1, k - 1), TRUE, <<>>, q)
        BY <1>3, <2>1, <2>3, QuoteAt
      <3>2. At(Run(Consume(s, q), text), SubSeq(Texts(words), 1, k - 1), TRUE, text, q)
        BY <1>3, <1>5, <3>1, RunText
      <3>3. PICK t : /\ At(t, SubSeq(Texts(words), 1, k - 1), TRUE, text, None)
                     /\ Consume(Run(Consume(s, q), text), q) = EmitOpen(t)
        BY ONLY <3>2, q /= None, CloseAt
      <3>4. At(t, SubSeq(Texts(words), 1, k - 1), TRUE, words[k].text, None)
        BY <1>1, <1>2, <3>3
      <3>5. k - 1 <= ArgsMax
        BY <1>2, <2>3
      <3>6. k \in 1..Len(words)
        BY <1>2
      <3>7. Ended(words, k, EmitOpen(t))
        BY ONLY <3>4, <3>5, <3>6, Readable(words), WordEnds
      <3> QED
        BY <1>1, <1>6, <3>3, <3>7
    <2> QED
      BY <1>9, <2>2, <2>3 DEF Ended
  <1> QED
    BY <1>10, <1>11

\* A word is read as it is written, whatever the word before it has left.
LEMMA WordRead ==
  ASSUME NEW words, Readable(words), NEW k \in 1..Len(words), NEW s,
         Ended(words, k - 1, s) \/ Opened(words, k - 1, s)
  PROVE  LET t == Run(s, Written(words[k]))
         IN  Ended(words, k, t) \/ Opened(words, k, t)
  <1>1. PICK w : w = words[k]
    OBVIOUS
  <1>2. PICK l : l = IF w.quote = None THEN w.text ELSE <<w.quote>> \o w.text \o <<w.quote>>
    OBVIOUS
  <1>3. k \in 1..Len(words) /\ k - 1 \in 0..Len(words) /\ k - 1 \in Nat /\ (k > 1 <=> k - 1 >= 1)
    BY LenProperties DEF Readable
  <1>4. w.text \in Seq(Char) /\ w.quote \in Quotes \union {None}
    BY <1>1, <1>3, ReadableWord
  <1>5. l \in Seq(Char) /\ <<Blank>> \in Seq(Char)
    <2>1. \A a, b \in Seq(Char) : a \o b \in Seq(Char)
      BY ConcatProperties
    <2>2. \A c \in Char : <<c>> \in Seq(Char)
      OBVIOUS
    <2>3. <<Blank>> \in Seq(Char) /\ (w.quote /= None => <<w.quote>> \in Seq(Char))
      BY <1>4, <2>2 DEF Char
    <2> QED
      BY <1>2, <1>4, <2>1, <2>3
  <1>6. ASSUME NEW t, Ended(words, k - 1, t) \/ (Opened(words, k - 1, t) /\ w.quote /= None)
        PROVE  Ended(words, k, Run(t, l)) \/ Opened(words, k, Run(t, l))
    <2>1. CASE w.quote = None
      <3>1. l = words[k].text
        BY <1>1, <1>2, <2>1
      <3> QED
        BY <1>1, <1>6, <2>1, <3>1, BareOpens
    <2>2. CASE w.quote /= None
      <3>1. l = <<w.quote>> \o words[k].text \o <<w.quote>>
        BY <1>1, <1>2, <2>2
      <3> QED
        BY <1>1, <1>6, <2>2, <3>1, QuotedEnds
    <2> QED
      BY <2>1, <2>2
  <1>7. CASE w.gap
    <2>1. Written(w) = <<Blank>> \o l
      BY <1>2, <1>7 DEF Written
    <2>2. Run(s, Written(w)) = Run(Run(s, <<Blank>>), l)
      <3>1. \A a, b \in Seq(Char) : Run(s, a \o b) = Run(Run(s, a), b)
        BY RunConcat
      <3> QED
        BY ONLY <1>5, <2>1, <3>1
    <2>3. Ended(words, k - 1, Run(s, <<Blank>>))
      BY <1>3, GapEnds
    <2> QED
      BY <1>1, <1>6, <2>2, <2>3
  <1>8. CASE ~w.gap
    <2>1. Written(w) = l
      <3>1. <<>> \o l = l
        BY <1>5, ConcatEmptySeq
      <3> QED
        BY <1>2, <1>8, <3>1 DEF Written
    <2>2. Opened(words, k - 1, s) => w.quote /= None
      <3>1. ASSUME Opened(words, k - 1, s), w.quote = None PROVE FALSE
        <4>1. k \in DOMAIN words /\ k > 1 /\ words[k - 1].quote = None
          BY <1>3, <3>1, LenProperties DEF Opened, Readable
        <4> QED
          BY <1>1, <1>8, <3>1, <4>1 DEF Readable, Legible
      <3> QED
        BY <3>1
    <2> QED
      BY <1>1, <1>6, <2>1, <2>2
  <1> QED
    BY <1>7, <1>8

\* The line, to its end.
LEMMA LineRead ==
  ASSUME NEW words, Readable(words)
  PROVE  /\ Line(words) \in Seq(Char)
         /\ LET s == Run(Start, Line(words))
            IN  Ended(words, Len(words), s) \/ Opened(words, Len(words), s)
  <1>1. PICK n \in Nat : n = Len(words) /\ DOMAIN words = 1..n
    BY LenProperties DEF Readable
  <1>2. PICK ws : ws = [i \in DOMAIN words |-> Written(words[i])]
    OBVIOUS
  <1>3. Len(ws) = n /\ \A i \in 1..n : ws[i] = Written(words[i]) /\ ws[i] \in Seq(Char)
    <2>1. \A i \in 1..n : Written(words[i]) \in Seq(Char)
      BY <1>1, ReadableWord
    <2>2. ws = [i \in 1..n |-> Written(words[i])]
      BY <1>1, <1>2
    <2>3. ws \in Seq(Seq(Char)) /\ Len(ws) = n
      BY <2>1, <2>2
    <2> QED
      BY <2>1, <2>2, <2>3
  <1>4. Line(words) = FlattenSeq(ws)
    BY <1>2 DEF Line
  <1> DEFINE Read(k, l) ==
               /\ l \in Seq(Char)
               /\ Ended(words, k, Run(Start, l)) \/ Opened(words, k, Run(Start, l))
  <1>5. Read(0, <<>>)
    <2>1. SubSeq(Texts(words), 1, 0) = <<>>
      BY SubSeqEmpty
    <2>2. 0 <= ArgsMax
      BY ArgsMaxAssumption
    <2>3. Ended(words, 0, Start)
      BY <2>1, <2>2, StartAt DEF Ended
    <2> QED
      BY <2>3, RunNone
  <1>6. ASSUME NEW k \in 1..n, NEW l, Read(k - 1, l) PROVE Read(k, l \o ws[k])
    <2>1. k \in 1..Len(words) /\ ws[k] = Written(words[k]) /\ ws[k] \in Seq(Char)
      BY <1>1, <1>3
    <2>2. l \o ws[k] \in Seq(Char)
      BY <1>6, <2>1, ConcatProperties
    <2>3. Run(Start, l \o ws[k]) = Run(Run(Start, l), ws[k])
      BY <1>6, <2>1, RunConcat
    <2>4. PICK s : s = Run(Start, l)
      OBVIOUS
    <2>5. Ended(words, k - 1, s) \/ Opened(words, k - 1, s)
      BY <1>6, <2>4
    <2>6. Ended(words, k, Run(s, ws[k])) \/ Opened(words, k, Run(s, ws[k]))
      BY <2>1, <2>5, WordRead
    <2> QED
      BY <2>2, <2>3, <2>4, <2>6
  <1> HIDE DEF Read
  <1>7. CASE n = 0
    <2>1. ws = <<>>
      <3>1. ws = [i \in 1..0 |-> Written(words[i])]
        BY <1>1, <1>2, <1>7
      <3> QED
        BY <3>1
    <2>2. FlattenSeq(ws) = ws
      BY <1>3, <1>7 DEF FlattenSeq
    <2>3. Read(n, Line(words))
      BY <1>4, <1>5, <1>7, <2>1, <2>2
    <2> QED
      BY <1>1, <2>3 DEF Read
  <1>8. CASE n /= 0
    <2>1. PICK f : /\ f[1] = ws[1] /\ \A i \in 2..n : f[i] = f[i - 1] \o ws[i]
                   /\ FlattenSeq(ws) = f[n]
      BY <1>3, <1>8, FlattenIs
    <2>2. Read(1, f[1])
      <3>1. <<>> \o ws[1] = ws[1]
        BY <1>3, <1>8, ConcatEmptySeq
      <3>2. Read(1 - 1, <<>>) /\ 1 \in 1..n
        BY <1>5, <1>8
      <3>3. Read(1, <<>> \o ws[1])
        BY <1>6, <3>2
      <3> QED
        BY <2>1, <3>1, <3>3
    <2> DEFINE S == {k \in 1..n : ~Read(k, f[k])}
    <2>3. CASE S = {}
      <3>1. n \in 1..n
        BY <1>8
      <3>2. Read(n, Line(words))
        BY <1>4, <2>1, <2>3, <3>1
      <3> QED
        BY <1>1, <3>2 DEF Read
    <2>4. CASE S /= {}
      <3>1. PICK k \in S : \A m \in S : k <= m
        <4>1. S \in SUBSET Nat
          OBVIOUS
        <4> QED
          BY <2>4, <4>1, LeastNat
      <3>2. k \in 2..n /\ k \in 1..n /\ k - 1 \in 1..n /\ ~(k <= k - 1)
        <4>1. k /= 1
          BY <2>2, <3>1
        <4> QED
          BY <3>1, <4>1
      <3>3. Read(k - 1, f[k - 1])
        BY <3>1, <3>2
      <3>4. Read(k, f[k])
        BY <1>6, <2>1, <3>2, <3>3
      <3> QED
        BY <3>1, <3>4
    <2> QED
      BY <2>3, <2>4
  <1> QED
    BY <1>7, <1>8

\* Whatever words are written, the line is read as those words, or refused where
\* there are too many; and refused where a quote is left open.
LEMMA TokenizeLine ==
  ASSUME NEW words, Readable(words)
  PROVE  /\ tokenize(Line(words)) = IF Len(words) <= ArgsMax THEN Texts(words) ELSE Failed
         /\ tokenize(Line(words) \o <<"'">>) = Failed
  <1>1. PICK s : s = Run(Start, Line(words))
    OBVIOUS
  <1>2. Line(words) \in Seq(Char) /\ (Ended(words, Len(words), s) \/ Opened(words, Len(words), s))
    BY <1>1, LineRead
  <1>3. Len(words) \in Nat /\ Len(words) \in 0..Len(words)
    BY LenProperties DEF Readable
  <1>4. Ended(words, Len(words), EmitOpen(s))
    BY <1>2, <1>3, Ending
  <1>5. tokenize(Line(words)) =
          IF ~EmitOpen(s).room \/ (s.open /\ s.quote_char /= None) THEN Failed ELSE EmitOpen(s).args
    BY <1>1, TokenizeRun
  <1>6. PICK u : u = Consume(s, "'")
    OBVIOUS
  <1>7. tokenize(Line(words) \o <<"'">>) =
          IF ~EmitOpen(u).room \/ (u.open /\ u.quote_char /= None) THEN Failed ELSE EmitOpen(u).args
    <2>1. <<"'">> \in Seq(Char)
      BY Marks DEF Char
    <2>2. Run(Start, Line(words) \o <<"'">>) = Run(s, <<"'">>)
      BY <1>1, <1>2, <2>1, RunConcat
    <2>3. Run(Start, Line(words) \o <<"'">>) = u
      BY <1>6, <2>2, RunOne
    <2> QED
      BY <2>3, TokenizeRun
  <1>8. tokenize(Line(words)) = IF Len(words) <= ArgsMax THEN Texts(words) ELSE Failed
    <2>1. CASE Full(EmitOpen(s)) /\ Len(words) > ArgsMax
      <3>1. ~(Len(words) <= ArgsMax)
        BY <1>3, <2>1, ArgsMaxAssumption
      <3> QED
        BY <1>5, <2>1, <3>1 DEF Full
    <2>2. CASE /\ At(EmitOpen(s), SubSeq(Texts(words), 1, Len(words)), FALSE, <<>>, None)
               /\ Len(words) <= ArgsMax
      <3>1. SubSeq(Texts(words), 1, Len(words)) = Texts(words)
        <4>1. CASE Len(words) = 0
          <5>1. Texts(words) = <<>>
            BY <4>1, LenProperties DEF Texts, Readable
          <5> QED
            BY <4>1, <5>1, SubSeqEmpty
        <4>2. CASE Len(words) /= 0
          <5>1. Texts(words) \in Seq(Seq(Letter)) /\ Len(Texts(words)) = Len(words)
            BY TextsTyped
          <5> QED
            BY <5>1, SubSeqFull
        <4> QED
          BY <4>1, <4>2
      <3>2. EmitOpen(s).room /\ EmitOpen(s).args = Texts(words)
        BY <2>2, <3>1 DEF At
      <3>3. ~(s.open /\ s.quote_char /= None)
        <4>1. ~Full(s)
          BY <3>2, EmitFull DEF Full
        <4> QED
          BY <1>2, <4>1 DEF Ended, Opened, At
      <3> QED
        BY <1>5, <2>2, <3>2, <3>3
    <2> QED
      BY <1>4, <2>1, <2>2 DEF Ended
  <1>9. tokenize(Line(words) \o <<"'">>) = Failed
    <2>1. CASE Full(u)
      <3>1. ~EmitOpen(u).room
        BY <2>1, EmitFull DEF Full
      <3> QED
        BY <1>7, <3>1
    <2>2. CASE ~Full(u)
      <3>1. ~Full(s)
        BY <1>6, <2>2 DEF Full, Consume
      <3>2. PICK a, o, w : At(s, a, o, w, None)
        BY <1>2, <3>1 DEF Ended, Opened
      <3>3. ~Full(EmitOpen(s))
        BY <1>6, <2>2, <3>2, QuoteAt, Marks
      <3>4. \E b : At(EmitOpen(s), b, FALSE, <<>>, None)
        BY <1>4, <3>3 DEF Ended
      <3>5. \E b : At(u, b, TRUE, <<>>, "'")
        BY <1>6, <3>2, <3>4, QuoteAt, Marks
      <3>6. u.open /\ u.quote_char /= None
        BY <3>5, Marks DEF At
      <3> QED
        BY <1>7, <3>6
    <2> QED
      BY <2>1, <2>2
  <1> QED
    BY <1>8, <1>9

(***************************************************************************)
(* What is below a command                                                 *)
(***************************************************************************)
\* x is y or on the path to it; and y is at most d below it, and linked.
Above(x, y) == \E i \in 1..Depth(y) : Path(y)[i] = x

Below(x, y, d) ==
  /\ y \in Cmd
  /\ \E i \in 1..Depth(y) : /\ Path(y)[i] = x /\ Depth(y) - i <= d
                           /\ \A j \in i + 1..Depth(y) : Path(y)[j] \notin early

\* A path begins with the paths of the commands on it.
LEMMA PathPrefix ==
  ASSUME Forest, NEW y \in Cmd, NEW i \in 1..Depth(y)
  PROVE  /\ Path(y)[i] \in Cmd /\ Depth(Path(y)[i]) = i
         /\ \A j \in 1..i : Path(Path(y)[i])[j] = Path(y)[j]
         /\ i = 1 => Parent(Path(y)[i]) = None
         /\ i > 1 => Parent(Path(y)[i]) = Path(y)[i - 1]
  <1>1. PICK p : IsPath(p, y)
    BY PathExists
  <1>2. Path(y) = p /\ Depth(y) = Len(p)
    BY <1>1, PathIs
  <1>3. PICK n \in Nat, N \in Nat : n = Len(p) /\ N = Cardinality(Cmd) /\ n <= N
    BY <1>1, FS_CardinalityType, CmdAssumption, LenProperties DEF IsPath
  <1>4. /\ i \in 1..n /\ i \in Nat /\ i <= n /\ i <= N /\ 1 <= i /\ \A j \in 1..n : p[j] \in Cmd
        /\ Parent(p[1]) = None /\ \A j \in 2..n : Parent(p[j]) = p[j - 1]
    BY <1>1, <1>2, <1>3, ElementOfSeq DEF IsPath
  <1>5. PICK q : q = SubSeq(p, 1, i)
    OBVIOUS
  <1>6. q \in Seq(Cmd) /\ Len(q) = i /\ \A j \in 1..i : q[j] = p[j]
    <2>1. \A j \in 1..i : p[j] \in Cmd
      BY <1>4
    <2>2. /\ SubSeq(p, 1, i) \in Seq(Cmd) /\ Len(SubSeq(p, 1, i)) = i
          /\ \A j \in 1..i : SubSeq(p, 1, i)[j] = p[j]
      BY <1>4, <2>1, SubSeqProperties
    <2> QED
      BY <1>5, <2>2
  <1>7. IsPath(q, p[i])
    <2>1. i \in 1..N /\ 1 \in 1..i /\ i \in 1..i
      BY <1>4
    <2>2. q[1] = p[1] /\ q[i] = p[i]
      BY <1>6, <2>1
    <2>3. ASSUME NEW j \in 2..i PROVE Parent(q[j]) = q[j - 1]
      <3>1. j \in 1..i /\ j - 1 \in 1..i /\ j \in 2..n
        BY <1>4
      <3> QED
        BY <1>4, <1>6, <3>1
    <2> QED
      BY <1>3, <1>4, <1>6, <2>1, <2>2, <2>3 DEF IsPath
  <1>8. p[i] \in Cmd /\ Path(p[i]) = q /\ Depth(p[i]) = Len(q)
    BY <1>4, <1>7, PathIs
  <1>9. i > 1 => i \in 2..n
    BY <1>4
  <1> QED
    BY <1>2, <1>4, <1>6, <1>8, <1>9

LEMMA ParentOf ==
  ASSUME Forest, NEW c \in Cmd
  PROVE  /\ Parent(c) = None \/ Parent(c) \in Cmd
         /\ Parent(c) = None => Depth(c) = 1
         /\ Parent(c) \in Cmd => Depth(c) = Depth(Parent(c)) + 1 /\ Depth(Parent(c)) \in Nat
         /\ Depth(c) \in Nat /\ Depth(c) >= 1
  BY PathProperties, ParentAssumption

LEMMA AboveDepth ==
  ASSUME Forest, NEW y \in Cmd, NEW x, Above(x, y)
  PROVE  x \in Cmd /\ Depth(x) \in 1..Depth(y) /\ Path(y)[Depth(x)] = x
  BY PathPrefix DEF Above

LEMMA AboveSelf ==
  ASSUME Forest, NEW y \in Cmd
  PROVE  Above(y, y)
  <1>1. Depth(y) \in 1..Depth(y) /\ Path(y)[Depth(y)] = y
    BY PathProperties
  <1> QED
    BY <1>1 DEF Above

LEMMA AboveChild ==
  ASSUME Forest, NEW y \in Cmd, Parent(y) \in Cmd, NEW x, Above(x, Parent(y))
  PROVE  Above(x, y)
  <1>1. /\ Depth(y) = Depth(Parent(y)) + 1 /\ Depth(Parent(y)) \in Nat
        /\ \A i \in 1..Depth(Parent(y)) : Path(y)[i] = Path(Parent(y))[i]
    BY PathProperties
  <1>2. PICK i \in 1..Depth(Parent(y)) : Path(Parent(y))[i] = x
    BY DEF Above
  <1>3. i \in 1..Depth(y)
    BY <1>1
  <1> QED
    BY <1>1, <1>2, <1>3 DEF Above

LEMMA AboveParent ==
  ASSUME Forest, NEW y \in Cmd, NEW x, Above(x, y), x /= y
  PROVE  Parent(y) \in Cmd /\ Above(x, Parent(y))
  <1>1. PICK i \in 1..Depth(y) : Path(y)[i] = x
    BY DEF Above
  <1>2. Path(y)[Depth(y)] = y /\ Depth(y) \in Nat
    BY PathProperties
  <1>3. i /= Depth(y) /\ Depth(y) > 1
    BY <1>1, <1>2
  <1>4. Parent(y) \in Cmd
    BY <1>3, ParentOf
  <1>5. /\ Depth(y) = Depth(Parent(y)) + 1 /\ Depth(Parent(y)) \in Nat
        /\ \A j \in 1..Depth(Parent(y)) : Path(y)[j] = Path(Parent(y))[j]
    BY <1>4, PathProperties
  <1>6. i \in 1..Depth(Parent(y))
    BY <1>3, <1>5
  <1> QED
    BY <1>1, <1>4, <1>5, <1>6 DEF Above

\* No two commands with one parent are above the same command, and no command
\* is above its parent.
LEMMA AboveOne ==
  ASSUME Forest, NEW y \in Cmd, NEW k \in Cmd, NEW l \in Cmd, Parent(k) = Parent(l),
         Above(k, y), Above(l, y)
  PROVE  k = l
  <1>1. Depth(k) = Depth(l)
    BY ParentOf
  <1> QED
    BY <1>1, AboveDepth

LEMMA NotAboveParent ==
  ASSUME Forest, NEW k \in Cmd, NEW x, Parent(k) = x, x \in Cmd
  PROVE  ~Above(k, x) /\ (Parent(x) \in Cmd => ~Above(k, Parent(x)))
  <1>1. Depth(k) = Depth(x) + 1 /\ Depth(x) \in Nat
    BY ParentOf
  <1>2. ~Above(k, x)
    BY <1>1, AboveDepth
  <1> QED
    BY <1>2, AboveChild

LEMMA BelowAbove ==
  ASSUME NEW x, NEW y, NEW d, Below(x, y, d)
  PROVE  y \in Cmd /\ Above(x, y)
  BY DEF Below, Above

LEMMA BelowZero ==
  ASSUME Forest, NEW x \in Cmd, NEW y
  PROVE  Below(x, y, 0) <=> y = x
  <1>1. ASSUME Below(x, y, 0) PROVE y = x
    <2>1. PICK i \in 1..Depth(y) : Path(y)[i] = x /\ Depth(y) - i <= 0
      BY <1>1 DEF Below
    <2>2. y \in Cmd /\ Depth(y) \in Nat /\ Path(y)[Depth(y)] = y
      BY <1>1, PathProperties DEF Below
    <2>3. i = Depth(y)
      BY <2>1, <2>2
    <2> QED
      BY <2>1, <2>2, <2>3
  <1>2. Below(x, x, 0)
    <2>1. /\ Depth(x) \in Nat /\ Path(x)[Depth(x)] = x /\ Depth(x) \in 1..Depth(x)
          /\ Depth(x) - Depth(x) <= 0 /\ Depth(x) + 1..Depth(x) = {}
      BY PathProperties
    <2> QED
      BY <2>1 DEF Below
  <1> QED
    BY <1>1, <1>2

\* What a command's list holds are its children.
LEMMA HeldChild ==
  ASSUME NEW x \in Cmd, NEW k
  PROVE  Holds(x, k) <=> k \in Cmd /\ Parent(k) = x /\ k \notin early
  BY ParentAssumption, CmdAssumption DEF Holds, ListOf

\* What is d + 1 below a command is that command, or d below one that its list
\* holds.
LEMMA BelowKid ==
  ASSUME Forest, NEW x \in Cmd, NEW d \in Nat, NEW y
  PROVE  Below(x, y, d + 1) <=> y = x \/ \E k : Holds(x, k) /\ Below(k, y, d)
  <1>1. ASSUME Below(x, y, d + 1), y /= x PROVE \E k : Holds(x, k) /\ Below(k, y, d)
    <2>1. PICK i \in 1..Depth(y) : /\ Path(y)[i] = x /\ Depth(y) - i <= d + 1
                                   /\ \A j \in i + 1..Depth(y) : Path(y)[j] \notin early
      BY <1>1 DEF Below
    <2>2. y \in Cmd /\ Depth(y) \in Nat /\ Path(y)[Depth(y)] = y
      BY <1>1, PathProperties DEF Below
    <2>3. i /= Depth(y)
      BY <1>1, <2>1, <2>2
    <2>4. /\ i + 1 \in 1..Depth(y) /\ i + 1 > 1 /\ i + 1 - 1 = i /\ i + 1 \in i + 1..Depth(y)
          /\ Depth(y) - (i + 1) <= d
          /\ \A j \in i + 1 + 1..Depth(y) : j \in i + 1..Depth(y)
      BY <2>1, <2>2, <2>3
    <2>5. PICK k : k = Path(y)[i + 1]
      OBVIOUS
    <2>6. k \in Cmd /\ Parent(k) = x /\ k \notin early
      <3>1. Path(y)[i + 1] \in Cmd /\ Parent(Path(y)[i + 1]) = Path(y)[i + 1 - 1]
        BY <2>2, <2>4, PathPrefix
      <3> QED
        BY <2>1, <2>4, <2>5, <3>1
    <2>7. Below(k, y, d)
      BY <2>1, <2>2, <2>4, <2>5 DEF Below
    <2> QED
      BY <2>6, <2>7, HeldChild
  <1>2. Below(x, x, d + 1)
    <2>1. /\ Depth(x) \in Nat /\ Path(x)[Depth(x)] = x /\ Depth(x) \in 1..Depth(x)
          /\ Depth(x) - Depth(x) <= d + 1 /\ Depth(x) + 1..Depth(x) = {}
      BY PathProperties
    <2> QED
      BY <2>1 DEF Below
  <1>3. ASSUME NEW k, Holds(x, k), Below(k, y, d) PROVE Below(x, y, d + 1)
    <2>1. k \in Cmd /\ Parent(k) = x /\ k \notin early
      BY <1>3, HeldChild
    <2>2. PICK i \in 1..Depth(y) : /\ Path(y)[i] = k /\ Depth(y) - i <= d
                                   /\ \A j \in i + 1..Depth(y) : Path(y)[j] \notin early
      BY <1>3 DEF Below
    <2>3. y \in Cmd /\ Depth(y) \in Nat
      BY <1>3, PathProperties DEF Below
    <2>4. i /= 1 /\ (i > 1 => Path(y)[i - 1] = x)
      BY <2>1, <2>2, <2>3, PathPrefix, CmdAssumption
    <2>5. /\ i - 1 \in 1..Depth(y) /\ i > 1 /\ Depth(y) - (i - 1) <= d + 1
          /\ \A j \in i - 1 + 1..Depth(y) : j = i \/ j \in i + 1..Depth(y)
      BY <2>2, <2>3, <2>4
    <2>6. \A j \in i - 1 + 1..Depth(y) : Path(y)[j] \notin early
      BY <2>1, <2>2, <2>5
    <2> QED
      BY <2>3, <2>4, <2>5, <2>6 DEF Below
  <1> QED
    BY <1>1, <1>2, <1>3

(***************************************************************************)
(* Trees of commands, as help prints them                                  *)
(***************************************************************************)
Listed(s, y) == \E i \in 1..Len(s) : s[i] = y

\* Commands, each once and after its parent.
Ordered(s) ==
  /\ s \in Seq(Cmd)
  /\ \A i, j \in 1..Len(s) : (s[i] = s[j] => i = j) /\ (s[i] = Parent(s[j]) => i < j)

Tree(s, x, d) == Ordered(s) /\ \A y : Listed(s, y) <=> Below(x, y, d)

LEMMA ListedConcat ==
  ASSUME NEW a \in Seq(Cmd), NEW b \in Seq(Cmd), NEW y
  PROVE  Listed(a \o b, y) <=> Listed(a, y) \/ Listed(b, y)
  <1>1. PICK m \in Nat, n \in Nat : m = Len(a) /\ n = Len(b)
    BY LenProperties
  <1>2. PICK t : t = a \o b
    OBVIOUS
  <1>3. Len(t) = m + n /\ \A i \in 1..m + n : t[i] = IF i <= m THEN a[i] ELSE b[i - m]
    BY <1>1, <1>2, ConcatProperties
  <1>4. ASSUME NEW i \in 1..m + n, t[i] = y PROVE Listed(a, y) \/ Listed(b, y)
    <2>1. CASE i <= m
      <3>1. i \in 1..m /\ a[i] = y
        BY <1>3, <1>4, <2>1
      <3> QED
        BY <1>1, <3>1 DEF Listed
    <2>2. CASE ~(i <= m)
      <3>1. i - m \in 1..n /\ b[i - m] = y
        BY <1>3, <1>4, <2>2
      <3> QED
        BY <1>1, <3>1 DEF Listed
    <2> QED
      BY <2>1, <2>2
  <1>5. ASSUME NEW i \in 1..m, a[i] = y PROVE Listed(t, y)
    <2>1. i \in 1..m + n /\ i <= m
      OBVIOUS
    <2>2. t[i] = y
      BY <1>3, <1>5, <2>1
    <2> QED
      BY <1>3, <2>1, <2>2 DEF Listed
  <1>6. ASSUME NEW i \in 1..n, b[i] = y PROVE Listed(t, y)
    <2>1. m + i \in 1..m + n /\ ~(m + i <= m) /\ m + i - m = i
      OBVIOUS
    <2>2. t[m + i] = y
      BY <1>3, <1>6, <2>1
    <2> QED
      BY <1>3, <2>1, <2>2 DEF Listed
  <1> QED
    BY <1>1, <1>2, <1>3, <1>4, <1>5, <1>6 DEF Listed

\* Where no command of b is one of a or the parent of one, b may follow a.
LEMMA OrderedConcat ==
  ASSUME NEW a, NEW b, Ordered(a), Ordered(b),
         \A y, z : Listed(a, y) /\ Listed(b, z) => z /= y /\ z /= Parent(y)
  PROVE  Ordered(a \o b)
  <1>1. PICK m \in Nat, n \in Nat : m = Len(a) /\ n = Len(b)
    BY LenProperties DEF Ordered
  <1>2. PICK t : t = a \o b
    OBVIOUS
  <1>3. /\ t \in Seq(Cmd) /\ Len(t) = m + n
        /\ \A i \in 1..m + n : t[i] = IF i <= m THEN a[i] ELSE b[i - m]
    BY <1>1, <1>2, ConcatProperties DEF Ordered
  <1>4. ASSUME NEW i \in 1..m + n
        PROVE  \/ i \in 1..m /\ t[i] = a[i] /\ Listed(a, t[i])
               \/ i > m /\ i - m \in 1..n /\ t[i] = b[i - m] /\ Listed(b, t[i])
    <2>1. CASE i <= m
      <3>1. i \in 1..m /\ t[i] = a[i]
        BY <1>3, <2>1
      <3> QED
        BY <1>1, <3>1 DEF Listed
    <2>2. CASE ~(i <= m)
      <3>1. i > m /\ i - m \in 1..n /\ t[i] = b[i - m]
        BY <1>3, <2>2
      <3> QED
        BY <1>1, <3>1 DEF Listed
    <2> QED
      BY <2>1, <2>2
  <1>5. ASSUME NEW i \in 1..m + n, NEW j \in 1..m + n
        PROVE  (t[i] = t[j] => i = j) /\ (t[i] = Parent(t[j]) => i < j)
    <2>1. CASE i \in 1..m /\ t[i] = a[i] /\ j \in 1..m /\ t[j] = a[j]
      BY <1>1, <2>1 DEF Ordered
    <2>2. CASE i \in 1..m /\ Listed(a, t[i]) /\ j > m /\ Listed(b, t[j])
      <3>1. i < j /\ t[i] /= t[j]
        BY <2>2
      <3> QED
        BY <3>1
    <2>3. CASE i > m /\ Listed(b, t[i]) /\ j \in 1..m /\ Listed(a, t[j])
      BY <2>3
    <2>4. CASE /\ i - m \in 1..n /\ t[i] = b[i - m]
               /\ j - m \in 1..n /\ t[j] = b[j - m]
      <3>1. (b[i - m] = b[j - m] => i - m = j - m) /\ (b[i - m] = Parent(b[j - m]) => i - m < j - m)
        BY <1>1, <2>4 DEF Ordered
      <3> QED
        BY <2>4, <3>1
    <2> QED
      BY <1>4, <2>1, <2>2, <2>3, <2>4
  <1> QED
    BY <1>2, <1>3, <1>5 DEF Ordered

\* Sequences, one after the other.
LEMMA FlattenTyped ==
  ASSUME NEW C, NEW n \in Nat, NEW ts, ts = [i \in 1..n |-> ts[i]], \A i \in 1..n : ts[i] \in Seq(C)
  PROVE  FlattenSeq(ts) \in Seq(C)
  <1>1. CASE n = 0
    <2>1. ts = <<>> /\ Len(ts) = 0
      BY <1>1
    <2>2. FlattenSeq(ts) = <<>>
      BY <2>1 DEF FlattenSeq
    <2> QED
      BY <2>2
  <1>2. CASE n /= 0
    <2>1. PICK f : /\ f[1] = ts[1] /\ \A i \in 2..n : f[i] = f[i - 1] \o ts[i]
                   /\ FlattenSeq(ts) = f[n]
      <3>1. Len(ts) = n
        OBVIOUS
      <3> QED
        BY <1>2, <3>1, FlattenIs
    <2> DEFINE S == {k \in 1..n : f[k] \notin Seq(C)}
    <2>2. CASE S = {}
      BY <1>2, <2>1, <2>2
    <2>3. CASE S /= {}
      <3>1. PICK k \in S : \A m \in S : k <= m
        <4>1. S \in SUBSET Nat
          OBVIOUS
        <4> QED
          BY <2>3, <4>1, LeastNat
      <3>2. k \in 2..n /\ k - 1 \in 1..n /\ ~(k <= k - 1)
        <4>1. k /= 1
          BY <2>1, <3>1
        <4> QED
          BY <3>1, <4>1
      <3>3. f[k - 1] \in Seq(C) /\ ts[k] \in Seq(C)
        BY <3>1, <3>2
      <3>4. f[k] \in Seq(C)
        <4>1. f[k] = f[k - 1] \o ts[k]
          BY <2>1, <3>2
        <4>2. f[k - 1] \o ts[k] \in Seq(C)
          BY <3>3, ConcatProperties
        <4> QED
          BY <4>1, <4>2
      <3> QED
        BY <3>1, <3>4
    <2> QED
      BY <2>2, <2>3
  <1> QED
    BY <1>1, <1>2

LEMMA FlattenOrdered ==
  ASSUME NEW n \in Nat, NEW ts, ts = [i \in 1..n |-> ts[i]], \A i \in 1..n : Ordered(ts[i]),
         \A i, k \in 1..n : i < k =>
           \A y, z : Listed(ts[i], y) /\ Listed(ts[k], z) => z /= y /\ z /= Parent(y)
  PROVE  /\ Ordered(FlattenSeq(ts))
         /\ \A y : Listed(FlattenSeq(ts), y) <=> \E i \in 1..n : Listed(ts[i], y)
  <1> DEFINE Planted(s, k) == /\ Ordered(s)
                           /\ \A y : Listed(s, y) <=> \E i \in 1..k : Listed(ts[i], y)
  <1>1. ASSUME NEW k \in 1..n, NEW s, Planted(s, k - 1) PROVE Planted(s \o ts[k], k)
    <2>1. Ordered(s) /\ \A y : Listed(s, y) <=> \E i \in 1..k - 1 : Listed(ts[i], y)
      BY <1>1
    <2>2. \A i \in 1..k - 1 : i \in 1..n /\ i < k
      OBVIOUS
    <2>3. \A y, z : Listed(s, y) /\ Listed(ts[k], z) => z /= y /\ z /= Parent(y)
      BY <2>1, <2>2
    <2>4. Ordered(s \o ts[k])
      BY <2>1, <2>3, OrderedConcat
    <2>5. \A y : Listed(s \o ts[k], y) <=> Listed(s, y) \/ Listed(ts[k], y)
      BY <2>1, ListedConcat DEF Ordered
    <2>6. \A i : i \in 1..k <=> i \in 1..k - 1 \/ i = k
      OBVIOUS
    <2> QED
      BY <2>1, <2>4, <2>5, <2>6
  <1>2. Planted(<<>>, 0)
    BY DEF Ordered, Listed
  <1> HIDE DEF Planted
  <1>3. CASE n = 0
    <2>1. ts = <<>> /\ Len(ts) = 0
      BY <1>3
    <2>2. FlattenSeq(ts) = <<>>
      BY <2>1 DEF FlattenSeq
    <2>3. Planted(FlattenSeq(ts), n)
      BY <1>2, <1>3, <2>2
    <2> QED
      BY <2>3 DEF Planted
  <1>4. CASE n /= 0
    <2>1. PICK f : /\ f[1] = ts[1] /\ \A i \in 2..n : f[i] = f[i - 1] \o ts[i]
                   /\ FlattenSeq(ts) = f[n]
      <3>1. Len(ts) = n
        OBVIOUS
      <3> QED
        BY <1>4, <3>1, FlattenIs
    <2>2. Planted(f[1], 1)
      <3>1. 1 \in 1..n /\ Planted(<<>>, 1 - 1)
        BY <1>2, <1>4
      <3>2. ts[1] \in Seq(Cmd)
        BY <3>1 DEF Ordered
      <3>3. <<>> \o ts[1] = ts[1]
        BY <3>2, ConcatEmptySeq
      <3>4. Planted(<<>> \o ts[1], 1)
        BY <1>1, <3>1
      <3> QED
        BY <2>1, <3>3, <3>4
    <2> DEFINE S == {k \in 1..n : ~Planted(f[k], k)}
    <2>3. CASE S = {}
      <3>1. n \in 1..n
        BY <1>4
      <3>2. Planted(FlattenSeq(ts), n)
        BY <2>1, <2>3, <3>1
      <3> QED
        BY <3>2 DEF Planted
    <2>4. CASE S /= {}
      <3>1. PICK k \in S : \A m \in S : k <= m
        <4>1. S \in SUBSET Nat
          OBVIOUS
        <4> QED
          BY <2>4, <4>1, LeastNat
      <3>2. k \in 2..n /\ k \in 1..n /\ k - 1 \in 1..n /\ ~(k <= k - 1)
        <4>1. k /= 1
          BY <2>2, <3>1
        <4> QED
          BY <3>1, <4>1
      <3>3. Planted(f[k - 1], k - 1)
        BY <3>1, <3>2
      <3>4. Planted(f[k], k)
        BY <1>1, <2>1, <3>2, <3>3
      <3> QED
        BY <3>1, <3>4
    <2> QED
      BY <2>3, <2>4
  <1> QED
    BY <1>3, <1>4

\* Commands that share a parent, once each.
Grove(kids) ==
  /\ kids \in Seq(Cmd)
  /\ \A i, j \in 1..Len(kids) : Parent(kids[i]) = Parent(kids[j]) /\ (kids[i] = kids[j] => i = j)

\* Their trees, one after the other.
LEMMA GroveIs ==
  ASSUME Forest, NEW kids, Grove(kids), NEW d, NEW ts,
         ts = [i \in 1..Len(kids) |-> ts[i]],
         \A i \in 1..Len(kids) : Tree(ts[i], kids[i], d)
  PROVE  /\ Ordered(FlattenSeq(ts))
         /\ \A y : Listed(FlattenSeq(ts), y) <=> \E i \in 1..Len(kids) : Below(kids[i], y, d)
  <1>1. PICK n \in Nat : n = Len(kids)
    BY LenProperties DEF Grove
  <1>2. /\ \A i \in 1..n : kids[i] \in Cmd
        /\ \A i, j \in 1..n : Parent(kids[i]) = Parent(kids[j]) /\ (kids[i] = kids[j] => i = j)
    BY <1>1, ElementOfSeq DEF Grove
  <1>3. \A i \in 1..n : Ordered(ts[i]) /\ \A y : Listed(ts[i], y) <=> Below(kids[i], y, d)
    BY <1>1 DEF Tree
  <1>4. ASSUME NEW i \in 1..n, NEW k \in 1..n, i < k, NEW y, NEW z,
               Listed(ts[i], y), Listed(ts[k], z)
        PROVE  z /= y /\ z /= Parent(y)
    <2>1. /\ kids[i] \in Cmd /\ kids[k] \in Cmd
          /\ kids[i] /= kids[k] /\ Parent(kids[i]) = Parent(kids[k])
      BY <1>2, <1>4
    <2>2. y \in Cmd /\ Above(kids[i], y) /\ z \in Cmd /\ Above(kids[k], z)
      BY <1>3, <1>4, BelowAbove
    <2>3. ~Above(kids[k], y)
      BY <2>1, <2>2, AboveOne
    <2> QED
      BY <2>2, <2>3, AboveChild
  <1>5. /\ Ordered(FlattenSeq(ts))
        /\ \A y : Listed(FlattenSeq(ts), y) <=> \E i \in 1..n : Listed(ts[i], y)
    <2>1. n \in Nat /\ ts = [i \in 1..n |-> ts[i]] /\ \A i \in 1..n : Ordered(ts[i])
      BY <1>1, <1>3
    <2>2. \A i, k \in 1..n : i < k =>
            \A y, z : Listed(ts[i], y) /\ Listed(ts[k], z) => z /= y /\ z /= Parent(y)
      BY <1>4
    <2> QED
      BY ONLY <2>1, <2>2, FlattenOrdered
  <1> QED
    BY <1>1, <1>3, <1>5

\* The commands that a command's list holds are a grove.
LEMMA ChainGrove ==
  ASSUME Complete, NEW list \in Lists
  PROVE  /\ Grove(Chain(list))
         /\ Len(Chain(list)) \in Nat /\ DOMAIN Chain(list) = 1..Len(Chain(list))
         /\ \A i \in 1..Len(Chain(list)) : Chain(list)[i] \in Cmd /\ Holds(list, Chain(list)[i])
         /\ \A c : Holds(list, c) => \E i \in 1..Len(Chain(list)) : Chain(list)[i] = c
  <1>1. PICK s : s = Chain(list)
    OBVIOUS
  <1>2. /\ s \in Seq(Cmd)
        /\ \A i, j \in 1..Len(s) : s[i] = s[j] => i = j
        /\ \A c \in Cmd : Member(list, c) <=> \E i \in 1..Len(s) : s[i] = c
    BY <1>1, ChainMembers DEF Complete
  <1>3. Len(s) \in Nat /\ DOMAIN s = 1..Len(s) /\ \A i \in 1..Len(s) : s[i] \in Cmd
    BY <1>2, ElementOfSeq, LenProperties
  <1>4. \A c \in Cmd : Holds(list, c) <=> Member(list, c)
    BY HoldsMember
  <1>5. /\ \A i \in 1..Len(s) : Holds(list, s[i])
        /\ \A c : Holds(list, c) => \E i \in 1..Len(s) : s[i] = c
    BY <1>2, <1>3, <1>4 DEF Holds
  <1>6. ASSUME NEW i \in 1..Len(s), NEW j \in 1..Len(s) PROVE Parent(s[i]) = Parent(s[j])
    <2>1. /\ s[i] \in Cmd /\ ListOf(s[i]) = list
          /\ s[j] \in Cmd /\ ListOf(s[j]) = list
      BY <1>5 DEF Holds
    <2>2. \A c \in Cmd : ListOf(c) = list => Parent(c) = IF list \in Cmd THEN list ELSE None
      BY ParentAssumption, CmdAssumption DEF ListOf
    <2> QED
      BY <2>1, <2>2
  <1>7. Grove(s)
    BY <1>2, <1>6 DEF Grove
  <1> QED
    BY <1>1, <1>3, <1>5, <1>7

\* A command and then the trees of its children are its tree.
LEMMA TreeGrows ==
  ASSUME Complete, Forest, NEW x \in Cmd, NEW d \in Nat, NEW ts,
         ts = [i \in 1..Len(Chain(x)) |-> ts[i]],
         \A i \in 1..Len(Chain(x)) : Tree(ts[i], Chain(x)[i], d)
  PROVE  Tree(<<x>> \o FlattenSeq(ts), x, d + 1)
  <1>1. PICK kids : kids = Chain(x)
    OBVIOUS
  <1>2. PICK s : s = FlattenSeq(ts)
    OBVIOUS
  <1>3. /\ Grove(kids) /\ \A i \in 1..Len(kids) : kids[i] \in Cmd /\ Holds(x, kids[i])
        /\ \A c : Holds(x, c) => \E i \in 1..Len(kids) : kids[i] = c
    <2>1. x \in Lists
      BY DEF Lists
    <2> QED
      BY <1>1, <2>1, ChainGrove
  <1>4. Ordered(s) /\ \A y : Listed(s, y) <=> \E i \in 1..Len(kids) : Below(kids[i], y, d)
    BY <1>1, <1>2, <1>3, GroveIs
  <1>5. \A y : Listed(s, y) <=> \E k : Holds(x, k) /\ Below(k, y, d)
    BY <1>3, <1>4
  <1>6. Ordered(<<x>>) /\ \A y : Listed(<<x>>, y) <=> y = x
    <2>1. <<x>> \in Seq(Cmd) /\ Len(<<x>>) = 1 /\ <<x>>[1] = x
      OBVIOUS
    <2>2. x /= Parent(x)
      BY ParentAssumption, CmdAssumption
    <2> QED
      BY <2>1, <2>2 DEF Ordered, Listed
  <1>7. ASSUME NEW z, Listed(s, z) PROVE z /= x /\ z /= Parent(x)
    <2>1. PICK k : Holds(x, k) /\ Below(k, z, d)
      BY <1>5, <1>7
    <2>2. k \in Cmd /\ Parent(k) = x /\ z \in Cmd /\ Above(k, z)
      BY <2>1, HeldChild, BelowAbove
    <2> QED
      BY <2>2, NotAboveParent
  <1>8. Ordered(<<x>> \o s)
    BY <1>4, <1>6, <1>7, OrderedConcat
  <1>9. \A y : Listed(<<x>> \o s, y) <=> Below(x, y, d + 1)
    <2>1. \A y : Listed(<<x>> \o s, y) <=> y = x \/ Listed(s, y)
      BY <1>4, <1>6, ListedConcat DEF Ordered
    <2> QED
      BY <1>5, <2>1, BelowKid
  <1> QED
    BY <1>2, <1>8, <1>9 DEF Tree

LEMMA TreeAlone ==
  ASSUME Forest, NEW x \in Cmd
  PROVE  Tree(<<x>>, x, 0)
  <1>1. <<x>> \in Seq(Cmd) /\ Len(<<x>>) = 1 /\ <<x>>[1] = x /\ x /= Parent(x)
    BY ParentAssumption, CmdAssumption
  <1>2. Ordered(<<x>>) /\ \A y : Listed(<<x>>, y) <=> y = x
    BY <1>1 DEF Ordered, Listed
  <1> QED
    BY <1>2, BelowZero DEF Tree

(***************************************************************************)
(* Lines of help                                                           *)
(***************************************************************************)
\* The equation of the recursive function in HelpLines, and a solution: last is the
\* depth of the lines with no level left.
ShortHelp(last, h, d) ==
  [x \in Cmd |->
     LET line == [cmd |-> x, depth |-> last - d]
         kids == Chain(x)
     IN  IF d = 0 THEN <<line>>
         ELSE <<line>> \o FlattenSeq([i \in DOMAIN kids |-> h[d - 1][kids[i]]])]

ShortHelps(last, D, h) == h = [d \in 0..D |-> ShortHelp(last, h, d)]

LEMMA ShortHelpExists ==
  ASSUME NEW last, NEW D \in Nat
  PROVE  \E h : ShortHelps(last, D, h)
  <1> DEFINE S == {n \in Nat : ~\E h : ShortHelps(last, n, h)}
  <1>1. SUFFICES ASSUME S /= {} PROVE FALSE
    OBVIOUS
  <1>2. PICK n \in S : \A m \in S : n <= m
    BY <1>1, LeastNat
  <1>3. ASSUME NEW g, NEW h, NEW d, d = 0 \/ g[d - 1] = h[d - 1]
        PROVE  ShortHelp(last, g, d) = ShortHelp(last, h, d)
    <2>1. CASE d = 0
      BY <2>1 DEF ShortHelp
    <2>2. CASE g[d - 1] = h[d - 1]
      BY <2>2 DEF ShortHelp
    <2> QED
      BY <1>3, <2>1, <2>2
  <1>4. CASE n = 0
    <2>1. PICK h : h = [d \in 0..0 |-> ShortHelp(last, <<>>, 0)]
      OBVIOUS
    <2>2. \A d \in 0..0 : ShortHelp(last, <<>>, 0) = ShortHelp(last, h, d)
      BY <1>3
    <2>3. ShortHelps(last, 0, h)
      BY <2>1, <2>2 DEF ShortHelps
    <2> QED
      BY <1>2, <1>4, <2>3
  <1>5. CASE n /= 0
    <2>1. n - 1 \in Nat /\ n - 1 \notin S
      BY <1>2, <1>5
    <2>2. PICK g : ShortHelps(last, n - 1, g)
      BY <2>1
    <2>3. PICK h : h = [d \in 0..n |-> IF d = n THEN ShortHelp(last, g, n) ELSE g[d]]
      OBVIOUS
    <2>4. h[n] = ShortHelp(last, g, n) /\ \A d \in 0..n - 1 : h[d] = g[d]
      BY <1>2, <2>3
    <2>5. ASSUME NEW d \in 0..n PROVE h[d] = ShortHelp(last, h, d)
      <3>1. d = 0 \/ d - 1 \in 0..n - 1
        BY <1>2
      <3>2. ShortHelp(last, h, d) = ShortHelp(last, g, d)
        BY <1>3, <2>4, <3>1
      <3>3. CASE d = n
        BY <2>4, <3>2, <3>3
      <3>4. CASE d \in 0..n - 1
        <4>1. g[d] = ShortHelp(last, g, d)
          BY <2>2, <3>4 DEF ShortHelps
        <4> QED
          BY <2>4, <3>2, <3>4, <4>1
      <3> QED
        BY <1>2, <3>3, <3>4
    <2>6. h = [d \in 0..n |-> h[d]]
      BY <2>3
    <2>7. ShortHelps(last, n, h)
      BY <2>5, <2>6 DEF ShortHelps
    <2> QED
      BY <1>2, <2>7
  <1> QED
    BY <1>4, <1>5

\* Where the levels that are left and the depth meet.
Levels(max_depth, depth) == IF depth < max_depth THEN max_depth - depth ELSE 0

\* HelpLines by that equation.
Solves(h, last, D, c, max_depth, depth) ==
  /\ \A d \in 0..D : h[d] = ShortHelp(last, h, d)
  /\ HelpLines(c, max_depth, depth) = h[D][c]

LEMMA HelpLinesDef ==
  ASSUME NEW c, NEW max_depth \in Nat, NEW depth \in Nat,
         NEW D \in Nat, D = Levels(max_depth, depth), NEW last, last = depth + D
  PROVE  \E h : Solves(h, last, D, c, max_depth, depth)
  <1> DEFINE L == Levels(max_depth, depth)
  <1>1. HelpLines(c, max_depth, depth) = (CHOOSE h : ShortHelps(depth + L, L, h))[L][c]
    BY Zenon DEF HelpLines, ShortHelps, ShortHelp, Levels
  <1>2. PICK h : h = CHOOSE g : ShortHelps(last, D, g)
    OBVIOUS
  <1>3. ShortHelps(last, D, h)
    BY <1>2, ShortHelpExists
  <1>4. \A d \in 0..D : h[d] = ShortHelp(last, h, d)
    BY <1>3 DEF ShortHelps
  <1>5. HelpLines(c, max_depth, depth) = h[D][c]
    BY <1>1, <1>2
  <1> QED
    BY <1>4, <1>5 DEF Solves

LEMMA LevelsTyped ==
  ASSUME NEW max_depth \in Nat, NEW depth \in Nat
  PROVE  Levels(max_depth, depth) \in Nat
  BY DEF Levels

\* One line, and then what its children show: the texts ts.
Grown(last, h, d, x, n, kids, ts) ==
  /\ n \in Nat /\ kids = Chain(x) /\ n = Len(kids) /\ \A i \in 1..n : kids[i] \in Cmd
  /\ ts = [i \in 1..n |-> h[d - 1][kids[i]]]
  /\ h[d][x] = <<[cmd |-> x, depth |-> last - d]>> \o FlattenSeq(ts)

LEMMA ShortHelpAt ==
  ASSUME Complete, NEW x \in Cmd, NEW last, NEW h, NEW D \in Nat, NEW d \in 1..D,
         h[d] = ShortHelp(last, h, d)
  PROVE  \E n, kids, ts : Grown(last, h, d, x, n, kids, ts)
  <1>1. PICK kids : kids = Chain(x)
    OBVIOUS
  <1>2. PICK n \in Nat : n = Len(kids) /\ DOMAIN kids = 1..n /\ \A i \in 1..n : kids[i] \in Cmd
    <2>1. x \in Lists
      BY DEF Lists
    <2> QED
      BY <1>1, <2>1, ChainMembers, LenProperties, ElementOfSeq DEF Complete
  <1>3. PICK ts : ts = [i \in 1..n |-> h[d - 1][kids[i]]]
    OBVIOUS
  <1>4. ShortHelp(last, h, d)[x] =
          <<[cmd |-> x, depth |-> last - d]>>
            \o FlattenSeq([i \in DOMAIN kids |-> h[d - 1][kids[i]]])
    BY <1>1 DEF ShortHelp
  <1>5. h[d][x] = <<[cmd |-> x, depth |-> last - d]>> \o FlattenSeq(ts)
    BY <1>2, <1>3, <1>4
  <1>6. Grown(last, h, d, x, n, kids, ts)
    BY <1>1, <1>2, <1>3, <1>5 DEF Grown
  <1> QED
    BY <1>6

\* Even below itself, a command's help shows nothing but commands, and ends.
LEMMA HelpLinesTyped ==
  ASSUME Complete, NEW c \in Cmd, NEW max_depth \in Nat, NEW depth \in Nat
  PROVE  HelpLines(c, max_depth, depth) \in Seq(HelpLine)
  <1>1. PICK D : D = Levels(max_depth, depth)
    OBVIOUS
  <1>2. D \in Nat
    BY <1>1, LevelsTyped
  <1>3. PICK last \in Nat : last = depth + D /\ \A d \in 0..D : last - d \in Nat
    BY <1>2
  <1>4. PICK h : /\ \A d \in 0..D : h[d] = ShortHelp(last, h, d)
                 /\ HelpLines(c, max_depth, depth) = h[D][c]
    <2>1. last = depth + D
      BY <1>3
    <2>2. PICK h : Solves(h, last, D, c, max_depth, depth)
      BY <1>1, <1>2, <2>1, HelpLinesDef
    <2> QED
      BY <2>2 DEF Solves
  <1>5. ASSUME NEW x \in Cmd, NEW d \in 0..D
        PROVE  <<[cmd |-> x, depth |-> last - d]>> \in Seq(HelpLine)
    <2>1. [cmd |-> x, depth |-> last - d] \in HelpLine
      BY <1>3 DEF HelpLine
    <2> QED
      BY <2>1
  <1> DEFINE S == {d \in 0..D : ~\A x \in Cmd : h[d][x] \in Seq(HelpLine)}
  <1>6. ASSUME NEW x \in Cmd PROVE h[0][x] \in Seq(HelpLine)
    <2>1. 0 \in 0..D /\ h[0] = ShortHelp(last, h, 0)
      BY <1>2, <1>4
    <2>2. h[0][x] = <<[cmd |-> x, depth |-> last - 0]>>
      BY <2>1 DEF ShortHelp
    <2> QED
      BY <1>5, <2>1, <2>2
  <1>7. ASSUME NEW d \in 1..D, \A x \in Cmd : h[d - 1][x] \in Seq(HelpLine), NEW x \in Cmd
        PROVE  h[d][x] \in Seq(HelpLine)
    <2>0. d \in 0..D /\ h[d] = ShortHelp(last, h, d)
      BY <1>2, <1>4
    <2>a. PICK n, kids, ts : Grown(last, h, d, x, n, kids, ts)
      BY <1>2, <2>0, ShortHelpAt
    <2>1. /\ n \in Nat /\ \A i \in 1..n : kids[i] \in Cmd
          /\ ts = [i \in 1..n |-> h[d - 1][kids[i]]]
          /\ h[d][x] = <<[cmd |-> x, depth |-> last - d]>> \o FlattenSeq(ts)
      BY <2>a DEF Grown
    <2>2. ts = [i \in 1..n |-> ts[i]] /\ \A i \in 1..n : ts[i] \in Seq(HelpLine)
      <3>1. ts = [i \in 1..n |-> ts[i]]
        BY <2>1
      <3>2. \A i \in 1..n : ts[i] \in Seq(HelpLine)
        BY <1>7, <2>1
      <3> QED
        BY <3>1, <3>2
    <2>3. FlattenSeq(ts) \in Seq(HelpLine)
      BY <2>1, <2>2, FlattenTyped
    <2>4. <<[cmd |-> x, depth |-> last - d]>> \in Seq(HelpLine)
      BY <1>5, <2>0
    <2> QED
      BY <2>1, <2>3, <2>4, ConcatProperties
  <1>8. ASSUME S /= {} PROVE FALSE
    <2>1. PICK d \in S : \A m \in S : d <= m
      <3>1. S \in SUBSET Nat
        OBVIOUS
      <3> QED
        BY <1>8, <3>1, LeastNat
    <2>2. d \in 1..D /\ d - 1 \in 0..D /\ ~(d <= d - 1)
      <3>1. d /= 0
        BY <1>6, <2>1
      <3> QED
        BY <1>2, <2>1, <3>1
    <2>3. \A x \in Cmd : h[d - 1][x] \in Seq(HelpLine)
      BY <2>1, <2>2
    <2> QED
      BY <1>7, <2>1, <2>2, <2>3
  <1>9. D \in 0..D
    BY <1>2
  <1> QED
    BY <1>4, <1>8, <1>9

\* The depth of a command is a number, below itself or not.
LEMMA DepthTyped ==
  ASSUME NEW c
  PROVE  resolve_cmd_depth(c) \in Nat
  <1>1. Cardinality(Cmd) \in Nat
    BY FS_CardinalityType, CmdAssumption
  <1>2. PICK S : S = {n \in 2..Cardinality(Cmd) : Ancestry(c)[n] /= None}
    OBVIOUS
  <1>3. IsFiniteSet(2..Cardinality(Cmd))
    BY <1>1, FS_Interval
  <1>4. IsFiniteSet(S)
    BY <1>2, <1>3, FS_Subset
  <1> QED
    BY <1>2, <1>4, FS_CardinalityType DEF resolve_cmd_depth

LEMMA ShortHelpTyped ==
  ASSUME Complete, NEW c \in Cmd, NEW max_depth \in Nat, NEW depth \in Nat
  PROVE  print_short_help(c, max_depth, depth) \in Seq(HelpLine)
  <1>1. PICK r \in Nat : r = IF depth = 0 THEN resolve_cmd_depth(c) ELSE 0
    BY DepthTyped
  <1>2. max_depth + r \in Nat /\ depth + r \in Nat
    OBVIOUS
  <1>3. print_short_help(c, max_depth, depth) = HelpLines(c, max_depth + r, depth + r)
    BY <1>1 DEF print_short_help
  <1> QED
    BY <1>2, <1>3, HelpLinesTyped

\* What print_long_help() is, at the top level.
LEMMA LongHelpDef ==
  ASSUME NEW c, NEW D \in Nat, NEW r \in Nat, r = resolve_cmd_depth(c), NEW kids, kids = Chain(c)
  PROVE  print_long_help(c, D, 0) =
           print_short_help(c, 0, 0) \o
             (IF D = 0 THEN <<>>
              ELSE FlattenSeq([i \in DOMAIN kids |-> print_short_help(kids[i], D + r, r + 1)]))
  <1>1. 0 + r = r /\ (r >= D + r <=> D = 0)
    OBVIOUS
  <1> QED
    BY <1>1 DEF print_long_help

LEMMA LongHelpTyped ==
  ASSUME Complete, NEW c \in Cmd, NEW D \in Nat
  PROVE  print_long_help(c, D, 0) \in Seq(HelpLine)
  <1>1. PICK kids : kids = Chain(c)
    OBVIOUS
  <1>2. PICK n \in Nat : n = Len(kids) /\ DOMAIN kids = 1..n /\ \A i \in 1..n : kids[i] \in Cmd
    <2>1. c \in Lists
      BY DEF Lists
    <2> QED
      BY <1>1, <2>1, ChainMembers, LenProperties, ElementOfSeq DEF Complete
  <1>3. PICK r \in Nat : r = resolve_cmd_depth(c)
    BY DepthTyped
  <1>4. PICK ts : ts = [i \in 1..n |-> print_short_help(kids[i], D + r, r + 1)]
    OBVIOUS
  <1>5. PICK tail : tail = IF D = 0 THEN <<>> ELSE FlattenSeq(ts)
    OBVIOUS
  <1>6. print_long_help(c, D, 0) = print_short_help(c, 0, 0) \o tail
    <2>1. print_long_help(c, D, 0) =
            print_short_help(c, 0, 0) \o
              (IF D = 0 THEN <<>>
               ELSE FlattenSeq([i \in DOMAIN kids |-> print_short_help(kids[i], D + r, r + 1)]))
      BY <1>1, <1>3, LongHelpDef
    <2>2. ts = [i \in DOMAIN kids |-> print_short_help(kids[i], D + r, r + 1)]
      BY <1>2, <1>4
    <2> QED
      BY <1>5, <2>1, <2>2
  <1>7. FlattenSeq(ts) \in Seq(HelpLine)
    <2>1. D + r \in Nat /\ r + 1 \in Nat
      OBVIOUS
    <2>2. \A i \in 1..n : print_short_help(kids[i], D + r, r + 1) \in Seq(HelpLine)
      BY <1>2, <2>1, ShortHelpTyped
    <2>3. ts = [i \in 1..n |-> ts[i]]
      BY <1>4
    <2>4. \A i \in 1..n : ts[i] \in Seq(HelpLine)
      BY <1>4, <2>2
    <2> QED
      BY <2>3, <2>4, FlattenTyped
  <1>8. tail \in Seq(HelpLine)
    BY <1>5, <1>7
  <1>9. print_short_help(c, 0, 0) \in Seq(HelpLine)
    BY ShortHelpTyped
  <1> QED
    BY <1>6, <1>8, <1>9, ConcatProperties

\* A text of commands as the lines of help, each after the names of its parents.
MarkOf(x) == [cmd |-> x, depth |-> Depth(x) - 1]
Mark(s) == [i \in 1..Len(s) |-> MarkOf(s[i])]
Shows(t, x, d) == \E s : Tree(s, x, d) /\ t = Mark(s)

LEMMA MarkTyped ==
  ASSUME Forest, NEW s \in Seq(Cmd)
  PROVE  /\ Mark(s) \in Seq(HelpLine) /\ Len(Mark(s)) = Len(s) /\ Len(s) \in Nat
         /\ \A i \in 1..Len(s) : Mark(s)[i] = MarkOf(s[i])
  <1>1. PICK n \in Nat : n = Len(s)
    BY LenProperties
  <1>2. \A i \in 1..n : s[i] \in Cmd
    BY <1>1, ElementOfSeq
  <1>3. \A x \in Cmd : Depth(x) - 1 \in Nat
    BY PathProperties
  <1>4. \A i \in 1..n : MarkOf(s[i]) \in HelpLine
    BY <1>2, <1>3 DEF MarkOf, HelpLine
  <1>5. PICK t : t = [i \in 1..n |-> MarkOf(s[i])]
    OBVIOUS
  <1>6. t \in [1..n -> HelpLine]
    BY <1>4, <1>5
  <1>7. t \in Seq(HelpLine) /\ Len(t) = n /\ \A i \in 1..n : t[i] = MarkOf(s[i])
    BY <1>5, <1>6
  <1> QED
    BY <1>1, <1>5, <1>7 DEF Mark

LEMMA MarkConcat ==
  ASSUME Forest, NEW a \in Seq(Cmd), NEW b \in Seq(Cmd)
  PROVE  Mark(a \o b) = Mark(a) \o Mark(b)
  <1>1. PICK m \in Nat, n \in Nat : m = Len(a) /\ n = Len(b)
    BY LenProperties
  <1>2. PICK s, p, q : s = a \o b /\ p = Mark(a) /\ q = Mark(b)
    OBVIOUS
  <1>3. /\ s \in Seq(Cmd) /\ Len(s) = m + n
        /\ \A i \in 1..m + n : s[i] = IF i <= m THEN a[i] ELSE b[i - m]
    BY <1>1, <1>2, ConcatProperties
  <1>4. /\ p \in Seq(HelpLine) /\ Len(p) = m /\ \A i \in 1..m : p[i] = MarkOf(a[i])
        /\ q \in Seq(HelpLine) /\ Len(q) = n /\ \A i \in 1..n : q[i] = MarkOf(b[i])
    BY <1>1, <1>2, MarkTyped
  <1>5. PICK t : t = p \o q
    OBVIOUS
  <1>6. /\ t \in Seq(HelpLine) /\ Len(t) = m + n
        /\ \A i \in 1..m + n : t[i] = IF i <= m THEN p[i] ELSE q[i - m]
    BY <1>4, <1>5, ConcatProperties
  <1>7. ASSUME NEW i \in 1..m + n PROVE t[i] = MarkOf(s[i])
    <2>1. CASE i <= m
      <3>1. i \in 1..m
        BY <2>1
      <3> QED
        BY <1>3, <1>4, <1>6, <2>1, <3>1
    <2>2. CASE ~(i <= m)
      <3>1. i - m \in 1..n
        BY <2>2
      <3> QED
        BY <1>3, <1>4, <1>6, <2>2, <3>1
    <2> QED
      BY <2>1, <2>2
  <1>8. t = [i \in 1..m + n |-> t[i]]
    BY <1>6
  <1>9. t = [i \in 1..m + n |-> MarkOf(s[i])]
    BY <1>7, <1>8
  <1>10. Mark(s) = [i \in 1..m + n |-> MarkOf(s[i])]
    BY <1>3 DEF Mark
  <1> QED
    BY <1>2, <1>5, <1>9, <1>10

LEMMA MarkOne ==
  ASSUME NEW x \in Cmd
  PROVE  Mark(<<x>>) = <<MarkOf(x)>>
  <1>1. Len(<<x>>) = 1 /\ <<x>>[1] = x
    OBVIOUS
  <1>2. Mark(<<x>>) = [i \in 1..1 |-> MarkOf(x)]
    BY <1>1 DEF Mark
  <1> QED
    BY <1>2

\* Texts, one after the other.
LEMMA FlattenMark ==
  ASSUME Forest, NEW n \in Nat, NEW ss, ss = [i \in 1..n |-> ss[i]],
         \A i \in 1..n : ss[i] \in Seq(Cmd), NEW ts, ts = [i \in 1..n |-> Mark(ss[i])]
  PROVE  FlattenSeq(ts) = Mark(FlattenSeq(ss))
  <1>1. CASE n = 0
    <2>1. ss = <<>> /\ Len(ss) = 0 /\ ts = <<>> /\ Len(ts) = 0
      BY <1>1
    <2>2. FlattenSeq(ts) = <<>> /\ FlattenSeq(ss) = <<>>
      BY <2>1 DEF FlattenSeq
    <2>3. Mark(<<>>) = <<>>
      BY DEF Mark
    <2> QED
      BY <2>2, <2>3
  <1>2. CASE n /= 0
    <2>1. ts = [i \in 1..n |-> ts[i]] /\ \A i \in 1..n : ts[i] = Mark(ss[i])
      OBVIOUS
    <2>2. Len(ss) = n /\ Len(ts) = n
      OBVIOUS
    <2>3. PICK f : /\ f[1] = ss[1] /\ \A i \in 2..n : f[i] = f[i - 1] \o ss[i]
                   /\ FlattenSeq(ss) = f[n]
      BY <1>2, <2>2, FlattenIs
    <2>4. PICK g : /\ g[1] = ts[1] /\ \A i \in 2..n : g[i] = g[i - 1] \o ts[i]
                   /\ FlattenSeq(ts) = g[n]
      BY ONLY <1>2, <2>1, <2>2, n \in Nat, FlattenIs
    <2> DEFINE S == {k \in 1..n : ~(f[k] \in Seq(Cmd) /\ g[k] = Mark(f[k]))}
    <2>5. CASE S = {}
      BY <1>2, <2>3, <2>4, <2>5
    <2>6. CASE S /= {}
      <3>1. PICK k \in S : \A m \in S : k <= m
        <4>1. S \in SUBSET Nat
          OBVIOUS
        <4> QED
          BY <2>6, <4>1, LeastNat
      <3>2. k \in 2..n /\ k - 1 \in 1..n /\ ~(k <= k - 1)
        <4>1. k /= 1
          BY <2>1, <2>3, <2>4, <3>1
        <4> QED
          BY <3>1, <4>1
      <3>3. f[k - 1] \in Seq(Cmd) /\ g[k - 1] = Mark(f[k - 1]) /\ ss[k] \in Seq(Cmd)
        BY <3>1, <3>2
      <3>4. f[k] = f[k - 1] \o ss[k] /\ g[k] = Mark(f[k - 1]) \o Mark(ss[k])
        BY <2>1, <2>3, <2>4, <3>2, <3>3
      <3>5. g[k] = Mark(f[k])
        BY <3>3, <3>4, MarkConcat
      <3>6. f[k] \in Seq(Cmd)
        BY <3>3, <3>4, ConcatProperties
      <3> QED
        BY <3>1, <3>5, <3>6
    <2> QED
      BY <2>5, <2>6
  <1> QED
    BY <1>1, <1>2

\* Lines that show trees, one after the other, are marked texts that are trees.
Texted(n, kids, d, ts, ss) ==
  /\ ss = [i \in 1..n |-> ss[i]] /\ \A i \in 1..n : Tree(ss[i], kids[i], d)
  /\ FlattenSeq(ts) = Mark(FlattenSeq(ss))

LEMMA ShowsMany ==
  ASSUME Forest, NEW n \in Nat, NEW kids, NEW d, NEW ts, ts = [i \in 1..n |-> ts[i]],
         \A i \in 1..n : Shows(ts[i], kids[i], d)
  PROVE  \E ss : Texted(n, kids, d, ts, ss)
  <1>1. PICK ss : ss = [i \in 1..n |-> CHOOSE s : Tree(s, kids[i], d) /\ ts[i] = Mark(s)]
    OBVIOUS
  <1>2. ASSUME NEW i \in 1..n PROVE Tree(ss[i], kids[i], d) /\ ts[i] = Mark(ss[i])
    <2>1. \E s : Tree(s, kids[i], d) /\ ts[i] = Mark(s)
      BY DEF Shows
    <2>2. ss[i] = CHOOSE s : Tree(s, kids[i], d) /\ ts[i] = Mark(s)
      BY <1>1
    <2> QED
      BY <2>1, <2>2
  <1>3. ss = [i \in 1..n |-> ss[i]]
    BY <1>1
  <1>4. \A i \in 1..n : ss[i] \in Seq(Cmd)
    BY <1>2 DEF Tree, Ordered
  <1>5. ts = [i \in 1..n |-> Mark(ss[i])]
    BY <1>2
  <1>6. FlattenSeq(ts) = Mark(FlattenSeq(ss))
    BY <1>3, <1>4, <1>5, FlattenMark
  <1> QED
    BY <1>2, <1>3, <1>6 DEF Texted

LEMMA ShowsAlone ==
  ASSUME Forest, NEW x \in Cmd
  PROVE  Shows(<<MarkOf(x)>>, x, 0)
  BY TreeAlone, MarkOne DEF Shows

LEMMA ShowsGrows ==
  ASSUME Complete, Forest, NEW x \in Cmd, NEW d \in Nat, NEW ts,
         ts = [i \in 1..Len(Chain(x)) |-> ts[i]],
         \A i \in 1..Len(Chain(x)) : Shows(ts[i], Chain(x)[i], d)
  PROVE  Shows(<<MarkOf(x)>> \o FlattenSeq(ts), x, d + 1)
  <1>1. PICK kids, n : kids = Chain(x) /\ n = Len(kids)
    OBVIOUS
  <1>2. n \in Nat
    <2>1. x \in Lists
      BY DEF Lists
    <2> QED
      BY <1>1, <2>1, ChainGrove
  <1>a. PICK ss : Texted(n, kids, d, ts, ss)
    BY <1>1, <1>2, ShowsMany
  <1>3. /\ ss = [i \in 1..n |-> ss[i]] /\ \A i \in 1..n : Tree(ss[i], kids[i], d)
        /\ FlattenSeq(ts) = Mark(FlattenSeq(ss))
    BY <1>a DEF Texted
  <1>4. Tree(<<x>> \o FlattenSeq(ss), x, d + 1)
    BY <1>1, <1>3, TreeGrows
  <1>5. FlattenSeq(ss) \in Seq(Cmd)
    <2>1. \A i \in 1..n : ss[i] \in Seq(Cmd)
      BY <1>3 DEF Tree, Ordered
    <2> QED
      BY <1>2, <1>3, <2>1, FlattenTyped
  <1>6. Mark(<<x>> \o FlattenSeq(ss)) = <<MarkOf(x)>> \o Mark(FlattenSeq(ss))
    <2>1. <<x>> \in Seq(Cmd)
      OBVIOUS
    <2> QED
      BY <1>5, <2>1, MarkConcat, MarkOne
  <1> QED
    BY <1>3, <1>4, <1>6 DEF Shows

\* The depth that resolve_cmd_depth() counts, and that of a child.
LEMMA DepthIs ==
  ASSUME Forest, NEW c \in Cmd
  PROVE  resolve_cmd_depth(c) = Depth(c) - 1
  BY PathExists, PathIs

LEMMA KidDepth ==
  ASSUME Complete, Forest, NEW x \in Cmd, NEW n, n = Len(Chain(x)), NEW i \in 1..n
  PROVE  /\ Depth(x) \in Nat /\ Depth(x) >= 1 /\ Chain(x)[i] \in Cmd
         /\ Depth(Chain(x)[i]) = Depth(x) + 1
  <1>1. x \in Lists
    BY DEF Lists
  <1>2. PICK k : k = Chain(x)[i]
    OBVIOUS
  <1>3. k \in Cmd /\ Holds(x, k)
    BY <1>1, <1>2, ChainGrove
  <1>4. Parent(k) = x
    BY <1>3, HeldChild
  <1>5. Depth(k) = Depth(x) + 1 /\ Depth(x) \in Nat /\ Depth(x) >= 1
    BY <1>3, <1>4, PathProperties
  <1> QED
    BY <1>2, <1>3, <1>5

\* From a command's own depth, the lines show the tree below it to the given one.
LEMMA HelpLinesIs ==
  ASSUME Complete, Forest, NEW c \in Cmd, NEW D \in Nat, NEW depth \in Nat, depth = Depth(c) - 1
  PROVE  Shows(HelpLines(c, depth + D, depth), c, D)
  <1>1. PICK last \in Nat : last = depth + D
    OBVIOUS
  <1>2. D = Levels(last, depth)
    BY <1>1 DEF Levels
  <1>3. PICK h : /\ \A d \in 0..D : h[d] = ShortHelp(last, h, d)
                 /\ HelpLines(c, last, depth) = h[D][c]
    <2>1. PICK h : Solves(h, last, D, c, last, depth)
      BY <1>1, <1>2, HelpLinesDef
    <2> QED
      BY <2>1 DEF Solves
  <1> DEFINE Good(d) == \A x \in Cmd : Depth(x) - 1 = last - d => Shows(h[d][x], x, d)
             S == {d \in 0..D : ~Good(d)}
  <1>4. Good(0)
    <2>1. SUFFICES ASSUME NEW x \in Cmd, Depth(x) - 1 = last - 0 PROVE Shows(h[0][x], x, 0)
      OBVIOUS
    <2>2. h[0] = ShortHelp(last, h, 0)
      BY <1>3
    <2>3. h[0][x] = <<[cmd |-> x, depth |-> last - 0]>>
      BY <2>2 DEF ShortHelp
    <2>4. h[0][x] = <<MarkOf(x)>>
      BY <2>1, <2>3 DEF MarkOf
    <2> QED
      BY <2>4, ShowsAlone
  <1>5. ASSUME NEW d \in 1..D, Good(d - 1) PROVE Good(d)
    <2>1. SUFFICES ASSUME NEW x \in Cmd, Depth(x) - 1 = last - d PROVE Shows(h[d][x], x, d)
      OBVIOUS
    <2>2. h[d] = ShortHelp(last, h, d)
      BY <1>3
    <2>a. PICK n, kids, ts : Grown(last, h, d, x, n, kids, ts)
      BY <2>2, ShortHelpAt
    <2>3. /\ n \in Nat /\ kids = Chain(x) /\ n = Len(kids)
          /\ \A i \in 1..n : kids[i] \in Cmd
          /\ ts = [i \in 1..n |-> h[d - 1][kids[i]]]
          /\ h[d][x] = <<[cmd |-> x, depth |-> last - d]>> \o FlattenSeq(ts)
      BY <2>a DEF Grown
    <2>4. ASSUME NEW i \in 1..n PROVE Shows(ts[i], kids[i], d - 1)
      <3>1. Depth(x) \in Nat /\ kids[i] \in Cmd /\ Depth(kids[i]) = Depth(x) + 1
        BY <2>3, KidDepth
      <3>2. Depth(kids[i]) - 1 = last - (d - 1)
        BY <2>1, <3>1
      <3>3. Shows(h[d - 1][kids[i]], kids[i], d - 1)
        BY <1>5, <3>1, <3>2
      <3> QED
        BY <2>3, <3>3
    <2>5. ts = [i \in 1..n |-> ts[i]]
      BY <2>3
    <2>6. d - 1 \in Nat /\ (d - 1) + 1 = d
      OBVIOUS
    <2> HIDE DEF Good
    <2>7. Shows(<<MarkOf(x)>> \o FlattenSeq(ts), x, (d - 1) + 1)
      BY <2>3, <2>4, <2>5, <2>6, ShowsGrows
    <2>8. [cmd |-> x, depth |-> last - d] = MarkOf(x)
      BY <2>1 DEF MarkOf
    <2> QED
      BY <2>3, <2>6, <2>7, <2>8
  <1>6. CASE S = {}
    <2>1. D \in 0..D
      OBVIOUS
    <2>2. Good(D)
      BY <1>6, <2>1
    <2>3. Depth(c) - 1 = last - D
      BY <1>1
    <2>4. Shows(h[D][c], c, D)
      BY <2>2, <2>3
    <2> QED
      BY <1>1, <1>3, <2>4
  <1>7. CASE S /= {}
    <2> HIDE DEF Good
    <2>1. PICK d \in S : \A m \in S : d <= m
      <3>1. S \in SUBSET Nat
        OBVIOUS
      <3> QED
        BY <1>7, <3>1, LeastNat
    <2>2. d \in 1..D /\ d - 1 \in 0..D /\ ~(d <= d - 1)
      <3>1. d /= 0
        BY <1>4, <2>1
      <3> QED
        BY <2>1, <3>1
    <2>3. Good(d - 1)
      BY <2>1, <2>2
    <2> QED
      BY <1>5, <2>1, <2>2, <2>3
  <1> QED
    BY <1>6, <1>7

\* Called at the top level, with its own depth added to both.
LEMMA ShortHelpIs ==
  ASSUME Complete, Forest, NEW c \in Cmd, NEW D \in Nat
  PROVE  Shows(print_short_help(c, D, 0), c, D)
  <1>1. PICK r \in Nat : r = Depth(c) - 1
    BY PathProperties
  <1>2. resolve_cmd_depth(c) = r
    BY <1>1, DepthIs
  <1>3. print_short_help(c, D, 0) = HelpLines(c, r + D, r)
    <2>1. D + r = r + D /\ 0 + r = r
      OBVIOUS
    <2> QED
      BY <1>2, <2>1 DEF print_short_help
  <1> QED
    BY <1>1, <1>3, HelpLinesIs

LEMMA ShortHelpOne ==
  ASSUME Complete, Forest, NEW c \in Cmd
  PROVE  print_short_help(c, 0, 0) = <<MarkOf(c)>>
  <1>1. PICK r \in Nat : r = Depth(c) - 1
    BY PathProperties
  <1>2. resolve_cmd_depth(c) = r
    BY <1>1, DepthIs
  <1>3. print_short_help(c, 0, 0) = HelpLines(c, r, r)
    <2>1. 0 + r = r
      OBVIOUS
    <2> QED
      BY <1>2, <2>1 DEF print_short_help
  <1>4. 0 = Levels(r, r) /\ r = r + 0 /\ 0 \in Nat
    BY DEF Levels
  <1>5. PICK h : h[0] = ShortHelp(r, h, 0) /\ HelpLines(c, r, r) = h[0][c]
    <2>1. PICK h : (\A d \in 0..0 : h[d] = ShortHelp(r, h, d)) /\ HelpLines(c, r, r) = h[0][c]
      BY <1>4, HelpLinesDef DEF Solves
    <2>2. 0 \in 0..0
      OBVIOUS
    <2> QED
      BY <2>1, <2>2
  <1>6. h[0][c] = <<[cmd |-> c, depth |-> r - 0]>>
    BY <1>5 DEF ShortHelp
  <1>7. r - 0 = Depth(c) - 1
    BY <1>1
  <1> QED
    BY <1>3, <1>5, <1>6, <1>7 DEF MarkOf

LEMMA LongHelpIs ==
  ASSUME Complete, Forest, NEW c \in Cmd, NEW D \in Nat
  PROVE  Shows(print_long_help(c, D, 0), c, D)
  <1>1. PICK kids, n : kids = Chain(c) /\ n = Len(kids)
    OBVIOUS
  <1>2. n \in Nat /\ DOMAIN kids = 1..n
    <2>1. c \in Lists
      BY DEF Lists
    <2> QED
      BY <1>1, <2>1, ChainGrove
  <1>3. PICK r \in Nat : r = Depth(c) - 1
    BY PathProperties
  <1>4. r = resolve_cmd_depth(c)
    BY <1>3, DepthIs
  <1>5. PICK ts : ts = [i \in 1..n |-> print_short_help(kids[i], D + r, r + 1)]
    OBVIOUS
  <1>6. print_long_help(c, D, 0) = <<MarkOf(c)>> \o (IF D = 0 THEN <<>> ELSE FlattenSeq(ts))
    <2>1. print_long_help(c, D, 0) =
            print_short_help(c, 0, 0) \o
              (IF D = 0 THEN <<>>
               ELSE FlattenSeq([i \in DOMAIN kids |-> print_short_help(kids[i], D + r, r + 1)]))
      <3>1. kids = Chain(c) /\ D \in Nat /\ r \in Nat
        BY <1>1, <1>3
      <3> QED
        BY ONLY <1>4, <3>1, LongHelpDef
    <2>2. ts = [i \in DOMAIN kids |-> print_short_help(kids[i], D + r, r + 1)]
      BY <1>2, <1>5
    <2> QED
      BY <2>1, <2>2, ShortHelpOne
  <1>7. CASE D = 0
    <2>1. print_long_help(c, D, 0) = <<MarkOf(c)>> \o <<>>
      BY <1>6, <1>7
    <2>2. <<MarkOf(c)>> \o <<>> = <<MarkOf(c)>>
      OBVIOUS
    <2> QED
      BY <1>7, <2>1, <2>2, ShowsAlone
  <1>8. CASE D /= 0
    <2>1. PICK E \in Nat : E = D - 1 /\ E + 1 = D
      BY <1>8
    <2>2. ASSUME NEW i \in 1..n PROVE Shows(ts[i], kids[i], E)
      <3>1. /\ Depth(c) \in Nat /\ Depth(c) >= 1 /\ kids[i] \in Cmd
            /\ Depth(kids[i]) = Depth(c) + 1
        BY <1>1, KidDepth
      <3>2. PICK k : k = kids[i]
        OBVIOUS
      <3>3. /\ k \in Cmd /\ r + 1 \in Nat /\ r + 1 = Depth(k) - 1 /\ r + 1 /= 0
            /\ (D + r) + 0 = (r + 1) + E /\ (r + 1) + 0 = r + 1
        BY <1>3, <2>1, <3>1, <3>2
      <3>4. print_short_help(k, D + r, r + 1) = HelpLines(k, (r + 1) + E, r + 1)
        BY <3>3 DEF print_short_help
      <3>5. Shows(HelpLines(k, (r + 1) + E, r + 1), k, E)
        BY <3>3, HelpLinesIs
      <3> QED
        BY <1>5, <3>2, <3>4, <3>5
    <2>3. ts = [i \in 1..n |-> ts[i]]
      BY <1>5
    <2>4. Shows(<<MarkOf(c)>> \o FlattenSeq(ts), c, E + 1)
      BY <1>1, <2>2, <2>3, ShowsGrows
    <2> QED
      BY <1>6, <1>8, <2>1, <2>4
  <1> QED
    BY <1>7, <1>8

\* The commands of the lists of the configuration.
RootHeld(r) == \E i \in 1..Len(cmd_lists) : Holds(cmd_lists[i], r)

Roots == FlattenSeq([i \in DOMAIN cmd_lists |-> Chain(cmd_lists[i])])

LEMMA RootChains ==
  ASSUME Complete
  PROVE  \E n, ts :
           /\ n \in Nat /\ n = Len(cmd_lists)
           /\ ts = [i \in 1..n |-> ts[i]] /\ Roots = FlattenSeq(ts)
           /\ \A i \in 1..n : /\ ts[i] \in Seq(Cmd) /\ Ordered(ts[i])
                             /\ \A y : Listed(ts[i], y) <=> Holds(cmd_lists[i], y)
  <1>1. PICK n \in Nat : n = Len(cmd_lists)
    BY ConfiguredLists
  <1>2. PICK ts : ts = [i \in 1..n |-> Chain(cmd_lists[i])]
    OBVIOUS
  <1>3. Roots = FlattenSeq(ts)
    BY <1>1, <1>2, ConfiguredLists DEF Roots
  <1>4. ASSUME NEW i \in 1..n
        PROVE  /\ ts[i] \in Seq(Cmd) /\ Ordered(ts[i])
               /\ \A y : Listed(ts[i], y) <=> Holds(cmd_lists[i], y)
    <2>1. PICK list : list = cmd_lists[i]
      OBVIOUS
    <2>2. list \in Lists /\ list \notin Cmd
      BY <1>1, <2>1, ConfiguredLists
    <2>3. PICK s : s = Chain(list)
      OBVIOUS
    <2>4. /\ Grove(s) /\ Len(s) \in Nat
          /\ \A j \in 1..Len(s) : s[j] \in Cmd /\ Holds(list, s[j])
          /\ \A c : Holds(list, c) => \E j \in 1..Len(s) : s[j] = c
      BY <2>2, <2>3, ChainGrove
    <2>5. \A j, k \in 1..Len(s) : s[j] /= Parent(s[k])
      <3>1. \A c : Holds(list, c) => Parent(c) = None
        BY <2>2, ParentAssumption DEF Holds, ListOf
      <3> QED
        BY <2>4, <3>1, CmdAssumption
    <2>6. Ordered(s) /\ \A y : Listed(s, y) <=> Holds(list, y)
      BY <2>4, <2>5 DEF Ordered, Listed, Grove
    <2>7. ts[i] = s
      BY <1>2, <2>1, <2>3
    <2> QED
      BY <2>1, <2>6, <2>7 DEF Ordered
  <1>5. ts = [i \in 1..n |-> ts[i]]
    BY <1>2
  <1> QED
    BY <1>1, <1>3, <1>4, <1>5

LEMMA RootsTyped ==
  ASSUME Complete
  PROVE  Roots \in Seq(Cmd)
  BY RootChains, FlattenTyped

LEMMA RootsGrove ==
  ASSUME Complete, HelpClear
  PROVE  /\ Grove(Roots) /\ Len(Roots) \in Nat /\ DOMAIN Roots = 1..Len(Roots)
         /\ \A i \in 1..Len(Roots) : Roots[i] \in Cmd /\ RootHeld(Roots[i])
         /\ \A r : RootHeld(r) => \E i \in 1..Len(Roots) : Roots[i] = r
  <1>1. PICK n, ts :
           /\ n \in Nat /\ n = Len(cmd_lists)
           /\ ts = [i \in 1..n |-> ts[i]] /\ Roots = FlattenSeq(ts)
           /\ \A i \in 1..n : /\ ts[i] \in Seq(Cmd) /\ Ordered(ts[i])
                             /\ \A y : Listed(ts[i], y) <=> Holds(cmd_lists[i], y)
    BY RootChains
  <1>2. PICK s : s = FlattenSeq(ts)
    OBVIOUS
  <1>3. \A r : RootHeld(r) => r \in Cmd /\ Parent(r) = None
    <2>1. ASSUME NEW r, RootHeld(r) PROVE r \in Cmd /\ Parent(r) = None
      <3>1. PICK i \in 1..Len(cmd_lists) : Holds(cmd_lists[i], r)
        BY <2>1 DEF RootHeld
      <3>2. cmd_lists[i] \notin Cmd
        BY ConfiguredLists
      <3> QED
        BY <3>1, <3>2, ParentAssumption DEF Holds, ListOf
    <2> QED
      BY <2>1
  <1>4. ASSUME NEW i \in 1..n, NEW k \in 1..n, i < k, NEW y, NEW z,
               Listed(ts[i], y), Listed(ts[k], z)
        PROVE  z /= y /\ z /= Parent(y)
    <2>1. Holds(cmd_lists[i], y) /\ Holds(cmd_lists[k], z)
      BY <1>1, <1>4
    <2>2. RootHeld(y) /\ RootHeld(z)
      BY <1>1, <2>1 DEF RootHeld
    <2>3. cmd_lists[i] /= cmd_lists[k]
      BY <1>1, <1>4, ConfiguredLists DEF HelpClear
    <2>4. y /= z
      BY <2>1, <2>3 DEF Holds
    <2> QED
      BY <1>3, <2>2, <2>4, CmdAssumption
  <1>5. Ordered(s) /\ \A y : Listed(s, y) <=> \E i \in 1..n : Listed(ts[i], y)
    <2>1. n \in Nat /\ ts = [i \in 1..n |-> ts[i]] /\ \A i \in 1..n : Ordered(ts[i])
      BY <1>1
    <2>2. \A i, k \in 1..n : i < k =>
            \A y, z : Listed(ts[i], y) /\ Listed(ts[k], z) => z /= y /\ z /= Parent(y)
      BY <1>4
    <2> QED
      BY ONLY <1>2, <2>1, <2>2, FlattenOrdered
  <1>6. \A y : Listed(s, y) <=> RootHeld(y)
    BY <1>1, <1>5 DEF RootHeld
  <1>7. Len(s) \in Nat /\ DOMAIN s = 1..Len(s) /\ \A i \in 1..Len(s) : s[i] \in Cmd
    BY <1>5, LenProperties, ElementOfSeq DEF Ordered
  <1>8. /\ \A i \in 1..Len(s) : RootHeld(s[i])
        /\ \A r : RootHeld(r) => \E i \in 1..Len(s) : s[i] = r
    BY <1>6 DEF Listed
  <1>9. Grove(s)
    <2>1. \A i, j \in 1..Len(s) : s[i] = s[j] => i = j
      BY <1>5 DEF Ordered
    <2> QED
      BY <1>3, <1>5, <1>8, <2>1 DEF Grove, Ordered
  <1> QED
    BY <1>1, <1>2, <1>7, <1>8, <1>9

\* What is below the command of a list is linked all the way down.
LEMMA RegisteredBelow ==
  ASSUME Forest, NEW D \in Nat, NEW y
  PROVE  (\E r : RootHeld(r) /\ Below(r, y, D)) <=> y \in Registered /\ Depth(y) - 1 <= D
  <1>1. ASSUME NEW r, RootHeld(r), Below(r, y, D) PROVE y \in Registered /\ Depth(y) - 1 <= D
    <2>1. PICK i \in 1..Len(cmd_lists) : Holds(cmd_lists[i], r)
      BY <1>1 DEF RootHeld
    <2>2. r \in Cmd /\ r \notin early /\ Parent(r) = None
      BY <2>1, ConfiguredLists, ParentAssumption DEF Holds, ListOf
    <2>3. PICK k \in 1..Depth(y) : /\ Path(y)[k] = r /\ Depth(y) - k <= D
                                   /\ \A j \in k + 1..Depth(y) : Path(y)[j] \notin early
      BY <1>1 DEF Below
    <2>4. y \in Cmd /\ Depth(y) \in Nat /\ \A j \in 1..Depth(y) : Path(y)[j] \in Cmd
      BY <1>1, PathProperties, PathPrefix DEF Below
    <2>5. k = 1
      <3>1. ASSUME k > 1 PROVE FALSE
        <4>1. Parent(r) = Path(y)[k - 1] /\ k - 1 \in 1..Depth(y)
          BY <2>3, <2>4, <3>1, PathPrefix
        <4> QED
          BY <2>2, <2>4, <4>1, CmdAssumption
      <3> QED
        BY <2>4, <3>1
    <2>6. \A j \in 1..Depth(y) : Path(y)[j] \notin early
      <3>1. \A j \in 1..Depth(y) : j = 1 \/ j \in 1 + 1..Depth(y)
        BY <2>4
      <3> QED
        BY <2>2, <2>3, <2>5, <3>1
    <2> QED
      BY <2>3, <2>4, <2>5, <2>6 DEF Registered
  <1>2. ASSUME y \in Registered, Depth(y) - 1 <= D PROVE \E r : RootHeld(r) /\ Below(r, y, D)
    <2>1. y \in Cmd /\ \A j \in 1..Depth(y) : Path(y)[j] \notin early
      BY <1>2 DEF Registered
    <2>2. PICK r : r = Path(y)[1]
      OBVIOUS
    <2>3. r \in Cmd /\ Parent(r) = None /\ 1 \in 1..Depth(y)
      BY <2>1, <2>2, PathProperties
    <2>4. RootHeld(r)
      <3>1. ListOf(r) \in Lists \ Cmd
        BY <2>3, ParentAssumption
      <3>2. PICK i \in 1..Len(cmd_lists) : cmd_lists[i] = ListOf(r)
        BY <3>1, ConfiguredLists
      <3> QED
        BY <2>1, <2>2, <2>3, <3>2 DEF RootHeld, Holds
    <2>5. Below(r, y, D)
      <3>1. \A j \in 1 + 1..Depth(y) : j \in 1..Depth(y)
        OBVIOUS
      <3> QED
        BY <1>2, <2>1, <2>2, <2>3, <3>1 DEF Below
    <2> QED
      BY <2>4, <2>5
  <1> QED
    BY <1>1, <1>2

\* What is below a command that is linked all the way down is, too.
LEMMA TargetBelow ==
  ASSUME Forest, NEW x \in Registered, NEW D \in Nat, NEW y
  PROVE  Below(x, y, D) <=> /\ y \in Registered
                            /\ \E i \in 1..Depth(y) : Path(y)[i] = x /\ Depth(y) - i <= D
  <1>1. ASSUME Below(x, y, D) PROVE y \in Registered
    <2>1. PICK k \in 1..Depth(y) : /\ Path(y)[k] = x /\ Depth(y) - k <= D
                                   /\ \A j \in k + 1..Depth(y) : Path(y)[j] \notin early
      BY <1>1 DEF Below
    <2>2. y \in Cmd /\ Depth(y) \in Nat
      BY <1>1, PathProperties DEF Below
    <2>3. Depth(x) = k /\ \A j \in 1..k : Path(x)[j] = Path(y)[j]
      BY <2>1, <2>2, PathPrefix
    <2>4. \A j \in 1..k : Path(y)[j] \notin early
      BY <2>3 DEF Registered
    <2>5. \A j \in 1..Depth(y) : j \in 1..k \/ j \in k + 1..Depth(y)
      BY <2>2
    <2> QED
      BY <2>1, <2>2, <2>4, <2>5 DEF Registered
  <1>2. ASSUME y \in Registered, NEW i \in 1..Depth(y), Path(y)[i] = x, Depth(y) - i <= D
        PROVE  Below(x, y, D)
    <2>1. y \in Cmd /\ Depth(y) \in Nat /\ \A j \in 1..Depth(y) : Path(y)[j] \notin early
      BY <1>2, PathProperties DEF Registered
    <2>2. \A j \in i + 1..Depth(y) : j \in 1..Depth(y)
      BY <2>1
    <2> QED
      BY <1>2, <2>1, <2>2 DEF Below
  <1> QED
    BY <1>1, <1>2 DEF Below

LEMMA OverviewIs ==
  ASSUME Complete, Forest, HelpClear, NEW D \in Nat
  PROVE  \E s : /\ Overview(D) = Mark(s) /\ Ordered(s)
               /\ \A y : Listed(s, y) <=> y \in Registered /\ Depth(y) - 1 <= D
  <1>1. PICK kids, n : kids = Roots /\ n = Len(kids)
    OBVIOUS
  <1>2. /\ Grove(kids) /\ n \in Nat /\ DOMAIN kids = 1..n
        /\ \A i \in 1..n : kids[i] \in Cmd /\ RootHeld(kids[i])
        /\ \A r : RootHeld(r) => \E i \in 1..n : kids[i] = r
    BY <1>1, RootsGrove
  <1>3. PICK ts : ts = [i \in 1..n |-> print_short_help(kids[i], D, 0)]
    OBVIOUS
  <1>4. Overview(D) = FlattenSeq(ts)
    BY <1>1, <1>2, <1>3 DEF Overview, Roots
  <1>5. ts = [i \in 1..n |-> ts[i]] /\ \A i \in 1..n : Shows(ts[i], kids[i], D)
    <2>1. \A i \in 1..n : ts[i] = print_short_help(kids[i], D, 0)
      BY <1>3
    <2>2. ts = [i \in 1..n |-> ts[i]]
      BY <1>3
    <2> QED
      BY <1>2, <2>1, <2>2, ShortHelpIs
  <1>a. PICK ss : Texted(n, kids, D, ts, ss)
    BY <1>2, <1>5, ShowsMany
  <1>6. /\ ss = [i \in 1..n |-> ss[i]] /\ \A i \in 1..n : Tree(ss[i], kids[i], D)
        /\ FlattenSeq(ts) = Mark(FlattenSeq(ss))
    BY <1>a DEF Texted
  <1>7. /\ Ordered(FlattenSeq(ss))
        /\ \A y : Listed(FlattenSeq(ss), y) <=> \E i \in 1..n : Below(kids[i], y, D)
    BY <1>1, <1>2, <1>6, GroveIs
  <1>8. \A y : Listed(FlattenSeq(ss), y) <=> \E r : RootHeld(r) /\ Below(r, y, D)
    BY <1>2, <1>7
  <1>9. \A y : Listed(FlattenSeq(ss), y) <=> y \in Registered /\ Depth(y) - 1 <= D
    BY <1>8, RegisteredBelow
  <1> QED
    BY <1>4, <1>6, <1>7, <1>9

LEMMA OverviewTyped ==
  ASSUME Complete, NEW D \in Nat
  PROVE  Overview(D) \in Seq(HelpLine)
  <1>1. PICK kids : kids = Roots
    OBVIOUS
  <1>2. PICK n \in Nat : n = Len(kids) /\ DOMAIN kids = 1..n /\ \A i \in 1..n : kids[i] \in Cmd
    BY <1>1, RootsTyped, LenProperties, ElementOfSeq
  <1>3. PICK ts : ts = [i \in 1..n |-> print_short_help(kids[i], D, 0)]
    OBVIOUS
  <1>4. Overview(D) = FlattenSeq(ts)
    BY <1>1, <1>2, <1>3 DEF Overview, Roots
  <1>5. ts = [i \in 1..n |-> ts[i]] /\ \A i \in 1..n : ts[i] \in Seq(HelpLine)
    <2>1. \A i \in 1..n : ts[i] = print_short_help(kids[i], D, 0)
      BY <1>3
    <2>2. ts = [i \in 1..n |-> ts[i]]
      BY <1>3
    <2> QED
      BY <1>2, <2>1, <2>2, ShortHelpTyped
  <1> QED
    BY <1>4, <1>5, FlattenTyped

(***************************************************************************)
(* What help shows                                                         *)
(***************************************************************************)
WantsAll(rest) == rest /= <<>> /\ rest[Len(rest)] = All

Asked(rest) == Len(rest) > IF WantsAll(rest) THEN 1 ELSE 0

HelpDepth(target, rest) ==
  IF WantsAll(rest) THEN depth_of_all ELSE IF target = None THEN 0 ELSE 1

HelpTree(target, depth, s) ==
  /\ {s[i].cmd : i \in DOMAIN s} =
       {c \in Registered :
          IF target = None THEN Depth(c) - 1 <= depth
          ELSE \E i \in 1..Depth(c) : Path(c)[i] = target /\ Depth(c) - i <= depth}
  /\ \A i \in DOMAIN s : s[i].depth = Depth(s[i].cmd) - 1
  /\ \A i, j \in DOMAIN s :
       (s[i].cmd = s[j].cmd => i = j) /\ (s[i].cmd = Parent(s[j].cmd) => i < j)

HelpShown(target, rest, s, err) ==
  IF Asked(rest) /\ target = None THEN err = "unknownCmd" /\ s = <<>>
  ELSE err = "ok" /\ HelpTree(target, HelpDepth(target, rest), s)

Displays(t, S) ==
  /\ {t[i].cmd : i \in DOMAIN t} = S
  /\ \A i \in DOMAIN t : t[i].depth = Depth(t[i].cmd) - 1
  /\ \A i, j \in DOMAIN t :
       (t[i].cmd = t[j].cmd => i = j) /\ (t[i].cmd = Parent(t[j].cmd) => i < j)

LEMMA OrderedSet ==
  ASSUME Forest, NEW s, Ordered(s), NEW S \in SUBSET Cmd, \A y : Listed(s, y) <=> y \in S,
         NEW t, t = Mark(s)
  PROVE  Displays(t, S)
  <1>1. PICK n \in Nat : n = Len(s) /\ DOMAIN t = 1..n
    BY LenProperties DEF Ordered, Mark
  <1>2. \A i \in 1..n : t[i].cmd = s[i] /\ t[i].depth = Depth(s[i]) - 1
    BY <1>1 DEF Mark, MarkOf
  <1>3. /\ \A i, j \in 1..n : (s[i] = s[j] => i = j) /\ (s[i] = Parent(s[j]) => i < j)
        /\ \A y : y \in S <=> \E i \in 1..n : s[i] = y
    BY <1>1 DEF Ordered, Listed
  <1>4. \A i, j \in 1..n :
          (t[i].cmd = t[j].cmd => i = j) /\ (t[i].cmd = Parent(t[j].cmd) => i < j)
    BY <1>2, <1>3
  <1>5. \A y : y \in {t[i].cmd : i \in 1..n} <=> y \in S
    BY <1>2, <1>3
  <1>6. \A i \in 1..n : t[i].depth = Depth(t[i].cmd) - 1
    BY <1>2
  <1> QED
    BY <1>1, <1>4, <1>5, <1>6 DEF Displays

\* Without words, or with --all alone, no command is asked for.
LEMMA NoTarget ==
  ASSUME Complete, Forest, NamesClear, HelpClear, NEW W, NEW rest \in Seq(W), ~Asked(rest)
  PROVE  find_cmd(rest).cmd = None
  <1>1. SUFFICES ASSUME find_cmd(rest).cmd /= None PROVE FALSE
    OBVIOUS
  <1>2. PICK x : x = find_cmd(rest).cmd
    OBVIOUS
  <1>3. x \in Cmd /\ Names(x, rest)
    BY <1>1, <1>2, LongestPathIs DEF LongestPath, Registered
  <1>4. Depth(x) \in Nat /\ Depth(x) >= 1 /\ Path(x)[1] \in Cmd
    BY <1>3, PathProperties
  <1>a. PICK m \in Nat : m = Len(rest)
    BY LenProperties
  <1>5. m >= 1 /\ 1 \in 1..Depth(x)
    BY <1>3, <1>4, <1>a DEF Names
  <1>6. WantsAll(rest) /\ Len(rest) = 1
    <2>1. ~(m > IF WantsAll(rest) THEN 1 ELSE 0)
      BY <1>a DEF Asked
    <2>2. CASE WantsAll(rest)
      <3>1. m = 1
        BY <1>5, <2>1, <2>2
      <3> QED
        BY <1>a, <2>2, <3>1
    <2>3. CASE ~WantsAll(rest)
      BY <1>5, <2>1, <2>3
    <2> QED
      BY <2>2, <2>3
  <1>7. rest[1] = All /\ rest[1] \in CfgOf[Path(x)[1]].name
    BY <1>3, <1>5, <1>6 DEF WantsAll, Names
  <1> QED
    BY <1>4, <1>7 DEF HelpClear

\* The last word is --all only where it is one of those left: it names no command.
LEMMA LastWord ==
  ASSUME Forest, HelpClear, NEW W, NEW words \in Seq(W), NEW rest \in Seq(W),
         NEW x \in Cmd, Names(x, words), SubSeq(words, 1, Depth(x)) \o rest = words
  PROVE  words[Len(words)] = All <=> WantsAll(rest)
  <1>1. PICK n \in Nat, m \in Nat, d \in Nat : n = Len(words) /\ m = Len(rest) /\ d = Depth(x)
    BY PathProperties, LenProperties
  <1>2. /\ d >= 1 /\ d <= n
        /\ words[d] \in CfgOf[Path(x)[d]].name /\ Path(x)[d] = x
    BY <1>1, PathProperties DEF Names
  <1>3. PICK b : b = SubSeq(words, 1, d)
    OBVIOUS
  <1>4. b \in Seq(W) /\ Len(b) = d
    BY <1>1, <1>2, <1>3, SubSeqProperties
  <1>5. PICK t : t = b \o rest
    OBVIOUS
  <1>6. t = words /\ Len(t) = d + m
        /\ \A i \in 1..d + m : t[i] = IF i <= d THEN b[i] ELSE rest[i - d]
    BY <1>1, <1>3, <1>4, <1>5, ConcatProperties
  <1>7. n = d + m
    BY <1>1, <1>6
  <1>8. CASE m = 0
    <2>1. words[n] /= All
      BY <1>2, <1>7, <1>8 DEF HelpClear
    <2>2. rest = <<>>
      BY <1>1, <1>8, EmptySeq
    <2> QED
      BY <1>1, <2>1, <2>2 DEF WantsAll
  <1>9. CASE m /= 0
    <2>1. n \in 1..d + m /\ ~(n <= d) /\ n - d = m
      BY <1>7, <1>9
    <2>2. words[n] = rest[m]
      BY <1>6, <2>1
    <2>3. rest /= <<>>
      BY <1>1, <1>9
    <2> QED
      BY <1>1, <2>2, <2>3 DEF WantsAll
  <1> QED
    BY <1>8, <1>9

LEMMA HelpIs ==
  ASSUME Complete, Forest, NamesClear, HelpClear, NEW W, NEW rest \in Seq(W),
         NEW words, words[Len(words)] = All <=> WantsAll(rest),
         NEW x, x = find_cmd(rest).cmd
  PROVE  HelpShown(x, rest, Help(words, rest).shown, Help(words, rest).err)
  <1>1. x /= None => x \in Registered
    BY LongestPathIs DEF LongestPath
  <1>2. PICK D : D = HelpDepth(x, rest)
    OBVIOUS
  <1>3. D \in Nat
    BY <1>2 DEF HelpDepth, depth_of_all
  <1>4. PICK m \in Nat : m = Len(rest) /\ (m = 0 <=> rest = <<>>)
    BY LenProperties, EmptySeq
  <1>5. Asked(rest) <=> Len(rest) /= (IF words[Len(words)] = All THEN 1 ELSE 0)
    <2>1. CASE WantsAll(rest)
      <3>1. m /= 0
        BY <1>4, <2>1 DEF WantsAll
      <3>2. Asked(rest) <=> m > 1
        BY <1>4, <2>1 DEF Asked
      <3>3. words[Len(words)] = All
        BY <2>1
      <3>4. m > 1 <=> m /= 1
        BY <3>1
      <3> QED
        BY <1>4, <3>2, <3>3, <3>4
    <2>2. CASE ~WantsAll(rest)
      <3>1. Asked(rest) <=> m > 0
        BY <1>4, <2>2 DEF Asked
      <3>2. words[Len(words)] /= All
        BY <2>2
      <3>3. m > 0 <=> m /= 0
        OBVIOUS
      <3> QED
        BY <1>4, <3>1, <3>2, <3>3
    <2> QED
      BY <2>1, <2>2
  <1>6. CASE ~Asked(rest)
    <2>1. x = None
      BY <1>6, NoTarget
    <2>2. Help(words, rest).shown = Overview(D) /\ Help(words, rest).err = "ok"
      BY <1>2, <1>5, <1>6, <2>1 DEF Help, HelpDepth
    <2>3. PICK S : S = {c \in Registered : Depth(c) - 1 <= D}
      OBVIOUS
    <2>4. PICK s : Overview(D) = Mark(s) /\ Ordered(s) /\ \A y : Listed(s, y) <=> y \in S
      BY <1>3, <2>3, OverviewIs
    <2>5. S \in SUBSET Cmd
      BY <2>3 DEF Registered
    <2>6. PICK t : t = Overview(D)
      OBVIOUS
    <2>7. Displays(t, S)
      BY <2>4, <2>5, <2>6, OrderedSet
    <2>8. HelpTree(None, D, t)
      BY <2>3, <2>7 DEF HelpTree, Displays
    <2> QED
      BY <1>2, <1>6, <2>1, <2>2, <2>6, <2>8 DEF HelpShown
  <1>7. CASE Asked(rest) /\ x = None
    BY <1>5, <1>7 DEF Help, HelpShown
  <1>8. CASE Asked(rest) /\ x /= None
    <2>1. Help(words, rest).shown = print_long_help(x, D, 0) /\ Help(words, rest).err = "ok"
      BY <1>2, <1>5, <1>8 DEF Help, HelpDepth
    <2>2. PICK S : S = {c \in Registered : \E i \in 1..Depth(c) :
                          Path(c)[i] = x /\ Depth(c) - i <= D}
      OBVIOUS
    <2>3. PICK t : t = print_long_help(x, D, 0)
      OBVIOUS
    <2>4. PICK s : t = Mark(s) /\ Ordered(s) /\ \A y : Listed(s, y) <=> y \in S
      <3>1. x \in Registered /\ x \in Cmd
        BY <1>1, <1>8 DEF Registered
      <3>2. PICK s : t = Mark(s) /\ Ordered(s) /\ \A y : Listed(s, y) <=> Below(x, y, D)
        BY <1>3, <2>3, <3>1, LongHelpIs DEF Shows, Tree
      <3>3. \A y : Below(x, y, D) <=> y \in S
        BY <1>3, <2>2, <3>1, TargetBelow
      <3> QED
        BY <3>2, <3>3
    <2>5. S \in SUBSET Cmd
      BY <2>2 DEF Registered
    <2>6. Displays(t, S)
      BY <2>4, <2>5, OrderedSet
    <2>7. HelpTree(x, D, t)
      BY <1>8, <2>2, <2>6 DEF HelpTree, Displays
    <2> QED
      BY <1>2, <1>8, <2>1, <2>3, <2>7 DEF HelpShown
  <1> QED
    BY <1>6, <1>7, <1>8

LEMMA HelpTyped ==
  ASSUME Complete, NEW W, NEW rest \in Seq(W), NEW words
  PROVE  Help(words, rest).shown \in Seq(HelpLine) /\ Help(words, rest).err \in Err
  <1>1. PICK x, all : x = find_cmd(rest).cmd /\ all = (words[Len(words)] = All)
    OBVIOUS
  <1>2. x /= None => x \in Cmd
    BY <1>1, FindCmdTyped
  <1>3. depth_of_all \in Nat /\ 0 \in Nat /\ 1 \in Nat
    BY DEF depth_of_all
  <1>4. Overview(IF all THEN depth_of_all ELSE 0) \in Seq(HelpLine)
    BY <1>3, OverviewTyped
  <1>5. x /= None => print_long_help(x, IF all THEN depth_of_all ELSE 1, 0) \in Seq(HelpLine)
    BY <1>2, <1>3, LongHelpTyped
  <1>6. <<>> \in Seq(HelpLine)
    OBVIOUS
  <1> QED
    BY <1>1, <1>4, <1>5, <1>6 DEF Help, Err

(***************************************************************************)
(* Theorems                                                                *)
(***************************************************************************)
\* In whatever order the commands are constructed, each is linked into its own
\* list and once, and into no other, except one whose parent is constructed
\* after it.
THEOREM CommandLists == Spec => []ListsWhole
  <1>1. Init => LinkInv
    BY LinkInit
  <1>2. LinkInv /\ [Next]_vars => LinkInv'
    BY LinkStep
  <1>3. LinkInv => ListsWhole
    BY LinkInvWhole
  <1> QED
    BY <1>1, <1>2, <1>3, PTL DEF Spec

LEMMA LineReadable ==
  ASSUME NEW words \in Lines
  PROVE  Readable(words)
  BY LinesAssumption DEF Readable

LEMMA WordsStep == WordsAsWritten /\ [Next]_vars => WordsAsWritten'
  <1> SUFFICES ASSUME WordsAsWritten, [Next]_vars
               PROVE  WordsAsWritten'
    OBVIOUS
  <1>1. CASE UNCHANGED lineVars
    BY <1>1 DEF WordsAsWritten, lineVars
  <1>2. CASE \E words \in Lines, complete \in BOOLEAN : execute_line(words, complete)
    <2>1. PICK words \in Lines, complete \in BOOLEAN : execute_line(words, complete)
      BY <1>2
    <2>2. /\ typed' = words /\ closed' = complete
          /\ args' = tokenize(IF complete THEN Line(words) ELSE Line(words) \o <<"'">>)
      BY <2>1 DEF execute_line
    <2>3. /\ tokenize(Line(words)) = IF Len(words) <= ArgsMax THEN Texts(words) ELSE Failed
          /\ tokenize(Line(words) \o <<"'">>) = Failed
      BY LineReadable, TokenizeLine
    <2>4. args' = IF complete /\ Len(words) <= ArgsMax THEN Texts(words) ELSE Failed
      BY <2>2, <2>3
    <2> QED
      BY <2>2, <2>4 DEF WordsAsWritten
  <1>3. CASE Prompt
    BY <1>3 DEF Prompt, WordsAsWritten
  <1> QED
    BY <1>1, <1>2, <1>3 DEF Next, Construct, vars

\* Whatever words a line is written with, in quotes, with blanks or without, the
\* command is looked up with just those words; the line is refused exactly when
\* it has too many of them or a quote is left open.
THEOREM LinesRead == Spec => []WordsAsWritten
  <1>1. Init => WordsAsWritten
    BY DEF Init, WordsAsWritten
  <1> QED
    BY <1>1, WordsStep, PTL DEF Spec

\* What the execution of a line comes to, whatever the commands are.
LEMMA ExecuteTyped ==
  ASSUME LinkInv, NEW words \in Lines, NEW complete \in BOOLEAN, execute_line(words, complete)
  PROVE  /\ Complete /\ UNCHANGED <<constructed, head, next, early>>
         /\ args' = Failed \/ (args' \in Seq(Seq(Letter)) /\ Len(args') <= ArgsMax)
         /\ args' /= Failed => found' = find_cmd(args')
         /\ found'.cmd \in Cmd \union {None}
         /\ found'.rest \in Seq(Seq(Letter)) /\ Len(found'.rest) <= ArgsMax
  <1>1. /\ constructed = Cmd /\ UNCHANGED <<constructed, head, next, early>>
        /\ args' = tokenize(IF complete THEN Line(words) ELSE Line(words) \o <<"'">>)
        /\ args' = Failed => found' = NotFound
        /\ args' /= Failed => found' = find_cmd(args')
    BY DEF execute_line
  <1>2. Complete /\ ArgsMax \in Nat
    BY <1>1, ArgsMaxAssumption DEF Complete
  <1>3. CASE args' /= Failed
    <2>1. PICK W : W = Seq(Letter)
      OBVIOUS
    <2>2. PICK T : T = Texts(words)
      OBVIOUS
    <2>3. args' = T /\ T \in Seq(W) /\ Len(T) <= ArgsMax
      <3>1. args' = Texts(words) /\ Len(words) <= ArgsMax
        BY <1>1, <1>3, LineReadable, TokenizeLine
      <3> QED
        BY <2>1, <2>2, <3>1, LineReadable, TextsTyped
    <2>4. /\ find_cmd(T).cmd \in Cmd \union {None}
          /\ find_cmd(T).rest \in Seq(W) /\ Len(find_cmd(T).rest) <= Len(T)
      BY <1>2, <2>3, FindCmdTyped
    <2>5. PICK n \in Nat, m \in Nat : n = Len(T) /\ m = Len(find_cmd(T).rest)
      BY <2>3, <2>4, LenProperties
    <2>6. Len(find_cmd(T).rest) <= ArgsMax
      BY <1>2, <2>3, <2>4, <2>5
    <2>7. found' = find_cmd(T)
      BY <1>1, <1>3, <2>3
    <2> QED
      BY <1>1, <1>2, <2>1, <2>3, <2>4, <2>6, <2>7
  <1>4. CASE args' = Failed
    <2>1. found'.cmd = None /\ found'.rest = <<>>
      BY <1>1, <1>4 DEF NotFound
    <2>2. <<>> \in Seq(Seq(Letter)) /\ Len(<<>>) = 0
      OBVIOUS
    <2> QED
      BY <1>1, <1>2, <1>4, <2>1, <2>2
  <1> QED
    BY <1>3, <1>4

LEMMA ExecuteFinds ==
  ASSUME LinkInv, Forest, NamesClear, NEW words \in Lines, NEW complete \in BOOLEAN,
         execute_line(words, complete), args' /= Failed
  PROVE  LongestPath(args', found')
  <1>1. Complete
    BY ExecuteTyped
  <1>2. PICK T : T = args'
    OBVIOUS
  <1>3. T \in Seq(Seq(Letter)) /\ found' = find_cmd(T)
    BY <1>2, ExecuteTyped
  <1>4. LongestPath(T, find_cmd(T))
    BY <1>1, <1>3, LongestPathIs
  <1> QED
    BY <1>2, <1>3, <1>4

FoundInv ==
  /\ LinkInv
  /\ busy => constructed = Cmd /\ LongestPathFound

LEMMA FoundStep ==
  Forest /\ NamesClear => (FoundInv /\ [Next]_vars => FoundInv')
  <1> SUFFICES ASSUME Forest, NamesClear, FoundInv, [Next]_vars
               PROVE  FoundInv'
    OBVIOUS
  <1>1. LinkInv /\ LinkInv'
    BY LinkStep DEF FoundInv
  <1>2. ASSUME early' = early, NEW words, NEW f, LongestPath(words, f)
        PROVE  LongestPath(words, f)'
    BY <1>2 DEF LongestPath, Registered
  <1>3. CASE \E c \in Cmd : Construct(c)
    <2>1. ~busy /\ busy' = busy
      BY <1>3 DEF Construct, FoundInv, lineVars
    <2> QED
      BY <1>1, <2>1 DEF FoundInv
  <1>4. CASE \E words \in Lines, complete \in BOOLEAN : execute_line(words, complete)
    <2>1. PICK words \in Lines, complete \in BOOLEAN : execute_line(words, complete)
      BY <1>4
    <2>2. /\ Complete /\ UNCHANGED <<constructed, head, next, early>>
          /\ args' /= Failed => LongestPath(args', found')
      BY <1>1, <2>1, ExecuteTyped, ExecuteFinds
    <2> QED
      BY <1>1, <2>2 DEF FoundInv, LongestPathFound, LongestPath, Registered, Complete
  <1>5. CASE Prompt
    BY <1>1, <1>5 DEF Prompt, FoundInv
  <1>6. CASE UNCHANGED vars
    <2>1. /\ busy' = busy /\ constructed' = constructed /\ early' = early
          /\ args' = args /\ found' = found
      BY <1>6 DEF vars, lineVars
    <2> QED
      BY <1>1, <2>1 DEF FoundInv, LongestPathFound, LongestPath, Registered
  <1> QED
    BY <1>3, <1>4, <1>5, <1>6 DEF Next

\* A line runs the command with the longest path of names that begins it, of the
\* first list that has any, and passes it the words that are left: for every set
\* of commands of which none is below itself, none has an empty name, and no two
\* of one list share a name.
THEOREM LongestPathRuns ==
  ASSUME Forest, NamesClear
  PROVE  Spec => []LongestPathFound
  <1>1. Init => FoundInv
    BY LinkInit DEF FoundInv, Init
  <1>2. FoundInv /\ [Next]_vars => FoundInv'
    BY FoundStep
  <1>3. FoundInv => LongestPathFound
    BY DEF FoundInv, LongestPathFound
  <1> QED
    BY <1>1, <1>2, <1>3, PTL DEF Spec

TypeInv == LinkInv /\ TypeOK /\ (busy => constructed = Cmd)

LEMMA TypeInit == Init => TypeInv
  <1> SUFFICES ASSUME Init PROVE TypeInv
    OBVIOUS
  <1>1. LinkInv
    BY LinkInit
  <1>2. Len(<<>>) = 0 /\ 0 <= ArgsMax /\ DOMAIN <<>> = {}
    BY ArgsMaxAssumption
  <1>3. TypeOK
    BY <1>1, <1>2 DEF Init, TypeOK, LinkInv, NotFound, Err
  <1> QED
    BY <1>1, <1>3 DEF TypeInv, Init

LEMMA TypeStep ==
  ASSUME TypeInv, [Next]_vars
  PROVE  TypeInv'
  <1>1. LinkInv /\ LinkInv' /\ TypeOK
    BY LinkStep DEF TypeInv
  <1>2. ASSUME UNCHANGED lineVars, busy => UNCHANGED constructed PROVE TypeInv'
    BY <1>1, <1>2 DEF TypeInv, TypeOK, LinkInv, lineVars
  <1>3. CASE \E c \in Cmd : Construct(c)
    BY <1>2, <1>3 DEF Construct, TypeInv
  <1>4. CASE \E words \in Lines, complete \in BOOLEAN : execute_line(words, complete)
    <2>1. PICK words \in Lines, complete \in BOOLEAN : execute_line(words, complete)
      BY <1>4
    <2>2. /\ Complete /\ UNCHANGED <<constructed, head, next, early>>
          /\ args' = Failed \/ Len(args') <= ArgsMax
          /\ found'.cmd \in Cmd \union {None}
          /\ found'.rest \in Seq(Seq(Letter)) /\ Len(found'.rest) <= ArgsMax
      BY <1>1, <2>1, ExecuteTyped
    <2>3. busy' \in BOOLEAN /\ closed' \in BOOLEAN /\ ret' \in BOOLEAN
      BY <2>1 DEF execute_line
    <2>4. PICK f : f = found'
      OBVIOUS
    <2>5. \/ called' = None /\ shown' = <<>> /\ last_err' \in Err
          \/ /\ called' = f.cmd
             /\ \/ shown' = <<>> /\ last_err' \in Err
                \/ /\ shown' = Help(args', f.rest).shown
                   /\ last_err' = Help(args', f.rest).err
      <3>1. CASE f.cmd /= None
        <4>1. Execute(args', f)
          BY <2>1, <2>4, <3>1 DEF execute_line
        <4> QED
          BY <4>1 DEF Execute, Err
      <3>2. CASE f.cmd = None
        BY <2>1, <2>4, <3>2 DEF execute_line, Err
      <3> QED
        BY <3>1, <3>2
    <2>6. Help(args', f.rest).shown \in Seq(HelpLine) /\ Help(args', f.rest).err \in Err
      BY <2>2, <2>4, HelpTyped
    <2>7. shown' \in Seq(HelpLine) /\ last_err' \in Err /\ called' \in Cmd \union {None}
      <3>1. <<>> \in Seq(HelpLine)
        OBVIOUS
      <3> QED
        BY <2>2, <2>4, <2>5, <2>6, <3>1
    <2>8. \A i \in DOMAIN shown' : shown'[i] \in HelpLine
      BY <2>7, ElementOfSeq, LenProperties
    <2>9. TypeOK'
      BY <1>1, <2>2, <2>3, <2>7, <2>8 DEF TypeOK, LinkInv
    <2> QED
      BY <1>1, <2>2, <2>9 DEF TypeInv, Complete
  <1>5. CASE Prompt
    <2>1. Len(<<>>) = 0 /\ 0 <= ArgsMax /\ DOMAIN <<>> = {}
      BY ArgsMaxAssumption
    <2> QED
      BY <1>1, <1>5, <2>1 DEF Prompt, TypeInv, TypeOK, LinkInv, NotFound, Err
  <1>6. CASE UNCHANGED vars
    BY <1>2, <1>6 DEF vars
  <1> QED
    BY <1>3, <1>4, <1>5, <1>6 DEF Next

\* Every value keeps to its type, whatever the commands are called and however
\* they are nested, below themselves too: a search comes to an end at a command
\* or at none, help shows nothing but commands, and no line has more words than
\* there is room for.
THEOREM CommandTypes == Spec => []TypeOK
  <1>1. TypeInv /\ [Next]_vars => TypeInv'
    BY TypeStep
  <1>2. TypeInv => TypeOK
    BY DEF TypeInv
  <1> QED
    BY TypeInit, <1>1, <1>2, PTL DEF Spec

HelpInv ==
  /\ LinkInv
  /\ busy => constructed = Cmd
  /\ busy /\ called = cmd_help =>
       /\ found.rest \in Seq(Seq(Letter))
       /\ \E f : /\ LongestPath(found.rest, f)
                 /\ HelpShown(f.cmd, found.rest, shown, last_err)

LEMMA HelpStep ==
  ASSUME Forest, NamesClear, HelpClear, HelpInv, [Next]_vars
  PROVE  HelpInv'
  <1>1. LinkInv /\ LinkInv'
    BY LinkStep DEF HelpInv
  <1>2. ASSUME UNCHANGED <<lineVars, early>>, busy => UNCHANGED constructed PROVE HelpInv'
    <2>1. /\ busy' = busy /\ called' = called /\ last_err' = last_err /\ early' = early
          /\ found' = found /\ shown' = shown
      BY <1>2 DEF lineVars
    <2>2. ASSUME NEW f
          PROVE  /\ LongestPath(found.rest, f)' <=> LongestPath(found.rest, f)
                 /\ HelpShown(f.cmd, found.rest, shown, last_err)'
                      <=> HelpShown(f.cmd, found.rest, shown, last_err)
      BY <2>1 DEF LongestPath, HelpShown, Asked, HelpTree, HelpDepth, WantsAll, Registered
    <2> QED
      BY <1>1, <1>2, <2>1, <2>2 DEF HelpInv
  <1>3. CASE \E c \in Cmd : Construct(c)
    <2>1. ~busy /\ busy' = busy
      BY <1>3 DEF Construct, HelpInv, lineVars
    <2> QED
      BY <1>1, <2>1 DEF HelpInv
  <1>4. CASE \E words \in Lines, complete \in BOOLEAN : execute_line(words, complete)
    <2>1. PICK words \in Lines, complete \in BOOLEAN : execute_line(words, complete)
      BY <1>4
    <2>2. /\ Complete /\ UNCHANGED <<constructed, head, next, early>>
          /\ args' = Failed \/ args' \in Seq(Seq(Letter))
          /\ found'.rest \in Seq(Seq(Letter))
      BY <1>1, <2>1, ExecuteTyped
    <2>3. CASE called' = cmd_help
      <3>1. PICK rest, line, g : rest = found'.rest /\ line = args' /\ g = found'
        OBVIOUS
      <3>2. Execute(line, g) /\ called' /= None /\ line /= Failed
        <4>1. called' /= None
          BY <2>3, CmdAssumption
        <4>2. g.cmd /= None
          BY <2>1, <3>1, <4>1 DEF execute_line
        <4>3. line /= Failed
          BY <2>1, <3>1, <4>2 DEF execute_line, NotFound
        <4> QED
          BY <2>1, <3>1, <4>1, <4>2, <4>3 DEF execute_line
      <3>3. /\ g.cmd = cmd_help
            /\ shown' = Help(line, rest).shown /\ last_err' = Help(line, rest).err
        BY <2>3, <3>1, <3>2 DEF Execute
      <3>4. LongestPath(line, g)
        <4>1. LongestPath(args', found')
          BY <1>1, <2>1, <3>1, <3>2, ExecuteFinds
        <4> QED
          BY <3>1, <4>1
      <3>5. line[Len(line)] = All <=> WantsAll(rest)
        <4>1. PICK W : W = Seq(Letter)
          OBVIOUS
        <4>2. line \in Seq(W) /\ rest \in Seq(W)
          BY <2>2, <3>1, <3>2, <4>1
        <4>4. /\ cmd_help \in Cmd /\ Names(cmd_help, line)
              /\ SubSeq(line, 1, Depth(cmd_help)) \o rest = line
          BY <3>1, <3>3, <3>4, CmdAssumption DEF LongestPath
        <4> QED
          BY <4>2, <4>4, LastWord
      <3>6. PICK f : f = find_cmd(rest)
        OBVIOUS
      <3>7. /\ LongestPath(rest, f)
            /\ HelpShown(f.cmd, rest, Help(line, rest).shown, Help(line, rest).err)
        BY <2>2, <3>1, <3>5, <3>6, LongestPathIs, HelpIs
      <3>8. LongestPath(found'.rest, f) /\ HelpShown(f.cmd, found'.rest, shown', last_err')
        BY <3>1, <3>3, <3>7
      <3>9. (LongestPath(found.rest, f) /\ HelpShown(f.cmd, found.rest, shown, last_err))'
        BY <2>2, <3>8
           DEF LongestPath, HelpShown, Asked, HelpTree, HelpDepth, WantsAll, Registered
      <3> QED
        BY <1>1, <2>2, <3>9 DEF HelpInv, Complete
    <2>4. CASE called' /= cmd_help
      BY <1>1, <2>2, <2>4 DEF HelpInv, Complete
    <2> QED
      BY <2>3, <2>4
  <1>5. CASE Prompt
    BY <1>1, <1>5 DEF Prompt, HelpInv
  <1>6. CASE UNCHANGED vars
    BY <1>2, <1>6 DEF vars
  <1> QED
    BY <1>3, <1>4, <1>5, <1>6 DEF Next

LEMMA HelpInvShows ==
  ASSUME Forest, NamesClear, HelpInv
  PROVE  HelpShowsTree
  <1>1. SUFFICES ASSUME busy, called = cmd_help
        PROVE  HelpShown(find_cmd(found.rest).cmd, found.rest, shown, last_err)
    BY DEF HelpShowsTree, HelpShown, Asked, WantsAll, HelpTree, HelpDepth
  <1>2. PICK f : /\ LongestPath(found.rest, f)
                 /\ HelpShown(f.cmd, found.rest, shown, last_err)
    BY <1>1 DEF HelpInv
  <1>3. found.rest \in Seq(Seq(Letter)) /\ Complete
    BY <1>1 DEF HelpInv, Complete
  <1>4. PICK g : g = find_cmd(found.rest)
    OBVIOUS
  <1>5. LongestPath(found.rest, g)
    BY <1>3, <1>4, LongestPathIs
  <1>6. f.cmd = g.cmd
    BY <1>2, <1>3, <1>5, LongestPathOne
  <1> QED
    BY <1>2, <1>4, <1>6

\* Help shows the command asked for and each command that is linked below it, to
\* the depth asked for, once, each after its parent and behind the names of all
\* its parents; without a command it shows those of all lists, and a command that
\* there is not is an error: for every set of commands as above, if no list is
\* configured twice and --all is the name of no command.
THEOREM HelpIsTree ==
  ASSUME Forest, NamesClear, HelpClear
  PROVE  Spec => []HelpShowsTree
  <1>1. Init => HelpInv
    BY LinkInit DEF HelpInv, Init
  <1>2. HelpInv /\ [Next]_vars => HelpInv'
    BY HelpStep
  <1>3. HelpInv => HelpShowsTree
    BY HelpInvShows
  <1> QED
    BY <1>1, <1>2, <1>3, PTL DEF Spec
=============================================================================
