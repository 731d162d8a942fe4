---------------------------- MODULE HistoryList ----------------------------
(***************************************************************************)
(* What ln::shell::History promises the command line: a list of entered    *)
(* lines and a position in it that two keys move.  Entering a line forgets *)
(* the oldest characters when the lines outgrow the store.                 *)
(***************************************************************************)
EXTENDS Integers, Sequences

CONSTANTS
  Lines,     \* the lines that are entered
  HistCap    \* the store, in characters, one more than its length per line

VARIABLES
  entries,   \* the lines, oldest first; the oldest may have lost its beginning
  at,        \* the line recalled last, Len(entries) + 1 when there is none
  shown,     \* what the last recall returned
  call       \* the last call and its argument

listVars == <<entries, at, shown, call>>

(* The characters of the first n lines, with a newline each.               *)
Size(lines, n) ==
  LET size[i \in 0..n] == IF i = 0 THEN 0 ELSE size[i - 1] + Len(lines[i]) + 1
  IN  size[n]

(* The lines without their oldest n characters.                            *)
Forget(lines, n) ==
  LET k == CHOOSE i \in 1..Len(lines) : Size(lines, i - 1) <= n /\ n < Size(lines, i)
      cut == SubSeq(lines[k], n - Size(lines, k - 1) + 1, Len(lines[k]))
  IN  <<cut>> \o SubSeq(lines, k + 1, Len(lines))

ListInit == entries = <<>> /\ at = 1 /\ shown = <<>> /\ call = <<"new">>

Enter(l) ==
  LET all == Append(entries, l)
      excess == Size(all, Len(all)) - HistCap
  IN  /\ entries' = IF excess > 0 THEN Forget(all, excess) ELSE all
      /\ at' = Len(entries') + 1
      /\ UNCHANGED shown

Older ==
  IF at > 1 THEN at' = at - 1 /\ shown' = entries[at - 1] /\ UNCHANGED entries
            ELSE shown' = <<>> /\ UNCHANGED <<entries, at>>

Newer ==
  IF at < Len(entries) THEN at' = at + 1 /\ shown' = entries[at + 1] /\ UNCHANGED entries
                       ELSE shown' = <<>> /\ UNCHANGED <<entries, at>>

Again ==
  /\ shown' = IF at <= Len(entries) THEN entries[at] ELSE <<>>
  /\ UNCHANGED <<entries, at>>

ListNext ==
  \/ Older /\ call' = <<"previous">>
  \/ Newer /\ call' = <<"next">>
  \/ Again /\ call' = <<"current">>
  \/ \E l \in Lines : Enter(l) /\ call' = <<"add", l>>

ListSpec == ListInit /\ [][ListNext]_listVars
=============================================================================
