---------------------------- MODULE HistoryRing ----------------------------
(***************************************************************************)
(* The fields of ln::shell::History and what its functions compute from    *)
(* them (ln/shell/src/History.cpp): the lines entered so far, each         *)
(* followed by '\n', in a RingBufferView<char>, and a position in it for   *)
(* the arrow keys.  The ring is a bounded queue of characters              *)
(* (RingBufferView refines BoundedFifo); an iterator of it is an index     *)
(* counted from the oldest character, so recall_pos characters of `hist'   *)
(* are before the position.                                                *)
(***************************************************************************)
EXTENDS Integers, SequencesExt

CONSTANTS
  Char,      \* the characters of a line
  HistCap    \* history_buf.size()

NL == "NL"   \* '\n'

ASSUME NewlineAssumption == NL \notin Char
ASSUME CapacityAssumption == HistCap \in Nat

VARIABLES
  hist,      \* ring_buffer, oldest character first
  recall_pos

(***************************************************************************)
(* A definition named Mutant... is not part of the model: it is a plausible *)
(* bug in the definition after it, kept to show that the properties notice *)
(* it.                                                                     *)
(***************************************************************************)
\* What push_overwrite() of a span leaves in the ring.
Newest(s) ==
  IF Len(s) <= HistCap THEN s ELSE SubSeq(s, Len(s) - HistCap + 1, Len(s))

\* The position after the last newline before p, 0 if there is none.
LineBegin(h, p) == SelectLastInSubSeq(h, 1, p, LAMBDA c : c = NL)
\* The position of the first newline from p on, the end if there is none.
LineEnd(h, p) ==
  LET i == SelectInSubSeq(h, p + 1, Len(h), LAMBDA c : c = NL)
  IN  IF i > 0 THEN i - 1 ELSE Len(h)

Chars(h, from, to) == SubSeq(h, from + 1, to)

Recall(pos, l) == [pos |-> pos, line |-> l]

CurrentRecall(h, p) == Recall(p, Chars(h, p, LineEnd(h, p)))

MutantPreviousKeepsNewline(h, p) ==
  LET nl == LineBegin(h, p)
      begin == LineBegin(h, IF nl > 0 THEN nl - 1 ELSE p)
  IN  Recall(begin, Chars(h, begin, p))
\* The newline before p ends the line before; it begins after the one before.
PreviousRecall(h, p) ==
  LET nl == LineBegin(h, p)
      end == IF nl > 0 THEN nl - 1 ELSE p
      begin == LineBegin(h, end)
  IN  Recall(begin, Chars(h, begin, end))

MutantNextMovesPastEnd(h, p) ==
  LET begin == IF LineEnd(h, p) < Len(h) THEN LineEnd(h, p) + 1 ELSE p
      end == LineEnd(h, begin)
  IN  Recall(begin, Chars(h, begin, end))
\* The line after the one at p; the position moves only if there is one.
NextRecall(h, p) ==
  LET begin == IF LineEnd(h, p) < Len(h) THEN LineEnd(h, p) + 1 ELSE p
      end == LineEnd(h, begin)
  IN  Recall(IF end < Len(h) THEN begin ELSE p, Chars(h, begin, end))

\* The line, then the newline.
AddLine(h, l) == Newest(Append(Newest(h \o l), NL))

(***************************************************************************)
(* What is said of them                                                    *)
(***************************************************************************)
\* What the recalls rely on: the ring ends with a newline, and no overwrite
\* leaves the position inside a line or an empty line between two others (the
\* oldest may be cut down to nothing).
Framed(h, p) ==
  /\ h /= <<>> => Last(h) = NL
  /\ \A i \in 1..Len(h) - 1 : ~(h[i] = NL /\ h[i + 1] = NL)
  /\ p > 0 => h[p] = NL
RecallFramed == Framed(hist, recall_pos)

\* The lines of the ring, read off it without the code's searches.
Newlines(h) == {i \in 1..Len(h) : h[i] = NL}
Entries(h) ==
  LET split[i \in 0..Len(h)] ==
        IF i = 0 THEN [lines |-> <<>>, last |-> <<>>]
        ELSE LET before == split[i - 1]
             IN  IF h[i] = NL
                 THEN [lines |-> Append(before.lines, before.last), last |-> <<>>]
                 ELSE [before EXCEPT !.last = Append(@, h[i])]
  IN  split[Len(h)].lines

\* The number of the line that begins at p.
LineNumber(h, p) == 1 + Cardinality({i \in Newlines(h) : i <= p})
=============================================================================
