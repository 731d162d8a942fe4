------------------------------ MODULE History ------------------------------
(***************************************************************************)
(* ln::shell::History, called in any order: add_line() and the three       *)
(* recalls (ln/shell/src/History.cpp).                                     *)
(***************************************************************************)
EXTENDS HistoryRing

CONSTANT Lines   \* the lines handed to add_line(): none empty, none with a newline

\* The queue is defined for spans no longer than the ring.
ASSUME LinesAssumption == \A l \in Lines : l \in Seq(Char) /\ Len(l) \in 1..HistCap

VARIABLES
  line,        \* the range the last call returned
  call         \* history: the last call and its argument

Take(r) == recall_pos' = r.pos /\ line' = r.line /\ UNCHANGED hist

get_current_recall_line == Take(CurrentRecall(hist, recall_pos))
recall_previous == Take(PreviousRecall(hist, recall_pos))
recall_next == Take(NextRecall(hist, recall_pos))

MutantAddKeepsPosition(l) ==
  /\ hist' = AddLine(hist, l)
  /\ UNCHANGED <<recall_pos, line>>
add_line(l) ==
  /\ hist' = AddLine(hist, l)
  /\ recall_pos' = Len(hist')
  /\ UNCHANGED line

HistoryInit == hist = <<>> /\ recall_pos = 0 /\ line = <<>> /\ call = <<"new">>

HistoryNext ==
  \/ get_current_recall_line /\ call' = <<"current">>
  \/ recall_previous /\ call' = <<"previous">>
  \/ recall_next /\ call' = <<"next">>
  \/ \E l \in Lines : add_line(l) /\ call' = <<"add", l>>

HistorySpec == HistoryInit /\ [][HistoryNext]_<<hist, recall_pos, line, call>>

(***************************************************************************)
(* Properties                                                              *)
(***************************************************************************)
\* Types of the fields; the position is in the ring.
HistoryTypeOK ==
  /\ hist \in Seq(Char \union {NL}) /\ Len(hist) <= HistCap
  /\ recall_pos \in 0..Len(hist)
  /\ line \in Seq(Char)

List == INSTANCE HistoryList
          WITH entries <- Entries(hist), at <- LineNumber(hist, recall_pos), shown <- line

\* The history is a list of lines: whatever has been overwritten, the searches
\* for newlines return whole entries, in order, and stop at either end.
RefinesHistoryList == List!ListSpec
=============================================================================
