-------------------------------- MODULE Cli --------------------------------
(***************************************************************************)
(* ln::shell::CLI, one character at a time: put_char() runs the escape     *)
(* sequence recogniser, edits the line, browses the history, executes the  *)
(* line and redraws the terminal row (ln/shell/src/CLI.cpp).  It composes  *)
(* Input, through the editor LineEdit it implements, with the operators of *)
(* History, and adds a terminal that shows what is printed after the       *)
(* prompt.                                                                 *)
(*                                                                         *)
(* What a command prints and returns is left open.  Colours print nothing  *)
(* on the row.                                                             *)
(***************************************************************************)
EXTENDS HistoryRing

CONSTANTS
  Keyboards, \* the sets of characters a session may receive
  InputCap,  \* input_line_buf.size()
  Stale      \* the values escape_state may have before it is first assigned

ESC == "ESC"
DEL == "DEL"
CR == "CR"
Blank == " "
BS == "BS"     \* a backspace printed to the terminal

EscapeState == {"failed", "none", "escaped", "delimited", "intermediate", "finished"}

\* Char is what put_char() types: neither a key of its own nor what moves the
\* terminal's cursor.  A key that is none of these is ignored.
ASSUME CharAssumption == Char \cap {ESC, DEL, CR, BS} = {}
ASSUME StaleAssumption == Stale \subseteq EscapeState /\ Stale /= {}
ASSUME CapAssumption == InputCap \in 1..HistCap

VARIABLES
  keys,        \* the characters this session may receive: never changes
  escape_state,
  input,       \* [text, cursor]
  previously_called_from_history,
  ret,         \* what put_char() returned last
  screen       \* [row, col] of the terminal, the prompt being in columns 0 and 1

vars == <<keys, escape_state, input, hist, recall_pos, previously_called_from_history, ret, screen>>
historyVars == <<hist, recall_pos, previously_called_from_history>>

Line == INSTANCE LineEdit WITH line <- input, ok <- ret, call <- <<>>

Prompt == 2
Column == 0..Prompt + InputCap + 1

(***************************************************************************)
(* The terminal.  A definition named Mutant... is not part of the model:   *)
(* it is a plausible bug in the definition after it, kept to show that the *)
(* properties notice it.                                                   *)
(***************************************************************************)
FreshRow == [row |-> [i \in Column |-> IF i < Prompt THEN ">" ELSE Blank], col |-> Prompt]

PrintChar(s, c) ==
  IF c = BS THEN [s EXCEPT !.col = IF @ = 0 THEN 0 ELSE @ - 1]
            ELSE [row |-> [s.row EXCEPT ![s.col] = c], col |-> s.col + 1]
print(s, text) ==
  LET shown[i \in 0..Len(text)] == IF i = 0 THEN s ELSE PrintChar(shown[i - 1], text[i])
  IN  shown[Len(text)]

Times(c, n) == [i \in 1..n |-> c]
From(l, i) == SubSeq(l.text, i, Len(l.text))
BackToCursor(l) == Times(BS, Len(l.text) - l.cursor)

(***************************************************************************)
(* Editing with redraw: functions of e, the line and the screen.           *)
(***************************************************************************)
Here == [line |-> input, screen |-> screen]
Become(e) == input' = e.line /\ screen' = e.screen

Drawn(e, l, text) == [line |-> l, screen |-> print(e.screen, text)]

MutantInsertKeepsColumn(e, c) ==
  LET l == Line!Insert(e.line, c)
  IN  IF Line!CanInsert(e.line) THEN Drawn(e, l, From(l, l.cursor)) ELSE e
insert(e, c) ==
  LET l == Line!Insert(e.line, c)
  IN  IF Line!CanInsert(e.line) THEN Drawn(e, l, From(l, l.cursor) \o BackToCursor(l)) ELSE e

MutantDeleteLeavesLast(e) ==
  LET l == Line!Delete(e.line)
  IN  IF Line!CanDelete(e.line) THEN Drawn(e, l, From(l, l.cursor + 1) \o BackToCursor(l)) ELSE e
delete_char(e) ==
  LET l == Line!Delete(e.line)
  IN  IF Line!CanDelete(e.line)
      THEN Drawn(e, l, From(l, l.cursor + 1) \o <<Blank, BS>> \o BackToCursor(l)) ELSE e

backspace_char(e) ==
  LET l == Line!Backspace(e.line)
  IN  IF Line!CanBackspace(e.line)
      THEN Drawn(e, l, <<BS>> \o From(l, l.cursor + 1) \o <<Blank, BS>> \o BackToCursor(l))
      ELSE e

on_arrow_left_key(e) ==
  IF Line!CanStepLeft(e.line) THEN Drawn(e, Line!StepLeft(e.line), <<BS>>) ELSE e

on_arrow_right_key(e) ==
  LET l == Line!StepRight(e.line)
  IN  IF Line!CanStepRight(e.line) THEN Drawn(e, l, <<l.text[l.cursor]>>) ELSE e

on_home_key(e) ==
  Drawn(e, [e.line EXCEPT !.cursor = 0], Times(BS, e.line.cursor))

clear_input(e) ==
  LET n == Len(e.line.text)
  IN  Drawn(e, Line!Empty, Times(BS, n) \o Times(Blank, n) \o Times(BS, n))

\* Text that is typed character by character.
Typed(e, text) ==
  LET typed[i \in 0..Len(text)] == IF i = 0 THEN e ELSE insert(typed[i - 1], text[i])
  IN  typed[Len(text)]

MutantReplacedAppends(e, text) == Typed(e, text)
\* A recalled line replaces the input.
Replaced(e, text) == Typed(clear_input(e), text)

(***************************************************************************)
(* handle_escape(): a character of an escape sequence.                     *)
(***************************************************************************)
Active == escape_state \in {"escaped", "delimited", "intermediate", "finished"}
Delimited == escape_state \in {"delimited", "intermediate", "finished"}

\* put_char() returns false for every character of a sequence.
Handled(state) == escape_state' = state /\ ret' = FALSE

Escape(c) ==
  /\ c = ESC
  /\ Handled("escaped")
  /\ UNCHANGED <<input, screen, historyVars>>

DeleteInSequence(c) ==
  /\ c = DEL /\ Active
  /\ Become(delete_char(Here))
  /\ Handled("none")
  /\ UNCHANGED historyVars

OpenDelimiter(c) ==
  /\ c = "[" /\ Active
  /\ Handled("delimited")
  /\ UNCHANGED <<input, screen, historyVars>>

DeleteKeyNumber(c) ==
  /\ c = "3" /\ Delimited
  /\ Handled("intermediate")
  /\ UNCHANGED <<input, screen, historyVars>>

DeleteKey(c) ==
  /\ c = "~" /\ escape_state \in {"intermediate", "finished"}
  /\ Become(delete_char(Here))
  /\ Handled("finished")
  /\ UNCHANGED historyVars

CursorKey(c) ==
  /\ Delimited
  /\ \/ c = "H" /\ Become(on_home_key(Here))
     \/ c = "C" /\ Become(on_arrow_right_key(Here))
     \/ c = "D" /\ Become(on_arrow_left_key(Here))
  /\ Handled("finished")
  /\ UNCHANGED historyVars

\* The line found by a recall is shown, unless it is empty.
Show(found) ==
  /\ recall_pos' = found.pos
  /\ Become(IF found.line = <<>> THEN Here ELSE Replaced(Here, found.line))
  /\ UNCHANGED hist

on_arrow_up_key ==
  /\ Show(IF previously_called_from_history THEN CurrentRecall(hist, recall_pos)
                                            ELSE PreviousRecall(hist, recall_pos))
  /\ previously_called_from_history' = FALSE

on_arrow_down_key ==
  /\ Show(NextRecall(hist, recall_pos))
  /\ UNCHANGED previously_called_from_history

BrowseKey(c) ==
  /\ Delimited
  /\ \/ c = "A" /\ on_arrow_up_key
     \/ c = "B" /\ on_arrow_down_key
  /\ Handled("finished")

InSequence(c) ==
  \/ c = ESC
  \/ c \in {DEL, "["} /\ Active
  \/ c \in {"3", "H", "A", "B", "C", "D"} /\ Delimited
  \/ c = "~" /\ escape_state \in {"intermediate", "finished"}

handle_escape(c) ==
  \/ Escape(c) \/ DeleteInSequence(c) \/ OpenDelimiter(c)
  \/ DeleteKeyNumber(c) \/ DeleteKey(c) \/ CursorKey(c) \/ BrowseKey(c)

(***************************************************************************)
(* The rest of put_char(): a character outside a sequence, which any open  *)
(* sequence ends with.                                                     *)
(***************************************************************************)
Outside(c) ==
  /\ ~InSequence(c)
  /\ escape_state' = IF Active THEN "failed" ELSE "none"

MutantRememberSkipsEdited(text) ==
  IF text = <<>> THEN UNCHANGED historyVars
  ELSE IF recall_pos < Len(hist)
  THEN /\ previously_called_from_history' = TRUE
       /\ UNCHANGED <<hist, recall_pos>>
  ELSE /\ hist' = AddLine(hist, text)
       /\ recall_pos' = Len(hist')
       /\ UNCHANGED previously_called_from_history
\* execute_line(): the line is remembered unless it is the one recalled last.
Remember(text) ==
  IF text = <<>> THEN UNCHANGED historyVars
  ELSE IF text = CurrentRecall(hist, recall_pos).line
  THEN /\ previously_called_from_history' = TRUE
       /\ UNCHANGED <<hist, recall_pos>>
  ELSE /\ hist' = AddLine(hist, text)
       /\ recall_pos' = Len(hist')
       /\ UNCHANGED previously_called_from_history

\* '\r'; an empty line succeeds, any other as its tokens and command decide.
Enter(c) ==
  /\ c = CR /\ Outside(c)
  /\ Remember(input.text)
  /\ ret' \in IF input.text = <<>> THEN {TRUE} ELSE BOOLEAN
  /\ input' = Line!Empty /\ screen' = FreshRow

Backspace(c) ==
  /\ c = DEL /\ Outside(c)
  /\ Become(backspace_char(Here))
  /\ ret' = TRUE
  /\ UNCHANGED historyVars

Type(c) ==
  /\ c \in Char /\ Outside(c)
  /\ Become(insert(Here, c))
  /\ ret' = TRUE
  /\ UNCHANGED historyVars

Ignore(c) ==
  /\ c \notin Char \union {ESC, DEL, CR} /\ Outside(c)
  /\ ret' = FALSE
  /\ UNCHANGED <<input, screen, historyVars>>

put_char(c) == handle_escape(c) \/ Enter(c) \/ Backspace(c) \/ Type(c) \/ Ignore(c)

\* escape_state has no initialiser.
Init ==
  /\ keys \in Keyboards
  /\ escape_state \in Stale
  /\ input = Line!Empty
  /\ hist = <<>> /\ recall_pos = 0 /\ previously_called_from_history = FALSE
  /\ ret = FALSE
  /\ screen = FreshRow

Next == (\E c \in keys : put_char(c)) /\ UNCHANGED keys

Spec == Init /\ [][Next]_vars

(***************************************************************************)
(* Properties                                                              *)
(***************************************************************************)
\* Types of the fields; the cursor is in the line.
TypeOK ==
  /\ escape_state \in EscapeState
  /\ input \in Line!Line /\ input.cursor <= Len(input.text)
  /\ hist \in Seq(Char \union {NL}) /\ Len(hist) <= HistCap
  /\ recall_pos \in 0..Len(hist)
  /\ previously_called_from_history \in BOOLEAN
  /\ ret \in BOOLEAN
  /\ screen.row \in [Column -> Char \union {Blank, ">"}] /\ screen.col \in Column

\* The row that shows a line and its cursor after the prompt.
RowOf(l) ==
  [row |-> [i \in Column |->
              IF i < Prompt THEN ">"
              ELSE IF i - Prompt < Len(l.text) THEN l.text[i - Prompt + 1] ELSE Blank],
   col |-> Prompt + l.cursor]

\* Every key leaves the terminal showing the line and the cursor that the next
\* key will edit.  The one exception is a recall with the cursor inside the
\* line: clear_input() takes it to be at the end (CLI.cpp 374-385).
ScreenInSync ==
  [][/\ screen = RowOf(input)
     /\ on_arrow_up_key \/ on_arrow_down_key => Line!is_cursor_on_end(input)
     => screen' = RowOf(input')]_vars

\* A recall that changes the input puts a whole entry of the history there,
\* with the cursor at its end, whatever was typed before.
RecallShowsEntry ==
  [][(on_arrow_up_key \/ on_arrow_down_key) /\ input' /= input =>
       \E k \in DOMAIN Entries(hist) :
         input' = [text |-> Entries(hist)[k], cursor |-> Len(Entries(hist)[k])]]_vars

\* A line that is executed is an entry of the history afterwards, be it added
\* or taken for the one recalled, if the store has room for it at all.
EnteredLineKept ==
  [][Enter(CR) /\ Len(input.text) \in 1..HistCap - 1 =>
       \E k \in DOMAIN Entries(hist') : Entries(hist')[k] = input.text]_vars

\* "@result false - nothing to handle" (CLI.cpp 215): a character that comes
\* when no escape sequence is open is typed or erases.
NothingToHandle ==
  [][\A c \in Char \union {DEL} :
       put_char(c) /\ escape_state \in {"none", "failed", "finished"} => ret']_vars
=============================================================================
