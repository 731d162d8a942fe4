------------------------------ MODULE LineEdit ------------------------------
(***************************************************************************)
(* What ln::shell::Input promises the command line: a text of at most      *)
(* InputCap characters and a cursor in it, edited one character at a time. *)
(* Nothing here knows about the buffer and its memmove() calls.            *)
(***************************************************************************)
EXTENDS Integers, SequencesExt

CONSTANTS
  Char,      \* what may be typed into the line
  InputCap   \* line_buf.size()

VARIABLES
  line,      \* [text, cursor]: cursor characters are left of the cursor
  ok,        \* what the last call returned
  call       \* the last call and its argument

Line == [text : UNION {[1..n -> Char] : n \in 0..InputCap}, cursor : 0..InputCap]
Empty == [text |-> <<>>, cursor |-> 0]

is_cursor_on_base(l) == l.cursor = 0
is_cursor_on_end(l) == Len(l.text) = l.cursor
is_full(l) == Len(l.text) = InputCap

(* The edits, where they are possible.                                     *)
Insert(l, c) ==
  [text |-> InsertAt(l.text, l.cursor + 1, c), cursor |-> l.cursor + 1]
Delete(l) == [l EXCEPT !.text = RemoveAt(@, l.cursor + 1)]
Backspace(l) == [text |-> RemoveAt(l.text, l.cursor), cursor |-> l.cursor - 1]
StepLeft(l) == [l EXCEPT !.cursor = @ - 1]
StepRight(l) == [l EXCEPT !.cursor = @ + 1]

CanInsert(l) == ~is_full(l)
CanDelete(l) == ~is_cursor_on_end(l)
CanBackspace(l) == ~is_cursor_on_base(l)
CanStepLeft(l) == ~is_cursor_on_base(l)
(* A full line does not let the cursor move right (Input.cpp 33-35).       *)
CanStepRight(l) == ~is_cursor_on_end(l) /\ ~is_full(l)

Try(possible, edited) ==
  /\ ok' = possible
  /\ line' = IF possible THEN edited ELSE line

LineInit == line = Empty /\ ok = FALSE /\ call = <<"new">>

LineNext ==
  \/ \E c \in Char : Try(CanInsert(line), Insert(line, c)) /\ call' = <<"insert", c>>
  \/ Try(CanDelete(line), Delete(line)) /\ call' = <<"delete">>
  \/ Try(CanBackspace(line), Backspace(line)) /\ call' = <<"backspace">>
  \/ Try(CanStepLeft(line), StepLeft(line)) /\ call' = <<"left">>
  \/ Try(CanStepRight(line), StepRight(line)) /\ call' = <<"right">>
  \/ line' = Empty /\ call' = <<"clear">> /\ UNCHANGED ok

LineSpec == LineInit /\ [][LineNext]_<<line, ok, call>>
=============================================================================
