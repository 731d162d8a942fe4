------------------------------- MODULE Input -------------------------------
(***************************************************************************)
(* ln::shell::Input: the line being typed, in a character buffer supplied  *)
(* by the caller (ln/shell/src/Input.cpp).  The buffer is edited in place  *)
(* with memmove(); what lies past chars_used is left over from earlier     *)
(* edits.                                                                  *)
(***************************************************************************)
EXTENDS Integers, Sequences

CONSTANTS
  Char,      \* what may be typed into the line
  InputCap   \* line_buf.size()

ASSUME InputCapAssumption == InputCap \in Nat
ASSUME CharAssumption == Char /= {}

VARIABLES
  line_buf,
  cursor_idx,
  chars_used,
  overrun,   \* history: the reads and writes that left the buffer, and where
  ok,        \* what the last call returned
  call       \* history: the last call and its argument

vars == <<line_buf, cursor_idx, chars_used, overrun, ok, call>>

Index == 0..InputCap - 1

is_cursor_on_base == cursor_idx = 0
is_cursor_on_end == chars_used = cursor_idx
is_empty == is_cursor_on_base /\ is_cursor_on_end
MutantNeverFull == chars_used > InputCap
is_full == chars_used = InputCap

\* line_buf after memmove(&line_buf[dst], &line_buf[src], n), a byte read past
\* the buffer being `outside'.
Moved(dst, src, n, outside) ==
  [i \in Index |->
     IF i \notin dst..dst + n - 1 THEN line_buf[i]
     ELSE IF src + (i - dst) \in Index THEN line_buf[src + (i - dst)]
     ELSE outside]

\* The bytes outside the buffer that the same memmove() writes and reads; a
\* length below zero is a size_t past every buffer.
Overruns(dst, src, n) ==
  IF n < 0 THEN {<<"write", InputCap>>}
  ELSE ({"write"} \X (dst..dst + n - 1 \ Index)) \union ({"read"} \X (src..src + n - 1 \ Index))

Memmove(dst, src, n) ==
  /\ \E outside \in Char : line_buf' = Moved(dst, src, n, outside)
  /\ overrun' = overrun \union Overruns(dst, src, n)

(***************************************************************************)
(* The operations.  A definition named Mutant... is not part of the model: *)
(* it is a plausible bug in the definition after it, kept to show that the *)
(* properties notice it.                                                   *)
(***************************************************************************)
Refuse == ok' = FALSE /\ UNCHANGED <<line_buf, cursor_idx, chars_used, overrun>>

clear ==
  /\ chars_used' = 0 /\ cursor_idx' = 0
  /\ UNCHANGED <<line_buf, overrun, ok>>

step_right ==
  \/ (is_cursor_on_end \/ is_full) /\ Refuse
  \/ /\ ~is_cursor_on_end /\ ~is_full
     /\ cursor_idx' = cursor_idx + 1 /\ ok' = TRUE
     /\ UNCHANGED <<line_buf, chars_used, overrun>>

step_left ==
  \/ is_cursor_on_base /\ Refuse
  \/ /\ ~is_cursor_on_base
     /\ cursor_idx' = cursor_idx - 1 /\ ok' = TRUE
     /\ UNCHANGED <<line_buf, chars_used, overrun>>

MutantDeleteAtEnd ==
  \/ is_empty /\ Refuse
  \/ /\ ~is_empty
     /\ Memmove(cursor_idx, cursor_idx + 1, chars_used - (cursor_idx + 1))
     /\ chars_used' = chars_used - 1 /\ ok' = TRUE
     /\ UNCHANGED cursor_idx
delete_char ==
  \/ (is_empty \/ is_cursor_on_end) /\ Refuse
  \/ /\ ~is_empty /\ ~is_cursor_on_end
     /\ Memmove(cursor_idx, cursor_idx + 1, chars_used - (cursor_idx + 1))
     /\ chars_used' = chars_used - 1 /\ ok' = TRUE
     /\ UNCHANGED cursor_idx

MutantBackspaceNoMove ==
  \/ is_cursor_on_base /\ Refuse
  \/ /\ ~is_cursor_on_base
     /\ cursor_idx' = cursor_idx - 1 /\ chars_used' = chars_used - 1 /\ ok' = TRUE
     /\ UNCHANGED <<line_buf, overrun>>
backspace_char ==
  \/ is_cursor_on_base /\ Refuse
  \/ /\ ~is_cursor_on_base
     /\ IF is_cursor_on_end THEN UNCHANGED <<line_buf, overrun>>
        ELSE Memmove(cursor_idx - 1, cursor_idx, chars_used - cursor_idx + 1)
     /\ cursor_idx' = cursor_idx - 1 /\ chars_used' = chars_used - 1 /\ ok' = TRUE

insert(c) ==
  \/ is_full /\ Refuse
  \/ /\ ~is_full
     /\ line_buf' = [Moved(cursor_idx + 1, cursor_idx, chars_used - cursor_idx, c)
                       EXCEPT ![cursor_idx] = c]
     /\ overrun' = overrun \union Overruns(cursor_idx + 1, cursor_idx, chars_used - cursor_idx)
                         \union ({"write"} \X ({cursor_idx} \ Index))
     /\ cursor_idx' = cursor_idx + 1 /\ chars_used' = chars_used + 1 /\ ok' = TRUE

\* The buffer is whatever the caller's memory holds.
Init ==
  /\ line_buf \in [Index -> Char]
  /\ cursor_idx = 0 /\ chars_used = 0
  /\ overrun = {}
  /\ ok = FALSE
  /\ call = <<"new">>

Next ==
  \/ clear /\ call' = <<"clear">>
  \/ step_right /\ call' = <<"right">>
  \/ step_left /\ call' = <<"left">>
  \/ delete_char /\ call' = <<"delete">>
  \/ backspace_char /\ call' = <<"backspace">>
  \/ \E c \in Char : insert(c) /\ call' = <<"insert", c>>

Spec == Init /\ [][Next]_vars

(***************************************************************************)
(* Properties                                                              *)
(***************************************************************************)
\* Types of the fields; the cursor is in the line and the line in the buffer.
TypeOK ==
  /\ line_buf \in [Index -> Char]
  /\ chars_used \in 0..InputCap
  /\ cursor_idx \in 0..chars_used
  /\ overrun \subseteq {"read", "write"} \X Int
  /\ ok \in BOOLEAN

\* No edit writes outside the buffer, and the only byte outside that one ever
\* reads is the one just after it: the lengths handed to memmove() are computed
\* from two counters, and that of backspace_char() is a byte too long (Input.cpp
\* 63-64), which matters inside a full line.
NoOverrun == overrun \subseteq {<<"read", InputCap>>}

Text == [i \in 1..chars_used |-> line_buf[i - 1]]
Editor == INSTANCE LineEdit
            WITH line <- [text |-> Text, cursor |-> cursor_idx]

\* The in-place edits are the edits of a text with a cursor: nothing past the
\* line, and no byte read past the buffer, ever shows up in it.
RefinesLineEdit == Editor!LineSpec
=============================================================================
