------------------------------ MODULE LogStream ------------------------------
(***************************************************************************)
(* What ln::logger::Logger promises: one stream of messages, each appended *)
(* once and in the order of logging, delivered in order and without gaps.  *)
(* A message is appended whole, or up to where the room for undelivered    *)
(* text ends.  It is lost only if it is logged inside a window: while      *)
(* another message is being put into the buffer, or the buffer has been    *)
(* delivered and not yet cleared.                                          *)
(*                                                                         *)
(* A character is the number of its message and how many of the message's  *)
(* characters follow it: a message that ends in 0 has not been cut.        *)
(***************************************************************************)
EXTENDS Integers, Sequences

CONSTANTS
  MaxLen,   \* the longest message, header and end of line included
  Limit     \* the most characters that are kept for the next flush

VARIABLES
  delivered,   \* the characters written to the output file
  pending,     \* the characters kept for the next flush
  logged,      \* the number of messages logged so far
  window       \* whether a message logged now is lost

streamVars == <<delivered, pending, logged, window>>

\* The message with the given number, n characters long.
Text(number, n) == [i \in 1..n |-> <<number, n - i>>]

\* What there is room for of a text.
Kept(text) == SubSeq(text, 1, IF Limit < Len(text) THEN Limit ELSE Len(text))

StreamInit == delivered = <<>> /\ pending = <<>> /\ logged = 0 /\ window = FALSE

\* A message that is logged outside a window, or whose own window this is.
Log ==
  /\ ~window'
  /\ logged' = logged + 1
  /\ \E n \in 1..MaxLen : pending' = Kept(pending \o Text(logged', n))
  /\ UNCHANGED delivered

\* A message of an interrupt inside a window.
Lose ==
  /\ window /\ window'
  /\ logged' = logged + 1
  /\ UNCHANGED <<delivered, pending>>

Flush ==
  /\ ~window /\ window'
  /\ delivered' = delivered \o pending /\ pending' = <<>>
  /\ UNCHANGED logged

\* A task opens the buffer, or has cleared it.
TurnWindow ==
  /\ window' = ~window
  /\ UNCHANGED <<delivered, pending, logged>>

StreamNext == Log \/ Lose \/ Flush \/ TurnWindow

StreamSpec == StreamInit /\ [][StreamNext]_streamVars
=============================================================================
