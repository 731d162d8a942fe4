------------------------------- MODULE Tokens -------------------------------
(***************************************************************************)
(* ln::shell::ArgParser: the words of a command line and the check of a    *)
(* command's arguments (ln/shell/src/Parser.cpp), as operators; and the    *)
(* reference they are held to, the writing of words as a line.             *)
(***************************************************************************)
EXTENDS Integers, SequencesExt

CONSTANT ArgsMax   \* ArgParser::Cfg::args_buf_size_default

ASSUME ArgsMaxAssumption == ArgsMax \in Nat

Blank == " "
Quotes == {"'", "\""}
None == "none"
Failed == << <<"std::nullopt">> >>

(***************************************************************************)
(* tokenize(): where its loop stands is the words found so far, the word   *)
(* that is open, if one is (arg_begin), and the quote it is in.  A         *)
(* definition named Mutant... is not part of the model: it is a plausible  *)
(* bug in the definition after it, kept to show that the properties        *)
(* notice it.                                                              *)
(***************************************************************************)
Start == [args |-> <<>>, open |-> FALSE, word |-> <<>>, quote_char |-> None, room |-> TRUE]

\* args_buf[arg_count++], when the buffer has room.
MutantEmitOneMore(s) ==
  IF Len(s.args) <= ArgsMax
  THEN [s EXCEPT !.args = Append(@, s.word), !.open = FALSE, !.word = <<>>]
  ELSE [s EXCEPT !.room = FALSE]
Emit(s) ==
  IF Len(s.args) < ArgsMax
  THEN [s EXCEPT !.args = Append(@, s.word), !.open = FALSE, !.word = <<>>]
  ELSE [s EXCEPT !.room = FALSE]

EmitOpen(s) == IF s.open THEN Emit(s) ELSE s
Extend(s, c) == [s EXCEPT !.open = TRUE, !.word = Append(@, c)]
OpenQuote(s, c) == [s EXCEPT !.open = TRUE, !.quote_char = c]

MutantQuoteNeedsBlank(s, c) ==
  CASE ~s.room -> s
    [] s.room /\ s.quote_char /= None ->
         IF c = s.quote_char THEN EmitOpen([s EXCEPT !.quote_char = None]) ELSE Extend(s, c)
    [] s.room /\ s.quote_char = None ->
         IF c \in Quotes /\ ~s.open THEN OpenQuote(s, c)
         ELSE IF c = Blank THEN EmitOpen(s) ELSE Extend(s, c)
Consume(s, c) ==
  CASE ~s.room -> s
    [] s.room /\ s.quote_char /= None ->
         IF c = s.quote_char THEN EmitOpen([s EXCEPT !.quote_char = None]) ELSE Extend(s, c)
    [] s.room /\ s.quote_char = None ->
         IF c \in Quotes THEN LET t == EmitOpen(s) IN IF t.room THEN OpenQuote(t, c) ELSE t
         ELSE IF c = Blank THEN EmitOpen(s) ELSE Extend(s, c)

tokenize(line) ==
  LET scan[i \in 0..Len(line)] == IF i = 0 THEN Start ELSE Consume(scan[i - 1], line[i])
      s == scan[Len(line)]
      t == EmitOpen(s)
  IN  IF ~t.room \/ (s.open /\ s.quote_char /= None) THEN Failed ELSE t.args

(***************************************************************************)
(* validate_arg_composition(): as many arguments as the command has        *)
(* positional ones, and none empty at the place of any entry of arg_cfg,   *)
(* of which only the role is kept here.  An entry that is not positional   *)
(* may lead past the arguments, to an empty word of execute_line()'s array *)
(* or past that; no command of the repository has one (Commands).          *)
(***************************************************************************)
Positional == "positional"

validate_arg_composition(arg_cfg, args) ==
  /\ Len(args) >= Cardinality({i \in DOMAIN arg_cfg : arg_cfg[i] = Positional})
  /\ \A i \in DOMAIN arg_cfg : i <= Len(args) /\ args[i] /= <<>>

(***************************************************************************)
(* A word as it is written: bare or in quotes, next to the word before or  *)
(* after a blank.                                                          *)
(***************************************************************************)
Written(word) ==
  (IF word.gap THEN <<Blank>> ELSE <<>>)
    \o (IF word.quote = None THEN word.text ELSE <<word.quote>> \o word.text \o <<word.quote>>)

\* Whether words can be told apart: two bare ones have a blank between them, a
\* bare one is neither empty nor holds blanks or quotes, a quoted one does not
\* hold its quote.
Legible(words) ==
  \A i \in DOMAIN words :
    LET w == words[i]
        chars == {w.text[k] : k \in DOMAIN w.text}
    IN  IF w.quote /= None THEN w.quote \notin chars
        ELSE /\ w.text /= <<>> /\ chars \intersect (Quotes \union {Blank}) = {}
             /\ i > 1 /\ words[i - 1].quote = None => w.gap

Line(words) == FlattenSeq([i \in DOMAIN words |-> Written(words[i])])
Texts(words) == [i \in DOMAIN words |-> words[i].text]
=============================================================================
