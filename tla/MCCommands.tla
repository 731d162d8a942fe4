----------------------------- MODULE MCCommands -----------------------------
(* A small forest of commands and the lines typed at it.                     *)
EXTENDS Commands

Cfg(parent, list, name, roles, fn) ==
  [parent_cmd |-> parent, cmd_list |-> list, name |-> name, args |-> roles, fn |-> fn]

W(c) == <<c>>
\* "help,?" of the base list; a general command that hides a global one under
\* one of its two names; a global group, a child with two arguments, and a
\* child that has the name of another command and a child of its own.
MCCfgOf ==
  [help  |-> Cfg(None, "base", {W("h"), W("?")}, <<>>, TRUE),
   gen   |-> Cfg(None, "general", {W("a")}, <<Positional>>, TRUE),
   group |-> Cfg(None, "global", {W("a"), W("b")}, <<>>, FALSE),
   dump  |-> Cfg("group", "global", {W("a")}, <<Positional, Positional>>, TRUE),
   sub   |-> Cfg("group", "global", {W("b")}, <<>>, TRUE),
   leaf  |-> Cfg("sub", "global", {W("a")}, <<>>, TRUE)]
MCCmd == DOMAIN MCCfgOf
MCLists == <<"base", "general", "global">>
MCAll == W("all")

Bare(c, gap) == [text |-> W(c), quote |-> None, gap |-> gap]
Quoted(text, q) == [text |-> text, quote |-> q, gap |-> FALSE]
MCWord ==
  {Bare(c, TRUE) : c \in {"h", "a", "b", "all"}}
    \union {Bare("b", FALSE), Quoted(<<>>, "'"), Quoted(W("a"), "\"")}
    \union {Quoted(<<"a", Blank>>, "'"), Quoted(W("'"), "\"")}
\* Up to three words of any kind, and lines with one word too many.
MCLines ==
  {words \in UNION {[1..n -> MCWord] : n \in 0..3}
               \union [1..4 -> {Bare("a", TRUE), Quoted(<<>>, "'")}] :
     Legible(words)}

ASSUME ClearAssumption == Forest /\ NamesClear /\ HelpClear
=============================================================================
