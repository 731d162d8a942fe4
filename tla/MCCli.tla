------------------------------- MODULE MCCli -------------------------------
(* The keyboards of the runs of Cli.                                       *)
EXTENDS Cli

\* The printable keys: x means nothing in an escape sequence.
Characters == {"[", "3", "~", "H", "A", "B", "C", "D", "x"}

\* Everything but the keys of the history.  BEL stands for the keys that
\* put_char() ignores.
EditKeys == {ESC, DEL, "[", "3", "~", "H", "C", "D", "BEL", "x"}
\* Entering and browsing lines, with the cursor anywhere in the line.
BrowseKeys == {ESC, CR, "[", "A", "B", "D"}
\* Browsing both ways, or up with the cursor moved inside the line first.
AllKeyboards == {EditKeys, BrowseKeys \ {"D"}, BrowseKeys \ {"B"}}
Browsing == {BrowseKeys}
Unassigned == EscapeState
Zeroed == {"none"}
=============================================================================
