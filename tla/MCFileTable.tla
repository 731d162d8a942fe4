----------------------------- MODULE MCFileTable -----------------------------
(* Two tasks for model checking FileTable.                                  *)
EXTENDS FileTable, TLC

CONSTANTS t1, t2

MCTask == {t1, t2}
MCSymmetry == Permutations(MCTask)
\* As fopen() asks for modes r and w, and a flag that open() does not know.
MCFlags == {{}, {"WRONLY", "CREAT", "TRUNC"}, {"NONBLOCK"}}
=============================================================================
