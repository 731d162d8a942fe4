------------------------------ MODULE MCLogger ------------------------------
(* Two tasks and short messages for model checking Logger.                  *)
EXTENDS Logger, TLC

CONSTANTS t1, t2

MCTask == {t1, t2}
MCSymmetry == Permutations(MCTask)
MCBodies == {0, 1}
MCLevel == {INFO, 40}
=============================================================================
