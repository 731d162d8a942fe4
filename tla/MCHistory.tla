----------------------------- MODULE MCHistory -----------------------------
(* Lines of one to three letters in a store of seven characters.            *)
EXTENDS History

CONSTANTS a, b
MCChar == {a, b}
MCLines == UNION {[1..n -> MCChar] : n \in 1..3}
=============================================================================
