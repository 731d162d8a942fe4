------------------------------ MODULE MCInput ------------------------------
(* A four-character buffer over a two-letter alphabet.                      *)
EXTENDS Input

CONSTANTS a, b
MCChar == {a, b}
=============================================================================
