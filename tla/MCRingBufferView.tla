-------------------------- MODULE MCRingBufferView --------------------------
(* A four-slot buffer, spans as long as the buffer, an 8-bit-like size_t.   *)
EXTENDS RingBufferView

CONSTANTS a, b
MCValue == {a, b}
=============================================================================
