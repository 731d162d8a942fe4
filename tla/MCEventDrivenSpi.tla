-------------------------- MODULE MCEventDrivenSpi --------------------------
(* Two tasks and the sets of operations of the runs of EventDrivenSpi.     *)
EXTENDS EventDrivenSpi

CONSTANTS t1, t2

MCTask == {t1, t2}
Writes == {"write", "write_async", "write_await"}
Duplex == {"read_write", "write", "write_async", "write_await"}
Reads == {"read"}

=============================================================================
