------------------------ MODULE MCEventDrivenStream ------------------------
(* Tasks and directions for model checking EventDrivenStream.              *)
EXTENDS EventDrivenStream

CONSTANTS t1, t2

MCTask == {t1, t2}
ReadOnly == {"r"}
ReadWrite == {"r", "w"}

=============================================================================
