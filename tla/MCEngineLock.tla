--------------------------- MODULE MCEngineLock ---------------------------
(* Instances of EngineLock. *)
EXTENDS EngineLock

CONSTANTS c1, c2

=============================================================================
