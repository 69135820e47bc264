--------------------------- MODULE MCHealthTiming ---------------------------
(* An instance of HealthTiming for TLC. *)
EXTENDS HealthTiming
=============================================================================
