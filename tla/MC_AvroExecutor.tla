--------------------------- MODULE MC_AvroExecutor ---------------------------
(* Instance of AvroExecutor for TLC. *)
EXTENDS AvroExecutor
=============================================================================
