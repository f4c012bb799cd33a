----------------------------- MODULE MC_Calendar -----------------------------
(* Instance of Calendar for TLC. *)
EXTENDS Calendar
=============================================================================
