-------------------------- MODULE MC_HttpConnection --------------------------
(* Instance of HttpConnection for TLC. *)
EXTENDS HttpConnection
=============================================================================
