---------------------------- MODULE MCWeedClient ----------------------------
(* A small instance of WeedClient for TLC. *)
EXTENDS WeedClient
=============================================================================
