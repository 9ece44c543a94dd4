----------------------------- MODULE MCHaMaster -----------------------------
(* A small instance of HaMaster for TLC. *)
EXTENDS HaMaster
=============================================================================
