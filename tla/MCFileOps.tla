----------------------------- MODULE MCFileOps ------------------------------
(* Small instances of FileOps for TLC. *)
EXTENDS FileOps, TLC

CONSTANTS a, b, d, f

\* A sticky hash that starts at the second of two replicas.
MCHash == f :> 1
=============================================================================
