---------------------------- MODULE MCLzKeyStream ----------------------------
(* Small instances of LzKeyStream for TLC. *)
EXTENDS LzKeyStream
=============================================================================
