---------------------------- MODULE MCLzRotation ----------------------------
(* Small instances of LzRotation for TLC. *)
EXTENDS LzRotation
=============================================================================
