---------------------------- MODULE MCLzPlatform ----------------------------
(* Small instances of LzPlatform for TLC. *)
EXTENDS LzPlatform
=============================================================================
