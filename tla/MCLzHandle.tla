----------------------------- MODULE MCLzHandle -----------------------------
(* Small instances of LzHandle for TLC. *)
EXTENDS LzHandle, TLC

HandleSymmetry == Permutations(Addrs) \cup Permutations(Writers) \cup Permutations(Users)
=============================================================================
