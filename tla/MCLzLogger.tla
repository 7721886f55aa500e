----------------------------- MODULE MCLzLogger -----------------------------
(* Small instances of LzLogger for TLC. *)
EXTENDS LzLogger, TLC

Symmetry == Permutations(Addrs)
WritersSymmetry == Permutations(Addrs) \cup Permutations(Writers)
=============================================================================
