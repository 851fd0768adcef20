---------------------------- MODULE MCFlashStore ----------------------------
(* Instances of FlashStore for TLC. *)
EXTENDS FlashStore, TLC

CONSTANTS a1, a2, c1, c2

\* No action compares two addresses or two codes except for equality.
Symmetry == Permutations({a1, a2}) \cup Permutations({c1, c2})
=============================================================================
