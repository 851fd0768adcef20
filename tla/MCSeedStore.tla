----------------------------- MODULE MCSeedStore -----------------------------
(* Instances of SeedStore for TLC. *)
EXTENDS SeedStore

CONSTANTS a1, a2
=============================================================================
