--------------------------- MODULE MCTransmitPath ---------------------------
(* Instances of TransmitPath for TLC. *)
EXTENDS TransmitPath

CONSTANTS a1, a2

\* The counters start just below the wrap; the invariants only read
\* differences, so that other starting points add nothing.
MCInit == Init /\ \A a \in Addrs : heard[a] = CODES - 2

MCFairSpec == MCInit /\ [][Next]_vars /\ Fairness
=============================================================================
