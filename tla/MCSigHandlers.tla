--------------------------- MODULE MCSigHandlers ---------------------------
(* Model values for SigHandlers.                                           *)
EXTENDS SigHandlers, TLC

CONSTANTS a, b, h1, h2, h3

MCSignals == {a, b}
MCHandlers == {h1, h2, h3}
MCSymmetry == Permutations(MCSignals) \cup Permutations(MCHandlers)
=============================================================================
