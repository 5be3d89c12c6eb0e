--------------------------- MODULE MCCircuitTick ---------------------------
(* The ceilings of the two loadpoints.                                     *)
EXTENDS CircuitTick

MCMaxA == <<5, 4>>
=============================================================================
