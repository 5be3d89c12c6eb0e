--------------------------- MODULE MCCircuitLoop ---------------------------
(* The ceilings of the loadpoints, and the worst-case loads on record.     *)
EXTENDS CircuitLoop

MCMaxA == <<5, 4>>
MCWorsts == {2}
=============================================================================
