----------------------------- MODULE MCServices -----------------------------
(* A tariff from osc.yaml and a meter that comes and goes.                 *)
EXTENDS Services

MCFile == [e \in {"tariff", "meter"} |-> IF e = "tariff" THEN "zone3" ELSE "none"]
=============================================================================
