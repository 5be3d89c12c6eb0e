--------------------------- MODULE MCSmartCharge ---------------------------
(* Six planner slots, three hours of two; market curves with the cheap     *)
(* slots at either end and in the middle.                                  *)
EXTENDS SmartCharge

Row(readyBy, target, unit, enabled, vehicles) ==
    [readyBy |-> readyBy, target |-> target, unit |-> unit,
     enabled |-> enabled, vehicles |-> vehicles]

MCPlans == {Row(12, 8, "pct", TRUE, {}), Row(7, 5, "pct", TRUE, {"car"}),
            Row(9, 4, "kwh", TRUE, {"guest"}), Row(5, 3, "kwh", FALSE, {})}
MCQuarters == {[p \in 0..5 |-> IF p \in S THEN 1 ELSE 2 + (p % 2)] : S \in {{0, 1}, {2}, {3, 5}}}
MCHistory == [h \in {0, 2} |-> 3 - h]
=============================================================================
