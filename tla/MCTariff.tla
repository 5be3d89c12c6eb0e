------------------------------ MODULE MCTariff ------------------------------
(* A timer set over the night of a clock change fires a unit off.          *)
EXTENDS Tariff

MCShifts == {-1, 0, 1}
=============================================================================
