------------------------------- MODULE MCWire -------------------------------
(* Both ends of the tables and the numbers just behind them.               *)
EXTENDS Wire

MCSamples == {0, 1, 2, 10, 27, 30, 35, 36, 44, 45, 46, 335, 447, 448, 451}
=============================================================================
