-------------------------- MODULE MCTemperatureObj --------------------------
(***************************************************************************)
(* TemperatureObj with three scans: two good ones, whose samples mix into  *)
(* readings neither of them has, and one without a reference voltage.      *)
(***************************************************************************)
EXTENDS TemperatureObj

CONSTANTS other, half    \* whole and half-written application types

MCScans == {[vref |-> 1, temp |-> 1], [vref |-> 2, temp |-> 2], [vref |-> 0, temp |-> 1]}
MCTemperature ==
    [v \in 0 .. 2 |-> [t \in 1 .. 2 |-> IF v = 0 THEN NaN ELSE 3 * t - 2 * v]]
=============================================================================
