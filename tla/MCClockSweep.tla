---------------------------- MODULE MCClockSweep ----------------------------
(***************************************************************************)
(* Model-checking instance of ClockSweep: one file, three frames.          *)
(***************************************************************************)
EXTENDS ClockSweep

CONSTANTS F1

MCFiles   == {F1}
MCPageNos == 1 .. 3

=============================================================================
