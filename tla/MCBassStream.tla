---------------------------- MODULE MCBassStream ----------------------------
(***************************************************************************)
(* BassStream with floats of four binary digits: all numbers below 16 are  *)
(* floats, above them every second one, above 32 every fourth ...          *)
(***************************************************************************)
EXTENDS BassStream

MCMinima == {0, 60, 150}
MCMaxRead == 1
MCTimeout == 1

Small == 5      \* all smaller numbers are floats
Large == 31     \* is not a float; the nearest is 32
=============================================================================
