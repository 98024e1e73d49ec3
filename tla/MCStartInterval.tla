-------------------------- MODULE MCStartInterval --------------------------
(* Instantiates StartInterval with the 1s default scaled down to 1000ns:   *)
(* the algorithm only compares Durations with the default and divides by   *)
(* ten, so Durations around and below 1000 exercise every branch, and the  *)
(* sub-10ns truncation is kept at its real scale.                           *)
EXTENDS StartInterval

MCDefaultTickerInterval == 1000
MCTickerIntervals == {0, 250}
MCDurations == {0, 5, 20, 60, 500, 900, 1000, 3000}
=============================================================================
