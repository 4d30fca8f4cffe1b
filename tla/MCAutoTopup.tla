----------------------------- MODULE MCAutoTopup -----------------------------
(* Instances of AutoTopup for TLC. *)
EXTENDS AutoTopup

CONSTANTS w1, w2
TwoWorkers == {w1, w2}
=============================================================================
