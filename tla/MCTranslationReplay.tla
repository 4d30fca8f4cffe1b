-------------------------- MODULE MCTranslationReplay --------------------------
(* Instances of TranslationReplay for TLC. *)
EXTENDS TranslationReplay, TLC

CONSTANTS w1, w2, w3
TwoWorkers == {w1, w2}
ThreeWorkers == {w1, w2, w3}
WorkerSymmetry == Permutations(Workers)
=============================================================================
