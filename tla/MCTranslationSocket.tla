-------------------------- MODULE MCTranslationSocket --------------------------
(* Instances of TranslationSocket for TLC. *)
EXTENDS TranslationSocket

CONSTANTS c1, c2, w1, w2, q1, s1, s2, x1, x2
OneConn == {c1}
TwoConns == {c1, c2}
OneWorker == {w1}
TwoWorkers == {w1, w2}
=============================================================================
