---------------------------- MODULE MCEdgeOutbox ----------------------------
(* Model values for EdgeOutbox. *)
EXTENDS EdgeOutbox

CONSTANTS s1, s2

OneSession == {s1}
TwoSessions == {s1, s2}
=============================================================================
