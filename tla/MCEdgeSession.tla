--------------------------- MODULE MCEdgeSession ---------------------------
(* Model values for EdgeSession. *)
EXTENDS EdgeSession

CONSTANTS s1

OneSession == {s1}
=============================================================================
