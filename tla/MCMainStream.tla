---------------------------- MODULE MCMainStream ----------------------------
(* A user with one session and two connections.                              *)
EXTENDS MainStream

CONSTANTS c1, c2, s1

TwoConns == {c1, c2}
OneSession == {s1}

(* A stream whose client sends audio and which anything may befall; two       *)
(* streams on one session; two without a session, where the plan allows one.  *)
(* Rivals send nothing after the message that starts the recognition, and      *)
(* their calls do not fail.                                                   *)
Audio ==
  [limit |-> 1, conns |-> {c1}, sessions |-> {s1}, frames |-> {1, 3}, translations |-> BOOLEAN,
   ending |-> {c1}, faults |-> 1]
Rivals(limit, session) ==
  [limit |-> limit, conns |-> TwoConns, sessions |-> {session}, frames |-> {}, translations |-> {FALSE},
   ending |-> {c1}, faults |-> 0]
Streams == {Audio, Rivals(2, s1), Rivals(1, NoSession)}

=============================================================================
