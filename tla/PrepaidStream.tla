---------------------------- MODULE PrepaidStream ----------------------------
(***************************************************************************)
(* What one grant to stream promises to the account that pays for it: audio *)
(* is sent only within what was paid, the bill is what was sent and comes   *)
(* once, what was paid beyond it goes back, and then no audio is sent and   *)
(* no money moves, ever.                                                    *)
(***************************************************************************)
EXTENDS Integers

VARIABLES
  paid,         \* what the account is out of pocket, in units of audio
  sent,         \* what the provider was given
  billed        \* the account is settled

Init == paid = 0 /\ sent = 0 /\ billed = FALSE

Pay ==
    /\ ~billed /\ paid' \in Nat /\ paid' > paid
    /\ UNCHANGED <<sent, billed>>

Send ==
    /\ ~billed /\ sent' \in Nat /\ sent < sent' /\ sent' <= paid
    /\ UNCHANGED <<paid, billed>>

Bill ==
    /\ ~billed /\ billed' = TRUE
    /\ paid' = sent /\ sent' = sent

Next == Pay \/ Send \/ Bill

Spec == Init /\ [][Next]_<<paid, sent, billed>>
=============================================================================
