--------------------------- MODULE MCStripeWebhook ---------------------------
(* Instances of StripeWebhook for TLC. *)
EXTENDS StripeWebhook

CONSTANTS h1, h2
TwoHandlers == {h1, h2}

(* Stripe's deliveries at their worst; and one at a time, in order, with      *)
(* failures and lost answers only.                                           *)
Chaos == [handlers |-> {h1, h2}, faults |-> AllFaults, ordered |-> FALSE, calm |-> FALSE,
          events |-> 4, errors |-> 1]
Orderly == [handlers |-> {h1}, faults |-> {"error", "lost_reply"}, ordered |-> TRUE, calm |-> TRUE,
            events |-> 8, errors |-> 2]
Worlds == {Chaos, Orderly}
=============================================================================
