----------------------------- MODULE RequestClaim -----------------------------
(***************************************************************************)
(* What the durable row of one translation request promises to those who   *)
(* serve the request, whatever attempts, timeouts and retention it takes:  *)
(* one owner at a time, an owner's outcome or none, and once the request   *)
(* is paid for nobody owns it again.                                       *)
(***************************************************************************)
CONSTANT Workers

VARIABLES state, owners

States == {"none", "held", "failed", "paid"}

Init == state = "none" /\ owners = {}

\* A request nobody serves and nobody has paid for is taken up, also after a
\* failure and after an owner that left without a word.
Own(w) ==
    /\ owners = {} /\ state # "paid"
    /\ state' = "held" /\ owners' = {w}

\* The owner gives the claim back, fails, is paid, or dies with the claim held.
Leave(w) ==
    /\ w \in owners
    /\ owners' = {} /\ state' \in States

\* The trace of a failure does not last. That of a payment does.
Forget ==
    /\ state = "failed" /\ state' = "none"
    /\ UNCHANGED owners

Next == Forget \/ \E w \in Workers : Own(w) \/ Leave(w)

Spec == Init /\ [][Next]_<<state, owners>>
=============================================================================
