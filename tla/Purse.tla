------------------------------- MODULE Purse -------------------------------
(***************************************************************************)
(* What the billing ledger promises about one account, whatever lots and   *)
(* wallets it is made of: a balance, and for each usage key a charge that  *)
(* is reserved, then either settled or refunded.                           *)
(***************************************************************************)
EXTENDS Integers, Functions

CONSTANTS Keys, Reusable

VARIABLES balance, state, charge

States == {"none", "reserved", "settled", "refunded"}

Spent == SumFunction(charge)

\* The steps a key may take. Settled is final; a refunded key starts again
\* only for a workflow that reuses its keys.
MayBecome(k, before, after) ==
    \/ before = "none" /\ after = "reserved"
    \/ before = "reserved" /\ after \in {"settled", "refunded"}
    \/ before = "refunded" /\ after = "reserved" /\ k \in Reusable

Init == /\ balance = 0
        /\ state = [k \in Keys |-> "none"]
        /\ charge = [k \in Keys |-> 0]

\* Keys are reserved, settled or refunded. What the keys are charged more, the
\* balance loses, and nothing else changes the balance.
Charge ==
    /\ state' # state
    /\ state' \in [Keys -> States]
    /\ charge' \in [Keys -> Nat]
    /\ \A k \in Keys :
          \/ state'[k] = state[k] /\ charge'[k] = charge[k]
          \/ MayBecome(k, state[k], state'[k])
    /\ \A k \in Keys : state'[k] = "refunded" => charge'[k] = 0
    /\ balance' + SumFunction(charge') = balance + Spent

\* Payments, grants, their refunds and corrections change the balance and
\* leave every charge alone.
Deposit == balance' \in Int /\ UNCHANGED <<state, charge>>

Next == Charge \/ Deposit

Spec == Init /\ [][Next]_<<balance, state, charge>>
=============================================================================
