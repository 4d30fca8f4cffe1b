-------------------------- MODULE MCBillingLedger --------------------------
(***************************************************************************)
(* The billing ledger on small instances: the constants of the runs.       *)
(***************************************************************************)
EXTENDS BillingLedger

CONSTANTS k1, k2, p1

\* An administrator takes one unit from the wallet, or gives one.
MCAdjustments == {-1, 1}
=============================================================================
