--------------------------- MODULE BillingLedger ---------------------------
(***************************************************************************)
(* One customer account of the billing ledger: the wallet, the grant lots, *)
(* the usage rows and, per usage row and lot, the net of the ledger rows   *)
(* (balance_transactions) that moved money between them.                   *)
(*                                                                         *)
(* Every mutation of backend/internal/billing first takes the row lock of  *)
(* the account (lockAccountForUserTx), works in one database transaction   *)
(* and commits or rolls back as a whole: one action is one transaction.    *)
(* Amounts are integers, so the code's balanceEpsilon is zero.             *)
(***************************************************************************)
EXTENDS Integers, FiniteSets, Functions

CONSTANTS
    Keys,        \* idempotency keys of usage rows
    Durable,     \* the keys whose workflow sets ReuseRefundedReservation
    Payments,    \* Stripe object ids of top-ups
    NoPayment,   \* a lot that no payment brought
    NoKey,       \* the absent second record of a batch
    Charges,     \* prices a usage record may have
    TopUps,      \* amounts a payment may credit
    Bonuses,     \* amounts of the bonus that comes with a payment
    Gifts,       \* amounts a promotion or an administrator may grant
    Routes,      \* funding routes sessions run on
    Policies,    \* balance policies snapshotted with a reservation
    Adjustments, \* amounts an administrator adjusts the wallet by
    MaxAdjusted, \* how far the adjustments may add up (bound)
    Horizon,     \* last value of the clock (bound)
    ReturnTerm,  \* lifetime of the lot that replaces an expired one
    MaxLots,     \* grant lots that can be created (bound)
    MaxPosts     \* transactions that can touch one usage row (bound)

AllRoutes   == {"open", "paid", "discounted"}
AllPolicies == {"free", "strict", "overdraft"}

ASSUME KeysAssumption     == Durable \subseteq Keys /\ NoKey \notin Keys
ASSUME PaymentsAssumption == NoPayment \notin Payments
ASSUME FiniteAssumption   == IsFiniteSet(Keys) /\ IsFiniteSet(Payments)
ASSUME AmountsAssumption  == /\ Charges \subseteq Nat
                             /\ TopUps  \subseteq Nat \ {0}
                             /\ Bonuses \subseteq Nat
                             /\ Gifts   \subseteq Nat \ {0}
                             /\ Adjustments \subseteq Int \ {0}
ASSUME KindsAssumption    == Routes \subseteq AllRoutes /\ Policies \subseteq AllPolicies
ASSUME BoundsAssumption   == /\ Horizon \in Nat
                             /\ ReturnTerm \in Nat \ {0}
                             /\ MaxLots \in Nat
                             /\ MaxPosts \in Nat
                             /\ MaxAdjusted \in Nat

VARIABLES
    wallet,      \* billing_accounts.wallet_usd, negative in overdraft
    lots,        \* grants: [Lots -> Lot]; lot numbers are creation order
    opened,      \* how many lots exist: 1..opened
    usage,       \* usage_logs by idempotency key
    posted,      \* balance_transactions of a usage row on a lot: their net
                 \*   debit, and the transaction that wrote the first of them
    lifetime,    \* billing_accounts.lifetime_charged_usd
    payments,    \* payments: what each credited and how much was refunded
    adjusted,    \* the sum of the admin_adjustment ledger rows
    suspended,   \* billing_accounts.status = 'suspended'
    now          \* the clock grants expire by

vars == <<wallet, lots, opened, usage, posted, lifetime, payments, adjusted, suspended, now>>

-----------------------------------------------------------------------------
(* Data                                                                    *)

Lots    == 1..MaxLots
Forever == Horizon + 1     \* an expiry the clock never reaches

Lot == [funding: {"none", "gift", "paid"}, remaining: Nat, expires: Nat,
        payment: Payments \cup {NoPayment}]

NoLot == [funding |-> "none", remaining |-> 0, expires |-> 0, payment |-> NoPayment]

UsageRow == [state: {"none", "reserved", "settled", "refunded"},
             charge: Nat, grant: Nat, gift: Nat, wallet: Nat,
             route: AllRoutes, policy: AllPolicies, posts: Nat]

NoUsage == [state |-> "none", charge |-> 0, grant |-> 0, gift |-> 0, wallet |-> 0,
            route |-> "open", policy |-> "strict", posts |-> 0]

NoPost == [net |-> 0, first |-> 0]

Least(a, b)   == IF a <= b THEN a ELSE b
Surplus(a, b) == IF a <= b THEN 0 ELSE a - b

-----------------------------------------------------------------------------
(* Debit: debitAccountTx                                                   *)
(*                                                                         *)
(* "b" is the account a statement of the transaction works on: the wallet  *)
(* and what remains in each lot. The loop over the open lots, gift first   *)
(* and earliest expiry first, takes from a lot what the lots ahead of it   *)
(* left uncovered; the wallet pays the rest.                               *)

Open(g) == g <= opened /\ lots[g].expires > now

SpentBefore(g, h) ==
    \/ lots[g].funding = "gift" /\ lots[h].funding = "paid"
    \/ /\ lots[g].funding = lots[h].funding
       /\ \/ lots[g].expires < lots[h].expires
          \/ lots[g].expires = lots[h].expires /\ g < h

Spendable(paidOnly) ==
    {g \in Lots : Open(g) /\ (paidOnly => lots[g].funding = "paid")}

Taken(b, amount, paidOnly) ==
    LET spendable == Spendable(paidOnly)
        ahead(g)  == SumFunctionOnSet(b.left, {h \in spendable : SpentBefore(h, g)})
    IN  [g \in Lots |-> IF g \in spendable
                        THEN Least(b.left[g], Surplus(amount, ahead(g)))
                        ELSE 0]

FromGrants(b, amount, paidOnly) == Least(amount, SumFunctionOnSet(b.left, Spendable(paidOnly)))

\* Mutant: paid bonuses are booked as gift money.
FromGiftsAndBonuses(b, amount, paidOnly) ==
    IF paidOnly THEN 0 ELSE FromGrants(b, amount, paidOnly)

FromGifts(b, amount, paidOnly) ==
    IF paidOnly
    THEN 0
    ELSE Least(FromGrants(b, amount, paidOnly),
               SumFunctionOnSet(b.left, {g \in Spendable(FALSE) : lots[g].funding = "gift"}))

\* Mutant: the check counts gift lots that the debit will not touch.
CoveredWithGifts(b, amount, paidOnly, allowNegative) ==
    \/ amount = 0
    \/ allowNegative
    \/ amount <= b.wallet + SumFunctionOnSet(b.left, Spendable(FALSE))

Covered(b, amount, paidOnly, allowNegative) ==
    \/ amount = 0
    \/ allowNegative
    \/ amount <= b.wallet + SumFunctionOnSet(b.left, Spendable(paidOnly))

Debited(b, amount, paidOnly) ==
    LET taken == Taken(b, amount, paidOnly)
    IN  [wallet |-> b.wallet - (amount - FromGrants(b, amount, paidOnly)),
         left   |-> [g \in Lots |-> b.left[g] - taken[g]]]

Books == [wallet |-> wallet, left |-> [g \in Lots |-> lots[g].remaining]]

\* Mutant: what a lot paid for an earlier reservation of the key is forgotten.
PostTakenAnew(rows, b, amount, paidOnly, stamp) ==
    LET taken == Taken(b, amount, paidOnly)
    IN  [g \in Lots |->
            IF taken[g] = 0 THEN rows[g] ELSE [net |-> taken[g], first |-> stamp]]

\* The ledger rows a debit inserts for a usage row, one per lot touched.
PostTaken(rows, b, amount, paidOnly, stamp) ==
    LET taken == Taken(b, amount, paidOnly)
    IN  [g \in Lots |->
            IF taken[g] = 0
            THEN rows[g]
            ELSE [net   |-> rows[g].net + taken[g],
                  first |-> IF rows[g].first = 0 THEN stamp ELSE rows[g].first]]

-----------------------------------------------------------------------------
(* Refund: creditUsageRefundTx                                             *)
(*                                                                         *)
(* The grant part goes back to the lots whose ledger rows say they paid,   *)
(* the ones first touched last coming first; SQL leaves lots first touched *)
(* by one transaction in an order of its own ("up"). A lot that expired    *)
(* meanwhile is replaced by a new one; what no lot accounts for goes to    *)
(* the wallet.                                                             *)

\* Mutant: only lots that are still open are asked what they paid.
OwedToOpenLots(k, g) == IF lots[g].expires > now THEN Surplus(posted[k][g].net, 0) ELSE 0

Owed(k, g) == Surplus(posted[k][g].net, 0)

RestoredBefore(k, g, h, up) ==
    \/ posted[k][g].first > posted[k][h].first
    \/ posted[k][g].first = posted[k][h].first /\ (IF up THEN g < h ELSE h < g)

Restored(k, amount, up) ==
    LET owed == [g \in Lots |-> Owed(k, g)]
    IN  [g \in Lots |->
            Least(owed[g],
                  Surplus(amount, SumFunctionOnSet(owed, {h \in Lots : RestoredBefore(k, h, g, up)})))]

Untraceable(k, amount) == Surplus(amount, SumFunctionOnSet([g \in Lots |-> Owed(k, g)], Lots))

\* Mutant: a lot expires a moment after it can no longer be spent.
LapsedLate(k, amount, up) ==
    LET restored == Restored(k, amount, up)
    IN  {g \in Lots : restored[g] > 0 /\ lots[g].expires < now}

\* The lots a refund cannot be put back into.
Lapsed(k, amount, up) ==
    LET restored == Restored(k, amount, up)
    IN  {g \in Lots : restored[g] > 0 /\ lots[g].expires <= now}

\* The new lots that replace them: the number of each, and what it replaces.
Replaced(k, amount, up) ==
    LET lapsed == Lapsed(k, amount, up)
        number(g) == opened + Cardinality({h \in lapsed : h = g \/ RestoredBefore(k, h, g, up)})
    IN  [g \in {number(h) : h \in lapsed} |-> CHOOSE h \in lapsed : number(h) = g]

RestoredLots(k, amount, up) ==
    LET restored == Restored(k, amount, up)
        lapsed   == Lapsed(k, amount, up)
        replaced == Replaced(k, amount, up)
    IN  [g \in Lots |->
            IF g \in DOMAIN replaced
            THEN [funding   |-> lots[replaced[g]].funding,
                  remaining |-> restored[replaced[g]],
                  expires   |-> now + ReturnTerm,
                  payment   |-> NoPayment]
            ELSE IF g \in lapsed
            THEN lots[g]
            ELSE [lots[g] EXCEPT !.remaining = @ + restored[g]]]

PostRestored(k, amount, up, stamp) ==
    LET restored == Restored(k, amount, up)
        lapsed   == Lapsed(k, amount, up)
        replaced == Replaced(k, amount, up)
    IN  [g \in Lots |->
            IF g \in DOMAIN replaced
            THEN [net |-> 0 - restored[replaced[g]], first |-> stamp]
            ELSE IF g \in lapsed
            THEN posted[k][g]
            ELSE [posted[k][g] EXCEPT !.net = @ - restored[g]]]

GiftReturned(k, amount, up) ==
    SumFunctionOnSet(Restored(k, amount, up), {g \in Lots : lots[g].funding = "gift"})

\* The whole of creditUsageRefundTx, for "fromGrants" and "fromWallet".
CreditUsageRefund(k, fromGrants, fromWallet, up) ==
    /\ opened + Cardinality(Lapsed(k, fromGrants, up)) <= MaxLots
    /\ wallet' = wallet + fromWallet + Untraceable(k, fromGrants)
    /\ lots' = RestoredLots(k, fromGrants, up)
    /\ opened' = opened + Cardinality(Lapsed(k, fromGrants, up))
    /\ posted' = [posted EXCEPT ![k] = PostRestored(k, fromGrants, up, usage[k].posts + 1)]
    /\ lifetime' = Surplus(lifetime, fromGrants + fromWallet)

-----------------------------------------------------------------------------
(* Usage reservations                                                      *)

\* Mutant: a durable workflow may also take a settled key again.
FreshOnceEnded(k) ==
    \/ usage[k].state = "none"
    \/ usage[k].state # "reserved" /\ k \in Durable

\* The record debits the account: its key is new, or its reservation was
\* refunded and the workflow may take it again.
Fresh(k) ==
    \/ usage[k].state = "none"
    \/ usage[k].state = "refunded" /\ k \in Durable

Due(k, charge, policy) ==
    IF k # NoKey /\ Fresh(k) /\ policy # "free" THEN charge ELSE 0

ReservedRow(k, b, amount, paidOnly, route, policy) ==
    [state  |-> "reserved",
     charge |-> amount,
     grant  |-> FromGrants(b, amount, paidOnly),
     gift   |-> FromGifts(b, amount, paidOnly),
     wallet |-> amount - FromGrants(b, amount, paidOnly),
     route  |-> route,
     policy |-> policy,
     posts  |-> usage[k].posts + 1]

\* ReserveUsageTx of the record k and, unless it is NoKey, of the add-on a
\* that the same provider operation needs. Both are debited or neither is. A
\* key already reserved or settled is a duplicate and is not debited again.
\* An add-on is no transcription, so any money may pay for it.
ReserveUsage(k, charge, route, a, extra, policy) ==
    LET paidOnly == route = "discounted"
        due1     == Due(k, charge, policy)
        due2     == Due(a, extra, policy)
        b1       == Debited(Books, due1, paidOnly)
        b2       == Debited(b1, due2, FALSE)
        debits1  == Fresh(k)
        debits2  == a # NoKey /\ Fresh(a)
    IN  /\ a # k
        /\ debits1 \/ debits2
        /\ debits1 => usage[k].posts + 2 <= MaxPosts
        /\ debits2 => usage[a].posts + 2 <= MaxPosts
        /\ Covered(Books, due1, paidOnly, policy = "overdraft")
        /\ Covered(b1, due2, FALSE, policy = "overdraft")
        /\ wallet' = b2.wallet
        /\ lots' = [g \in Lots |-> [lots[g] EXCEPT !.remaining = b2.left[g]]]
        /\ usage' = [x \in Keys |->
              IF x = k /\ debits1
              THEN ReservedRow(k, Books, due1, paidOnly, route, policy)
              ELSE IF x = a /\ debits2
              THEN ReservedRow(a, b1, due2, FALSE, "open", policy)
              ELSE usage[x]]
        /\ posted' = [x \in Keys |->
              IF x = k /\ debits1
              THEN PostTaken(posted[k], Books, due1, paidOnly, usage[k].posts + 1)
              ELSE IF x = a /\ debits2
              THEN PostTaken(posted[a], b1, due2, FALSE, usage[a].posts + 1)
              ELSE posted[x]]
        /\ lifetime' = lifetime + due1 + due2
        /\ UNCHANGED <<opened, payments, adjusted, suspended, now>>

\* settleUsageTx when the provider used more than was reserved.
SettleHigher(k, charge) ==
    LET row      == usage[k]
        extra    == charge - row.charge
        paidOnly == row.route # "open"
    IN  /\ charge > row.charge
        /\ Covered(Books, extra, paidOnly, row.policy = "overdraft")
        /\ wallet' = Debited(Books, extra, paidOnly).wallet
        /\ lots' = [g \in Lots |->
              [lots[g] EXCEPT !.remaining = Debited(Books, extra, paidOnly).left[g]]]
        /\ usage' = [usage EXCEPT ![k] =
              [row EXCEPT !.state  = "settled",
                          !.charge = charge,
                          !.grant  = @ + FromGrants(Books, extra, paidOnly),
                          !.gift   = @ + FromGifts(Books, extra, paidOnly),
                          !.wallet = @ + (extra - FromGrants(Books, extra, paidOnly)),
                          !.posts  = @ + 1]]
        /\ posted' = [posted EXCEPT ![k] = PostTaken(@, Books, extra, paidOnly, row.posts + 1)]
        /\ lifetime' = lifetime + extra
        /\ UNCHANGED <<opened, payments, adjusted, suspended, now>>

\* settleUsageTx when the account cannot cover the difference and the result
\* was already delivered: the reservation is what the customer pays.
SettleAbsorbed(k, charge) ==
    /\ charge > usage[k].charge
    /\ ~Covered(Books, charge - usage[k].charge, usage[k].route # "open",
                usage[k].policy = "overdraft")
    /\ usage' = [usage EXCEPT ![k].state = "settled", ![k].posts = @ + 1]
    /\ UNCHANGED <<wallet, lots, opened, posted, lifetime, payments, adjusted, suspended, now>>

WalletPart(row, refund) == Least(row.wallet, refund)
GrantPart(row, refund)  == Least(refund - WalletPart(row, refund), row.grant)

\* settleUsageTx when the provider used what was reserved, or less: the
\* wallet's part goes back first.
SettleLower(k, charge) ==
    LET row        == usage[k]
        refund     == row.charge - charge
        fromWallet == WalletPart(row, refund)
        fromGrants == GrantPart(row, refund)
    IN  /\ charge <= row.charge
        /\ \E up \in BOOLEAN :
              /\ CreditUsageRefund(k, fromGrants, fromWallet, up)
              /\ usage' = [usage EXCEPT ![k] =
                    [row EXCEPT !.state  = "settled",
                                !.charge = charge,
                                !.grant  = @ - fromGrants,
                                !.gift   = Surplus(@, GiftReturned(k, fromGrants, up)),
                                !.wallet = @ - fromWallet,
                                !.posts  = @ + 1]]
        /\ UNCHANGED <<payments, adjusted, suspended, now>>

\* SettleUsageReservation: a reservation is settled once, never after a refund.
SettleUsage(k, actual) ==
    LET charge == IF usage[k].policy = "free" THEN 0 ELSE actual
    IN  /\ usage[k].state = "reserved"
        /\ \/ SettleHigher(k, charge)
           \/ SettleAbsorbed(k, charge)
           \/ SettleLower(k, charge)

\* RefundUsage: reverses a reservation that was not settled.
RefundUsage(k) ==
    /\ usage[k].state = "reserved"
    /\ \E up \in BOOLEAN : CreditUsageRefund(k, usage[k].grant, usage[k].wallet, up)
    /\ usage' = [usage EXCEPT ![k] =
          [usage[k] EXCEPT !.state = "refunded", !.charge = 0, !.grant = 0, !.wallet = 0,
                           !.posts = @ + 1]]
    /\ UNCHANGED <<payments, adjusted, suspended, now>>

-----------------------------------------------------------------------------
(* Money that enters and leaves the account                                *)

NewLot(funding, amount, expires, payment) ==
    [funding |-> funding, remaining |-> amount, expires |-> expires, payment |-> payment]

\* AddGrant, GrantTrialCredit and the promotion rewards: one more lot.
AddGrant(funding, amount, expires) ==
    /\ expires > now
    /\ opened < MaxLots
    /\ opened' = opened + 1
    /\ lots' = [lots EXCEPT ![opened + 1] = NewLot(funding, amount, expires, NoPayment)]
    /\ UNCHANGED <<wallet, usage, posted, lifetime, payments, adjusted, suspended, now>>

\* RecordTopup: once per Stripe object. The bonus is a paid lot; the first
\* payment may also bring the reward of a promotion, a gift.
RecordTopup(p, amount, bonus, reward, expires) ==
    LET more == (IF bonus > 0 THEN 1 ELSE 0) + (IF reward > 0 THEN 1 ELSE 0)
    IN  /\ payments[p].paid = 0
        /\ reward > 0 => \A q \in Payments : payments[q].paid = 0
        /\ expires > now
        /\ opened + more <= MaxLots
        /\ payments' = [payments EXCEPT ![p].paid = amount]
        /\ wallet' = wallet + amount
        /\ opened' = opened + more
        /\ lots' = [g \in Lots |->
              IF bonus > 0 /\ g = opened + 1
              THEN NewLot("paid", bonus, expires, p)
              ELSE IF reward > 0 /\ g = opened + more
              THEN NewLot("gift", reward, expires, p)
              ELSE lots[g]]
        /\ UNCHANGED <<usage, posted, lifetime, adjusted, suspended, now>>

\* recordPaymentRefund of the cumulative total that charge.refunded reports:
\* an old or repeated total moves nothing. What is left of the lots that came
\* with the payment is revoked, and the wallet may go below zero.
RecordChargeRefund(p, total) ==
    LET delta == Surplus(Least(total, payments[p].paid), payments[p].refunded)
    IN  /\ payments[p].paid > 0
        /\ delta > 0
        /\ payments' = [payments EXCEPT ![p].refunded = @ + delta]
        /\ lots' = [g \in Lots |->
              IF lots[g].payment = p THEN [lots[g] EXCEPT !.remaining = 0] ELSE lots[g]]
        /\ wallet' = wallet - delta
        /\ suspended' = (suspended \/ wallet - delta < 0)
        /\ UNCHANGED <<opened, usage, posted, lifetime, adjusted, now>>

\* AdjustWallet: an administrator's correction, below zero only when forced.
AdjustWallet(amount, allowNegative) ==
    /\ amount < 0 /\ ~allowNegative => wallet + amount >= 0
    /\ adjusted + amount \in (0 - MaxAdjusted)..MaxAdjusted
    /\ wallet' = wallet + amount
    /\ adjusted' = adjusted + amount
    /\ UNCHANGED <<lots, opened, usage, posted, lifetime, payments, suspended, now>>

Tick == /\ now < Horizon
        /\ now' = now + 1
        /\ UNCHANGED <<wallet, lots, opened, usage, posted, lifetime, payments, adjusted, suspended>>

-----------------------------------------------------------------------------
Init ==
    /\ wallet = 0
    /\ lots = [g \in Lots |-> NoLot]
    /\ opened = 0
    /\ usage = [k \in Keys |-> NoUsage]
    /\ posted = [k \in Keys |-> [g \in Lots |-> NoPost]]
    /\ lifetime = 0
    /\ payments = [p \in Payments |-> [paid |-> 0, refunded |-> 0]]
    /\ adjusted = 0
    /\ suspended = FALSE
    /\ now = 0

Reserve == \E k \in Keys, a \in Keys \cup {NoKey}, route \in Routes, policy \in Policies :
              \E charge \in Charges, extra \in IF a = NoKey THEN {0} ELSE Charges :
                  ReserveUsage(k, charge, route, a, extra, policy)
Settle  == \E k \in Keys, actual \in Charges : SettleUsage(k, actual)
Refund  == \E k \in Keys : RefundUsage(k)
Topup   == \E p \in Payments, amount \in TopUps, bonus \in Bonuses, reward \in Gifts \cup {0} :
              \E expires \in (now + 1)..Forever : RecordTopup(p, amount, bonus, reward, expires)
PaymentRefund == \E p \in Payments, total \in TopUps : RecordChargeRefund(p, total)
Grant   == \E amount \in Gifts, expires \in (now + 1)..Forever : AddGrant("gift", amount, expires)

Adjust  == \E amount \in Adjustments, allowNegative \in BOOLEAN : AdjustWallet(amount, allowNegative)

Next == Reserve \/ Settle \/ Refund \/ Topup \/ PaymentRefund \/ Grant \/ Adjust \/ Tick

Spec == Init /\ [][Next]_vars

-----------------------------------------------------------------------------
(* Safety                                                                  *)

TypeOK ==
    /\ wallet \in Int
    /\ lots \in [Lots -> Lot]
    /\ opened \in 0..MaxLots
    /\ \A g \in Lots : g > opened => lots[g].funding = "none"
    /\ usage \in [Keys -> UsageRow]
    /\ posted \in [Keys -> [Lots -> [net: Int, first: Nat]]]
    /\ lifetime \in Nat
    /\ payments \in [Payments -> [paid: Nat, refunded: Nat]]
    /\ adjusted \in Int
    /\ suspended \in BOOLEAN
    /\ now \in Nat

\* Whatever is reserved, topped up by a settlement or returned by one, what
\* the customer is charged for a usage row is what grants and wallet paid.
ChargeSplit == \A k \in Keys : usage[k].charge = usage[k].grant + usage[k].wallet

\* No refund or settlement turns a grant into cash, and no cash is lost: the
\* wallet is what was paid in and adjusted, less what usage rows took from it.
WalletIsCash ==
    wallet = adjusted
             + SumFunction([p \in Payments |-> payments[p].paid - payments[p].refunded])
             - SumFunction([k \in Keys |-> usage[k].wallet])

\* The rows of balance_transactions account for every usage row: what they say
\* the lots paid is its grant part.
LedgerMatchesUsage ==
    \A k \in Keys : SumFunction([g \in Lots |-> posted[k][g].net]) = usage[k].grant

\* Money keeps its funding class through refunds, replacements and settlements:
\* what gift lots paid for a row is its gift part, and nothing once refunded
\* ("so gift money stays gift", creditUsageRefundTx). Not so for a key that is
\* reserved again: the rows of a lot that expired still say that it paid, after
\* its replacement was refunded, and the next refund may go to it.
GiftStaysGift ==
    \A k \in Keys \ Durable :
        SumFunctionOnSet([g \in Lots |-> posted[k][g].net],
                         {g \in Lots : lots[g].funding = "gift"})
          = IF usage[k].state = "refunded" THEN 0 ELSE usage[k].gift

\* Once a payment was refunded in full, nothing that came with it can be
\* spent ("a bonus can never outlive its payment", promotion.go).
BonusDiesWithPayment ==
    \A p \in Payments :
        payments[p].paid > 0 /\ payments[p].refunded = payments[p].paid
            => \A g \in Lots : lots[g].payment = p /\ lots[g].expires > now
                                   => lots[g].remaining = 0

-----------------------------------------------------------------------------
(* What a step may never do                                                *)

\* The wallet falls below zero only where somebody decided it may: a payment
\* was refunded, an administrator adjusted it, or the row was reserved under
\* allow_negative_balance. No settlement of a strict reservation and no batch
\* whose records are affordable one by one overdraws it.
NoUnsanctionedDebt ==
    [][wallet' < wallet /\ wallet' < 0
          => \/ payments' # payments
             \/ adjusted' # adjusted
             \/ \E k \in Keys : usage'[k] # usage[k] /\ usage'[k].policy = "overdraft"]_vars

\* "Discounted prices must never fall back to gift balance" (debitAccountTx):
\* neither the reservation nor a later settlement of a discounted row, nor a
\* reuse of it, takes from a gift lot.
DiscountSparesGifts ==
    [][\A k \in Keys, g \in Lots :
          usage'[k].route = "discounted" /\ lots[g].funding = "gift"
              => posted'[k][g].net <= posted[k][g].net]_vars

\* Money returned to a customer can be spent: no refund lands in a lot that
\* has expired, however long the reservation was held.
RefundIsSpendable ==
    [][\A g \in Lots : lots'[g].remaining > lots[g].remaining => lots'[g].expires > now']_vars

\* A settled row is final, and a refunded one is taken again only for a durable
\* workflow: no late settlement, late refund or duplicate reservation moves
\* money for it a second time.
EndedIsFinal ==
    [][\A k \in Keys :
          (usage[k].state = "settled" \/ (usage[k].state = "refunded" /\ k \notin Durable))
              => usage'[k] = usage[k] /\ posted'[k] = posted[k]]_vars

-----------------------------------------------------------------------------
(* What the ledger promises                                                *)

\* Expired lots are the customer's money too: they cannot be spent, but a
\* refund brings back what they paid.
P == INSTANCE Purse WITH
        Reusable <- Durable,
        balance  <- wallet + SumFunction([g \in Lots |-> lots[g].remaining]),
        state    <- [k \in Keys |-> usage[k].state],
        charge   <- [k \in Keys |-> usage[k].charge]

\* The ledger implements the abstract purse: a reservation, settlement or
\* refund moves exactly the change of the charge, whichever lots it goes
\* through, and both records of a batch are charged or none is.
ImplementsPurse == P!Spec
=============================================================================
