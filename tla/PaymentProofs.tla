---------------------------- MODULE PaymentProofs ----------------------------
(***************************************************************************)
(* Theorems about money: first the billing ledger, for every number of     *)
(* keys, lots and payments and every set of amounts, then automatic        *)
(* top-ups, for every number of workers, attempts and faults and every     *)
(* setting of the times that TopupAssumption allows.                       *)
(***************************************************************************)
EXTENDS BillingLedger, AutoTopup, Sums, SequenceTheorems

-----------------------------------------------------------------------------
(* The billing ledger                                                      *)

Account == [wallet: Int, left: [Lots -> Nat]]
Posts   == [Lots -> [net: Int, first: Nat]]

-----------------------------------------------------------------------------
(* Operators                                                               *)

\* There are finitely many lots.
LEMMA LotsFinite ==
    ASSUME NEW S \in SUBSET Lots
    PROVE  IsFiniteSet(S)
<1>1. IsFiniteSet(1..MaxLots)
    BY BoundsAssumption, FS_Interval
<1> QED BY <1>1, FS_Subset DEF Lots

\* A sum of natural numbers over lots is one.
LEMMA TotalNat ==
    ASSUME NEW S \in SUBSET Lots, NEW f, \A g \in S : f[g] \in Nat
    PROVE  SumFunctionOnSet(f, S) \in Nat
  BY LotsFinite, SumNat

\* The lots a debit may use.
LEMMA SpendableLots ==
    ASSUME NEW b \in Account, NEW paidOnly \in BOOLEAN
    PROVE  /\ Spendable(paidOnly) \in SUBSET Lots
           /\ \A g \in Spendable(paidOnly) : b.left[g] \in Nat
           /\ SumFunctionOnSet(b.left, Spendable(paidOnly)) \in Nat
<1>1. Spendable(paidOnly) \in SUBSET Lots
    BY DEF Spendable
<1>2. \A g \in Lots : b.left[g] \in Nat
    BY DEF Account
<1> QED BY <1>1, <1>2, TotalNat

\* Surplus is subtraction that stops at zero.
LEMMA SurplusNat ==
    ASSUME NEW a \in Nat, NEW b \in Nat
    PROVE  Surplus(a, b) \in Nat /\ Surplus(a, b) <= a
  BY DEF Surplus

\* The smaller of two natural numbers is one, and is at most either.
LEMMA LeastNat ==
    ASSUME NEW a \in Nat, NEW b \in Nat
    PROVE  Least(a, b) \in Nat /\ Least(a, b) <= a /\ Least(a, b) <= b
  BY DEF Least

\* What a debit takes from a lot is there.
LEMMA TakenBounded ==
    ASSUME NEW b \in Account, NEW amount \in Nat, NEW paidOnly \in BOOLEAN
    PROVE  /\ Taken(b, amount, paidOnly) \in [Lots -> Nat]
           /\ \A g \in Lots : Taken(b, amount, paidOnly)[g] <= b.left[g]
<1> DEFINE ahead(g) == SumFunctionOnSet(b.left, {h \in Spendable(paidOnly) : SpentBefore(h, g)})
<1> SUFFICES ASSUME NEW g \in Lots
             PROVE  LET t == IF g \in Spendable(paidOnly)
                             THEN Least(b.left[g], Surplus(amount, ahead(g)))
                             ELSE 0
                    IN  t \in Nat /\ t <= b.left[g]
    BY DEF Taken
<1>1. b.left[g] \in Nat
    BY DEF Account
<1>2. ahead(g) \in Nat
  <2> DEFINE T == {h \in Spendable(paidOnly) : SpentBefore(h, g)}
  <2>1. T \in SUBSET Lots /\ \A h \in T : b.left[h] \in Nat
    BY SpendableLots
  <2> HIDE DEF T
  <2>2. SumFunctionOnSet(b.left, T) \in Nat
    BY <2>1, TotalNat
  <2> QED BY <2>2 DEF T
<1> HIDE DEF ahead
<1>3. Surplus(amount, ahead(g)) \in Nat
    BY <1>2, SurplusNat
<1>4. Least(b.left[g], Surplus(amount, ahead(g))) \in Nat
      /\ Least(b.left[g], Surplus(amount, ahead(g))) <= b.left[g]
    BY <1>1, <1>3, LeastNat
<1> QED BY <1>1, <1>4

\* The grant part of a debit, and the gift part of it.
LEMMA FromGrantsBounded ==
    ASSUME NEW b \in Account, NEW amount \in Nat, NEW paidOnly \in BOOLEAN
    PROVE  /\ FromGrants(b, amount, paidOnly) \in Nat
           /\ FromGrants(b, amount, paidOnly) <= amount
           /\ FromGifts(b, amount, paidOnly) \in Nat
           /\ paidOnly => FromGifts(b, amount, paidOnly) = 0
<1>1. FromGrants(b, amount, paidOnly) \in Nat /\ FromGrants(b, amount, paidOnly) <= amount
    BY SpendableLots, LeastNat DEF FromGrants
<1>2. CASE paidOnly
    BY <1>1, <1>2 DEF FromGifts
<1>3. CASE ~paidOnly
  <2> DEFINE gifts == SumFunctionOnSet(b.left, {g \in Spendable(FALSE) : lots[g].funding = "gift"})
  <2>1. gifts \in Nat
    <3> DEFINE T == {g \in Spendable(FALSE) : lots[g].funding = "gift"}
    <3>1. T \in SUBSET Lots /\ \A h \in T : b.left[h] \in Nat
      BY SpendableLots
    <3> HIDE DEF T
    <3>2. SumFunctionOnSet(b.left, T) \in Nat
      BY <3>1, TotalNat
    <3> QED BY <3>2 DEF T
  <2>2. FromGifts(b, amount, paidOnly) = Least(FromGrants(b, amount, paidOnly), gifts)
    BY <1>3 DEF FromGifts
  <2> QED BY <1>1, <1>3, <2>1, <2>2, LeastNat
<1> QED BY <1>2, <1>3

\* A debit leaves an account: no lot is overdrawn.
LEMMA DebitedAccount ==
    ASSUME NEW b \in Account, NEW amount \in Nat, NEW paidOnly \in BOOLEAN
    PROVE  /\ Debited(b, amount, paidOnly) \in Account
           /\ Debited(b, amount, paidOnly).wallet
                = b.wallet - (amount - FromGrants(b, amount, paidOnly))
<1> DEFINE taken == Taken(b, amount, paidOnly)
<1>1. taken \in [Lots -> Nat] /\ \A g \in Lots : taken[g] <= b.left[g]
    BY TakenBounded
<1>2. FromGrants(b, amount, paidOnly) \in Nat
    BY FromGrantsBounded
<1>3. b.wallet \in Int /\ b.left \in [Lots -> Nat]
    BY DEF Account
<1> HIDE DEF taken
<1>4. [g \in Lots |-> b.left[g] - taken[g]] \in [Lots -> Nat]
    BY <1>1, <1>3
<1>5. Debited(b, amount, paidOnly)
        = [wallet |-> b.wallet - (amount - FromGrants(b, amount, paidOnly)),
           left   |-> [g \in Lots |-> b.left[g] - taken[g]]]
    BY DEF Debited, taken
<1> QED BY <1>2, <1>3, <1>4, <1>5 DEF Account

\* An affordable debit does not take the wallet below zero.
LEMMA CoveredKeepsWallet ==
    ASSUME NEW b \in Account, NEW amount \in Nat, NEW paidOnly \in BOOLEAN,
           Covered(b, amount, paidOnly, FALSE)
    PROVE  LET after == Debited(b, amount, paidOnly).wallet
           IN  after >= 0 \/ after = b.wallet
<1> DEFINE total == SumFunctionOnSet(b.left, Spendable(paidOnly))
<1>1. total \in Nat /\ b.wallet \in Int
    BY SpendableLots DEF Account
<1>2. FromGrants(b, amount, paidOnly) = Least(amount, total)
    BY DEF FromGrants
<1>3. Debited(b, amount, paidOnly).wallet = b.wallet - (amount - Least(amount, total))
    BY <1>2, DebitedAccount
<1>4. amount = 0 \/ amount <= b.wallet + total
    BY DEF Covered
<1> HIDE DEF total
<1> QED BY <1>1, <1>3, <1>4 DEF Least

\* The ledger rows of a debit.
LEMMA PostTakenType ==
    ASSUME NEW rows \in Posts, NEW b \in Account, NEW amount \in Nat,
           NEW paidOnly \in BOOLEAN, NEW stamp \in Nat
    PROVE  PostTaken(rows, b, amount, paidOnly, stamp) \in Posts
<1> DEFINE taken == Taken(b, amount, paidOnly)
<1>1. taken \in [Lots -> Nat]
    BY TakenBounded
<1> HIDE DEF taken
<1>2. PostTaken(rows, b, amount, paidOnly, stamp)
        = [g \in Lots |-> IF taken[g] = 0
                          THEN rows[g]
                          ELSE [net   |-> rows[g].net + taken[g],
                                first |-> IF rows[g].first = 0 THEN stamp ELSE rows[g].first]]
    BY DEF PostTaken, taken
<1> QED BY <1>1, <1>2 DEF Posts

\* The account the statements of a transaction start from.
LEMMA BooksAccount ==
    ASSUME TypeOK
    PROVE  Books \in Account /\ Books.wallet = wallet
  BY DEF TypeOK, Books, Account, Lot

-----------------------------------------------------------------------------
(* Refunds                                                                 *)

\* What a refund puts back, and what it cannot trace.
LEMMA RestoredType ==
    ASSUME TypeOK, NEW k \in Keys, NEW amount \in Nat, NEW up \in BOOLEAN
    PROVE  /\ Restored(k, amount, up) \in [Lots -> Nat]
           /\ Untraceable(k, amount) \in Nat
           /\ GiftReturned(k, amount, up) \in Nat
<1> DEFINE owed     == [g \in Lots |-> Owed(k, g)]
           ahead(g) == SumFunctionOnSet(owed, {h \in Lots : RestoredBefore(k, h, g, up)})
<1>1. \A g \in Lots : Owed(k, g) \in Nat
    BY DEF TypeOK, Owed, Surplus
<1>2. ASSUME NEW g \in Lots PROVE ahead(g) \in Nat
  <2> DEFINE T == {h \in Lots : RestoredBefore(k, h, g, up)}
  <2>1. T \in SUBSET Lots /\ \A h \in T : owed[h] \in Nat
    BY <1>1
  <2> HIDE DEF T, owed
  <2>2. SumFunctionOnSet(owed, T) \in Nat
    BY <2>1, TotalNat
  <2> QED BY <2>2 DEF T
<1>3. Restored(k, amount, up)
        = [g \in Lots |-> Least(owed[g], Surplus(amount, ahead(g)))]
    BY DEF Restored
<1> HIDE DEF ahead
<1>4. \A g \in Lots : Least(owed[g], Surplus(amount, ahead(g))) \in Nat
    BY <1>1, <1>2, SurplusNat, LeastNat
<1>5. Restored(k, amount, up) \in [Lots -> Nat]
    BY <1>3, <1>4
<1>6. SumFunctionOnSet(owed, Lots) \in Nat
  <2>1. Lots \in SUBSET Lots /\ \A g \in Lots : owed[g] \in Nat
    BY <1>1
  <2> HIDE DEF owed
  <2> QED BY <2>1, TotalNat
<1>7. Untraceable(k, amount) = Surplus(amount, SumFunctionOnSet(owed, Lots))
    BY DEF Untraceable
<1>8. Untraceable(k, amount) \in Nat
  <2> DEFINE total == SumFunctionOnSet(owed, Lots)
  <2> HIDE DEF total, owed
  <2>1. total \in Nat /\ Untraceable(k, amount) = Surplus(amount, total)
    BY <1>6, <1>7 DEF total
  <2> QED BY <2>1, SurplusNat
<1>9. GiftReturned(k, amount, up) \in Nat
  <2> DEFINE T == {g \in Lots : lots[g].funding = "gift"}
             f == Restored(k, amount, up)
  <2>1. T \in SUBSET Lots /\ \A g \in T : f[g] \in Nat
    BY <1>5
  <2> HIDE DEF T, f
  <2>2. SumFunctionOnSet(f, T) \in Nat
    BY <2>1, TotalNat
  <2> QED BY <2>2 DEF T, f, GiftReturned
<1> QED BY <1>5, <1>8, <1>9

\* A refund replaces lots of the customer by new ones, numbered after those
\* that exist and within those it opens.
LEMMA ReplacedNumbers ==
    ASSUME TypeOK, NEW k \in Keys, NEW amount \in Nat, NEW up \in BOOLEAN
    PROVE  /\ Cardinality(Lapsed(k, amount, up)) \in Nat
           /\ \A g \in DOMAIN Replaced(k, amount, up) :
                 /\ g \in Nat
                 /\ g > opened
                 /\ g <= opened + Cardinality(Lapsed(k, amount, up))
                 /\ Replaced(k, amount, up)[g] \in Lapsed(k, amount, up)
                 /\ Replaced(k, amount, up)[g] \in Lots
<1> DEFINE lapsed    == Lapsed(k, amount, up)
           before(g) == {h \in lapsed : h = g \/ RestoredBefore(k, h, g, up)}
           number(g) == opened + Cardinality(before(g))
<1>1. lapsed \subseteq Lots
    BY DEF Lapsed
<1>2. IsFiniteSet(Lots)
    BY FS_Interval, BoundsAssumption DEF Lots
<1>3. IsFiniteSet(lapsed) /\ Cardinality(lapsed) \in Nat
    BY <1>1, <1>2, FS_Subset, FS_CardinalityType
<1> HIDE DEF lapsed
<1>4. ASSUME NEW h \in lapsed
      PROVE  Cardinality(before(h)) \in Nat /\ Cardinality(before(h)) > 0
             /\ Cardinality(before(h)) <= Cardinality(lapsed)
  <2>1. before(h) \subseteq lapsed /\ h \in before(h)
    OBVIOUS
  <2> HIDE DEF before
  <2>2. IsFiniteSet(before(h)) /\ Cardinality(before(h)) <= Cardinality(lapsed)
    BY <1>3, <2>1, FS_Subset
  <2>3. Cardinality(before(h)) \in Nat
    BY <2>2, FS_CardinalityType
  <2>4. Cardinality(before(h)) # 0
    BY <2>1, <2>2, FS_EmptySet
  <2> QED BY <2>2, <2>3, <2>4
<1>5. Replaced(k, amount, up)
        = [g \in {number(h) : h \in lapsed} |-> CHOOSE h \in lapsed : number(h) = g]
    BY DEF Replaced, lapsed
<1> HIDE DEF before
<1>6. ASSUME NEW g \in {number(h) : h \in lapsed}
      PROVE  /\ g \in Nat /\ g > opened /\ g <= opened + Cardinality(lapsed)
             /\ Replaced(k, amount, up)[g] \in lapsed
  <2>1. PICK h \in lapsed : number(h) = g
    OBVIOUS
  <2>2. opened \in Nat
    BY DEF TypeOK
  <2>3. g \in Nat /\ g > opened /\ g <= opened + Cardinality(lapsed)
    BY <1>3, <1>4, <2>1, <2>2
  <2> HIDE DEF number
  <2>4. (CHOOSE x \in lapsed : number(x) = g) \in lapsed
    BY <2>1
  <2> QED BY <1>5, <2>3, <2>4
<1>7. DOMAIN Replaced(k, amount, up) = {number(h) : h \in lapsed}
    BY <1>5
<1> QED BY <1>1, <1>3, <1>6, <1>7 DEF lapsed

\* The lots and the ledger rows a refund leaves.
LEMMA RestoredLotsType ==
    ASSUME TypeOK, NEW k \in Keys, NEW amount \in Nat, NEW up \in BOOLEAN
    PROVE  /\ RestoredLots(k, amount, up) \in [Lots -> Lot]
           /\ \A g \in Lots : g > opened + Cardinality(Lapsed(k, amount, up))
                  => RestoredLots(k, amount, up)[g].funding = "none"
<1> DEFINE restored == Restored(k, amount, up)
           lapsed   == Lapsed(k, amount, up)
           replaced == Replaced(k, amount, up)
<1>1. restored \in [Lots -> Nat]
    BY RestoredType
<1>2. /\ Cardinality(lapsed) \in Nat
      /\ \A g \in DOMAIN replaced : /\ g \in Nat
                                    /\ g <= opened + Cardinality(lapsed)
                                    /\ replaced[g] \in Lots
    BY ReplacedNumbers
<1>3. RestoredLots(k, amount, up)
        = [g \in Lots |->
            IF g \in DOMAIN replaced
            THEN [funding   |-> lots[replaced[g]].funding,
                  remaining |-> restored[replaced[g]],
                  expires   |-> now + ReturnTerm,
                  payment   |-> NoPayment]
            ELSE IF g \in lapsed
            THEN lots[g]
            ELSE [lots[g] EXCEPT !.remaining = @ + restored[g]]]
    BY DEF RestoredLots
<1> HIDE DEF restored, lapsed, replaced
<1>4. ASSUME NEW g \in Lots
      PROVE  RestoredLots(k, amount, up)[g] \in Lot
  <2>1. CASE g \in DOMAIN replaced
    <3>1. replaced[g] \in Lots
      BY <1>2, <2>1
    <3>2. lots[replaced[g]].funding \in {"none", "gift", "paid"} /\ restored[replaced[g]] \in Nat
      BY <1>1, <3>1 DEF TypeOK, Lot
    <3>3. now + ReturnTerm \in Nat
      BY BoundsAssumption DEF TypeOK
    <3> QED BY <1>3, <2>1, <3>2, <3>3 DEF Lot
  <2>2. CASE g \notin DOMAIN replaced
    <3>1. lots[g] \in Lot /\ restored[g] \in Nat
      BY <1>1 DEF TypeOK
    <3> QED BY <1>3, <2>2, <3>1 DEF Lot
  <2> QED BY <2>1, <2>2
<1>5. ASSUME NEW g \in Lots, g > opened + Cardinality(lapsed)
      PROVE  RestoredLots(k, amount, up)[g].funding = "none"
  <2>1. opened \in Nat /\ g \in Nat /\ lots[g].funding = "none" /\ lots[g] \in Lot
    BY <1>2, <1>5, BoundsAssumption DEF TypeOK, Lots
  <2>2. g \notin DOMAIN replaced
    BY <1>2, <1>5, <2>1
  <2> QED BY <1>3, <2>1, <2>2 DEF Lot
<1>6. RestoredLots(k, amount, up) \in [Lots -> Lot]
    BY <1>3, <1>4
<1> QED BY <1>5, <1>6 DEF lapsed

\* The ledger rows of a usage row after a refund are ledger rows.
LEMMA PostRestoredType ==
    ASSUME TypeOK, NEW k \in Keys, NEW amount \in Nat, NEW up \in BOOLEAN, NEW stamp \in Nat
    PROVE  /\ PostRestored(k, amount, up, stamp) \in Posts
           /\ \A g \in Lots : lots[g].funding = "gift"
                  => PostRestored(k, amount, up, stamp)[g].net <= posted[k][g].net
<1> DEFINE restored == Restored(k, amount, up)
           lapsed   == Lapsed(k, amount, up)
           replaced == Replaced(k, amount, up)
<1>1. restored \in [Lots -> Nat]
    BY RestoredType
<1>2. \A g \in DOMAIN replaced : g \in Nat /\ g > opened /\ replaced[g] \in Lots
    BY ReplacedNumbers
<1>3. PostRestored(k, amount, up, stamp)
        = [g \in Lots |->
            IF g \in DOMAIN replaced
            THEN [net |-> 0 - restored[replaced[g]], first |-> stamp]
            ELSE IF g \in lapsed
            THEN posted[k][g]
            ELSE [posted[k][g] EXCEPT !.net = @ - restored[g]]]
    BY DEF PostRestored
<1> HIDE DEF restored, lapsed, replaced
<1>4. \A g \in Lots : posted[k][g] \in [net: Int, first: Nat]
    BY DEF TypeOK
<1>5. ASSUME NEW g \in Lots
      PROVE  /\ PostRestored(k, amount, up, stamp)[g] \in [net: Int, first: Nat]
             /\ g \notin DOMAIN replaced
                    => PostRestored(k, amount, up, stamp)[g].net <= posted[k][g].net
  <2>1. CASE g \in DOMAIN replaced
    BY <1>1, <1>2, <1>3, <2>1
  <2>2. CASE g \notin DOMAIN replaced
    <3>1. restored[g] \in Nat
      BY <1>1
    <3> QED BY <1>3, <1>4, <2>2, <3>1
  <2> QED BY <2>1, <2>2
<1>6. ASSUME NEW g \in Lots, lots[g].funding = "gift"
      PROVE  g \notin DOMAIN replaced
    BY <1>2, <1>6 DEF TypeOK
<1>7. PostRestored(k, amount, up, stamp) \in Posts
    BY <1>3, <1>5 DEF Posts
<1> QED BY <1>5, <1>6, <1>7

-----------------------------------------------------------------------------
(* Type correctness, action by action                                      *)

\* A new account is well typed.
LEMMA InitType == Init => TypeOK
<1> SUFFICES ASSUME Init PROVE TypeOK
    OBVIOUS
<1>1. NoLot \in Lot
    BY DEF NoLot, Lot
<1>2. NoUsage \in UsageRow
    BY DEF NoUsage, UsageRow, AllRoutes, AllPolicies
<1>3. NoPost \in [net: Int, first: Nat]
    BY DEF NoPost
<1>4. NoLot.funding = "none"
    BY DEF NoLot
<1>5. suspended \in BOOLEAN
    BY DEF Init
<1>6. usage \in [Keys -> UsageRow] /\ posted \in [Keys -> [Lots -> [net: Int, first: Nat]]]
    BY <1>2, <1>3 DEF Init
<1>7. lots \in [Lots -> Lot] /\ \A g \in Lots : lots[g].funding = "none"
    BY <1>1, <1>4 DEF Init
<1>8. /\ wallet \in Int /\ opened \in 0..MaxLots /\ lifetime \in Nat /\ adjusted \in Int
      /\ now \in Nat /\ payments \in [Payments -> [paid: Nat, refunded: Nat]]
    BY BoundsAssumption DEF Init
<1> QED BY <1>5, <1>6, <1>7, <1>8 DEF TypeOK

\* A record is debited for a natural number.
LEMMA DueNat ==
    ASSUME NEW k, NEW charge \in Nat, NEW policy
    PROVE  Due(k, charge, policy) \in Nat
  BY DEF Due

\* The row a reservation writes.
LEMMA ReservedRowType ==
    ASSUME TypeOK, NEW k \in Keys, NEW b \in Account, NEW amount \in Nat,
           NEW paidOnly \in BOOLEAN, NEW route \in AllRoutes, NEW policy \in AllPolicies
    PROVE  ReservedRow(k, b, amount, paidOnly, route, policy) \in UsageRow
<1>1. /\ FromGrants(b, amount, paidOnly) \in Nat
      /\ FromGrants(b, amount, paidOnly) <= amount
      /\ FromGifts(b, amount, paidOnly) \in Nat
    BY FromGrantsBounded
<1>2. usage[k].posts + 1 \in Nat
    BY DEF TypeOK, UsageRow
<1>3. amount - FromGrants(b, amount, paidOnly) \in Nat
    BY <1>1
<1> QED BY <1>1, <1>2, <1>3 DEF ReservedRow, UsageRow

\* What ReserveUsage computes, typed: the second record works on the account
\* the first one left.
LEMMA ReserveParts ==
    ASSUME TypeOK, NEW due1 \in Nat, NEW due2 \in Nat, NEW paidOnly \in BOOLEAN
    PROVE  /\ Debited(Books, due1, paidOnly) \in Account
           /\ Debited(Debited(Books, due1, paidOnly), due2, FALSE) \in Account
<1>1. Debited(Books, due1, paidOnly) \in Account
    BY BooksAccount, DebitedAccount
<1> QED BY <1>1, DebitedAccount

\* A reservation, of one record or of two, leaves a well-typed account.
LEMMA ReserveType ==
    ASSUME TypeOK, NEW k \in Keys, NEW a \in Keys \cup {NoKey}, NEW route \in Routes,
           NEW policy \in Policies, NEW charge \in Charges, NEW extra \in Charges \cup {0},
           ReserveUsage(k, charge, route, a, extra, policy)
    PROVE  TypeOK'
<1> DEFINE paidOnly == route = "discounted"
           due1     == Due(k, charge, policy)
           due2     == Due(a, extra, policy)
           b1       == Debited(Books, due1, paidOnly)
           b2       == Debited(b1, due2, FALSE)
           debits1  == Fresh(k)
           debits2  == a # NoKey /\ Fresh(a)
<1>1. due1 \in Nat /\ due2 \in Nat /\ paidOnly \in BOOLEAN
    BY DueNat, AmountsAssumption
<1>2. Books \in Account /\ b1 \in Account /\ b2 \in Account
    BY <1>1, ReserveParts, BooksAccount
<1>3. route \in AllRoutes /\ policy \in AllPolicies /\ "open" \in AllRoutes
    BY KindsAssumption DEF AllRoutes
<1>4. /\ wallet' = b2.wallet
      /\ lots' = [g \in Lots |-> [lots[g] EXCEPT !.remaining = b2.left[g]]]
      /\ usage' = [x \in Keys |->
            IF x = k /\ debits1
            THEN ReservedRow(k, Books, due1, paidOnly, route, policy)
            ELSE IF x = a /\ debits2
            THEN ReservedRow(a, b1, due2, FALSE, "open", policy)
            ELSE usage[x]]
      /\ posted' = [x \in Keys |->
            IF x = k /\ debits1
            THEN PostTaken(posted[k], Books, due1, paidOnly, usage[k].posts + 1)
            ELSE IF x = a /\ debits2
            THEN PostTaken(posted[a], b1, due2, FALSE, usage[a].posts + 1)
            ELSE posted[x]]
      /\ lifetime' = lifetime + due1 + due2
      /\ UNCHANGED <<opened, payments, adjusted, suspended, now>>
    BY DEF ReserveUsage
<1> HIDE DEF paidOnly, due1, due2, b1, b2, debits1, debits2
<1>5. wallet' \in Int
    BY <1>2, <1>4 DEF Account
<1>6. lots' \in [Lots -> Lot] /\ \A g \in Lots : g > opened => lots'[g].funding = "none"
  <2>1. ASSUME NEW g \in Lots
        PROVE  /\ [lots[g] EXCEPT !.remaining = b2.left[g]] \in Lot
               /\ [lots[g] EXCEPT !.remaining = b2.left[g]].funding = lots[g].funding
    <3>1. b2.left[g] \in Nat
      BY <1>2 DEF Account
    <3> QED BY <3>1 DEF TypeOK, Lot
  <2> QED BY <1>4, <2>1 DEF TypeOK
<1>7. usage' \in [Keys -> UsageRow]
  <2>1. ReservedRow(k, Books, due1, paidOnly, route, policy) \in UsageRow
    BY <1>1, <1>2, <1>3, ReservedRowType
  <2>2. ASSUME a \in Keys
        PROVE  ReservedRow(a, b1, due2, FALSE, "open", policy) \in UsageRow
    BY <1>1, <1>2, <1>3, <2>2, ReservedRowType
  <2>3. usage \in [Keys -> UsageRow]
    BY DEF TypeOK
  <2> QED BY <1>4, <2>1, <2>2, <2>3
<1>8. posted' \in [Keys -> Posts]
  <2>1. posted \in [Keys -> Posts] /\ \A x \in Keys : usage[x].posts + 1 \in Nat
    BY DEF TypeOK, Posts, UsageRow
  <2>2. PostTaken(posted[k], Books, due1, paidOnly, usage[k].posts + 1) \in Posts
    BY <1>1, <1>2, <2>1, PostTakenType
  <2>3. ASSUME a \in Keys
        PROVE  PostTaken(posted[a], b1, due2, FALSE, usage[a].posts + 1) \in Posts
    BY <1>1, <1>2, <2>1, <2>3, PostTakenType
  <2> QED BY <1>4, <2>1, <2>2, <2>3
<1>9. lifetime' \in Nat
    BY <1>1, <1>4 DEF TypeOK
<1> QED BY <1>4, <1>5, <1>6, <1>7, <1>8, <1>9 DEF TypeOK, Posts

\* A usage row with new amounts is a usage row.
LEMMA RowUpdate ==
    ASSUME NEW row \in UsageRow, NEW state \in {"none", "reserved", "settled", "refunded"},
           NEW charge \in Nat, NEW grant \in Nat, NEW gift \in Nat, NEW cash \in Nat, NEW posts \in Nat
    PROVE  [row EXCEPT !.state = state, !.charge = charge, !.grant = grant, !.gift = gift,
                       !.wallet = cash, !.posts = posts] \in UsageRow
  BY DEF UsageRow

\* A usage row is made of its fields, each of its type.
LEMMA RowFields ==
    ASSUME NEW row \in UsageRow
    PROVE  /\ row.charge \in Nat /\ row.grant \in Nat /\ row.gift \in Nat
           /\ row.wallet \in Nat /\ row.posts \in Nat
           /\ row.posts + 1 \in Nat
           /\ row.state \in {"none", "reserved", "settled", "refunded"}
           /\ row.policy \in AllPolicies /\ row.route \in AllRoutes
  BY DEF UsageRow

\* A settlement above the reservation leaves a well-typed account.
LEMMA SettleHigherType ==
    ASSUME TypeOK, NEW k \in Keys, NEW charge \in Nat, SettleHigher(k, charge)
    PROVE  TypeOK'
<1> DEFINE row      == usage[k]
           extra    == charge - row.charge
           paidOnly == row.route # "open"
           b        == Debited(Books, extra, paidOnly)
<1>1. row \in UsageRow /\ extra \in Nat /\ paidOnly \in BOOLEAN
    BY DEF TypeOK, UsageRow, SettleHigher
<1>2. Books \in Account /\ b \in Account
    BY <1>1, BooksAccount, DebitedAccount
<1>3. /\ FromGrants(Books, extra, paidOnly) \in Nat
      /\ FromGrants(Books, extra, paidOnly) <= extra
      /\ FromGifts(Books, extra, paidOnly) \in Nat
    BY <1>1, <1>2, FromGrantsBounded
<1>4. /\ wallet' = b.wallet
      /\ lots' = [g \in Lots |-> [lots[g] EXCEPT !.remaining = b.left[g]]]
      /\ usage' = [usage EXCEPT ![k] =
            [row EXCEPT !.state  = "settled",
                        !.charge = charge,
                        !.grant  = @ + FromGrants(Books, extra, paidOnly),
                        !.gift   = @ + FromGifts(Books, extra, paidOnly),
                        !.wallet = @ + (extra - FromGrants(Books, extra, paidOnly)),
                        !.posts  = @ + 1]]
      /\ posted' = [posted EXCEPT ![k] = PostTaken(@, Books, extra, paidOnly, row.posts + 1)]
      /\ lifetime' = lifetime + extra
      /\ UNCHANGED <<opened, payments, adjusted, suspended, now>>
    BY DEF SettleHigher
<1> HIDE DEF row, extra, paidOnly, b
<1>5. \A g \in Lots : /\ [lots[g] EXCEPT !.remaining = b.left[g]] \in Lot
                      /\ [lots[g] EXCEPT !.remaining = b.left[g]].funding = lots[g].funding
  <2>1. \A g \in Lots : lots[g] \in Lot
    BY DEF TypeOK
  <2>2. \A g \in Lots : b.left[g] \in Nat
    BY <1>2 DEF Account
  <2> QED BY <2>1, <2>2 DEF Lot
<1>6. usage' \in [Keys -> UsageRow]
  <2> DEFINE grant == row.grant + FromGrants(Books, extra, paidOnly)
             gift  == row.gift + FromGifts(Books, extra, paidOnly)
             cash  == row.wallet + (extra - FromGrants(Books, extra, paidOnly))
  <2>1. grant \in Nat /\ gift \in Nat /\ cash \in Nat /\ row.posts + 1 \in Nat
    BY <1>1, <1>3, RowFields
  <2>2. usage' = [usage EXCEPT ![k] =
            [row EXCEPT !.state = "settled", !.charge = charge, !.grant = grant, !.gift = gift,
                        !.wallet = cash, !.posts = row.posts + 1]]
    BY <1>4 DEF row
  <2> HIDE DEF grant, gift, cash
  <2>3. [row EXCEPT !.state = "settled", !.charge = charge, !.grant = grant, !.gift = gift,
                    !.wallet = cash, !.posts = row.posts + 1] \in UsageRow
    BY <1>1, <2>1, RowUpdate
  <2> QED BY <2>2, <2>3 DEF TypeOK
<1>7. posted' \in [Keys -> Posts]
  <2>1. posted \in [Keys -> Posts] /\ row.posts + 1 \in Nat
    BY <1>1, RowFields DEF TypeOK, Posts
  <2>2. PostTaken(posted[k], Books, extra, paidOnly, row.posts + 1) \in Posts
    BY <1>1, <1>2, <2>1, PostTakenType
  <2> QED BY <1>4, <2>1, <2>2
<1>8. lots' \in [Lots -> Lot] /\ \A g \in Lots : g > opened => lots'[g].funding = "none"
    BY <1>4, <1>5 DEF TypeOK
<1>9. wallet' \in Int /\ lifetime' \in Nat
    BY <1>1, <1>2, <1>4 DEF TypeOK, Account
<1> QED BY <1>4, <1>6, <1>7, <1>8, <1>9 DEF TypeOK, Posts

\* An absorbed shortfall leaves a well-typed account.
LEMMA SettleAbsorbedType ==
    ASSUME TypeOK, NEW k \in Keys, NEW charge \in Nat, SettleAbsorbed(k, charge)
    PROVE  TypeOK'
<1>1. usage' \in [Keys -> UsageRow]
    BY DEF SettleAbsorbed, TypeOK, UsageRow
<1> QED BY <1>1 DEF SettleAbsorbed, TypeOK

\* What creditUsageRefundTx leaves, beside the usage row.
LEMMA CreditType ==
    ASSUME TypeOK, NEW k \in Keys, NEW fromGrants \in Nat, NEW fromWallet \in Nat,
           NEW up \in BOOLEAN, CreditUsageRefund(k, fromGrants, fromWallet, up)
    PROVE  /\ wallet' \in Int /\ wallet' >= wallet
           /\ lots' \in [Lots -> Lot]
           /\ opened' \in 0..MaxLots
           /\ \A g \in Lots : g > opened' => lots'[g].funding = "none"
           /\ posted' \in [Keys -> Posts]
           /\ lifetime' \in Nat
<1>1. wallet' \in Int /\ wallet' >= wallet
    BY RestoredType DEF CreditUsageRefund, TypeOK
<1>2. opened' \in 0..MaxLots /\ opened' = opened + Cardinality(Lapsed(k, fromGrants, up))
    BY ReplacedNumbers, BoundsAssumption DEF CreditUsageRefund, TypeOK
<1>3. lots' \in [Lots -> Lot] /\ \A g \in Lots : g > opened' => lots'[g].funding = "none"
    BY <1>2, RestoredLotsType DEF CreditUsageRefund
<1>4. posted' \in [Keys -> Posts]
  <2>1. usage[k].posts + 1 \in Nat
    BY DEF TypeOK, UsageRow
  <2>2. PostRestored(k, fromGrants, up, usage[k].posts + 1) \in Posts
    BY <2>1, PostRestoredType
  <2> QED BY <2>2 DEF CreditUsageRefund, TypeOK, Posts
<1>5. lifetime' \in Nat
  <2>1. lifetime \in Nat /\ fromGrants + fromWallet \in Nat
    BY DEF TypeOK
  <2>2. lifetime' = Surplus(lifetime, fromGrants + fromWallet)
    BY DEF CreditUsageRefund
  <2> QED BY <2>1, <2>2, SurplusNat
<1> QED BY <1>1, <1>2, <1>3, <1>4, <1>5

\* The parts a lower settlement returns.
LEMMA LowerParts ==
    ASSUME NEW row \in UsageRow, NEW charge \in Nat, charge <= row.charge
    PROVE  /\ WalletPart(row, row.charge - charge) \in 0..row.wallet
           /\ GrantPart(row, row.charge - charge) \in 0..row.grant
           /\ row.charge = row.grant + row.wallet
                => WalletPart(row, row.charge - charge) + GrantPart(row, row.charge - charge)
                     = row.charge - charge
  BY DEF WalletPart, GrantPart, Least, UsageRow

\* A settlement at or below the reservation leaves a well-typed account.
LEMMA SettleLowerType ==
    ASSUME TypeOK, NEW k \in Keys, NEW charge \in Nat, SettleLower(k, charge)
    PROVE  TypeOK'
<1> DEFINE row        == usage[k]
           refund     == row.charge - charge
           fromWallet == WalletPart(row, refund)
           fromGrants == GrantPart(row, refund)
<1>1. row \in UsageRow /\ charge <= row.charge
    BY DEF TypeOK, SettleLower
<1>2. fromWallet \in 0..row.wallet /\ fromGrants \in 0..row.grant
    BY <1>1, LowerParts
<1>3. PICK up \in BOOLEAN :
         /\ CreditUsageRefund(k, fromGrants, fromWallet, up)
         /\ usage' = [usage EXCEPT ![k] =
               [row EXCEPT !.state  = "settled",
                           !.charge = charge,
                           !.grant  = @ - fromGrants,
                           !.gift   = Surplus(@, GiftReturned(k, fromGrants, up)),
                           !.wallet = @ - fromWallet,
                           !.posts  = @ + 1]]
    BY DEF SettleLower
<1>4. UNCHANGED <<payments, adjusted, suspended, now>>
    BY DEF SettleLower
<1> HIDE DEF row, refund, fromWallet, fromGrants
<1>5. fromWallet \in Nat /\ fromGrants \in Nat
    BY <1>1, <1>2 DEF UsageRow
<1>6. Surplus(row.gift, GiftReturned(k, fromGrants, up)) \in Nat
    BY <1>1, <1>5, RestoredType, SurplusNat DEF UsageRow
<1>7. usage' \in [Keys -> UsageRow]
  <2> DEFINE gift == Surplus(row.gift, GiftReturned(k, fromGrants, up))
  <2>1. row.grant - fromGrants \in Nat /\ row.wallet - fromWallet \in Nat /\ row.posts + 1 \in Nat
    BY <1>1, <1>2, RowFields
  <2>2. usage' = [usage EXCEPT ![k] =
            [row EXCEPT !.state = "settled", !.charge = charge, !.grant = row.grant - fromGrants,
                        !.gift = gift, !.wallet = row.wallet - fromWallet,
                        !.posts = row.posts + 1]]
    BY <1>3
  <2> HIDE DEF gift
  <2>3. [row EXCEPT !.state = "settled", !.charge = charge, !.grant = row.grant - fromGrants,
                    !.gift = gift, !.wallet = row.wallet - fromWallet,
                    !.posts = row.posts + 1] \in UsageRow
    BY <1>1, <1>6, <2>1, RowUpdate DEF gift
  <2> QED BY <2>2, <2>3 DEF TypeOK
<1>8. /\ wallet' \in Int
      /\ lots' \in [Lots -> Lot]
      /\ opened' \in 0..MaxLots
      /\ \A g \in Lots : g > opened' => lots'[g].funding = "none"
      /\ posted' \in [Keys -> Posts]
      /\ lifetime' \in Nat
    BY <1>3, <1>5, CreditType
<1> QED BY <1>4, <1>7, <1>8 DEF TypeOK, Posts

\* The refund of a reservation leaves a well-typed account.
LEMMA RefundType ==
    ASSUME TypeOK, NEW k \in Keys, RefundUsage(k)
    PROVE  TypeOK'
<1>1. usage[k].grant \in Nat /\ usage[k].wallet \in Nat /\ usage[k] \in UsageRow
    BY DEF TypeOK, UsageRow
<1>2. PICK up \in BOOLEAN : CreditUsageRefund(k, usage[k].grant, usage[k].wallet, up)
    BY DEF RefundUsage
<1>3. usage' \in [Keys -> UsageRow]
  <2> DEFINE row == usage[k]
  <2>1. row \in UsageRow /\ row.gift \in Nat /\ row.posts + 1 \in Nat
    BY <1>1, RowFields
  <2>2. usage' = [usage EXCEPT ![k] =
            [row EXCEPT !.state = "refunded", !.charge = 0, !.grant = 0, !.gift = row.gift,
                        !.wallet = 0, !.posts = row.posts + 1]]
    <3>1. [row EXCEPT !.state = "refunded", !.charge = 0, !.grant = 0, !.wallet = 0,
                      !.posts = row.posts + 1]
            = [row EXCEPT !.state = "refunded", !.charge = 0, !.grant = 0, !.gift = row.gift,
                          !.wallet = 0, !.posts = row.posts + 1]
      BY <2>1 DEF UsageRow
    <3>2. usage' = [usage EXCEPT ![k] =
              [row EXCEPT !.state = "refunded", !.charge = 0, !.grant = 0, !.wallet = 0,
                          !.posts = row.posts + 1]]
      BY DEF RefundUsage
    <3> HIDE DEF row
    <3> QED BY <3>1, <3>2
  <2> HIDE DEF row
  <2>3. [row EXCEPT !.state = "refunded", !.charge = 0, !.grant = 0, !.gift = row.gift,
                    !.wallet = 0, !.posts = row.posts + 1] \in UsageRow
    BY <2>1, RowUpdate
  <2> QED BY <2>2, <2>3 DEF TypeOK
<1>4. /\ wallet' \in Int
      /\ lots' \in [Lots -> Lot]
      /\ opened' \in 0..MaxLots
      /\ \A g \in Lots : g > opened' => lots'[g].funding = "none"
      /\ posted' \in [Keys -> Posts]
      /\ lifetime' \in Nat
    BY <1>1, <1>2, CreditType
<1>5. UNCHANGED <<payments, adjusted, suspended, now>>
    BY DEF RefundUsage
<1> QED BY <1>3, <1>4, <1>5 DEF TypeOK, Posts

\* A new lot is a lot.
LEMMA NewLotType ==
    ASSUME NEW funding \in {"gift", "paid"}, NEW amount \in Nat, NEW expires \in Nat,
           NEW payment \in Payments \cup {NoPayment}
    PROVE  NewLot(funding, amount, expires, payment) \in Lot
  BY DEF NewLot, Lot

\* A new grant leaves a well-typed account.
LEMMA AddGrantType ==
    ASSUME TypeOK, NEW amount \in Gifts, NEW expires \in (now + 1)..Forever,
           AddGrant("gift", amount, expires)
    PROVE  TypeOK'
<1>1. amount \in Nat /\ expires \in Nat /\ opened \in Nat
    BY AmountsAssumption, BoundsAssumption DEF Forever, TypeOK
<1>2. NewLot("gift", amount, expires, NoPayment) \in Lot
    BY <1>1, NewLotType
<1>3. /\ lots' = [lots EXCEPT ![opened + 1] = NewLot("gift", amount, expires, NoPayment)]
      /\ opened' = opened + 1 /\ opened < MaxLots
      /\ UNCHANGED <<wallet, usage, posted, lifetime, payments, adjusted, suspended, now>>
    BY DEF AddGrant
<1>4. lots' \in [Lots -> Lot]
    BY <1>2, <1>3 DEF TypeOK
<1>5. opened' \in 0..MaxLots
    BY <1>1, <1>3, BoundsAssumption
<1>6. \A g \in Lots : g > opened' => lots'[g].funding = "none"
  <2> SUFFICES ASSUME NEW g \in Lots, g > opened'
               PROVE  lots'[g].funding = "none"
    OBVIOUS
  <2>1. g \in Nat /\ g > opened /\ g # opened + 1
    BY <1>1, <1>3, BoundsAssumption DEF Lots
  <2> QED BY <1>3, <2>1 DEF TypeOK
<1> QED BY <1>3, <1>4, <1>5, <1>6 DEF TypeOK

\* A top-up leaves a well-typed account.
LEMMA TopupType ==
    ASSUME TypeOK, NEW p \in Payments, NEW amount \in TopUps, NEW bonus \in Bonuses,
           NEW reward \in Gifts \cup {0}, NEW expires \in (now + 1)..Forever,
           RecordTopup(p, amount, bonus, reward, expires)
    PROVE  TypeOK'
<1> DEFINE more == (IF bonus > 0 THEN 1 ELSE 0) + (IF reward > 0 THEN 1 ELSE 0)
<1>1. /\ amount \in Nat /\ bonus \in Nat /\ reward \in Nat /\ expires \in Nat
      /\ opened \in Nat /\ more \in Nat
    BY AmountsAssumption, BoundsAssumption DEF Forever, TypeOK
<1>2. /\ lots' = [g \in Lots |->
              IF bonus > 0 /\ g = opened + 1
              THEN NewLot("paid", bonus, expires, p)
              ELSE IF reward > 0 /\ g = opened + more
              THEN NewLot("gift", reward, expires, p)
              ELSE lots[g]]
      /\ opened' = opened + more /\ opened + more <= MaxLots
      /\ wallet' = wallet + amount
      /\ payments' = [payments EXCEPT ![p].paid = amount]
      /\ UNCHANGED <<usage, posted, lifetime, adjusted, suspended, now>>
    BY DEF RecordTopup
<1>3. NewLot("paid", bonus, expires, p) \in Lot /\ NewLot("gift", reward, expires, p) \in Lot
    BY <1>1, NewLotType
<1>4. lots' \in [Lots -> Lot]
    BY <1>2, <1>3 DEF TypeOK
<1>5. opened' \in 0..MaxLots
    BY <1>1, <1>2, BoundsAssumption
<1>6. \A g \in Lots : g > opened' => lots'[g].funding = "none"
  <2> SUFFICES ASSUME NEW g \in Lots, g > opened'
               PROVE  lots'[g].funding = "none"
    OBVIOUS
  <2>1. g \in Nat
    BY BoundsAssumption DEF Lots
  <2>2. /\ g > opened
        /\ ~(bonus > 0 /\ g = opened + 1)
        /\ ~(reward > 0 /\ g = opened + more)
    BY <1>1, <1>2, <2>1
  <2> QED BY <1>2, <2>2 DEF TypeOK
<1>7. payments' \in [Payments -> [paid: Nat, refunded: Nat]]
    BY <1>1, <1>2 DEF TypeOK
<1>8. wallet' \in Int
    BY <1>1, <1>2 DEF TypeOK
<1> QED BY <1>2, <1>4, <1>5, <1>6, <1>7, <1>8 DEF TypeOK

\* The refund of a payment leaves a well-typed account.
LEMMA ChargeRefundType ==
    ASSUME TypeOK, NEW p \in Payments, NEW total \in TopUps, RecordChargeRefund(p, total)
    PROVE  TypeOK'
<1> DEFINE delta == Surplus(Least(total, payments[p].paid), payments[p].refunded)
<1>1. delta \in Nat
    BY AmountsAssumption, LeastNat, SurplusNat DEF TypeOK
<1>2. /\ payments' = [payments EXCEPT ![p].refunded = @ + delta]
      /\ lots' = [g \in Lots |->
            IF lots[g].payment = p THEN [lots[g] EXCEPT !.remaining = 0] ELSE lots[g]]
      /\ wallet' = wallet - delta
      /\ UNCHANGED <<opened, usage, posted, lifetime, adjusted, now>>
    BY DEF RecordChargeRefund
<1>3. suspended' \in BOOLEAN
    BY DEF RecordChargeRefund
<1> HIDE DEF delta
<1>4. payments' \in [Payments -> [paid: Nat, refunded: Nat]] /\ wallet' \in Int
  <2>1. payments \in [Payments -> [paid: Nat, refunded: Nat]] /\ wallet \in Int
    BY DEF TypeOK
  <2>2. wallet' \in Int
    BY <1>1, <1>2, <2>1
  <2>3. payments[p].refunded + delta \in Nat
    BY <1>1, <2>1
  <2>4. payments' = [payments EXCEPT ![p].refunded = payments[p].refunded + delta]
    BY <1>2
  <2> QED BY <2>1, <2>2, <2>3, <2>4
<1>5. \A g \in Lots : /\ [lots[g] EXCEPT !.remaining = 0] \in Lot
                      /\ [lots[g] EXCEPT !.remaining = 0].funding = lots[g].funding
    BY DEF TypeOK, Lot
<1>6. lots' \in [Lots -> Lot] /\ \A g \in Lots : g > opened => lots'[g].funding = "none"
    BY <1>2, <1>5 DEF TypeOK
<1> QED BY <1>2, <1>3, <1>4, <1>6 DEF TypeOK

-----------------------------------------------------------------------------
(* Type correctness                                                        *)

\* A charge that a settlement asks for is a natural number.
LEMMA SettleCharge ==
    ASSUME NEW k, NEW actual \in Charges
    PROVE  (IF usage[k].policy = "free" THEN 0 ELSE actual) \in Nat
  BY AmountsAssumption

\* Every step leaves a well-typed account.
LEMMA NextType == TypeOK /\ [Next]_vars => TypeOK'
<1> SUFFICES ASSUME TypeOK, [Next]_vars PROVE TypeOK'
    OBVIOUS
<1>1. CASE Reserve
    BY <1>1, ReserveType DEF Reserve
<1>2. CASE Settle
  <2>1. PICK k \in Keys, actual \in Charges : SettleUsage(k, actual)
    BY <1>2 DEF Settle
  <2>2. PICK charge \in Nat :
          SettleHigher(k, charge) \/ SettleAbsorbed(k, charge) \/ SettleLower(k, charge)
    BY <2>1, SettleCharge DEF SettleUsage
  <2> QED BY <2>2, SettleHigherType, SettleAbsorbedType, SettleLowerType
<1>3. CASE Refund
    BY <1>3, RefundType DEF Refund
<1>4. CASE Topup
    BY <1>4, TopupType DEF Topup
<1>5. CASE PaymentRefund
    BY <1>5, ChargeRefundType DEF PaymentRefund
<1>6. CASE Grant
    BY <1>6, AddGrantType DEF Grant
<1>7. CASE Adjust
  <2>1. PICK amount \in Adjustments, allowNegative \in BOOLEAN : AdjustWallet(amount, allowNegative)
    BY <1>7 DEF Adjust
  <2>2. amount \in Int
    BY AmountsAssumption
  <2>3. wallet' \in Int /\ adjusted' \in Int
    BY <2>1, <2>2 DEF AdjustWallet, TypeOK
  <2> QED BY <2>1, <2>3 DEF AdjustWallet, TypeOK
<1>8. CASE Tick
  <2>1. now' \in Nat
    BY <1>8 DEF Tick, TypeOK
  <2> QED BY <1>8, <2>1 DEF Tick, TypeOK
<1>9. CASE UNCHANGED vars
    BY <1>9 DEF vars, TypeOK
<1> QED BY <1>1, <1>2, <1>3, <1>4, <1>5, <1>6, <1>7, <1>8, <1>9 DEF Next

\* Every reachable state of the ledger is well typed: no lot is ever overdrawn,
\* no part of a usage row is negative, no lot is numbered beyond those opened.
THEOREM Typing == Spec => []TypeOK
  BY InitType, NextType, PTL DEF Spec

-----------------------------------------------------------------------------
(* What the customer is charged is what grants and wallet paid             *)

Split(row) == row.charge = row.grant + row.wallet

\* What a reservation charges is what grants and wallet paid for it.
LEMMA ReservedRowSplit ==
    ASSUME NEW k, NEW b \in Account, NEW amount \in Nat, NEW paidOnly \in BOOLEAN,
           NEW route, NEW policy
    PROVE  Split(ReservedRow(k, b, amount, paidOnly, route, policy))
<1>1. FromGrants(b, amount, paidOnly) \in Nat
    BY FromGrantsBounded
<1> QED BY <1>1 DEF Split, ReservedRow

\* A reservation keeps every row split into grant and wallet part.
LEMMA ReserveSplit ==
    ASSUME TypeOK, ChargeSplit,
           NEW k \in Keys, NEW a \in Keys \cup {NoKey}, NEW route \in Routes,
           NEW policy \in Policies, NEW charge \in Charges, NEW extra \in Charges \cup {0},
           ReserveUsage(k, charge, route, a, extra, policy)
    PROVE  ChargeSplit'
<1> DEFINE paidOnly == route = "discounted"
           due1     == Due(k, charge, policy)
           due2     == Due(a, extra, policy)
           b1       == Debited(Books, due1, paidOnly)
<1>1. due1 \in Nat /\ due2 \in Nat /\ paidOnly \in BOOLEAN
    BY DueNat, AmountsAssumption
<1>2. Books \in Account /\ b1 \in Account
    BY <1>1, ReserveParts, BooksAccount
<1>3. usage' = [x \in Keys |->
            IF x = k /\ Fresh(k)
            THEN ReservedRow(k, Books, due1, paidOnly, route, policy)
            ELSE IF x = a /\ a # NoKey /\ Fresh(a)
            THEN ReservedRow(a, b1, due2, FALSE, "open", policy)
            ELSE usage[x]]
    BY DEF ReserveUsage
<1> HIDE DEF paidOnly, due1, due2, b1
<1>4. Split(ReservedRow(k, Books, due1, paidOnly, route, policy))
    BY <1>1, <1>2, ReservedRowSplit
<1>5. Split(ReservedRow(a, b1, due2, FALSE, "open", policy))
    BY <1>1, <1>2, ReservedRowSplit
<1> QED BY <1>3, <1>4, <1>5 DEF ChargeSplit, Split

\* A settlement, higher, absorbed or lower, keeps the split.
LEMMA SettleSplit ==
    ASSUME TypeOK, ChargeSplit, NEW k \in Keys, NEW charge \in Nat,
           SettleHigher(k, charge) \/ SettleAbsorbed(k, charge) \/ SettleLower(k, charge)
    PROVE  ChargeSplit'
<1> DEFINE row == usage[k]
<1>1. row \in UsageRow /\ row.charge = row.grant + row.wallet
    BY DEF TypeOK, ChargeSplit
<1>2. row.charge \in Nat /\ row.grant \in Nat /\ row.wallet \in Nat
    BY <1>1, RowFields
<1>3. CASE SettleHigher(k, charge)
  <2> DEFINE extra == charge - row.charge
             grant == FromGrants(Books, extra, row.route # "open")
  <2>1. extra \in Nat
    BY <1>2, <1>3 DEF SettleHigher
  <2>2. grant \in Nat
    BY <2>1, BooksAccount, FromGrantsBounded
  <2>3. usage' = [usage EXCEPT ![k] =
            [row EXCEPT !.state  = "settled",
                        !.charge = charge,
                        !.grant  = @ + grant,
                        !.gift   = @ + FromGifts(Books, extra, row.route # "open"),
                        !.wallet = @ + (extra - grant),
                        !.posts  = @ + 1]]
    BY <1>3 DEF SettleHigher
  <2> HIDE DEF grant
  <2>4. /\ usage'[k].charge = charge
        /\ usage'[k].grant = row.grant + grant
        /\ usage'[k].wallet = row.wallet + (extra - grant)
        /\ \A x \in Keys : x # k => usage'[x] = usage[x]
    BY <1>1, <2>3 DEF TypeOK, UsageRow
  <2>5. usage'[k].charge = usage'[k].grant + usage'[k].wallet
    BY <1>1, <1>2, <2>1, <2>2, <2>4
  <2> QED BY <2>4, <2>5 DEF ChargeSplit
<1>4. CASE SettleAbsorbed(k, charge)
    BY <1>4 DEF SettleAbsorbed, ChargeSplit, TypeOK, UsageRow
<1>5. CASE SettleLower(k, charge)
  <2> DEFINE refund     == row.charge - charge
             fromWallet == WalletPart(row, refund)
             fromGrants == GrantPart(row, refund)
  <2>1. charge <= row.charge
    BY <1>5 DEF SettleLower
  <2>2. fromWallet \in 0..row.wallet /\ fromGrants \in 0..row.grant
        /\ fromWallet + fromGrants = row.charge - charge
    BY <1>1, <2>1, LowerParts
  <2>3. PICK gift :
          usage' = [usage EXCEPT ![k] =
            [row EXCEPT !.state  = "settled",
                        !.charge = charge,
                        !.grant  = @ - fromGrants,
                        !.gift   = gift,
                        !.wallet = @ - fromWallet,
                        !.posts  = @ + 1]]
    BY <1>5 DEF SettleLower
  <2> HIDE DEF fromWallet, fromGrants
  <2>4. /\ usage'[k].charge = charge
        /\ usage'[k].grant = row.grant - fromGrants
        /\ usage'[k].wallet = row.wallet - fromWallet
        /\ \A x \in Keys : x # k => usage'[x] = usage[x]
    BY <1>1, <2>3 DEF TypeOK, UsageRow
  <2>5. usage'[k].charge = usage'[k].grant + usage'[k].wallet
    BY <1>1, <1>2, <2>2, <2>4
  <2> QED BY <2>4, <2>5 DEF ChargeSplit
<1> QED BY <1>3, <1>4, <1>5

\* Every step keeps the split.
LEMMA NextSplit == TypeOK /\ ChargeSplit /\ [Next]_vars => ChargeSplit'
<1> SUFFICES ASSUME TypeOK, ChargeSplit, [Next]_vars PROVE ChargeSplit'
    OBVIOUS
<1>1. CASE Reserve
    BY <1>1, ReserveSplit DEF Reserve
<1>2. CASE Settle
  <2>1. PICK k \in Keys, actual \in Charges : SettleUsage(k, actual)
    BY <1>2 DEF Settle
  <2>2. PICK charge \in Nat :
          SettleHigher(k, charge) \/ SettleAbsorbed(k, charge) \/ SettleLower(k, charge)
    BY <2>1, SettleCharge DEF SettleUsage
  <2> QED BY <2>2, SettleSplit
<1>3. CASE Refund
  <2>1. PICK k \in Keys : RefundUsage(k)
    BY <1>3 DEF Refund
  <2>2. usage' = [usage EXCEPT ![k] =
            [usage[k] EXCEPT !.state = "refunded", !.charge = 0, !.grant = 0, !.wallet = 0,
                             !.posts = @ + 1]]
    BY <2>1 DEF RefundUsage
  <2>3. /\ usage'[k].charge = 0 /\ usage'[k].grant = 0 /\ usage'[k].wallet = 0
        /\ \A x \in Keys : x # k => usage'[x] = usage[x]
    BY <2>2 DEF TypeOK, UsageRow
  <2> QED BY <2>3 DEF ChargeSplit
<1>4. ASSUME UNCHANGED usage
      PROVE  ChargeSplit'
    BY <1>4 DEF ChargeSplit
<1>5. CASE Topup \/ PaymentRefund \/ Grant \/ Adjust \/ Tick \/ UNCHANGED vars
    BY <1>4, <1>5 DEF Topup, PaymentRefund, Grant, Adjust, Tick, vars,
                      RecordTopup, RecordChargeRefund, AddGrant, AdjustWallet
<1> QED BY <1>1, <1>2, <1>3, <1>5 DEF Next

\* Every usage row splits its charge exactly into the part grants paid and the
\* part the wallet paid, through reservations, shortfalls, settlements either
\* way and refunds.
THEOREM ChargesAreSplit == Spec => []ChargeSplit
<1>1. Init => ChargeSplit
    BY DEF Init, ChargeSplit, NoUsage
<1> QED BY <1>1, NextSplit, Typing, PTL DEF Spec

-----------------------------------------------------------------------------
(* Debt                                                                    *)

Sanctioned ==
    \/ payments' # payments
    \/ adjusted' # adjusted
    \/ \E k \in Keys : usage'[k] # usage[k] /\ usage'[k].policy = "overdraft"

\* A reservation that no policy lets overdraw leaves no debt, add-on included.
LEMMA ReserveDebt ==
    ASSUME TypeOK,
           NEW k \in Keys, NEW a \in Keys \cup {NoKey}, NEW route \in Routes,
           NEW policy \in Policies, NEW charge \in Charges, NEW extra \in Charges \cup {0},
           ReserveUsage(k, charge, route, a, extra, policy),
           wallet' < wallet, wallet' < 0
    PROVE  Sanctioned
<1> DEFINE paidOnly == route = "discounted"
           due1     == Due(k, charge, policy)
           due2     == Due(a, extra, policy)
           b1       == Debited(Books, due1, paidOnly)
           b2       == Debited(b1, due2, FALSE)
<1>1. due1 \in Nat /\ due2 \in Nat /\ paidOnly \in BOOLEAN
    BY DueNat, AmountsAssumption
<1>2. Books \in Account /\ b1 \in Account /\ b2 \in Account /\ Books.wallet = wallet
    BY <1>1, ReserveParts, BooksAccount
<1>3. /\ wallet' = b2.wallet
      /\ Fresh(k) \/ (a # NoKey /\ Fresh(a))
      /\ a # k
      /\ Covered(Books, due1, paidOnly, policy = "overdraft")
      /\ Covered(b1, due2, FALSE, policy = "overdraft")
      /\ usage' = [x \in Keys |->
            IF x = k /\ Fresh(k)
            THEN ReservedRow(k, Books, due1, paidOnly, route, policy)
            ELSE IF x = a /\ a # NoKey /\ Fresh(a)
            THEN ReservedRow(a, b1, due2, FALSE, "open", policy)
            ELSE usage[x]]
    BY DEF ReserveUsage
<1> HIDE DEF paidOnly, due1, due2, b1, b2
<1>4. CASE policy = "overdraft"
  <2>1. CASE Fresh(k)
    <3>1. usage'[k].state = "reserved" /\ usage'[k].policy = "overdraft"
      BY <1>3, <1>4, <2>1 DEF ReservedRow
    <3>2. usage'[k] # usage[k]
      BY <2>1, <3>1 DEF Fresh
    <3> QED BY <3>1, <3>2 DEF Sanctioned
  <2>2. CASE a # NoKey /\ Fresh(a)
    <3>1. a \in Keys /\ usage'[a].state = "reserved" /\ usage'[a].policy = "overdraft"
      BY <1>3, <1>4, <2>2 DEF ReservedRow
    <3>2. usage'[a] # usage[a]
      BY <2>2, <3>1 DEF Fresh
    <3> QED BY <3>1, <3>2 DEF Sanctioned
  <2> QED BY <1>3, <2>1, <2>2
<1>5. CASE policy # "overdraft"
  <2>1. b1.wallet >= 0 \/ b1.wallet = wallet
    <3>1. Covered(Books, due1, paidOnly, FALSE)
      BY <1>3, <1>5 DEF Covered
    <3> QED BY <1>1, <1>2, <3>1, CoveredKeepsWallet DEF b1
  <2>2. b2.wallet >= 0 \/ b2.wallet = b1.wallet
    <3>1. Covered(b1, due2, FALSE, FALSE)
      BY <1>3, <1>5 DEF Covered
    <3> QED BY <1>1, <1>2, <3>1, CoveredKeepsWallet DEF b2
  <2>3. b1.wallet \in Int /\ b2.wallet \in Int /\ wallet \in Int
    BY <1>2 DEF Account, TypeOK
  <2> QED BY <1>3, <2>1, <2>2, <2>3
<1> QED BY <1>4, <1>5

\* A settlement overdraws the wallet only under the policy of its row.
LEMMA SettleDebt ==
    ASSUME TypeOK, NEW k \in Keys, NEW charge \in Nat, SettleHigher(k, charge),
           usage[k].state = "reserved", wallet' < wallet, wallet' < 0
    PROVE  Sanctioned
<1> DEFINE row      == usage[k]
           extra    == charge - row.charge
           paidOnly == row.route # "open"
<1>1. row \in UsageRow /\ extra \in Nat /\ paidOnly \in BOOLEAN
    BY DEF TypeOK, UsageRow, SettleHigher
<1>2. Books \in Account /\ Books.wallet = wallet
    BY BooksAccount
<1>3. /\ wallet' = Debited(Books, extra, paidOnly).wallet
      /\ Covered(Books, extra, paidOnly, row.policy = "overdraft")
    BY DEF SettleHigher
<1>4. usage'[k].state = "settled" /\ usage'[k].policy = row.policy
    BY <1>1 DEF SettleHigher, TypeOK, UsageRow
<1>5. CASE row.policy = "overdraft"
    BY <1>4, <1>5 DEF Sanctioned
<1>6. CASE row.policy # "overdraft"
  <2>1. Covered(Books, extra, paidOnly, FALSE)
    BY <1>3, <1>6 DEF Covered
  <2> HIDE DEF extra, paidOnly
  <2>2. wallet' >= 0 \/ wallet' = wallet
    BY <1>1, <1>2, <1>3, <2>1, CoveredKeepsWallet
  <2>3. wallet \in Int /\ wallet' \in Int
    BY <1>1, <1>2, <1>3, DebitedAccount DEF TypeOK, Account
  <2> QED BY <2>2, <2>3
<1> QED BY <1>5, <1>6

\* What creditUsageRefundTx does never lowers the wallet.
LEMMA CreditsAddNoDebt ==
    ASSUME TypeOK, NEW k \in Keys,
           (\E charge \in Nat : SettleLower(k, charge)) \/ RefundUsage(k)
    PROVE  wallet' \in Int /\ wallet' >= wallet
<1>1. usage[k] \in UsageRow
    BY DEF TypeOK
<1>2. CASE \E charge \in Nat : SettleLower(k, charge)
  <2>1. PICK charge \in Nat : SettleLower(k, charge)
    BY <1>2
  <2> DEFINE fromWallet == WalletPart(usage[k], usage[k].charge - charge)
             fromGrants == GrantPart(usage[k], usage[k].charge - charge)
  <2>2. charge <= usage[k].charge /\ usage[k].wallet \in Nat /\ usage[k].grant \in Nat
    BY <1>1, <2>1, RowFields DEF SettleLower
  <2>3. fromWallet \in 0..usage[k].wallet /\ fromGrants \in 0..usage[k].grant
    BY <1>1, <2>2, LowerParts
  <2> HIDE DEF fromWallet, fromGrants
  <2>4. fromWallet \in Nat /\ fromGrants \in Nat
    BY <2>2, <2>3
  <2>5. PICK up \in BOOLEAN : CreditUsageRefund(k, fromGrants, fromWallet, up)
    BY <2>1 DEF SettleLower, fromWallet, fromGrants
  <2> QED BY <2>4, <2>5, CreditType
<1>3. CASE RefundUsage(k)
  <2>1. usage[k].grant \in Nat /\ usage[k].wallet \in Nat
    BY <1>1, RowFields
  <2>2. PICK up \in BOOLEAN : CreditUsageRefund(k, usage[k].grant, usage[k].wallet, up)
    BY <1>3 DEF RefundUsage
  <2> QED BY <2>1, <2>2, CreditType
<1> QED BY <1>2, <1>3

\* No step overdraws the wallet without a payment, an adjustment or an overdraft row.
LEMMA NextDebt ==
    TypeOK /\ [Next]_vars => (wallet' < wallet /\ wallet' < 0 => Sanctioned)
<1> SUFFICES ASSUME TypeOK, [Next]_vars, wallet' < wallet, wallet' < 0
             PROVE  Sanctioned
    OBVIOUS
<1>0. wallet \in Int
    BY DEF TypeOK
<1>1. CASE Reserve
    BY <1>1, ReserveDebt DEF Reserve
<1>2. CASE Settle
  <2>1. PICK k \in Keys, actual \in Charges : SettleUsage(k, actual)
    BY <1>2 DEF Settle
  <2>2. PICK charge \in Nat :
          SettleHigher(k, charge) \/ SettleAbsorbed(k, charge) \/ SettleLower(k, charge)
    BY <2>1, SettleCharge DEF SettleUsage
  <2>3. usage[k].state = "reserved"
    BY <2>1 DEF SettleUsage
  <2>4. CASE SettleHigher(k, charge)
    BY <2>3, <2>4, SettleDebt
  <2>5. CASE SettleAbsorbed(k, charge)
    BY <1>0, <2>5 DEF SettleAbsorbed
  <2>6. CASE SettleLower(k, charge)
    BY <1>0, <2>6, CreditsAddNoDebt
  <2> QED BY <2>2, <2>4, <2>5, <2>6
<1>3. CASE Refund
    BY <1>0, <1>3, CreditsAddNoDebt DEF Refund
<1>4. CASE Topup
  <2>1. PICK amount \in TopUps : wallet' = wallet + amount
    BY <1>4 DEF Topup, RecordTopup
  <2> QED BY <1>0, <2>1, AmountsAssumption
<1>5. CASE PaymentRefund
  <2>1. PICK p \in Payments, total \in TopUps : RecordChargeRefund(p, total)
    BY <1>5 DEF PaymentRefund
  <2> DEFINE delta == Surplus(Least(total, payments[p].paid), payments[p].refunded)
  <2>2. delta \in Nat /\ delta > 0 /\ payments[p].refunded \in Nat
    <3>1. delta > 0
      BY <2>1 DEF RecordChargeRefund
    <3>2. payments[p].paid \in Nat /\ payments[p].refunded \in Nat /\ total \in Nat
      BY AmountsAssumption DEF TypeOK
    <3>3. Least(total, payments[p].paid) \in Nat
      BY <3>2, LeastNat
    <3> QED BY <3>1, <3>2, <3>3, SurplusNat
  <2>3. payments' = [payments EXCEPT ![p].refunded = payments[p].refunded + delta]
    BY <2>1 DEF RecordChargeRefund
  <2> HIDE DEF delta
  <2>4. payments'[p].refunded = payments[p].refunded + delta
    BY <2>3 DEF TypeOK
  <2> QED BY <2>2, <2>4 DEF Sanctioned
<1>6. CASE Adjust
  <2>1. PICK amount \in Adjustments : adjusted' = adjusted + amount
    BY <1>6 DEF Adjust, AdjustWallet
  <2>2. amount \in Int /\ amount # 0 /\ adjusted \in Int
    BY AmountsAssumption DEF TypeOK
  <2> QED BY <2>1, <2>2 DEF Sanctioned
<1>7. CASE Grant \/ Tick \/ UNCHANGED vars
  <2>1. wallet' = wallet
    BY <1>7 DEF Grant, AddGrant, Tick, vars
  <2> QED BY <1>0, <2>1
<1> QED BY <1>1, <1>2, <1>3, <1>4, <1>5, <1>6, <1>7 DEF Next

\* The wallet goes below zero only by a refunded payment, an administrator's
\* adjustment, or a row reserved under allow_negative_balance.
THEOREM DebtIsSanctioned == Spec => NoUnsanctionedDebt
<1>1. TypeOK /\ [Next]_vars
        => [wallet' < wallet /\ wallet' < 0
              => \/ payments' # payments
                 \/ adjusted' # adjusted
                 \/ \E k \in Keys : usage'[k] # usage[k] /\ usage'[k].policy = "overdraft"]_vars
    BY NextDebt DEF Sanctioned
<1> QED BY <1>1, Typing, PTL DEF Spec, NoUnsanctionedDebt

-----------------------------------------------------------------------------
(* Discounted prices and gift balance                                      *)

SparesGifts ==
    \A k \in Keys, g \in Lots :
        usage'[k].route = "discounted" /\ lots[g].funding = "gift"
            => posted'[k][g].net <= posted[k][g].net

\* Rows that no ledger row is added for spare the gifts.
LEMMA UnpostedSparesGifts == TypeOK /\ posted' = posted => SparesGifts
  BY DEF TypeOK, SparesGifts

\* The reservation of a discounted row takes from no gift lot.
LEMMA ReserveSpares ==
    ASSUME TypeOK,
           NEW k \in Keys, NEW a \in Keys \cup {NoKey}, NEW route \in Routes,
           NEW policy \in Policies, NEW charge \in Charges, NEW extra \in Charges \cup {0},
           ReserveUsage(k, charge, route, a, extra, policy)
    PROVE  SparesGifts
<1> DEFINE paidOnly == route = "discounted"
           due1     == Due(k, charge, policy)
           due2     == Due(a, extra, policy)
           b1       == Debited(Books, due1, paidOnly)
<1>1. due1 \in Nat /\ due2 \in Nat
    BY DueNat, AmountsAssumption
<1>2. /\ usage' = [x \in Keys |->
            IF x = k /\ Fresh(k)
            THEN ReservedRow(k, Books, due1, paidOnly, route, policy)
            ELSE IF x = a /\ a # NoKey /\ Fresh(a)
            THEN ReservedRow(a, b1, due2, FALSE, "open", policy)
            ELSE usage[x]]
      /\ posted' = [x \in Keys |->
            IF x = k /\ Fresh(k)
            THEN PostTaken(posted[k], Books, due1, paidOnly, usage[k].posts + 1)
            ELSE IF x = a /\ a # NoKey /\ Fresh(a)
            THEN PostTaken(posted[a], b1, due2, FALSE, usage[a].posts + 1)
            ELSE posted[x]]
    BY DEF ReserveUsage
<1> SUFFICES ASSUME NEW x \in Keys, NEW g \in Lots,
                    usage'[x].route = "discounted", lots[g].funding = "gift"
             PROVE  posted'[x][g].net <= posted[x][g].net
    BY DEF SparesGifts
<1>3. posted[x][g].net \in Int /\ posted \in [Keys -> Posts]
    BY DEF TypeOK, Posts
<1>4. CASE x = k /\ Fresh(k)
  <2> DEFINE rows == PostTaken(posted[k], Books, due1, paidOnly, usage[k].posts + 1)
  <2>1. usage'[x].route = route
    BY <1>2, <1>4 DEF ReservedRow
  <2>2. posted'[x] = rows
    BY <1>2, <1>4
  <2>3. paidOnly
    BY <2>1
  <2> HIDE DEF due1, paidOnly
  <2>4. Taken(Books, due1, paidOnly)[g] = 0
    BY <2>3 DEF Taken, Spendable
  <2>5. rows[g] = posted[k][g]
    BY <2>4 DEF PostTaken
  <2> HIDE DEF rows
  <2>6. posted'[x][g] = posted[x][g]
    BY <1>4, <2>2, <2>5
  <2> QED BY <1>3, <2>6
<1>5. CASE ~(x = k /\ Fresh(k)) /\ x = a /\ a # NoKey /\ Fresh(a)
  <2>1. usage'[x].route = "open"
    BY <1>2, <1>5 DEF ReservedRow
  <2> QED BY <2>1
<1>6. CASE ~(x = k /\ Fresh(k)) /\ ~(x = a /\ a # NoKey /\ Fresh(a))
  <2>1. posted'[x] = posted[x]
    BY <1>2, <1>6
  <2> QED BY <1>3, <2>1
<1> QED BY <1>4, <1>5, <1>6

\* The settlement of a discounted row takes from no gift lot.
LEMMA SettleHigherSpares ==
    ASSUME TypeOK, NEW k \in Keys, NEW charge \in Nat, SettleHigher(k, charge)
    PROVE  SparesGifts
<1> DEFINE row      == usage[k]
           extra    == charge - row.charge
           paidOnly == row.route # "open"
<1>1. row \in UsageRow /\ extra \in Nat
    BY DEF TypeOK, UsageRow, SettleHigher
<1>2. posted' = [posted EXCEPT ![k] = PostTaken(@, Books, extra, paidOnly, row.posts + 1)]
    BY DEF SettleHigher
<1>3. usage'[k].route = row.route
    BY <1>1 DEF SettleHigher, TypeOK, UsageRow
<1> SUFFICES ASSUME NEW x \in Keys, NEW g \in Lots,
                    usage'[x].route = "discounted", lots[g].funding = "gift"
             PROVE  posted'[x][g].net <= posted[x][g].net
    BY DEF SparesGifts
<1>4. posted[x][g].net \in Int /\ posted \in [Keys -> Posts]
    BY DEF TypeOK, Posts
<1>5. CASE x = k
  <2> DEFINE rows == PostTaken(posted[k], Books, extra, paidOnly, row.posts + 1)
  <2>1. posted'[k] = rows
    BY <1>2, <1>4
  <2>2. paidOnly
    BY <1>3, <1>5
  <2> HIDE DEF extra, row, paidOnly
  <2>3. Taken(Books, extra, paidOnly)[g] = 0
    BY <2>2 DEF Taken, Spendable
  <2>4. rows[g] = posted[k][g]
    BY <2>3 DEF PostTaken
  <2> HIDE DEF rows
  <2>5. posted'[k][g] = posted[k][g]
    BY <2>1, <2>4
  <2> QED BY <1>4, <1>5, <2>5
<1>6. CASE x # k
    BY <1>2, <1>4, <1>6
<1> QED BY <1>5, <1>6

\* A refund takes from no lot.
LEMMA CreditSpares ==
    ASSUME TypeOK, NEW k \in Keys, NEW fromGrants \in Nat, NEW fromWallet,
           NEW up \in BOOLEAN, CreditUsageRefund(k, fromGrants, fromWallet, up)
    PROVE  SparesGifts
<1>1. usage[k].posts + 1 \in Nat
    BY RowFields DEF TypeOK
<1>2. \A g \in Lots : lots[g].funding = "gift"
        => PostRestored(k, fromGrants, up, usage[k].posts + 1)[g].net <= posted[k][g].net
    BY <1>1, PostRestoredType
<1>3. posted' = [posted EXCEPT ![k] = PostRestored(k, fromGrants, up, usage[k].posts + 1)]
    BY DEF CreditUsageRefund
<1>4. \A x \in Keys, g \in Lots : posted[x][g].net \in Int
    BY DEF TypeOK
<1>5. \A x \in Keys : posted'[x] = IF x = k
                                   THEN PostRestored(k, fromGrants, up, usage[k].posts + 1)
                                   ELSE posted[x]
    BY <1>3 DEF TypeOK
<1> QED BY <1>2, <1>4, <1>5 DEF SparesGifts

\* No step debits a gift lot for a discounted row.
LEMMA NextSpares == TypeOK /\ [Next]_vars => SparesGifts
<1> SUFFICES ASSUME TypeOK, [Next]_vars PROVE SparesGifts
    OBVIOUS
<1>1. CASE Reserve
    BY <1>1, ReserveSpares DEF Reserve
<1>2. CASE Settle
  <2>1. PICK k \in Keys, actual \in Charges : SettleUsage(k, actual)
    BY <1>2 DEF Settle
  <2>2. PICK charge \in Nat :
          SettleHigher(k, charge) \/ SettleAbsorbed(k, charge) \/ SettleLower(k, charge)
    BY <2>1, SettleCharge DEF SettleUsage
  <2>3. CASE SettleHigher(k, charge)
    BY <2>3, SettleHigherSpares
  <2>4. CASE SettleAbsorbed(k, charge)
    BY <2>4, UnpostedSparesGifts DEF SettleAbsorbed
  <2>5. CASE SettleLower(k, charge)
    <3> DEFINE fromWallet == WalletPart(usage[k], usage[k].charge - charge)
               fromGrants == GrantPart(usage[k], usage[k].charge - charge)
    <3>1. /\ usage[k] \in UsageRow
          /\ charge <= usage[k].charge
          /\ usage[k].grant \in Nat
      BY <2>5, RowFields DEF SettleLower, TypeOK
    <3>2. fromGrants \in 0..usage[k].grant
      BY <3>1, LowerParts
    <3>3. fromGrants \in Nat
      BY <3>1, <3>2
    <3>4. PICK up \in BOOLEAN : CreditUsageRefund(k, fromGrants, fromWallet, up)
      BY <2>5 DEF SettleLower
    <3> QED BY <3>3, <3>4, CreditSpares
  <2> QED BY <2>2, <2>3, <2>4, <2>5
<1>3. CASE Refund
  <2>1. PICK k \in Keys : RefundUsage(k)
    BY <1>3 DEF Refund
  <2>2. usage[k].grant \in Nat
    BY RowFields DEF TypeOK
  <2>3. PICK up \in BOOLEAN : CreditUsageRefund(k, usage[k].grant, usage[k].wallet, up)
    BY <2>1 DEF RefundUsage
  <2> QED BY <2>2, <2>3, CreditSpares
<1>4. CASE Topup \/ PaymentRefund \/ Grant \/ Adjust \/ Tick \/ UNCHANGED vars
    BY <1>4, UnpostedSparesGifts
       DEF Topup, PaymentRefund, Grant, Adjust, Tick, vars,
           RecordTopup, RecordChargeRefund, AddGrant, AdjustWallet
<1> QED BY <1>1, <1>2, <1>3, <1>4 DEF Next

\* A discounted price is never paid from a gift: not when it is reserved, not
\* when a settlement asks for more, not when a durable key is used again.
THEOREM DiscountsSpareGifts == Spec => DiscountSparesGifts
<1>1. TypeOK /\ [Next]_vars
        => [\A k \in Keys, g \in Lots :
              usage'[k].route = "discounted" /\ lots[g].funding = "gift"
                  => posted'[k][g].net <= posted[k][g].net]_vars
    BY NextSpares DEF SparesGifts
<1> QED BY <1>1, Typing, PTL DEF Spec, DiscountSparesGifts

-----------------------------------------------------------------------------
(* What has ended stays as it is                                           *)

Ended(k) ==
    usage[k].state = "settled" \/ (usage[k].state = "refunded" /\ k \notin Durable)

\* No step changes an ended row that may not be taken again.
LEMMA NextFinal ==
    TypeOK /\ [Next]_vars
        => \A k \in Keys : Ended(k) => usage'[k] = usage[k] /\ posted'[k] = posted[k]
<1> SUFFICES ASSUME TypeOK, [Next]_vars, NEW x \in Keys, Ended(x)
             PROVE  usage'[x] = usage[x] /\ posted'[x] = posted[x]
    OBVIOUS
<1>1. CASE Reserve
  <2>1. ~Fresh(x)
    BY DEF Ended, Fresh
  <2>2. PICK k \in Keys, a \in Keys \cup {NoKey}, route \in Routes, policy \in Policies,
             charge \in Charges, extra \in Charges \cup {0} :
            ReserveUsage(k, charge, route, a, extra, policy)
    BY <1>1 DEF Reserve
  <2> DEFINE paidOnly == route = "discounted"
             due1     == Due(k, charge, policy)
             due2     == Due(a, extra, policy)
             b1       == Debited(Books, due1, paidOnly)
             row1     == ReservedRow(k, Books, due1, paidOnly, route, policy)
             row2     == ReservedRow(a, b1, due2, FALSE, "open", policy)
             rows1    == PostTaken(posted[k], Books, due1, paidOnly, usage[k].posts + 1)
             rows2    == PostTaken(posted[a], b1, due2, FALSE, usage[a].posts + 1)
  <2>3. /\ usage' = [y \in Keys |-> IF y = k /\ Fresh(k) THEN row1
                                    ELSE IF y = a /\ a # NoKey /\ Fresh(a) THEN row2
                                    ELSE usage[y]]
        /\ posted' = [y \in Keys |-> IF y = k /\ Fresh(k) THEN rows1
                                     ELSE IF y = a /\ a # NoKey /\ Fresh(a) THEN rows2
                                     ELSE posted[y]]
    BY <2>2 DEF ReserveUsage
  <2> HIDE DEF row1, row2, rows1, rows2
  <2> QED BY <2>1, <2>3
<1>2. ASSUME NEW k \in Keys, usage[k].state = "reserved"
      PROVE  x # k
    BY <1>2 DEF Ended
<1>3. CASE Settle
  <2>1. PICK k \in Keys, actual \in Charges : SettleUsage(k, actual)
    BY <1>3 DEF Settle
  <2>2. x # k
    BY <1>2, <2>1 DEF SettleUsage
  <2>3. PICK charge :
          SettleHigher(k, charge) \/ SettleAbsorbed(k, charge) \/ SettleLower(k, charge)
    BY <2>1 DEF SettleUsage
  <2>4. CASE SettleHigher(k, charge)
    BY <2>2, <2>4 DEF SettleHigher, TypeOK
  <2>5. CASE SettleAbsorbed(k, charge)
    BY <2>2, <2>5 DEF SettleAbsorbed, TypeOK
  <2>6. CASE SettleLower(k, charge)
    BY <2>2, <2>6 DEF SettleLower, CreditUsageRefund, TypeOK
  <2> QED BY <2>3, <2>4, <2>5, <2>6
<1>4. CASE Refund
  <2>1. PICK k \in Keys : RefundUsage(k)
    BY <1>4 DEF Refund
  <2>2. x # k
    BY <1>2, <2>1 DEF RefundUsage
  <2> QED BY <2>1, <2>2 DEF RefundUsage, CreditUsageRefund, TypeOK
<1>5. CASE Topup \/ PaymentRefund \/ Grant \/ Adjust \/ Tick \/ UNCHANGED vars
    BY <1>5 DEF Topup, PaymentRefund, Grant, Adjust, Tick, vars,
                RecordTopup, RecordChargeRefund, AddGrant, AdjustWallet
<1> QED BY <1>1, <1>3, <1>4, <1>5 DEF Next

\* Settlement and refund happen once: nothing moves money for a row that ended.
THEOREM EndedRowsAreFinal == Spec => EndedIsFinal
<1>1. TypeOK /\ [Next]_vars
        => [\A k \in Keys :
              (usage[k].state = "settled" \/ (usage[k].state = "refunded" /\ k \notin Durable))
                  => usage'[k] = usage[k] /\ posted'[k] = posted[k]]_vars
    BY NextFinal DEF Ended
<1> QED BY <1>1, Typing, PTL DEF Spec, EndedIsFinal

-----------------------------------------------------------------------------
(* What debits and refunds add up to                                       *)

\* Lots are numbered as they are opened, and what was not opened is empty.
Numbered ==
    \A g \in Lots :
        /\ g <= opened => lots[g].funding # "none"
        /\ g > opened  => lots[g].remaining = 0 /\ \A k \in Keys : posted[k][g].net = 0

GiftLots == {g \in Lots : lots[g].funding = "gift"}

\* The net of ledger rows "rows" over the lots of T.
NetOf(rows, T) == SumFunctionOnSet([g \in Lots |-> rows[g].net], T)

\* The lots a debit may use have an order: each comes before or after another.
LEMMA SpendingIsRanked ==
    ASSUME TypeOK, Numbered, NEW paidOnly \in BOOLEAN
    PROVE  LET S == Spendable(paidOnly)
           IN  Ranked(S, [g \in S |-> {h \in S : SpentBefore(h, g)}])
<1> DEFINE S     == Spendable(paidOnly)
           ahead == [g \in S |-> {h \in S : SpentBefore(h, g)}]
<1>1. \A g \in S : /\ g \in Nat /\ lots[g].expires \in Nat
                   /\ lots[g].funding = "gift" \/ lots[g].funding = "paid"
  <2> SUFFICES ASSUME NEW g \in S
               PROVE  /\ g \in Nat /\ lots[g].expires \in Nat
                      /\ lots[g].funding = "gift" \/ lots[g].funding = "paid"
    OBVIOUS
  <2>1. g \in Lots /\ g \in Nat /\ g <= opened /\ lots[g] \in Lot
    BY BoundsAssumption DEF Spendable, Open, Lots, TypeOK
  <2>2. lots[g].funding # "none"
    BY <2>1 DEF Numbered
  <2> QED BY <2>1, <2>2 DEF Lot
<1> HIDE DEF S
<1>2. ASSUME NEW g \in S
      PROVE  ~SpentBefore(g, g)
    BY <1>1 DEF SpentBefore
<1>3. ASSUME NEW g \in S, NEW h \in S
      PROVE  g = h \/ SpentBefore(g, h) \/ SpentBefore(h, g)
    BY <1>1 DEF SpentBefore
<1>4. ASSUME NEW g \in S, NEW h \in S, NEW i \in S, SpentBefore(g, h), SpentBefore(h, i)
      PROVE  SpentBefore(g, i)
    BY <1>1, <1>4 DEF SpentBefore
<1>5. \A g \in S : ahead[g] \in SUBSET S /\ g \notin ahead[g]
    BY <1>2
<1>6. \A g, h \in S : g = h \/ g \in ahead[h] \/ h \in ahead[g]
    BY <1>3
<1>7. \A g, h \in S : h \in ahead[g] => ahead[h] \subseteq ahead[g]
  <2> SUFFICES ASSUME NEW g \in S, NEW h \in S, h \in ahead[g], NEW i \in ahead[h]
               PROVE  i \in ahead[g]
    OBVIOUS
  <2>1. SpentBefore(h, g) /\ i \in S /\ SpentBefore(i, h)
    OBVIOUS
  <2> QED BY <1>4, <2>1
<1>8. Ranked(S, ahead)
  <2> HIDE DEF ahead
  <2> QED BY <1>5, <1>6, <1>7 DEF Ranked
<1> QED BY <1>8 DEF S

\* A debit takes its grant part from the lots, and its gift part from the gift
\* lots among them.
LEMMA TakenIs ==
    ASSUME TypeOK, Numbered, NEW b \in Account, NEW amount \in Nat, NEW paidOnly \in BOOLEAN
    PROVE  LET taken == Taken(b, amount, paidOnly)
           IN  /\ SumFunctionOnSet(taken, Lots) = FromGrants(b, amount, paidOnly)
               /\ SumFunctionOnSet(taken, GiftLots) = FromGifts(b, amount, paidOnly)
<1> DEFINE S     == Spendable(paidOnly)
           ahead == [g \in S |-> {h \in S : SpentBefore(h, g)}]
           taken == Taken(b, amount, paidOnly)
           all   == SumFunctionOnSet(b.left, S)
<1>1. /\ S \in SUBSET Lots /\ \A g \in S : b.left[g] \in Nat
      /\ all \in Nat /\ IsFiniteSet(S) /\ S \in SUBSET S /\ IsFiniteSet(Lots)
    BY SpendableLots, LotsFinite
<1>2. taken \in [Lots -> Nat]
    BY TakenBounded
<1>3. \A g \in Lots : g \notin S => taken[g] = 0
    BY DEF Taken
<1>4. \A g \in S : taken[g] = Gives(b.left, ahead, amount, g)
  <2> SUFFICES ASSUME NEW g \in S PROVE taken[g] = Gives(b.left, ahead, amount, g)
    OBVIOUS
  <2>1. ahead[g] = {h \in Spendable(paidOnly) : SpentBefore(h, g)} /\ g \in Lots
    BY <1>1
  <2> HIDE DEF ahead
  <2>2. taken[g] = Least(b.left[g], Surplus(amount, SumFunctionOnSet(b.left, ahead[g])))
    BY <2>1 DEF Taken
  <2> QED BY <2>2 DEF Gives, Least, Surplus
<1>5. Ranked(S, ahead)
    BY SpendingIsRanked
<1> HIDE DEF taken, ahead, S, all
<1>6. Taking(S, ahead, b.left, amount, taken)
    BY <1>1, <1>4, <1>5 DEF Taking
<1>7. SumFunctionOnSet(taken, S) = Least(amount, all)
  <2>1. \A g \in S : ahead[g] \subseteq S
    BY <1>5 DEF Ranked
  <2> QED BY <1>1, <1>6, <2>1, TakenInAll DEF Least, all
<1>8. SumFunctionOnSet(taken, Lots) = SumFunctionOnSet(taken, S)
    BY <1>1, <1>2, <1>3, SumPart
<1>9. SumFunctionOnSet(taken, Lots) = FromGrants(b, amount, paidOnly)
    BY <1>7, <1>8 DEF FromGrants, S, all
<1>10. SumFunctionOnSet(taken, GiftLots) = FromGifts(b, amount, paidOnly)
  <2> DEFINE T == {g \in S : lots[g].funding = "gift"}
  <2>1. /\ T \in SUBSET GiftLots /\ T \in SUBSET S /\ IsFiniteSet(GiftLots)
        /\ \A g \in GiftLots : taken[g] \in Int /\ (g \notin T => taken[g] = 0)
    <3>1. GiftLots \in SUBSET Lots
      BY DEF GiftLots
    <3> QED BY <1>1, <1>2, <1>3, <3>1, LotsFinite DEF GiftLots
  <2>2. SumFunctionOnSet(taken, GiftLots) = SumFunctionOnSet(taken, T)
    <3> HIDE DEF T
    <3> QED BY <2>1, SumPart
  <2>3. CASE paidOnly
    <3>1. T = {}
      BY <2>3 DEF S, Spendable
    <3> QED BY <2>2, <2>3, <3>1, SumOfNone DEF FromGifts
  <2>4. CASE ~paidOnly
    <3>1. \A g \in T : ahead[g] \subseteq T
      <4> SUFFICES ASSUME NEW g \in T, NEW h \in ahead[g] PROVE h \in T
        OBVIOUS
      <4>1. h \in S /\ SpentBefore(h, g)
        BY DEF ahead
      <4> QED BY <4>1 DEF SpentBefore
    <3>2. T = {g \in Spendable(FALSE) : lots[g].funding = "gift"}
      BY <2>4 DEF S
    <3> DEFINE gifts == SumFunctionOnSet(b.left, T)
    <3> HIDE DEF T
    <3>3. gifts \in Nat /\ SumFunctionOnSet(taken, T) = Least(amount, gifts)
      BY <1>6, <2>1, <3>1, TakenInAll DEF Least
    <3>4. gifts <= all
      <4>1. \A g \in S : b.left[g] \in Int
        BY <1>1
      <4>2. SumFunctionOnSet(b.left, S \ T) \in Int /\ all = gifts + SumFunctionOnSet(b.left, S \ T)
        BY <1>1, <2>1, <4>1, SumUnion DEF all
      <4>3. SumFunctionOnSet(b.left, S \ T) \in Nat
        <5>1. IsFiniteSet(S \ T)
          BY <1>1, FS_Subset
        <5> QED BY <1>1, <5>1, SumNat
      <4> QED BY <3>3, <4>2, <4>3
    <3>5. FromGifts(b, amount, paidOnly) = Least(Least(amount, all), gifts)
      BY <2>4, <3>2 DEF FromGifts, FromGrants, S, all
    <3> HIDE DEF gifts
    <3> QED BY <1>1, <2>2, <3>3, <3>4, <3>5 DEF Least
  <2> QED BY <2>3, <2>4
<1> QED BY <1>9, <1>10 DEF taken

\* So the lots and the wallet lose, together, what is charged.
LEMMA DebitedIs ==
    ASSUME TypeOK, Numbered, NEW b \in Account, NEW amount \in Nat, NEW paidOnly \in BOOLEAN
    PROVE  LET after == Debited(b, amount, paidOnly)
           IN  /\ SumFunctionOnSet(b.left, Lots) \in Int
               /\ SumFunctionOnSet(after.left, Lots)
                    = SumFunctionOnSet(b.left, Lots) - FromGrants(b, amount, paidOnly)
<1> DEFINE taken == Taken(b, amount, paidOnly)
           left  == Debited(b, amount, paidOnly).left
<1>1. left = [g \in Lots |-> b.left[g] - taken[g]]
    BY DEF Debited
<1>2. taken \in [Lots -> Nat] /\ b.left \in [Lots -> Nat]
    BY TakenBounded DEF Account
<1>3. IsFiniteSet(Lots) /\ SumFunctionOnSet(taken, Lots) = FromGrants(b, amount, paidOnly)
    BY LotsFinite, TakenIs
<1> HIDE DEF taken, left
<1>4. \A g \in Lots : left[g] \in Int /\ taken[g] \in Int /\ b.left[g] = left[g] + taken[g]
    BY <1>1, <1>2
<1>5. SumFunctionOnSet(b.left, Lots) = SumFunctionOnSet(left, Lots) + SumFunctionOnSet(taken, Lots)
    BY <1>3, <1>4, SumPlus
<1>6. SumFunctionOnSet(left, Lots) \in Int /\ SumFunctionOnSet(taken, Lots) \in Int
      /\ SumFunctionOnSet(b.left, Lots) \in Int
    BY <1>2, <1>3, <1>4, SumInt
<1>7. SumFunctionOnSet(left, Lots) = SumFunctionOnSet(b.left, Lots) - FromGrants(b, amount, paidOnly)
    BY <1>3, <1>5, <1>6
<1> QED BY <1>6, <1>7 DEF left

\* The ledger rows of a debit say what it took.
LEMMA PostTakenIs ==
    ASSUME TypeOK, NEW b \in Account, NEW amount \in Nat, NEW paidOnly \in BOOLEAN,
           NEW rows \in Posts, NEW stamp \in Nat, NEW T \in SUBSET Lots
    PROVE  LET after == PostTaken(rows, b, amount, paidOnly, stamp)
               taken == Taken(b, amount, paidOnly)
           IN  /\ \A g \in Lots : after[g].net = rows[g].net + taken[g]
               /\ NetOf(rows, T) \in Int
               /\ NetOf(after, T) = NetOf(rows, T) + SumFunctionOnSet(taken, T)
<1> DEFINE taken == Taken(b, amount, paidOnly)
           after == PostTaken(rows, b, amount, paidOnly, stamp)
           old   == [g \in Lots |-> rows[g].net]
           new   == [g \in Lots |-> after[g].net]
<1>1. taken \in [Lots -> Nat] /\ \A g \in Lots : rows[g].net \in Int
    BY TakenBounded DEF Posts
<1>2. after = [g \in Lots |-> IF taken[g] = 0
                              THEN rows[g]
                              ELSE [net   |-> rows[g].net + taken[g],
                                    first |-> IF rows[g].first = 0 THEN stamp ELSE rows[g].first]]
    BY DEF PostTaken
<1> HIDE DEF taken, after
<1>3. \A g \in Lots : after[g].net = rows[g].net + taken[g]
    BY <1>1, <1>2
<1>4. \A g \in T : old[g] \in Int /\ taken[g] \in Int /\ new[g] = old[g] + taken[g]
    BY <1>1, <1>3
<1> HIDE DEF old, new
<1>5. IsFiniteSet(T)
    BY LotsFinite
<1>6. SumFunctionOnSet(old, T) \in Int
    BY <1>4, <1>5, SumInt
<1>7. SumFunctionOnSet(new, T) = SumFunctionOnSet(old, T) + SumFunctionOnSet(taken, T)
    BY <1>4, <1>5, SumPlus
<1> QED BY <1>3, <1>6, <1>7 DEF NetOf, old, new, taken, after

\* The lots a refund goes back to have an order too, whichever way the lots of
\* one transaction are sorted.
LEMMA RefundingIsRanked ==
    ASSUME TypeOK, NEW k \in Keys, NEW up \in BOOLEAN
    PROVE  Ranked(Lots, [g \in Lots |-> {h \in Lots : RestoredBefore(k, h, g, up)}])
<1> DEFINE ahead == [g \in Lots |-> {h \in Lots : RestoredBefore(k, h, g, up)}]
<1>1. \A g \in Lots : g \in Nat /\ posted[k][g].first \in Nat
    BY BoundsAssumption DEF Lots, TypeOK
<1>2. ASSUME NEW g \in Lots PROVE ~RestoredBefore(k, g, g, up)
    BY <1>1 DEF RestoredBefore
<1>3. ASSUME NEW g \in Lots, NEW h \in Lots
      PROVE  g = h \/ RestoredBefore(k, g, h, up) \/ RestoredBefore(k, h, g, up)
    BY <1>1 DEF RestoredBefore
<1>4. ASSUME NEW g \in Lots, NEW h \in Lots, NEW i \in Lots,
             RestoredBefore(k, g, h, up), RestoredBefore(k, h, i, up)
      PROVE  RestoredBefore(k, g, i, up)
    BY <1>1, <1>4 DEF RestoredBefore
<1>5. \A g \in Lots : ahead[g] \in SUBSET Lots /\ g \notin ahead[g]
    BY <1>2
<1>6. \A g, h \in Lots : g = h \/ g \in ahead[h] \/ h \in ahead[g]
    BY <1>3
<1>7. \A g, h \in Lots : h \in ahead[g] => ahead[h] \subseteq ahead[g]
  <2> SUFFICES ASSUME NEW g \in Lots, NEW h \in Lots, h \in ahead[g], NEW i \in ahead[h]
               PROVE  i \in ahead[g]
    OBVIOUS
  <2>1. RestoredBefore(k, h, g, up) /\ i \in Lots /\ RestoredBefore(k, i, h, up)
    OBVIOUS
  <2> QED BY <1>4, <2>1
<1> HIDE DEF ahead
<1>8. Ranked(Lots, ahead)
    BY <1>5, <1>6, <1>7 DEF Ranked
<1> QED BY <1>8 DEF ahead

\* What a refund returns in all: what the lots are owed, or the amount; the
\* wallet gets the rest, which is nothing while the rows account for it.
LEMMA RestoredIs ==
    ASSUME TypeOK, NEW k \in Keys, NEW amount \in Nat, NEW up \in BOOLEAN
    PROVE  LET restored == Restored(k, amount, up)
           IN  /\ SumFunctionOnSet(restored, Lots) \in Nat
               /\ SumFunctionOnSet(restored, Lots) + Untraceable(k, amount) = amount
               /\ amount <= NetOf(posted[k], Lots) => Untraceable(k, amount) = 0
               /\ \A g \in Lots : /\ restored[g] <= Owed(k, g)
                                  /\ posted[k][g].net >= 0 => restored[g] <= posted[k][g].net
<1> DEFINE owed     == [g \in Lots |-> Owed(k, g)]
           ahead    == [g \in Lots |-> {h \in Lots : RestoredBefore(k, h, g, up)}]
           net      == [g \in Lots |-> posted[k][g].net]
           restored == Restored(k, amount, up)
           all      == SumFunctionOnSet(owed, Lots)
<1>1. \A g \in Lots : /\ owed[g] \in Nat /\ net[g] \in Int /\ net[g] <= owed[g]
                      /\ net[g] >= 0 => owed[g] = net[g]
    BY DEF TypeOK, Owed, Surplus
<1>2. restored = [g \in Lots |-> Least(owed[g],
                    Surplus(amount, SumFunctionOnSet(owed, {h \in Lots : RestoredBefore(k, h, g, up)})))]
    BY DEF Restored
<1>3. \A g \in Lots : restored[g] = Gives(owed, ahead, amount, g)
  <2> SUFFICES ASSUME NEW g \in Lots PROVE restored[g] = Gives(owed, ahead, amount, g)
    OBVIOUS
  <2>1. ahead[g] = {h \in Lots : RestoredBefore(k, h, g, up)}
    OBVIOUS
  <2> HIDE DEF ahead, owed, restored
  <2>2. restored[g] = Least(owed[g], Surplus(amount, SumFunctionOnSet(owed, ahead[g])))
    BY <1>2, <2>1
  <2> QED BY <2>2 DEF Gives, Least, Surplus
<1>4. IsFiniteSet(Lots) /\ Lots \in SUBSET Lots /\ restored \in [Lots -> Nat]
    BY LotsFinite, RestoredType
<1>5. Ranked(Lots, ahead)
    BY RefundingIsRanked
<1>6. \A g \in Lots : restored[g] <= owed[g]
  <2> SUFFICES ASSUME NEW g \in Lots PROVE restored[g] <= owed[g]
    OBVIOUS
  <2> DEFINE rest == Surplus(amount, SumFunctionOnSet(owed, {h \in Lots : RestoredBefore(k, h, g, up)}))
  <2>1. restored[g] = Least(owed[g], rest)
    BY <1>2
  <2>2. restored[g] \in Nat /\ owed[g] \in Nat
    BY <1>1, <1>4
  <2> HIDE DEF rest, owed, restored
  <2>3. CASE owed[g] <= rest
    <3>1. restored[g] = owed[g]
      BY <2>1, <2>3 DEF Least
    <3> QED BY <2>2, <3>1
  <2>4. CASE ~(owed[g] <= rest)
    <3>1. restored[g] = rest
      BY <2>1, <2>4 DEF Least
    <3> QED BY <2>2, <2>4, <3>1
  <2> QED BY <2>3, <2>4
<1>7. Untraceable(k, amount) = Surplus(amount, all)
    BY DEF Untraceable
<1>8. \A g \in Lots : owed[g] = Owed(k, g) /\ net[g] = posted[k][g].net
    OBVIOUS
<1> HIDE DEF owed, ahead, net, restored, all
<1>9. Taking(Lots, ahead, owed, amount, restored)
    BY <1>1, <1>3, <1>4, <1>5 DEF Taking
<1>10. all \in Nat /\ SumFunctionOnSet(restored, Lots) = IF amount <= all THEN amount ELSE all
  <2>1. \A g \in Lots : ahead[g] \subseteq Lots
    BY <1>5 DEF Ranked
  <2> QED BY <1>4, <1>9, <2>1, TakenInAll DEF all
<1>11. SumFunctionOnSet(restored, Lots) \in Nat
       /\ SumFunctionOnSet(restored, Lots) + Untraceable(k, amount) = amount
    BY <1>7, <1>10 DEF Surplus
<1>12. SumFunctionOnSet(net, Lots) \in Int /\ SumFunctionOnSet(net, Lots) <= all
  <2>1. \A g \in Lots : net[g] \in Int /\ owed[g] \in Int /\ net[g] <= owed[g]
    BY <1>1
  <2> QED BY <1>4, <2>1, SumInt, SumAtMost DEF all
<1>13. amount <= SumFunctionOnSet(net, Lots) => Untraceable(k, amount) = 0
    BY <1>7, <1>10, <1>12 DEF Surplus
<1>14. \A g \in Lots : restored[g] <= Owed(k, g)
                       /\ (posted[k][g].net >= 0 => restored[g] <= posted[k][g].net)
    BY <1>1, <1>6, <1>8
<1>15. amount <= NetOf(posted[k], Lots) => Untraceable(k, amount) = 0
    BY <1>13 DEF net, NetOf
<1> QED BY <1>11, <1>14, <1>15 DEF restored

\* Each lapsed lot is replaced by one new lot of its own.
OneToOne(r, S, T) ==
    /\ \A g \in S : r[g] \in T
    /\ \A h \in T : \E g \in S : r[g] = h
    /\ \A g, h \in S : r[g] = r[h] => g = h

LEMMA ReplacedIs ==
    ASSUME TypeOK, Numbered, NEW k \in Keys, NEW amount \in Nat, NEW up \in BOOLEAN,
           opened + Cardinality(Lapsed(k, amount, up)) <= MaxLots
    PROVE  LET replaced == Replaced(k, amount, up)
               lapsed   == Lapsed(k, amount, up)
           IN  /\ DOMAIN replaced \in SUBSET Lots
               /\ \A g \in DOMAIN replaced : g > opened /\ Restored(k, amount, up)[g] = 0
               /\ lapsed \in SUBSET Lots
               /\ \A g \in lapsed : g <= opened
               /\ \A g \in Lots : g > opened /\ g <= opened + Cardinality(lapsed)
                      => g \in DOMAIN replaced
               /\ OneToOne(replaced, DOMAIN replaced, lapsed)
<1> DEFINE restored  == Restored(k, amount, up)
           lapsed    == Lapsed(k, amount, up)
           replaced  == Replaced(k, amount, up)
           before(g) == {h \in lapsed : h = g \/ RestoredBefore(k, h, g, up)}
           number(g) == opened + Cardinality(before(g))
<1>1. lapsed \in SUBSET Lots /\ IsFiniteSet(lapsed)
    BY LotsFinite DEF Lapsed
<1>2. \A g \in Lots : g \in Nat /\ g >= 1 /\ opened \in Nat
    BY BoundsAssumption DEF Lots, TypeOK
<1>3. ASSUME NEW g \in Lots, g > opened PROVE restored[g] = 0
  <2>1. posted[k][g].net = 0
    BY <1>3 DEF Numbered
  <2>2. restored[g] \in Nat /\ restored[g] <= 0
    BY <2>1, RestoredIs, RestoredType
  <2> QED BY <2>2
<1>4. \A g \in lapsed : g <= opened
  <2> SUFFICES ASSUME NEW g \in lapsed PROVE g <= opened
    OBVIOUS
  <2>1. g \in Lots /\ restored[g] > 0
    BY DEF Lapsed
  <2> QED BY <1>2, <1>3, <2>1
<1>5. DOMAIN replaced \in SUBSET Lots /\ \A g \in DOMAIN replaced : g > opened /\ restored[g] = 0
  <2> SUFFICES ASSUME NEW g \in DOMAIN replaced
               PROVE  g \in Lots /\ g > opened /\ restored[g] = 0
    OBVIOUS
  <2>1. g \in Nat /\ g > opened /\ g <= opened + Cardinality(lapsed) /\ Cardinality(lapsed) \in Nat
    BY ReplacedNumbers
  <2>2. opened \in Nat /\ MaxLots \in Nat /\ opened + Cardinality(lapsed) <= MaxLots
    BY BoundsAssumption DEF TypeOK
  <2>3. g \in Lots
    <3> HIDE DEF lapsed, replaced
    <3> QED BY <2>1, <2>2 DEF Lots
  <2> QED BY <1>3, <2>1, <2>3
<1>6. replaced = [g \in {number(h) : h \in lapsed} |-> CHOOSE h \in lapsed : number(h) = g]
    BY DEF Replaced
<1>7. Ranked(Lots, [g \in Lots |-> {h \in Lots : RestoredBefore(k, h, g, up)}])
    BY RefundingIsRanked
<1> HIDE DEF lapsed, replaced
<1>8. ASSUME NEW g \in lapsed, NEW h \in lapsed, RestoredBefore(k, g, h, up)
      PROVE  number(g) # number(h)
  <2> DEFINE ahead == [x \in Lots |-> {y \in Lots : RestoredBefore(k, y, x, up)}]
  <2>1. g \in Lots /\ h \in Lots /\ g \in ahead[h]
    BY <1>1, <1>8
  <2>2. ahead[g] \subseteq ahead[h] /\ h \notin ahead[h]
    <3> HIDE DEF ahead
    <3> QED BY <1>7, <2>1 DEF ahead, Ranked
  <2>3. ~RestoredBefore(k, h, g, up) /\ g # h
    BY <2>1, <2>2
  <2>4. before(g) \subseteq before(h)
    <3> SUFFICES ASSUME NEW x \in before(g) PROVE x \in before(h)
      OBVIOUS
    <3>1. CASE x = g
      BY <1>8, <3>1
    <3>2. CASE RestoredBefore(k, x, g, up)
      <4>1. x \in ahead[g]
        BY <1>1, <2>1, <3>2
      <4>2. x \in ahead[h]
        <5> HIDE DEF ahead
        <5> QED BY <2>2, <4>1
      <4>3. RestoredBefore(k, x, h, up)
        BY <2>1, <4>2
      <4> QED BY <4>3
    <3> QED BY <3>1, <3>2
  <2>5. h \in before(h) /\ h \notin before(g) /\ before(h) \subseteq lapsed
    BY <2>3
  <2> HIDE DEF before, ahead
  <2>6. IsFiniteSet(before(h)) /\ IsFiniteSet(before(g))
    BY <1>1, <2>4, <2>5, FS_Subset
  <2>7. Cardinality(before(g)) # Cardinality(before(h))
    BY <2>4, <2>5, <2>6, FS_Subset
  <2>8. Cardinality(before(g)) \in Nat /\ Cardinality(before(h)) \in Nat /\ opened \in Nat
    BY <1>2, <2>1, <2>6, FS_CardinalityType
  <2> QED BY <2>7, <2>8
<1>9. \A g, h \in lapsed : number(g) = number(h) => g = h
  <2> SUFFICES ASSUME NEW g \in lapsed, NEW h \in lapsed, g # h PROVE number(g) # number(h)
    OBVIOUS
  <2> HIDE DEF number
  <2>1. RestoredBefore(k, g, h, up) \/ RestoredBefore(k, h, g, up)
    <3> DEFINE ahead == [x \in Lots |-> {y \in Lots : RestoredBefore(k, y, x, up)}]
    <3>1. g \in Lots /\ h \in Lots
      BY <1>1
    <3>2. g \in ahead[h] \/ h \in ahead[g]
      <4> HIDE DEF ahead
      <4> QED BY <1>7, <3>1 DEF ahead, Ranked
    <3> QED BY <3>1, <3>2
  <2> QED BY <1>8, <2>1
<1>10. OneToOne(replaced, DOMAIN replaced, lapsed)
  <2> HIDE DEF number
  <2>1. ASSUME NEW g \in DOMAIN replaced
        PROVE  replaced[g] \in lapsed /\ number(replaced[g]) = g
    BY <1>6
  <2>2. \A h \in lapsed : \E g \in DOMAIN replaced : replaced[g] = h
    <3> SUFFICES ASSUME NEW h \in lapsed PROVE \E g \in DOMAIN replaced : replaced[g] = h
      OBVIOUS
    <3>1. number(h) \in DOMAIN replaced
      BY <1>6
    <3>2. replaced[number(h)] = h
      BY <1>9, <2>1, <3>1
    <3> QED BY <3>1, <3>2
  <2>3. \A g, h \in DOMAIN replaced : replaced[g] = replaced[h] => g = h
    BY <2>1
  <2> QED BY <2>1, <2>2, <2>3 DEF OneToOne
<1>11. \A g \in Lots : g > opened /\ g <= opened + Cardinality(lapsed) => g \in DOMAIN replaced
  <2> DEFINE count   == Cardinality(lapsed)
             numbers == (opened + 1)..(opened + count)
             given   == [h \in lapsed |-> number(h)]
  <2>1. count \in Nat /\ opened \in Nat
    BY <1>1, FS_CardinalityType DEF TypeOK
  <2>2. \A h \in lapsed : number(h) \in numbers
    <3> SUFFICES ASSUME NEW h \in lapsed PROVE number(h) \in numbers
      OBVIOUS
    <3>1. before(h) \in SUBSET lapsed /\ h \in before(h)
      OBVIOUS
    <3> HIDE DEF before
    <3>2. IsFiniteSet(before(h)) /\ Cardinality(before(h)) <= count
      BY <1>1, <3>1, FS_Subset
    <3>3. Cardinality(before(h)) \in Nat /\ Cardinality(before(h)) # 0
      BY <3>1, <3>2, FS_CardinalityType, FS_EmptySet
    <3> QED BY <2>1, <3>2, <3>3
  <2>3. IsFiniteSet(numbers) /\ Cardinality(numbers) = count
    <3>1. /\ opened + 1 \in Int /\ opened + count \in Int
          /\ IF opened + 1 > opened + count THEN count = 0 ELSE (opened + count) - (opened + 1) + 1 = count
      BY <2>1
    <3> QED BY <3>1, FS_Interval
  <2> HIDE DEF number, count, numbers
  <2>4. given \in Injection(lapsed, numbers)
    BY <1>9, <2>2 DEF Injection, IsInjective
  <2>5. given \in Surjection(lapsed, numbers)
    <3> HIDE DEF given
    <3> QED BY <2>3, <2>4, FS_Injection DEF count
  <2>6. \A g \in numbers : \E h \in lapsed : number(h) = g
    BY <2>5 DEF Surjection
  <2>7. \A g \in numbers : g \in DOMAIN replaced
    BY <1>6, <2>6
  <2>8. \A g \in Lots : g > opened /\ g <= opened + count => g \in numbers
    BY <1>2, <2>1 DEF numbers
  <2> QED BY <2>7, <2>8 DEF count
<1> QED BY <1>1, <1>4, <1>5, <1>10, <1>11 DEF lapsed, replaced

\* Amounts that follow such replacements: what "f" has in A, "e" has in B.
LEMMA MovedOver ==
    ASSUME NEW U, IsFiniteSet(U), NEW D \in SUBSET U, NEW L \in SUBSET U,
           NEW A \in SUBSET U, NEW B \in SUBSET U, NEW r, NEW f, NEW e,
           D \cap L = {}, OneToOne(r, D, L),
           \A x \in U : f[x] \in Int,
           \A x \in D : f[x] = 0,
           \A x \in U : e[x] = IF x \in D THEN f[r[x]] ELSE IF x \in L THEN 0 ELSE f[x],
           \A x \in U : IF x \in D THEN x \in B <=> r[x] \in A ELSE x \in B <=> x \in A
    PROVE  SumFunctionOnSet(f, A) \in Int /\ SumFunctionOnSet(e, B) = SumFunctionOnSet(f, A)
<1> DEFINE C == (A \ L) \ D
<1>1. \A x \in U : e[x] \in Int
  <2>1. \A x \in D : r[x] \in U
    BY DEF OneToOne
  <2> QED BY <2>1
<1>2. /\ IsFiniteSet(A) /\ IsFiniteSet(B) /\ IsFiniteSet(A \ L) /\ IsFiniteSet(B \ D)
      /\ IsFiniteSet(B \cap D)
  <2>1. A \ L \in SUBSET U /\ B \ D \in SUBSET U /\ B \cap D \in SUBSET U
    OBVIOUS
  <2> QED BY <2>1, FS_Subset
<1>3. /\ SumFunctionOnSet(f, A) \in Int
      /\ SumFunctionOnSet(f, A) = SumFunctionOnSet(f, A \cap L) + SumFunctionOnSet(f, A \ L)
  <2>1. A \cap L \in SUBSET A /\ A \ (A \cap L) = A \ L /\ \A x \in A : f[x] \in Int
    OBVIOUS
  <2> QED BY <1>2, <2>1, SumUnion, SumInt
<1>4. SumFunctionOnSet(e, B) = SumFunctionOnSet(e, B \cap D) + SumFunctionOnSet(e, B \ D)
  <2>1. B \cap D \in SUBSET B /\ B \ (B \cap D) = B \ D /\ \A x \in B : e[x] \in Int
    BY <1>1
  <2> QED BY <1>2, <2>1, SumUnion
<1>5. SumFunctionOnSet(e, B \cap D) = SumFunctionOnSet(f, A \cap L)
  <2> DEFINE S == B \cap D
             T == A \cap L
  <2>1. \A x \in S : r[x] \in T /\ e[x] \in Int /\ e[x] = f[r[x]]
    BY <1>1 DEF OneToOne
  <2>2. \A y \in T : \E x \in S : r[x] = y
    BY DEF OneToOne
  <2>3. \A x, y \in S : r[x] = r[y] => x = y
    BY DEF OneToOne
  <2>4. IsFiniteSet(S)
    BY <1>2
  <2> HIDE DEF S, T
  <2>5. \A x \in S : r[x] \in T
    BY <2>1
  <2>6. \A x \in S : e[x] \in Int /\ e[x] = f[r[x]]
    BY <2>1
  <2>7. SumFunctionOnSet(e, S) = SumFunctionOnSet(f, T)
    BY <2>2, <2>3, <2>4, <2>5, <2>6, SumMoved
  <2> QED BY <2>7 DEF S, T
<1>6. SumFunctionOnSet(e, B \ D) = SumFunctionOnSet(e, C)
  <2>1. C \in SUBSET (B \ D)
    OBVIOUS
  <2>2. ASSUME NEW x \in B \ D PROVE e[x] \in Int /\ (x \notin C => e[x] = 0)
    <3>1. x \in U /\ x \in A /\ x \notin D
      OBVIOUS
    <3> QED BY <1>1, <3>1
  <2> HIDE DEF C
  <2> QED BY <1>2, <2>1, <2>2, SumPart
<1>7. SumFunctionOnSet(f, A \ L) = SumFunctionOnSet(f, C)
  <2>1. C \in SUBSET (A \ L) /\ \A x \in A \ L : f[x] \in Int /\ (x \notin C => f[x] = 0)
    OBVIOUS
  <2> HIDE DEF C
  <2> QED BY <1>2, <2>1, SumPart
<1>8. SumFunctionOnSet(e, C) = SumFunctionOnSet(f, C)
  <2>1. IsFiniteSet(C)
    BY <1>2, FS_Subset
  <2>2. \A x \in C : e[x] = f[x]
    OBVIOUS
  <2> HIDE DEF C
  <2> QED BY <2>1, <2>2, SumSame
<1> QED BY <1>3, <1>4, <1>5, <1>6, <1>7, <1>8

\* What remains in the lots of L, together.
LeftIn(L) == SumFunctionOnSet([g \in Lots |-> L[g].remaining], Lots)

\* A refund moves money back into the lots, and out of the rows, lot class by
\* lot class, whatever it replaces.
LEMMA CreditIs ==
    ASSUME TypeOK, Numbered, NEW k \in Keys, NEW amount \in Nat, NEW cash \in Nat,
           NEW up \in BOOLEAN, CreditUsageRefund(k, amount, cash, up)
    PROVE  LET all == SumFunctionOnSet(Restored(k, amount, up), Lots)
           IN  /\ LeftIn(lots) \in Int /\ LeftIn(lots') = LeftIn(lots) + all
               /\ NetOf(posted[k], Lots) \in Int
               /\ NetOf(posted'[k], Lots) = NetOf(posted[k], Lots) - all
               /\ NetOf(posted[k], GiftLots) \in Int
               /\ NetOf(posted'[k], GiftLots') = NetOf(posted[k], GiftLots) - GiftReturned(k, amount, up)
               /\ \A x \in Keys : x # k => posted'[x] = posted[x]
               /\ \A g \in Lots : g <= opened => lots'[g].funding = lots[g].funding
               /\ opened' >= opened
               /\ Numbered'
<1> DEFINE restored == Restored(k, amount, up)
           lapsed   == Lapsed(k, amount, up)
           replaced == Replaced(k, amount, up)
           new      == DOMAIN replaced
           moved    == [g \in Lots |-> IF g \in new THEN restored[replaced[g]]
                                       ELSE IF g \in lapsed THEN 0 ELSE restored[g]]
           remains  == [g \in Lots |-> lots[g].remaining]
           remains2 == [g \in Lots |-> lots'[g].remaining]
           net      == [g \in Lots |-> posted[k][g].net]
           net2     == [g \in Lots |-> posted'[k][g].net]
           gifts2   == {g \in Lots : lots'[g].funding = "gift"}
<1>1. /\ opened + Cardinality(lapsed) <= MaxLots
      /\ lots' = RestoredLots(k, amount, up)
      /\ opened' = opened + Cardinality(lapsed)
      /\ posted' = [posted EXCEPT ![k] = PostRestored(k, amount, up, usage[k].posts + 1)]
    BY DEF CreditUsageRefund
<1>2. /\ new \in SUBSET Lots /\ lapsed \in SUBSET Lots
      /\ \A g \in new : g > opened /\ restored[g] = 0
      /\ \A g \in lapsed : g <= opened
      /\ \A g \in Lots : g > opened /\ g <= opened + Cardinality(lapsed) => g \in new
      /\ OneToOne(replaced, new, lapsed)
    BY <1>1, ReplacedIs
<1>3. restored \in [Lots -> Nat] /\ SumFunctionOnSet(restored, Lots) \in Nat
    BY RestoredType, RestoredIs
<1>4. /\ opened \in Nat /\ Cardinality(lapsed) \in Nat
      /\ \A g \in new : replaced[g] \in Lots /\ g <= opened + Cardinality(lapsed)
    BY ReplacedNumbers DEF TypeOK
<1>5. \A g \in Lots : g \in Nat /\ lots[g] \in Lot /\ posted[k][g] \in [net: Int, first: Nat]
    BY BoundsAssumption DEF Lots, TypeOK
<1>6. lots' = [g \in Lots |->
            IF g \in new
            THEN [funding   |-> lots[replaced[g]].funding,
                  remaining |-> restored[replaced[g]],
                  expires   |-> now + ReturnTerm,
                  payment   |-> NoPayment]
            ELSE IF g \in lapsed
            THEN lots[g]
            ELSE [lots[g] EXCEPT !.remaining = @ + restored[g]]]
    BY <1>1 DEF RestoredLots
<1>7. /\ posted'[k] = [g \in Lots |->
            IF g \in new
            THEN [net |-> 0 - restored[replaced[g]], first |-> usage[k].posts + 1]
            ELSE IF g \in lapsed
            THEN posted[k][g]
            ELSE [posted[k][g] EXCEPT !.net = @ - restored[g]]]
      /\ \A x \in Keys : x # k => posted'[x] = posted[x]
    BY <1>1 DEF PostRestored, TypeOK
<1> HIDE DEF restored, lapsed, replaced, new
<1>8. \A g \in Lots : /\ g \in new => lots[g].remaining = 0 /\ posted[k][g].net = 0
                      /\ lots[g].remaining \in Nat /\ posted[k][g].net \in Int
    BY <1>2, <1>5 DEF Numbered, Lot
<1>9. ASSUME NEW g \in Lots
      PROVE  /\ moved[g] \in Nat
             /\ remains2[g] = remains[g] + moved[g]
             /\ net[g] = net2[g] + moved[g] /\ net2[g] \in Int /\ net[g] \in Int
             /\ lots'[g].funding = IF g \in new THEN lots[replaced[g]].funding ELSE lots[g].funding
  <2>1. CASE g \in new
    <3>1. restored[replaced[g]] \in Nat /\ moved[g] = restored[replaced[g]]
      BY <1>3, <1>4, <2>1
    <3>2. lots'[g].remaining = restored[replaced[g]] /\ lots'[g].funding = lots[replaced[g]].funding
          /\ posted'[k][g].net = 0 - restored[replaced[g]]
      BY <1>6, <1>7, <2>1
    <3>3. /\ remains[g] = 0 /\ remains2[g] = moved[g]
          /\ net[g] = 0 /\ net2[g] = 0 - moved[g]
      BY <1>8, <2>1, <3>1, <3>2
    <3> HIDE DEF moved, remains, remains2, net, net2
    <3> QED BY <2>1, <3>1, <3>2, <3>3
  <2>2. CASE g \notin new /\ g \in lapsed
    <3>1. moved[g] = 0 /\ lots'[g] = lots[g] /\ posted'[k][g] = posted[k][g]
      BY <1>6, <1>7, <2>2
    <3> QED BY <1>8, <2>2, <3>1
  <2>3. CASE g \notin new /\ g \notin lapsed
    <3>1. moved[g] = restored[g] /\ restored[g] \in Nat
      BY <1>3, <2>3
    <3>2. lots'[g] = [lots[g] EXCEPT !.remaining = @ + restored[g]]
          /\ posted'[k][g] = [posted[k][g] EXCEPT !.net = @ - restored[g]]
      BY <1>6, <1>7, <2>3
    <3>3. lots'[g].remaining = lots[g].remaining + restored[g] /\ lots'[g].funding = lots[g].funding
          /\ posted'[k][g].net = posted[k][g].net - restored[g]
      BY <1>5, <3>2 DEF Lot
    <3> QED BY <1>8, <2>3, <3>1, <3>3
  <2> QED BY <2>1, <2>2, <2>3
<1>10. IsFiniteSet(Lots) /\ Lots \in SUBSET Lots /\ GiftLots \in SUBSET Lots /\ gifts2 \in SUBSET Lots
       /\ new \cap lapsed = {} /\ IsFiniteSet(gifts2) /\ IsFiniteSet(GiftLots)
  <2>1. new \cap lapsed = {}
    BY <1>2, <1>4, <1>5
  <2>2. GiftLots \in SUBSET Lots /\ gifts2 \in SUBSET Lots
    BY DEF GiftLots
  <2> HIDE DEF gifts2
  <2> QED BY <2>1, <2>2, LotsFinite
<1>11. \A x \in Lots : /\ restored[x] \in Int
                       /\ x \in new => restored[x] = 0
                       /\ moved[x] = IF x \in new THEN restored[replaced[x]]
                                     ELSE IF x \in lapsed THEN 0 ELSE restored[x]
    BY <1>2, <1>3
<1>12. \A x \in Lots : IF x \in new THEN x \in gifts2 <=> replaced[x] \in GiftLots
                       ELSE x \in gifts2 <=> x \in GiftLots
    BY <1>4, <1>9 DEF GiftLots
<1>13. \A x \in Lots : IF x \in new THEN x \in Lots <=> replaced[x] \in Lots ELSE x \in Lots <=> x \in Lots
    BY <1>4
<1>14. \A x \in Lots : /\ moved[x] \in Int /\ remains[x] \in Int /\ net[x] \in Int /\ net2[x] \in Int
                       /\ remains2[x] = remains[x] + moved[x] /\ net[x] = net2[x] + moved[x]
                       /\ x \in new => net[x] = 0
    BY <1>8, <1>9
<1> HIDE DEF moved, remains, remains2, net, net2, gifts2
<1>15. SumFunctionOnSet(moved, Lots) = SumFunctionOnSet(restored, Lots)
    BY <1>2, <1>10, <1>11, <1>13, MovedOver
<1>16. /\ SumFunctionOnSet(restored, GiftLots) \in Int
       /\ SumFunctionOnSet(moved, gifts2) = SumFunctionOnSet(restored, GiftLots)
    BY <1>2, <1>10, <1>11, <1>12, MovedOver
<1>17. SumFunctionOnSet(remains, Lots) \in Int
       /\ SumFunctionOnSet(remains2, Lots) = SumFunctionOnSet(remains, Lots) + SumFunctionOnSet(restored, Lots)
  <2>1. \A x \in Lots : remains[x] \in Int /\ moved[x] \in Int /\ remains2[x] = remains[x] + moved[x]
    BY <1>14
  <2> QED BY <1>10, <1>15, <2>1, SumPlus, SumInt
<1>18. /\ SumFunctionOnSet(net, Lots) \in Int /\ SumFunctionOnSet(net2, Lots) \in Int
       /\ SumFunctionOnSet(net, Lots) = SumFunctionOnSet(net2, Lots) + SumFunctionOnSet(restored, Lots)
  <2>1. \A x \in Lots : net[x] \in Int /\ net2[x] \in Int /\ moved[x] \in Int /\ net[x] = net2[x] + moved[x]
    BY <1>14
  <2>2. SumFunctionOnSet(net, Lots) = SumFunctionOnSet(net2, Lots) + SumFunctionOnSet(moved, Lots)
    BY <1>10, <2>1, SumPlus
  <2> QED BY <1>10, <1>15, <2>1, <2>2, SumInt
<1>19. SumFunctionOnSet(net, gifts2) = SumFunctionOnSet(net, GiftLots)
  <2> DEFINE old == GiftLots \ new
  <2>1. /\ old \in SUBSET gifts2 /\ old \in SUBSET GiftLots
        /\ \A x \in gifts2 : net[x] \in Int /\ (x \notin old => net[x] = 0)
        /\ \A x \in GiftLots : net[x] \in Int /\ (x \notin old => net[x] = 0)
    BY <1>10, <1>12, <1>14
  <2> HIDE DEF old
  <2> QED BY <1>10, <2>1, SumPart
<1>20. /\ SumFunctionOnSet(net, gifts2) \in Int /\ SumFunctionOnSet(net2, gifts2) \in Int
       /\ SumFunctionOnSet(net, gifts2) = SumFunctionOnSet(net2, gifts2) + SumFunctionOnSet(moved, gifts2)
  <2>1. \A x \in gifts2 : net[x] \in Int /\ net2[x] \in Int /\ moved[x] \in Int /\ net[x] = net2[x] + moved[x]
    BY <1>10, <1>14
  <2> QED BY <1>10, <2>1, SumPlus, SumInt
<1>21. /\ GiftReturned(k, amount, up) = SumFunctionOnSet(restored, GiftLots)
       /\ GiftLots' = gifts2
       /\ \A T : NetOf(posted[k], T) = SumFunctionOnSet(net, T)
       /\ \A T : NetOf(posted'[k], T) = SumFunctionOnSet(net2, T)
       /\ LeftIn(lots) = SumFunctionOnSet(remains, Lots)
       /\ LeftIn(lots') = SumFunctionOnSet(remains2, Lots)
    BY DEF GiftReturned, GiftLots, NetOf, LeftIn, restored, gifts2, net, net2, remains, remains2
<1>22. \A g \in Lots : g <= opened => lots'[g].funding = lots[g].funding
    BY <1>2, <1>4, <1>5, <1>9
<1>23. opened' >= opened
    BY <1>1, <1>4 DEF lapsed
<1>24. Numbered'
  <2> SUFFICES ASSUME NEW g \in Lots
               PROVE  /\ g <= opened' => lots'[g].funding # "none"
                      /\ g > opened'  => lots'[g].remaining = 0 /\ \A x \in Keys : posted'[x][g].net = 0
    BY DEF Numbered
  <2>1. opened' = opened + Cardinality(lapsed) /\ opened \in Nat /\ Cardinality(lapsed) \in Nat /\ g \in Nat
    BY <1>1, <1>4, <1>5 DEF lapsed
  <2>2. CASE g <= opened
    <3>1. lots[g].funding # "none"
      BY <2>2 DEF Numbered
    <3> QED BY <1>22, <2>1, <2>2, <3>1
  <2>3. CASE g > opened /\ g <= opened'
    <3>1. g \in new
      BY <1>2, <2>1, <2>3
    <3>2. replaced[g] \in lapsed /\ replaced[g] <= opened /\ replaced[g] \in Lots
      BY <1>2, <3>1 DEF OneToOne
    <3>3. lots[replaced[g]].funding # "none"
      BY <3>2 DEF Numbered
    <3> QED BY <1>9, <2>1, <2>3, <3>1, <3>3
  <2>4. CASE g > opened'
    <3>1. g > opened /\ g \notin new
      BY <1>4, <2>1, <2>4
    <3>2. lots[g].remaining = 0 /\ \A x \in Keys : posted[x][g].net = 0
      BY <3>1 DEF Numbered
    <3>3. restored[g] = 0 /\ g \notin lapsed
      <4>1. restored[g] \in Nat /\ (posted[k][g].net >= 0 => restored[g] <= posted[k][g].net)
        BY <1>3, RestoredIs DEF restored
      <4> QED BY <1>2, <2>1, <3>1, <3>2, <4>1
    <3>4. lots'[g] = [lots[g] EXCEPT !.remaining = @ + restored[g]]
          /\ posted'[k][g] = [posted[k][g] EXCEPT !.net = @ - restored[g]]
      BY <1>6, <1>7, <3>1, <3>3
    <3>5. lots'[g].remaining = 0 /\ posted'[k][g].net = 0
      BY <1>5, <3>2, <3>3, <3>4 DEF Lot
    <3>6. \A x \in Keys : posted'[x][g].net = 0
      BY <1>7, <3>2, <3>5
    <3> QED BY <2>1, <2>4, <3>5, <3>6
  <2> QED BY <2>1, <2>2, <2>3, <2>4
<1> DEFINE all  == SumFunctionOnSet(restored, Lots)
           back == SumFunctionOnSet(restored, GiftLots)
<1> HIDE DEF all, back
<1>25. all \in Nat
    BY <1>3 DEF all
<1>26. LeftIn(lots) \in Int /\ LeftIn(lots') = LeftIn(lots) + all
    BY <1>17, <1>21 DEF all
<1>27. NetOf(posted[k], Lots) \in Int /\ NetOf(posted'[k], Lots) = NetOf(posted[k], Lots) - all
    BY <1>18, <1>21, <1>25 DEF all
<1>28. back \in Int /\ SumFunctionOnSet(moved, gifts2) = back /\ GiftReturned(k, amount, up) = back
    BY <1>16, <1>21 DEF back
<1>29. /\ NetOf(posted[k], GiftLots) \in Int
       /\ NetOf(posted'[k], GiftLots') = NetOf(posted[k], GiftLots) - GiftReturned(k, amount, up)
  <2> DEFINE old   == SumFunctionOnSet(net, GiftLots)
             newer == SumFunctionOnSet(net2, gifts2)
  <2>1. old \in Int /\ newer \in Int /\ old = newer + back
    BY <1>19, <1>20, <1>28
  <2>2. NetOf(posted[k], GiftLots) = old /\ NetOf(posted'[k], GiftLots') = newer
    BY <1>21
  <2> HIDE DEF old, newer
  <2> QED BY <1>28, <2>1, <2>2
<1> QED BY <1>7, <1>22, <1>23, <1>24, <1>26, <1>27, <1>29 DEF restored, all


-----------------------------------------------------------------------------
(* Every transaction balances                                              *)

\* What usage rows "u" took from the wallet, and what they charge, together.
WalletOf(u) == SumFunctionOnSet([k \in Keys |-> u[k].wallet], Keys)
ChargeOf(u) == SumFunctionOnSet([k \in Keys |-> u[k].charge], Keys)

\* When the row of one key changes, so do the sums.
LEMMA OneRow ==
    ASSUME NEW u \in [Keys -> UsageRow], NEW v \in [Keys -> UsageRow], NEW k \in Keys,
           \A x \in Keys : x # k => v[x] = u[x]
    PROVE  /\ WalletOf(u) \in Int /\ WalletOf(v) = WalletOf(u) + (v[k].wallet - u[k].wallet)
           /\ ChargeOf(u) \in Int /\ ChargeOf(v) = ChargeOf(u) + (v[k].charge - u[k].charge)
<1> DEFINE cash(w)  == [x \in Keys |-> w[x].wallet]
           price(w) == [x \in Keys |-> w[x].charge]
<1>1. \A x \in Keys : /\ cash(u)[x] \in Int /\ cash(v)[x] \in Int /\ price(u)[x] \in Int /\ price(v)[x] \in Int
                      /\ x # k => cash(v)[x] = cash(u)[x] /\ price(v)[x] = price(u)[x]
    BY DEF UsageRow
<1>2. /\ cash(u)[k] = u[k].wallet /\ cash(v)[k] = v[k].wallet
      /\ price(u)[k] = u[k].charge /\ price(v)[k] = v[k].charge
    OBVIOUS
<1>3. /\ WalletOf(u) = SumFunctionOnSet(cash(u), Keys) /\ WalletOf(v) = SumFunctionOnSet(cash(v), Keys)
      /\ ChargeOf(u) = SumFunctionOnSet(price(u), Keys) /\ ChargeOf(v) = SumFunctionOnSet(price(v), Keys)
    BY DEF WalletOf, ChargeOf
<1> HIDE DEF cash, price
<1>4. \A x \in Keys : cash(u)[x] \in Int /\ cash(v)[x] \in Int
    BY <1>1
<1>5. \A x \in Keys : x # k => cash(v)[x] = cash(u)[x]
    BY <1>1
<1>6. \A x \in Keys : price(u)[x] \in Int /\ price(v)[x] \in Int
    BY <1>1
<1>7. \A x \in Keys : x # k => price(v)[x] = price(u)[x]
    BY <1>1
<1>8. /\ SumFunctionOnSet(cash(u), Keys) \in Int
      /\ SumFunctionOnSet(cash(v), Keys) = SumFunctionOnSet(cash(u), Keys) + (cash(v)[k] - cash(u)[k])
    BY <1>4, <1>5, SumInt, SumChange, FiniteAssumption
<1>9. /\ SumFunctionOnSet(price(u), Keys) \in Int
      /\ SumFunctionOnSet(price(v), Keys) = SumFunctionOnSet(price(u), Keys) + (price(v)[k] - price(u)[k])
    BY <1>6, <1>7, SumInt, SumChange, FiniteAssumption
<1> QED BY <1>2, <1>3, <1>8, <1>9

\* What holds of a usage row and the ledger rows of its key: the ledger rows
\* add up to its grant part; a row that is not in force took nothing; and, for
\* a key that is used once, gift lots paid its gift part.
RowSound(k) ==
    /\ NetOf(posted[k], Lots) = usage[k].grant
    /\ usage[k].state \in {"none", "refunded"}
           => usage[k].charge = 0 /\ usage[k].grant = 0 /\ usage[k].wallet = 0
    /\ k \notin Durable =>
           /\ usage[k].state = "none" => usage[k].gift = 0 /\ \A g \in Lots : posted[k][g].net = 0
           /\ usage[k].state = "reserved" => \A g \in Lots : posted[k][g].net >= 0
           /\ NetOf(posted[k], GiftLots) = IF usage[k].state = "refunded" THEN 0 ELSE usage[k].gift

\* The lots that exist stay, and keep their funding class.
LotsKept == /\ opened' >= opened
            /\ \A g \in Lots : g <= opened => lots'[g].funding = lots[g].funding

\* A row that no step touches stays sound, whatever lots are added.
LEMMA RowKept ==
    ASSUME TypeOK, TypeOK', Numbered, LotsKept, NEW k \in Keys,
           usage'[k] = usage[k], posted'[k] = posted[k], RowSound(k)
    PROVE  RowSound(k)'
<1> DEFINE net == [g \in Lots |-> posted[k][g].net]
           old == {g \in Lots : g <= opened /\ lots[g].funding = "gift"}
<1>1. \A g \in Lots : net[g] \in Int
    BY DEF TypeOK
<1>2. ASSUME NEW g \in Lots, g \notin old PROVE g \notin GiftLots /\ (g \in GiftLots' => net[g] = 0)
  <2>1. g \in Nat /\ opened \in Nat
    BY BoundsAssumption DEF Lots, TypeOK
  <2>2. CASE g <= opened
    BY <1>2, <2>2 DEF GiftLots, LotsKept
  <2>3. CASE g > opened
    <3>1. lots[g].funding = "none" /\ posted[k][g].net = 0
      BY <2>3 DEF TypeOK, Numbered
    <3> QED BY <3>1 DEF GiftLots
  <2> QED BY <2>1, <2>2, <2>3
<1>3. old \in SUBSET GiftLots /\ old \in SUBSET GiftLots'
    BY DEF GiftLots, LotsKept
<1>4. GiftLots \in SUBSET Lots /\ GiftLots' \in SUBSET Lots
    BY DEF GiftLots
<1>5. \A T : NetOf(posted[k], T) = SumFunctionOnSet(net, T) /\ NetOf(posted'[k], T) = SumFunctionOnSet(net, T)
    BY DEF NetOf
<1> HIDE DEF net, old
<1>6. SumFunctionOnSet(net, GiftLots) = SumFunctionOnSet(net, old)
  <2>1. \A x \in GiftLots : net[x] \in Int /\ (x \notin old => net[x] = 0)
    BY <1>1, <1>2, <1>4
  <2> QED BY <1>3, <1>4, <2>1, SumPart, LotsFinite
<1>7. SumFunctionOnSet(net, GiftLots') = SumFunctionOnSet(net, old)
  <2> DEFINE after == GiftLots'
  <2>1. \A x \in after : net[x] \in Int /\ (x \notin old => net[x] = 0)
    BY <1>1, <1>2, <1>4
  <2>2. old \in SUBSET after /\ IsFiniteSet(after)
    BY <1>3, <1>4, LotsFinite
  <2> HIDE DEF after
  <2>3. SumFunctionOnSet(net, after) = SumFunctionOnSet(net, old)
    BY <2>1, <2>2, SumPart
  <2> QED BY <2>3 DEF after
<1>8. NetOf(posted'[k], GiftLots') = NetOf(posted[k], GiftLots)
    BY <1>5, <1>6, <1>7
<1>9. NetOf(posted'[k], Lots) = NetOf(posted[k], Lots)
    BY <1>5
<1> QED BY <1>8, <1>9 DEF RowSound

\* A step between the account and usage rows: the wallet loses what the rows
\* take from it more, and the account loses what the rows charge more.
Conserved ==
    /\ wallet' + WalletOf(usage') = wallet + WalletOf(usage)
    /\ wallet' + LeftIn(lots') + ChargeOf(usage') = wallet + LeftIn(lots) + ChargeOf(usage)

\* What a debit for a usage row does to the account "b" and to the ledger rows
\* of the key: it takes what it charges, and the rows say from which lots.
DebitsRow(k, b, amount, paidOnly, stamp) ==
    LET grant == FromGrants(b, amount, paidOnly)
        rows  == PostTaken(posted[k], b, amount, paidOnly, stamp)
        after == Debited(b, amount, paidOnly)
    IN  /\ after \in Account
        /\ after.wallet = b.wallet - (amount - grant)
        /\ SumFunctionOnSet(b.left, Lots) \in Int
        /\ SumFunctionOnSet(after.left, Lots) = SumFunctionOnSet(b.left, Lots) - grant
        /\ NetOf(posted[k], Lots) \in Int
        /\ NetOf(rows, Lots) = NetOf(posted[k], Lots) + grant
        /\ NetOf(posted[k], GiftLots) \in Int
        /\ NetOf(rows, GiftLots) = NetOf(posted[k], GiftLots) + FromGifts(b, amount, paidOnly)
        /\ \A g \in Lots : /\ rows[g].net >= posted[k][g].net
                           /\ after.left[g] <= b.left[g]
                           /\ b.left[g] = 0 => rows[g].net = posted[k][g].net

LEMMA DebitIs ==
    ASSUME TypeOK, Numbered, NEW b \in Account, NEW amount \in Nat, NEW paidOnly \in BOOLEAN,
           NEW k \in Keys, NEW stamp \in Nat
    PROVE  DebitsRow(k, b, amount, paidOnly, stamp)
<1> DEFINE taken == Taken(b, amount, paidOnly)
           grant == FromGrants(b, amount, paidOnly)
           rows  == PostTaken(posted[k], b, amount, paidOnly, stamp)
           after == Debited(b, amount, paidOnly)
<1>1. after \in Account /\ after.wallet = b.wallet - (amount - grant)
    BY DebitedAccount
<1>2. /\ SumFunctionOnSet(b.left, Lots) \in Int
      /\ SumFunctionOnSet(after.left, Lots) = SumFunctionOnSet(b.left, Lots) - grant
    BY DebitedIs
<1>3. posted[k] \in Posts /\ Lots \in SUBSET Lots /\ GiftLots \in SUBSET Lots
    BY DEF TypeOK, Posts, GiftLots
<1>4. /\ \A g \in Lots : rows[g].net = posted[k][g].net + taken[g]
      /\ NetOf(posted[k], Lots) \in Int
      /\ NetOf(rows, Lots) = NetOf(posted[k], Lots) + SumFunctionOnSet(taken, Lots)
    BY <1>3, PostTakenIs
<1>5. /\ NetOf(posted[k], GiftLots) \in Int
      /\ NetOf(rows, GiftLots) = NetOf(posted[k], GiftLots) + SumFunctionOnSet(taken, GiftLots)
    BY <1>3, PostTakenIs
<1>6. /\ SumFunctionOnSet(taken, Lots) = grant
      /\ SumFunctionOnSet(taken, GiftLots) = FromGifts(b, amount, paidOnly)
    BY TakenIs
<1>7. /\ taken \in [Lots -> Nat] /\ \A g \in Lots : posted[k][g].net \in Int
      /\ \A g \in Lots : taken[g] <= b.left[g] /\ b.left[g] \in Nat
      /\ after.left = [g \in Lots |-> b.left[g] - taken[g]]
    BY <1>3, TakenBounded DEF Posts, Account, Debited
<1> HIDE DEF taken, grant, rows, after
<1>8. \A g \in Lots : /\ rows[g].net >= posted[k][g].net
                      /\ after.left[g] <= b.left[g]
                      /\ b.left[g] = 0 => rows[g].net = posted[k][g].net
    BY <1>4, <1>7
<1> QED BY <1>1, <1>2, <1>4, <1>5, <1>6, <1>8 DEF DebitsRow, grant, rows, after

\* The row of a reservation is sound: its debit is all that the ledger rows of
\* the key account for.
LEMMA ReservedRowSound ==
    ASSUME TypeOK, Numbered, NEW k \in Keys, RowSound(k), Fresh(k),
           NEW b \in Account, NEW amount \in Nat, NEW paidOnly \in BOOLEAN, NEW route, NEW policy,
           NEW stamp \in Nat,
           usage'[k] = ReservedRow(k, b, amount, paidOnly, route, policy),
           posted'[k] = PostTaken(posted[k], b, amount, paidOnly, stamp),
           GiftLots' = GiftLots
    PROVE  /\ RowSound(k)'
           /\ usage[k].wallet = 0 /\ usage'[k].wallet = amount - FromGrants(b, amount, paidOnly)
           /\ usage[k].charge = 0 /\ usage'[k].charge = amount
<1> DEFINE grant == FromGrants(b, amount, paidOnly)
           rows  == PostTaken(posted[k], b, amount, paidOnly, stamp)
<1>1. /\ NetOf(rows, Lots) = NetOf(posted[k], Lots) + grant
      /\ NetOf(posted[k], GiftLots) \in Int
      /\ NetOf(rows, GiftLots) = NetOf(posted[k], GiftLots) + FromGifts(b, amount, paidOnly)
      /\ \A g \in Lots : rows[g].net >= posted[k][g].net
    BY DebitIs DEF DebitsRow
<1>2. /\ usage[k].state \in {"none", "refunded"}
      /\ k \notin Durable => usage[k].state = "none"
    BY DEF Fresh
<1>3. /\ usage[k].charge = 0 /\ usage[k].wallet = 0 /\ NetOf(posted[k], Lots) = 0
      /\ k \notin Durable => /\ \A g \in Lots : posted[k][g].net = 0
                             /\ NetOf(posted[k], GiftLots) = 0
    BY <1>2 DEF RowSound
<1>4. /\ usage'[k].state = "reserved" /\ usage'[k].charge = amount /\ usage'[k].grant = grant
      /\ usage'[k].gift = FromGifts(b, amount, paidOnly) /\ usage'[k].wallet = amount - grant
    BY DEF ReservedRow
<1>5. grant \in Nat /\ FromGifts(b, amount, paidOnly) \in Nat
    BY FromGrantsBounded
<1> HIDE DEF grant, rows
<1>6. NetOf(posted'[k], Lots) = grant
    BY <1>1, <1>3, <1>5 DEF rows
<1>7. k \notin Durable => /\ NetOf(posted'[k], GiftLots) = FromGifts(b, amount, paidOnly)
                          /\ \A g \in Lots : posted'[k][g].net >= 0
  <2> SUFFICES ASSUME k \notin Durable
               PROVE  /\ NetOf(posted'[k], GiftLots) = FromGifts(b, amount, paidOnly)
                      /\ \A g \in Lots : posted'[k][g].net >= 0
    OBVIOUS
  <2>1. posted'[k] = rows
    BY DEF rows
  <2> QED BY <1>1, <1>3, <1>5, <2>1
<1> QED BY <1>3, <1>4, <1>6, <1>7 DEF RowSound, grant

\* A reservation, with its add-on or without, balances.
LEMMA ReserveBalances ==
    ASSUME TypeOK, TypeOK', Numbered, \A x \in Keys : RowSound(x),
           NEW k \in Keys, NEW a \in Keys \cup {NoKey}, NEW route \in Routes,
           NEW policy \in Policies, NEW charge \in Charges, NEW extra \in Charges \cup {0},
           ReserveUsage(k, charge, route, a, extra, policy)
    PROVE  Conserved /\ Numbered' /\ \A x \in Keys : RowSound(x)'
<1> DEFINE paidOnly == route = "discounted"
           anyMoney == FALSE
           due1     == Due(k, charge, policy)
           due2     == Due(a, extra, policy)
           b1       == Debited(Books, due1, paidOnly)
           b2       == Debited(b1, due2, anyMoney)
           grant1   == FromGrants(Books, due1, paidOnly)
           grant2   == FromGrants(b1, due2, anyMoney)
           row1     == ReservedRow(k, Books, due1, paidOnly, route, policy)
           row2     == ReservedRow(a, b1, due2, anyMoney, "open", policy)
           rows1    == PostTaken(posted[k], Books, due1, paidOnly, usage[k].posts + 1)
           rows2    == PostTaken(posted[a], b1, due2, anyMoney, usage[a].posts + 1)
           debits1  == Fresh(k)
           debits2  == a # NoKey /\ Fresh(a)
<1>1. due1 \in Nat /\ due2 \in Nat /\ paidOnly \in BOOLEAN /\ anyMoney \in BOOLEAN
    BY DueNat, AmountsAssumption
<1>2. Books \in Account /\ b1 \in Account /\ b2 \in Account /\ Books.wallet = wallet
    BY <1>1, ReserveParts, BooksAccount
<1>3. /\ a # k
      /\ wallet' = b2.wallet
      /\ lots' = [g \in Lots |-> [lots[g] EXCEPT !.remaining = b2.left[g]]]
      /\ usage' = [x \in Keys |-> IF x = k /\ debits1 THEN row1
                                  ELSE IF x = a /\ debits2 THEN row2 ELSE usage[x]]
      /\ posted' = [x \in Keys |-> IF x = k /\ debits1 THEN rows1
                                   ELSE IF x = a /\ debits2 THEN rows2 ELSE posted[x]]
      /\ opened' = opened
    BY DEF ReserveUsage
<1>4. usage[k].posts + 1 \in Nat /\ (debits2 => a \in Keys /\ usage[a].posts + 1 \in Nat)
    BY RowFields DEF TypeOK
<1>5. /\ ~debits1 => due1 = 0
      /\ ~debits2 => due2 = 0
    BY DEF Due
<1> HIDE DEF paidOnly, anyMoney, due1, due2
<1>6. DebitsRow(k, Books, due1, paidOnly, usage[k].posts + 1)
    BY <1>1, <1>2, <1>4, DebitIs
<1> HIDE DEF b1
<1>7. /\ b2.wallet = b1.wallet - (due2 - grant2)
      /\ SumFunctionOnSet(b1.left, Lots) \in Int
      /\ SumFunctionOnSet(b2.left, Lots) = SumFunctionOnSet(b1.left, Lots) - grant2
      /\ \A g \in Lots : b2.left[g] <= b1.left[g]
  <2>1. DebitsRow(k, b1, due2, anyMoney, usage[k].posts + 1)
    BY <1>1, <1>2, <1>4, DebitIs
  <2> QED BY <2>1 DEF DebitsRow
<1>8. debits2 => \A g \in Lots : b1.left[g] = 0 => rows2[g].net = posted[a][g].net
  <2> SUFFICES ASSUME debits2 PROVE \A g \in Lots : b1.left[g] = 0 => rows2[g].net = posted[a][g].net
    OBVIOUS
  <2>1. DebitsRow(a, b1, due2, anyMoney, usage[a].posts + 1)
    BY <1>1, <1>2, <1>4, DebitIs
  <2> QED BY <2>1 DEF DebitsRow
<1>9. /\ b1.wallet = wallet - (due1 - grant1)
      /\ SumFunctionOnSet(Books.left, Lots) \in Int
      /\ SumFunctionOnSet(b1.left, Lots) = SumFunctionOnSet(Books.left, Lots) - grant1
      /\ \A g \in Lots : b1.left[g] <= Books.left[g]
                         /\ (Books.left[g] = 0 => rows1[g].net = posted[k][g].net)
    BY <1>2, <1>6 DEF DebitsRow, b1
<1>10. grant1 \in Nat /\ grant1 <= due1 /\ grant2 \in Nat /\ grant2 <= due2
    BY <1>1, <1>2, FromGrantsBounded
<1> HIDE DEF b2, grant1, grant2
<1>11. \A g \in Lots : /\ lots'[g].funding = lots[g].funding
                       /\ lots'[g].remaining = b2.left[g]
                       /\ Books.left[g] = lots[g].remaining
                       /\ Books.left[g] \in Nat /\ b1.left[g] \in Nat /\ b2.left[g] \in Nat
  <2> SUFFICES ASSUME NEW g \in Lots
               PROVE  /\ lots'[g].funding = lots[g].funding
                      /\ lots'[g].remaining = b2.left[g]
                      /\ Books.left[g] = lots[g].remaining
                      /\ Books.left[g] \in Nat /\ b1.left[g] \in Nat /\ b2.left[g] \in Nat
    OBVIOUS
  <2>1. lots[g] \in Lot /\ lots'[g] = [lots[g] EXCEPT !.remaining = b2.left[g]]
    BY <1>3 DEF TypeOK
  <2>2. lots'[g].funding = lots[g].funding /\ lots'[g].remaining = b2.left[g] /\ lots[g].remaining \in Nat
    BY <2>1 DEF Lot
  <2>3. Books.left[g] = lots[g].remaining
    BY DEF Books
  <2> QED BY <1>2, <2>2, <2>3 DEF Account
<1>12. GiftLots' = GiftLots
    BY <1>11 DEF GiftLots
<1>13. debits1 => /\ RowSound(k)'
                  /\ usage[k].wallet = 0 /\ usage'[k].wallet = due1 - grant1
                  /\ usage[k].charge = 0 /\ usage'[k].charge = due1
  <2> SUFFICES ASSUME debits1
               PROVE  /\ RowSound(k)'
                      /\ usage[k].wallet = 0 /\ usage'[k].wallet = due1 - grant1
                      /\ usage[k].charge = 0 /\ usage'[k].charge = due1
    OBVIOUS
  <2>1. usage'[k] = row1 /\ posted'[k] = rows1
    BY <1>3
  <2>2. Fresh(k) /\ RowSound(k)
    OBVIOUS
  <2> QED BY <1>1, <1>2, <1>4, <1>12, <2>1, <2>2, ReservedRowSound DEF grant1
<1>14. debits2 => /\ RowSound(a)'
                  /\ usage[a].wallet = 0 /\ usage'[a].wallet = due2 - grant2
                  /\ usage[a].charge = 0 /\ usage'[a].charge = due2
  <2> SUFFICES ASSUME debits2
               PROVE  /\ RowSound(a)'
                      /\ usage[a].wallet = 0 /\ usage'[a].wallet = due2 - grant2
                      /\ usage[a].charge = 0 /\ usage'[a].charge = due2
    OBVIOUS
  <2>1. usage'[a] = row2 /\ posted'[a] = rows2
    BY <1>3, <1>4
  <2>2. Fresh(a) /\ RowSound(a) /\ a \in Keys
    BY <1>4
  <2> QED BY <1>1, <1>2, <1>4, <1>12, <2>1, <2>2, ReservedRowSound DEF grant2
<1>15. usage \in [Keys -> UsageRow] /\ usage' \in [Keys -> UsageRow] /\ wallet \in Int /\ opened \in Nat
    BY DEF TypeOK
<1> HIDE DEF paidOnly, due1, due2, b1, b2, grant1, grant2, row1, row2, rows1, rows2, debits1, debits2
<1>16. \A x \in Keys : RowSound(x)'
  <2> SUFFICES ASSUME NEW x \in Keys PROVE RowSound(x)'
    OBVIOUS
  <2>1. CASE x = k /\ debits1
    BY <1>13, <2>1
  <2>2. CASE x = a /\ debits2
    BY <1>14, <2>2
  <2>3. CASE ~(x = k /\ debits1) /\ ~(x = a /\ debits2)
    <3>1. usage'[x] = usage[x] /\ posted'[x] = posted[x]
      BY <1>3, <2>3
    <3>2. LotsKept
      BY <1>3, <1>11, <1>15 DEF LotsKept
    <3> QED BY <3>1, <3>2, RowKept
  <2> QED BY <2>1, <2>2, <2>3
<1>17. Numbered'
  <2> SUFFICES ASSUME NEW g \in Lots
               PROVE  /\ g <= opened' => lots'[g].funding # "none"
                      /\ g > opened'  => lots'[g].remaining = 0 /\ \A x \in Keys : posted'[x][g].net = 0
    BY DEF Numbered
  <2>1. g <= opened' => lots'[g].funding # "none"
    BY <1>3, <1>11 DEF Numbered
  <2>2. ASSUME g > opened'
        PROVE  lots'[g].remaining = 0 /\ \A x \in Keys : posted'[x][g].net = 0
    <3>1. lots[g].remaining = 0 /\ \A x \in Keys : posted[x][g].net = 0
      BY <1>3, <2>2 DEF Numbered
    <3>2. Books.left[g] = 0 /\ b1.left[g] = 0 /\ b2.left[g] = 0
      BY <1>7, <1>9, <1>11, <3>1
    <3>3. lots'[g].remaining = 0
      BY <1>11, <3>2
    <3>4. rows1[g].net = 0 /\ (debits2 => rows2[g].net = 0)
      BY <1>4, <1>8, <1>9, <3>1, <3>2
    <3>5. \A x \in Keys : posted'[x][g].net = 0
      BY <1>3, <3>1, <3>4
    <3> QED BY <3>3, <3>5
  <2> QED BY <2>1, <2>2
<1>18. /\ WalletOf(usage) \in Int /\ ChargeOf(usage) \in Int
       /\ WalletOf(usage') = WalletOf(usage) + ((due1 - grant1) + (due2 - grant2))
       /\ ChargeOf(usage') = ChargeOf(usage) + (due1 + due2)
  <2> DEFINE middle == [usage EXCEPT ![k] = usage'[k]]
             w1 == due1 - grant1
             w2 == due2 - grant2
  <2>1. /\ middle \in [Keys -> UsageRow] /\ middle[k] = usage'[k]
        /\ \A x \in Keys : x # k => middle[x] = usage[x]
    BY <1>15
  <2>2. /\ WalletOf(usage) \in Int /\ WalletOf(middle) = WalletOf(usage) + (usage'[k].wallet - usage[k].wallet)
        /\ ChargeOf(usage) \in Int /\ ChargeOf(middle) = ChargeOf(usage) + (usage'[k].charge - usage[k].charge)
    BY <1>15, <2>1, OneRow
  <2>3. /\ usage[k].wallet \in Nat /\ usage[k].charge \in Nat
        /\ usage'[k].wallet - usage[k].wallet = w1 /\ usage'[k].charge - usage[k].charge = due1
    <3>0. usage[k].wallet \in Nat /\ usage[k].charge \in Nat
      BY <1>15, RowFields
    <3>1. CASE debits1
      BY <1>1, <1>10, <1>13, <3>0, <3>1
    <3>2. CASE ~debits1
      <4>1. usage'[k] = usage[k]
        BY <1>3, <3>2
      <4>2. due1 = 0 /\ grant1 = 0
        BY <1>5, <1>10, <3>2
      <4> QED BY <3>0, <4>1, <4>2
    <3> QED BY <3>1, <3>2
  <2>4. /\ WalletOf(middle) \in Int /\ WalletOf(usage') = WalletOf(middle) + w2
        /\ ChargeOf(middle) \in Int /\ ChargeOf(usage') = ChargeOf(middle) + due2
    <3>1. CASE debits2
      <4>1. a \in Keys /\ middle[a] = usage[a] /\ \A x \in Keys : x # a => usage'[x] = middle[x]
        BY <1>3, <1>4, <2>1, <3>1
      <4> HIDE DEF middle
      <4>2. /\ WalletOf(middle) \in Int
            /\ WalletOf(usage') = WalletOf(middle) + (usage'[a].wallet - middle[a].wallet)
            /\ ChargeOf(middle) \in Int
            /\ ChargeOf(usage') = ChargeOf(middle) + (usage'[a].charge - middle[a].charge)
        BY <1>15, <2>1, <4>1, OneRow
      <4>3. usage'[a].wallet - middle[a].wallet = w2 /\ usage'[a].charge - middle[a].charge = due2
        BY <1>1, <1>10, <1>14, <3>1, <4>1
      <4> QED BY <4>2, <4>3
    <3>2. CASE ~debits2
      <4>1. usage' = middle
        <5>1. \A x \in Keys : usage'[x] = middle[x]
          BY <1>3, <2>1, <3>2
        <5> QED BY <1>15, <2>1, <5>1
      <4>2. due2 = 0 /\ w2 = 0
        BY <1>5, <1>10, <3>2
      <4>3. WalletOf(middle) \in Int /\ ChargeOf(middle) \in Int
        BY <2>2, <2>3, <1>1, <1>10
      <4> HIDE DEF middle, w2
      <4>4. WalletOf(usage') = WalletOf(middle) /\ ChargeOf(usage') = ChargeOf(middle)
        BY <4>1
      <4> QED BY <4>2, <4>3, <4>4
    <3> QED BY <3>1, <3>2
  <2> HIDE DEF middle
  <2> QED BY <1>1, <1>10, <2>2, <2>3, <2>4
<1>19. LeftIn(lots) = SumFunctionOnSet(Books.left, Lots) /\ LeftIn(lots') = SumFunctionOnSet(b2.left, Lots)
  <2>1. IsFiniteSet(Lots)
    BY LotsFinite
  <2>2. \A g \in Lots : /\ [x \in Lots |-> lots[x].remaining][g] = Books.left[g]
                        /\ [x \in Lots |-> lots'[x].remaining][g] = b2.left[g]
    BY <1>11
  <2> QED BY <2>1, <2>2, SumSame DEF LeftIn
<1>20. Conserved
  <2> DEFINE s0 == SumFunctionOnSet(Books.left, Lots)
             s2 == SumFunctionOnSet(b2.left, Lots)
             w  == WalletOf(usage)
             c  == ChargeOf(usage)
  <2>1. s0 \in Int /\ s2 = (s0 - grant1) - grant2
    BY <1>7, <1>9
  <2>2. wallet' = (wallet - (due1 - grant1)) - (due2 - grant2)
    BY <1>3, <1>7, <1>9
  <2>3. /\ w \in Int /\ c \in Int /\ LeftIn(lots) = s0 /\ LeftIn(lots') = s2
        /\ WalletOf(usage') = w + ((due1 - grant1) + (due2 - grant2))
        /\ ChargeOf(usage') = c + (due1 + due2)
    BY <1>18, <1>19
  <2> HIDE DEF s0, s2
  <2> QED BY <1>1, <1>10, <1>15, <2>1, <2>2, <2>3 DEF Conserved
<1> QED BY <1>16, <1>17, <1>20


\* A settlement that asks for more balances.
LEMMA SettleHigherBalances ==
    ASSUME TypeOK, TypeOK', Numbered, \A x \in Keys : RowSound(x),
           NEW k \in Keys, NEW charge \in Nat, SettleHigher(k, charge), usage[k].state = "reserved"
    PROVE  Conserved /\ Numbered' /\ \A x \in Keys : RowSound(x)'
<1> DEFINE row      == usage[k]
           extra    == charge - row.charge
           paidOnly == row.route # "open"
           after    == Debited(Books, extra, paidOnly)
           grant    == FromGrants(Books, extra, paidOnly)
           gift     == FromGifts(Books, extra, paidOnly)
           rows     == PostTaken(posted[k], Books, extra, paidOnly, row.posts + 1)
<1>1. /\ row \in UsageRow /\ row.charge \in Nat /\ row.grant \in Nat /\ row.gift \in Nat
      /\ row.wallet \in Nat /\ row.posts + 1 \in Nat
    BY RowFields DEF TypeOK
<1>2. extra \in Nat /\ charge = row.charge + extra /\ paidOnly \in BOOLEAN
    BY <1>1 DEF SettleHigher
<1>3. /\ wallet' = after.wallet
      /\ lots' = [g \in Lots |-> [lots[g] EXCEPT !.remaining = after.left[g]]]
      /\ usage' = [usage EXCEPT ![k] = [row EXCEPT !.state  = "settled",
                                                   !.charge = charge,
                                                   !.grant  = @ + grant,
                                                   !.gift   = @ + gift,
                                                   !.wallet = @ + (extra - grant),
                                                   !.posts  = @ + 1]]
      /\ posted' = [posted EXCEPT ![k] = rows]
      /\ opened' = opened
    BY DEF SettleHigher
<1>4. Books \in Account /\ Books.wallet = wallet
    BY BooksAccount
<1>5. DebitsRow(k, Books, extra, paidOnly, row.posts + 1)
    BY <1>1, <1>2, <1>4, DebitIs
<1>6. /\ after \in Account /\ after.wallet = wallet - (extra - grant)
      /\ SumFunctionOnSet(Books.left, Lots) \in Int
      /\ SumFunctionOnSet(after.left, Lots) = SumFunctionOnSet(Books.left, Lots) - grant
      /\ NetOf(posted[k], Lots) \in Int /\ NetOf(rows, Lots) = NetOf(posted[k], Lots) + grant
      /\ NetOf(posted[k], GiftLots) \in Int /\ NetOf(rows, GiftLots) = NetOf(posted[k], GiftLots) + gift
      /\ \A g \in Lots : after.left[g] <= Books.left[g] /\ (Books.left[g] = 0 => rows[g].net = posted[k][g].net)
    BY <1>4, <1>5 DEF DebitsRow
<1>7. grant \in Nat /\ grant <= extra /\ gift \in Nat
    BY <1>2, <1>4, FromGrantsBounded
<1> HIDE DEF extra, paidOnly, after, grant, gift, rows
<1>8. \A g \in Lots : /\ lots'[g].funding = lots[g].funding /\ lots'[g].remaining = after.left[g]
                      /\ Books.left[g] = lots[g].remaining
                      /\ Books.left[g] \in Nat /\ after.left[g] \in Nat
  <2> SUFFICES ASSUME NEW g \in Lots
               PROVE  /\ lots'[g].funding = lots[g].funding /\ lots'[g].remaining = after.left[g]
                      /\ Books.left[g] = lots[g].remaining
                      /\ Books.left[g] \in Nat /\ after.left[g] \in Nat
    OBVIOUS
  <2>1. lots[g] \in Lot /\ lots'[g] = [lots[g] EXCEPT !.remaining = after.left[g]]
    BY <1>3 DEF TypeOK
  <2>2. lots'[g].funding = lots[g].funding /\ lots'[g].remaining = after.left[g] /\ lots[g].remaining \in Nat
    BY <2>1 DEF Lot
  <2>3. Books.left[g] = lots[g].remaining
    BY DEF Books
  <2> QED BY <1>6, <2>2, <2>3 DEF Account
<1>9. /\ usage \in [Keys -> UsageRow] /\ usage' \in [Keys -> UsageRow] /\ wallet \in Int /\ opened \in Nat
      /\ \A x \in Keys : x # k => usage'[x] = usage[x] /\ posted'[x] = posted[x]
      /\ posted'[k] = rows
    BY <1>3 DEF TypeOK
<1>10. /\ usage'[k].state = "settled" /\ usage'[k].charge = row.charge + extra
       /\ usage'[k].grant = row.grant + grant /\ usage'[k].gift = row.gift + gift
       /\ usage'[k].wallet = row.wallet + (extra - grant)
    BY <1>1, <1>2, <1>3, <1>9 DEF UsageRow
<1>11. RowSound(k)'
  <2>1. GiftLots' = GiftLots
    BY <1>8 DEF GiftLots
  <2>2. NetOf(posted[k], Lots) = row.grant /\ (k \notin Durable => NetOf(posted[k], GiftLots) = row.gift)
    BY DEF RowSound
  <2>3. NetOf(posted'[k], Lots) = usage'[k].grant
    BY <1>6, <1>9, <1>10, <2>2
  <2>4. k \notin Durable => NetOf(posted'[k], GiftLots') = usage'[k].gift
    BY <1>6, <1>9, <1>10, <2>1, <2>2
  <2> QED BY <1>10, <2>3, <2>4 DEF RowSound
<1>12. ASSUME NEW x \in Keys, x # k PROVE RowSound(x)'
  <2>1. LotsKept
    BY <1>3, <1>8, <1>9 DEF LotsKept
  <2> QED BY <1>9, <1>12, <2>1, RowKept
<1>13. Numbered'
  <2> SUFFICES ASSUME NEW g \in Lots
               PROVE  /\ g <= opened' => lots'[g].funding # "none"
                      /\ g > opened'  => lots'[g].remaining = 0 /\ \A x \in Keys : posted'[x][g].net = 0
    BY DEF Numbered
  <2>1. g <= opened' => lots'[g].funding # "none"
    BY <1>3, <1>8 DEF Numbered
  <2>2. ASSUME g > opened'
        PROVE  lots'[g].remaining = 0 /\ \A x \in Keys : posted'[x][g].net = 0
    <3>1. lots[g].remaining = 0 /\ \A x \in Keys : posted[x][g].net = 0
      BY <1>3, <2>2 DEF Numbered
    <3>2. Books.left[g] = 0 /\ after.left[g] = 0 /\ rows[g].net = 0
      BY <1>6, <1>8, <3>1
    <3> QED BY <1>8, <1>9, <3>1, <3>2
  <2> QED BY <2>1, <2>2
<1>14. LeftIn(lots) = SumFunctionOnSet(Books.left, Lots) /\ LeftIn(lots') = SumFunctionOnSet(after.left, Lots)
  <2>1. IsFiniteSet(Lots)
    BY LotsFinite
  <2>2. \A g \in Lots : /\ [x \in Lots |-> lots[x].remaining][g] = Books.left[g]
                        /\ [x \in Lots |-> lots'[x].remaining][g] = after.left[g]
    BY <1>8
  <2> QED BY <2>1, <2>2, SumSame DEF LeftIn
<1>15. /\ WalletOf(usage) \in Int /\ WalletOf(usage') = WalletOf(usage) + (extra - grant)
       /\ ChargeOf(usage) \in Int /\ ChargeOf(usage') = ChargeOf(usage) + extra
  <2>1. /\ WalletOf(usage) \in Int /\ WalletOf(usage') = WalletOf(usage) + (usage'[k].wallet - usage[k].wallet)
        /\ ChargeOf(usage) \in Int /\ ChargeOf(usage') = ChargeOf(usage) + (usage'[k].charge - usage[k].charge)
    BY <1>9, OneRow
  <2>2. usage'[k].wallet - usage[k].wallet = extra - grant /\ usage'[k].charge - usage[k].charge = extra
    BY <1>1, <1>2, <1>7, <1>10
  <2> QED BY <2>1, <2>2
<1>16. Conserved
    BY <1>2, <1>3, <1>6, <1>7, <1>9, <1>14, <1>15 DEF Conserved
<1> QED BY <1>11, <1>12, <1>13, <1>16

\* So does one that the account cannot cover.
LEMMA SettleAbsorbedBalances ==
    ASSUME TypeOK, TypeOK', Numbered, \A x \in Keys : RowSound(x),
           NEW k \in Keys, NEW charge \in Nat, SettleAbsorbed(k, charge), usage[k].state = "reserved"
    PROVE  Conserved /\ Numbered' /\ \A x \in Keys : RowSound(x)'
<1>1. /\ usage' = [usage EXCEPT ![k].state = "settled", ![k].posts = @ + 1]
      /\ lots' = lots /\ opened' = opened /\ posted' = posted /\ wallet' = wallet
    BY DEF SettleAbsorbed
<1>2. /\ usage \in [Keys -> UsageRow] /\ usage' \in [Keys -> UsageRow]
      /\ \A x \in Keys : x # k => usage'[x] = usage[x]
    BY <1>1 DEF TypeOK
<1>3. /\ usage'[k].state = "settled" /\ usage'[k].charge = usage[k].charge
      /\ usage'[k].grant = usage[k].grant /\ usage'[k].gift = usage[k].gift
      /\ usage'[k].wallet = usage[k].wallet
    BY <1>1, <1>2 DEF UsageRow
<1>4. usage[k].wallet \in Nat /\ usage[k].charge \in Nat
    BY <1>2, RowFields
<1>5. /\ WalletOf(usage) \in Int /\ WalletOf(usage') = WalletOf(usage)
      /\ ChargeOf(usage) \in Int /\ ChargeOf(usage') = ChargeOf(usage)
  <2>1. /\ WalletOf(usage) \in Int /\ WalletOf(usage') = WalletOf(usage) + (usage'[k].wallet - usage[k].wallet)
        /\ ChargeOf(usage) \in Int /\ ChargeOf(usage') = ChargeOf(usage) + (usage'[k].charge - usage[k].charge)
    BY <1>2, OneRow
  <2> QED BY <1>3, <1>4, <2>1
<1>6. Conserved
    BY <1>1, <1>5 DEF Conserved
<1>7. Numbered'
    BY <1>1 DEF Numbered
<1>8. GiftLots' = GiftLots
    BY <1>1 DEF GiftLots
<1>9. RowSound(k)'
    BY <1>1, <1>3, <1>8 DEF RowSound
<1>10. ASSUME NEW x \in Keys, x # k PROVE RowSound(x)'
  <2>1. LotsKept
    BY <1>1 DEF LotsKept, TypeOK
  <2> QED BY <1>1, <1>2, <1>10, <2>1, RowKept
<1> QED BY <1>6, <1>7, <1>9, <1>10

\* A refund of part of a row balances: what the row loses, lots and wallet get.
LEMMA CreditBalances ==
    ASSUME TypeOK, TypeOK', Numbered, \A x \in Keys : RowSound(x),
           NEW k \in Keys, NEW fromGrants \in Nat, NEW fromWallet \in Nat, NEW up \in BOOLEAN,
           CreditUsageRefund(k, fromGrants, fromWallet, up), fromGrants <= usage[k].grant,
           \A x \in Keys : x # k => usage'[x] = usage[x],
           usage'[k].wallet = usage[k].wallet - fromWallet,
           usage'[k].charge = usage[k].charge - (fromGrants + fromWallet)
    PROVE  /\ Conserved /\ Numbered'
           /\ \A x \in Keys : x # k => RowSound(x)'
           /\ NetOf(posted'[k], Lots) = usage[k].grant - fromGrants
           /\ NetOf(posted[k], GiftLots) \in Int
           /\ NetOf(posted'[k], GiftLots') = NetOf(posted[k], GiftLots) - GiftReturned(k, fromGrants, up)
<1> DEFINE all == SumFunctionOnSet(Restored(k, fromGrants, up), Lots)
<1>1. /\ LeftIn(lots) \in Int /\ LeftIn(lots') = LeftIn(lots) + all
      /\ NetOf(posted[k], Lots) \in Int
      /\ NetOf(posted'[k], Lots) = NetOf(posted[k], Lots) - all
      /\ NetOf(posted[k], GiftLots) \in Int
      /\ NetOf(posted'[k], GiftLots') = NetOf(posted[k], GiftLots) - GiftReturned(k, fromGrants, up)
      /\ \A x \in Keys : x # k => posted'[x] = posted[x]
      /\ LotsKept
      /\ Numbered'
    BY CreditIs DEF LotsKept
<1>2. NetOf(posted[k], Lots) = usage[k].grant
    BY DEF RowSound
<1>3. all \in Nat /\ all + Untraceable(k, fromGrants) = fromGrants /\ Untraceable(k, fromGrants) = 0
    BY <1>2, RestoredIs
<1> HIDE DEF all
<1>4. all = fromGrants /\ wallet' = wallet + fromWallet
  <2>1. wallet' = wallet + fromWallet + Untraceable(k, fromGrants)
    BY DEF CreditUsageRefund
  <2> QED BY <1>3, <2>1 DEF TypeOK
<1>5. /\ usage \in [Keys -> UsageRow] /\ usage' \in [Keys -> UsageRow] /\ wallet \in Int
      /\ usage[k].wallet \in Nat /\ usage[k].charge \in Nat
    BY RowFields DEF TypeOK
<1>6. /\ WalletOf(usage) \in Int /\ WalletOf(usage') = WalletOf(usage) - fromWallet
      /\ ChargeOf(usage) \in Int /\ ChargeOf(usage') = ChargeOf(usage) - (fromGrants + fromWallet)
  <2>1. /\ WalletOf(usage) \in Int /\ WalletOf(usage') = WalletOf(usage) + (usage'[k].wallet - usage[k].wallet)
        /\ ChargeOf(usage) \in Int /\ ChargeOf(usage') = ChargeOf(usage) + (usage'[k].charge - usage[k].charge)
    BY <1>5, OneRow
  <2> QED BY <1>5, <2>1
<1>7. Conserved
    BY <1>1, <1>4, <1>5, <1>6 DEF Conserved
<1>8. ASSUME NEW x \in Keys, x # k PROVE RowSound(x)'
    BY <1>1, <1>8, RowKept
<1> QED BY <1>1, <1>2, <1>4, <1>7, <1>8


\* Two parts that are no more than two others and add up to the same.
LEMMA PartsMeet ==
  \A r1, r2, n1, n2 \in Int : r1 <= n1 /\ r2 <= n2 /\ r1 + r2 = n1 + n2 => r1 = n1
OBVIOUS

\* A row that is used once gets its gifts back as gifts: no more than they
\* paid, and all of it when all of the row is refunded.
LEMMA GiftReturnedIs ==
    ASSUME TypeOK, Numbered, NEW k \in Keys, NEW amount \in Nat, NEW up \in BOOLEAN,
           \A g \in Lots : posted[k][g].net >= 0,
           amount <= NetOf(posted[k], Lots)
    PROVE  /\ GiftReturned(k, amount, up) <= NetOf(posted[k], GiftLots)
           /\ amount = NetOf(posted[k], Lots)
                => GiftReturned(k, amount, up) = NetOf(posted[k], GiftLots)
<1> DEFINE restored == Restored(k, amount, up)
           net      == [g \in Lots |-> posted[k][g].net]
           others   == Lots \ GiftLots
<1>1. \A g \in Lots : restored[g] \in Int /\ net[g] \in Int /\ restored[g] <= net[g]
    BY RestoredType, RestoredIs DEF TypeOK
<1>2. SumFunctionOnSet(restored, Lots) + Untraceable(k, amount) = amount /\ Untraceable(k, amount) = 0
      /\ SumFunctionOnSet(restored, Lots) \in Nat
    BY RestoredIs
<1>3. /\ IsFiniteSet(Lots) /\ GiftLots \in SUBSET Lots /\ IsFiniteSet(GiftLots) /\ IsFiniteSet(others)
  <2>1. GiftLots \in SUBSET Lots /\ others \in SUBSET Lots
    BY DEF GiftLots
  <2> QED BY <2>1, LotsFinite
<1>4. /\ NetOf(posted[k], Lots) = SumFunctionOnSet(net, Lots)
      /\ NetOf(posted[k], GiftLots) = SumFunctionOnSet(net, GiftLots)
      /\ GiftReturned(k, amount, up) = SumFunctionOnSet(restored, GiftLots)
    BY DEF NetOf, GiftReturned, GiftLots
<1> HIDE DEF restored, net
<1>5. SumFunctionOnSet(restored, GiftLots) <= SumFunctionOnSet(net, GiftLots)
    BY <1>1, <1>3, SumAtMost
<1>6. SumFunctionOnSet(restored, others) <= SumFunctionOnSet(net, others)
  <2>1. \A g \in others : restored[g] \in Int /\ net[g] \in Int /\ restored[g] <= net[g]
    BY <1>1
  <2> HIDE DEF others
  <2> QED BY <1>3, <2>1, SumAtMost
<1>7. /\ SumFunctionOnSet(restored, GiftLots) \in Int /\ SumFunctionOnSet(restored, others) \in Int
      /\ SumFunctionOnSet(restored, Lots) = SumFunctionOnSet(restored, GiftLots) + SumFunctionOnSet(restored, others)
  <2>1. \A g \in Lots : restored[g] \in Int
    BY <1>1
  <2> QED BY <1>3, <2>1, SumUnion
<1>8. /\ SumFunctionOnSet(net, GiftLots) \in Int /\ SumFunctionOnSet(net, others) \in Int
      /\ SumFunctionOnSet(net, Lots) = SumFunctionOnSet(net, GiftLots) + SumFunctionOnSet(net, others)
  <2>1. \A g \in Lots : net[g] \in Int
    BY <1>1
  <2> QED BY <1>3, <2>1, SumUnion
<1> HIDE DEF others
<1>9. amount = NetOf(posted[k], Lots)
        => SumFunctionOnSet(restored, GiftLots) = SumFunctionOnSet(net, GiftLots)
  <2> DEFINE r1 == SumFunctionOnSet(restored, GiftLots)
             r2 == SumFunctionOnSet(restored, others)
             n1 == SumFunctionOnSet(net, GiftLots)
             n2 == SumFunctionOnSet(net, others)
  <2>1. r1 \in Int /\ r2 \in Int /\ n1 \in Int /\ n2 \in Int /\ r1 <= n1 /\ r2 <= n2
    BY <1>5, <1>6, <1>7, <1>8
  <2>2. amount = r1 + r2
    BY <1>2, <1>7
  <2>3. NetOf(posted[k], Lots) = n1 + n2
    BY <1>4, <1>8
  <2> HIDE DEF r1, r2, n1, n2
  <2>4. r1 + r2 = n1 + n2 => r1 = n1
    BY <2>1, PartsMeet
  <2> QED BY <2>2, <2>3, <2>4 DEF r1, n1
<1> QED BY <1>4, <1>5, <1>9

\* A settlement that returns something balances.
LEMMA SettleLowerBalances ==
    ASSUME TypeOK, TypeOK', ChargeSplit, Numbered, \A x \in Keys : RowSound(x),
           NEW k \in Keys, NEW charge \in Nat, SettleLower(k, charge), usage[k].state = "reserved"
    PROVE  Conserved /\ Numbered' /\ \A x \in Keys : RowSound(x)'
<1> DEFINE row        == usage[k]
           fromWallet == WalletPart(row, row.charge - charge)
           fromGrants == GrantPart(row, row.charge - charge)
<1>1. /\ row \in UsageRow /\ row.charge \in Nat /\ row.grant \in Nat /\ row.gift \in Nat
      /\ row.wallet \in Nat /\ row.charge = row.grant + row.wallet
    BY RowFields DEF TypeOK, ChargeSplit
<1>2. charge <= row.charge
    BY DEF SettleLower
<1>3. fromWallet \in 0..row.wallet /\ fromGrants \in 0..row.grant
      /\ fromWallet + fromGrants = row.charge - charge
    BY <1>1, <1>2, LowerParts
<1>4. PICK up \in BOOLEAN :
        /\ CreditUsageRefund(k, fromGrants, fromWallet, up)
        /\ usage' = [usage EXCEPT ![k] =
              [row EXCEPT !.state  = "settled",
                          !.charge = charge,
                          !.grant  = @ - fromGrants,
                          !.gift   = Surplus(@, GiftReturned(k, fromGrants, up)),
                          !.wallet = @ - fromWallet,
                          !.posts  = @ + 1]]
    BY DEF SettleLower
<1> DEFINE back == GiftReturned(k, fromGrants, up)
<1> HIDE DEF fromWallet, fromGrants, back
<1>5. fromGrants \in Nat /\ fromWallet \in Nat /\ fromGrants <= row.grant /\ fromWallet <= row.wallet
    BY <1>1, <1>3
<1>6. /\ \A x \in Keys : x # k => usage'[x] = usage[x]
      /\ usage'[k].state = "settled" /\ usage'[k].charge = charge
      /\ usage'[k].grant = row.grant - fromGrants /\ usage'[k].gift = Surplus(row.gift, back)
      /\ usage'[k].wallet = row.wallet - fromWallet
    BY <1>1, <1>4 DEF TypeOK, UsageRow, back
<1>7. usage'[k].charge = usage[k].charge - (fromGrants + fromWallet)
    BY <1>1, <1>3, <1>5, <1>6
<1>8. /\ Conserved /\ Numbered'
      /\ \A x \in Keys : x # k => RowSound(x)'
      /\ NetOf(posted'[k], Lots) = row.grant - fromGrants
      /\ NetOf(posted[k], GiftLots) \in Int
      /\ NetOf(posted'[k], GiftLots') = NetOf(posted[k], GiftLots) - back
    BY <1>4, <1>5, <1>6, <1>7, CreditBalances DEF back
<1>9. k \notin Durable => NetOf(posted'[k], GiftLots') = usage'[k].gift
  <2> SUFFICES ASSUME k \notin Durable PROVE NetOf(posted'[k], GiftLots') = usage'[k].gift
    OBVIOUS
  <2>1. /\ NetOf(posted[k], GiftLots) = row.gift /\ \A g \in Lots : posted[k][g].net >= 0
        /\ NetOf(posted[k], Lots) = row.grant
    BY DEF RowSound
  <2>2. back <= row.gift /\ back \in Nat
    BY <1>5, <2>1, GiftReturnedIs, RestoredType DEF back
  <2> QED BY <1>1, <1>6, <1>8, <2>1, <2>2 DEF Surplus
<1>10. RowSound(k)'
    BY <1>6, <1>8, <1>9 DEF RowSound
<1> QED BY <1>8, <1>10

\* A refund of all of a reservation balances.
LEMMA RefundBalances ==
    ASSUME TypeOK, TypeOK', ChargeSplit, Numbered, \A x \in Keys : RowSound(x),
           NEW k \in Keys, RefundUsage(k)
    PROVE  Conserved /\ Numbered' /\ \A x \in Keys : RowSound(x)'
<1> DEFINE row == usage[k]
<1>1. /\ row \in UsageRow /\ row.charge \in Nat /\ row.grant \in Nat /\ row.gift \in Nat
      /\ row.wallet \in Nat /\ row.charge = row.grant + row.wallet
    BY RowFields DEF TypeOK, ChargeSplit
<1>2. /\ row.state = "reserved"
      /\ usage' = [usage EXCEPT ![k] =
            [row EXCEPT !.state = "refunded", !.charge = 0, !.grant = 0, !.wallet = 0, !.posts = @ + 1]]
    BY DEF RefundUsage
<1>3. PICK up \in BOOLEAN : CreditUsageRefund(k, row.grant, row.wallet, up)
    BY DEF RefundUsage
<1>4. /\ \A x \in Keys : x # k => usage'[x] = usage[x]
      /\ usage'[k].state = "refunded" /\ usage'[k].charge = 0 /\ usage'[k].grant = 0
      /\ usage'[k].wallet = 0
    BY <1>1, <1>2 DEF TypeOK, UsageRow
<1>5. /\ usage'[k].wallet = usage[k].wallet - row.wallet
      /\ usage'[k].charge = usage[k].charge - (row.grant + row.wallet)
      /\ row.grant <= usage[k].grant
    BY <1>1, <1>4
<1>6. /\ Conserved /\ Numbered'
      /\ \A x \in Keys : x # k => RowSound(x)'
      /\ NetOf(posted'[k], Lots) = row.grant - row.grant
      /\ NetOf(posted[k], GiftLots) \in Int
      /\ NetOf(posted'[k], GiftLots') = NetOf(posted[k], GiftLots) - GiftReturned(k, row.grant, up)
    BY <1>1, <1>3, <1>4, <1>5, CreditBalances
<1>7. k \notin Durable => NetOf(posted'[k], GiftLots') = 0
  <2> SUFFICES ASSUME k \notin Durable PROVE NetOf(posted'[k], GiftLots') = 0
    OBVIOUS
  <2>1. /\ \A g \in Lots : posted[k][g].net >= 0
        /\ NetOf(posted[k], Lots) = row.grant
    BY <1>2 DEF RowSound
  <2>2. GiftReturned(k, row.grant, up) = NetOf(posted[k], GiftLots)
    BY <1>1, <2>1, GiftReturnedIs
  <2> QED BY <1>6, <2>2
<1>8. NetOf(posted'[k], Lots) = usage'[k].grant
    BY <1>1, <1>4, <1>6
<1>9. RowSound(k)'
    BY <1>4, <1>7, <1>8 DEF RowSound
<1> QED BY <1>6, <1>9


\* What payments "pay" brought in and did not take back.
PaidIn(pay) == SumFunctionOnSet([p \in Payments |-> pay[p].paid - pay[p].refunded], Payments)

\* The lots that are added are numbered on, and those that exist stay.
LEMMA LotsAdded ==
    ASSUME TypeOK, Numbered,
           Grant \/ Topup \/ PaymentRefund \/ Adjust \/ Tick \/ UNCHANGED vars
    PROVE  LotsKept /\ Numbered' /\ usage' = usage /\ posted' = posted
<1>0. opened \in Nat /\ \A g \in Lots : g \in Nat /\ lots[g] \in Lot
    BY BoundsAssumption DEF TypeOK, Lots
<1>1. CASE Grant
  <2>1. PICK amount \in Gifts, expires \in (now + 1)..Forever : AddGrant("gift", amount, expires)
    BY <1>1 DEF Grant
  <2> DEFINE new == NewLot("gift", amount, expires, NoPayment)
  <2>2. /\ opened' = opened + 1 /\ lots' = [lots EXCEPT ![opened + 1] = new]
        /\ usage' = usage /\ posted' = posted
    BY <2>1 DEF AddGrant
  <2>3. new.funding = "gift"
    BY DEF NewLot
  <2> HIDE DEF new
  <2>4. \A g \in Lots : lots'[g] = IF g = opened + 1 THEN new ELSE lots[g]
    BY <2>2 DEF TypeOK
  <2>5. LotsKept
    BY <1>0, <2>2, <2>4 DEF LotsKept
  <2>6. Numbered'
    BY <1>0, <2>2, <2>3, <2>4 DEF Numbered
  <2> QED BY <2>2, <2>5, <2>6
<1>2. CASE Topup
  <2>1. PICK p \in Payments, amount \in TopUps, bonus \in Bonuses, reward \in Gifts \cup {0},
             expires \in (now + 1)..Forever : RecordTopup(p, amount, bonus, reward, expires)
    BY <1>2 DEF Topup
  <2> DEFINE more == (IF bonus > 0 THEN 1 ELSE 0) + (IF reward > 0 THEN 1 ELSE 0)
             new1 == NewLot("paid", bonus, expires, p)
             new2 == NewLot("gift", reward, expires, p)
  <2>2. /\ opened' = opened + more
        /\ lots' = [g \in Lots |-> IF bonus > 0 /\ g = opened + 1 THEN new1
                                   ELSE IF reward > 0 /\ g = opened + more THEN new2
                                   ELSE lots[g]]
        /\ usage' = usage /\ posted' = posted
    BY <2>1 DEF RecordTopup
  <2>3. new1.funding = "paid" /\ new2.funding = "gift"
    BY DEF NewLot
  <2>4. /\ more \in 0..2
        /\ more = 0 => ~(bonus > 0) /\ ~(reward > 0)
        /\ more = 1 => (bonus > 0 \/ reward > 0) /\ ~(bonus > 0 /\ reward > 0)
        /\ more = 2 => bonus > 0 /\ reward > 0
    OBVIOUS
  <2> HIDE DEF more, new1, new2
  <2>5. \A g \in Lots : g <= opened => lots'[g] = lots[g]
    BY <1>0, <2>2, <2>4
  <2>6. \A g \in Lots : g > opened' => lots'[g] = lots[g] /\ g > opened
    BY <1>0, <2>2, <2>4
  <2>7. \A g \in Lots : g > opened /\ g <= opened' => lots'[g].funding # "none"
    BY <1>0, <2>2, <2>3, <2>4
  <2>8. LotsKept
    BY <1>0, <2>2, <2>4, <2>5 DEF LotsKept
  <2>9. Numbered'
    BY <1>0, <2>2, <2>5, <2>6, <2>7 DEF Numbered
  <2> QED BY <2>2, <2>8, <2>9
<1>3. CASE PaymentRefund
  <2>1. PICK p \in Payments, total \in TopUps : RecordChargeRefund(p, total)
    BY <1>3 DEF PaymentRefund
  <2>2. /\ lots' = [g \in Lots |-> IF lots[g].payment = p THEN [lots[g] EXCEPT !.remaining = 0] ELSE lots[g]]
        /\ opened' = opened /\ usage' = usage /\ posted' = posted
    BY <2>1 DEF RecordChargeRefund
  <2>3. \A g \in Lots : /\ lots'[g].funding = lots[g].funding
                        /\ lots[g].remaining = 0 => lots'[g].remaining = 0
    BY <1>0, <2>2 DEF Lot
  <2> QED BY <1>0, <2>2, <2>3 DEF LotsKept, Numbered
<1>4. CASE Adjust \/ Tick \/ UNCHANGED vars
  <2>1. lots' = lots /\ opened' = opened /\ usage' = usage /\ posted' = posted
    BY <1>4 DEF Adjust, AdjustWallet, Tick, vars
  <2> QED BY <1>0, <2>1 DEF LotsKept, Numbered
<1> QED BY <1>1, <1>2, <1>3, <1>4

\* What comes in and goes out of the wallet by other ways is paid in, paid back
\* or adjusted.
LEMMA CashIs ==
    ASSUME TypeOK, TypeOK', Topup \/ PaymentRefund \/ Adjust
    PROVE  PaidIn(payments) \in Int /\ wallet' = wallet + (adjusted' - adjusted)
                                                + (PaidIn(payments') - PaidIn(payments))
<1> DEFINE in  == [p \in Payments |-> payments[p].paid - payments[p].refunded]
           in2 == [p \in Payments |-> payments'[p].paid - payments'[p].refunded]
<1>1. payments \in [Payments -> [paid: Nat, refunded: Nat]]
      /\ payments' \in [Payments -> [paid: Nat, refunded: Nat]]
      /\ wallet \in Int /\ adjusted \in Int
    BY DEF TypeOK
<1>2. \A p \in Payments : in[p] \in Int /\ in2[p] \in Int
    BY <1>1
<1>3. PaidIn(payments) = SumFunctionOnSet(in, Payments) /\ PaidIn(payments') = SumFunctionOnSet(in2, Payments)
    BY DEF PaidIn
<1>4. ASSUME NEW p \in Payments, \A q \in Payments : q # p => payments'[q] = payments[q]
      PROVE  PaidIn(payments') - PaidIn(payments) = in2[p] - in[p]
  <2>1. \A q \in Payments : q # p => in2[q] = in[q]
    BY <1>4
  <2> HIDE DEF in, in2
  <2>2. SumFunctionOnSet(in, Payments) \in Int
    BY <1>2, SumInt, FiniteAssumption
  <2>3. SumFunctionOnSet(in2, Payments) = SumFunctionOnSet(in, Payments) + (in2[p] - in[p])
    BY <1>2, <2>1, SumChange, FiniteAssumption
  <2>4. in[p] \in Int /\ in2[p] \in Int
    BY <1>2
  <2> QED BY <1>3, <2>2, <2>3, <2>4
<1>5. PaidIn(payments) \in Int
  <2> HIDE DEF in
  <2> QED BY <1>2, <1>3, SumInt, FiniteAssumption
<1>6. CASE Topup
  <2>1. PICK p \in Payments, amount \in TopUps, bonus \in Bonuses, reward \in Gifts \cup {0},
             expires \in (now + 1)..Forever : RecordTopup(p, amount, bonus, reward, expires)
    BY <1>6 DEF Topup
  <2>2. payments[p].paid = 0 /\ payments' = [payments EXCEPT ![p].paid = amount]
        /\ wallet' = wallet + amount /\ adjusted' = adjusted /\ amount \in Nat
    BY <2>1, AmountsAssumption DEF RecordTopup
  <2>3. \A q \in Payments : q # p => payments'[q] = payments[q]
    BY <1>1, <2>2
  <2>4. payments'[p].paid = amount /\ payments'[p].refunded = payments[p].refunded
        /\ payments[p].refunded \in Nat
    BY <1>1, <2>2
  <2>5. in2[p] - in[p] = amount
    BY <1>1, <2>2, <2>4
  <2>6. PaidIn(payments') - PaidIn(payments) = amount
    BY <1>4, <2>3, <2>5
  <2> QED BY <1>1, <1>5, <2>2, <2>6
<1>7. CASE PaymentRefund
  <2>1. PICK p \in Payments, total \in TopUps : RecordChargeRefund(p, total)
    BY <1>7 DEF PaymentRefund
  <2> DEFINE delta == Surplus(Least(total, payments[p].paid), payments[p].refunded)
  <2>2. /\ payments' = [payments EXCEPT ![p].refunded = @ + delta]
        /\ wallet' = wallet - delta /\ adjusted' = adjusted
    BY <2>1 DEF RecordChargeRefund
  <2>3. delta \in Nat
    <3>1. total \in Nat /\ payments[p].paid \in Nat /\ payments[p].refunded \in Nat
      BY <1>1, AmountsAssumption
    <3> QED BY <3>1 DEF Surplus, Least
  <2> HIDE DEF delta
  <2>4. \A q \in Payments : q # p => payments'[q] = payments[q]
    BY <1>1, <2>2
  <2>5. /\ payments'[p].paid = payments[p].paid /\ payments'[p].refunded = payments[p].refunded + delta
        /\ payments[p].refunded \in Nat /\ payments[p].paid \in Nat
    BY <1>1, <2>2
  <2>6. in2[p] - in[p] = 0 - delta
    BY <2>3, <2>5
  <2>7. PaidIn(payments') - PaidIn(payments) = 0 - delta
    BY <1>4, <2>4, <2>6
  <2> QED BY <1>1, <1>5, <2>2, <2>3, <2>7
<1>8. CASE Adjust
  <2>1. PICK amount \in Adjustments, allowNegative \in BOOLEAN : AdjustWallet(amount, allowNegative)
    BY <1>8 DEF Adjust
  <2>2. wallet' = wallet + amount /\ adjusted' = adjusted + amount /\ payments' = payments /\ amount \in Int
    BY <2>1, AmountsAssumption DEF AdjustWallet
  <2> QED BY <1>1, <1>5, <2>2
<1> QED BY <1>5, <1>6, <1>7, <1>8

\* The inductive invariant: rows are split and sound, lots are numbered, and
\* the wallet holds the cash.
Cash == wallet = adjusted + PaidIn(payments) - WalletOf(usage)

Balanced == /\ ChargeSplit
            /\ Numbered
            /\ \A k \in Keys : RowSound(k)
            /\ Cash

\* Reservations, settlements and refunds balance.
LEMMA UsageBalances ==
    ASSUME TypeOK, TypeOK', ChargeSplit, Numbered, \A x \in Keys : RowSound(x),
           Reserve \/ Settle \/ Refund
    PROVE  /\ Conserved /\ Numbered' /\ \A x \in Keys : RowSound(x)'
           /\ adjusted' = adjusted /\ payments' = payments
<1>1. CASE Reserve
  <2>1. PICK k \in Keys, a \in Keys \cup {NoKey}, route \in Routes, policy \in Policies,
             charge \in Charges, extra \in Charges \cup {0} :
            ReserveUsage(k, charge, route, a, extra, policy)
    BY <1>1 DEF Reserve
  <2>2. adjusted' = adjusted /\ payments' = payments
    BY <2>1 DEF ReserveUsage
  <2> QED BY <2>1, <2>2, ReserveBalances
<1>2. CASE Settle
  <2>1. PICK k \in Keys, actual \in Charges : SettleUsage(k, actual)
    BY <1>2 DEF Settle
  <2>2. PICK charge \in Nat :
          SettleHigher(k, charge) \/ SettleAbsorbed(k, charge) \/ SettleLower(k, charge)
    BY <2>1, SettleCharge DEF SettleUsage
  <2>3. usage[k].state = "reserved"
    BY <2>1 DEF SettleUsage
  <2>4. adjusted' = adjusted /\ payments' = payments
    BY <2>2 DEF SettleHigher, SettleAbsorbed, SettleLower
  <2> QED BY <2>2, <2>3, <2>4, SettleHigherBalances, SettleAbsorbedBalances, SettleLowerBalances
<1>3. CASE Refund
  <2>1. PICK k \in Keys : RefundUsage(k)
    BY <1>3 DEF Refund
  <2>2. adjusted' = adjusted /\ payments' = payments
    BY <2>1 DEF RefundUsage
  <2> QED BY <2>1, <2>2, RefundBalances
<1> QED BY <1>1, <1>2, <1>3

\* Rows take integers from the wallet.
LEMMA RowSums ==
    ASSUME NEW u \in [Keys -> UsageRow]
    PROVE  WalletOf(u) \in Nat /\ ChargeOf(u) \in Nat
<1> DEFINE cash  == [x \in Keys |-> u[x].wallet]
           price == [x \in Keys |-> u[x].charge]
<1>1. \A x \in Keys : cash[x] \in Nat /\ price[x] \in Nat
    BY DEF UsageRow
<1>2. WalletOf(u) = SumFunctionOnSet(cash, Keys) /\ ChargeOf(u) = SumFunctionOnSet(price, Keys)
    BY DEF WalletOf, ChargeOf
<1> HIDE DEF cash, price
<1> QED BY <1>1, <1>2, SumNat, FiniteAssumption

\* Every step keeps the account balanced.
LEMMA NextBalanced == TypeOK /\ TypeOK' /\ Balanced /\ [Next]_vars => Balanced'
<1> SUFFICES ASSUME TypeOK, TypeOK', Balanced, [Next]_vars PROVE Balanced'
    OBVIOUS
<1>1. ChargeSplit /\ Numbered /\ (\A k \in Keys : RowSound(k)) /\ Cash
    BY DEF Balanced
<1>2. ChargeSplit'
    BY <1>1, NextSplit
<1>3. /\ wallet \in Int /\ wallet' \in Int /\ adjusted \in Int /\ adjusted' \in Int
      /\ usage \in [Keys -> UsageRow] /\ usage' \in [Keys -> UsageRow]
    BY DEF TypeOK
<1>4. WalletOf(usage) \in Nat /\ WalletOf(usage') \in Nat
    BY <1>3, RowSums
<1>5. PaidIn(payments) \in Int
  <2> DEFINE in == [p \in Payments |-> payments[p].paid - payments[p].refunded]
  <2>1. \A p \in Payments : in[p] \in Int
    BY DEF TypeOK
  <2>2. PaidIn(payments) = SumFunctionOnSet(in, Payments)
    BY DEF PaidIn
  <2> HIDE DEF in
  <2> QED BY <2>1, <2>2, SumInt, FiniteAssumption
<1>6. CASE Reserve \/ Settle \/ Refund
  <2>1. /\ Conserved /\ Numbered' /\ \A x \in Keys : RowSound(x)'
        /\ adjusted' = adjusted /\ payments' = payments
    BY <1>1, <1>6, UsageBalances
  <2>2. Cash'
    BY <1>1, <1>3, <1>4, <1>5, <2>1 DEF Conserved, Cash
  <2> QED BY <1>2, <2>1, <2>2 DEF Balanced
<1>7. CASE Grant \/ Topup \/ PaymentRefund \/ Adjust \/ Tick \/ UNCHANGED vars
  <2>1. LotsKept /\ Numbered' /\ usage' = usage /\ posted' = posted
    BY <1>1, <1>7, LotsAdded
  <2>2. \A x \in Keys : RowSound(x)'
    BY <1>1, <2>1, RowKept
  <2>3. Cash'
    <3>1. CASE Topup \/ PaymentRefund \/ Adjust
      <4>1. wallet' = wallet + (adjusted' - adjusted) + (PaidIn(payments') - PaidIn(payments))
        BY <3>1, CashIs
      <4>2. PaidIn(payments') \in Int
        <5> DEFINE in == [p \in Payments |-> payments'[p].paid - payments'[p].refunded]
        <5>1. \A p \in Payments : in[p] \in Int
          BY DEF TypeOK
        <5>2. PaidIn(payments') = SumFunctionOnSet(in, Payments)
          BY DEF PaidIn
        <5> HIDE DEF in
        <5> QED BY <5>1, <5>2, SumInt, FiniteAssumption
      <4> QED BY <1>1, <1>3, <1>4, <1>5, <2>1, <4>1, <4>2 DEF Cash
    <3>2. CASE Grant \/ Tick \/ UNCHANGED vars
      <4>1. wallet' = wallet /\ adjusted' = adjusted /\ payments' = payments
        BY <3>2 DEF Grant, AddGrant, Tick, vars
      <4> QED BY <1>1, <2>1, <4>1 DEF Cash
    <3> QED BY <1>7, <3>1, <3>2
  <2> QED BY <1>2, <2>1, <2>2, <2>3 DEF Balanced
<1> QED BY <1>6, <1>7 DEF Next

LEMMA InitBalanced == Init => Balanced
<1> SUFFICES ASSUME Init PROVE Balanced
    OBVIOUS
<1>1. ChargeSplit
    BY DEF Init, ChargeSplit, NoUsage
<1>2. \A k \in Keys, g \in Lots : posted[k][g].net = 0
    BY DEF Init, NoPost
<1>3. Numbered
  <2> SUFFICES ASSUME NEW g \in Lots
               PROVE  /\ g <= opened => lots[g].funding # "none"
                      /\ g > opened  => lots[g].remaining = 0 /\ \A k \in Keys : posted[k][g].net = 0
    BY DEF Numbered
  <2>1. ~(g <= opened)
    BY BoundsAssumption DEF Init, Lots
  <2>2. lots[g].remaining = 0
    BY DEF Init, NoLot
  <2> QED BY <1>2, <2>1, <2>2
<1>4. ASSUME NEW f, NEW S, IsFiniteSet(S), \A x \in S : f[x] = 0
      PROVE  SumFunctionOnSet(f, S) = 0
  <2>1. {} \in SUBSET S /\ \A x \in S : f[x] \in Int /\ (x \notin {} => f[x] = 0)
    BY <1>4
  <2> QED BY <1>4, <2>1, SumPart, SumOfNone
<1>5. ASSUME NEW k \in Keys PROVE RowSound(k)
  <2> DEFINE net == [g \in Lots |-> posted[k][g].net]
  <2>1. \A g \in Lots : net[g] = 0
    BY <1>2
  <2>2. \A T \in SUBSET Lots : NetOf(posted[k], T) = 0
    <3> SUFFICES ASSUME NEW T \in SUBSET Lots PROVE NetOf(posted[k], T) = 0
      OBVIOUS
    <3>1. NetOf(posted[k], T) = SumFunctionOnSet(net, T)
      BY DEF NetOf
    <3>2. IsFiniteSet(T) /\ \A g \in T : net[g] = 0
      BY <2>1, LotsFinite
    <3> HIDE DEF net
    <3> QED BY <1>4, <3>1, <3>2
  <2>3. NetOf(posted[k], Lots) = 0 /\ NetOf(posted[k], GiftLots) = 0
    BY <2>2 DEF GiftLots
  <2>4. usage[k] = NoUsage
    BY DEF Init
  <2> QED BY <1>2, <2>3, <2>4 DEF RowSound, NoUsage
<1>6. Cash
  <2>1. WalletOf(usage) = 0
    <3> DEFINE cash == [k \in Keys |-> usage[k].wallet]
    <3>1. \A k \in Keys : cash[k] = 0
      BY DEF Init, NoUsage
    <3>2. WalletOf(usage) = SumFunctionOnSet(cash, Keys)
      BY DEF WalletOf
    <3> HIDE DEF cash
    <3> QED BY <1>4, <3>1, <3>2, FiniteAssumption
  <2>2. PaidIn(payments) = 0
    <3> DEFINE in == [p \in Payments |-> payments[p].paid - payments[p].refunded]
    <3>1. \A p \in Payments : in[p] = 0
      BY DEF Init
    <3>2. PaidIn(payments) = SumFunctionOnSet(in, Payments)
      BY DEF PaidIn
    <3> HIDE DEF in
    <3> QED BY <1>4, <3>1, <3>2, FiniteAssumption
  <2> QED BY <2>1, <2>2 DEF Init, Cash
<1> QED BY <1>1, <1>3, <1>5, <1>6 DEF Balanced

LEMMA AlwaysBalanced == Spec => []Balanced
  BY InitBalanced, NextBalanced, Typing, PTL DEF Spec

\* The wallet is the cash that was paid in and adjusted, less what usage rows
\* took from it: no refund, replaced lot or settlement turns a grant into cash.
THEOREM WalletHoldsCash == Spec => []WalletIsCash
<1>1. Balanced => WalletIsCash
  <2>1. SumFunction([p \in Payments |-> payments[p].paid - payments[p].refunded]) = PaidIn(payments)
    BY DEF SumFunction, PaidIn
  <2>2. SumFunction([k \in Keys |-> usage[k].wallet]) = WalletOf(usage)
    BY DEF SumFunction, WalletOf
  <2> QED BY <2>1, <2>2 DEF Balanced, Cash, WalletIsCash
<1> QED BY <1>1, AlwaysBalanced, PTL

\* What the ledger rows of a key say the lots paid is the grant part of its
\* usage row, however often lots expired, were replaced or were used again.
THEOREM LedgerAddsUp == Spec => []LedgerMatchesUsage
<1>1. Balanced => LedgerMatchesUsage
  <2>1. \A k \in Keys : SumFunction([g \in Lots |-> posted[k][g].net]) = NetOf(posted[k], Lots)
    BY DEF SumFunction, NetOf
  <2> QED BY <2>1 DEF Balanced, RowSound, LedgerMatchesUsage
<1> QED BY <1>1, AlwaysBalanced, PTL

\* Gift money stays gift money: what gift lots paid for a key that is used once
\* is the gift part of its row, and nothing once it was refunded.
THEOREM GiftsStayGifts == Spec => []GiftStaysGift
<1>1. Balanced => GiftStaysGift
    BY DEF Balanced, RowSound, GiftStaysGift, NetOf, GiftLots
<1> QED BY <1>1, AlwaysBalanced, PTL


-----------------------------------------------------------------------------
(* Refunds can be spent                                                    *)

\* Where something is put back, it can be spent.
PutBackOpen == \A g \in Lots : lots'[g].remaining > lots[g].remaining => lots'[g].expires > now'

\* A debit puts nothing back.
LEMMA DebitPutsNothing ==
    ASSUME TypeOK, NEW b \in Account, NEW amount \in Nat, NEW paidOnly \in BOOLEAN
    PROVE  \A g \in Lots : Debited(b, amount, paidOnly).left[g] <= b.left[g]
<1>1. /\ Taken(b, amount, paidOnly) \in [Lots -> Nat]
      /\ \A g \in Lots : b.left[g] \in Nat
    BY TakenBounded DEF Account
<1>2. \A g \in Lots : Debited(b, amount, paidOnly).left[g] = b.left[g] - Taken(b, amount, paidOnly)[g]
    BY DEF Debited
<1> QED BY <1>1, <1>2

\* A refund puts back only into lots that are open, or that it opens.
LEMMA CreditIsOpen ==
    ASSUME TypeOK, NEW k \in Keys, NEW amount \in Nat, NEW cash, NEW up \in BOOLEAN,
           CreditUsageRefund(k, amount, cash, up), now' = now
    PROVE  PutBackOpen
<1> DEFINE restored == Restored(k, amount, up)
           lapsed   == Lapsed(k, amount, up)
           replaced == Replaced(k, amount, up)
<1> SUFFICES ASSUME NEW g \in Lots, lots'[g].remaining > lots[g].remaining
             PROVE  lots'[g].expires > now
    BY DEF PutBackOpen
<1>1. restored \in [Lots -> Nat] /\ lots[g] \in Lot /\ now \in Nat
    BY RestoredType DEF TypeOK
<1>2. lots[g].remaining \in Nat /\ lots[g].expires \in Nat
    BY <1>1 DEF Lot
<1>3. lots'[g] = IF g \in DOMAIN replaced
                 THEN [funding   |-> lots[replaced[g]].funding,
                       remaining |-> restored[replaced[g]],
                       expires   |-> now + ReturnTerm,
                       payment   |-> NoPayment]
                 ELSE IF g \in lapsed
                 THEN lots[g]
                 ELSE [lots[g] EXCEPT !.remaining = @ + restored[g]]
    BY DEF CreditUsageRefund, RestoredLots
<1>4. g \notin lapsed => restored[g] = 0 \/ lots[g].expires > now
    BY <1>1, <1>2 DEF Lapsed
<1> HIDE DEF restored, lapsed, replaced
<1>5. CASE g \in DOMAIN replaced
    BY <1>1, <1>3, <1>5, BoundsAssumption
<1>6. CASE g \notin DOMAIN replaced /\ g \in lapsed
    BY <1>2, <1>3, <1>6
<1>7. CASE g \notin DOMAIN replaced /\ g \notin lapsed
  <2>1. /\ lots'[g].remaining = lots[g].remaining + restored[g]
        /\ lots'[g].expires = lots[g].expires
    BY <1>1, <1>3, <1>7 DEF Lot
  <2> QED BY <1>1, <1>2, <1>4, <1>7, <2>1
<1> QED BY <1>5, <1>6, <1>7

\* No step puts anything into a lot that cannot be spent.
LEMMA NextIsOpen == TypeOK /\ [Next]_vars => PutBackOpen
<1> SUFFICES ASSUME TypeOK, [Next]_vars PROVE PutBackOpen
    OBVIOUS
<1>1. \A g \in Lots : lots[g] \in Lot /\ lots[g].remaining \in Nat /\ Books.left[g] = lots[g].remaining
    BY DEF TypeOK, Lot, Books
<1>2. ASSUME NEW b \in Account, \A g \in Lots : b.left[g] <= lots[g].remaining,
             lots' = [g \in Lots |-> [lots[g] EXCEPT !.remaining = b.left[g]]]
      PROVE  PutBackOpen
  <2> SUFFICES ASSUME NEW g \in Lots PROVE ~(lots'[g].remaining > lots[g].remaining)
    BY DEF PutBackOpen
  <2>1. lots'[g] = [lots[g] EXCEPT !.remaining = b.left[g]] /\ b.left[g] \in Nat
    BY <1>2 DEF Account
  <2>2. lots'[g].remaining = b.left[g]
    BY <1>1, <2>1 DEF Lot
  <2> QED BY <1>1, <1>2, <2>1, <2>2
<1>3. CASE Reserve
  <2>1. PICK k \in Keys, a \in Keys \cup {NoKey}, route \in Routes, policy \in Policies,
             charge \in Charges, extra \in Charges \cup {0} :
            ReserveUsage(k, charge, route, a, extra, policy)
    BY <1>3 DEF Reserve
  <2> DEFINE paidOnly == route = "discounted"
             anyMoney == FALSE
             due1 == Due(k, charge, policy)
             due2 == Due(a, extra, policy)
             b1   == Debited(Books, due1, paidOnly)
             b2   == Debited(b1, due2, anyMoney)
  <2>2. due1 \in Nat /\ due2 \in Nat /\ paidOnly \in BOOLEAN /\ anyMoney \in BOOLEAN
    BY DueNat, AmountsAssumption
  <2>3. Books \in Account /\ b1 \in Account /\ b2 \in Account
    BY <2>2, ReserveParts, BooksAccount
  <2>4. lots' = [g \in Lots |-> [lots[g] EXCEPT !.remaining = b2.left[g]]]
    BY <2>1 DEF ReserveUsage
  <2> HIDE DEF paidOnly, anyMoney, due1, due2
  <2>5. \A g \in Lots : b1.left[g] <= Books.left[g]
    BY <2>2, <2>3, DebitPutsNothing
  <2> HIDE DEF b1
  <2>6. \A g \in Lots : b2.left[g] <= b1.left[g]
    BY <2>2, <2>3, DebitPutsNothing
  <2> HIDE DEF b2
  <2>7. \A g \in Lots : b2.left[g] <= lots[g].remaining
    BY <1>1, <2>3, <2>5, <2>6 DEF Account
  <2> QED BY <1>2, <2>3, <2>4, <2>7
<1>4. CASE Settle
  <2>1. PICK k \in Keys, actual \in Charges : SettleUsage(k, actual)
    BY <1>4 DEF Settle
  <2>2. PICK charge \in Nat :
          SettleHigher(k, charge) \/ SettleAbsorbed(k, charge) \/ SettleLower(k, charge)
    BY <2>1, SettleCharge DEF SettleUsage
  <2>3. usage[k] \in UsageRow /\ usage[k].charge \in Nat /\ usage[k].grant \in Nat
    BY RowFields DEF TypeOK
  <2>4. CASE SettleHigher(k, charge)
    <3> DEFINE extra    == charge - usage[k].charge
               paidOnly == usage[k].route # "open"
               after    == Debited(Books, extra, paidOnly)
    <3>1. /\ extra \in Nat /\ paidOnly \in BOOLEAN
          /\ lots' = [g \in Lots |-> [lots[g] EXCEPT !.remaining = after.left[g]]]
      BY <2>3, <2>4 DEF SettleHigher
    <3> HIDE DEF extra, paidOnly
    <3>2. after \in Account /\ \A g \in Lots : after.left[g] <= Books.left[g]
      BY <3>1, BooksAccount, DebitedAccount, DebitPutsNothing
    <3> HIDE DEF after
    <3>3. \A g \in Lots : after.left[g] <= lots[g].remaining
      BY <1>1, <3>2
    <3> QED BY <1>2, <3>1, <3>2, <3>3
  <2>5. CASE SettleAbsorbed(k, charge)
    <3>1. lots' = lots
      BY <2>5 DEF SettleAbsorbed
    <3> QED BY <1>1, <3>1 DEF PutBackOpen
  <2>6. CASE SettleLower(k, charge)
    <3> DEFINE fromWallet == WalletPart(usage[k], usage[k].charge - charge)
               fromGrants == GrantPart(usage[k], usage[k].charge - charge)
    <3>1. charge <= usage[k].charge /\ now' = now
      BY <2>6 DEF SettleLower
    <3>2. fromGrants \in 0..usage[k].grant
      BY <2>3, <3>1, LowerParts
    <3>3. fromGrants \in Nat
      BY <2>3, <3>2
    <3>4. PICK up \in BOOLEAN : CreditUsageRefund(k, fromGrants, fromWallet, up)
      BY <2>6 DEF SettleLower
    <3> HIDE DEF fromGrants, fromWallet
    <3> QED BY <3>1, <3>3, <3>4, CreditIsOpen
  <2> QED BY <2>2, <2>4, <2>5, <2>6
<1>5. CASE Refund
  <2>1. PICK k \in Keys : RefundUsage(k)
    BY <1>5 DEF Refund
  <2>2. usage[k].grant \in Nat /\ now' = now
    BY <2>1, RowFields DEF TypeOK, RefundUsage
  <2>3. PICK up \in BOOLEAN : CreditUsageRefund(k, usage[k].grant, usage[k].wallet, up)
    BY <2>1 DEF RefundUsage
  <2> QED BY <2>2, <2>3, CreditIsOpen
<1>6. CASE Grant
  <2>1. PICK amount \in Gifts, expires \in (now + 1)..Forever : AddGrant("gift", amount, expires)
    BY <1>6 DEF Grant
  <2> DEFINE new == NewLot("gift", amount, expires, NoPayment)
  <2>2. lots' = [lots EXCEPT ![opened + 1] = new] /\ expires > now /\ now' = now /\ new.expires = expires
    BY <2>1 DEF AddGrant, NewLot
  <2> HIDE DEF new
  <2>3. \A g \in Lots : lots'[g] = IF g = opened + 1 THEN new ELSE lots[g]
    BY <2>2 DEF TypeOK
  <2> QED BY <1>1, <2>2, <2>3 DEF PutBackOpen
<1>7. CASE Topup
  <2>1. PICK p \in Payments, amount \in TopUps, bonus \in Bonuses, reward \in Gifts \cup {0},
             expires \in (now + 1)..Forever : RecordTopup(p, amount, bonus, reward, expires)
    BY <1>7 DEF Topup
  <2> DEFINE more == (IF bonus > 0 THEN 1 ELSE 0) + (IF reward > 0 THEN 1 ELSE 0)
             new1 == NewLot("paid", bonus, expires, p)
             new2 == NewLot("gift", reward, expires, p)
  <2>2. /\ lots' = [g \in Lots |-> IF bonus > 0 /\ g = opened + 1 THEN new1
                                   ELSE IF reward > 0 /\ g = opened + more THEN new2
                                   ELSE lots[g]]
        /\ expires > now /\ now' = now /\ new1.expires = expires /\ new2.expires = expires
    BY <2>1 DEF RecordTopup, NewLot
  <2> HIDE DEF more, new1, new2
  <2>3. \A g \in Lots : lots'[g] = new1 \/ lots'[g] = new2 \/ lots'[g] = lots[g]
    BY <2>2
  <2> QED BY <1>1, <2>2, <2>3 DEF PutBackOpen
<1>8. CASE PaymentRefund
  <2>1. PICK p \in Payments, total \in TopUps : RecordChargeRefund(p, total)
    BY <1>8 DEF PaymentRefund
  <2>2. lots' = [g \in Lots |-> IF lots[g].payment = p THEN [lots[g] EXCEPT !.remaining = 0] ELSE lots[g]]
    BY <2>1 DEF RecordChargeRefund
  <2>3. \A g \in Lots : lots'[g].remaining = 0 \/ lots'[g].remaining = lots[g].remaining
    BY <1>1, <2>2 DEF Lot
  <2> QED BY <1>1, <2>3 DEF PutBackOpen
<1>9. CASE Adjust \/ Tick \/ UNCHANGED vars
  <2>1. lots' = lots
    BY <1>9 DEF Adjust, AdjustWallet, Tick, vars
  <2> QED BY <1>1, <2>1 DEF PutBackOpen
<1> QED BY <1>3, <1>4, <1>5, <1>6, <1>7, <1>8, <1>9 DEF Next

\* A refund never lands in a lot that has expired, however long the row was
\* reserved: what it brings back can be spent.
THEOREM RefundsCanBeSpent == Spec => RefundIsSpendable
<1>1. TypeOK /\ [Next]_vars
        => [\A g \in Lots : lots'[g].remaining > lots[g].remaining => lots'[g].expires > now']_vars
    BY NextIsOpen DEF PutBackOpen
<1> QED BY <1>1, Typing, PTL DEF Spec, RefundIsSpendable


-----------------------------------------------------------------------------
(* The ledger implements the purse                                         *)

\* What a step may do to a key: nothing, or take it to its next state.
KeyMoves(k) ==
    \/ usage'[k].state = usage[k].state /\ usage'[k].charge = usage[k].charge
    \/ usage[k].state = "none" /\ usage'[k].state = "reserved"
    \/ usage[k].state = "reserved" /\ usage'[k].state \in {"settled", "refunded"}
    \/ usage[k].state = "refunded" /\ usage'[k].state = "reserved" /\ k \in Durable

\* Reservations, settlements and refunds move one key at least.
LEMMA KeysMove ==
    ASSUME TypeOK, Reserve \/ Settle \/ Refund
    PROVE  /\ \A x \in Keys : KeyMoves(x)
           /\ \E x \in Keys : usage'[x].state # usage[x].state
<1>1. CASE Reserve
  <2>1. PICK k \in Keys, a \in Keys \cup {NoKey}, route \in Routes, policy \in Policies,
             charge \in Charges, extra \in Charges \cup {0} :
            ReserveUsage(k, charge, route, a, extra, policy)
    BY <1>1 DEF Reserve
  <2> DEFINE paidOnly == route = "discounted"
             due1     == Due(k, charge, policy)
             due2     == Due(a, extra, policy)
             b1       == Debited(Books, due1, paidOnly)
             row1     == ReservedRow(k, Books, due1, paidOnly, route, policy)
             row2     == ReservedRow(a, b1, due2, FALSE, "open", policy)
             debits2  == a # NoKey /\ Fresh(a)
  <2>2. /\ a # k
        /\ Fresh(k) \/ debits2
        /\ usage' = [x \in Keys |-> IF x = k /\ Fresh(k) THEN row1
                                    ELSE IF x = a /\ debits2 THEN row2 ELSE usage[x]]
    BY <2>1 DEF ReserveUsage
  <2>3. row1.state = "reserved" /\ row2.state = "reserved"
    BY DEF ReservedRow
  <2>4. \A x \in Keys : Fresh(x) => \/ usage[x].state = "none"
                                    \/ usage[x].state = "refunded" /\ x \in Durable
    BY DEF Fresh
  <2>5. debits2 => a \in Keys
    OBVIOUS
  <2> HIDE DEF row1, row2, debits2
  <2>6. \A x \in Keys : \/ usage'[x] = usage[x]
                        \/ Fresh(x) /\ usage'[x].state = "reserved"
    <3>1. debits2 => Fresh(a)
      BY DEF debits2
    <3> QED BY <2>2, <2>3, <3>1
  <2>7. \E x \in Keys : Fresh(x) /\ usage'[x].state = "reserved"
    <3>1. debits2 => Fresh(a)
      BY DEF debits2
    <3>2. CASE Fresh(k)
      <4>1. usage'[k].state = "reserved"
        BY <2>2, <2>3, <3>2
      <4> QED BY <3>2, <4>1
    <3>3. CASE debits2
      <4>1. a \in Keys /\ usage'[a].state = "reserved"
        BY <2>2, <2>3, <2>5, <3>3
      <4> QED BY <3>1, <3>3, <4>1
    <3> QED BY <2>2, <3>2, <3>3
  <2> QED BY <2>4, <2>6, <2>7 DEF KeyMoves
<1>2. ASSUME NEW k \in Keys, usage[k].state = "reserved",
             usage'[k].state \in {"settled", "refunded"},
             \A x \in Keys : x # k => usage'[x] = usage[x]
      PROVE  /\ \A x \in Keys : KeyMoves(x)
             /\ \E x \in Keys : usage'[x].state # usage[x].state
  <2>1. \A x \in Keys : KeyMoves(x)
    BY <1>2 DEF KeyMoves
  <2>2. usage'[k].state # usage[k].state
    BY <1>2
  <2> QED BY <2>1, <2>2
<1>3. CASE Settle
  <2>1. PICK k \in Keys, actual \in Charges : SettleUsage(k, actual)
    BY <1>3 DEF Settle
  <2>2. usage[k].state = "reserved" /\ usage[k] \in UsageRow /\ usage \in [Keys -> UsageRow]
    BY <2>1 DEF SettleUsage, TypeOK
  <2>3. PICK charge :
          SettleHigher(k, charge) \/ SettleAbsorbed(k, charge) \/ SettleLower(k, charge)
    BY <2>1 DEF SettleUsage
  <2>4. usage'[k].state = "settled" /\ \A x \in Keys : x # k => usage'[x] = usage[x]
    <3>1. CASE SettleHigher(k, charge)
      BY <2>2, <3>1 DEF SettleHigher, UsageRow
    <3>2. CASE SettleAbsorbed(k, charge)
      BY <2>2, <3>2 DEF SettleAbsorbed, UsageRow
    <3>3. CASE SettleLower(k, charge)
      BY <2>2, <3>3 DEF SettleLower, UsageRow
    <3> QED BY <2>3, <3>1, <3>2, <3>3
  <2> QED BY <1>2, <2>2, <2>4
<1>4. CASE Refund
  <2>1. PICK k \in Keys : RefundUsage(k)
    BY <1>4 DEF Refund
  <2>2. usage[k].state = "reserved" /\ usage[k] \in UsageRow /\ usage \in [Keys -> UsageRow]
    BY <2>1 DEF RefundUsage, TypeOK
  <2>3. usage'[k].state = "refunded" /\ \A x \in Keys : x # k => usage'[x] = usage[x]
    BY <2>1, <2>2 DEF RefundUsage, UsageRow
  <2> QED BY <1>2, <2>2, <2>3
<1> QED BY <1>1, <1>3, <1>4

\* The purse adds up as the ledger does.
LEMMA PurseSum == \A f : P!SumFunction(f) = SumFunction(f)
  BY DEF P!SumFunction, P!SumFunctionOnSet, P!FoldFunctionOnSet, P!MapThenFoldSet,
         SumFunction, SumFunctionOnSet, FoldFunctionOnSet, MapThenFoldSet

\* The purse's variables, as the ledger computes them.
Balance == wallet + SumFunction([g \in Lots |-> lots[g].remaining])
States  == [k \in Keys |-> usage[k].state]
Prices  == [k \in Keys |-> usage[k].charge]

\* The ledger starts as a purse.
LEMMA InitPurse == Init => P!Init
<1> SUFFICES ASSUME Init PROVE P!Init
    OBVIOUS
<1>1. wallet = 0 /\ \A k \in Keys : usage[k].state = "none" /\ usage[k].charge = 0
    BY DEF Init, NoUsage
<1>2. SumFunction([g \in Lots |-> lots[g].remaining]) = 0
  <2> DEFINE f == [g \in Lots |-> lots[g].remaining]
  <2>1. SumFunction(f) = SumFunctionOnSet(f, Lots)
    BY DEF SumFunction
  <2>2. \A g \in Lots : f[g] \in Int /\ (g \notin {} => f[g] = 0)
    BY DEF Init, NoLot
  <2> HIDE DEF f
  <2>3. SumFunctionOnSet(f, Lots) = SumFunctionOnSet(f, {}) /\ SumFunctionOnSet(f, {}) = 0
    <3>1. {} \in SUBSET Lots /\ IsFiniteSet(Lots)
      BY LotsFinite
    <3> QED BY <2>2, <3>1, SumPart, SumOfNone
  <2> QED BY <2>1, <2>3 DEF f
<1>3. [k \in Keys |-> usage[k].state] = [k \in Keys |-> "none"]
      /\ [k \in Keys |-> usage[k].charge] = [k \in Keys |-> 0]
    BY <1>1
<1> QED BY <1>1, <1>2, <1>3 DEF P!Init

\* Its steps are steps of a purse, or leave the purse as it was.
LEMMA NextPurse ==
    TypeOK /\ TypeOK' /\ Balanced /\ Balanced' /\ [Next]_vars
        => P!Next \/ UNCHANGED <<Balance, States, Prices>>
<1> SUFFICES ASSUME TypeOK, TypeOK', Balanced, Balanced', [Next]_vars
             PROVE  P!Next \/ UNCHANGED <<Balance, States, Prices>>
    OBVIOUS
<1>1. /\ Balance = wallet + LeftIn(lots) /\ Balance' = wallet' + LeftIn(lots')
    BY DEF Balance, LeftIn, SumFunction
<1>2. /\ wallet \in Int /\ wallet' \in Int /\ LeftIn(lots) \in Int /\ LeftIn(lots') \in Int
  <2> DEFINE left  == [g \in Lots |-> lots[g].remaining]
             left2 == [g \in Lots |-> lots'[g].remaining]
  <2>1. \A g \in Lots : left[g] \in Int /\ left2[g] \in Int
    BY DEF TypeOK, Lot
  <2>2. LeftIn(lots) = SumFunctionOnSet(left, Lots) /\ LeftIn(lots') = SumFunctionOnSet(left2, Lots)
    BY DEF LeftIn
  <2> HIDE DEF left, left2
  <2>3. LeftIn(lots) \in Int /\ LeftIn(lots') \in Int
    BY <2>1, <2>2, SumInt, LotsFinite
  <2> QED BY <2>3 DEF TypeOK
<1>3. /\ usage \in [Keys -> UsageRow] /\ usage' \in [Keys -> UsageRow]
      /\ \A k \in Keys : /\ usage[k].charge \in Nat /\ usage'[k].charge \in Nat
                         /\ usage'[k].state \in {"none", "reserved", "settled", "refunded"}
    BY RowFields DEF TypeOK
<1>4. CASE Reserve \/ Settle \/ Refund
  <2>1. /\ \A k \in Keys : KeyMoves(k)
        /\ \E k \in Keys : usage'[k].state # usage[k].state
    BY <1>4, KeysMove
  <2>2. Conserved
    BY <1>4, UsageBalances DEF Balanced
  <2>3. \A k \in Keys : usage'[k].state = "refunded" => usage'[k].charge = 0
    BY DEF Balanced, RowSound
  <2>4. /\ States' # States /\ States' \in [Keys -> {"none", "reserved", "settled", "refunded"}]
        /\ Prices' \in [Keys -> Nat]
        /\ \A k \in Keys : States'[k] = "refunded" => Prices'[k] = 0
        /\ \A k \in Keys : \/ States'[k] = States[k] /\ Prices'[k] = Prices[k]
                           \/ P!MayBecome(k, States[k], States'[k])
    <3>1. \A k \in Keys : /\ States[k] = usage[k].state /\ States'[k] = usage'[k].state
                          /\ Prices[k] = usage[k].charge /\ Prices'[k] = usage'[k].charge
      BY DEF States, Prices
    <3>2. States' # States
      BY <2>1, <3>1
    <3>3. States' \in [Keys -> {"none", "reserved", "settled", "refunded"}] /\ Prices' \in [Keys -> Nat]
      BY <1>3 DEF States, Prices
    <3>4. \A k \in Keys : \/ States'[k] = States[k] /\ Prices'[k] = Prices[k]
                          \/ P!MayBecome(k, States[k], States'[k])
      BY <2>1, <3>1 DEF KeyMoves, P!MayBecome
    <3> QED BY <2>3, <3>1, <3>2, <3>3, <3>4
  <2>5. Balance' + SumFunction(Prices') = Balance + SumFunction(Prices)
    <3>1. SumFunction(Prices) = ChargeOf(usage) /\ SumFunction(Prices') = ChargeOf(usage')
      BY DEF SumFunction, Prices, ChargeOf
    <3>2. ChargeOf(usage) \in Nat /\ ChargeOf(usage') \in Nat
      BY <1>3, RowSums
    <3> QED BY <1>1, <1>2, <2>2, <3>1, <3>2 DEF Conserved
  <2>6. P!Charge
    <3>1. P!Spent = SumFunction(Prices)
      BY PurseSum DEF P!Spent, Prices
    <3>2. /\ States' = [k \in Keys |-> usage[k].state]' /\ States = [k \in Keys |-> usage[k].state]
          /\ Prices' = [k \in Keys |-> usage[k].charge]' /\ Prices = [k \in Keys |-> usage[k].charge]
          /\ Balance' = (wallet + SumFunction([g \in Lots |-> lots[g].remaining]))'
          /\ Balance = wallet + SumFunction([g \in Lots |-> lots[g].remaining])
      BY DEF States, Prices, Balance
    <3> DEFINE state2  == [k \in Keys |-> usage[k].state]'
               charge2 == [k \in Keys |-> usage[k].charge]'
    <3>3. /\ States # state2 /\ state2 \in [Keys -> P!States] /\ charge2 \in [Keys -> Nat]
          /\ \A k \in Keys : state2[k] = "refunded" => charge2[k] = 0
          /\ \A k \in Keys : \/ state2[k] = States[k] /\ charge2[k] = Prices[k]
                             \/ P!MayBecome(k, States[k], state2[k])
      BY <2>4, <3>2 DEF P!States
    <3>4. (wallet + SumFunction([g \in Lots |-> lots[g].remaining]))' + SumFunction(charge2)
            = wallet + SumFunction([g \in Lots |-> lots[g].remaining]) + P!Spent
      BY <2>5, <3>1, <3>2
    <3>5. P!SumFunction(charge2) = SumFunction(charge2)
      BY PurseSum
    <3> QED BY <3>2, <3>3, <3>4, <3>5 DEF P!Charge
  <2> QED BY <2>6 DEF P!Next
<1>5. CASE Grant \/ Topup \/ PaymentRefund \/ Adjust \/ Tick \/ UNCHANGED vars
  <2>1. usage' = usage
    BY <1>5, LotsAdded DEF Balanced
  <2>2. Balance' \in Int
    BY <1>1, <1>2
  <2>3. P!Deposit
    BY <2>1, <2>2 DEF P!Deposit, Balance
  <2> QED BY <2>3 DEF P!Next
<1> QED BY <1>4, <1>5 DEF Next

\* The ledger implements the purse: whatever lots and wallet a charge is paid
\* from and returned to, the balance loses exactly what usage rows charge more.
THEOREM LedgerIsAPurse == Spec => ImplementsPurse
<1>1. TypeOK /\ TypeOK' /\ Balanced /\ Balanced' /\ [Next]_vars
        => [P!Next]_<<Balance, States, Prices>>
    BY NextPurse
<1>2. TypeOK /\ TypeOK' /\ Balanced /\ Balanced' /\ [Next]_vars
        => [P!Next]_<<wallet + SumFunction([g \in Lots |-> lots[g].remaining]),
                      [k \in Keys |-> usage[k].state], [k \in Keys |-> usage[k].charge]>>
    BY <1>1 DEF Balance, States, Prices
<1> QED BY <1>2, InitPurse, Typing, AlwaysBalanced, PTL DEF Spec, ImplementsPurse, P!Spec


-----------------------------------------------------------------------------
(* Automatic top-ups                                                       *)

Attempt == [status : {"pending", "succeeded", "failed"}, created : Nat, saved : Nat]
Row == [status : {"none", "pending", "succeeded", "failed"}, created : Nat, saved : Nat]
Worker == [pc : {"idle", "read", "decide", "prepare", "charge", "credit", "finish"},
           since : Nat, conn : BOOLEAN, id : 0..MaxAttempts, row : Row,
           request : Nat, intent : Nat, result : {"none", "credit", "rejected", "unsure"}]
Key == [outcome : Outcomes, params : Nat, used : Nat]

-----------------------------------------------------------------------------
(* Types                                                                   *)

\* The settings are natural numbers, and a key outlives every retry.
LEMMA Settings ==
  /\ Cooldown \in Nat /\ GiveUp \in Nat /\ CallBound \in Nat /\ KeyLifetime \in Nat
  /\ MaxAttempts \in Nat /\ MaxTime \in Nat /\ MaxFaults \in Nat
  /\ GiveUp + CallBound < KeyLifetime
BY TopupAssumption

LEMMA Unfolded ==
  TopupTypeOK <=> /\ attempts \in Seq(Attempt) /\ Len(attempts) <= MaxAttempts
             /\ keys \in [Ids -> Key] /\ charges \in [Ids -> Nat]
             /\ credited \subseteq Ids \X (Nat \ {0}) /\ lock \subseteq Workers
             /\ worker \in [Workers -> Worker]
             /\ quotes \in Nat /\ clock \in Nat /\ faults \in 0..MaxFaults
BY DEF TopupTypeOK, Attempt, Key, Row, Worker

LEMMA IdleTyped == NoRow \in Row /\ Idle \in Worker
BY Settings DEF NoRow, Idle, Row, Worker

PCs == {"idle", "read", "decide", "prepare", "charge", "credit", "finish"}
Results == {"none", "credit", "rejected", "unsure"}

\* An attempt's status or payment request is written in place.
LEMMA AttemptsWritten ==
  ASSUME TopupTypeOK, NEW i, NEW e, i \in 1..Len(attempts) => e \in Attempt,
         attempts' = [attempts EXCEPT ![i] = e]
  PROVE  /\ attempts' \in Seq(Attempt) /\ Len(attempts') = Len(attempts)
         /\ \A j \in 1..Len(attempts) : attempts'[j] = IF j = i THEN e ELSE attempts[j]
<1>1. attempts \in Seq(Attempt)
  BY Unfolded
<1>2. CASE i \in 1..Len(attempts)
  BY <1>1, <1>2, ExceptSeq
<1>3. CASE i \notin 1..Len(attempts)
  <2>1. attempts' = attempts
    BY <1>1, <1>3
  <2> QED BY <1>1, <1>3, <2>1
<1> QED BY <1>2, <1>3

-----------------------------------------------------------------------------
(* Charges                                                                 *)

Busy == {"prepare", "charge", "credit", "finish"}

\* What a worker "x" relies on: its calls are within their bound, the row it
\* decides on keeps its age, it charges only for an attempt that was young
\* enough when it began, and it credits what was charged.
Local(x, as, cs, t) ==
  /\ x.pc # "idle" => x.since <= t /\ t <= x.since + CallBound
  /\ x.pc = "decide" /\ x.row.status # "none" =>
       x.id \in 1..Len(as) /\ x.row.created = as[x.id].created
  /\ x.pc \in Busy => x.id \in 1..Len(as)
  /\ x.pc \in {"prepare", "charge"} => x.since <= as[x.id].created + GiveUp
  /\ x.pc = "credit" => x.intent = 1 /\ cs[x.id] = 1

Locals == \A w \in Workers : Local(worker[w], attempts, charges, clock)

\* What Stripe and the ledger know of an attempt.
Booked ==
  /\ \A a \in 1..Len(attempts) : attempts[a].created <= clock
  /\ \A a \in Ids : keys[a].outcome # "none" =>
       a \in 1..Len(attempts) /\ attempts[a].created <= keys[a].used
  /\ \A a \in Ids : charges[a] = IF keys[a].outcome \in {"charged", "late"} THEN 1 ELSE 0
  /\ \A c \in credited : c[2] = 1 /\ charges[c[1]] = 1

Sound == TopupTypeOK /\ Locals /\ Booked

\* No step forgets an attempt, its age or its charge.
Kept ==
  /\ Len(attempts) <= Len(attempts')
  /\ \A a \in 1..Len(attempts) : attempts'[a].created = attempts[a].created
  /\ \A a \in Ids : charges[a] = 1 => charges'[a] = 1

LEMMA Lengths ==
  ASSUME TopupTypeOK
  PROVE  /\ Len(attempts) \in 0..MaxAttempts
         /\ \A a \in 1..Len(attempts) : a \in Ids /\ attempts[a] \in Attempt
BY Unfolded, Settings DEF Ids

\* A worker that does not move relies on what is kept.
LEMMA LocalKept ==
  ASSUME TopupTypeOK, Kept, Len(attempts') \in Nat, clock' = clock,
         NEW x \in Worker, Local(x, attempts, charges, clock)
  PROVE  Local(x, attempts', charges', clock')
<1>1. Len(attempts) \in Nat /\ \A a \in 1..Len(attempts) : a \in Ids /\ a \in 1..Len(attempts')
  BY Lengths, Settings DEF Kept
<1>2. x.id \in 1..Len(attempts) => attempts'[x.id].created = attempts[x.id].created
  BY DEF Kept
<1>3. x.id \in 1..Len(attempts) /\ charges[x.id] = 1 => charges'[x.id] = 1
  BY <1>1 DEF Kept
<1> QED BY <1>1, <1>2, <1>3 DEF Local, Busy

\* One worker moves, the others stay.
LEMMA OneMoves ==
  ASSUME TopupTypeOK, Locals, Kept, Len(attempts') \in Nat, clock' = clock,
         NEW w \in Workers, NEW x \in Worker, worker' = [worker EXCEPT ![w] = x],
         Local(x, attempts', charges', clock')
  PROVE  worker' \in [Workers -> Worker] /\ Locals'
<1>1. worker \in [Workers -> Worker]
  BY Unfolded
<1>2. \A v \in Workers : Local(worker[v], attempts', charges', clock')
  BY <1>1, LocalKept DEF Locals
<1> QED BY <1>1, <1>2 DEF Locals

\* What a retry finds under its key is still remembered.
LEMMA StillRemembered ==
  ASSUME Sound, NEW w \in Workers, At(w, "charge"), keys[worker[w].id].outcome # "none"
  PROVE  Remembered(worker[w].id)
<1> DEFINE a == worker[w].id
<1>1. worker[w] \in Worker /\ Local(worker[w], attempts, charges, clock) /\ clock \in Nat
  BY Unfolded DEF Sound, Locals
<1>2. a \in 1..Len(attempts)
  BY <1>1 DEF Local, Busy, At
<1>3. a \in Ids /\ attempts[a] \in Attempt /\ keys[a] \in Key
  BY <1>2, Lengths, Unfolded DEF Sound
<1>4. worker[w].since \in Nat /\ attempts[a].created \in Nat /\ keys[a].used \in Nat
  BY <1>1, <1>3 DEF Worker, Attempt, Key
<1>5. clock <= worker[w].since + CallBound /\ worker[w].since <= attempts[a].created + GiveUp
  BY <1>1 DEF Local, At
<1>6. attempts[a].created <= keys[a].used
  BY <1>3 DEF Sound, Booked
<1>7. clock - keys[a].used < KeyLifetime
  BY <1>1, <1>4, <1>5, <1>6, Settings
<1> QED BY <1>7 DEF Remembered

LEMMA WorkersTyped == TopupTypeOK => worker \in [Workers -> Worker]
BY Unfolded

-----------------------------------------------------------------------------
(* Steps                                                                   *)

LEMMA FaultUsed == ASSUME TopupTypeOK, UseFault PROVE faults' \in 0..MaxFaults
BY Unfolded, Settings DEF UseFault

\* A step that only moves one worker.
LEMMA WorkerMoves ==
  ASSUME Sound, UNCHANGED <<attempts, stripe, credited, quotes, clock>>,
         faults' \in 0..MaxFaults, lock' \subseteq Workers,
         NEW w \in Workers, NEW x \in Worker, worker' = [worker EXCEPT ![w] = x],
         Local(x, attempts, charges, clock)
  PROVE  Sound'
<1>1. TopupTypeOK /\ Locals /\ Booked /\ Len(attempts) \in Nat
  BY Lengths, Settings DEF Sound
<1>2. Kept /\ Len(attempts') \in Nat /\ clock' = clock /\ Local(x, attempts', charges', clock')
  BY <1>1 DEF Kept, stripe
<1>3. worker' \in [Workers -> Worker] /\ Locals'
  BY <1>1, <1>2, OneMoves
<1>4. TopupTypeOK'
  BY <1>1, <1>3, Unfolded DEF TopupTypeOK, Attempt, Key, Row, Worker, stripe
<1>5. Booked'
  BY <1>1 DEF Booked, stripe
<1> QED BY <1>3, <1>4, <1>5 DEF Sound

LEMMA InitSound == ASSUME TopupInit PROVE Sound
<1>1. attempts \in Seq(Attempt) /\ Len(attempts) = 0
  BY DEF TopupInit
<1>2. UnusedKey \in Key
  BY DEF UnusedKey, Key, Outcomes
<1>3. TopupTypeOK
  BY <1>1, <1>2, IdleTyped, Unfolded, Settings DEF TopupInit
<1>4. Locals
  BY DEF TopupInit, Locals, Local, Idle, Busy
<1>5. Booked
  BY <1>1 DEF TopupInit, Booked, UnusedKey, Ids
<1> QED BY <1>3, <1>4, <1>5 DEF Sound

\* A worker that stops is idle and relies on nothing.
LEMMA LeaveSound ==
  ASSUME Sound, UNCHANGED <<attempts, stripe, credited, quotes, clock>>,
         faults' \in 0..MaxFaults, NEW w \in Workers, Leave(w)
  PROVE  Sound'
<1>1. Idle \in Worker /\ Local(Idle, attempts, charges, clock)
  BY IdleTyped DEF Local, Idle, Busy
<1>2. lock' \subseteq Workers /\ worker' = [worker EXCEPT ![w] = Idle]
  BY Unfolded DEF Sound, Leave
<1> QED BY <1>1, <1>2, WorkerMoves

LEMMA TickSound == ASSUME Sound, ClockTick PROVE Sound'
<1>1. TopupTypeOK /\ clock \in Nat /\ worker \in [Workers -> Worker] /\ attempts \in Seq(Attempt)
  BY Unfolded DEF Sound
<1>2. TopupTypeOK'
  BY <1>1 DEF ClockTick, TopupTypeOK, stripe
<1>3. ASSUME NEW w \in Workers PROVE Local(worker[w], attempts, charges, clock + 1)
  <2>1. worker[w] \in Worker /\ worker[w].since \in Nat /\ Local(worker[w], attempts, charges, clock)
    BY <1>1 DEF Worker, Sound, Locals
  <2>2. worker[w].pc # "idle" => clock < worker[w].since + CallBound
    BY DEF ClockTick, At
  <2> QED BY <1>1, <2>1, <2>2, Settings DEF Local
<1>4. Locals'
  BY <1>3 DEF ClockTick, Locals, stripe
<1>5. \A a \in 1..Len(attempts) : attempts[a].created \in Nat
  BY <1>1, Lengths DEF Attempt
<1>6. Booked'
  BY <1>1, <1>5 DEF Sound, Booked, ClockTick, stripe
<1> QED BY <1>2, <1>4, <1>6 DEF Sound

\* The steps of a worker that touch nothing that is shared but the lock.
LEMMA QuietSound ==
  ASSUME Sound, NEW w \in Workers,
         \/ Start(w) \/ ReadLatest(w) \/ Refrain(w) \/ Retry(w)
         \/ Refuse(w) \/ Fail(w) \/ LoseConnection(w) \/ Crash(w)
  PROVE  Sound'
<1> DEFINE x == worker[w]
<1>1. TopupTypeOK /\ x \in Worker /\ Local(x, attempts, charges, clock) /\ clock \in Nat
      /\ faults \in 0..MaxFaults /\ lock \subseteq Workers
  BY Unfolded DEF Sound, Locals
<1>2. /\ x.pc \in PCs /\ x.since \in Nat /\ x.conn \in BOOLEAN /\ x.id \in 0..MaxAttempts
      /\ x.row \in Row /\ x.request \in Nat /\ x.intent \in Nat /\ x.result \in Results
  BY <1>1 DEF Worker, PCs, Results
<1>3. Len(attempts) \in 0..MaxAttempts /\ \A a \in 1..Len(attempts) : attempts[a] \in Attempt
  BY <1>1, Lengths
<1>4. CASE Start(w)
  <2> DEFINE y == [Idle EXCEPT !.pc = "read", !.since = clock, !.conn = TRUE]
  <2>1. y \in Worker
    BY <1>1, IdleTyped DEF Worker
  <2>2. Local(y, attempts, charges, clock)
    BY <1>1, Settings DEF Local, Idle, Busy
  <2> HIDE DEF y
  <2>3. worker' = [worker EXCEPT ![w] = y]
    BY <1>4 DEF Start, y
  <2> QED BY <1>1, <1>4, <2>1, <2>2, <2>3, WorkerMoves DEF Start
<1>5. CASE ReadLatest(w)
  <2> DEFINE r == IF attempts = <<>> THEN NoRow ELSE attempts[Len(attempts)]
             y == [x EXCEPT !.pc = "decide", !.id = Len(attempts), !.row = r]
  <2>1. attempts # <<>> => Len(attempts) \in 1..Len(attempts)
    BY <1>1, <1>3, Unfolded
  <2>2. r \in Row
    BY <1>3, <2>1, IdleTyped DEF Attempt, Row
  <2>3. y \in Worker
    BY <1>1, <1>3, <2>2 DEF Worker
  <2>4. y.pc = "decide" /\ y.id = Len(attempts) /\ y.row = r /\ y.since = x.since
    BY <1>1 DEF Worker
  <2>5. x.since <= clock /\ clock <= x.since + CallBound
    BY <1>1, <1>5 DEF Local, ReadLatest, At
  <2>6. Local(y, attempts, charges, clock)
    BY <2>1, <2>4, <2>5 DEF Local, Busy, NoRow
  <2> HIDE DEF r
  <2>7. worker' = [worker EXCEPT ![w].pc = "decide", ![w].id = Len(attempts), ![w].row = r]
    BY <1>5 DEF ReadLatest, r
  <2>8. worker' = [worker EXCEPT ![w] = y]
    BY <1>1, <2>7, WorkersTyped DEF Worker
  <2> HIDE DEF y
  <2> QED BY <1>1, <1>5, <2>3, <2>6, <2>8, WorkerMoves DEF ReadLatest
<1>6. CASE Refrain(w)
  BY <1>1, <1>6, LeaveSound DEF Refrain
<1>7. CASE Retry(w)
  <2> DEFINE y == [x EXCEPT !.pc = "prepare", !.request = x.row.saved]
  <2>1. x.row.saved \in Nat /\ x.row.created \in Nat
    BY <1>2 DEF Row
  <2>2. y \in Worker
    BY <1>1, <2>1 DEF Worker
  <2>3. y.pc = "prepare" /\ y.id = x.id /\ y.since = x.since
    BY <1>1 DEF Worker
  <2>4. x.since <= clock /\ clock <= x.since + CallBound
        /\ x.id \in 1..Len(attempts) /\ x.row.created = attempts[x.id].created
    BY <1>1, <1>7 DEF Local, Retry, At
  <2>5. clock - x.row.created <= GiveUp
    BY <1>1, <1>7, <2>1, Settings DEF Retry, TooOld
  <2>6. x.since <= attempts[x.id].created + GiveUp
    <3>1. ASSUME NEW s \in Nat, NEW t \in Nat, NEW c \in Nat, NEW g \in Nat, s <= t, t - c <= g
          PROVE  s <= c + g
      BY <3>1
    <3>2. x.since \in Nat /\ clock \in Nat /\ x.row.created \in Nat /\ GiveUp \in Nat
      BY <1>1, <1>2, <2>1, Settings
    <3>3. x.since <= x.row.created + GiveUp
      BY <2>4, <2>5, <3>1, <3>2
    <3> QED BY <2>4, <3>3
  <2>7. Local(y, attempts, charges, clock)
    BY <2>3, <2>4, <2>6 DEF Local
  <2>8. worker' = [worker EXCEPT ![w] = y]
    BY <1>1, <1>7, WorkersTyped DEF Worker, Retry
  <2> HIDE DEF y
  <2> QED BY <1>1, <1>7, <2>2, <2>7, <2>8, WorkerMoves DEF Retry
<1> DEFINE EndsWith(z) == worker' = [worker EXCEPT ![w].pc = "finish", ![w].result = z]
<1>8. ASSUME NEW z \in Results, EndsWith(z), x.pc \in {"prepare", "charge", "credit"},
             UNCHANGED <<attempts, stripe, credited, quotes, clock, lock>>,
             faults' \in 0..MaxFaults
      PROVE  Sound'
  <2> DEFINE y == [x EXCEPT !.pc = "finish", !.result = z]
  <2>1. y \in Worker
    BY <1>1, <1>8 DEF Worker, Results
  <2>2. y.pc = "finish" /\ y.id = x.id /\ y.since = x.since
    BY <1>1 DEF Worker
  <2>3. Local(y, attempts, charges, clock)
    BY <1>1, <1>8, <2>2 DEF Local, Busy
  <2>4. worker' = [worker EXCEPT ![w] = y]
    BY <1>1, <1>8, WorkersTyped DEF Worker
  <2> HIDE DEF y
  <2> QED BY <1>1, <1>8, <2>1, <2>3, <2>4, WorkerMoves
<1> HIDE DEF EndsWith
<1>9. CASE Refuse(w)
  <2>1. "rejected" \in Results
    BY DEF Results
  <2>2. /\ x.pc \in {"prepare", "charge", "credit"} /\ faults' \in 0..MaxFaults
        /\ UNCHANGED <<attempts, stripe, credited, quotes, clock, lock>>
        /\ EndsWith("rejected")
    BY <1>1, <1>9, FaultUsed DEF Refuse, At, EndsWith
  <2> QED BY <1>8, <2>1, <2>2
<1>10. CASE Fail(w)
  <2>1. faults' \in 0..MaxFaults
    BY <1>1, <1>10, FaultUsed DEF Fail
  <2>2. UNCHANGED <<attempts, stripe, credited, quotes, clock>>
    BY <1>10 DEF Fail
  <2>3. CASE Leave(w)
    BY <2>1, <2>2, <2>3, LeaveSound
  <2>4. CASE /\ x.pc \in {"prepare", "charge", "credit"}
             /\ worker' = [worker EXCEPT ![w].pc = "finish", ![w].result = "unsure"]
             /\ UNCHANGED lock
    <3>1. "unsure" \in Results
      BY DEF Results
    <3>2. UNCHANGED <<attempts, stripe, credited, quotes, clock, lock>> /\ EndsWith("unsure")
      BY <2>2, <2>4 DEF EndsWith
    <3> QED BY <1>8, <2>1, <2>4, <3>1, <3>2
  <2> QED BY <1>10, <2>3, <2>4 DEF Fail
<1>11. CASE LoseConnection(w)
  <2> DEFINE y == [x EXCEPT !.conn = FALSE]
  <2>1. y \in Worker
    BY <1>1 DEF Worker
  <2>2. y.pc = x.pc /\ y.id = x.id /\ y.since = x.since /\ y.row = x.row /\ y.intent = x.intent
    BY <1>1 DEF Worker
  <2>3. Local(y, attempts, charges, clock)
    BY <1>1, <2>2 DEF Local
  <2>4. worker' = [worker EXCEPT ![w] = y]
    BY <1>1, <1>11, WorkersTyped DEF Worker, LoseConnection
  <2>5. faults' \in 0..MaxFaults /\ lock' \subseteq Workers
    BY <1>1, <1>11, FaultUsed DEF LoseConnection
  <2> HIDE DEF y
  <2> QED BY <1>11, <2>1, <2>3, <2>4, <2>5, WorkerMoves DEF LoseConnection
<1>12. CASE Crash(w)
  BY <1>1, <1>12, FaultUsed, LeaveSound DEF Crash
<1> QED BY <1>4, <1>5, <1>6, <1>7, <1>9, <1>10, <1>11, <1>12

\* A step that moves one worker and writes the rows without touching their age.
LEMMA RowMoves ==
  ASSUME Sound, UNCHANGED <<stripe, credited, clock>>, quotes' \in Nat,
         faults' \in 0..MaxFaults, lock' \subseteq Workers,
         attempts' \in Seq(Attempt), Len(attempts') = Len(attempts),
         \A a \in 1..Len(attempts) : attempts'[a].created = attempts[a].created,
         NEW w \in Workers, NEW x \in Worker, worker' = [worker EXCEPT ![w] = x],
         Local(x, attempts, charges, clock)
  PROVE  Sound'
<1>1. TopupTypeOK /\ Locals /\ Booked /\ Len(attempts) \in Nat
  BY Lengths, Settings DEF Sound
<1>2. Kept /\ Len(attempts') \in Nat /\ clock' = clock
  BY <1>1 DEF Kept, stripe
<1>3. Local(x, attempts', charges', clock')
  BY <1>1, <1>2, LocalKept
<1>4. worker' \in [Workers -> Worker] /\ Locals'
  BY <1>1, <1>2, <1>3, OneMoves
<1>5. TopupTypeOK'
  BY <1>1, <1>4, Unfolded DEF TopupTypeOK, Attempt, Key, Row, Worker, stripe
<1>6. Booked'
  BY <1>1 DEF Booked, stripe
<1> QED BY <1>4, <1>5, <1>6 DEF Sound

LEMMA FinishSound == ASSUME Sound, NEW w \in Workers, Finish(w) PROVE Sound'
<1> DEFINE i == worker[w].id
           s == StatusFor(worker[w].result)
           e == [attempts[i] EXCEPT !.status = s]
<1>1. TopupTypeOK /\ Len(attempts) \in Nat /\ \A a \in 1..Len(attempts) : attempts[a] \in Attempt
  BY Lengths, Settings DEF Sound
<1>2. s \in {"pending", "succeeded", "failed"}
  BY DEF StatusFor
<1>3. /\ attempts' \in Seq(Attempt) /\ Len(attempts') = Len(attempts)
      /\ \A a \in 1..Len(attempts) : attempts'[a].created = attempts[a].created
  <2>1. CASE worker[w].conn
    <3>1. i \in 1..Len(attempts) => e \in Attempt /\ e.created = attempts[i].created
      BY <1>1, <1>2 DEF Attempt
    <3>2. attempts' = [attempts EXCEPT ![i] = e]
      BY <2>1 DEF Finish
    <3> HIDE DEF e, i
    <3>3. /\ attempts' \in Seq(Attempt) /\ Len(attempts') = Len(attempts)
          /\ \A a \in 1..Len(attempts) : attempts'[a] = IF a = i THEN e ELSE attempts[a]
      <4>1. TopupTypeOK /\ (i \in 1..Len(attempts) => e \in Attempt)
        BY <1>1, <3>1
      <4> QED BY <4>1, <3>2, AttemptsWritten
    <3> QED BY <3>1, <3>3
  <2>2. CASE ~worker[w].conn
    BY <1>1, <2>2, Unfolded DEF Finish
  <2> QED BY <2>1, <2>2
<1>4. Idle \in Worker /\ Local(Idle, attempts, charges, clock)
  BY IdleTyped DEF Local, Idle, Busy
<1>5. lock' \subseteq Workers /\ worker' = [worker EXCEPT ![w] = Idle]
      /\ quotes' \in Nat /\ faults' \in 0..MaxFaults
  BY <1>1, Unfolded DEF Finish, Leave
<1>6. UNCHANGED <<stripe, credited, clock>>
  BY DEF Finish
<1> QED BY <1>3, <1>4, <1>5, <1>6, RowMoves

LEMMA PrepareSound == ASSUME Sound, NEW w \in Workers, Prepare(w) PROVE Sound'
<1> DEFINE x == worker[w]
           i == x.id
<1>1. TopupTypeOK /\ x \in Worker /\ Local(x, attempts, charges, clock) /\ quotes \in Nat
      /\ faults \in 0..MaxFaults /\ lock \subseteq Workers
  BY Unfolded DEF Sound, Locals
<1>2. Len(attempts) \in Nat /\ \A a \in 1..Len(attempts) : attempts[a] \in Attempt
  BY <1>1, Lengths, Settings
<1>3. ASSUME NEW y \in Worker, y.pc = "charge", y.id = x.id, y.since = x.since
      PROVE  Local(y, attempts, charges, clock)
  BY <1>1, <1>3 DEF Local, Busy, Prepare, At
<1>4. UNCHANGED <<stripe, credited, clock>> /\ lock' \subseteq Workers /\ faults' \in 0..MaxFaults
  BY <1>1 DEF Prepare
<1>5. CASE x.request # 0
  <2> DEFINE y == [x EXCEPT !.pc = "charge"]
  <2>1. y \in Worker /\ y.pc = "charge" /\ y.id = x.id /\ y.since = x.since
    BY <1>1 DEF Worker
  <2>2. worker' = [worker EXCEPT ![w] = y] /\ UNCHANGED <<attempts, quotes>>
    BY <1>1, <1>5, WorkersTyped DEF Worker, Prepare, Goto
  <2> HIDE DEF y
  <2>3. Local(y, attempts, charges, clock)
    BY <1>3, <2>1
  <2> QED BY <1>1, <1>4, <2>1, <2>2, <2>3, WorkerMoves DEF stripe
<1>6. CASE ~(x.request # 0)
  <2> DEFINE y == [x EXCEPT !.pc = "charge", !.request = quotes + 1]
             n == IF attempts[i].saved = 0 THEN quotes + 1 ELSE attempts[i].saved
             e == [attempts[i] EXCEPT !.saved = n]
  <2>1. y \in Worker /\ y.pc = "charge" /\ y.id = x.id /\ y.since = x.since
    <3>1. quotes + 1 \in Nat
      BY <1>1
    <3> HIDE DEF x
    <3> QED BY <1>1, <3>1 DEF Worker
  <2>2. i \in 1..Len(attempts) => e \in Attempt /\ e.created = attempts[i].created
    <3>1. i \in 1..Len(attempts) => n \in Nat
      BY <1>1, <1>2 DEF Attempt
    <3> HIDE DEF n, i
    <3> QED BY <1>2, <3>1 DEF Attempt
  <2>3. attempts' = [attempts EXCEPT ![i] = e] /\ quotes' \in Nat
    BY <1>1, <1>6 DEF Prepare
  <2>4. worker' = [worker EXCEPT ![w].pc = "charge", ![w].request = quotes + 1]
    BY <1>6 DEF Prepare
  <2>5. worker' = [worker EXCEPT ![w] = y]
    BY <1>1, <2>4, WorkersTyped DEF Worker
  <2> HIDE DEF y, e, i, n
  <2>6. Local(y, attempts, charges, clock)
    BY <1>3, <2>1
  <2>7. /\ attempts' \in Seq(Attempt) /\ Len(attempts') = Len(attempts)
        /\ \A a \in 1..Len(attempts) : attempts'[a].created = attempts[a].created
    <3>1. /\ attempts' \in Seq(Attempt) /\ Len(attempts') = Len(attempts)
          /\ \A a \in 1..Len(attempts) : attempts'[a] = IF a = i THEN e ELSE attempts[a]
      <4>1. TopupTypeOK /\ (i \in 1..Len(attempts) => e \in Attempt)
        BY <1>1, <2>2
      <4> QED BY <4>1, <2>3, AttemptsWritten
    <3> QED BY <2>2, <3>1
  <2> QED BY <1>4, <2>1, <2>3, <2>5, <2>6, <2>7, RowMoves
<1> QED BY <1>5, <1>6

\* Stripe writes one key, and its charge with it.
LEMMA StripeWritten ==
  ASSUME Sound, UNCHANGED <<attempts, credited, clock>>, NEW a \in 1..Len(attempts),
         NEW k \in Key, k.outcome # "none", attempts[a].created <= k.used,
         NEW n \in Nat, n = IF k.outcome \in {"charged", "late"} THEN 1 ELSE 0,
         charges[a] = 0, keys' = [keys EXCEPT ![a] = k], charges' = [charges EXCEPT ![a] = n]
  PROVE  keys' \in [Ids -> Key] /\ charges' \in [Ids -> Nat] /\ Kept /\ Booked'
<1>1. TopupTypeOK /\ Booked /\ keys \in [Ids -> Key] /\ charges \in [Ids -> Nat] /\ a \in Ids
      /\ Len(attempts) \in Nat /\ credited \subseteq Ids \X (Nat \ {0})
  BY Lengths, Unfolded, Settings DEF Sound
<1>2. keys' \in [Ids -> Key] /\ charges' \in [Ids -> Nat]
  BY <1>1
<1>3. \A b \in Ids : /\ b = a => keys'[b] = k /\ charges'[b] = n
                     /\ b # a => keys'[b] = keys[b] /\ charges'[b] = charges[b]
  BY <1>1
<1>4. \A b \in Ids : charges[b] = 1 => charges'[b] = 1
  BY <1>3
<1>5. Kept
  BY <1>1, <1>4 DEF Kept
<1>6. \A b \in 1..Len(attempts)' : attempts'[b].created <= clock'
  BY <1>1 DEF Booked
<1>7. \A b \in Ids : keys'[b].outcome # "none" =>
        b \in 1..Len(attempts)' /\ attempts'[b].created <= keys'[b].used
  BY <1>1, <1>3 DEF Booked
<1>8. \A b \in Ids : charges'[b] = IF keys'[b].outcome \in {"charged", "late"} THEN 1 ELSE 0
  BY <1>1, <1>3 DEF Booked
<1>9. \A c \in credited' : c[2] = 1 /\ charges'[c[1]] = 1
  BY <1>1, <1>4 DEF Booked
<1> QED BY <1>2, <1>5, <1>6, <1>7, <1>8, <1>9 DEF Booked

LEMMA GoThroughSound == ASSUME Sound, NEW a \in Ids, GoThrough(a) PROVE Sound'
<1> DEFINE k == [keys[a] EXCEPT !.outcome = "late"]
<1>1. TopupTypeOK /\ Locals /\ Booked /\ keys \in [Ids -> Key] /\ charges \in [Ids -> Nat]
      /\ Len(attempts) \in Nat
  BY Lengths, Unfolded, Settings DEF Sound
<1>2. k \in Key /\ k.outcome = "late" /\ k.used = keys[a].used
  BY <1>1 DEF Key, Outcomes
<1>3. a \in 1..Len(attempts) /\ attempts[a].created <= k.used /\ charges[a] = 0
  BY <1>1, <1>2 DEF GoThrough, Booked
<1>4. keys' = [keys EXCEPT ![a] = k] /\ charges' = [charges EXCEPT ![a] = 1]
  BY <1>1, <1>3 DEF GoThrough
<1>5. UNCHANGED <<attempts, credited, lock, worker, quotes, clock, faults>>
  BY DEF GoThrough
<1> HIDE DEF k
<1>6. keys' \in [Ids -> Key] /\ charges' \in [Ids -> Nat] /\ Kept /\ Booked'
  BY <1>2, <1>3, <1>4, <1>5, StripeWritten
<1>7. \A w \in Workers : worker[w] \in Worker /\ Local(worker[w], attempts, charges, clock)
  BY <1>1, Unfolded DEF Locals
<1>8. \A w \in Workers : Local(worker[w], attempts', charges', clock')
  BY <1>1, <1>5, <1>6, <1>7, LocalKept
<1>9. Locals'
  BY <1>5, <1>8 DEF Locals
<1>10. TopupTypeOK'
  BY <1>1, <1>5, <1>6, Unfolded DEF TopupTypeOK, Attempt, Key, Row, Worker
<1> QED BY <1>6, <1>9, <1>10 DEF Sound

LEMMA CreditSound == ASSUME Sound, NEW w \in Workers, Credit(w) PROVE Sound'
<1> DEFINE x == worker[w]
           y == [x EXCEPT !.pc = "finish"]
<1>1. TopupTypeOK /\ Locals /\ Booked /\ x \in Worker /\ Local(x, attempts, charges, clock)
      /\ Len(attempts) \in Nat
  BY Lengths, Unfolded, Settings DEF Sound, Locals
<1>2. x.intent = 1 /\ charges[x.id] = 1 /\ x.id \in 1..Len(attempts) /\ x.id \in Ids
  BY <1>1, Lengths DEF Local, Credit, At, Busy
<1>3. y \in Worker /\ y.pc = "finish" /\ y.id = x.id /\ y.since = x.since
  BY <1>1 DEF Worker
<1>4. UNCHANGED <<attempts, stripe, lock, quotes, clock, faults>>
      /\ credited' = credited \union {<<x.id, x.intent>>}
  BY DEF Credit
<1>5. worker' = [worker EXCEPT ![w] = y]
  BY <1>1, WorkersTyped DEF Worker, Credit, Goto
<1> HIDE DEF y
<1>6. Local(y, attempts, charges, clock)
  BY <1>1, <1>3 DEF Local, Busy, Credit, At
<1>7. Kept /\ Local(y, attempts', charges', clock') /\ Len(attempts') \in Nat /\ clock' = clock
  BY <1>1, <1>4, <1>6 DEF Kept, stripe
<1>8. worker' \in [Workers -> Worker] /\ Locals'
  BY <1>1, <1>3, <1>5, <1>7, OneMoves
<1>9. credited' \subseteq Ids \X (Nat \ {0})
  BY <1>1, <1>2, <1>4, Unfolded
<1>10. TopupTypeOK'
  BY <1>1, <1>4, <1>8, <1>9, Unfolded DEF TopupTypeOK, Attempt, Key, Row, Worker, stripe
<1>11. Booked'
  BY <1>1, <1>2, <1>4 DEF Booked, stripe
<1> QED BY <1>8, <1>10, <1>11 DEF Sound

LEMMA BeginSound == ASSUME Sound, NEW w \in Workers, Begin(w) PROVE Sound'
<1> DEFINE x == worker[w]
           n == Len(attempts) + 1
           e == [status |-> "pending", created |-> clock, saved |-> 0]
           y == [x EXCEPT !.pc = "prepare", !.id = n]
<1>1. TopupTypeOK /\ Locals /\ Booked /\ x \in Worker /\ Local(x, attempts, charges, clock)
      /\ Len(attempts) \in Nat /\ clock \in Nat /\ attempts \in Seq(Attempt)
  BY Lengths, Unfolded, Settings DEF Sound, Locals
<1>2. n \in 1..MaxAttempts /\ n \in 0..MaxAttempts /\ n \in Nat
  BY <1>1, Settings DEF Begin
<1>3. e \in Attempt /\ e.created = clock
  BY <1>1 DEF Attempt
<1>4. attempts' = Append(attempts, e)
  BY DEF Begin
<1> HIDE DEF e
<1>5. /\ attempts' \in Seq(Attempt) /\ Len(attempts') = n /\ attempts'[n] = e
      /\ \A a \in 1..Len(attempts) : attempts'[a] = attempts[a]
  BY <1>1, <1>3, <1>4, AppendProperties
<1>6. y \in Worker /\ y.pc = "prepare" /\ y.id = n /\ y.since = x.since
  <2> HIDE DEF n
  <2> QED BY <1>1, <1>2 DEF Worker
<1>7. x.since \in Nat /\ x.since <= clock /\ clock <= x.since + CallBound
  BY <1>1 DEF Worker, Local, Begin, At
<1>8. UNCHANGED <<stripe, credited, lock, quotes, clock, faults>>
      /\ worker' = [worker EXCEPT ![w].pc = "prepare", ![w].id = n]
  BY DEF Begin
<1>9. worker' = [worker EXCEPT ![w] = y]
  BY <1>1, <1>8, WorkersTyped DEF Worker
<1> HIDE DEF y
<1>10. x.since <= attempts'[n].created + GiveUp
  BY <1>1, <1>3, <1>5, <1>7, Settings
<1>11. Local(y, attempts', charges', clock')
  BY <1>2, <1>5, <1>6, <1>7, <1>8, <1>10 DEF Local
<1>12. Kept /\ Len(attempts') \in Nat /\ clock' = clock
  BY <1>1, <1>2, <1>5, <1>8 DEF Kept, stripe
<1>13. worker' \in [Workers -> Worker] /\ Locals'
  BY <1>1, <1>6, <1>9, <1>11, <1>12, OneMoves
<1>14. Len(attempts') <= MaxAttempts
  BY <1>2, <1>5, Settings
<1>15. TopupTypeOK'
  BY <1>1, <1>5, <1>8, <1>13, <1>14, Unfolded DEF TopupTypeOK, Attempt, Key, Row, Worker, stripe
<1>16. \A a \in 1..Len(attempts') : a = n \/ a \in 1..Len(attempts)
  BY <1>1, <1>5
<1>17. \A a \in 1..Len(attempts') : attempts'[a].created <= clock'
  BY <1>1, <1>3, <1>5, <1>8, <1>16 DEF Booked
<1>18. \A a \in Ids : keys'[a].outcome # "none" =>
         a \in 1..Len(attempts') /\ attempts'[a].created <= keys'[a].used
  BY <1>1, <1>5, <1>8 DEF Booked, stripe
<1>19. Booked'
  BY <1>1, <1>8, <1>17, <1>18 DEF Booked, stripe
<1> QED BY <1>13, <1>15, <1>19 DEF Sound

\* A call reaches Stripe at most once while nothing is known under its key.
LEMMA ChargeSound == ASSUME Sound, NEW w \in Workers, Charge(w) PROVE Sound'
<1> DEFINE x == worker[w]
           a == x.id
<1>1. TopupTypeOK /\ Locals /\ Booked /\ x \in Worker /\ Local(x, attempts, charges, clock)
      /\ Len(attempts) \in Nat /\ clock \in Nat /\ faults \in 0..MaxFaults
      /\ keys \in [Ids -> Key] /\ charges \in [Ids -> Nat]
  BY Lengths, Unfolded, Settings DEF Sound, Locals
<1>2. x.pc = "charge" /\ a \in 1..Len(attempts) /\ a \in Ids /\ x.request \in Nat
      /\ UNCHANGED <<attempts, credited, lock, quotes, clock>>
  BY <1>1, Lengths DEF Local, Charge, At, Busy, Worker
<1>3. /\ keys' \in [Ids -> Key] /\ charges' \in [Ids -> Nat] /\ Kept /\ Booked'
      /\ keys'[a].outcome = "charged" => charges'[a] = 1
  <2>1. CASE ~Remembered(a)
    <3>1. keys[a].outcome = "none" /\ charges[a] = 0
      BY <1>1, <1>2, <2>1, StillRemembered DEF Charge, Booked
    <3>2. PICK outcome \in {"charged", "processing", "declined"} :
            /\ keys' = [keys EXCEPT ![a] =
                  [outcome |-> outcome, params |-> x.request, used |-> clock]]
            /\ charges' = IF outcome = "charged"
                          THEN [charges EXCEPT ![a] = @ + 1] ELSE charges
      BY <2>1 DEF Charge
    <3> DEFINE k == [outcome |-> outcome, params |-> x.request, used |-> clock]
               n == IF outcome = "charged" THEN 1 ELSE 0
    <3>3. k \in Key /\ k.outcome = outcome /\ k.used = clock
      BY <1>1, <1>2 DEF Key, Outcomes
    <3>4. attempts[a].created <= clock
      BY <1>1, <1>2 DEF Booked
    <3>5. keys' = [keys EXCEPT ![a] = k] /\ charges' = [charges EXCEPT ![a] = n]
      <4>1. charges \in [Ids -> Nat] /\ a \in Ids /\ charges[a] = 0
        BY <1>1, <1>2, <3>1
      <4>2. charges = [charges EXCEPT ![a] = 0]
        BY <4>1
      <4>3. charges[a] + 1 = 1
        BY <4>1
      <4>4. CASE outcome = "charged"
        BY <3>2, <4>3, <4>4
      <4>5. CASE outcome # "charged"
        BY <3>2, <4>2, <4>5
      <4> QED BY <4>4, <4>5
    <3>6. n \in Nat /\ n = IF k.outcome \in {"charged", "late"} THEN 1 ELSE 0
      BY <3>2, <3>3
    <3>7. keys'[a] = k /\ charges'[a] = n
      BY <1>1, <1>2, <3>5
    <3> HIDE DEF k
    <3>8. k.outcome # "none" /\ attempts[a].created <= k.used
      BY <3>2, <3>3, <3>4
    <3> HIDE DEF n, a
    <3>9. keys' \in [Ids -> Key] /\ charges' \in [Ids -> Nat] /\ Kept /\ Booked'
      BY <1>2, <3>1, <3>3, <3>5, <3>6, <3>8, StripeWritten
    <3> QED BY <3>3, <3>6, <3>7, <3>9
  <2>2. CASE Remembered(a)
    <3>1. UNCHANGED <<attempts, credited, clock, stripe>>
      BY <1>2, <2>2 DEF Charge
    <3>2. Kept /\ Booked'
      BY <1>1, <3>1 DEF Kept, Booked, stripe
    <3> QED BY <1>1, <1>2, <3>1, <3>2 DEF Booked, stripe
  <2> QED BY <2>1, <2>2
<1>4. Len(attempts') \in Nat /\ clock' = clock
  BY <1>1, <1>2
<1>5. ASSUME NEW y \in Worker, y.id = x.id, y.since = x.since,
             \/ y.pc = "finish"
             \/ y.pc = "credit" /\ y.intent = 1 /\ charges'[a] = 1,
             worker' = [worker EXCEPT ![w] = y]
      PROVE  worker' \in [Workers -> Worker] /\ Locals'
  <2>1. x.since <= clock' /\ clock' <= x.since + CallBound /\ y.id \in 1..Len(attempts')
    BY <1>1, <1>2, <1>5 DEF Local
  <2>2. Local(y, attempts', charges', clock')
    BY <1>5, <2>1 DEF Local
  <2> QED BY <1>1, <1>3, <1>4, <1>5, <2>2, OneMoves
<1>6. worker' \in [Workers -> Worker] /\ Locals' /\ faults' \in 0..MaxFaults
  <2> DEFINE mine == keys'[a].params = x.request
             result == IF mine THEN ResultOf(keys'[a].outcome) ELSE "unsure"
             pc == IF result = "credit" THEN "credit" ELSE "finish"
  <2>1. result \in Results /\ (result = "credit" => charges'[a] = 1)
    BY <1>3 DEF ResultOf, Results
  <2>2. pc \in PCs /\ (pc = "finish" \/ (pc = "credit" /\ charges'[a] = 1))
    BY <2>1 DEF PCs
  <2>3. charges'[a] \in Nat
    BY <1>2, <1>3
  <2>4. CASE worker' = [worker EXCEPT ![w].pc = pc, ![w].result = result, ![w].intent = charges'[a]]
             /\ UNCHANGED faults
    <3> DEFINE y == [x EXCEPT !.pc = pc, !.result = result, !.intent = charges'[a]]
    <3> HIDE DEF pc, result
    <3>1. y \in Worker
      BY <1>1, <2>1, <2>2, <2>3 DEF Worker, PCs, Results
    <3>2. y.id = x.id /\ y.since = x.since /\ y.pc = pc /\ y.intent = charges'[a]
      BY <1>1 DEF Worker
    <3>3. worker' = [worker EXCEPT ![w] = y]
      BY <1>1, <2>4, WorkersTyped DEF Worker
    <3> HIDE DEF y
    <3> QED BY <1>1, <1>5, <2>2, <2>4, <3>1, <3>2, <3>3
  <2>5. CASE UseFault /\ worker' = [worker EXCEPT ![w].pc = "finish", ![w].result = "unsure"]
    <3> DEFINE y == [x EXCEPT !.pc = "finish", !.result = "unsure"]
    <3>1. y \in Worker
      BY <1>1 DEF Worker
    <3>2. y.id = x.id /\ y.since = x.since /\ y.pc = "finish"
      BY <1>1 DEF Worker
    <3>3. worker' = [worker EXCEPT ![w] = y]
      BY <1>1, <2>5, WorkersTyped DEF Worker
    <3> HIDE DEF y
    <3> QED BY <1>1, <1>5, <2>5, <3>1, <3>2, <3>3, FaultUsed
  <2>6. \/ worker' = [worker EXCEPT ![w].pc = pc, ![w].result = result, ![w].intent = charges'[a]]
           /\ UNCHANGED faults
        \/ UseFault /\ worker' = [worker EXCEPT ![w].pc = "finish", ![w].result = "unsure"]
    BY DEF Charge
  <2> QED BY <2>4, <2>5, <2>6
<1>7. TopupTypeOK'
  BY <1>1, <1>2, <1>3, <1>6, Unfolded DEF TopupTypeOK, Attempt, Key, Row, Worker
<1> QED BY <1>3, <1>6, <1>7 DEF Sound

LEMMA StutterSound == ASSUME Sound, UNCHANGED topupVars PROVE Sound'
<1>1. TopupTypeOK /\ Locals /\ Booked
  BY DEF Sound
<1>2. TopupTypeOK'
  BY <1>1 DEF topupVars, TopupTypeOK, stripe
<1>3. Locals' /\ Booked'
  BY <1>1 DEF topupVars, Locals, Local, Booked, stripe
<1> QED BY <1>2, <1>3 DEF Sound

LEMMA NextSound == ASSUME Sound, [TopupNext]_topupVars PROVE Sound'
<1>1. CASE ClockTick
  BY <1>1, TickSound
<1>2. ASSUME NEW a \in Ids, GoThrough(a) PROVE Sound'
  BY <1>2, GoThroughSound
<1>3. ASSUME NEW w \in Workers,
             \/ Start(w) \/ ReadLatest(w) \/ Refrain(w) \/ Retry(w)
             \/ Refuse(w) \/ Fail(w) \/ LoseConnection(w) \/ Crash(w)
      PROVE  Sound'
  BY <1>3, QuietSound
<1>4. ASSUME NEW w \in Workers, Begin(w) PROVE Sound'
  BY <1>4, BeginSound
<1>5. ASSUME NEW w \in Workers, Prepare(w) PROVE Sound'
  BY <1>5, PrepareSound
<1>6. ASSUME NEW w \in Workers, Charge(w) PROVE Sound'
  BY <1>6, ChargeSound
<1>7. ASSUME NEW w \in Workers, Credit(w) PROVE Sound'
  BY <1>7, CreditSound
<1>8. ASSUME NEW w \in Workers, Finish(w) PROVE Sound'
  BY <1>8, FinishSound
<1>9. CASE UNCHANGED topupVars
  BY <1>9, StutterSound
<1> QED BY <1>1, <1>2, <1>3, <1>4, <1>5, <1>6, <1>7, <1>8, <1>9 DEF TopupNext

LEMMA SoundSafe == ASSUME Sound PROVE TopupTypeOK /\ ChargedOnce /\ CreditIsCharged
<1>1. TopupTypeOK /\ Booked /\ credited \subseteq Ids \X (Nat \ {0})
  BY Unfolded DEF Sound
<1>2. ChargedOnce
  BY <1>1 DEF Booked, ChargedOnce
<1>3. CreditIsCharged
  BY <1>1 DEF Booked, CreditIsCharged
<1> QED BY <1>1, <1>2, <1>3

LEMMA SoundAlways == TopupSpec => []Sound
<1>1. TopupInit => Sound
  BY InitSound
<1>2. Sound /\ [TopupNext]_topupVars => Sound'
  BY NextSound
<1> QED BY <1>1, <1>2, PTL DEF TopupSpec

-----------------------------------------------------------------------------
(* What became of a charge                                                 *)

\* Only the holder of the lock still has its connection.
Held == \A w \in Workers : worker[w].conn => lock = {w}

\* What a worker "x" knows of its attempt: it asks Stripe for what the row keeps,
\* as long as it has its connection the row is as it left it, and its answer is
\* what became of the payment.
Knows(x, as, ks, cr) ==
  /\ x.pc = "idle" => ~x.conn
  /\ x.pc \in {"idle", "read", "decide"} => x.request = 0
  /\ x.pc = "decide" /\ x.row.status # "none" =>
       /\ x.row.saved # 0 => x.row.saved = as[x.id].saved
       /\ x.conn => x.row = as[x.id]
  /\ x.pc = "prepare" => IF x.request = 0 THEN x.conn => as[x.id].saved = 0
                                          ELSE x.request = as[x.id].saved
  /\ x.pc = "charge" => x.request # 0 /\ x.request = as[x.id].saved
  /\ x.pc \in Busy /\ x.conn => as[x.id].status = "pending"
  /\ x.pc = "credit" => x.result = "credit" /\ ks[x.id].outcome = "charged"
  /\ x.pc = "finish" /\ x.result = "credit" =>
       ks[x.id].outcome = "charged" /\ <<x.id, 1>> \in cr

Knowing == \A w \in Workers : Knows(worker[w], attempts, keys, credited)

\* An attempt that succeeded was charged and credited, and Stripe has seen the
\* payment request its row keeps and no other.
Settled(a) ==
  /\ attempts[a].status = "succeeded" => keys[a].outcome = "charged" /\ <<a, 1>> \in credited
  /\ keys[a].outcome # "none" => attempts[a].saved # 0 /\ keys[a].params = attempts[a].saved

\* On its way to Stripe with attempt "a".
Bound(x, a) ==
  x.id = a /\ \/ x.pc \in {"prepare", "charge"}
              \/ x.pc = "decide" /\ x.row.status = "pending"

\* A rejection is the last word on the attempt: the card was declined, or
\* nothing is known under the key and nobody else is about to use it.
Rejected(w) ==
  worker[w].pc = "finish" /\ worker[w].result = "rejected" /\ worker[w].conn =>
    \/ keys[worker[w].id].outcome = "declined"
    \/ keys[worker[w].id].outcome = "none" /\ \A v \in Workers \ {w} : At(v, "idle")

WrittenOff(a) ==
  attempts[a].status = "failed" =>
    \/ keys[a].outcome = "declined"
    \/ keys[a].outcome = "none" /\ \A w \in Workers : ~Bound(worker[w], a)

Closing ==
  ~Refusals => /\ \A w \in Workers : Rejected(w)
               /\ \A a \in 1..Len(attempts) : WrittenOff(a)

Accounted ==
  Sound /\ Held /\ Knowing /\ (\A a \in 1..Len(attempts) : Settled(a)) /\ Closing

LEMMA AccountedSafe == ASSUME Accounted, ~Refusals PROVE ChargeIsAccounted
<1> SUFFICES ASSUME NEW a \in DOMAIN attempts
             PROVE /\ attempts[a].status # "pending" => \A n \in 1..charges[a] : <<a, n>> \in credited
                   /\ keys[a].outcome # "none" => keys[a].params = attempts[a].saved
  BY DEF ChargeIsAccounted
<1>1. TopupTypeOK /\ Booked /\ a \in 1..Len(attempts) /\ attempts \in Seq(Attempt)
  BY Unfolded DEF Accounted, Sound
<1>2. a \in Ids /\ attempts[a] \in Attempt /\ Settled(a) /\ WrittenOff(a)
  BY <1>1, Lengths DEF Accounted, Closing
<1>3. charges[a] = IF keys[a].outcome \in {"charged", "late"} THEN 1 ELSE 0
  BY <1>1, <1>2 DEF Booked
<1>4. CASE attempts[a].status = "succeeded"
  BY <1>2, <1>3, <1>4 DEF Settled
<1>5. CASE attempts[a].status = "failed"
  BY <1>2, <1>3, <1>5 DEF Settled, WrittenOff
<1>6. CASE attempts[a].status = "pending"
  BY <1>2, <1>6 DEF Settled
<1> QED BY <1>2, <1>4, <1>5, <1>6 DEF Attempt

\* A payment request stays what it is, and only the holder of the connection
\* "conn" writes the row.
RowsKept(conn) ==
  /\ Len(attempts) <= Len(attempts')
  /\ \A a \in 1..Len(attempts) :
       /\ attempts[a].saved # 0 => attempts'[a].saved = attempts[a].saved
       /\ attempts'[a] = attempts[a] \/ conn

\* Only a worker that is at "a" and finds nothing under the key writes the key.
KeysKept(x) ==
  \A a \in Ids : keys'[a] = keys[a] \/ (keys[a].outcome = "none" /\ x.pc = "charge" /\ x.id = a)

\* What another worker than the one that writes knows stays true.
LEMMA KnowsKept ==
  ASSUME TopupTypeOK, NEW x \in Worker, Local(x, attempts, charges, clock),
         Knows(x, attempts, keys, credited), NEW conn, RowsKept(conn), x.conn => ~conn,
         \A a \in Ids : keys[a].outcome = "charged" => keys'[a].outcome = "charged",
         credited \subseteq credited'
  PROVE  Knows(x, attempts', keys', credited')
<1> DEFINE i == x.id
<1>1. /\ x.pc = "decide" /\ x.row.status # "none" => i \in 1..Len(attempts)
      /\ x.pc \in Busy => i \in 1..Len(attempts)
  BY DEF Local
<1>2. i \in 1..Len(attempts) =>
        /\ i \in Ids
        /\ attempts[i].saved # 0 => attempts'[i].saved = attempts[i].saved
        /\ x.conn => attempts'[i] = attempts[i]
  BY Lengths DEF RowsKept
<1>3. i \in 1..Len(attempts) /\ keys[i].outcome = "charged" => keys'[i].outcome = "charged"
  BY <1>2
<1> HIDE DEF i
<1>4. \A z : z \in credited => z \in credited'
  OBVIOUS
<1> QED BY <1>1, <1>2, <1>3, <1>4 DEF Knows, Busy, i

\* The lock is taken when it is free, and given up with the connection.
LockKept(w, x) ==
  /\ lock' = lock \/ lock' = lock \ {w} \/ (lock = {} /\ lock' = {w})
  /\ x.conn => (worker[w].conn /\ lock' = lock) \/ (lock = {} /\ lock' = {w})
  /\ At(w, "idle") => lock = {}

LEMMA HeldKept ==
  ASSUME Held, NEW w \in Workers, NEW x \in Worker, worker \in [Workers -> Worker],
         worker' = [worker EXCEPT ![w] = x], LockKept(w, x)
  PROVE  Held'
<1> SUFFICES ASSUME NEW v \in Workers, worker'[v].conn PROVE lock' = {v}
  BY DEF Held
<1>1. CASE v = w
  <2>1. worker'[v] = x
    BY <1>1
  <2>2. worker[w].conn => lock = {w}
    BY DEF Held
  <2> QED BY <1>1, <2>1, <2>2 DEF LockKept
<1>2. CASE v # w
  <2>1. worker'[v] = worker[v]
    BY <1>2
  <2>2. lock = {v}
    BY <2>1 DEF Held
  <2> QED BY <1>2, <2>2 DEF LockKept
<1> QED BY <1>1, <1>2

\* A rejection that is known stays one: nobody else is at work then, and the
\* lock keeps everybody from starting.
LEMMA RejectedKept ==
  ASSUME TopupTypeOK, Held, NEW w \in Workers, NEW x \in Worker, worker \in [Workers -> Worker],
         worker' = [worker EXCEPT ![w] = x], At(w, "idle") => lock = {}, KeysKept(worker[w]),
         NEW v \in Workers, v # w, Rejected(v), Local(worker[v], attempts, charges, clock)
  PROVE  Rejected(v)'
<1> SUFFICES ASSUME worker'[v].pc = "finish", worker'[v].result = "rejected", worker'[v].conn
             PROVE  \/ keys'[worker'[v].id].outcome = "declined"
                    \/ /\ keys'[worker'[v].id].outcome = "none"
                       /\ \A u \in Workers \ {v} : At(u, "idle")'
  BY DEF Rejected
<1>1. worker'[v] = worker[v]
  OBVIOUS
<1>2. lock = {v}
  BY <1>1 DEF Held
<1>3. ~At(w, "idle")
  BY <1>2
<1>4. keys[worker[v].id].outcome = "declined"
  BY <1>1, <1>3 DEF Rejected
<1>5. worker[v].id \in Ids
  BY <1>1, Lengths DEF Local, Busy
<1>6. keys'[worker[v].id] = keys[worker[v].id]
  BY <1>4, <1>5 DEF KeysKept
<1> QED BY <1>1, <1>4, <1>6

\* Nobody turns to an attempt that was written off.
LEMMA WrittenOffKept ==
  ASSUME TopupTypeOK, NEW w \in Workers, NEW x \in Worker, worker \in [Workers -> Worker],
         worker' = [worker EXCEPT ![w] = x], KeysKept(worker[w]),
         NEW a \in 1..Len(attempts), attempts[a].status = "failed", WrittenOff(a),
         Bound(x, a) => Bound(worker[w], a)
  PROVE  WrittenOff(a)'
<1>1. a \in Ids
  BY Lengths
<1>2. CASE keys[a].outcome = "declined"
  <2>1. keys'[a] = keys[a]
    BY <1>1, <1>2 DEF KeysKept
  <2> QED BY <1>2, <2>1 DEF WrittenOff
<1>3. CASE keys[a].outcome = "none" /\ \A v \in Workers : ~Bound(worker[v], a)
  <2>1. keys'[a] = keys[a]
    BY <1>1, <1>3 DEF KeysKept, Bound
  <2>2. \A v \in Workers : worker'[v] = IF v = w THEN x ELSE worker[v]
    OBVIOUS
  <2>3. \A v \in Workers : ~Bound(worker'[v], a)
    BY <1>3, <2>2
  <2> QED BY <1>3, <2>1, <2>3 DEF WrittenOff
<1> QED BY <1>2, <1>3 DEF WrittenOff

LEMMA SettledKept ==
  ASSUME NEW a, Settled(a), attempts'[a] = attempts[a], keys'[a] = keys[a], credited \subseteq credited'
  PROVE  Settled(a)'
BY DEF Settled

\* One worker moves, and whatever it writes it settles.
LEMMA OneAccounted ==
  ASSUME Accounted, Sound', NEW w \in Workers, NEW x \in Worker,
         worker' = [worker EXCEPT ![w] = x], LockKept(w, x), KeysKept(worker[w]),
         RowsKept(worker[w].conn), credited \subseteq credited',
         Knows(x, attempts', keys', credited'),
         \A a \in 1..Len(attempts') : Settled(a)',
         ~Refusals => Rejected(w)',
         ~Refusals => \A a \in 1..Len(attempts') : attempts'[a].status = "failed" =>
            \/ WrittenOff(a)'
            \/ a \in 1..Len(attempts) /\ attempts[a].status = "failed"
               /\ (Bound(x, a) => Bound(worker[w], a))
  PROVE  Accounted'
<1>1. TopupTypeOK /\ Held /\ worker \in [Workers -> Worker]
  BY WorkersTyped DEF Accounted, Sound
<1>2. \A v \in Workers : /\ worker[v] \in Worker /\ Local(worker[v], attempts, charges, clock)
                         /\ Knows(worker[v], attempts, keys, credited)
  BY <1>1 DEF Accounted, Sound, Locals, Knowing
<1>3. Held'
  BY <1>1, HeldKept
<1>4. Knowing'
  <2> SUFFICES ASSUME NEW v \in Workers PROVE Knows(worker'[v], attempts', keys', credited')
    BY DEF Knowing
  <2>1. CASE v = w
    BY <1>1, <2>1
  <2>2. CASE v # w
    <3>1. worker'[v] = worker[v]
      BY <2>2
    <3>2. worker[v].conn => ~worker[w].conn
      BY <1>1, <2>2 DEF Held
    <3>3. \A a \in Ids : keys[a].outcome = "charged" => keys'[a].outcome = "charged"
      BY DEF KeysKept
    <3>4. Knows(worker[v], attempts', keys', credited')
      BY <1>1, <1>2, <3>2, <3>3, KnowsKept
    <3> QED BY <3>1, <3>4
  <2> QED BY <2>1, <2>2
<1>5. Closing'
  <2> SUFFICES ASSUME ~Refusals
               PROVE  /\ \A v \in Workers : Rejected(v)'
                      /\ \A a \in 1..Len(attempts') : WrittenOff(a)'
    BY DEF Closing
  <2>1. (\A v \in Workers : Rejected(v)) /\ (\A a \in 1..Len(attempts) : WrittenOff(a))
    BY DEF Accounted, Closing
  <2>2. ASSUME NEW v \in Workers PROVE Rejected(v)'
    <3>1. CASE v # w
      <4>1. At(w, "idle") => lock = {}
        BY DEF LockKept
      <4> QED BY <1>1, <1>2, <2>1, <3>1, <4>1, RejectedKept
    <3> QED BY <3>1
  <2>3. ASSUME NEW a \in 1..Len(attempts') PROVE WrittenOff(a)'
    <3>1. CASE attempts'[a].status # "failed"
      BY <3>1 DEF WrittenOff
    <3>2. CASE a \in 1..Len(attempts) /\ attempts[a].status = "failed"
               /\ (Bound(x, a) => Bound(worker[w], a))
      BY <1>1, <2>1, <3>2, WrittenOffKept
    <3> QED BY <3>1, <3>2
  <2> QED BY <2>2, <2>3
<1> QED BY <1>3, <1>4, <1>5 DEF Accounted

\* The same for a step that leaves the rows, Stripe and the ledger alone.
LEMMA QuietAccounted ==
  ASSUME Accounted, Sound', UNCHANGED <<attempts, stripe, credited>>, NEW w \in Workers,
         NEW x \in Worker, worker' = [worker EXCEPT ![w] = x], LockKept(w, x),
         Knows(x, attempts, keys, credited), ~Refusals => Rejected(w)',
         \A a \in 1..Len(attempts) :
            attempts[a].status = "failed" /\ Bound(x, a) => Bound(worker[w], a)
  PROVE  Accounted'
<1>1. /\ KeysKept(worker[w]) /\ RowsKept(worker[w].conn) /\ credited \subseteq credited'
      /\ Knows(x, attempts', keys', credited')
  <2>1. Len(attempts) \in Nat
    BY Lengths, Settings DEF Accounted, Sound
  <2> QED BY <2>1 DEF KeysKept, RowsKept, stripe
<1>2. \A a \in 1..Len(attempts') : Settled(a)'
  BY SettledKept DEF Accounted, stripe
<1>3. \A a \in 1..Len(attempts') : attempts'[a].status = "failed" =>
         a \in 1..Len(attempts) /\ attempts[a].status = "failed"
         /\ (Bound(x, a) => Bound(worker[w], a))
  OBVIOUS
<1> QED BY <1>1, <1>2, <1>3, OneAccounted

\* A worker that stops, wherever it is.
LEMMA LeaveAccounted ==
  ASSUME Accounted, Sound', UNCHANGED <<attempts, stripe, credited>>, NEW w \in Workers,
         ~At(w, "idle"), Leave(w)
  PROVE  Accounted'
<1>1. Idle \in Worker /\ Idle.pc = "idle" /\ Idle.conn = FALSE /\ Idle.request = 0
  BY IdleTyped DEF Idle
<1>2. worker' = [worker EXCEPT ![w] = Idle] /\ lock' = lock \ {w}
  BY DEF Leave
<1>3. LockKept(w, Idle)
  BY <1>1, <1>2 DEF LockKept
<1>4. Knows(Idle, attempts, keys, credited)
  BY <1>1 DEF Knows, Busy
<1>5. worker'[w] = Idle
  BY <1>2, WorkersTyped DEF Accounted, Sound
<1>6. Rejected(w)'
  BY <1>1, <1>5 DEF Rejected
<1>7. \A a \in 1..Len(attempts) : ~Bound(Idle, a)
  BY <1>1 DEF Bound
<1> QED BY <1>1, <1>2, <1>3, <1>4, <1>6, <1>7, QuietAccounted

LEMMA Here ==
  ASSUME Accounted, NEW w \in Workers
  PROVE  /\ worker[w] \in Worker /\ Local(worker[w], attempts, charges, clock)
         /\ Knows(worker[w], attempts, keys, credited)
         /\ worker[w].conn => lock = {w}
BY WorkersTyped DEF Accounted, Sound, Locals, Knowing, Held

\* The steps of a worker that touch nothing that is shared but the lock.
LEMMA QuietStepsAccounted ==
  ASSUME Accounted, Sound', NEW w \in Workers,
         \/ Start(w) \/ ReadLatest(w) \/ Refrain(w) \/ Retry(w)
         \/ Refuse(w) \/ Fail(w) \/ LoseConnection(w) \/ Crash(w)
  PROVE  Accounted'
<1> DEFINE x == worker[w]
<1>1. TopupTypeOK /\ x \in Worker /\ Local(x, attempts, charges, clock)
      /\ Knows(x, attempts, keys, credited) /\ (x.conn => lock = {w})
      /\ worker \in [Workers -> Worker]
  BY Here, WorkersTyped DEF Accounted, Sound
<1>2. Len(attempts) \in 0..MaxAttempts /\ \A a \in 1..Len(attempts) : attempts[a] \in Attempt
  BY <1>1, Lengths
<1>3. CASE Start(w)
  <2> DEFINE y == [Idle EXCEPT !.pc = "read", !.since = clock, !.conn = TRUE]
  <2>1. y \in Worker /\ y.pc = "read" /\ y.request = 0
    BY <1>1, IdleTyped, Unfolded DEF Worker, Idle
  <2>2. UNCHANGED <<attempts, stripe, credited>> /\ lock = {} /\ lock' = {w}
        /\ worker' = [worker EXCEPT ![w] = y]
    BY <1>3 DEF Start
  <2> HIDE DEF y
  <2>3. LockKept(w, y) /\ Knows(y, attempts, keys, credited)
    BY <2>1, <2>2 DEF LockKept, Knows, Busy
  <2>4. \A a \in 1..Len(attempts) : ~Bound(y, a)
    BY <2>1 DEF Bound
  <2>5. Rejected(w)'
    BY <1>1, <2>1, <2>2 DEF Rejected
  <2> QED BY <2>1, <2>2, <2>3, <2>4, <2>5, QuietAccounted
<1>4. CASE ReadLatest(w)
  <2> DEFINE r == IF attempts = <<>> THEN NoRow ELSE attempts[Len(attempts)]
             y == [x EXCEPT !.pc = "decide", !.id = Len(attempts), !.row = r]
  <2>1. attempts # <<>> => Len(attempts) \in 1..Len(attempts)
    BY <1>1, <1>2, Unfolded
  <2>2. r \in Row
    BY <1>2, <2>1, IdleTyped DEF Attempt, Row
  <2>3. r.status # "none" => r = attempts[Len(attempts)]
    BY DEF NoRow
  <2>4. r.status = "pending" => Len(attempts) \in 1..Len(attempts)
    BY <2>1 DEF NoRow
  <2> HIDE DEF r
  <2>5. y \in Worker /\ y.pc = "decide" /\ y.id = Len(attempts) /\ y.row = r
        /\ y.conn = x.conn /\ y.request = x.request
    BY <1>1, <1>2, <2>2 DEF Worker
  <2>6. UNCHANGED <<attempts, stripe, credited>> /\ lock' = lock /\ x.pc = "read" /\ x.conn
        /\ worker' = [worker EXCEPT ![w].pc = "decide", ![w].id = Len(attempts), ![w].row = r]
    BY <1>4 DEF ReadLatest, At, r
  <2>7. worker' = [worker EXCEPT ![w] = y]
    BY <1>1, <2>6 DEF Worker
  <2> HIDE DEF y
  <2>8. LockKept(w, y)
    BY <2>5, <2>6 DEF LockKept, At
  <2>9. Knows(y, attempts, keys, credited)
    BY <1>1, <2>3, <2>5, <2>6 DEF Knows, Busy
  <2>10. \A a \in 1..Len(attempts) : attempts[a].status = "failed" => ~Bound(y, a)
    BY <2>3, <2>5 DEF Bound
  <2>11. Rejected(w)'
    BY <1>1, <2>5, <2>7 DEF Rejected
  <2> QED BY <2>5, <2>6, <2>7, <2>8, <2>9, <2>10, <2>11, QuietAccounted
<1>5. CASE Refrain(w)
  BY <1>5, LeaveAccounted DEF Refrain, At
<1>6. CASE Retry(w)
  <2> DEFINE y == [x EXCEPT !.pc = "prepare", !.request = x.row.saved]
  <2>1. x.row \in Row /\ x.row.saved \in Nat
    BY <1>1 DEF Worker, Row
  <2>2. y \in Worker /\ y.pc = "prepare" /\ y.request = x.row.saved
        /\ y.id = x.id /\ y.conn = x.conn /\ y.row = x.row
    BY <1>1, <2>1 DEF Worker
  <2>3. UNCHANGED <<attempts, stripe, credited>> /\ lock' = lock /\ x.pc = "decide"
        /\ x.row.status = "pending" /\ worker' = [worker EXCEPT ![w] = y]
    BY <1>1, <1>6 DEF Retry, At, Worker
  <2> HIDE DEF y
  <2>4. LockKept(w, y)
    BY <2>2, <2>3 DEF LockKept, At
  <2>5. Knows(y, attempts, keys, credited)
    BY <1>1, <2>2, <2>3 DEF Knows, Busy
  <2>6. \A a \in 1..Len(attempts) : Bound(y, a) => Bound(x, a)
    BY <2>2, <2>3 DEF Bound
  <2>7. Rejected(w)'
    BY <1>1, <2>2, <2>3 DEF Rejected
  <2> QED BY <2>2, <2>3, <2>4, <2>5, <2>6, <2>7, QuietAccounted
<1> DEFINE EndsWith(z) == worker' = [worker EXCEPT ![w].pc = "finish", ![w].result = z]
<1>7. ASSUME NEW z \in {"rejected", "unsure"}, EndsWith(z), x.pc \in {"prepare", "charge", "credit"},
             UNCHANGED <<attempts, stripe, credited, lock>>,
             ~Refusals /\ z = "rejected" =>
               keys[x.id].outcome = "none" /\ \A v \in Workers \ {w} : At(v, "idle")
      PROVE  Accounted'
  <2> DEFINE y == [x EXCEPT !.pc = "finish", !.result = z]
  <2>1. y \in Worker /\ y.pc = "finish" /\ y.result = z /\ y.id = x.id /\ y.conn = x.conn
    BY <1>1, <1>7 DEF Worker
  <2>2. worker' = [worker EXCEPT ![w] = y]
    BY <1>1, <1>7 DEF Worker
  <2> HIDE DEF y
  <2>3. LockKept(w, y)
    BY <1>7, <2>1, <2>2 DEF LockKept, At
  <2>4. Knows(y, attempts, keys, credited)
    BY <1>1, <1>7, <2>1 DEF Knows, Busy
  <2>5. \A a \in 1..Len(attempts) : ~Bound(y, a)
    BY <2>1 DEF Bound
  <2>6. worker'[w] = y /\ \A v \in Workers \ {w} : worker'[v] = worker[v]
    BY <1>1, <2>2
  <2>7. keys' = keys
    BY <1>7 DEF stripe
  <2>8. ~Refusals => Rejected(w)'
    BY <1>7, <2>1, <2>6, <2>7 DEF Rejected, At
  <2> QED BY <1>7, <2>1, <2>2, <2>3, <2>4, <2>5, <2>8, QuietAccounted
<1> HIDE DEF EndsWith
<1>8. CASE Refuse(w)
  <2>1. x.pc = "charge" /\ UNCHANGED <<attempts, stripe, credited, lock>> /\ EndsWith("rejected")
    BY <1>8 DEF Refuse, At, EndsWith
  <2>2. ~Refusals => keys[x.id].outcome = "none" /\ \A v \in Workers \ {w} : At(v, "idle")
    BY <1>8 DEF Refuse, FirstCall
  <2> QED BY <1>7, <2>1, <2>2
<1>9. CASE Fail(w)
  <2>1. UNCHANGED <<attempts, stripe, credited>> /\ ~At(w, "idle")
    BY <1>9 DEF Fail, At
  <2>2. CASE Leave(w)
    BY <2>1, <2>2, LeaveAccounted
  <2>3. CASE /\ x.pc \in {"prepare", "charge", "credit"}
             /\ worker' = [worker EXCEPT ![w].pc = "finish", ![w].result = "unsure"]
             /\ UNCHANGED lock
    <3>1. EndsWith("unsure")
      BY <2>3 DEF EndsWith
    <3> QED BY <1>7, <2>1, <2>3, <3>1
  <2> QED BY <1>9, <2>2, <2>3 DEF Fail
<1>10. CASE LoseConnection(w)
  <2> DEFINE y == [x EXCEPT !.conn = FALSE]
  <2>1. y \in Worker /\ y.pc = x.pc /\ y.id = x.id /\ y.row = x.row /\ y.conn = FALSE
        /\ y.request = x.request /\ y.result = x.result
    BY <1>1 DEF Worker
  <2>2. UNCHANGED <<attempts, stripe, credited>> /\ lock' = lock \ {w} /\ x.conn
        /\ worker' = [worker EXCEPT ![w] = y]
    BY <1>1, <1>10 DEF LoseConnection, Worker
  <2> HIDE DEF y
  <2>3. LockKept(w, y)
    BY <1>1, <2>1, <2>2 DEF LockKept, At, Knows
  <2>4. Knows(y, attempts, keys, credited)
    BY <1>1, <2>1 DEF Knows, Busy
  <2>5. \A a \in 1..Len(attempts) : Bound(y, a) => Bound(x, a)
    BY <2>1 DEF Bound
  <2>6. Rejected(w)'
    BY <1>1, <2>1, <2>2 DEF Rejected
  <2> QED BY <2>1, <2>2, <2>3, <2>4, <2>5, <2>6, QuietAccounted
<1>11. CASE Crash(w)
  BY <1>11, LeaveAccounted DEF Crash
<1> QED BY <1>3, <1>4, <1>5, <1>6, <1>8, <1>9, <1>10, <1>11

LEMMA InitAccounted == ASSUME TopupInit PROVE Accounted
<1>1. Sound
  BY InitSound
<1>2. Len(attempts) = 0 /\ \A w \in Workers : worker[w] = Idle
  BY DEF TopupInit
<1>3. Held /\ Knowing
  BY <1>2 DEF Held, Knowing, Knows, Idle, Busy
<1>4. \A w \in Workers : Rejected(w)
  BY <1>2 DEF Rejected, Idle
<1> QED BY <1>1, <1>2, <1>3, <1>4 DEF Accounted, Closing

\* What only the clock changes says nothing of payments.
LEMMA SameAccounted ==
  ASSUME Accounted, Sound', UNCHANGED <<attempts, keys, credited, lock, worker>>
  PROVE  Accounted'
<1>1. Held' /\ Knowing'
  BY DEF Accounted, Held, Knowing
<1>2. \A a \in 1..Len(attempts)' : Settled(a)'
  BY DEF Accounted, Settled
<1>3. Closing'
  <2>1. Closing
    BY DEF Accounted
  <2> QED BY <2>1 DEF Closing, Rejected, WrittenOff, At
<1> QED BY <1>1, <1>2, <1>3 DEF Accounted

\* A payment that goes through late belongs to an attempt that is still open.
LEMMA GoThroughAccounted ==
  ASSUME Accounted, Sound', NEW b \in Ids, GoThrough(b) PROVE Accounted'
<1>1. TopupTypeOK /\ UNCHANGED <<attempts, credited, lock, worker>> /\ keys \in [Ids -> Key]
      /\ keys[b].outcome = "processing" /\ keys' = [keys EXCEPT ![b].outcome = "late"]
  BY Unfolded DEF GoThrough, Accounted, Sound
<1>2. \A a \in Ids : /\ a # b => keys'[a] = keys[a]
                     /\ keys'[a].params = keys[a].params
                     /\ keys'[b].outcome = "late"
  BY <1>1 DEF Key
<1>3. \A a \in Ids : keys[a].outcome \in {"none", "charged", "declined"} => keys'[a] = keys[a]
  BY <1>1, <1>2
<1>4. \A a \in 1..Len(attempts) : a \in Ids
  BY <1>1, Lengths
<1>5. Knowing'
  <2> SUFFICES ASSUME NEW w \in Workers PROVE Knows(worker[w], attempts, keys', credited)
    BY <1>1 DEF Knowing
  <2>1. Knows(worker[w], attempts, keys, credited) /\ Local(worker[w], attempts, charges, clock)
    BY Here
  <2>2. worker[w].pc \in Busy => worker[w].id \in Ids
    BY <1>4, <2>1 DEF Local
  <2> QED BY <1>3, <2>1, <2>2 DEF Knows, Busy
<1>6. \A a \in 1..Len(attempts)' : Settled(a)'
  <2> SUFFICES ASSUME NEW a \in 1..Len(attempts) PROVE Settled(a)'
    BY <1>1
  <2>1. Settled(a) /\ a \in Ids
    BY <1>4 DEF Accounted
  <2> QED BY <1>1, <1>2, <1>3, <2>1 DEF Settled
<1>7. Closing'
  <2> SUFFICES ASSUME ~Refusals
               PROVE  /\ \A w \in Workers : Rejected(w)'
                      /\ \A a \in 1..Len(attempts) : WrittenOff(a)'
    BY <1>1 DEF Closing
  <2>1. ASSUME NEW w \in Workers PROVE Rejected(w)'
    <3>1. Rejected(w) /\ Local(worker[w], attempts, charges, clock)
      BY Here DEF Accounted, Closing
    <3>2. worker[w].pc = "finish" => worker[w].id \in Ids
      BY <1>4, <3>1 DEF Local, Busy
    <3> QED BY <1>1, <1>3, <3>1, <3>2 DEF Rejected, At
  <2>2. ASSUME NEW a \in 1..Len(attempts) PROVE WrittenOff(a)'
    <3>1. WrittenOff(a) /\ a \in Ids
      BY <1>4 DEF Accounted, Closing
    <3> QED BY <1>1, <1>3, <3>1 DEF WrittenOff
  <2> QED BY <2>1, <2>2
<1> QED BY <1>1, <1>5, <1>6, <1>7 DEF Accounted, Held

LEMMA CreditAccounted == ASSUME Accounted, Sound', NEW w \in Workers, Credit(w) PROVE Accounted'
<1> DEFINE x == worker[w]
           y == [x EXCEPT !.pc = "finish"]
<1>1. TopupTypeOK /\ x \in Worker /\ Local(x, attempts, charges, clock) /\ Len(attempts) \in Nat
      /\ Knows(x, attempts, keys, credited) /\ worker \in [Workers -> Worker]
  BY Here, WorkersTyped, Lengths, Settings DEF Accounted, Sound
<1>2. UNCHANGED <<attempts, keys, lock>> /\ x.pc = "credit" /\ x.intent = 1
      /\ credited' = credited \union {<<x.id, 1>>}
  BY <1>1 DEF Credit, At, Local, stripe
<1>3. y \in Worker /\ y.pc = "finish" /\ y.id = x.id /\ y.result = x.result /\ y.conn = x.conn
  BY <1>1 DEF Worker
<1>4. worker' = [worker EXCEPT ![w] = y]
  BY <1>1 DEF Credit, Goto, Worker
<1> HIDE DEF y
<1>5. LockKept(w, y) /\ KeysKept(x) /\ RowsKept(x.conn) /\ credited \subseteq credited'
  BY <1>1, <1>2, <1>3 DEF LockKept, KeysKept, RowsKept, At
<1>6. Knows(y, attempts', keys', credited')
  BY <1>1, <1>2, <1>3 DEF Knows, Busy
<1>7. \A a \in 1..Len(attempts') : Settled(a)'
  BY <1>2, <1>5, SettledKept DEF Accounted
<1>8. Rejected(w)'
  BY <1>1, <1>2, <1>3, <1>4 DEF Rejected, Knows
<1>9. \A a \in 1..Len(attempts') : ~Bound(y, a)
  BY <1>3 DEF Bound
<1>10. \A a \in 1..Len(attempts') : attempts'[a].status = "failed" =>
         a \in 1..Len(attempts) /\ attempts[a].status = "failed" /\ (Bound(y, a) => Bound(x, a))
  BY <1>2, <1>9
<1> QED BY <1>3, <1>4, <1>5, <1>6, <1>7, <1>8, <1>10, OneAccounted

LEMMA BeginAccounted == ASSUME Accounted, Sound', NEW w \in Workers, Begin(w) PROVE Accounted'
<1> DEFINE x == worker[w]
           n == Len(attempts) + 1
           e == [status |-> "pending", created |-> clock, saved |-> 0]
           y == [x EXCEPT !.pc = "prepare", !.id = n]
<1>1. TopupTypeOK /\ x \in Worker /\ Len(attempts) \in Nat /\ attempts \in Seq(Attempt) /\ clock \in Nat
      /\ Knows(x, attempts, keys, credited) /\ worker \in [Workers -> Worker]
  BY Here, WorkersTyped, Lengths, Unfolded, Settings DEF Accounted, Sound
<1>2. n \in 0..MaxAttempts /\ n \in Ids
  BY <1>1, Settings DEF Begin, Ids
<1>3. e \in Attempt /\ e.status = "pending" /\ e.saved = 0
  BY <1>1 DEF Attempt
<1>4. attempts' = Append(attempts, e) /\ UNCHANGED <<keys, credited, lock>> /\ x.pc = "decide"
  BY DEF Begin, At, stripe
<1> HIDE DEF e
<1>5. /\ Len(attempts') = n /\ attempts'[n] = e
      /\ \A a \in 1..Len(attempts) : attempts'[a] = attempts[a]
      /\ \A a \in 1..Len(attempts') : a = n \/ a \in 1..Len(attempts)
  BY <1>1, <1>3, <1>4, AppendProperties
<1>6. y \in Worker /\ y.pc = "prepare" /\ y.id = n /\ y.request = x.request /\ y.conn = x.conn
  <2> HIDE DEF n
  <2> QED BY <1>1, <1>2 DEF Worker
<1>7. worker' = [worker EXCEPT ![w] = y]
  <2>1. worker' = [worker EXCEPT ![w].pc = "prepare", ![w].id = n]
    BY DEF Begin
  <2> QED BY <1>1, <2>1 DEF Worker
<1> HIDE DEF y
<1>8. keys[n].outcome = "none"
  <2>1. n \notin 1..Len(attempts)
    BY <1>1
  <2> QED BY <1>2, <2>1 DEF Accounted, Sound, Booked
<1>9. LockKept(w, y) /\ KeysKept(x) /\ RowsKept(x.conn) /\ credited \subseteq credited'
  BY <1>1, <1>4, <1>5, <1>6 DEF LockKept, KeysKept, RowsKept, At
<1>10. Knows(y, attempts', keys', credited')
  <2> HIDE DEF n
  <2> QED BY <1>1, <1>3, <1>4, <1>5, <1>6 DEF Knows, Busy
<1>11. ASSUME NEW a \in 1..Len(attempts') PROVE Settled(a)'
  <2>1. CASE a = n
    <3> HIDE DEF n
    <3> QED BY <1>3, <1>4, <1>5, <1>8, <2>1 DEF Settled
  <2>2. CASE a \in 1..Len(attempts)
    BY <1>4, <1>5, <1>9, <2>2, SettledKept DEF Accounted
  <2> QED BY <1>5, <2>1, <2>2
<1>12. Rejected(w)'
  BY <1>1, <1>6, <1>7 DEF Rejected
<1>13. ASSUME NEW a \in 1..Len(attempts'), attempts'[a].status = "failed"
       PROVE  a \in 1..Len(attempts) /\ attempts[a].status = "failed" /\ ~Bound(y, a)
  <2>1. a # n
    BY <1>3, <1>5, <1>13
  <2> QED BY <1>5, <1>6, <1>13, <2>1 DEF Bound
<1> QED BY <1>6, <1>7, <1>9, <1>10, <1>11, <1>12, <1>13, OneAccounted

\* The payment request is saved over the connection, so no row has another one.
LEMMA PrepareAccounted == ASSUME Accounted, Sound', NEW w \in Workers, Prepare(w) PROVE Accounted'
<1> DEFINE x == worker[w]
           i == x.id
<1>1. TopupTypeOK /\ x \in Worker /\ Local(x, attempts, charges, clock) /\ quotes \in Nat
      /\ Knows(x, attempts, keys, credited) /\ worker \in [Workers -> Worker]
      /\ x.pc = "prepare"
  BY Here, WorkersTyped, Unfolded DEF Accounted, Sound, Prepare, At
<1>2. i \in 1..Len(attempts) /\ Len(attempts) \in Nat
      /\ \A a \in 1..Len(attempts) : a \in Ids /\ attempts[a] \in Attempt
  BY <1>1, Lengths, Settings DEF Local, Busy
<1>3. CASE x.request # 0
  <2> DEFINE y == [x EXCEPT !.pc = "charge"]
  <2>1. y \in Worker /\ y.pc = "charge" /\ y.id = i /\ y.request = x.request /\ y.conn = x.conn
    BY <1>1 DEF Worker
  <2>2. UNCHANGED <<attempts, stripe, credited, lock>> /\ worker' = [worker EXCEPT ![w] = y]
    BY <1>1, <1>3 DEF Prepare, Goto, Worker
  <2> HIDE DEF y
  <2>3. LockKept(w, y) /\ Knows(y, attempts, keys, credited)
    BY <1>1, <1>3, <2>1, <2>2 DEF LockKept, Knows, Busy, At
  <2>4. \A a \in 1..Len(attempts) : Bound(y, a) => Bound(x, a)
    BY <1>1, <2>1 DEF Bound
  <2>5. Rejected(w)'
    BY <1>1, <2>1, <2>2 DEF Rejected
  <2> QED BY <2>1, <2>2, <2>3, <2>4, <2>5, QuietAccounted
<1>4. CASE x.request = 0
  <2> DEFINE q == quotes + 1
             y == [x EXCEPT !.pc = "charge", !.request = q]
             e == [attempts[i] EXCEPT !.saved = q]
  <2>1. q \in Nat /\ q # 0
    BY <1>1
  <2>2. x.conn /\ attempts[i].saved = 0
    BY <1>1, <1>4 DEF Prepare, Knows
  <2>3. attempts' = [attempts EXCEPT ![i] = e]
    BY <1>4, <2>2 DEF Prepare
  <2>4. worker' = [worker EXCEPT ![w].pc = "charge", ![w].request = q]
        /\ UNCHANGED <<keys, credited, lock>>
    BY <1>4 DEF Prepare, stripe
  <2> HIDE DEF q
  <2>5. y \in Worker /\ y.pc = "charge" /\ y.id = i /\ y.request = q /\ y.conn = x.conn
    BY <1>1, <2>1 DEF Worker
  <2>6. worker' = [worker EXCEPT ![w] = y]
    BY <1>1, <2>4 DEF Worker
  <2>7. e \in Attempt /\ e.saved = q /\ e.status = attempts[i].status
    BY <1>2, <2>1 DEF Attempt
  <2> HIDE DEF y, e, i
  <2>8. /\ Len(attempts') = Len(attempts)
        /\ \A a \in 1..Len(attempts) : attempts'[a] = IF a = i THEN e ELSE attempts[a]
    BY <1>1, <2>3, <2>7, AttemptsWritten
  <2>9. LockKept(w, y) /\ KeysKept(x) /\ RowsKept(x.conn) /\ credited \subseteq credited'
    BY <1>1, <1>2, <2>2, <2>4, <2>5, <2>8 DEF LockKept, KeysKept, RowsKept, At
  <2>10. Knows(y, attempts', keys', credited')
    BY <1>1, <1>2, <2>1, <2>5, <2>7, <2>8 DEF Knows, Busy, i
  <2>11. ASSUME NEW a \in 1..Len(attempts') PROVE Settled(a)'
    <3>1. a \in 1..Len(attempts) /\ Settled(a)
      BY <2>8, <1>2 DEF Accounted
    <3>2. CASE a = i
      BY <2>2, <2>4, <2>7, <2>8, <3>1, <3>2 DEF Settled
    <3>3. CASE a # i
      BY <2>4, <2>8, <3>1, <3>3, SettledKept
    <3> QED BY <3>2, <3>3
  <2>12. Rejected(w)'
    BY <1>1, <2>5, <2>6 DEF Rejected
  <2>13. \A a \in 1..Len(attempts') : attempts'[a].status = "failed" =>
           a \in 1..Len(attempts) /\ attempts[a].status = "failed" /\ (Bound(y, a) => Bound(x, a))
    BY <1>1, <1>2, <2>5, <2>7, <2>8 DEF Bound, i
  <2> HIDE DEF x
  <2> QED BY <2>5, <2>6, <2>9, <2>10, <2>11, <2>12, <2>13, OneAccounted DEF x
<1> QED BY <1>3, <1>4

\* An attempt is closed with what became of it.
LEMMA FinishAccounted == ASSUME Accounted, Sound', NEW w \in Workers, Finish(w) PROVE Accounted'
<1> DEFINE x == worker[w]
           i == x.id
           s == StatusFor(x.result)
           e == [attempts[i] EXCEPT !.status = s]
<1>1. TopupTypeOK /\ x \in Worker /\ Local(x, attempts, charges, clock)
      /\ Knows(x, attempts, keys, credited) /\ worker \in [Workers -> Worker]
      /\ x.pc = "finish" /\ UNCHANGED <<stripe, credited>> /\ Leave(w)
  BY Here, WorkersTyped, Unfolded DEF Accounted, Sound, Finish, At
<1>2. i \in 1..Len(attempts) /\ Len(attempts) \in Nat
      /\ \A a \in 1..Len(attempts) : a \in Ids /\ attempts[a] \in Attempt
  BY <1>1, Lengths, Settings DEF Local, Busy
<1>3. CASE ~x.conn
  BY <1>1, <1>3, LeaveAccounted DEF Finish, At
<1>4. CASE x.conn
  <2>1. s \in {"pending", "succeeded", "failed"}
        /\ (s = "succeeded" => x.result = "credit") /\ (s = "failed" => x.result = "rejected")
    BY DEF StatusFor
  <2>2. attempts' = [attempts EXCEPT ![i] = e]
    BY <1>4 DEF Finish
  <2>3. e \in Attempt /\ e.saved = attempts[i].saved /\ e.status = s
    BY <1>2, <2>1 DEF Attempt
  <2>4. Idle \in Worker /\ Idle.pc = "idle" /\ Idle.conn = FALSE /\ Idle.request = 0
        /\ worker' = [worker EXCEPT ![w] = Idle] /\ lock' = lock \ {w} /\ keys' = keys
        /\ credited' = credited
    BY <1>1, IdleTyped DEF Leave, Idle, stripe
  <2> HIDE DEF e, i, s
  <2>5. /\ Len(attempts') = Len(attempts)
        /\ \A a \in 1..Len(attempts) : attempts'[a] = IF a = i THEN e ELSE attempts[a]
    BY <1>1, <2>2, <2>3, AttemptsWritten
  <2>6. LockKept(w, Idle) /\ KeysKept(x) /\ RowsKept(x.conn) /\ credited \subseteq credited'
    BY <1>1, <1>2, <1>4, <2>3, <2>4, <2>5 DEF LockKept, KeysKept, RowsKept, At
  <2>7. Knows(Idle, attempts', keys', credited')
    BY <2>4 DEF Knows, Busy
  <2>8. ASSUME NEW a \in 1..Len(attempts') PROVE Settled(a)'
    <3>1. a \in 1..Len(attempts) /\ Settled(a)
      BY <2>5, <1>2 DEF Accounted
    <3>2. CASE a = i
      <4>1. s = "succeeded" => keys[a].outcome = "charged" /\ <<a, 1>> \in credited
        BY <1>1, <2>1, <3>2 DEF Knows, i
      <4> QED BY <2>3, <2>4, <2>5, <3>1, <3>2, <4>1 DEF Settled
    <3>3. CASE a # i
      BY <2>4, <2>5, <3>1, <3>3, SettledKept
    <3> QED BY <3>2, <3>3
  <2>9. worker'[w] = Idle /\ \A v \in Workers \ {w} : worker'[v] = worker[v]
    BY <1>1, <2>4
  <2>10. Rejected(w)'
    BY <2>4, <2>9 DEF Rejected
  <2>11. ASSUME ~Refusals, NEW a \in 1..Len(attempts'), attempts'[a].status = "failed"
         PROVE  \/ WrittenOff(a)'
                \/ a \in 1..Len(attempts) /\ attempts[a].status = "failed"
                   /\ (Bound(Idle, a) => Bound(x, a))
    <3>1. CASE a = i
      <4>1. x.result = "rejected" /\ Rejected(w)
        BY <2>1, <2>3, <2>5, <2>11, <1>2, <3>1 DEF Accounted, Closing
      <4>2. CASE keys[i].outcome = "declined"
        BY <2>4, <3>1, <4>2 DEF WrittenOff
      <4>3. CASE keys[i].outcome = "none" /\ \A v \in Workers \ {w} : At(v, "idle")
        <5>1. \A v \in Workers : worker'[v].pc = "idle"
          BY <2>4, <2>9, <4>3 DEF At
        <5>2. \A v \in Workers : ~Bound(worker'[v], a)
          BY <5>1 DEF Bound
        <5> QED BY <2>4, <3>1, <4>3, <5>2 DEF WrittenOff
      <4> QED BY <1>1, <1>4, <4>1, <4>2, <4>3 DEF Rejected, i
    <3>2. CASE a # i
      BY <2>4, <2>5, <2>11, <3>2 DEF Bound
    <3> QED BY <3>1, <3>2
  <2> HIDE DEF x
  <2> QED BY <2>4, <2>6, <2>7, <2>8, <2>10, <2>11, OneAccounted DEF x
<1> QED BY <1>3, <1>4

\* The first call fixes what becomes of the attempt; every later one is told.
LEMMA ChargeAccounted == ASSUME Accounted, Sound', NEW w \in Workers, Charge(w) PROVE Accounted'
<1> DEFINE x == worker[w]
           a == x.id
<1>1. TopupTypeOK /\ x \in Worker /\ Local(x, attempts, charges, clock) /\ keys \in [Ids -> Key]
      /\ Knows(x, attempts, keys, credited) /\ worker \in [Workers -> Worker]
      /\ x.pc = "charge" /\ UNCHANGED <<attempts, credited, lock>>
  BY Here, WorkersTyped, Unfolded DEF Accounted, Sound, Charge, At
<1>2. a \in 1..Len(attempts) /\ a \in Ids /\ Len(attempts) \in Nat /\ Settled(a)
      /\ x.request # 0 /\ x.request = attempts[a].saved /\ \A b \in 1..Len(attempts) : b \in Ids
  BY <1>1, Lengths, Settings DEF Local, Busy, Accounted, Knows
<1>3. keys[a].outcome # "none" => Remembered(a)
  BY <1>1, StillRemembered DEF Accounted, At
<1>4. /\ \A b \in Ids : b # a => keys'[b] = keys[b]
      /\ keys[a].outcome # "none" => keys'[a] = keys[a]
      /\ keys[a].outcome = "none" => keys'[a].params = x.request
      /\ keys'[a].outcome # "none"
  <2>1. CASE ~Remembered(a)
    <3>1. keys[a].outcome = "none"
      BY <1>3, <2>1
    <3>2. PICK outcome \in {"charged", "processing", "declined"} :
            keys' = [keys EXCEPT ![a] = [outcome |-> outcome, params |-> x.request, used |-> clock]]
      BY <2>1 DEF Charge
    <3> HIDE DEF a, x
    <3>3. keys'[a] = [outcome |-> outcome, params |-> x.request, used |-> clock]
          /\ \A b \in Ids : b # a => keys'[b] = keys[b]
      BY <1>1, <1>2, <3>2
    <3> QED BY <3>1, <3>2, <3>3
  <2>2. CASE Remembered(a)
    BY <2>2 DEF Charge, stripe, Remembered
  <2> QED BY <2>1, <2>2
<1>5. keys'[a].params = x.request
  BY <1>2, <1>4 DEF Settled
<1>6. KeysKept(x) /\ RowsKept(x.conn) /\ credited \subseteq credited'
  BY <1>1, <1>2, <1>4 DEF KeysKept, RowsKept
<1>7. ASSUME NEW b \in 1..Len(attempts') PROVE Settled(b)'
  <2>1. Settled(b) /\ b \in Ids
    BY <1>1, <1>2 DEF Accounted
  <2>2. CASE b = a /\ keys[a].outcome = "none"
    BY <1>1, <1>2, <1>5, <2>1, <2>2 DEF Settled
  <2>3. CASE keys'[b] = keys[b]
    BY <1>1, <1>6, <2>1, <2>3, SettledKept
  <2> QED BY <1>4, <2>1, <2>2, <2>3
<1>8. ASSUME NEW y \in Worker, y.id = a, y.conn = x.conn, worker' = [worker EXCEPT ![w] = y],
             \/ y.pc = "credit" /\ y.result = "credit" /\ keys'[a].outcome = "charged"
             \/ y.pc = "finish" /\ y.result \in {"rejected", "unsure"}
                /\ (y.result = "rejected" => keys'[a].outcome = "declined")
      PROVE  Accounted'
  <2>1. LockKept(w, y)
    BY <1>1, <1>8 DEF LockKept, At
  <2>2. Knows(y, attempts', keys', credited')
    BY <1>1, <1>8 DEF Knows, Busy
  <2>3. worker'[w] = y
    BY <1>1, <1>8
  <2>4. Rejected(w)'
    BY <1>8, <2>3 DEF Rejected
  <2>5. \A b \in 1..Len(attempts') : attempts'[b].status = "failed" =>
          b \in 1..Len(attempts) /\ attempts[b].status = "failed" /\ (Bound(y, b) => Bound(x, b))
    BY <1>1, <1>8 DEF Bound
  <2> HIDE DEF a, x
  <2> QED BY <1>6, <1>7, <1>8, <2>1, <2>2, <2>4, <2>5, OneAccounted DEF x
<1> DEFINE mine == keys'[a].params = x.request
           result == IF mine THEN ResultOf(keys'[a].outcome) ELSE "unsure"
           pc == IF result = "credit" THEN "credit" ELSE "finish"
<1>9. /\ result \in {"credit", "rejected", "unsure"}
      /\ result = "credit" => keys'[a].outcome = "charged"
      /\ result = "rejected" => keys'[a].outcome = "declined"
  <2>1. ResultOf(keys'[a].outcome) \in {"credit", "rejected", "unsure"}
        /\ (ResultOf(keys'[a].outcome) = "credit" => keys'[a].outcome = "charged")
        /\ (ResultOf(keys'[a].outcome) = "rejected" => keys'[a].outcome = "declined")
    BY DEF ResultOf
  <2> QED BY <1>5, <2>1
<1>10. \/ pc = "credit" /\ result = "credit"
       \/ pc = "finish" /\ result \in {"rejected", "unsure"}
  BY <1>9
<1>11. CASE worker' = [worker EXCEPT ![w].pc = pc, ![w].result = result, ![w].intent = charges'[a]]
  <2> DEFINE y == [x EXCEPT !.pc = pc, !.result = result, !.intent = charges'[a]]
  <2> HIDE DEF pc, result
  <2>1. charges'[a] \in Nat
    BY <1>2, Unfolded DEF Sound, TopupTypeOK
  <2>2. y \in Worker /\ y.id = a /\ y.conn = x.conn /\ y.pc = pc /\ y.result = result
    BY <1>1, <1>10, <2>1 DEF Worker
  <2>3. worker' = [worker EXCEPT ![w] = y]
    BY <1>1, <1>11 DEF Worker
  <2> HIDE DEF y
  <2> QED BY <1>8, <1>9, <1>10, <2>2, <2>3
<1>12. CASE worker' = [worker EXCEPT ![w].pc = "finish", ![w].result = "unsure"]
  <2> DEFINE y == [x EXCEPT !.pc = "finish", !.result = "unsure"]
  <2>1. y \in Worker /\ y.id = a /\ y.conn = x.conn /\ y.pc = "finish" /\ y.result = "unsure"
    BY <1>1 DEF Worker
  <2>2. worker' = [worker EXCEPT ![w] = y]
    BY <1>1, <1>12 DEF Worker
  <2> HIDE DEF y
  <2> QED BY <1>8, <2>1, <2>2
<1>13. \/ worker' = [worker EXCEPT ![w].pc = pc, ![w].result = result, ![w].intent = charges'[a]]
       \/ worker' = [worker EXCEPT ![w].pc = "finish", ![w].result = "unsure"]
  BY DEF Charge
<1> QED BY <1>11, <1>12, <1>13

LEMMA NextAccounted == ASSUME Accounted, [TopupNext]_topupVars PROVE Accounted'
<1>1. Sound'
  BY NextSound DEF Accounted
<1> USE <1>1
<1>2. CASE ClockTick
  BY <1>2, SameAccounted DEF ClockTick, stripe
<1>3. ASSUME NEW a \in Ids, GoThrough(a) PROVE Accounted'
  BY <1>3, GoThroughAccounted
<1>4. ASSUME NEW w \in Workers,
             \/ Start(w) \/ ReadLatest(w) \/ Refrain(w) \/ Retry(w)
             \/ Refuse(w) \/ Fail(w) \/ LoseConnection(w) \/ Crash(w)
      PROVE  Accounted'
  BY <1>4, QuietStepsAccounted
<1>5. ASSUME NEW w \in Workers, Begin(w) PROVE Accounted'
  BY <1>5, BeginAccounted
<1>6. ASSUME NEW w \in Workers, Prepare(w) PROVE Accounted'
  BY <1>6, PrepareAccounted
<1>7. ASSUME NEW w \in Workers, Charge(w) PROVE Accounted'
  BY <1>7, ChargeAccounted
<1>8. ASSUME NEW w \in Workers, Credit(w) PROVE Accounted'
  BY <1>8, CreditAccounted
<1>9. ASSUME NEW w \in Workers, Finish(w) PROVE Accounted'
  BY <1>9, FinishAccounted
<1>10. CASE UNCHANGED topupVars
  BY <1>10, SameAccounted DEF topupVars, stripe
<1> QED BY <1>2, <1>3, <1>4, <1>5, <1>6, <1>7, <1>8, <1>9, <1>10 DEF TopupNext

LEMMA AccountedAlways == TopupSpec => []Accounted
<1>1. TopupInit => Accounted
  BY InitAccounted
<1>2. Accounted /\ [TopupNext]_topupVars => Accounted'
  BY NextAccounted
<1> QED BY <1>1, <1>2, PTL DEF TopupSpec

-----------------------------------------------------------------------------
(* Results                                                                 *)

\* Every variable keeps its type: an attempt keeps one of its three states,
\* and no worker is anywhere but at a step of maybeAutoTopup.
THEOREM TopupTyping == TopupSpec => []TopupTypeOK
<1>1. Sound => TopupTypeOK
  BY SoundSafe
<1> QED BY <1>1, SoundAlways, PTL

\* However many workers retry an attempt, whatever calls fail, connections
\* break or workers crash between, and whether or not the lock keeps them
\* apart, its card is charged at most once: a worker that charges began while
\* the attempt was young enough for the key to outlive its call.
THEOREM CardsAreChargedOnce == TopupSpec => []ChargedOnce
<1>1. Sound => ChargedOnce
  BY SoundSafe
<1> QED BY <1>1, SoundAlways, PTL

\* The wallet is credited only for a charge that was made, and only once.
THEOREM CreditsAreCharged == TopupSpec => []CreditIsCharged
<1>1. Sound => CreditIsCharged
  BY SoundSafe
<1> QED BY <1>1, SoundAlways, PTL

\* What the invariant says with or without refusals: an attempt is closed as
\* succeeded only when its card was charged and the charge credited, and Stripe
\* never sees another payment request under its key than the one its row keeps.
SuccessIsCredited ==
  \A a \in DOMAIN attempts :
    /\ attempts[a].status = "succeeded" => charges[a] = 1 /\ <<a, 1>> \in credited
    /\ keys[a].outcome # "none" => keys[a].params = attempts[a].saved

\* Whatever retries, crashes, lost connections and refusals do, no attempt is
\* closed as succeeded without its credit, and no retry asks for another amount
\* or card than the first call did.
THEOREM SuccessesAreCredited == TopupSpec => []SuccessIsCredited
<1>1. ASSUME Accounted PROVE SuccessIsCredited
  <2> SUFFICES ASSUME NEW a \in DOMAIN attempts
               PROVE /\ attempts[a].status = "succeeded" => charges[a] = 1 /\ <<a, 1>> \in credited
                     /\ keys[a].outcome # "none" => keys[a].params = attempts[a].saved
    BY DEF SuccessIsCredited
  <2>1. TopupTypeOK /\ Booked /\ a \in 1..Len(attempts)
    BY <1>1, Unfolded DEF Accounted, Sound
  <2>2. a \in Ids /\ Settled(a)
    BY <1>1, <2>1, Lengths DEF Accounted
  <2> QED BY <2>1, <2>2 DEF Settled, Booked
<1> QED BY <1>1, AccountedAlways, PTL

\* As long as Stripe refuses a call only for the payment's sake, or on an
\* attempt's first call with nobody else at work, money taken from the card is
\* in the wallet or its attempt is still open for a retry or an operator,
\* however many workers there are and whoever loses the lock.
THEOREM ChargesAreAccounted == ASSUME ~Refusals PROVE TopupSpec => []ChargeIsAccounted
<1>1. Accounted => ChargeIsAccounted
  BY AccountedSafe
<1> QED BY <1>1, AccountedAlways, PTL
=============================================================================
