-------------------------- MODULE StripeWebhookProofs --------------------------
(***************************************************************************)
(* Theorems about the payment events, for any number of handlers, any      *)
(* price and any settings that WebhookAssumption allows.                   *)
(***************************************************************************)
EXTENDS StripeWebhook, SequenceTheorems, TLAPS

StripeEvent == [sub : SubStates, kind : Kinds, total : 0..Price]
Request == [pc : {"idle", "process", "fetched", "done", "failed"}, id : Nat,
            view : SubStates, cancelled : BOOLEAN]
Standing == [plan : {"free", "member"}, status : {"active", "past_due", "suspended"}]
Truth == [paid : BOOLEAN, refunded : 0..Price, sub : SubStates]

-----------------------------------------------------------------------------
(* Types                                                                   *)

Typed ==
  /\ setting \in Settings
  /\ stripe \in Truth
  /\ sent \in Seq(StripeEvent) /\ Len(sent) <= setting.events
  /\ acked \subseteq 1..Len(sent) /\ seen \subseteq 1..Len(sent)
  /\ topup \in Nat /\ refundKeys \subseteq 1..Price /\ debited \in 0..Price /\ wallet \in Int
  /\ membership \in Wanted /\ account \in Standing
  /\ handler \in [Handlers -> Request]
  /\ errors \in 0..setting.errors

\* A request that is at work serves an event that was sent.
Serving == \A h \in Handlers :
  IF handler[h].pc = "idle" THEN handler[h].id = 0 ELSE handler[h].id \in 1..Len(sent)

LEMMA Settled ==
  /\ Price \in Nat \ {0}
  /\ \A s \in Settings : s.events \in Nat /\ s.errors \in Nat
BY WebhookAssumption

\* The types as the invariant states them.
LEMMA TypedIsTyped == Typed /\ Serving => TypeOK
<1> SUFFICES ASSUME Typed, Serving PROVE TypeOK
  OBVIOUS
<1>1. Len(sent) \in Nat /\ DOMAIN sent = 1..Len(sent) /\ setting.events \in Nat
  BY LenProperties, Settled DEF Typed
<1>2. \A i \in DOMAIN sent : sent[i] \in StripeEvent
  BY <1>1, ElementOfSeq DEF Typed
<1>3. \A i \in DOMAIN sent : sent[i] \in [kind : Kinds, total : 0..Price, sub : SubStates]
  BY <1>2 DEF StripeEvent
<1>4. \A h \in Handlers : handler[h].id \in 0..setting.events
  BY <1>1 DEF Typed, Serving
<1>5. handler \in [Handlers -> [pc : {"idle", "process", "fetched", "done", "failed"},
                                id : 0..setting.events, view : SubStates, cancelled : BOOLEAN]]
  <2>1. \A h \in Handlers : handler[h] \in Request
    BY DEF Typed
  <2>2. \A h \in Handlers :
          handler[h] \in [pc : {"idle", "process", "fetched", "done", "failed"},
                          id : 0..setting.events, view : SubStates, cancelled : BOOLEAN]
    BY <1>4, <2>1 DEF Request
  <2> QED BY <2>2 DEF Typed
<1>6. debited \in Nat
  BY Settled DEF Typed
<1> QED BY <1>1, <1>3, <1>5, <1>6 DEF Typed, TypeOK, Truth, Standing

-----------------------------------------------------------------------------
(* What is known of the events and of the money                            *)

\* Stripe emits nothing that has not happened.
Truthful == \A i \in 1..Len(sent) :
  /\ sent[i].kind = "paid" => stripe.paid
  /\ sent[i].kind = "refund" => sent[i].total \in 1..stripe.refunded

Credited == topup \in {0, 1} /\ (topup = 1 => stripe.paid)

\* The refund rows: none larger than what Stripe paid back, and their sum is
\* the largest of them.
Debited ==
  /\ debited \in refundKeys \union {0}
  /\ \A k \in refundKeys : k <= debited
  /\ debited <= stripe.refunded

Sound == Typed /\ Serving /\ Truthful /\ Credited /\ Debited

\* What the largest and the smallest element of a set are.
LEMMA MaxIs ==
  ASSUME NEW S \in SUBSET Int, NEW m \in S, \A y \in S : m >= y
  PROVE  Max(S) = m
<1>1. \E x \in S : \A y \in S : x >= y
  OBVIOUS
<1>2. Max(S) \in S /\ \A y \in S : Max(S) >= y
  BY <1>1 DEF Max
<1>3. Max(S) >= m /\ m >= Max(S)
  BY <1>2
<1>4. Max(S) \in Int /\ m \in Int
  BY <1>2
<1> QED BY <1>3, <1>4

LEMMA MinIs ==
  ASSUME NEW S \in SUBSET Int, NEW m \in S, \A y \in S : m <= y
  PROVE  Min(S) = m
<1>1. \E x \in S : \A y \in S : x <= y
  OBVIOUS
<1>2. Min(S) \in S /\ \A y \in S : Min(S) <= y
  BY <1>1 DEF Min
<1>3. Min(S) <= m /\ m <= Min(S)
  BY <1>2
<1>4. Min(S) \in Int /\ m \in Int
  BY <1>2
<1> QED BY <1>3, <1>4

\* What a refund event of a charge adds: the part of its total above what is
\* debited already.
LEMMA DeltaIs ==
  ASSUME Typed, NEW total \in 0..Price
  PROVE  RefundDelta(total) = IF total > debited THEN total - debited ELSE 0
<1>1. Price \in Nat /\ debited \in 0..Price
  BY Settled DEF Typed
<1>2. Min({total - debited, Price - debited}) = total - debited
  <2> DEFINE S == {total - debited, Price - debited}
  <2>1. total - debited \in S /\ \A y \in S : total - debited <= y
    BY <1>1
  <2>2. S \subseteq Int
    BY <1>1
  <2> HIDE DEF S
  <2>3. Min(S) = total - debited
    BY <2>1, <2>2, MinIs
  <2> QED BY <2>3 DEF S
<1>3. Max({0, total - debited}) = IF total > debited THEN total - debited ELSE 0
  <2> DEFINE S == {0, total - debited}
              m == IF total > debited THEN total - debited ELSE 0
  <2>1. m \in S /\ S \in SUBSET Int /\ \A y \in S : m >= y
    BY <1>1
  <2> HIDE DEF S, m
  <2>2. Max(S) = m
    BY <2>1, MaxIs
  <2> QED BY <2>2 DEF S, m
<1> QED BY <1>2, <1>3 DEF RefundDelta

LEMMA SoundSafe == Sound => TypeOK /\ PaymentsAddUp
<1> SUFFICES ASSUME Sound PROVE TypeOK /\ PaymentsAddUp
  OBVIOUS
<1>1. TypeOK
  BY TypedIsTyped DEF Sound
<1>2. refundKeys \union {0} \in SUBSET Int /\ debited \in Int
  BY Settled DEF Sound, Typed
<1>3. \A y \in refundKeys \union {0} : debited >= y
  BY <1>2 DEF Sound, Typed, Debited
<1>4. debited = Max(refundKeys \union {0})
  BY <1>2, <1>3, MaxIs DEF Sound, Debited
<1> QED BY <1>1, <1>4 DEF Sound, Credited, Debited, PaymentsAddUp

LEMMA InitSound == Init => Sound
<1> SUFFICES ASSUME Init PROVE Sound
  OBVIOUS
<1>1. sent \in Seq(StripeEvent) /\ Len(sent) = 0
  BY EmptySeq DEF Init
<1>2. Idle \in Request
  BY DEF Idle, Request, SubStates
<1>3. Typed
  BY <1>1, <1>2, Settled DEF Init, Typed, Truth, Standing, Wanted, SubStates
<1>4. Serving
  BY DEF Init, Serving, Idle
<1> QED BY <1>1, <1>3, <1>4, Settled DEF Sound, Truthful, Credited, Debited, Init

-----------------------------------------------------------------------------
(* Steps at Stripe                                                         *)

\* The log of events grows, and what was said stays said.
LEMMA Appended ==
  ASSUME Typed, NEW events \in Seq(StripeEvent), Emit(events)
  PROVE  /\ sent' \in Seq(StripeEvent) /\ Len(sent) \in Nat /\ Len(events) \in Nat
         /\ Len(sent') = Len(sent) + Len(events) /\ Len(sent') <= setting.events
         /\ \A i \in 1..Len(sent) : sent'[i] = sent[i]
         /\ \A i \in 1..Len(events) : sent'[Len(sent) + i] = events[i]
         /\ \A i \in 1..Len(sent') : i \in 1..Len(sent) \/ \E j \in 1..Len(events) :
                                       i = Len(sent) + j /\ sent'[i] = events[j]
<1>1. sent \in Seq(StripeEvent) /\ sent' = sent \o events /\ Len(sent) + Len(events) <= setting.events
  BY DEF Typed, Emit
<1>2. Len(sent) \in Nat /\ Len(events) \in Nat
  BY <1>1, LenProperties
<1>3. /\ sent' \in Seq(StripeEvent) /\ Len(sent') = Len(sent) + Len(events)
      /\ \A i \in 1..Len(sent) + Len(events) :
           sent'[i] = IF i <= Len(sent) THEN sent[i] ELSE events[i - Len(sent)]
  BY <1>1, ConcatProperties
<1>4. ASSUME NEW i \in 1..Len(events) PROVE sent'[Len(sent) + i] = events[i]
  <2>1. Len(sent) + i \in 1..Len(sent) + Len(events) /\ ~(Len(sent) + i <= Len(sent))
        /\ (Len(sent) + i) - Len(sent) = i
    BY <1>2
  <2> QED BY <1>3, <2>1
<1>5. ASSUME NEW i \in 1..Len(sent'), i \notin 1..Len(sent)
      PROVE  \E j \in 1..Len(events) : i = Len(sent) + j /\ sent'[i] = events[j]
  <2>1. i - Len(sent) \in 1..Len(events) /\ i = Len(sent) + (i - Len(sent))
    BY <1>2, <1>3, <1>5
  <2> QED BY <1>4, <2>1
<1>6. \A i \in 1..Len(sent) : sent'[i] = sent[i]
  BY <1>2, <1>3
<1>7. Len(sent') <= setting.events
  BY <1>1, <1>3
<1> QED BY <1>2, <1>3, <1>4, <1>5, <1>6, <1>7

\* A change at Stripe that takes nothing back and whose events are true.
LEMMA ToldTruly ==
  ASSUME Sound, NEW events \in Seq(StripeEvent), Emit(events),
         stripe' \in Truth, stripe.paid => stripe'.paid, stripe.refunded <= stripe'.refunded,
         \A j \in 1..Len(events) : /\ events[j].kind = "paid" => stripe'.paid
                                   /\ events[j].kind = "refund" => events[j].total \in 1..stripe'.refunded
  PROVE  Sound'
<1>1. Typed
  BY DEF Sound
<1>2. UNCHANGED <<setting, acked, seen, topup, refundKeys, debited, wallet, membership,
                  account, handler, errors>>
  BY DEF Emit, store, purse
<1>3. stripe.refunded \in Nat /\ stripe'.refunded \in Nat /\ debited \in Nat
  BY <1>1, Settled DEF Typed, Truth
<1>4. Typed'
  <2>1. 1..Len(sent) \subseteq 1..Len(sent')
    BY <1>1, Appended
  <2> QED BY <1>1, <1>2, <2>1, Appended DEF Typed
<1>5. Serving'
  BY <1>1, <1>2, Appended DEF Sound, Serving
<1>6. Truthful'
  <2> SUFFICES ASSUME NEW i \in 1..Len(sent')
               PROVE /\ sent'[i].kind = "paid" => stripe'.paid
                     /\ sent'[i].kind = "refund" => sent'[i].total \in 1..stripe'.refunded
    BY DEF Truthful
  <2>1. CASE i \in 1..Len(sent)
    <3>1. sent'[i] = sent[i] /\ sent[i] \in StripeEvent
      BY <1>1, <2>1, Appended, ElementOfSeq DEF Typed
    <3>2. /\ sent[i].kind = "paid" => stripe.paid
          /\ sent[i].kind = "refund" => sent[i].total \in 1..stripe.refunded
      BY <2>1 DEF Sound, Truthful
    <3> QED BY <1>3, <3>1, <3>2
  <2>2. CASE i \notin 1..Len(sent)
    <3>1. PICK j \in 1..Len(events) : sent'[i] = events[j]
      BY <1>1, <2>2, Appended
    <3> QED BY <3>1
  <2> QED BY <2>1, <2>2
<1>7. Credited' /\ Debited'
  BY <1>2, <1>3 DEF Sound, Credited, Debited
<1> QED BY <1>4, <1>5, <1>6, <1>7 DEF Sound

\* The lists of events that a change at Stripe emits.
LEMMA EventsTyped ==
  /\ \A k \in Kinds : Plain(k) \in StripeEvent /\ Plain(k).kind = k
  /\ \A s \in SubStates : /\ Event("subscription", 0, s) \in StripeEvent
                          /\ Event("subscription", 0, s).kind = "subscription"
  /\ \A n \in 0..Price : /\ Event("refund", n, "none") \in StripeEvent
                         /\ Event("refund", n, "none").kind = "refund"
                         /\ Event("refund", n, "none").total = n
BY Settled DEF Plain, Event, StripeEvent, Kinds, SubStates

\* A subscription's change says nothing of money.
LEMMA SubSound ==
  ASSUME Sound, NEW from, NEW to \in SubStates, NEW events \in Seq(StripeEvent),
         ChangeSub(from, to, events),
         \A j \in 1..Len(events) : events[j].kind \notin {"paid", "refund"}
  PROVE  Sound'
<1>1. stripe \in Truth /\ stripe' = [stripe EXCEPT !.sub = to] /\ Emit(events)
  BY DEF Sound, Typed, ChangeSub
<1>2. stripe' \in Truth /\ stripe'.paid = stripe.paid /\ stripe'.refunded = stripe.refunded
  BY <1>1 DEF Truth
<1>3. stripe.refunded <= stripe'.refunded
  BY <1>1, <1>2, Settled DEF Truth
<1> QED BY <1>1, <1>2, <1>3, ToldTruly

LEMMA StripeSound == Sound /\ StripeStep => Sound'
<1> SUFFICES ASSUME Sound, StripeStep PROVE Sound'
  OBVIOUS
<1>1. stripe \in Truth /\ Price \in Nat
  BY Settled DEF Sound, Typed
<1>2. CASE Pay
  <2> DEFINE es == <<Plain("paid")>>
  <2>1. es \in Seq(StripeEvent) /\ Len(es) = 1 /\ es[1].kind = "paid"
    BY EventsTyped DEF Kinds
  <2>2. stripe' \in Truth /\ stripe'.paid /\ stripe'.refunded = stripe.refunded
    BY <1>1, <1>2 DEF Pay, Truth
  <2>3. stripe.refunded <= stripe'.refunded
    BY <1>1, <2>2 DEF Truth
  <2>4. \A j \in 1..Len(es) : es[j].kind = "paid"
    BY <2>1
  <2>5. Emit(es)
    BY <1>2 DEF Pay
  <2> HIDE DEF es
  <2> QED BY <2>1, <2>2, <2>3, <2>4, <2>5, ToldTruly
<1>3. ASSUME NEW n \in 1..Price, RefundCharge(n) PROVE Sound'
  <2> DEFINE t == stripe.refunded + n
             es == <<Event("refund", t, "none")>>
  <2>1. t \in 1..Price
    BY <1>1, <1>3 DEF RefundCharge, Truth
  <2>2. es \in Seq(StripeEvent) /\ Len(es) = 1 /\ es[1].kind = "refund" /\ es[1].total = t
    BY <1>1, <2>1, EventsTyped
  <2>3. stripe' \in Truth /\ stripe'.paid = stripe.paid /\ stripe'.refunded = t
    <3>1. stripe' = [stripe EXCEPT !.refunded = t]
      BY <1>3 DEF RefundCharge
    <3> QED BY <1>1, <2>1, <3>1 DEF Truth
  <2>4. stripe.refunded <= stripe'.refunded
    BY <1>1, <2>3 DEF Truth
  <2>5. \A j \in 1..Len(es) : es[j].kind = "refund" /\ es[j].total \in 1..stripe'.refunded
    BY <1>1, <2>1, <2>2, <2>3
  <2>6. Emit(es)
    BY <1>3 DEF RefundCharge
  <2> HIDE DEF es
  <2> QED BY <2>2, <2>3, <2>4, <2>5, <2>6, ToldTruly
<1>4. CASE Subscribe
  <2> DEFINE es == <<Plain("checkout"), Event("subscription", 0, "active"), Plain("invoice")>>
  <2>1. es \in Seq(StripeEvent) /\ \A j \in 1..Len(es) : es[j].kind \notin {"paid", "refund"}
    BY EventsTyped DEF Kinds, SubStates
  <2>2. ChangeSub({"none"}, "active", es)
    BY <1>4 DEF Subscribe
  <2> HIDE DEF es
  <2> QED BY <2>1, <2>2, SubSound DEF SubStates
<1>5. CASE MissPayment
  <2> DEFINE es == <<Plain("failed"), Event("subscription", 0, "past_due")>>
  <2>1. es \in Seq(StripeEvent) /\ \A j \in 1..Len(es) : es[j].kind \notin {"paid", "refund"}
    BY EventsTyped DEF Kinds, SubStates
  <2>2. ChangeSub({"active"}, "past_due", es)
    BY <1>5 DEF MissPayment
  <2> HIDE DEF es
  <2> QED BY <2>1, <2>2, SubSound DEF SubStates
<1>6. CASE Recover
  <2> DEFINE es == <<Plain("invoice"), Event("subscription", 0, "active")>>
  <2>1. es \in Seq(StripeEvent) /\ \A j \in 1..Len(es) : es[j].kind \notin {"paid", "refund"}
    BY EventsTyped DEF Kinds, SubStates
  <2>2. ChangeSub({"past_due"}, "active", es)
    BY <1>6 DEF Recover
  <2> HIDE DEF es
  <2> QED BY <2>1, <2>2, SubSound DEF SubStates
<1>7. CASE Cancel
  <2> DEFINE es == <<Plain("deleted")>>
  <2>1. es \in Seq(StripeEvent) /\ \A j \in 1..Len(es) : es[j].kind \notin {"paid", "refund"}
    BY EventsTyped DEF Kinds
  <2>2. ChangeSub({"active", "past_due"}, "canceled", es)
    BY <1>7 DEF Cancel
  <2> HIDE DEF es
  <2> QED BY <2>1, <2>2, SubSound DEF SubStates
<1> QED BY <1>2, <1>3, <1>4, <1>5, <1>6, <1>7 DEF StripeStep

-----------------------------------------------------------------------------
(* Steps of a handler                                                      *)

\* One handler goes on to the request "r", the others stay.
LEMMA OneMoves ==
  ASSUME Typed, Serving, UNCHANGED sent, NEW h \in Handlers, NEW r \in Request,
         handler' = [handler EXCEPT ![h] = r],
         IF r.pc = "idle" THEN r.id = 0 ELSE r.id \in 1..Len(sent)
  PROVE  /\ handler' \in [Handlers -> Request] /\ Serving'
         /\ \A g \in Handlers : handler'[g] = IF g = h THEN r ELSE handler[g]
BY DEF Typed, Serving

\* A handler that is at work serves an event that was sent.
LEMMA AtWork ==
  ASSUME Typed, Serving, NEW h \in Handlers, handler[h].pc # "idle"
  PROVE  /\ handler[h] \in Request /\ handler[h].id \in 1..Len(sent)
         /\ sent[handler[h].id] \in StripeEvent
<1>1. handler[h] \in Request /\ handler[h].id \in 1..Len(sent)
  BY DEF Typed, Serving
<1>2. sent \in Seq(StripeEvent)
  BY DEF Typed
<1> QED BY <1>1, <1>2, ElementOfSeq

PCs == {"process", "fetched", "done", "failed"}

\* A handler goes on with the event it serves.
LEMMA GoesOn ==
  ASSUME Typed, Serving, UNCHANGED sent, NEW h \in Handlers, NEW pc \in PCs,
         handler[h].pc # "idle", Goto(h, pc)
  PROVE  /\ handler' \in [Handlers -> Request] /\ Serving'
         /\ handler' = [handler EXCEPT ![h] = [handler[h] EXCEPT !.pc = pc]]
<1> DEFINE r == [handler[h] EXCEPT !.pc = pc]
<1>1. handler[h] \in Request /\ handler[h].id \in 1..Len(sent)
  BY AtWork
<1>2. r \in Request /\ r.pc = pc /\ r.id = handler[h].id
  BY <1>1 DEF PCs, Request
<1>3. handler' = [handler EXCEPT ![h] = r]
  BY DEF Goto
<1>4. IF r.pc = "idle" THEN r.id = 0 ELSE r.id \in 1..Len(sent)
  BY <1>1, <1>2 DEF PCs
<1> HIDE DEF r
<1>5. handler' \in [Handlers -> Request] /\ Serving'
  BY <1>2, <1>3, <1>4, OneMoves
<1> QED BY <1>3, <1>5 DEF r

\* A handler is free again.
LEMMA Frees ==
  ASSUME Typed, Serving, UNCHANGED sent, NEW h \in Handlers,
         handler' = [handler EXCEPT ![h] = Idle]
  PROVE  handler' \in [Handlers -> Request] /\ Serving'
<1>1. Idle \in Request /\ Idle.pc = "idle" /\ Idle.id = 0
  BY DEF Idle, Request, SubStates
<1> QED BY <1>1, OneMoves

\* A step that leaves Stripe, its events and the money alone.
LEMMA MoneyAlone ==
  ASSUME Sound, UNCHANGED <<setting, stripe, sent, topup, refundKeys, debited>>,
         Serving', Typed'
  PROVE  Sound'
BY DEF Sound, Truthful, Credited, Debited

\* A fault is counted.
LEMMA FaultCounted ==
  ASSUME Typed, NEW fault, UseFault(fault)
  PROVE  errors' \in 0..setting.errors /\ fault \in setting.faults
BY Settled DEF Typed, UseFault

LEMMA ReceiveSound ==
  ASSUME Sound, NEW h \in Handlers, NEW id \in DOMAIN sent, Receive(h, id)
  PROVE  Sound'
<1>1. Typed /\ Serving
  BY DEF Sound
<1>2. id \in 1..Len(sent) /\ id \in Nat
  BY <1>1, LenProperties DEF Typed
<1>3. UNCHANGED <<setting, stripe, sent, topup, refundKeys, debited, wallet, membership, account, errors>>
  BY DEF Receive, store, purse
<1>4. CASE id \in seen
  <2>1. acked' = acked \union {id} /\ seen' = seen /\ handler' = handler
    BY <1>4 DEF Receive
  <2>2. Typed' /\ Serving'
    BY <1>1, <1>2, <1>3, <2>1 DEF Typed, Serving
  <2> QED BY <1>3, <2>2, MoneyAlone
<1>5. CASE id \notin seen
  <2> DEFINE r == [Idle EXCEPT !.pc = "process", !.id = id]
  <2>1. seen' = seen \union {id} /\ acked' = acked /\ handler' = [handler EXCEPT ![h] = r]
    BY <1>5 DEF Receive
  <2>2. r \in Request /\ r.pc = "process" /\ r.id = id
    BY <1>2 DEF Idle, Request, SubStates
  <2> HIDE DEF r
  <2>3. handler' \in [Handlers -> Request] /\ Serving'
    BY <1>1, <1>2, <1>3, <2>1, <2>2, OneMoves
  <2>4. Typed'
    BY <1>1, <1>2, <1>3, <2>1, <2>3 DEF Typed
  <2> QED BY <1>3, <2>3, <2>4, MoneyAlone
<1> QED BY <1>4, <1>5

\* A payment is credited when it has no row: it was made, since Stripe says so.
LEMMA TopupSound ==
  ASSUME Sound, NEW h \in Handlers, Topup(h)
  PROVE  Sound' /\ topup' = 1
<1>1. Typed /\ Serving /\ handler[h].pc = "process"
  BY DEF Sound, Topup, Handling
<1>2. handler[h].id \in 1..Len(sent) /\ sent[handler[h].id].kind = "paid"
  BY <1>1, AtWork DEF Topup, Handling
<1>3. stripe.paid
  BY <1>2 DEF Sound, Truthful
<1>4. UNCHANGED <<setting, stripe, sent, acked, seen, refundKeys, debited, membership, account, errors>>
  BY DEF Topup
<1>5. handler' \in [Handlers -> Request] /\ Serving'
  BY <1>1, <1>4, GoesOn DEF Topup, PCs
<1>6. topup' = 1 /\ wallet' \in Int
  BY <1>1, Settled DEF Sound, Typed, Credited, Topup
<1>7. Typed'
  BY <1>1, <1>4, <1>5, <1>6 DEF Typed
<1> QED BY <1>3, <1>4, <1>5, <1>6, <1>7 DEF Sound, Truthful, Credited, Debited

\* A refund raises what is debited to its event's total, when that is more.
LEMMA RefundSound ==
  ASSUME Sound, NEW h \in Handlers, Refund(h)
  PROVE  /\ Sound' /\ debited <= debited'
         /\ topup > 0 => sent[handler[h].id].total <= debited'
<1> DEFINE total == sent[handler[h].id].total
           delta == RefundDelta(total)
<1>1. Typed /\ Serving /\ handler[h].pc = "process"
  BY DEF Sound, Refund, Handling
<1>2. handler[h].id \in 1..Len(sent) /\ sent[handler[h].id].kind = "refund" /\ total \in 0..Price
  BY <1>1, AtWork DEF Refund, Handling, StripeEvent
<1>3. total \in 1..stripe.refunded /\ stripe.refunded \in 0..Price
  BY <1>1, <1>2 DEF Sound, Truthful, Typed, Truth
<1>4. delta = IF total > debited THEN total - debited ELSE 0
  BY <1>1, <1>2, DeltaIs
<1>5. UNCHANGED <<setting, stripe, sent, acked, seen, topup, membership, errors>>
  BY DEF Refund
<1>6. handler' \in [Handlers -> Request] /\ Serving'
  BY <1>1, <1>5, GoesOn DEF Refund, PCs
<1>7. debited \in 0..Price /\ Price \in Nat /\ refundKeys \subseteq 1..Price
  BY <1>1, Settled DEF Typed
<1>8. CASE topup = 0 \/ total \in refundKeys \/ delta = 0
  <2>1. UNCHANGED <<refundKeys, debited, wallet, account>>
    BY <1>8 DEF Refund
  <2>2. Typed'
    BY <1>1, <1>5, <1>6, <2>1 DEF Typed
  <2>3. topup > 0 => total <= debited
    <3>1. total \in refundKeys => total <= debited
      BY DEF Sound, Debited
    <3>2. delta = 0 => total <= debited
      BY <1>2, <1>4, <1>7
    <3>3. topup = 0 => ~(topup > 0)
      OBVIOUS
    <3> QED BY <1>8, <3>1, <3>2, <3>3
  <2>4. Sound'
    BY <1>5, <1>6, <2>1, <2>2, MoneyAlone
  <2> QED BY <1>7, <2>1, <2>3, <2>4
<1>9. CASE ~(topup = 0 \/ total \in refundKeys \/ delta = 0)
  <2>1. /\ refundKeys' = refundKeys \union {total}
        /\ debited' = debited + delta
        /\ wallet' = wallet - delta
        /\ account' = IF wallet - delta < 0
                      THEN [account EXCEPT !.status = "suspended"] ELSE account
    BY <1>9 DEF Refund
  <2>2. total > debited /\ debited' = total /\ delta \in Nat
    BY <1>2, <1>4, <1>7, <1>9, <2>1
  <2>3. total \in 1..Price
    BY <1>3, <1>7
  <2>4. account' \in Standing /\ wallet' \in Int
    BY <1>1, <2>1, <2>2 DEF Typed, Standing
  <2> HIDE DEF total, delta
  <2>5. Typed'
    BY <1>1, <1>5, <1>6, <2>1, <2>2, <2>3, <2>4, <1>7 DEF Typed
  <2>6. Debited'
    <3>1. \A k \in refundKeys : k <= debited /\ k \in Nat
      BY <1>7 DEF Sound, Debited
    <3>2. \A k \in refundKeys' : k <= debited'
      BY <1>7, <2>1, <2>2, <2>3, <3>1
    <3> QED BY <1>3, <1>5, <2>1, <2>2, <3>2 DEF Debited
  <2>7. Truthful' /\ Credited'
    BY <1>5 DEF Sound, Truthful, Credited
  <2> QED BY <1>6, <1>7, <2>2, <2>3, <2>5, <2>6, <2>7 DEF Sound, total
<1> QED BY <1>8, <1>9

\* The other steps of a handler leave the money alone.
LEMMA FetchSound ==
  ASSUME Sound, NEW h \in Handlers, Fetch(h)
  PROVE  Sound'
<1> DEFINE r == [handler[h] EXCEPT !.pc = "fetched", !.view = stripe.sub]
<1>1. Typed /\ Serving /\ handler[h].pc = "process"
  BY DEF Sound, Fetch, Handling
<1>2. handler[h] \in Request /\ handler[h].id \in 1..Len(sent) /\ stripe.sub \in SubStates
  BY <1>1, AtWork DEF Typed, Truth
<1>3. r \in Request /\ r.pc = "fetched" /\ r.id = handler[h].id
  BY <1>2 DEF Request
<1>4. handler' = [handler EXCEPT ![h] = r]
  BY DEF Fetch
<1>5. UNCHANGED <<setting, stripe, sent, acked, seen, topup, refundKeys, debited, wallet,
                  membership, account, errors>>
  BY DEF Fetch, store, purse
<1> HIDE DEF r
<1>6. handler' \in [Handlers -> Request] /\ Serving'
  BY <1>1, <1>2, <1>3, <1>4, <1>5, OneMoves
<1>7. Typed'
  BY <1>1, <1>5, <1>6 DEF Typed
<1> QED BY <1>5, <1>6, <1>7, MoneyAlone

LEMMA ApplySound ==
  ASSUME Sound, NEW h \in Handlers, Apply(h)
  PROVE  Sound'
<1>1. Typed /\ Serving /\ handler[h].pc \in {"process", "fetched"}
  BY DEF Sound, Apply, Handling
<1>2. handler[h] \in Request /\ sent[handler[h].id] \in StripeEvent
  BY <1>1, AtWork
<1>3. Reported(h) \in SubStates
  BY <1>2 DEF Reported, Request, StripeEvent, SubStates
<1>4. UNCHANGED <<setting, stripe, sent, acked, seen, topup, refundKeys, debited, wallet, errors>>
  BY DEF Apply, purse
<1>5. membership' \in Wanted /\ account' \in Standing
  BY <1>3 DEF Apply, Wanted, Standing, PlanFor, StatusFor
<1>6. handler' \in [Handlers -> Request] /\ Serving'
  BY <1>1, <1>4, GoesOn DEF Apply, PCs
<1>7. Typed'
  BY <1>1, <1>4, <1>5, <1>6 DEF Typed
<1> QED BY <1>4, <1>6, <1>7, MoneyAlone

LEMMA EndSound ==
  ASSUME Sound, NEW h \in Handlers, End(h)
  PROVE  Sound'
<1>1. Typed /\ Serving /\ handler[h].pc = "process"
  BY DEF Sound, End, Handling
<1>2. UNCHANGED <<setting, stripe, sent, acked, seen, topup, refundKeys, debited, wallet, errors>>
  BY DEF End, purse
<1>3. membership' \in Wanted /\ account' \in Standing
  BY <1>1 DEF End, Typed, Wanted, Standing
<1>4. handler' \in [Handlers -> Request] /\ Serving'
  BY <1>1, <1>2, GoesOn DEF End, PCs
<1>5. Typed'
  BY <1>1, <1>2, <1>3, <1>4 DEF Typed
<1> QED BY <1>2, <1>4, <1>5, MoneyAlone

\* A handler that is done, gives up or dies.
LEMMA LeaveSound ==
  ASSUME Sound, NEW h \in Handlers, Reply(h) \/ Forget(h) \/ LoseReply(h) \/ Crash(h)
  PROVE  Sound'
<1>1. Typed /\ Serving /\ handler[h].pc # "idle"
  BY DEF Sound, Reply, Forget, LoseReply, Crash
<1>2. handler[h].id \in 1..Len(sent)
  BY <1>1, AtWork
<1>3. UNCHANGED <<setting, stripe, sent, topup, refundKeys, debited, wallet, membership, account>>
      /\ handler' = [handler EXCEPT ![h] = Idle]
  BY DEF Reply, Forget, LoseReply, Crash, store, purse
<1>4. handler' \in [Handlers -> Request] /\ Serving'
  BY <1>1, <1>3, Frees
<1>5. acked' \subseteq 1..Len(sent) /\ seen' \subseteq 1..Len(sent)
  BY <1>1, <1>2 DEF Typed, Reply, Forget, LoseReply, Crash
<1>6. errors' \in 0..setting.errors
  BY <1>1, FaultCounted DEF Typed, Reply, Forget, LoseReply, Crash
<1>7. Typed'
  BY <1>1, <1>3, <1>4, <1>5, <1>6 DEF Typed
<1> QED BY <1>3, <1>4, <1>7, MoneyAlone

LEMMA FailSound ==
  ASSUME Sound, NEW h \in Handlers, Fail(h) \/ HangUp(h)
  PROVE  Sound'
<1>1. Typed /\ Serving /\ handler[h].pc # "idle"
  BY DEF Sound, Fail, HangUp
<1>2. UNCHANGED <<setting, stripe, sent, acked, seen, topup, refundKeys, debited, wallet,
                  membership, account>>
  BY DEF Fail, HangUp, store, purse
<1>3. handler' \in [Handlers -> Request] /\ Serving'
  <2>1. CASE Fail(h)
    BY <1>1, <1>2, <2>1, GoesOn DEF Fail, PCs
  <2>2. CASE HangUp(h)
    <3> DEFINE r == [handler[h] EXCEPT !.pc = "failed", !.cancelled = TRUE]
    <3>1. handler[h] \in Request /\ handler[h].id \in 1..Len(sent)
      BY <1>1, AtWork
    <3>2. r \in Request /\ r.pc = "failed" /\ r.id = handler[h].id
      BY <3>1 DEF Request
    <3>3. handler' = [handler EXCEPT ![h] = r]
      BY <2>2 DEF HangUp
    <3> HIDE DEF r
    <3> QED BY <1>1, <1>2, <3>1, <3>2, <3>3, OneMoves
  <2> QED BY <2>1, <2>2
<1>4. errors' \in 0..setting.errors
  BY <1>1, FaultCounted DEF Fail, HangUp
<1>5. Typed'
  BY <1>1, <1>2, <1>3, <1>4 DEF Typed
<1> QED BY <1>2, <1>3, <1>5, MoneyAlone

LEMMA NextSound == Sound /\ [Next]_vars => Sound'
<1> SUFFICES ASSUME Sound, [Next]_vars PROVE Sound'
  OBVIOUS
<1>1. CASE StripeStep
  BY <1>1, StripeSound
<1>2. CASE Spend
  <2>1. UNCHANGED <<setting, stripe, sent, topup, refundKeys, debited>> /\ Typed' /\ Serving'
    BY <1>2 DEF Spend, Sound, Typed, Serving
  <2> QED BY <2>1, MoneyAlone
<1>3. ASSUME NEW h \in Handlers,
             (\E id \in DOMAIN sent : Receive(h, id)) \/ Serve(h) \/ LoseReply(h) \/ Fail(h)
               \/ HangUp(h) \/ Crash(h)
      PROVE  Sound'
  BY <1>3, ReceiveSound, TopupSound, RefundSound, FetchSound, ApplySound, EndSound, LeaveSound,
     FailSound DEF Serve
<1>4. CASE UNCHANGED vars
  BY <1>4 DEF vars, Sound, Typed, Serving, Truthful, Credited, Debited
<1> QED BY <1>1, <1>2, <1>3, <1>4 DEF Next

LEMMA SoundAlways == Safe => []Sound
<1> QED BY InitSound, NextSound, PTL DEF Safe

-----------------------------------------------------------------------------
(* What is acknowledged is recorded                                        *)

\* The event "e" has left its mark on "t" topup rows and "d" refunded.
Marked(e, t, d) ==
  /\ e.kind = "paid" => t > 0
  /\ e.kind = "refund" => d >= e.total

Recorded(i) == Marked(sent[i], topup, debited)

\* In a calm world: every refund event has the payment's before it; what is
\* acknowledged, what was seen and is in no one's hands, and what a handler
\* has done is recorded; and a handler at work has an event all of whose
\* predecessors are acknowledged, and can still take its id back.
Chronicle ==
  /\ \A i \in 1..Len(sent) : sent[i].kind = "refund" => \E j \in 1..(i - 1) : sent[j].kind = "paid"
  /\ stripe.paid => \E j \in 1..Len(sent) : sent[j].kind = "paid"
Kept ==
  /\ \A i \in acked : Recorded(i)
  /\ \A i \in seen : (\A g \in Handlers : handler[g].id # i) => Recorded(i)
InHand == \A g \in Handlers :
  /\ handler[g].pc = "done" => Recorded(handler[g].id)
  /\ handler[g].pc # "idle" => ~handler[g].cancelled /\ 1..(handler[g].id - 1) \subseteq acked
Calm == setting.calm => Chronicle /\ Kept /\ InHand

\* Nothing recorded is ever struck out.
LEMMA RecordedKept ==
  ASSUME Typed, NEW i \in 1..Len(sent), Recorded(i),
         topup \in Nat, topup' \in Nat, topup <= topup',
         debited \in Nat, debited' \in Nat, debited <= debited'
  PROVE  Marked(sent[i], topup', debited')
<1>1. sent[i] \in StripeEvent
  BY ElementOfSeq DEF Typed
<1>2. sent[i].total \in Nat
  BY <1>1, Settled DEF StripeEvent
<1> QED BY <1>2 DEF Recorded, Marked

\* A step of one handler keeps the world calm when it acknowledges, leaves
\* seen and calls done only what is recorded.
LEMMA CalmMove ==
  ASSUME Sound, Sound', Calm, setting.calm, UNCHANGED <<setting, stripe, sent>>,
         topup <= topup', debited <= debited', acked \subseteq acked',
         NEW h \in Handlers, NEW r, handler' = [handler EXCEPT ![h] = r],
         \A i \in acked' : i \in acked \/ Marked(sent[i], topup', debited'),
         \A i \in seen' : \/ i \in seen /\ i # handler[h].id
                          \/ i = r.id
                          \/ Marked(sent[i], topup', debited'),
         r.pc = "done" => Marked(sent[r.id], topup', debited'),
         r.pc # "idle" => ~r.cancelled /\ 1..(r.id - 1) \subseteq acked
  PROVE  Calm'
<1>1. Chronicle /\ Kept /\ InHand
  BY DEF Calm
<1>2. Typed /\ Serving /\ topup \in Nat /\ topup' \in Nat /\ debited \in Nat /\ debited' \in Nat
  BY Settled DEF Sound, Typed
<1>3. \A g \in Handlers : handler'[g] = IF g = h THEN r ELSE handler[g]
  BY <1>2 DEF Typed
<1>4. \A i \in 1..Len(sent) : Recorded(i) => Marked(sent[i], topup', debited')
  BY <1>2, RecordedKept
<1>5. Chronicle'
  BY <1>1 DEF Chronicle
<1>6. \A i \in acked' : Marked(sent[i], topup', debited')
  BY <1>1, <1>2, <1>4 DEF Kept, Typed
<1>7. ASSUME NEW i \in seen', \A g \in Handlers : handler'[g].id # i PROVE Marked(sent[i], topup', debited')
  <2>1. i # r.id /\ \A g \in Handlers : g # h => handler[g].id # i
    BY <1>3, <1>7
  <2>2. CASE i \in seen /\ i # handler[h].id
    <3>1. \A g \in Handlers : handler[g].id # i
      BY <2>1, <2>2
    <3> QED BY <1>1, <1>2, <1>4, <2>2, <3>1 DEF Kept, Typed
  <2> QED BY <2>1, <2>2
<1>8. ASSUME NEW g \in Handlers
      PROVE  /\ handler'[g].pc = "done" => Marked(sent[handler'[g].id], topup', debited')
             /\ handler'[g].pc # "idle" =>
                  ~handler'[g].cancelled /\ 1..(handler'[g].id - 1) \subseteq acked'
  <2>1. CASE g = h
    BY <1>3, <2>1
  <2>2. CASE g # h
    <3>1. handler'[g] = handler[g]
      BY <1>3, <2>2
    <3>2. handler[g].pc = "done" => handler[g].id \in 1..Len(sent)
      BY <1>2, AtWork
    <3>3. handler[g].pc = "done" => Marked(sent[handler[g].id], topup', debited')
      BY <1>1, <1>4, <3>2 DEF InHand
    <3>4. handler[g].pc # "idle" =>
            ~handler[g].cancelled /\ 1..(handler[g].id - 1) \subseteq acked'
      BY <1>1 DEF InHand
    <3> QED BY <3>1, <3>3, <3>4
  <2> QED BY <2>1, <2>2
<1>9. \A i : Recorded(i)' = Marked(sent[i], topup', debited')
  BY DEF Recorded
<1>10. Kept' /\ InHand'
  BY <1>6, <1>7, <1>8, <1>9 DEF Kept, InHand, Recorded
<1> QED BY <1>5, <1>10 DEF Calm

\* What a calm world excludes.
LEMMA Undisturbed ==
  ASSUME Sound, setting.calm
  PROVE  setting.ordered /\ setting.faults \subseteq {"error", "lost_reply"}
BY WebhookAssumption DEF Sound, Typed

LEMMA CalmReceive ==
  ASSUME Sound, Sound', Calm, setting.calm, NEW h \in Handlers, NEW id \in DOMAIN sent, Receive(h, id)
  PROVE  Calm'
<1>1. Typed /\ Serving /\ Kept /\ InHand
  BY DEF Sound, Calm
<1>2. UNCHANGED <<setting, stripe, sent, topup, debited>> /\ topup \in Nat /\ debited \in Nat
  BY <1>1, Settled DEF Receive, store, purse, Typed
<1>3. 1..(id - 1) \subseteq acked /\ \A g \in Handlers : handler[g].id # id
  BY Undisturbed DEF Receive, Deliverable
<1>4. topup <= topup' /\ debited <= debited'
  BY <1>2
<1>5. CASE id \in seen
  <2>1. acked' = acked \union {id} /\ seen' = seen /\ handler' = handler
    BY <1>5 DEF Receive
  <2>2. Recorded(id)
    BY <1>1, <1>3, <1>5 DEF Kept
  <2> QED BY <1>2, <2>1, <2>2 DEF Calm, Chronicle, Kept, InHand, Recorded, Marked
<1>6. CASE id \notin seen
  <2> DEFINE r == [Idle EXCEPT !.pc = "process", !.id = id]
  <2>1. seen' = seen \union {id} /\ acked' = acked /\ handler' = [handler EXCEPT ![h] = r]
    BY <1>6 DEF Receive
  <2>2. r.pc = "process" /\ r.id = id /\ ~r.cancelled
    BY DEF Idle
  <2>3. handler[h].id = 0 /\ \A i \in seen : i # 0
    BY <1>1 DEF Receive, Serving, Typed
  <2> HIDE DEF r
  <2> QED BY <1>2, <1>3, <1>4, <2>1, <2>2, <2>3, CalmMove
<1> QED BY <1>5, <1>6

\* Going on with the same event, done only when it is recorded.
LEMMA CalmGoesOn ==
  ASSUME Sound, Sound', Calm, setting.calm, UNCHANGED <<setting, stripe, sent, acked, seen>>,
         topup <= topup', debited <= debited',
         NEW h \in Handlers, handler[h].pc # "idle", NEW r \in Request,
         handler' = [handler EXCEPT ![h] = r], r.id = handler[h].id, ~r.cancelled,
         r.pc = "done" => Marked(sent[handler[h].id], topup', debited')
  PROVE  Calm'
<1>1. 1..(r.id - 1) \subseteq acked
  BY DEF Calm, InHand
<1> QED BY <1>1, CalmMove

\* What a handler's step does to an event of its kind.
LEMMA CalmDone ==
  ASSUME Sound, Sound', Calm, setting.calm, UNCHANGED <<setting, stripe, sent, acked, seen>>,
         topup <= topup', debited <= debited',
         NEW h \in Handlers, handler[h].pc # "idle", NEW pc \in PCs, Goto(h, pc),
         pc = "done" => Marked(sent[handler[h].id], topup', debited')
  PROVE  Calm'
<1> DEFINE r == [handler[h] EXCEPT !.pc = pc]
<1>1. handler[h] \in Request
  BY AtWork DEF Sound
<1>2. r \in Request /\ r.pc = pc /\ r.id = handler[h].id /\ r.cancelled = handler[h].cancelled
  BY <1>1 DEF PCs, Request
<1>3. ~r.cancelled
  BY <1>2 DEF Calm, InHand
<1>4. handler' = [handler EXCEPT ![h] = r]
  BY DEF Goto
<1> HIDE DEF r
<1> QED BY <1>2, <1>3, <1>4, CalmGoesOn

LEMMA CalmServe ==
  ASSUME Sound, Sound', Calm, setting.calm, NEW h \in Handlers,
         Topup(h) \/ Refund(h) \/ Fetch(h) \/ Apply(h) \/ End(h) \/ Fail(h)
  PROVE  Calm'
<1>1. Typed /\ Serving /\ Chronicle /\ Kept /\ InHand /\ handler[h].pc # "idle"
  BY DEF Sound, Calm, Topup, Refund, Fetch, Apply, End, Fail, Handling
<1>2. UNCHANGED <<setting, stripe, sent, acked, seen>>
  BY DEF Topup, Refund, Fetch, Apply, End, Fail
<1>3. topup \in Nat /\ debited \in Nat /\ Price \in Nat
  BY <1>1, Settled DEF Typed
<1>4. handler[h] \in Request /\ handler[h].id \in 1..Len(sent) /\ ~handler[h].cancelled
      /\ 1..(handler[h].id - 1) \subseteq acked
  BY <1>1, AtWork DEF InHand
<1>5. CASE Topup(h)
  <2>1. sent[handler[h].id].kind = "paid" /\ topup' = 1 /\ topup <= 1
    BY <1>5, TopupSound DEF Topup, Handling, Sound, Credited
  <2>2. debited <= debited'
    BY <1>3, <1>5 DEF Topup
  <2>3. Marked(sent[handler[h].id], topup', debited')
    BY <2>1 DEF Marked
  <2>4. Goto(h, "done") /\ topup <= topup'
    BY <1>5, <2>1 DEF Topup
  <2> QED BY <1>1, <1>2, <2>2, <2>3, <2>4, CalmDone DEF PCs
<1>6. CASE Refund(h)
  <2>1. sent[handler[h].id].kind = "refund" /\ debited <= debited' /\ topup' = topup
        /\ (topup > 0 => sent[handler[h].id].total <= debited')
    BY <1>6, RefundSound DEF Refund, Handling
  <2>2. PICK j \in 1..(handler[h].id - 1) : sent[j].kind = "paid"
    BY <1>1, <1>4, <2>1 DEF Chronicle
  <2>3. topup > 0
    BY <1>1, <1>4, <2>2 DEF Kept, Recorded, Marked
  <2>4. sent[handler[h].id].total \in Nat /\ debited' \in Nat
    <3>1. sent[handler[h].id] \in StripeEvent
      BY <1>1, AtWork
    <3>2. debited' \in 0..Price'
      BY DEF Sound, Typed
    <3> QED BY <1>3, <3>1, <3>2 DEF StripeEvent
  <2>5. Marked(sent[handler[h].id], topup', debited')
    BY <2>1, <2>3, <2>4 DEF Marked
  <2>6. Goto(h, "done") /\ topup <= topup'
    BY <1>3, <1>6, <2>1 DEF Refund
  <2> QED BY <1>1, <1>2, <2>1, <2>5, <2>6, CalmDone DEF PCs
<1>7. CASE Fetch(h)
  <2> DEFINE r == [handler[h] EXCEPT !.pc = "fetched", !.view = stripe.sub]
  <2>1. stripe.sub \in SubStates
    BY <1>1 DEF Typed, Truth
  <2>2. r \in Request /\ r.pc = "fetched" /\ r.id = handler[h].id /\ ~r.cancelled
    BY <1>4, <2>1 DEF Request
  <2>3. handler' = [handler EXCEPT ![h] = r]
    BY <1>7 DEF Fetch
  <2>4. topup <= topup' /\ debited <= debited'
    BY <1>3, <1>7 DEF Fetch, store, purse
  <2> HIDE DEF r
  <2> QED BY <1>1, <1>2, <2>2, <2>3, <2>4, CalmGoesOn
<1>8. CASE Apply(h) \/ End(h)
  <2>1. sent[handler[h].id].kind \notin {"paid", "refund"}
    BY <1>8 DEF Apply, End, Handling
  <2>2. topup <= topup' /\ debited <= debited'
    BY <1>3, <1>8 DEF Apply, End, purse
  <2>3. Marked(sent[handler[h].id], topup', debited')
    BY <2>1 DEF Marked
  <2>4. Goto(h, "done")
    BY <1>8 DEF Apply, End
  <2> QED BY <1>1, <1>2, <2>2, <2>3, <2>4, CalmDone DEF PCs
<1>9. CASE Fail(h)
  <2>1. topup <= topup' /\ debited <= debited' /\ Goto(h, "failed")
    BY <1>3, <1>9 DEF Fail, store, purse
  <2> QED BY <1>1, <1>2, <2>1, CalmDone DEF PCs
<1> QED BY <1>5, <1>6, <1>7, <1>8, <1>9

\* A handler that leaves its event acknowledges it when it is recorded, and
\* takes its id back when it is not.
LEMMA CalmLeave ==
  ASSUME Sound, Sound', Calm, setting.calm, NEW h \in Handlers,
         Reply(h) \/ Forget(h) \/ LoseReply(h)
  PROVE  Calm'
<1>1. Typed /\ InHand /\ handler[h].pc # "idle"
  BY DEF Sound, Calm, Reply, Forget, LoseReply
<1>2. UNCHANGED <<setting, stripe, sent, topup, debited>> /\ topup \in Nat /\ debited \in Nat
  BY <1>1, Settled DEF Reply, Forget, LoseReply, store, purse, Typed
<1>3. topup <= topup' /\ debited <= debited'
  BY <1>2
<1>4. handler' = [handler EXCEPT ![h] = Idle] /\ Idle.pc = "idle"
  BY DEF Reply, Forget, LoseReply, Idle
<1>5. handler[h].pc = "done" => Marked(sent[handler[h].id], topup', debited')
  BY <1>1, <1>2 DEF InHand, Recorded
<1>6. \A i : Recorded(i) => Marked(sent[i], topup', debited')
  BY <1>2 DEF Recorded
<1>7. acked \subseteq acked' /\ \A i \in acked' : i \in acked \/ Marked(sent[i], topup', debited')
  BY <1>5 DEF Reply, Forget, LoseReply
<1>8. \A i \in seen' : (i \in seen /\ i # handler[h].id) \/ Marked(sent[i], topup', debited')
  BY <1>1, <1>5 DEF Reply, Forget, LoseReply, InHand
<1> HIDE DEF Idle
<1> QED BY <1>2, <1>3, <1>4, <1>7, <1>8, CalmMove

\* An event that Stripe adds to the log has what it refers to before it.
LEMMA CalmEmit ==
  ASSUME Sound, Calm, setting.calm, NEW events \in Seq(StripeEvent), Emit(events),
         \/ /\ Len(events) = 1 /\ events[1].kind = "paid"
         \/ /\ stripe'.paid = stripe.paid
            /\ \A j \in 1..Len(events) : events[j].kind = "refund" => stripe.paid
  PROVE  Calm'
<1>1. Typed /\ Serving /\ Chronicle /\ Kept /\ InHand
  BY DEF Sound, Calm
<1>2. UNCHANGED <<acked, seen, topup, debited, handler>>
  BY DEF Emit, store, purse
<1>3. \A i \in 1..Len(sent) : i \in 1..Len(sent') /\ sent'[i] = sent[i]
  BY <1>1, Appended
<1>4. \A i \in 1..Len(sent) : Recorded(i) => Recorded(i)'
  BY <1>2, <1>3 DEF Recorded
<1>5. Kept'
  BY <1>1, <1>2, <1>4 DEF Kept, Typed
<1>6. InHand'
  <2>1. \A g \in Handlers : handler[g].pc = "done" => handler[g].id \in 1..Len(sent)
    BY <1>1 DEF Serving
  <2>2. \A g \in Handlers : handler'[g].pc = "done" => Marked(sent'[handler'[g].id], topup', debited')
    BY <1>1, <1>2, <1>3, <2>1 DEF InHand, Recorded
  <2> QED BY <1>1, <1>2, <2>2 DEF InHand, Recorded
<1>7. ASSUME NEW i \in 1..Len(sent'), sent'[i].kind = "refund"
      PROVE  \E j \in 1..(i - 1) : sent'[j].kind = "paid"
  <2>1. CASE i \in 1..Len(sent)
    <3>1. PICK j \in 1..(i - 1) : sent[j].kind = "paid"
      BY <1>1, <1>3, <1>7, <2>1 DEF Chronicle
    <3>2. j \in 1..Len(sent)
      BY <1>1, <2>1, Appended
    <3> QED BY <1>3, <3>1, <3>2
  <2>2. CASE i \notin 1..Len(sent)
    <3>1. PICK k \in 1..Len(events) : i = Len(sent) + k /\ sent'[i] = events[k]
      BY <1>1, <2>2, Appended
    <3>2. stripe.paid
      BY <1>7, <3>1
    <3>3. PICK j \in 1..Len(sent) : sent[j].kind = "paid"
      BY <1>1, <3>2 DEF Chronicle
    <3>4. j \in 1..(i - 1)
      BY <1>1, <3>1, Appended
    <3> QED BY <1>3, <3>3, <3>4
  <2> QED BY <2>1, <2>2
<1>8. stripe'.paid => \E j \in 1..Len(sent') : sent'[j].kind = "paid"
  <2>1. CASE stripe'.paid = stripe.paid
    BY <1>1, <1>3, <2>1 DEF Chronicle
  <2>2. CASE Len(events) = 1 /\ events[1].kind = "paid"
    <3>1. /\ Len(sent) \in Nat /\ Len(sent') = Len(sent) + Len(events)
          /\ \A j \in 1..Len(events) : sent'[Len(sent) + j] = events[j]
      BY <1>1, Appended
    <3>2. 1 \in 1..Len(events) /\ Len(sent) + 1 \in 1..Len(sent')
      BY <2>2, <3>1
    <3> QED BY <2>2, <3>1, <3>2
  <2> QED BY <2>1, <2>2
<1> QED BY <1>5, <1>6, <1>7, <1>8 DEF Calm, Chronicle

LEMMA CalmSub ==
  ASSUME Sound, Calm, setting.calm, NEW from, NEW to, NEW events \in Seq(StripeEvent),
         ChangeSub(from, to, events), \A j \in 1..Len(events) : events[j].kind \notin {"paid", "refund"}
  PROVE  Calm'
<1>1. stripe'.paid = stripe.paid /\ Emit(events)
  BY DEF ChangeSub, Sound, Typed, Truth
<1> QED BY <1>1, CalmEmit

LEMMA CalmStripe == Sound /\ Calm /\ setting.calm /\ StripeStep => Calm'
<1> SUFFICES ASSUME Sound, Calm, setting.calm, StripeStep PROVE Calm'
  OBVIOUS
<1>1. stripe \in Truth /\ Price \in Nat
  BY Settled DEF Sound, Typed
<1>2. CASE Pay
  <2> DEFINE es == <<Plain("paid")>>
  <2>1. es \in Seq(StripeEvent) /\ Len(es) = 1 /\ es[1].kind = "paid"
    BY EventsTyped DEF Kinds
  <2>2. Emit(es)
    BY <1>2 DEF Pay
  <2> HIDE DEF es
  <2> QED BY <2>1, <2>2, CalmEmit
<1>3. ASSUME NEW n \in 1..Price, RefundCharge(n) PROVE Calm'
  <2> DEFINE es == <<Event("refund", stripe.refunded + n, "none")>>
  <2>1. stripe.refunded + n \in 0..Price /\ stripe.paid
    BY <1>1, <1>3 DEF RefundCharge, Truth
  <2>2. es \in Seq(StripeEvent)
    BY <2>1, EventsTyped
  <2>3. stripe'.paid = stripe.paid /\ Emit(es)
    BY <1>1, <1>3 DEF RefundCharge, Truth
  <2> HIDE DEF es
  <2> QED BY <2>1, <2>2, <2>3, CalmEmit
<1>4. CASE Subscribe
  <2> DEFINE es == <<Plain("checkout"), Event("subscription", 0, "active"), Plain("invoice")>>
  <2>1. es \in Seq(StripeEvent) /\ \A j \in 1..Len(es) : es[j].kind \notin {"paid", "refund"}
    BY EventsTyped DEF Kinds, SubStates
  <2>2. ChangeSub({"none"}, "active", es)
    BY <1>4 DEF Subscribe
  <2> HIDE DEF es
  <2> QED BY <2>1, <2>2, CalmSub
<1>5. CASE MissPayment
  <2> DEFINE es == <<Plain("failed"), Event("subscription", 0, "past_due")>>
  <2>1. es \in Seq(StripeEvent) /\ \A j \in 1..Len(es) : es[j].kind \notin {"paid", "refund"}
    BY EventsTyped DEF Kinds, SubStates
  <2>2. ChangeSub({"active"}, "past_due", es)
    BY <1>5 DEF MissPayment
  <2> HIDE DEF es
  <2> QED BY <2>1, <2>2, CalmSub
<1>6. CASE Recover
  <2> DEFINE es == <<Plain("invoice"), Event("subscription", 0, "active")>>
  <2>1. es \in Seq(StripeEvent) /\ \A j \in 1..Len(es) : es[j].kind \notin {"paid", "refund"}
    BY EventsTyped DEF Kinds, SubStates
  <2>2. ChangeSub({"past_due"}, "active", es)
    BY <1>6 DEF Recover
  <2> HIDE DEF es
  <2> QED BY <2>1, <2>2, CalmSub
<1>7. CASE Cancel
  <2> DEFINE es == <<Plain("deleted")>>
  <2>1. es \in Seq(StripeEvent) /\ \A j \in 1..Len(es) : es[j].kind \notin {"paid", "refund"}
    BY EventsTyped DEF Kinds
  <2>2. ChangeSub({"active", "past_due"}, "canceled", es)
    BY <1>7 DEF Cancel
  <2> HIDE DEF es
  <2> QED BY <2>1, <2>2, CalmSub
<1> QED BY <1>2, <1>3, <1>4, <1>5, <1>6, <1>7 DEF StripeStep

LEMMA CalmNext == Sound /\ Sound' /\ Calm /\ [Next]_vars => Calm'
<1> SUFFICES ASSUME Sound, Sound', Calm, [Next]_vars PROVE Calm'
  OBVIOUS
<1>1. setting' = setting
  BY DEF Next, vars, StripeStep, Pay, RefundCharge, Subscribe, MissPayment, Recover, Cancel,
     ChangeSub, Emit, Spend, Receive, Serve, Topup, Refund, Fetch, Apply, End, Reply, Forget,
     LoseReply, Fail, HangUp, Crash
<1>2. CASE ~setting.calm
  BY <1>1, <1>2 DEF Calm
<1>3. CASE setting.calm
  <2>1. CASE StripeStep
    BY <1>3, <2>1, CalmStripe
  <2>2. CASE Spend
    BY <1>3, <2>2 DEF Spend, Calm, Chronicle, Kept, InHand, Recorded
  <2>3. ASSUME NEW h \in Handlers, HangUp(h) \/ Crash(h) PROVE FALSE
    BY <1>3, <2>3, Undisturbed, FaultCounted DEF HangUp, Crash, Sound
  <2>4. ASSUME NEW h \in Handlers,
               (\E id \in DOMAIN sent : Receive(h, id)) \/ Serve(h) \/ LoseReply(h) \/ Fail(h)
        PROVE  Calm'
    BY <1>3, <2>4, CalmReceive, CalmServe, CalmLeave DEF Serve
  <2>5. CASE UNCHANGED vars
    BY <1>3, <2>5 DEF vars, Calm, Chronicle, Kept, InHand, Recorded
  <2> QED BY <2>1, <2>2, <2>3, <2>4, <2>5 DEF Next
<1> QED BY <1>2, <1>3

LEMMA CalmAlways == Safe => []Calm
<1>1. Init => Calm
  BY EmptySeq DEF Init, Calm, Chronicle, Kept, InHand, Idle
<1>2. Sound /\ Sound' /\ Calm /\ [Next]_vars => Calm'
  BY CalmNext
<1> QED BY <1>1, <1>2, SoundAlways, PTL DEF Safe

-----------------------------------------------------------------------------
(* The account follows the subscription                                    *)

Changing == {"checkout", "subscription", "invoice", "failed", "deleted"}

\* The last event of the subscription that Stripe sent.
Latest(i) ==
  /\ i \in 1..Len(sent) /\ sent[i].kind \in Changing
  /\ \A j \in 1..Len(sent) : j > i => sent[j].kind \notin Changing

\* What the log says of the subscription: its last event reports its state, or
\* has it fetched, and no event ends what no checkout began.
Telling ==
  /\ stripe.sub = "none" => \A i \in 1..Len(sent) : sent[i].kind \notin Changing
  /\ stripe.sub # "none" =>
       (\E i \in 1..Len(sent) : Latest(i)) /\ \E i \in 1..Len(sent) : sent[i].kind = "checkout"
  /\ \A i \in 1..Len(sent) : Latest(i) =>
       \/ sent[i].kind = "subscription" /\ sent[i].sub = stripe.sub
       \/ sent[i].kind = "invoice"
       \/ sent[i].kind = "deleted" /\ stripe.sub = "canceled"
  /\ \A i \in 1..Len(sent) :
       /\ sent[i].kind = "subscription" => sent[i].sub # "none"
       /\ sent[i].kind = "deleted" => \E j \in 1..(i - 1) : sent[j].kind = "checkout"

\* What was fetched for the last event is still so.
Viewing == \A h \in Handlers : handler[h].pc = "fetched" =>
  handler[h].view # "none" /\ (Latest(handler[h].id) => handler[h].view = stripe.sub)

\* An account in debt does not work.
Indebted == wallet < 0 => account.status = "suspended"

Informed == Telling /\ Viewing /\ Indebted

\* In a calm world events are taken in turn: an event that was seen has all
\* earlier ones acknowledged, and the one at work is in one handler's hands.
InTurn ==
  /\ acked \subseteq seen
  /\ \A i \in seen : 1..(i - 1) \subseteq acked
  /\ \A h \in Handlers : handler[h].pc # "idle" => handler[h].id \in seen \ acked
  /\ \A g, h \in Handlers : handler[g].pc # "idle" /\ handler[g].id = handler[h].id => g = h

Done(i) == i \in seen /\ \A h \in Handlers : handler[h].id = i => handler[h].pc = "done"

Mirror ==
  /\ account.plan = IF stripe.sub \in {"active", "past_due"} THEN "member" ELSE "free"
  /\ account.status # "suspended" => (account.status = "past_due" <=> stripe.sub = "past_due")

\* The account is as the subscription is before its first event and when its
\* last one is done; and a checkout that is done has left its row.
Mirrored ==
  /\ stripe.sub = "none" => Mirror
  /\ \A i \in 1..Len(sent) : Latest(i) /\ Done(i) => Mirror
  /\ \A i \in 1..Len(sent) : sent[i].kind = "checkout" /\ Done(i) => membership # "none"

Following == setting.calm => InTurn /\ Mirrored

\* After a change of something else the last event of the subscription is the
\* same; after a change of the subscription it is the last one that was sent.
LEMMA LatestStays ==
  ASSUME Typed, NEW events \in Seq(StripeEvent), Emit(events),
         \A j \in 1..Len(events) : events[j].kind \notin Changing
  PROVE  \A i : Latest(i)' <=> Latest(i)
<1>1. \A i \in 1..Len(sent) : i \in 1..Len(sent') /\ sent'[i] = sent[i]
  BY Appended
<1>2. \A i \in 1..Len(sent') : i \in 1..Len(sent) \/ sent'[i].kind \notin Changing
  BY Appended
<1> QED BY <1>1, <1>2 DEF Latest

LEMMA LatestMoves ==
  ASSUME Typed, NEW events \in Seq(StripeEvent), Emit(events), Len(events) > 0,
         events[Len(events)].kind \in Changing, NEW n, n = Len(sent')
  PROVE  /\ n \in Nat /\ Len(sent) < n /\ n \in 1..n /\ sent'[n] = events[Len(events)]
         /\ \A i : Latest(i)' <=> i = n
<1>1. Len(sent) \in Nat /\ Len(events) \in Nat /\ n = Len(sent) + Len(events)
      /\ \A i \in 1..Len(events) : sent'[Len(sent) + i] = events[i]
  BY Appended
<1>2. n \in Nat /\ Len(sent) < n /\ n \in 1..n
  BY <1>1
<1>3. sent'[n] = events[Len(events)]
  BY <1>1
<1>4. sent'[n].kind \in Changing
  BY <1>3
<1>5. ASSUME NEW i, Latest(i)' PROVE i = n
  <2>1. i \in 1..n /\ ~(n > i)
    BY <1>2, <1>4, <1>5 DEF Latest
  <2> QED BY <1>2, <2>1
<1>6. Latest(n)'
  BY <1>2, <1>4 DEF Latest
<1> QED BY <1>2, <1>3, <1>5, <1>6

\* An event of the log is one of those sent before or one of the new ones.
LEMMA TellingPlain ==
  ASSUME Typed, Telling, NEW events \in Seq(StripeEvent), Emit(events), stripe'.sub = stripe.sub,
         \A j \in 1..Len(events) : events[j].kind \notin Changing
  PROVE  Telling'
<1>1. /\ \A i \in 1..Len(sent) : i \in 1..Len(sent') /\ sent'[i] = sent[i]
      /\ \A i \in 1..Len(sent') : i \in 1..Len(sent) \/ sent'[i].kind \notin Changing
      /\ Len(sent) \in Nat
  <2>1. /\ Len(sent) \in Nat /\ Len(events) \in Nat /\ Len(sent') = Len(sent) + Len(events)
        /\ \A i \in 1..Len(sent) : sent'[i] = sent[i]
        /\ \A i \in 1..Len(sent') : i \in 1..Len(sent) \/ \E j \in 1..Len(events) :
                                       i = Len(sent) + j /\ sent'[i] = events[j]
    BY Appended
  <2>2. \A i \in 1..Len(sent) : i \in 1..Len(sent')
    BY <2>1
  <2>3. ASSUME NEW i \in 1..Len(sent'), i \notin 1..Len(sent) PROVE sent'[i].kind \notin Changing
    <3>1. PICK j \in 1..Len(events) : sent'[i] = events[j]
      BY <2>1, <2>3
    <3> QED BY <3>1
  <2> QED BY <2>1, <2>2, <2>3
<1>2. \A i : Latest(i)' <=> Latest(i)
  BY LatestStays
<1>3. \A i : Latest(i) => i \in 1..Len(sent)
  BY DEF Latest
<1>4. stripe'.sub = "none" => \A i \in 1..Len(sent') : sent'[i].kind \notin Changing
  BY <1>1 DEF Telling
<1>5. stripe'.sub # "none" =>
       (\E i \in 1..Len(sent') : Latest(i)') /\ \E i \in 1..Len(sent') : sent'[i].kind = "checkout"
  BY <1>1, <1>2 DEF Telling
<1>6. \A i \in 1..Len(sent') : Latest(i)' =>
       \/ sent'[i].kind = "subscription" /\ sent'[i].sub = stripe'.sub
       \/ sent'[i].kind = "invoice"
       \/ sent'[i].kind = "deleted" /\ stripe'.sub = "canceled"
  BY <1>1, <1>2, <1>3 DEF Telling
<1>7. ASSUME NEW i \in 1..Len(sent')
      PROVE  /\ sent'[i].kind = "subscription" => sent'[i].sub # "none"
             /\ sent'[i].kind = "deleted" => \E j \in 1..(i - 1) : sent'[j].kind = "checkout"
  <2>1. CASE i \in 1..Len(sent)
    <3>1. sent'[i].kind = "subscription" => sent'[i].sub # "none"
      BY <1>1, <2>1 DEF Telling
    <3>2. ASSUME sent'[i].kind = "deleted" PROVE \E j \in 1..(i - 1) : sent'[j].kind = "checkout"
      <4>1. PICK j \in 1..(i - 1) : sent[j].kind = "checkout"
        BY <1>1, <2>1, <3>2 DEF Telling
      <4>2. j \in 1..Len(sent)
        BY <1>1, <2>1
      <4> QED BY <1>1, <4>1, <4>2
    <3> QED BY <3>1, <3>2
  <2>2. CASE i \notin 1..Len(sent)
    BY <1>1, <2>2 DEF Changing
  <2> QED BY <2>1, <2>2
<1> QED BY <1>4, <1>5, <1>6, <1>7 DEF Telling

\* The events of a change of the subscription "sub" that leaves it "to".
Announces(events, sub, to) ==
  LET e == events[Len(events)] IN
  /\ Len(events) > 0 /\ to # "none"
  /\ \A j \in 1..Len(events) : events[j].kind \in Changing
  /\ \/ e.kind = "subscription" /\ e.sub = to
     \/ e.kind = "invoice"
     \/ e.kind = "deleted" /\ to = "canceled"
  /\ sub = "none" => events[1].kind = "checkout"
  /\ \A j \in 1..Len(events) :
       /\ events[j].kind = "subscription" => events[j].sub # "none"
       /\ events[j].kind = "deleted" => sub # "none"

LEMMA TellingSub ==
  ASSUME Typed, Telling, NEW events \in Seq(StripeEvent), Emit(events),
         Announces(events, stripe.sub, stripe'.sub)
  PROVE  Telling'
<1> DEFINE k == Len(events)
<1>1. PICK n : n = Len(sent')
  OBVIOUS
<1>2. /\ Len(sent) \in Nat /\ k \in Nat /\ k > 0 /\ n = Len(sent) + k
      /\ \A i \in 1..Len(sent) : i \in 1..n /\ sent'[i] = sent[i]
      /\ \A i \in 1..k : sent'[Len(sent) + i] = events[i]
      /\ \A i \in 1..n : i \in 1..Len(sent) \/ \E j \in 1..k : i = Len(sent) + j /\ sent'[i] = events[j]
  <2>1. /\ Len(sent) \in Nat /\ k \in Nat /\ n = Len(sent) + k
        /\ \A i \in 1..Len(sent) : sent'[i] = sent[i]
        /\ \A i \in 1..k : sent'[Len(sent) + i] = events[i]
        /\ \A i \in 1..n : i \in 1..Len(sent) \/ \E j \in 1..k : i = Len(sent) + j /\ sent'[i] = events[j]
    BY <1>1, Appended
  <2>2. k > 0
    BY DEF Announces
  <2> HIDE DEF k
  <2>3. \A i \in 1..Len(sent) : i \in 1..n
    BY <2>1
  <2> QED BY <2>1, <2>2, <2>3
<1>3. k \in 1..k /\ events[k].kind \in Changing
  BY <1>2 DEF Announces
<1>4. /\ n \in Nat /\ Len(sent) < n /\ n \in 1..n /\ sent'[n] = events[k]
      /\ \A i : Latest(i)' <=> i = n
  BY <1>1, <1>2, <1>3, LatestMoves
<1>5. stripe'.sub # "none"
  BY DEF Announces
<1>6. \E i \in 1..n : sent'[i].kind = "checkout"
  <2>1. CASE stripe.sub = "none"
    <3>1. 1 \in 1..k /\ Len(sent) + 1 \in 1..n
      BY <1>2
    <3> QED BY <1>2, <2>1, <3>1 DEF Announces
  <2>2. CASE stripe.sub # "none"
    BY <1>2, <2>2 DEF Telling
  <2> QED BY <2>1, <2>2
<1>7. \/ sent'[n].kind = "subscription" /\ sent'[n].sub = stripe'.sub
      \/ sent'[n].kind = "invoice"
      \/ sent'[n].kind = "deleted" /\ stripe'.sub = "canceled"
  BY <1>4 DEF Announces
<1>8. ASSUME NEW i \in 1..n
      PROVE  /\ sent'[i].kind = "subscription" => sent'[i].sub # "none"
             /\ sent'[i].kind = "deleted" => \E j \in 1..(i - 1) : sent'[j].kind = "checkout"
  <2>1. CASE i \in 1..Len(sent)
    <3>1. sent'[i].kind = "subscription" => sent'[i].sub # "none"
      BY <1>2, <2>1 DEF Telling
    <3>2. ASSUME sent'[i].kind = "deleted" PROVE \E j \in 1..(i - 1) : sent'[j].kind = "checkout"
      <4>1. PICK j \in 1..(i - 1) : sent[j].kind = "checkout"
        BY <1>2, <2>1, <3>2 DEF Telling
      <4>2. j \in 1..Len(sent)
        BY <1>2, <2>1
      <4> QED BY <1>2, <4>1, <4>2
    <3> QED BY <3>1, <3>2
  <2>2. CASE i \notin 1..Len(sent)
    <3>1. PICK j \in 1..k : i = Len(sent) + j /\ sent'[i] = events[j]
      BY <1>2, <2>2
    <3>2. sent'[i].kind = "subscription" => sent'[i].sub # "none"
      BY <3>1 DEF Announces
    <3>3. ASSUME sent'[i].kind = "deleted" PROVE \E m \in 1..(i - 1) : sent'[m].kind = "checkout"
      <4>1. stripe.sub # "none"
        BY <3>1, <3>3 DEF Announces
      <4>2. PICK m \in 1..Len(sent) : sent[m].kind = "checkout"
        BY <4>1 DEF Telling
      <4>3. m \in 1..(i - 1)
        BY <1>2, <3>1, <4>2
      <4> QED BY <1>2, <4>2, <4>3
    <3> QED BY <3>2, <3>3
  <2> QED BY <2>1, <2>2
<1> HIDE DEF k
<1> QED BY <1>1, <1>4, <1>5, <1>6, <1>7, <1>8 DEF Telling

\* Whatever Stripe adds, no handler has the last event it brings.
LEMMA SaysMore ==
  ASSUME Sound, Informed, Following, NEW events \in Seq(StripeEvent), Emit(events),
         \/ stripe'.sub = stripe.sub /\ \A j \in 1..Len(events) : events[j].kind \notin Changing
         \/ Announces(events, stripe.sub, stripe'.sub)
  PROVE  Informed' /\ Following'
<1>1. Typed /\ Serving /\ Telling /\ Viewing /\ Indebted
  BY DEF Sound, Informed
<1>2. UNCHANGED <<setting, acked, seen, wallet, membership, account, handler>>
  BY DEF Emit, store, purse
<1>3. /\ \A i \in 1..Len(sent) : i \in 1..Len(sent') /\ sent'[i] = sent[i]
      /\ Len(sent) \in Nat
      /\ \A g \in Handlers : handler[g].pc # "idle" => handler[g].id \in 1..Len(sent)
      /\ seen \subseteq 1..Len(sent)
  BY <1>1, Appended DEF Serving, Typed
<1>4. Telling'
  BY <1>1, TellingPlain, TellingSub
<1>5. \A i \in 1..Len(sent) : Latest(i)' => Latest(i) /\ stripe'.sub = stripe.sub
  <2>1. CASE stripe'.sub = stripe.sub /\ \A j \in 1..Len(events) : events[j].kind \notin Changing
    BY <1>1, <2>1, LatestStays
  <2>2. CASE Announces(events, stripe.sub, stripe'.sub)
    <3>1. PICK n : n = Len(sent')
      OBVIOUS
    <3>2. Len(events) \in 1..Len(events) /\ Len(events) > 0
      BY <1>1, <2>2, Appended DEF Announces
    <3>3. events[Len(events)].kind \in Changing
      BY <2>2, <3>2 DEF Announces
    <3>4. Len(sent) < n /\ n \in Nat /\ \A i : Latest(i)' <=> i = n
      BY <1>1, <3>1, <3>2, <3>3, LatestMoves
    <3>5. \A i \in 1..Len(sent) : i # n
      BY <1>3, <3>4
    <3> QED BY <3>4, <3>5
  <2> QED BY <2>1, <2>2
<1>6. Viewing'
  BY <1>1, <1>2, <1>3, <1>5 DEF Viewing
<1>7. Indebted'
  BY <1>1, <1>2 DEF Indebted
<1>8. Following'
  <2> SUFFICES ASSUME setting.calm PROVE InTurn' /\ Mirrored'
    BY <1>2 DEF Following
  <2>1. InTurn /\ Mirrored
    BY DEF Following
  <2>2. InTurn'
    BY <1>2, <2>1 DEF InTurn
  <2>3. \A i : Done(i)' => Done(i) /\ i \in 1..Len(sent)
    BY <1>2, <1>3 DEF Done
  <2>4. stripe'.sub = stripe.sub /\ Mirror => Mirror'
    BY <1>2 DEF Mirror
  <2>5. stripe'.sub = "none" => stripe'.sub = stripe.sub
    BY DEF Announces
  <2>6. stripe'.sub = "none" => Mirror'
    BY <2>1, <2>4, <2>5 DEF Mirrored
  <2>7. \A i \in 1..Len(sent') : Latest(i)' /\ Done(i)' => Mirror'
    BY <1>5, <2>1, <2>3, <2>4 DEF Mirrored
  <2>8. \A i \in 1..Len(sent') : sent'[i].kind = "checkout" /\ Done(i)' => membership' # "none"
    BY <1>2, <1>3, <2>1, <2>3 DEF Mirrored
  <2> QED BY <2>2, <2>6, <2>7, <2>8 DEF Mirrored
<1> QED BY <1>4, <1>6, <1>7, <1>8 DEF Informed

LEMMA SubSays ==
  ASSUME Sound, Informed, Following, NEW from, NEW to, NEW events \in Seq(StripeEvent),
         ChangeSub(from, to, events), Announces(events, stripe.sub, to)
  PROVE  Informed' /\ Following'
<1>1. stripe'.sub = to /\ Emit(events)
  BY DEF ChangeSub, Sound, Typed, Truth
<1> QED BY <1>1, SaysMore

LEMMA StripeSays ==
  ASSUME Sound, Informed, Following, StripeStep PROVE Informed' /\ Following'
<1>1. stripe \in Truth /\ Price \in Nat
  BY Settled DEF Sound, Typed
<1>2. \A k \in Kinds : Plain(k) \in StripeEvent /\ Plain(k).kind = k
  BY EventsTyped
<1>3. \A s \in SubStates : /\ Event("subscription", 0, s) \in StripeEvent
                           /\ Event("subscription", 0, s).kind = "subscription"
                           /\ Event("subscription", 0, s).sub = s
  BY EventsTyped DEF Event
<1>4. CASE Pay
  <2> DEFINE es == <<Plain("paid")>>
  <2>1. es \in Seq(StripeEvent) /\ \A j \in 1..Len(es) : es[j].kind \notin Changing
    BY EventsTyped DEF Kinds, Changing
  <2>2. stripe'.sub = stripe.sub /\ Emit(es)
    BY <1>1, <1>4 DEF Pay, Truth
  <2> HIDE DEF es
  <2> QED BY <2>1, <2>2, SaysMore
<1>5. ASSUME NEW n \in 1..Price, RefundCharge(n) PROVE Informed' /\ Following'
  <2> DEFINE es == <<Event("refund", stripe.refunded + n, "none")>>
  <2>1. stripe.refunded + n \in 0..Price
    BY <1>1, <1>5 DEF RefundCharge, Truth
  <2>2. es \in Seq(StripeEvent) /\ \A j \in 1..Len(es) : es[j].kind \notin Changing
    BY <2>1, EventsTyped DEF Changing
  <2>3. stripe'.sub = stripe.sub /\ Emit(es)
    BY <1>1, <1>5 DEF RefundCharge, Truth
  <2> HIDE DEF es
  <2> QED BY <2>2, <2>3, SaysMore
<1>6. CASE Subscribe
  <2> DEFINE es == <<Plain("checkout"), Event("subscription", 0, "active"), Plain("invoice")>>
  <2>1. /\ es \in Seq(StripeEvent) /\ Len(es) = 3 /\ es[1].kind = "checkout"
        /\ es[2].kind = "subscription" /\ es[2].sub = "active" /\ es[3].kind = "invoice"
    BY <1>2, <1>3 DEF Kinds, SubStates
  <2>2. ChangeSub({"none"}, "active", es)
    BY <1>6 DEF Subscribe
  <2> HIDE DEF es
  <2>3. Announces(es, stripe.sub, "active")
    BY <2>1 DEF Announces, Changing
  <2> QED BY <2>1, <2>2, <2>3, SubSays
<1>7. CASE MissPayment
  <2> DEFINE es == <<Plain("failed"), Event("subscription", 0, "past_due")>>
  <2>1. /\ es \in Seq(StripeEvent) /\ Len(es) = 2 /\ es[1].kind = "failed"
        /\ es[2].kind = "subscription" /\ es[2].sub = "past_due"
    BY <1>2, <1>3 DEF Kinds, SubStates
  <2>2. ChangeSub({"active"}, "past_due", es) /\ stripe.sub = "active"
    BY <1>7 DEF MissPayment, ChangeSub
  <2> HIDE DEF es
  <2>3. Announces(es, stripe.sub, "past_due")
    BY <2>1, <2>2 DEF Announces, Changing
  <2> QED BY <2>1, <2>2, <2>3, SubSays
<1>8. CASE Recover
  <2> DEFINE es == <<Plain("invoice"), Event("subscription", 0, "active")>>
  <2>1. /\ es \in Seq(StripeEvent) /\ Len(es) = 2 /\ es[1].kind = "invoice"
        /\ es[2].kind = "subscription" /\ es[2].sub = "active"
    BY <1>2, <1>3 DEF Kinds, SubStates
  <2>2. ChangeSub({"past_due"}, "active", es) /\ stripe.sub = "past_due"
    BY <1>8 DEF Recover, ChangeSub
  <2> HIDE DEF es
  <2>3. Announces(es, stripe.sub, "active")
    BY <2>1, <2>2 DEF Announces, Changing
  <2> QED BY <2>1, <2>2, <2>3, SubSays
<1>9. CASE Cancel
  <2> DEFINE es == <<Plain("deleted")>>
  <2>1. es \in Seq(StripeEvent) /\ Len(es) = 1 /\ es[1].kind = "deleted"
    BY <1>2 DEF Kinds
  <2>2. ChangeSub({"active", "past_due"}, "canceled", es) /\ stripe.sub \in {"active", "past_due"}
    BY <1>9 DEF Cancel, ChangeSub
  <2> HIDE DEF es
  <2>3. Announces(es, stripe.sub, "canceled")
    BY <2>1, <2>2 DEF Announces, Changing
  <2> QED BY <2>1, <2>2, <2>3, SubSays
<1> QED BY <1>4, <1>5, <1>6, <1>7, <1>8, <1>9 DEF StripeStep

\* A step of one handler says nothing new of the subscription.
LEMMA StillInformed ==
  ASSUME Sound, Informed, UNCHANGED <<stripe, sent>>, NEW h \in Handlers, NEW r,
         handler' = [handler EXCEPT ![h] = r],
         r.pc = "fetched" => r.view # "none" /\ (Latest(r.id) => r.view = stripe.sub),
         Indebted'
  PROVE  Informed'
<1>1. Telling /\ Viewing /\ handler \in [Handlers -> Request]
  BY DEF Informed, Sound, Typed
<1>2. \A g \in Handlers : handler'[g] = IF g = h THEN r ELSE handler[g]
  BY <1>1
<1>3. Telling' /\ \A i : Latest(i)' <=> Latest(i)
  BY <1>1 DEF Telling, Latest
<1>4. Viewing'
  BY <1>1, <1>2, <1>3 DEF Viewing
<1> QED BY <1>3, <1>4 DEF Informed

\* A handler that goes on with its event: the account follows when the event
\* changes the subscription, and is left as it is by any other.
LEMMA FollowsOn ==
  ASSUME Sound, Following, setting.calm, UNCHANGED <<setting, stripe, sent, acked, seen>>,
         NEW h \in Handlers, handler[h].pc # "idle", NEW r, handler' = [handler EXCEPT ![h] = r],
         r.pc # "idle", r.id = handler[h].id,
         (Mirror => Mirror') \/ (sent[r.id].kind \in Changing /\ stripe.sub # "none"),
         membership # "none" => membership' # "none",
         r.pc = "done" /\ Latest(r.id) => Mirror',
         r.pc = "done" /\ sent[r.id].kind = "checkout" => membership' # "none"
  PROVE  Following'
<1>1. InTurn /\ Mirrored /\ Typed /\ Serving
  BY DEF Following, Sound
<1>2. /\ \A g \in Handlers : handler'[g] = IF g = h THEN r ELSE handler[g]
      /\ seen \subseteq 1..Len(sent) /\ r.id \in 1..Len(sent) /\ Len(sent) \in Nat
  BY <1>1, LenProperties DEF Typed, Serving
<1>3. InTurn'
  BY <1>1, <1>2 DEF InTurn
<1>4. \A i : Done(i)' => i \in seen /\ (i = r.id => r.pc = "done") /\ (i # r.id => Done(i))
  BY <1>2 DEF Done
<1>5. \A i : Latest(i)' <=> Latest(i)
  BY DEF Latest
<1>6. ASSUME NEW i \in 1..Len(sent), Latest(i), Done(i), i # r.id, sent[r.id].kind \in Changing
      PROVE  FALSE
  <2>1. i \in seen /\ ~(r.id > i)
    BY <1>2, <1>6 DEF Latest, Done
  <2>2. r.id \in 1..(i - 1)
    BY <1>2, <1>6, <2>1
  <2>3. r.id \in acked
    BY <1>1, <2>1, <2>2 DEF InTurn
  <2> QED BY <1>1, <2>3 DEF InTurn
<1>7. ASSUME NEW i \in 1..Len(sent), Latest(i), Done(i)' PROVE Mirror'
  <2>1. CASE i = r.id
    BY <1>4, <1>7, <2>1
  <2>2. CASE i # r.id
    <3>1. Done(i)
      BY <1>4, <1>7, <2>2
    <3>2. Mirror
      BY <1>1, <1>7, <3>1 DEF Mirrored
    <3> QED BY <1>6, <1>7, <2>2, <3>1, <3>2
  <2> QED BY <2>1, <2>2
<1>8. stripe'.sub = "none" => Mirror'
  BY <1>1 DEF Mirrored
<1>9. \A i \in 1..Len(sent) : sent[i].kind = "checkout" /\ Done(i)' => membership' # "none"
  BY <1>1, <1>4 DEF Mirrored
<1>10. Mirrored'
  BY <1>5, <1>7, <1>8, <1>9 DEF Mirrored
<1> QED BY <1>3, <1>10 DEF Following

LEMMA ReceiveFollows ==
  ASSUME Sound, Informed, Following, NEW h \in Handlers, NEW id \in DOMAIN sent, Receive(h, id)
  PROVE  Informed' /\ Following'
<1>1. Typed /\ Serving /\ Indebted
  BY DEF Sound, Informed
<1>2. UNCHANGED <<setting, stripe, sent, membership, account, wallet>> /\ handler[h].pc = "idle"
      /\ id \in 1..Len(sent) /\ Len(sent) \in Nat /\ id \notin acked
  BY <1>1, LenProperties DEF Receive, store, purse, Typed, Deliverable
<1>3. Indebted' /\ (Mirror => Mirror') /\ \A i : Latest(i)' <=> Latest(i)
  BY <1>1, <1>2 DEF Indebted, Mirror, Latest
<1>4. setting.calm => 1..(id - 1) \subseteq acked /\ \A g \in Handlers : handler[g].id # id
  BY Undisturbed DEF Receive, Deliverable
<1>5. CASE id \in seen
  <2>1. acked' = acked \union {id} /\ seen' = seen /\ handler' = handler
    BY <1>5 DEF Receive
  <2>2. Informed'
    BY <1>2, <1>3, <2>1 DEF Informed, Telling, Viewing, Latest
  <2>3. ASSUME setting.calm PROVE InTurn' /\ Mirrored'
    <3>1. InTurn /\ Mirrored
      BY <2>3 DEF Following
    <3>2. InTurn'
      BY <1>4, <1>5, <2>1, <2>3, <3>1 DEF InTurn
    <3>3. \A i : Done(i)' <=> Done(i)
      BY <2>1 DEF Done
    <3> QED BY <1>2, <1>3, <3>1, <3>2, <3>3 DEF Mirrored
  <2> QED BY <1>2, <2>2, <2>3 DEF Following
<1>6. CASE id \notin seen
  <2> DEFINE r == [Idle EXCEPT !.pc = "process", !.id = id]
  <2>1. seen' = seen \union {id} /\ acked' = acked /\ handler' = [handler EXCEPT ![h] = r]
    BY <1>6 DEF Receive
  <2>2. r.pc = "process" /\ r.id = id
    BY DEF Idle
  <2> HIDE DEF r
  <2>3. Informed'
    BY <1>2, <1>3, <2>1, <2>2, StillInformed
  <2>4. ASSUME setting.calm PROVE InTurn' /\ Mirrored'
    <3>1. InTurn /\ Mirrored
      BY <2>4 DEF Following
    <3>2. \A g \in Handlers : handler'[g] = IF g = h THEN r ELSE handler[g]
      BY <1>1, <2>1 DEF Typed
    <3>3. InTurn'
      BY <1>2, <1>4, <2>1, <2>2, <2>4, <3>1, <3>2 DEF InTurn
    <3>4. \A i \in 1..Len(sent) : handler[h].id # i
      BY <1>1, <1>2 DEF Serving
    <3>5. \A i \in 1..Len(sent) : Done(i)' => Done(i)
      BY <2>1, <2>2, <3>2, <3>4 DEF Done
    <3> QED BY <1>2, <1>3, <3>1, <3>3, <3>5 DEF Mirrored
  <2> QED BY <1>2, <2>3, <2>4 DEF Following
<1> QED BY <1>5, <1>6

\* What a handler may do to the account when it goes on to "pc".
LEMMA GoesOnFollowing ==
  ASSUME Sound, Informed, Following, UNCHANGED <<setting, stripe, sent, acked, seen>>,
         NEW h \in Handlers, handler[h].pc # "idle", NEW pc \in {"done", "failed"}, Goto(h, pc),
         Indebted',
         setting.calm =>
           /\ (Mirror => Mirror') \/ (sent[handler[h].id].kind \in Changing /\ stripe.sub # "none")
           /\ membership # "none" => membership' # "none"
           /\ pc = "done" /\ Latest(handler[h].id) => Mirror'
           /\ pc = "done" /\ sent[handler[h].id].kind = "checkout" => membership' # "none"
  PROVE  Informed' /\ Following'
<1> DEFINE r == [handler[h] EXCEPT !.pc = pc]
<1>1. handler[h] \in Request
  BY AtWork DEF Sound
<1>2. r.pc = pc /\ r.id = handler[h].id
  BY <1>1 DEF Request
<1>3. handler' = [handler EXCEPT ![h] = r]
  BY DEF Goto
<1> HIDE DEF r
<1>4. Informed'
  BY <1>2, <1>3, StillInformed
<1>5. ASSUME setting.calm PROVE Following'
  BY <1>2, <1>3, <1>5, FollowsOn
<1> QED BY <1>4, <1>5 DEF Following

\* Payments and refunds leave the account as the subscription has it, or suspend it.
LEMMA MoneyFollows ==
  ASSUME Sound, Informed, Following, NEW h \in Handlers, Topup(h) \/ Refund(h) \/ Fail(h)
  PROVE  Informed' /\ Following'
<1>1. Typed /\ Serving /\ Indebted /\ Telling /\ handler[h].pc # "idle"
  BY DEF Sound, Informed, Topup, Refund, Fail, Handling
<1>2. UNCHANGED <<setting, stripe, sent, acked, seen, membership>>
  BY DEF Topup, Refund, Fail, store
<1>3. handler[h].id \in 1..Len(sent)
  BY <1>1, AtWork
<1>4. account \in Standing /\ wallet \in Int /\ Price \in Nat
  BY <1>1, Settled DEF Typed
<1>5. CASE Topup(h)
  <2>1. account' = account /\ sent[handler[h].id].kind \notin Changing /\ Goto(h, "done")
    BY <1>5 DEF Topup, Handling, Changing
  <2>2. Indebted' /\ (Mirror => Mirror')
    BY <1>1, <1>2, <1>4, <1>5, <2>1 DEF Topup, Indebted, Mirror
  <2>3. ~Latest(handler[h].id) /\ sent[handler[h].id].kind # "checkout"
    BY <2>1 DEF Latest, Changing
  <2> QED BY <1>1, <1>2, <2>1, <2>2, <2>3, GoesOnFollowing
<1>6. CASE Refund(h)
  <2>1. sent[handler[h].id].kind \notin Changing /\ Goto(h, "done")
    BY <1>6 DEF Refund, Handling, Changing
  <2>2. \/ account' = account /\ (wallet' = wallet \/ ~(wallet' < 0))
        \/ account' = [account EXCEPT !.status = "suspended"]
    BY <1>6 DEF Refund
  <2>3. account' = account \/ (account'.plan = account.plan /\ account'.status = "suspended")
    BY <1>4, <2>2 DEF Standing
  <2>4. Indebted'
    <3>1. CASE account' = account /\ (wallet' = wallet \/ ~(wallet' < 0))
      BY <1>1, <3>1 DEF Indebted
    <3>2. CASE account' = [account EXCEPT !.status = "suspended"]
      BY <1>4, <3>2 DEF Indebted, Standing
    <3> QED BY <2>2, <3>1, <3>2
  <2>5. Mirror => Mirror'
    BY <1>2, <2>3 DEF Mirror
  <2>6. ~Latest(handler[h].id) /\ sent[handler[h].id].kind # "checkout"
    BY <2>1 DEF Latest, Changing
  <2> QED BY <1>1, <1>2, <2>1, <2>4, <2>5, <2>6, GoesOnFollowing
<1>7. CASE Fail(h)
  <2>1. account' = account /\ wallet' = wallet /\ Goto(h, "failed")
    BY <1>7 DEF Fail, store, purse
  <2>2. Indebted' /\ (Mirror => Mirror')
    BY <1>1, <1>2, <2>1 DEF Indebted, Mirror
  <2> QED BY <1>1, <1>2, <2>1, <2>2, GoesOnFollowing
<1> QED BY <1>5, <1>6, <1>7

LEMMA FetchFollows ==
  ASSUME Sound, Informed, Following, NEW h \in Handlers, Fetch(h)
  PROVE  Informed' /\ Following'
<1> DEFINE r == [handler[h] EXCEPT !.pc = "fetched", !.view = stripe.sub]
<1>1. Typed /\ Serving /\ Indebted /\ Telling /\ handler[h].pc # "idle"
  BY DEF Sound, Informed, Fetch, Handling
<1>2. UNCHANGED <<setting, stripe, sent, acked, seen, membership, account, wallet>>
  BY DEF Fetch, store, purse
<1>3. handler[h] \in Request /\ handler[h].id \in 1..Len(sent)
  BY <1>1, AtWork
<1>4. r.pc = "fetched" /\ r.id = handler[h].id /\ r.view = stripe.sub
  BY <1>3 DEF Request
<1>5. handler' = [handler EXCEPT ![h] = r]
  BY DEF Fetch
<1>6. stripe.sub # "none"
  BY <1>1, <1>3 DEF Fetch, Handling, Telling, Changing
<1>7. Indebted' /\ (Mirror => Mirror')
  BY <1>1, <1>2 DEF Indebted, Mirror
<1> HIDE DEF r
<1>8. Informed'
  BY <1>2, <1>4, <1>5, <1>6, <1>7, StillInformed
<1>9. ASSUME setting.calm PROVE Following'
  BY <1>1, <1>2, <1>4, <1>5, <1>7, <1>9, FollowsOn
<1> QED BY <1>2, <1>8, <1>9 DEF Following

\* The last event of the subscription reports what it is at Stripe.
LEMMA ReportedIs ==
  ASSUME Sound, Informed, NEW h \in Handlers, Apply(h)
  PROVE  /\ Reported(h) # "none" /\ Reported(h) \in SubStates
         /\ Latest(handler[h].id) => Reported(h) = stripe.sub
<1> DEFINE i == handler[h].id
           e == sent[i]
<1>1. Typed /\ Serving /\ Telling /\ Viewing /\ handler[h].pc # "idle"
  BY DEF Sound, Informed, Apply, Handling
<1>2. handler[h] \in Request /\ i \in 1..Len(sent) /\ e \in StripeEvent
  BY <1>1, AtWork
<1>3. Latest(i) => \/ e.kind = "subscription" /\ e.sub = stripe.sub
                   \/ e.kind = "invoice"
                   \/ e.kind = "deleted" /\ stripe.sub = "canceled"
  BY <1>1, <1>2 DEF Telling
<1>4. CASE handler[h].pc = "process" /\ e.kind = "subscription"
  <2>1. Reported(h) = e.sub /\ e.sub # "none" /\ e.sub \in SubStates
    BY <1>1, <1>2, <1>4 DEF Reported, Telling, StripeEvent
  <2> QED BY <1>3, <1>4, <2>1
<1>5. CASE handler[h].pc = "fetched" /\ e.kind \in {"checkout", "invoice"}
  <2>1. Reported(h) = handler[h].view /\ handler[h].view \in SubStates
    BY <1>2, <1>5 DEF Reported, Request
  <2> QED BY <1>1, <1>5, <2>1 DEF Viewing
<1>6. CASE handler[h].pc = "fetched" /\ e.kind = "failed"
  <2>1. Reported(h) = "past_due"
    BY <1>6 DEF Reported
  <2> QED BY <1>3, <1>6, <2>1 DEF SubStates
<1> QED BY <1>4, <1>5, <1>6 DEF Apply, Handling

LEMMA ApplyFollows ==
  ASSUME Sound, Informed, Following, NEW h \in Handlers, Apply(h)
  PROVE  Informed' /\ Following'
<1>1. Typed /\ Serving /\ Indebted /\ Telling /\ handler[h].pc # "idle" /\ Goto(h, "done")
  BY DEF Sound, Informed, Apply, Handling
<1>2. UNCHANGED <<setting, stripe, sent, acked, seen, wallet>>
  BY DEF Apply, purse
<1>3. handler[h].id \in 1..Len(sent) /\ stripe.sub \in SubStates
  BY <1>1, AtWork DEF Typed, Truth
<1>4. /\ membership' = Reported(h) /\ account'.plan = PlanFor(Reported(h))
      /\ account'.status = StatusFor(Reported(h))
  BY DEF Apply
<1>5. Reported(h) # "none" /\ (Latest(handler[h].id) => Reported(h) = stripe.sub)
  BY ReportedIs
<1>6. Indebted'
  BY <1>1, <1>2, <1>4 DEF Indebted, StatusFor
<1>7. sent[handler[h].id].kind \in Changing
  BY DEF Apply, Handling, Changing
<1>8. stripe.sub # "none"
  BY <1>1, <1>3, <1>7 DEF Telling
<1>9. ASSUME Latest(handler[h].id) PROVE Mirror'
  <2>1. Reported(h) = stripe.sub /\ stripe.sub \in {"active", "past_due", "canceled"}
    BY <1>3, <1>5, <1>8, <1>9 DEF SubStates
  <2> QED BY <1>2, <1>4, <2>1 DEF Mirror, PlanFor, StatusFor
<1> QED BY <1>1, <1>2, <1>4, <1>5, <1>6, <1>7, <1>8, <1>9, GoesOnFollowing

\* What is ended had a row: its checkout is done.
LEMMA EndFollows ==
  ASSUME Sound, Informed, Following, NEW h \in Handlers, End(h)
  PROVE  Informed' /\ Following'
<1> DEFINE i == handler[h].id
<1>1. Typed /\ Serving /\ Indebted /\ Telling /\ handler[h].pc # "idle" /\ Goto(h, "done")
  BY DEF Sound, Informed, End, Handling
<1>2. UNCHANGED <<setting, stripe, sent, acked, seen, wallet>>
  BY DEF End, purse
<1>3. i \in 1..Len(sent) /\ Len(sent) \in Nat /\ sent[i].kind = "deleted"
  BY <1>1, AtWork, LenProperties DEF Typed, End, Handling
<1>4. sent[i].kind \in Changing /\ stripe.sub # "none"
  BY <1>1, <1>3 DEF Telling, Changing
<1>5. IF membership = "none" THEN membership' = "none" /\ account' = account
      ELSE /\ membership' = "ended" /\ account'.plan = "free"
           /\ account'.status = IF account.status = "suspended" THEN "suspended" ELSE "active"
  BY DEF End
<1>6. Indebted'
  BY <1>1, <1>2, <1>5 DEF Indebted
<1>7. ASSUME setting.calm PROVE membership # "none"
  <2>1. InTurn /\ Mirrored
    BY <1>7 DEF Following
  <2>2. PICK j \in 1..(i - 1) : sent[j].kind = "checkout"
    BY <1>1, <1>3 DEF Telling
  <2>3. i \in seen /\ j \in acked /\ j \in 1..Len(sent)
    BY <1>1, <1>3, <2>1, <2>2 DEF InTurn
  <2>4. Done(j)
    BY <1>1, <2>1, <2>3 DEF Done, InTurn, Serving
  <2> QED BY <2>1, <2>2, <2>3, <2>4 DEF Mirrored
<1>8. ASSUME setting.calm, Latest(i) PROVE Mirror'
  <2>1. stripe.sub = "canceled"
    BY <1>1, <1>3, <1>8 DEF Telling
  <2> QED BY <1>2, <1>5, <1>7, <1>8, <2>1 DEF Mirror
<1> HIDE DEF i
<1>9. setting.calm => membership' # "none" /\ (Latest(i) => Mirror')
  BY <1>5, <1>7, <1>8
<1> QED BY <1>1, <1>2, <1>4, <1>6, <1>9, GoesOnFollowing DEF i

\* A handler that leaves its event: it is done, or its id is taken back.
LEMMA LeaveFollows ==
  ASSUME Sound, Calm, Informed, Following, NEW h \in Handlers,
         Reply(h) \/ Forget(h) \/ LoseReply(h) \/ Crash(h)
  PROVE  Informed' /\ Following'
<1> DEFINE i == handler[h].id
<1>1. Typed /\ Serving /\ Indebted /\ handler[h].pc # "idle"
  BY DEF Sound, Informed, Reply, Forget, LoseReply, Crash
<1>2. UNCHANGED <<setting, stripe, sent, membership, account, wallet>>
      /\ handler' = [handler EXCEPT ![h] = Idle] /\ Idle.pc = "idle" /\ Idle.id = 0
  BY DEF Reply, Forget, LoseReply, Crash, store, purse, Idle
<1> HIDE DEF Idle
<1>3. Indebted' /\ (Mirror => Mirror') /\ \A k : Latest(k)' <=> Latest(k)
  BY <1>1, <1>2 DEF Indebted, Mirror, Latest
<1>4. Informed'
  BY <1>2, <1>3, StillInformed
<1>5. ASSUME setting.calm PROVE InTurn' /\ Mirrored'
  <2>1. InTurn /\ Mirrored /\ ~handler[h].cancelled
    BY <1>1, <1>5 DEF Following, Calm, InHand
  <2>2. ~Crash(h)
    BY <1>1, <1>5, Undisturbed, FaultCounted DEF Crash
  <2>3. \A g \in Handlers : handler'[g] = IF g = h THEN Idle ELSE handler[g]
    BY <1>1, <1>2 DEF Typed
  <2>4. i \in 1..Len(sent) /\ i # 0 /\ i \in seen /\ i \notin acked
        /\ \A g \in Handlers : handler[g].id = i => g = h
    BY <1>1, <2>1, AtWork DEF InTurn
  <2>5. \/ handler[h].pc = "done" /\ seen' = seen /\ acked' \in {acked, acked \union {i}}
        \/ handler[h].pc = "failed" /\ seen' = seen \ {i} /\ acked' = acked
    BY <2>1, <2>2 DEF Reply, Forget, LoseReply
  <2> HIDE DEF i
  <2>6. acked \subseteq acked' /\ acked' \subseteq acked \union {i} /\ acked' \subseteq seen'
        /\ seen' \subseteq seen
    BY <2>1, <2>4, <2>5 DEF InTurn
  <2>7. \A k \in seen \ {i} : k \in seen'
    BY <2>5
  <2>8. InTurn'
    <3>1. \A k \in seen' : 1..(k - 1) \subseteq acked'
      BY <2>1, <2>6 DEF InTurn
    <3>2. ASSUME NEW g \in Handlers, handler'[g].pc # "idle"
          PROVE  g # h /\ handler'[g] = handler[g] /\ handler[g].id # i
                 /\ handler[g].id \in seen \ acked /\ handler[g].id # 0
      BY <1>1, <1>2, <2>1, <2>3, <2>4, <3>2 DEF InTurn, Serving
    <3>3. \A g \in Handlers : handler'[g].pc # "idle" => handler'[g].id \in seen' \ acked'
      BY <2>6, <2>7, <3>2
    <3>4. ASSUME NEW g \in Handlers, NEW k \in Handlers, handler'[g].pc # "idle",
                 handler'[g].id = handler'[k].id
          PROVE  g = k
      <4>1. k # h
        BY <1>2, <2>3, <3>2, <3>4
      <4> QED BY <2>1, <2>3, <3>2, <3>4, <4>1 DEF InTurn
    <3> QED BY <2>6, <3>1, <3>3, <3>4 DEF InTurn
  <2>9. \A k : Done(k)' => Done(k)
    BY <2>3, <2>4, <2>5 DEF Done, i
  <2> QED BY <1>2, <1>3, <2>1, <2>8, <2>9 DEF Mirrored
<1> QED BY <1>2, <1>4, <1>5 DEF Following

LEMMA NextFollows ==
  ASSUME Sound, Calm, Informed, Following, [Next]_vars PROVE Informed' /\ Following'
<1>1. CASE StripeStep
  BY <1>1, StripeSays
<1>2. CASE Spend
  <2>1. UNCHANGED <<setting, stripe, sent, acked, seen, membership, account, handler>>
        /\ wallet > 0 /\ wallet' = wallet - 1 /\ wallet \in Int
    BY <1>2 DEF Spend, Sound, Typed
  <2>2. Informed'
    BY <2>1 DEF Informed, Telling, Viewing, Indebted, Latest
  <2>3. Following'
    BY <2>1 DEF Following, InTurn, Mirrored, Mirror, Done, Latest
  <2> QED BY <2>2, <2>3
<1>3. ASSUME NEW h \in Handlers, HangUp(h) PROVE Informed' /\ Following'
  <2> DEFINE r == [handler[h] EXCEPT !.pc = "failed", !.cancelled = TRUE]
  <2>1. ~setting.calm
    BY <1>3, Undisturbed, FaultCounted DEF HangUp, Sound
  <2>2. UNCHANGED <<setting, stripe, sent, account, wallet>> /\ handler' = [handler EXCEPT ![h] = r]
    BY <1>3 DEF HangUp, store, purse
  <2>3. r.pc = "failed"
    BY <1>3, AtWork DEF HangUp, Sound, Request
  <2> HIDE DEF r
  <2>4. Indebted'
    BY <2>2 DEF Informed, Indebted
  <2> QED BY <2>1, <2>2, <2>3, <2>4, StillInformed DEF Following
<1>4. ASSUME NEW h \in Handlers,
             (\E id \in DOMAIN sent : Receive(h, id)) \/ Serve(h) \/ LoseReply(h) \/ Fail(h) \/ Crash(h)
      PROVE  Informed' /\ Following'
  BY <1>4, ReceiveFollows, MoneyFollows, FetchFollows, ApplyFollows, EndFollows, LeaveFollows DEF Serve
<1>5. CASE UNCHANGED vars
  BY <1>5 DEF vars, store, purse, Informed, Telling, Viewing, Indebted, Latest, Following, InTurn,
     Mirrored, Mirror, Done
<1> QED BY <1>1, <1>2, <1>3, <1>4, <1>5 DEF Next

LEMMA FollowingAlways == Safe => [](Informed /\ Following)
<1>1. Init => Informed /\ Following
  <2> SUFFICES ASSUME Init PROVE Informed /\ Following
    OBVIOUS
  <2>1. Len(sent) = 0 /\ stripe.sub = "none" /\ acked = {} /\ seen = {} /\ wallet = 0
        /\ account.plan = "free" /\ account.status = "active"
        /\ \A h \in Handlers : handler[h].pc = "idle"
    BY DEF Init, Idle
  <2>2. Informed
    BY <2>1 DEF Informed, Telling, Viewing, Indebted, Latest
  <2> QED BY <2>1, <2>2 DEF Following, InTurn, Mirrored, Mirror
<1>2. Sound /\ Calm /\ Informed /\ Following /\ [Next]_vars => (Informed /\ Following)'
  BY NextFollows
<1> QED BY <1>1, <1>2, SoundAlways, CalmAlways, PTL DEF Safe

\* With every event acknowledged and nobody at work the last event is done.
LEMMA FollowingSafe == ASSUME Sound, Informed, Following PROVE MirrorsStripe
<1> SUFFICES ASSUME setting.calm, acked = DOMAIN sent, \A h \in Handlers : handler[h].pc = "idle"
             PROVE  Mirror /\ (wallet < 0 => account.status = "suspended")
  BY DEF MirrorsStripe, Mirror
<1>1. Typed /\ Serving /\ Telling /\ Indebted /\ InTurn /\ Mirrored
  BY DEF Sound, Informed, Following
<1>2. acked = 1..Len(sent)
  BY <1>1, LenProperties DEF Typed
<1>3. ASSUME NEW i \in 1..Len(sent) PROVE Done(i)
  BY <1>1, <1>2, <1>3 DEF Done, InTurn, Serving
<1>4. Mirror
  <2>1. CASE stripe.sub = "none"
    BY <1>1, <2>1 DEF Mirrored
  <2>2. CASE stripe.sub # "none"
    <3>1. PICK i \in 1..Len(sent) : Latest(i)
      BY <1>1, <2>2 DEF Telling
    <3> QED BY <1>1, <1>3, <3>1 DEF Mirrored
  <2> QED BY <2>1, <2>2
<1> QED BY <1>1, <1>4 DEF Indebted

-----------------------------------------------------------------------------
(* Results                                                                 *)

\* Every variable keeps its type: a request never outruns the events that
\* were sent, and the refunds never exceed the price.
THEOREM Typing == Spec => []TypeOK
<1>1. Sound => TypeOK
  BY SoundSafe
<1> QED BY <1>1, SoundAlways, PTL DEF Spec

\* However events are lost, repeated, reordered or abandoned half way, by
\* however many handlers at once: the payment is credited at most once and only
\* when it was made, and the refund rows add up to the largest total applied,
\* which is never more than Stripe paid back (RecordTopup, recordPaymentRefund).
THEOREM PaymentsAlwaysAddUp == Spec => []PaymentsAddUp
<1>1. Sound => PaymentsAddUp
  BY SoundSafe
<1> QED BY <1>1, SoundAlways, PTL DEF Spec

\* Where Stripe sends one event at a time and nothing worse happens than a
\* call that fails or an answer that is lost, the payment and each refund that
\* is acknowledged has its row, whatever was failed and retried before.
THEOREM AcknowledgedIsRecorded == Spec => []AckedIsRecorded
<1>1. Sound /\ Calm => AckedIsRecorded
  BY DEF Calm, Kept, Recorded, Marked, AckedIsRecorded
<1> QED BY <1>1, SoundAlways, CalmAlways, PTL DEF Spec

\* Where Stripe sends one event at a time, and calls may fail and answers be
\* lost, the account ends up as the subscription is: in its plan, in its
\* standing, or suspended when a refund took more than was left. What makes it
\* so is that the last event of every change reports the state itself or has it
\* fetched, and that no earlier one can be at work any more.
THEOREM AccountFollows == Spec => []MirrorsStripe
<1>1. Sound /\ Informed /\ Following => MirrorsStripe
  BY FollowingSafe
<1> QED BY <1>1, SoundAlways, FollowingAlways, PTL DEF Spec
=============================================================================
