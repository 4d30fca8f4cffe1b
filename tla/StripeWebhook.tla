----------------------------- MODULE StripeWebhook -----------------------------
(***************************************************************************)
(* Payment events from Stripe and what the billing service makes of them.  *)
(* Stripe retries an event until it is answered with success, and may send *)
(* events late, twice and in any order. The handler records the event's id *)
(* first, then applies the event, and takes the id back if that failed.    *)
(* One account, one top-up (a payment of Price) and one subscription.      *)
(***************************************************************************)
EXTENDS Integers, Sequences, FiniteSetsExt

CONSTANTS
  Handlers,       \* requests the replicas serve at the same time
  Price,          \* principal of the top-up, in ledger units
  Settings        \* worlds a behaviour may begin in

AllFaults == {"error", "cancel", "crash", "overlap", "lost_reply"}

(* A setting: the requests served at the same time, what may go wrong, how     *)
(* often, how many events Stripe emits (both bounds), whether it sends one     *)
(* only when all earlier ones are answered, and whether that world is calm     *)
(* enough to ask what is acknowledged to be recorded: one event at a time, and *)
(* nothing worse than a call that fails or an answer that gets lost.           *)
ASSUME WebhookAssumption ==
  /\ Price \in Nat \ {0}
  /\ Settings \subseteq [handlers : SUBSET Handlers, faults : SUBSET AllFaults, ordered : BOOLEAN,
                         calm : BOOLEAN, events : Nat, errors : Nat]
  /\ \A s \in Settings : s.calm => s.ordered /\ s.faults \subseteq {"error", "lost_reply"}

VARIABLES
  setting,        \* the world of this behaviour
  stripe,         \* the truth: [paid, refunded, sub]
  sent,           \* events emitted; an event's id is its index
  acked,          \* ids Stripe got a success for: never sent again
  seen,           \* stripe_events: ids recorded as handled
  topup,          \* number of topup rows of the payment, each credited once
  refundKeys,     \* totals of the refund rows, their key being charge and total
  debited,        \* sum of the refund rows
  wallet,         \* billing_accounts.wallet_usd
  membership,     \* memberships.status, "none" without a row
  account,        \* [plan, status] of billing_accounts
  handler,        \* the request each handler serves
  errors          \* faults used up

vars == <<setting, stripe, sent, acked, seen, topup, refundKeys, debited, wallet,
          membership, account, handler, errors>>
purse == <<topup, refundKeys, debited, wallet>>
store == <<purse, membership, account>>

SubStates == {"none", "active", "past_due", "canceled"}
Kinds == {"paid", "refund", "checkout", "subscription", "invoice", "failed", "deleted"}
Idle == [pc |-> "idle", id |-> 0, view |-> "none", cancelled |-> FALSE]

Init ==
  /\ setting \in Settings
  /\ stripe = [paid |-> FALSE, refunded |-> 0, sub |-> "none"]
  /\ sent = <<>> /\ acked = {} /\ seen = {}
  /\ topup = 0 /\ refundKeys = {} /\ debited = 0 /\ wallet = 0
  /\ membership = "none"
  /\ account = [plan |-> "free", status |-> "active"]
  /\ handler = [h \in Handlers |-> Idle]
  /\ errors = 0

-----------------------------------------------------------------------------
(* What happens at Stripe; every change emits its events.                  *)

Event(kind, total, sub) == [sub |-> sub, kind |-> kind, total |-> total]
Plain(kind) == Event(kind, 0, "none")

Emit(events) ==
  /\ Len(sent) + Len(events) <= setting.events
  /\ sent' = sent \o events
  /\ UNCHANGED <<setting, acked, seen, store, handler, errors>>

Pay ==
  /\ ~stripe.paid
  /\ stripe' = [stripe EXCEPT !.paid = TRUE]
  /\ Emit(<<Plain("paid")>>)

RefundCharge(n) ==
  /\ stripe.paid /\ stripe.refunded + n <= Price
  /\ stripe' = [stripe EXCEPT !.refunded = @ + n]
  /\ Emit(<<Event("refund", stripe.refunded + n, "none")>>)

ChangeSub(from, to, events) ==
  /\ stripe.sub \in from
  /\ stripe' = [stripe EXCEPT !.sub = to]
  /\ Emit(events)

Subscribe == ChangeSub({"none"}, "active",
               <<Plain("checkout"), Event("subscription", 0, "active"), Plain("invoice")>>)
MissPayment == ChangeSub({"active"}, "past_due",
                 <<Plain("failed"), Event("subscription", 0, "past_due")>>)
Recover == ChangeSub({"past_due"}, "active",
             <<Plain("invoice"), Event("subscription", 0, "active")>>)
Cancel == ChangeSub({"active", "past_due"}, "canceled", <<Plain("deleted")>>)

StripeStep ==
  \/ Pay \/ Subscribe \/ MissPayment \/ Recover \/ Cancel
  \/ \E n \in 1..Price : RefundCharge(n)

(* Usage debited by the ledger in the meantime. *)
Spend ==
  /\ wallet > 0
  /\ wallet' = wallet - 1
  /\ UNCHANGED <<setting, stripe, sent, acked, seen, topup, refundKeys, debited,
                 membership, account, handler, errors>>

-----------------------------------------------------------------------------
(* A delivery: HandleWebhook.                                              *)

Deliverable(id) ==
  /\ id \in DOMAIN sent /\ id \notin acked
  /\ setting.ordered => 1..(id - 1) \subseteq acked
  /\ "overlap" \notin setting.faults => \A h \in Handlers : handler[h].id # id

(* StripeEventSeen commits the id before anything else happens; an id that *)
(* is there already is answered "duplicate" with success at once.          *)
Receive(h, id) ==
  /\ h \in setting.handlers /\ handler[h].pc = "idle" /\ Deliverable(id)
  /\ IF id \in seen
     THEN /\ acked' = acked \union {id}
          /\ UNCHANGED <<seen, handler>>
     ELSE /\ seen' = seen \union {id}
          /\ handler' = [handler EXCEPT ![h] = [Idle EXCEPT !.pc = "process", !.id = id]]
          /\ UNCHANGED acked
  /\ UNCHANGED <<setting, stripe, sent, store, errors>>

Handling(h, pc, kinds) == handler[h].pc = pc /\ sent[handler[h].id].kind \in kinds
Goto(h, pc) == handler' = [handler EXCEPT ![h].pc = pc]

(* RecordTopup: a payment that has its row already is a success too. *)
Topup(h) ==
  /\ Handling(h, "process", {"paid"})
  /\ IF topup > 0
     THEN UNCHANGED <<topup, wallet>>
     ELSE topup' = topup + 1 /\ wallet' = wallet + Price
  /\ Goto(h, "done")
  /\ UNCHANGED <<setting, stripe, sent, acked, seen, refundKeys, debited, membership, account, errors>>

(* Mutant: every event is taken for a refund of its own. *)
SingleDelta(total) == Max({0, Min({total, Price - debited})})

(* refundDeltaTx: events carry cumulative totals, capped by the principal. *)
RefundDelta(total) == Max({0, Min({total - debited, Price - debited})})

(* charge.refunded: without a topup row the event is taken for a refund of *)
(* something else and acknowledged.                                        *)
Refund(h) ==
  /\ Handling(h, "process", {"refund"})
  /\ LET total == sent[handler[h].id].total
         delta == RefundDelta(total)
     IN IF topup = 0 \/ total \in refundKeys \/ delta = 0
        THEN UNCHANGED <<refundKeys, debited, wallet, account>>
        ELSE /\ refundKeys' = refundKeys \union {total}
             /\ debited' = debited + delta
             /\ wallet' = wallet - delta
             /\ account' = IF wallet - delta < 0
                           THEN [account EXCEPT !.status = "suspended"] ELSE account
  /\ Goto(h, "done")
  /\ UNCHANGED <<setting, stripe, sent, acked, seen, topup, membership, errors>>

(* GetSubscription: the state Stripe has now, read before it is applied.   *)
Fetch(h) ==
  /\ Handling(h, "process", {"checkout", "invoice", "failed"})
  /\ handler' = [handler EXCEPT ![h].pc = "fetched", ![h].view = stripe.sub]
  /\ UNCHANGED <<setting, stripe, sent, acked, seen, store, errors>>

(* The status an event asks for: its payload, what was fetched, or past_due. *)
Reported(h) ==
  LET e == sent[handler[h].id]
  IN CASE e.kind = "subscription" -> e.sub
       [] e.kind = "failed" -> "past_due"
       [] OTHER -> handler[h].view

PlanFor(status) == IF status = "canceled" THEN "free" ELSE "member"
StatusFor(status) ==
  IF account.status = "suspended" THEN "suspended"
  ELSE IF status = "past_due" THEN "past_due" ELSE "active"

(* ApplyMembership overwrites the row with what the event reports. *)
Apply(h) ==
  /\ \/ Handling(h, "process", {"subscription"})
     \/ Handling(h, "fetched", {"checkout", "invoice", "failed"})
  /\ membership' = Reported(h)
  /\ account' = [plan |-> PlanFor(Reported(h)), status |-> StatusFor(Reported(h))]
  /\ Goto(h, "done")
  /\ UNCHANGED <<setting, stripe, sent, acked, seen, purse, errors>>

(* Mutant: only the membership's row is ended. *)
EndRowOnly(h) ==
  /\ Handling(h, "process", {"deleted"})
  /\ membership' = IF membership = "none" THEN "none" ELSE "ended"
  /\ Goto(h, "done")
  /\ UNCHANGED <<setting, stripe, sent, acked, seen, purse, account, errors>>

(* EndMembership: nothing to do without a row. *)
End(h) ==
  /\ Handling(h, "process", {"deleted"})
  /\ IF membership = "none"
     THEN UNCHANGED <<membership, account>>
     ELSE /\ membership' = "ended"
          /\ account' = [plan |-> "free",
                         status |-> IF account.status = "suspended" THEN "suspended" ELSE "active"]
  /\ Goto(h, "done")
  /\ UNCHANGED <<setting, stripe, sent, acked, seen, purse, errors>>

(* A success Stripe may never get to see. *)
Reply(h) ==
  /\ handler[h].pc = "done"
  /\ handler' = [handler EXCEPT ![h] = Idle]
  /\ acked' = acked \union {handler[h].id}
  /\ UNCHANGED <<setting, stripe, sent, seen, store, errors>>

UseFault(fault) == fault \in setting.faults /\ errors < setting.errors /\ errors' = errors + 1

LoseReply(h) ==
  /\ handler[h].pc = "done" /\ UseFault("lost_reply")
  /\ handler' = [handler EXCEPT ![h] = Idle]
  /\ UNCHANGED <<setting, stripe, sent, acked, seen, store>>

(* A call to the database or to Stripe fails, the read that follows the    *)
(* commit included.                                                        *)
Fail(h) ==
  /\ handler[h].pc \in {"process", "fetched", "done"} /\ UseFault("error")
  /\ Goto(h, "failed")
  /\ UNCHANGED <<setting, stripe, sent, acked, seen, store>>

(* Stripe hangs up: the request's context ends, and with it every call that *)
(* uses it.                                                                 *)
HangUp(h) ==
  /\ handler[h].pc \in {"process", "fetched", "done"} /\ UseFault("cancel")
  /\ handler' = [handler EXCEPT ![h].pc = "failed", ![h].cancelled = TRUE]
  /\ UNCHANGED <<setting, stripe, sent, acked, seen, store>>

(* Mutant: a failed event keeps its id. *)
ForgetNothing(h) ==
  /\ handler[h].pc = "failed"
  /\ handler' = [handler EXCEPT ![h] = Idle]
  /\ UNCHANGED <<setting, stripe, sent, acked, seen, store, errors>>

(* ForgetStripeEvent runs under the same context, its error ignored, and   *)
(* the answer is an error: Stripe will retry.                              *)
Forget(h) ==
  /\ handler[h].pc = "failed"
  /\ seen' = IF handler[h].cancelled THEN seen ELSE seen \ {handler[h].id}
  /\ handler' = [handler EXCEPT ![h] = Idle]
  /\ UNCHANGED <<setting, stripe, sent, acked, store, errors>>

Crash(h) ==
  /\ handler[h].pc # "idle" /\ UseFault("crash")
  /\ handler' = [handler EXCEPT ![h] = Idle]
  /\ UNCHANGED <<setting, stripe, sent, acked, seen, store>>

Serve(h) == Topup(h) \/ Refund(h) \/ Fetch(h) \/ Apply(h) \/ End(h) \/ Reply(h) \/ Forget(h)

Next ==
  \/ StripeStep \/ Spend
  \/ \E h \in Handlers :
       \/ \E id \in DOMAIN sent : Receive(h, id)
       \/ Serve(h) \/ LoseReply(h) \/ Fail(h) \/ HangUp(h) \/ Crash(h)

(* A handler that runs goes on, and Stripe keeps retrying what was not     *)
(* answered with success.                                                  *)
Fairness ==
  /\ \A h \in Handlers : WF_vars(Serve(h))
  /\ WF_vars(\E h \in Handlers, id \in DOMAIN sent : Receive(h, id))

Safe == Init /\ [][Next]_vars
Spec == Safe /\ Fairness

-----------------------------------------------------------------------------
(* Properties                                                              *)

Wanted == {"none", "ended"} \union SubStates
TypeOK ==
  /\ setting \in Settings
  /\ stripe \in [paid : BOOLEAN, refunded : 0..Price, sub : SubStates]
  /\ \A i \in DOMAIN sent : sent[i] \in [kind : Kinds, total : 0..Price, sub : SubStates]
  /\ acked \subseteq DOMAIN sent /\ seen \subseteq DOMAIN sent
  /\ topup \in Nat /\ refundKeys \subseteq 1..Price /\ debited \in Nat /\ wallet \in Int
  /\ membership \in Wanted
  /\ account \in [plan : {"free", "member"}, status : {"active", "past_due", "suspended"}]
  /\ handler \in [Handlers -> [pc : {"idle", "process", "fetched", "done", "failed"},
                               id : 0..setting.events, view : SubStates, cancelled : BOOLEAN]]
  /\ errors \in 0..setting.errors

(* Whatever is lost, repeated, overtaken or abandoned half way, a payment is *)
(* credited at most once and never without having been made (RecordTopup,   *)
(* "exactly once per Stripe object"), and the refunds debited are the       *)
(* largest total of any refund event applied (RecordChargeRefund): no       *)
(* earlier refund a second time, and never more than Stripe paid back.      *)
PaymentsAddUp ==
  /\ topup <= (IF stripe.paid THEN 1 ELSE 0)
  /\ debited = Max(refundKeys \union {0})
  /\ debited <= stripe.refunded

(* A payment or a refund Stripe was told is taken care of has its row: what *)
(* is acknowledged will never be sent again. *)
AckedIsRecorded ==
  setting.calm => \A id \in acked :
    /\ sent[id].kind = "paid" => topup > 0
    /\ sent[id].kind = "refund" => debited >= sent[id].total

(* When every event has been answered with success and none is in hand, the *)
(* account has the plan and the standing its subscription has at Stripe, but *)
(* for one that was suspended in debt: no membership event that came after   *)
(* the refund puts it back to work (ApplyMembership, EndMembership).         *)
MirrorsStripe ==
  (setting.calm /\ acked = DOMAIN sent /\ \A h \in Handlers : handler[h].pc = "idle") =>
    /\ account.plan = IF stripe.sub \in {"active", "past_due"} THEN "member" ELSE "free"
    /\ account.status # "suspended" =>
         (account.status = "past_due" <=> stripe.sub = "past_due")
    /\ wallet < 0 => account.status = "suspended"

(* A payment made at Stripe reaches the wallet in the end, and so does what *)
(* Stripe pays back. *)
PaymentLands ==
  /\ setting.calm /\ stripe.paid ~> topup = 1
  /\ \A n \in 1..Price : setting.calm /\ stripe.refunded = n ~> debited >= n

(* "EndMembership is the terminal subscription state": no later event takes *)
(* a membership out of it. *)
EndedIsTerminal == [][membership = "ended" => membership' = "ended"]_vars
=============================================================================
