--------------------------- MODULE TranslationReplay ---------------------------
(***************************************************************************)
(* One real-time translation request, identified by its client, that may   *)
(* be sent again at any time over any connection. A durable row decides    *)
(* who calls the provider, each attempt reserves usage under a key of its  *)
(* own, and the stored result is replayed instead of being paid twice.     *)
(* A worker that is silent for StaleAfter loses its claim.                 *)
(***************************************************************************)
EXTENDS Integers, FiniteSetsExt

CONSTANTS
  Workers,
  StaleAfter,     \* age at which a reserved row may be taken over (105 s)
  ReserveBound,   \* time RecordUsage takes, its automatic top-up included
  ProviderBound,  \* provider timeout (25 s)
  TailBound,      \* deadline of Fail, Settle and Cancel (10 s)
  Retention,      \* life of a row after it was written (7 days)
  Disturbed,      \* TRUE: other requests may run between a claim's statements
  MaxAttempt,     \* bound on attempts; the code's is 2^31 - 1
  MaxTime         \* bound on the clock

ASSUME ReplayAssumption ==
  /\ {StaleAfter, ReserveBound, ProviderBound, TailBound, Retention, MaxTime} \subseteq Nat
  /\ Disturbed \in BOOLEAN
  /\ MaxAttempt \in Nat \ {0} /\ Retention >= StaleAfter

VARIABLES
  row,            \* translation_request_results: [state, attempt, started, expires]
  usage,          \* usage_logs, per attempt
  worker,         \* [pc, attempt, seen, deadline]
  now

vars == <<row, usage, worker, now>>

Attempts == 1..MaxAttempt
NoRow == [state |-> "none", attempt |-> 0, started |-> 0, expires |-> 0]
Idle == [pc |-> "idle", attempt |-> 0, seen |-> 0, paid |-> FALSE, deadline |-> 0]
Active == {"reserve", "provide", "settle", "fail", "cancel"}

Init ==
  /\ row = NoRow /\ usage = [a \in Attempts |-> "none"]
  /\ worker = [w \in Workers |-> Idle] /\ now = 0

At(w, pc) == worker[w].pc = pc
Goto(w, pc, bound) ==
  worker' = [worker EXCEPT ![w].pc = pc, ![w].deadline = now + bound]
Answer(w) == worker' = [worker EXCEPT ![w] = Idle]
Owns(w) == row.state = "reserved" /\ row.attempt = worker[w].attempt

Put(state, attempt) ==
  row' = [state |-> state, attempt |-> attempt, started |-> now, expires |-> now + Retention]

-----------------------------------------------------------------------------
(* ClaimTranslationRequest. It reads the newest usage row without a lock    *)
(* and only then looks for the request's row.                               *)

Latest == Max({a \in Attempts : usage[a] # "none"} \union {0})
Paid == Latest > 0 /\ usage[Latest] # "refunded"

ReadHistory(w) ==
  /\ At(w, "idle")
  /\ worker' = [worker EXCEPT ![w] = [Idle EXCEPT !.pc = "claim", !.seen = Latest,
                                         !.paid = Paid, !.deadline = now + TailBound]]
  /\ UNCHANGED <<row, usage, now>>

Own(w, attempt) ==
  worker' = [worker EXCEPT ![w] = [Idle EXCEPT !.pc = "reserve", !.attempt = attempt,
                                               !.deadline = now + ReserveBound]]

(* Mutant: without a row, every request starts afresh. *)
ClaimForgetful(w) ==
  /\ At(w, "claim") /\ row.state = "none" /\ worker[w].seen < MaxAttempt
  /\ Put("reserved", worker[w].seen + 1) /\ Own(w, worker[w].seen + 1)
  /\ UNCHANGED <<usage, now>>

(* No row: a first attempt, the one after a refunded one, or a tombstone if *)
(* the request was paid and its result is gone.                             *)
ClaimFirst(w) ==
  LET next == worker[w].seen + 1 IN
  /\ At(w, "claim") /\ row.state = "none"
  /\ Disturbed \/ (worker[w].seen = Latest /\ worker[w].paid = Paid)
  /\ IF worker[w].paid
     THEN Put("expired", worker[w].seen) /\ Answer(w)
     ELSE next <= MaxAttempt /\ Put("reserved", next) /\ Own(w, next)
  /\ UNCHANGED <<usage, now>>

Stale == row.state = "reserved" /\ now - row.started >= StaleAfter

(* Replayed, refused because it is in hand, or gone for good. *)
ClaimAnswered(w) ==
  /\ At(w, "claim")
  /\ row.state \in {"completed", "expired"} \/ (row.state = "reserved" /\ ~Stale)
  /\ IF row.state = "completed" /\ row.expires <= now
     THEN row' = [row EXCEPT !.state = "expired", !.expires = now + Retention]
     ELSE UNCHANGED row
  /\ Answer(w)
  /\ UNCHANGED <<usage, now>>

(* Mutant: the abandoned attempt is not refunded. *)
NoRefund(a) == usage

RefundIfExists(a) ==
  IF usage[a] = "reserved" THEN [usage EXCEPT ![a] = "refunded"] ELSE usage

(* A failed attempt is followed by the next; a stale one is refunded first. *)
ClaimNext(w) ==
  LET next == row.attempt + 1 IN
  /\ At(w, "claim") /\ (row.state = "failed" \/ Stale) /\ next <= MaxAttempt
  /\ usage' = IF Stale THEN RefundIfExists(row.attempt) ELSE usage
  /\ Put("reserved", next) /\ Own(w, next)
  /\ UNCHANGED now

-----------------------------------------------------------------------------
(* The owner: reserve, call the provider, then settle or fail.              *)

(* A usage row under the attempt's key means somebody else is at it. *)
Reserve(w) ==
  LET a == worker[w].attempt IN
  /\ At(w, "reserve")
  /\ IF usage[a] = "none"
     THEN /\ usage' = [usage EXCEPT ![a] = "reserved"]
          /\ \/ Goto(w, "provide", ProviderBound)
             \/ Goto(w, "cancel", TailBound)       \* committed, reported as an error
     ELSE Answer(w) /\ UNCHANGED usage
  /\ UNCHANGED <<row, now>>

(* The balance does not cover it, or the paid flow was stopped. *)
GiveUpReserving(w) ==
  /\ At(w, "reserve") /\ Goto(w, "cancel", TailBound)
  /\ UNCHANGED <<row, usage, now>>

Provide(w) ==
  /\ At(w, "provide")
  /\ Goto(w, "settle", TailBound) \/ Goto(w, "fail", TailBound)
  /\ UNCHANGED <<row, usage, now>>

(* Mutant: the result is stored first, in a transaction of its own. *)
StoreUnsettled(w) ==
  /\ At(w, "settle")
  /\ row' = IF Owns(w) THEN [row EXCEPT !.state = "completed", !.expires = now + Retention] ELSE row
  /\ Answer(w) /\ UNCHANGED <<usage, now>>

(* SettleTranslationRequest: charge and result in one transaction. Without  *)
(* the claim it is an error, and the result is sent all the same.           *)
Settle(w) ==
  /\ At(w, "settle")
  /\ IF Owns(w) /\ usage[row.attempt] = "reserved"
     THEN /\ usage' = [usage EXCEPT ![row.attempt] = "settled"]
          /\ row' = [row EXCEPT !.state = "completed", !.expires = now + Retention]
     ELSE UNCHANGED <<row, usage>>
  /\ Answer(w) /\ UNCHANGED now

(* FailTranslationRequest refunds and leaves a marker. *)
FailRequest(w) ==
  /\ At(w, "fail")
  /\ IF Owns(w)
     THEN /\ usage' = RefundIfExists(row.attempt)
          /\ row' = [row EXCEPT !.state = "failed"]
     ELSE UNCHANGED <<row, usage>>
  /\ Answer(w) /\ UNCHANGED now

(* CancelTranslationRequest removes a claim that was not charged. *)
CancelRequest(w) ==
  /\ At(w, "cancel")
  /\ row' = IF Owns(w) /\ usage[row.attempt] = "none" THEN NoRow ELSE row
  /\ Answer(w) /\ UNCHANGED <<usage, now>>

(* The worker dies, or the transaction it is in fails. *)
Abandon(w) ==
  /\ worker[w].pc # "idle" /\ Answer(w)
  /\ UNCHANGED <<row, usage, now>>

(* Finished rows past their retention are deleted by any request's claim.   *)
Cleanup ==
  /\ row.state \in {"completed", "failed", "expired"} /\ row.expires <= now
  /\ row' = NoRow
  /\ UNCHANGED <<usage, worker, now>>

Tick ==
  /\ now < MaxTime
  /\ \A w \in Workers : At(w, "idle") \/ now < worker[w].deadline
  /\ now' = now + 1
  /\ UNCHANGED <<row, usage, worker>>

Next ==
  \/ Tick \/ Cleanup
  \/ \E w \in Workers :
       \/ ReadHistory(w) \/ ClaimFirst(w) \/ ClaimAnswered(w) \/ ClaimNext(w)
       \/ Reserve(w) \/ GiveUpReserving(w) \/ Provide(w)
       \/ Settle(w) \/ FailRequest(w) \/ CancelRequest(w) \/ Abandon(w)

Spec == Init /\ [][Next]_vars

-----------------------------------------------------------------------------
(* Properties                                                              *)

TypeOK ==
  /\ row \in [state : {"none", "reserved", "completed", "failed", "expired"},
              attempt : 0..MaxAttempt, started : 0..MaxTime, expires : Nat]
  /\ usage \in [Attempts -> {"none", "reserved", "settled", "refunded"}]
  /\ worker \in [Workers -> [pc : {"idle", "claim"} \union Active, attempt : 0..MaxAttempt,
                             seen : 0..MaxAttempt, paid : BOOLEAN, deadline : Nat]]
  /\ now \in 0..MaxTime

(* However often a request is sent, and by whichever workers it is taken    *)
(* up, it is paid for once: also when its result has expired and its row is *)
(* gone. *)
PaidOnce == Cardinality({a \in Attempts : usage[a] = "settled"}) <= 1

(* A reservation that is still charged belongs to the claim in force, whose *)
(* owner or successor will settle or refund it: "a stale reservation is     *)
(* refunded inside the same transaction before a new attempt is issued".    *)
NoneStranded ==
  \A a \in Attempts : usage[a] = "reserved" => row.state = "reserved" /\ row.attempt = a

(* A worker between its claim and its settlement has that claim, and nobody *)
(* else works on the attempt: the stale threshold never robs a live owner.  *)
OwnerKeepsClaim ==
  /\ \A w \in Workers : worker[w].pc \in Active => Owns(w)
  /\ \A v, w \in Workers :
       worker[v].pc \in Active /\ worker[w].pc \in Active => v = w

(* A result is stored exactly when its attempt is charged, so a replay is   *)
(* never free and a refund never leaves a result behind. *)
StoredIsPaid ==
  /\ row.state = "completed" => usage[row.attempt] = "settled"
  /\ \A a \in Attempts : usage[a] = "settled" =>
       row.state \in {"none", "completed", "expired"} /\ row.attempt \in {0, a}

-----------------------------------------------------------------------------
(* The row and the usage of the request as one claim: paid for good once an *)
(* attempt is settled, owned by who is between its claim and its outcome.   *)

Owners == {w \in Workers : worker[w].pc \in Active}
ClaimState ==
  IF \E a \in Attempts : usage[a] = "settled" THEN "paid"
  ELSE IF row.state = "reserved" THEN "held" ELSE row.state

R == INSTANCE RequestClaim WITH state <- ClaimState, owners <- Owners

(* The row keeps what RequestClaim promises.                                *)
ImplementsClaim == R!Spec
=============================================================================
