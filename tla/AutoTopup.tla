------------------------------- MODULE AutoTopup -------------------------------
(***************************************************************************)
(* Automatic top-ups of one account. Any request that finds the wallet low *)
(* may start one; an advisory lock on a database connection keeps them     *)
(* apart, an attempt row written before the card is touched gives the      *)
(* charge its idempotency key, and an attempt whose outcome is unknown is  *)
(* taken up again by later requests until the key may have expired.        *)
(* What makes a request want a top-up (the threshold, the plan, a          *)
(* shortfall) is left open: any worker may start at any time.              *)
(***************************************************************************)
EXTENDS Integers, Sequences, FiniteSets

CONSTANTS
  Workers,        \* requests that may run maybeAutoTopup
  Cooldown,       \* 5 minutes: rest after a finished attempt
  GiveUp,         \* 23 hours: age up to which a pending attempt is retried
  CallBound,      \* longest time one call takes
  KeyLifetime,    \* 24 hours: how long Stripe remembers an idempotency key
  Refusals,       \* TRUE: a retry may be refused without looking at the payment
  MaxAttempts,    \* bound on attempts
  MaxTime,        \* bound on the clock
  MaxFaults       \* bound on failing calls, lost connections and crashes

ASSUME TopupAssumption ==
  /\ {Cooldown, GiveUp, CallBound, KeyLifetime, MaxAttempts, MaxTime, MaxFaults} \subseteq Nat
  /\ Refusals \in BOOLEAN
  /\ GiveUp + CallBound < KeyLifetime

VARIABLES
  attempts,       \* auto_topup_attempts: [status, created, saved]
  keys,           \* Stripe, per attempt: [outcome, params, used]
  charges,        \* Stripe, per attempt: how often the card was charged
  credited,       \* payment intents with a topup row, as <<attempt, charge>>
  lock,           \* holders of the advisory lock
  worker,         \* where each request is
  quotes,         \* payment requests prepared so far; no two are equal
  clock, faults

topupVars == <<attempts, keys, charges, credited, lock, worker, quotes, clock, faults>>
stripe == <<keys, charges>>

Ids == 1..MaxAttempts
UnusedKey == [outcome |-> "none", params |-> 0, used |-> 0]
NoRow == [status |-> "none", created |-> 0, saved |-> 0]
Idle == [pc |-> "idle", since |-> 0, conn |-> FALSE, row |-> NoRow,
         id |-> 0, request |-> 0, intent |-> 0, result |-> "none"]

TopupInit ==
  /\ attempts = <<>> /\ credited = {}
  /\ keys = [a \in Ids |-> UnusedKey] /\ charges = [a \in Ids |-> 0]
  /\ lock = {} /\ worker = [w \in Workers |-> Idle]
  /\ quotes = 0 /\ clock = 0 /\ faults = 0

At(w, pc) == worker[w].pc = pc
Goto(w, pc) == worker' = [worker EXCEPT ![w].pc = pc]
UseFault == faults < MaxFaults /\ faults' = faults + 1

-----------------------------------------------------------------------------
(* maybeAutoTopup                                                          *)

(* A worker that does not get the lock has nothing to do. *)
Start(w) ==
  /\ At(w, "idle") /\ lock = {}
  /\ lock' = {w}
  /\ worker' = [worker EXCEPT ![w] = [Idle EXCEPT !.pc = "read", !.since = clock, !.conn = TRUE]]
  /\ UNCHANGED <<attempts, stripe, credited, quotes, clock, faults>>

(* The unlock that every return runs; it ends with the connection.          *)
Leave(w) ==
  /\ worker' = [worker EXCEPT ![w] = Idle]
  /\ lock' = lock \ {w}

(* What is decided next is decided from the row read here. *)
ReadLatest(w) ==
  /\ At(w, "read") /\ worker[w].conn
  /\ worker' = [worker EXCEPT ![w].pc = "decide", ![w].id = Len(attempts),
                   ![w].row = IF attempts = <<>> THEN NoRow ELSE attempts[Len(attempts)]]
  /\ UNCHANGED <<attempts, stripe, credited, lock, quotes, clock, faults>>

(* Mutant: a pending attempt is retried however old it is. *)
NeverTooOld(row) == FALSE

TooOld(row) == row.status = "pending" /\ clock - row.created > GiveUp
Resting(row) == row.status \in {"succeeded", "failed"} /\ clock - row.created < Cooldown

(* An old pending attempt needs an operator; a recent finished one is left  *)
(* to rest.                                                                 *)
Refrain(w) ==
  /\ At(w, "decide") /\ (TooOld(worker[w].row) \/ Resting(worker[w].row))
  /\ Leave(w)
  /\ UNCHANGED <<attempts, stripe, credited, quotes, clock, faults>>

(* A pending attempt keeps its amount, customer and payment request. *)
Retry(w) ==
  /\ At(w, "decide") /\ worker[w].row.status = "pending" /\ ~TooOld(worker[w].row)
  /\ worker' = [worker EXCEPT ![w].pc = "prepare", ![w].request = worker[w].row.saved]
  /\ UNCHANGED <<attempts, stripe, credited, lock, quotes, clock, faults>>

(* A new attempt; the unique index allows one pending attempt an account.   *)
Begin(w) ==
  /\ At(w, "decide") /\ worker[w].conn
  /\ worker[w].row.status # "pending" /\ ~Resting(worker[w].row)
  /\ \A a \in DOMAIN attempts : attempts[a].status # "pending"
  /\ Len(attempts) < MaxAttempts
  /\ attempts' = Append(attempts, [status |-> "pending", created |-> clock, saved |-> 0])
  /\ worker' = [worker EXCEPT ![w].pc = "prepare", ![w].id = Len(attempts) + 1]
  /\ UNCHANGED <<stripe, credited, lock, quotes, clock, faults>>

(* AutoTopupHandler: amount, currency, card and rate are fixed once and     *)
(* saved, unless the row has a request already, before the first charge.    *)
Prepare(w) ==
  /\ At(w, "prepare")
  /\ IF worker[w].request # 0
     THEN Goto(w, "charge") /\ UNCHANGED <<attempts, quotes>>
     ELSE /\ worker[w].conn
          /\ quotes' = quotes + 1
          /\ attempts' = [attempts EXCEPT ![worker[w].id].saved = IF @ = 0 THEN quotes + 1 ELSE @]
          /\ worker' = [worker EXCEPT ![w].pc = "charge", ![w].request = quotes + 1]
  /\ UNCHANGED <<stripe, credited, lock, clock, faults>>

-----------------------------------------------------------------------------
(* Stripe: a key is remembered for KeyLifetime, and a call with a remembered *)
(* key gets the first answer again.                                         *)

Remembered(a) == keys[a].outcome # "none" /\ clock - keys[a].used < KeyLifetime

(* Mutant: whatever is not a success is a rejection. *)
ResultOrFailure(outcome) == IF outcome = "charged" THEN "credit" ELSE "rejected"

(* IsDefinitivePaymentRejection; an intent that has not succeeded yet is an *)
(* error that says nothing.                                                 *)
ResultOf(outcome) ==
  CASE outcome = "charged" -> "credit"
    [] outcome = "declined" -> "rejected"
    [] OTHER -> "unsure"

(* The call reaches Stripe; its answer may be lost. *)
Charge(w) ==
  LET a == worker[w].id IN
  /\ At(w, "charge")
  /\ \/ /\ ~Remembered(a)
        /\ \E outcome \in {"charged", "processing", "declined"} :
             /\ keys' = [keys EXCEPT ![a] =
                   [outcome |-> outcome, params |-> worker[w].request, used |-> clock]]
             /\ charges' = IF outcome = "charged"
                           THEN [charges EXCEPT ![a] = @ + 1] ELSE charges
     \/ Remembered(a) /\ UNCHANGED stripe
  /\ LET mine == keys'[a].params = worker[w].request
         result == IF mine THEN ResultOf(keys'[a].outcome) ELSE "unsure"
     IN \/ /\ worker' = [worker EXCEPT ![w].pc = IF result = "credit" THEN "credit" ELSE "finish",
                                        ![w].result = result, ![w].intent = charges'[a]]
           /\ UNCHANGED faults
        \/ /\ UseFault
           /\ worker' = [worker EXCEPT ![w].pc = "finish", ![w].result = "unsure"]
  /\ UNCHANGED <<attempts, credited, lock, quotes, clock>>

(* A 4xx that is not about the payment, such as a revoked API key. Without  *)
(* Refusals it only meets the first call of an attempt that nobody else is  *)
(* at.                                                                      *)
FirstCall(w) ==
  keys[worker[w].id].outcome = "none" /\ \A v \in Workers \ {w} : At(v, "idle")

Refuse(w) ==
  /\ At(w, "charge") /\ UseFault
  /\ Refusals \/ FirstCall(w)
  /\ worker' = [worker EXCEPT ![w].pc = "finish", ![w].result = "rejected"]
  /\ UNCHANGED <<attempts, stripe, credited, lock, quotes, clock>>

(* A payment that was processing goes through; its key still answers        *)
(* "processing".                                                            *)
GoThrough(a) ==
  /\ keys[a].outcome = "processing"
  /\ keys' = [keys EXCEPT ![a].outcome = "late"]
  /\ charges' = [charges EXCEPT ![a] = @ + 1]
  /\ UNCHANGED <<attempts, credited, lock, worker, quotes, clock, faults>>

-----------------------------------------------------------------------------
(* RecordTopup: a duplicate counts as success. *)
Credit(w) ==
  /\ At(w, "credit")
  /\ credited' = credited \union {<<worker[w].id, worker[w].intent>>}
  /\ Goto(w, "finish")
  /\ UNCHANGED <<attempts, stripe, lock, quotes, clock, faults>>

StatusFor(result) ==
  CASE result = "credit" -> "succeeded"
    [] result = "rejected" -> "failed"
    [] OTHER -> "pending"

(* The outcome is saved under a context of its own, over the connection.    *)
Finish(w) ==
  /\ At(w, "finish")
  /\ attempts' = IF worker[w].conn
                 THEN [attempts EXCEPT ![worker[w].id].status = StatusFor(worker[w].result)]
                 ELSE attempts
  /\ Leave(w)
  /\ UNCHANGED <<stripe, credited, quotes, clock, faults>>

(* Any call may fail. Before the handler runs that is the end of it; in the *)
(* handler the outcome is unknown; afterwards only the row stays behind.    *)
Fail(w) ==
  /\ worker[w].pc # "idle"
  /\ IF worker[w].conn THEN UseFault ELSE UNCHANGED faults
  /\ \/ worker[w].pc \in {"read", "decide", "finish"} /\ Leave(w)
     \/ /\ worker[w].pc \in {"prepare", "charge", "credit"}
        /\ worker' = [worker EXCEPT ![w].pc = "finish", ![w].result = "unsure"]
        /\ UNCHANGED lock
  /\ UNCHANGED <<attempts, stripe, credited, quotes, clock>>

(* The database ends the session: the lock is free while the worker goes on. *)
LoseConnection(w) ==
  /\ worker[w].conn /\ UseFault
  /\ worker' = [worker EXCEPT ![w].conn = FALSE]
  /\ lock' = lock \ {w}
  /\ UNCHANGED <<attempts, stripe, credited, quotes, clock>>

Crash(w) ==
  /\ ~At(w, "idle") /\ UseFault
  /\ Leave(w)
  /\ UNCHANGED <<attempts, stripe, credited, quotes, clock>>

(* Time passes while every call stays within CallBound. *)
ClockTick ==
  /\ clock < MaxTime
  /\ \A w \in Workers : ~At(w, "idle") => clock < worker[w].since + CallBound
  /\ clock' = clock + 1
  /\ UNCHANGED <<attempts, stripe, credited, lock, worker, quotes, faults>>

TopupNext ==
  \/ ClockTick \/ \E a \in Ids : GoThrough(a)
  \/ \E w \in Workers :
       \/ Start(w) \/ ReadLatest(w) \/ Refrain(w) \/ Retry(w) \/ Begin(w)
       \/ Prepare(w) \/ Charge(w) \/ Refuse(w) \/ Credit(w) \/ Finish(w)
       \/ Fail(w) \/ LoseConnection(w) \/ Crash(w)

TopupSpec == TopupInit /\ [][TopupNext]_topupVars

-----------------------------------------------------------------------------
(* Properties                                                              *)

Outcomes == {"none", "charged", "processing", "late", "declined"}
TopupTypeOK ==
  /\ attempts \in Seq([status : {"pending", "succeeded", "failed"}, created : Nat, saved : Nat])
  /\ Len(attempts) <= MaxAttempts
  /\ keys \in [Ids -> [outcome : Outcomes, params : Nat, used : Nat]]
  /\ charges \in [Ids -> Nat]
  /\ credited \subseteq Ids \X (Nat \ {0})
  /\ lock \subseteq Workers
  /\ worker \in [Workers ->
       [pc : {"idle", "read", "decide", "prepare", "charge", "credit", "finish"},
        since : Nat, conn : BOOLEAN, id : 0..MaxAttempts,
        row : [status : {"none", "pending", "succeeded", "failed"}, created : Nat, saved : Nat],
        request : Nat, intent : Nat, result : {"none", "credit", "rejected", "unsure"}]]
  /\ quotes \in Nat /\ clock \in Nat /\ faults \in 0..MaxFaults

(* However often an attempt is retried, by whichever worker and after       *)
(* whatever was lost, its card is charged at most once: retries stop before *)
(* Stripe forgets the key ("a retried call cannot charge twice").           *)
ChargedOnce == \A a \in Ids : charges[a] <= 1

(* Money taken from the card is in the wallet, or its attempt is still open *)
(* for a retry or an operator: it is never written off as failed, and never *)
(* closed as succeeded without the credit. What Stripe saw is the payment   *)
(* request the row keeps, so no retry asks for another amount or card.      *)
ChargeIsAccounted ==
  \A a \in DOMAIN attempts :
    /\ attempts[a].status # "pending" => \A n \in 1..charges[a] : <<a, n>> \in credited
    /\ keys[a].outcome # "none" => keys[a].params = attempts[a].saved

(* Nothing is credited that was not charged. *)
CreditIsCharged == \A c \in credited : c[2] \in 1..charges[c[1]]

=============================================================================
