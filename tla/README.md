# DreamTrans: TLA+ models of the backend

DreamTrans is a transcription, translation and study service: a Go backend
(`src/backend`), regional edge nodes, a web frontend, a browser extension and a
companion service. These modules model the parts of the backend where money,
leases, durable queues and messages meet: what several requests, workers,
retries and crashes can do to the same rows. `PROJECT.json` lists every
component, run, mutant, hazard and theorem, and maps each definition to the
lines it models.

Check a run with `tlc -config <name>.cfg <module>.tla` and the proofs with
`tlapm <module>Proofs.tla`.

## 1. Inventory

| Component | State | Operations | Hard behaviours | What makes it correct |
|---|---|---|---|---|
| **Billing ledger** (`billing/ledger.go`, `accounts.go`, `payments.go`) | accounts, grant lots, usage rows, ledger rows, payments | reserve (batch), settle, refund, grant, top-up, payment refund, adjust | lots expire while they are reserved; keys are reused; settlement above or below the reservation; batches with duplicates | money is neither made nor lost, keeps its funding class, and debt arises only where it was allowed |
| **Stripe webhook** (`handlers/billing_user.go`, `billing/payments.go`) | `stripe_events`, payments, memberships, plan and standing of the account | deliver, apply, release an event | at-least-once delivery in any order, failures behind a commit, hang-ups, crashes | paid once, refunded by the total, what is acknowledged is recorded, memberships as at Stripe |
| **Automatic top-up** (`billing/auto_topup.go`, `AutoTopupHandler`) | attempts, advisory lock, Stripe's idempotency keys | begin or retry an attempt, charge, credit, finish | lost answers, lost connections, keys that expire, bursts | a card is charged once per attempt, each charge is credited or open |
| **Durable translation requests** (`billing/translation_replay.go`, `handlers/websocket.go`) | one row per request, usage rows per attempt | claim, reserve, settle, fail, cancel, clean up | take-over of slow owners, claims in two statements, expiry | paid once, no charge without a claim, stored iff paid |
| **Translation websocket** (`handlers/websocket*.go`) | paragraphs, queue, in-flight registry, ordered results, barriers | submit, translate, replay, deliver in order, flush, switch session, end | parallel results, shared requests, eviction, a client that leaves | answers in order and to the right paragraph; what is paid is served and finished; nobody waits for ever |
| **Edge control plane** (`edgecontrol/`) | edge sessions, generations, budgets, journals, archive | authorise, connect, renew, apply events, reap, archive, cancel, delete | reordering, hand-over between nodes, late ends | each generation is settled once, to what it sent, and prepaid before it sends |
| **Edge runtime outbox** (`edgeruntime/queue.go`, `server.go`) | SQLite queue, counters, set-aside events | append, send, acknowledge, set aside, archive | lost calls and answers, restarts | no event is lost or renumbered; every end reaches the main site |
| **Main ingress lease** (`edgecontrol/main_ingress.go`) and **Speechmatics session proxy** (`handlers/speechmatics_*.go`, `live_streams.go`) | lease rows, local bounds, stream registry, reservations and usage of a stream | acquire, renew, release; reserve, forward, settle; terminate | two clocks, slow renewals, lost answers, termination while dialling | one writer per session; each byte prepaid; the bill is what was forwarded |
| **Session route discounts** (`billing/routing.go`) | discount ledger rows | discount a session at its end | failed settlement before the discount | computed from what was charged |
| **AI index jobs** (`store/ai_index_jobs.go`, `ai_semantic.go`, `handlers/ai_index.go`) | jobs with leases, fences, snapshots; sources and their vectors | create, claim, renew, embed, complete, fail, release, cancel, retry, expire, edit | leases lost to others, cancelled workers still paying, edits meanwhile, crash at the last attempt | one paid call per job, an active status has its job, a ready source has its vectors, jobs end |
| **Releases and admission** (`ops/release.go`, `ops/drain.go`, `deployment/runtime.go`) | journal `state.json`, containers and their mode files, the proxy's file and what it has loaded | deploy, check, switch, observe, drain, roll back, abort, resume; admit and finish work | commands that end between two steps, reboots, reloads without an answer | users always reach a colour that serves; a release can be finished and leaves one colour |
| AI generation, skill map, blob deletion, batch transcription | job rows with leases and attempts | claim, renew, complete, release, retry | as for the index jobs | a job has one owner and ends |
| Accounts, risk, agents, catalogue, statements, study, adapters, frontend, extension, YuAction | rows or pages of their own | CRUD, scoring, rendering | — | not modelled (section 6) |

How they interact: every paid operation reserves through the ledger
(`RecordUsageBatch`) before it calls a provider, then settles or refunds under
the same idempotency key. The webhook and the automatic top-up credit the
ledger (`RecordTopup`); the ledger starts automatic top-ups before, during and
after a reservation. Translation workers of a websocket claim a durable request
and reserve under the key of its attempt. A transcription stream runs either on
the main site, under a main lease, or on an edge node, under a generation of an
edge session; both admissions hold the same user lock and count one another.
The edge node's outbox carries its journal to the control plane, which settles
the generation against the ledger.

## 2. Modules

* **`BillingLedger`** — one account. One action is one database transaction,
  because every mutation takes the account's row lock first and commits or
  rolls back as a whole. `Debited` is the loop over open lots (gift before
  paid, earliest expiry first, the wallet last); `CreditUsageRefund` is the way
  back, including the replacement of expired lots. `posted` keeps, per usage
  row and lot, the net of `balance_transactions` and the transaction that wrote
  the first of them, which is what the refund orders its allocation by
  (`MIN(created_at)`). Amounts are integers: the code's rounding and
  `balanceEpsilon` are not modelled. Lots created in one transaction have equal
  `created_at`; SQL leaves their order open, the model takes the lot number.
* **`Purse`** — what the ledger promises whatever it is made of: a balance, and
  for each key a charge that is reserved, then settled or refunded; the balance
  loses exactly what the charges gain. `P` in `BillingLedger` is the
  refinement mapping: balance = wallet plus what remains in the lots.
* **`StripeWebhook`** — Stripe's side (the truth, the events it emits and
  retries until they are answered with success) and the handler's: `Receive` is
  `StripeEventSeen`, then one action per transaction or remote call (`Topup`,
  `Refund`, `Fetch`, `Apply`, `End`), then `Reply` or `Forget`. Faults are
  separate actions: a failing call, also after the commit (`Fail`), a cancelled
  request (`HangUp`), a lost answer, a crash, and overlapping deliveries.
* **`AutoTopup`** — `Start` takes the advisory lock, `ReadLatest` and its
  successors are the decision on the last attempt, `Prepare` saves the payment
  request, `Charge` is the idempotent call to Stripe, `Credit` and `Finish` the
  rest. `LoseConnection` frees the lock while the worker goes on, and
  everything that uses that connection fails from then on.
* **`TranslationReplay`** — one request. `ReadHistory` and the three `Claim*`
  actions are the two halves of `ClaimTranslationRequest`, which reads the usage
  history without a lock before it inserts or locks the request's row. The
  owner's steps follow `handlers/websocket.go`; every phase has its deadline.
* **`TranslationSocket`** — a user's connections in one process: the read loop
  numbers paragraphs, workers translate them, one goroutine writes the results
  by number. Plain clients send transcripts, which the flush timer turns into
  paragraphs; identified ones give request ids, which meet in the shared
  registry (`websocket_replay.go`) and in the durable claims, reduced here to
  one row a request (`TranslationReplay` has the detail). Summaries and
  retrieval are the auxiliary tasks of `Summarising` connections. One speaker
  talks; a translation's budget (90 s) ends before its registry entry counts as
  overdue (2 min), so only entries of connections that were cut grow overdue.
* **`EdgeSession`** — the control plane's rows and, per generation, the stream
  at its node with its journal, the calls arriving in any order and any number
  of times. An action is one transaction under the user's advisory lock. Nodes
  are honest about what they sent; a unit is one frame, so samples, provider
  samples and sequences move together; protocol 2 only. A call that changes
  nothing (a repeated grant, a refusal) is a stutter. Sends are not tied to the
  lease. A connect whose answer is lost leaves its prepayment to the reaper.
* **`EdgeOutbox`** — the node's queue and delivery loop on top of `EdgeSession`
  (which it EXTENDS): the main site's events, acks and archivals happen only
  through `Send` here. `Run` is split where its answer may be lost.
* **`MainStream`** — a user's transcription streams through the main site:
  lease, stream registry, meter and settlement, with edge grants as competitors
  (`EdgeGrant` is `Authorize` abstracted). Time is the ticks left on each
  countdown. A byte costs one unit and so does its translation.
  `StartRecognition` reserves without counting audio, as the code does. A
  write that fails is neither delivered nor counted.
* **`IndexJobs`** — a project's sources, each with one chunk, its jobs over the
  project or one source, and workers. A worker's name stands for the fresh
  fencing token of its claim. `cancel_requested_at` is set exactly when a job's
  status is cancelled, and so has no variable. `Cut` stands for all that ends a
  run's context (failed renewal, cancellation seen in the process, the 30 min
  limit); a lease lapses only once that has happened, as renewals keep it alive
  until then.
* **`Release`** — the host's `dreamtransctl` as one command at a time, a step
  for each effect on the journal, a container, the proxy's file or the proxy.
  `Die` ends a command anywhere (a failing call, a kill, `--pause`); `GiveUp` and
  `ObserveFails` are the failures that the code handles itself. A container
  takes its mode from its file when it starts. Work is one flag per colour. An
  image is only known by whether its container has passed `smoke`. `drain` is
  one round of its loop. nginx loads a new configuration some time after it was
  told to. `RouteServes` speaks of the colour it forwards to and of the one it
  will load; the one exception (`LeadsBack`) is the failure branch of a cutover,
  which closes the target while the proxy may still forward to it for a moment.
  A container leaves within 250 ms once it was told to stop and is drained
  (`cmd/web/application.go`), in one step (`StopBox`): no command is taken to
  reach one that is leaving, which refuses every mode but draining.
* **`RequestClaim`** — what the durable row of a translation request promises,
  without attempts, clocks or usage rows: work on it has at most one owner, who
  alone decides how it ends, and once it is paid for nobody owns it again. Both
  translation modules implement it: `TranslationReplay` with the protocol of
  `ClaimTranslationRequest`, `TranslationSocket` with one row for each key, so
  that the websockets' reduced claim is one the detailed protocol provides.
* **`PrepaidStream`** — what one grant promises the account that pays for it:
  audio is sent only within what was paid, one bill for exactly that audio gives
  the rest back, and then neither audio nor money moves. `EdgeSession` implements
  it once for each generation, under `Generation(i)`.
* `*Proofs` modules hold the theorems about the module they are named after,
  `PaymentProofs` those about `BillingLedger` and `AutoTopup` and
  `TranslationProofs` those about `TranslationReplay` and `TranslationSocket`;
  section 5 gives their argument.
* `Sums` has the lemmas about sums that the proofs of several modules use.
* `MC*` modules name the model values and, in `MCMainStream`, the inputs of a
  behaviour.

Definitions whose comment says "Mutant" are the plausible mistakes each
property is tested against; nothing uses them.

## 3. Runs

Deadlock is not checked: bounds on lots, events, attempts, units and clocks end
every behaviour.

| Run | Instance | Shows |
|---|---|---|
| `ledger_one_key` | 1 key, 3 lots, 1 payment, charges 0–2, clock 0–1, 3 routes, strict and overdraft, adjustments of ±1 | `WalletIsCash`, `GiftStaysGift`, `NoUnsanctionedDebt`, `RefundIsSpendable` |
| `ledger_batch` | 2 keys in one batch, one of them durable and used twice, 4 transactions a row, 2 lots, free and strict policy | `LedgerMatchesUsage`, `ImplementsPurse` |
| `webhook` | price 3; `Chaos`: 2 handlers, 4 events in any order, 1 fault of any kind; or `Orderly`: 1 handler, 8 events in order, 2 failures or lost answers | `PaymentsAddUp`; when `Orderly`: `AckedIsRecorded`, `MirrorsStripe`, `PaymentLands` |
| `topup_retries` | 2 workers, 2 attempts, 2 faults, clock 0–4 with a key life of 3 | `ChargedOnce`, `ChargeIsAccounted` |
| `replay_claims` | 3 workers, 3 attempts, clock 0–9, stale after 4, rows live for 4 | `NoneStranded`, `PaidOnce`, `StoredIsPaid` |
| `socket_sessions` | 1 connection of both kinds, 2 workers, summaries, 2 sessions, 2 units, 1 fault | `FlushIsTrue`, `SessionsApart`, `AcceptedIsFinished` |
| `socket_requests` | 2 connections that give ids, 1 worker each, 1 id, 2 contents, 2 units, 1 fault | `AnswersMatch`, `PaidIsServed`, `Answered`, `Ends` |
| `edge_settlement` | 1 session, 2 generations, windows of 2, 2 windows, 2 events | `BilledIsSent`, `SentIsPrepaid`, `JournalApplies`, `DurableStands` |
| `edge_outbox` | 1 session, 2 generations, 1 window of 1, 1 event and the end, the browser's deletion, 1 lost call or restart | `NothingLost`, `NumbersAreFresh`, `EndSettles` |
| `main_stream` | one stream with frames of 1 and 3 and a quantum of 2, or two rival streams on one session or without one | `OneWriter`, `FramesArePrepaid`, `BillIsExact`, `RevokedEnds` |
| `index_jobs` | 2 sources, 2 jobs, 2 workers, 2 attempts, 2 cancellations, retries, edits, failures or crashes | `OneCall`, `StatusHasJob`, `ReadyIsIndexed`, `JobEnds` |
| `release` | two colours, any number of releases and failures (the state space is finite) | `RouteServes`, `LeavesDrained`, `ReleaseEnds` |

Why the bounds are enough. Ledger: two lots are one that expired and its
replacement, or a batch that spans both; three are a paid and a gift lot and
the replacement of one that expired; one clock step is all an expiry needs;
charges up to 2 over units of 1 make every charge span two sources; four
transactions on a key are reserve, refund, reserve, refund. Webhook: four events
hold a payment with a whole subscription start, or with three refunds of it;
eight a subscription that starts, fails, recovers and ends; price 3 is the least at which adding totals up differs from taking
the largest. Top-up: two attempts show one following another; a clock of 4
passes the key's life. Replay: three attempts are one abandoned, one failed and
one paid; the clock of 9 lets a row grow stale, complete and be cleaned up.
Socket: two units are a paragraph and a repetition of it, or one before and one
after a flush or a switch; a queue of one is full when the second arrives; two
connections are the owner of a request and one that waits for it. Edge: two
generations are one that is late and its successor; two windows make a renewal,
two events a gap. Stream: a frame of 3 needs more than one quantum, one of 1
leaves a tail, and two rivals are the least that can overlap; larger mixtures
are left to the theorem `Exclusion`. Index: two sources tell a project's job
from a source's, two jobs an old one from its successor, and two turns are a
cancellation with its retry or an edit with a crash.

Fairness. The other runs are safety only.

* `webhook`: a handler that runs goes on (the Go scheduler), and Stripe
  retries what was not answered with success (its delivery contract); failures
  are finite (a setting's `errors`).
* `edge_outbox`: the node's `Run` loop goes on and its 30 s backoff ends; calls
  fail finitely often (`MaxLosses`). `EndSettles` needs nothing of browsers.
* `socket_*`: `Progress`, the goroutines of a connection, under one weak
  fairness. Results that wait on the entry of a connection that was cut are
  excluded from `Answered`; section 4 says why.
* `index_jobs`: workers poll every 3 s and go on, leases of dead ones lapse.
* `main_stream`: each connection's handler goes on. Its calls to the database
  have timeouts, dialling does, the read loop's deadline is set when the proxy
  stops, and the lease is renewed every 10 s.

* `release`: once nothing fails any more (`quiet`), a command that runs goes on,
  the timer's `drain-tick` (every 15 s) or the operator resumes what is
  unfinished, nginx loads what it was told to load, and admitted work ends.

Assumptions that are about the environment, not the code:

* The `Orderly` world of `webhook` sends an event only once the earlier ones are
  answered, and without hang-ups, crashes or overlapping deliveries.
* `AutoTopup` assumes `GiveUp + CallBound < KeyLifetime`: a retry that starts
  within 23 hours reaches Stripe within the 24 hours a key lives. Calls take
  far less than the hour that leaves.
* `topup_retries` sets `Refusals` to FALSE: a refusal that is not about the
  payment meets only the first call of an attempt.
* `replay_claims` has a reservation return within `ReserveBound`, so that with
  provider and tail timeouts it ends before a claim is stale (105 - 25 - 10 s).
  The code does not enforce it. It also sets `Disturbed` to FALSE: the usage
  history a claim acts on has not changed since it was read.
* `EdgeOutbox` takes the node's clock not to step back (`queue.go:105` orders
  by it) and no event to be more than `Reach` ahead.
* `release` sets `Timely` to TRUE: the journal that a command has read is still
  current when it gets the lock, and `Careless` to FALSE: before the cutover is
  complete the operator calls neither `drain` nor, for a candidate, `rollback`.
* `MainStream` assumes `WriteSlack <= DbTerm - LocalTerm`: a frame that was
  cleared by the local bound is written before the row's 5 s longer term ends.
  The write's own deadline (`writeWait`, 10 s) does not give it alone.

## 4. Where the code does not do what it says

Each of these is kept out of the passing runs by a constant. Change it as told
and TLC ends with the behaviour that the assumption keeps out. For the two that
change `Orderly` of `MCStripeWebhook`, leave the last line of
`WebhookAssumption` out as well: it is what says that a calm world is one
without them.

| What happens | Where | How to see it |
|---|---|---|
| An attempt that was charged is closed as failed when its retry is refused for a reason that says nothing of the charge, such as a rotated API key | `payments/stripe.go:585` | `topup_retries` with `Refusals = TRUE`: `ChargeIsAccounted` |
| An ended membership comes back with an event that the deletion overtook | `billing/payments.go:378` | `webhook` with the further property `EndedIsTerminal` (a behaviour of `Chaos`) |
| A refund that overtakes its payment is acknowledged and never debited | `billing_user.go:609` | `webhook` with `ordered |-> FALSE` in `Orderly`: `AckedIsRecorded` |
| A payment whose delivery is cut off is lost: the event id is to be released under the context that was cancelled | `billing_user.go:387`, `:420` | `webhook` with `faults |-> {"cancel"}`, or `{"crash"}` for a process that ends before it gets there, `events |-> 2`, `errors |-> 1` in `Orderly`: `AckedIsRecorded` |
| A slow reservation stays charged after its claim was taken over: the flow's deadline was replaced | `websocket.go:406` | `replay_claims` with two workers, `ReserveBound = 5`, `MaxAttempt = 2`, `MaxTime = 5`, `Disturbed = TRUE`: `NoneStranded` |
| A claim that stalls between its two statements while another attempt is made and taken back restarts the attempt numbers; the request can be paid twice | `translation_replay.go:209` | `replay_claims` with `Disturbed = TRUE`: `StoredIsPaid`, `PaidOnce` |
| A refunded payment's bonus comes back: what an open reservation holds of it returns to the lot | `ledger.go:536` | `ledger_one_key` with `TopUps {1}`, `Bonuses {0, 1}`, `Routes {"open", "discounted"}`, `Adjustments {}`, `MaxAdjusted 0`: `BonusDiesWithPayment` |
| Gift money comes back as bonus money, or the reverse, when an expired lot was replaced and its key is reserved and refunded again: the refund goes to the lot that paid first | `ledger.go:481` | the same with `Durable = {k1}`, `Bonuses = {1}`, `Routes = {"open"}`, `Policies = {"strict"}`, `MaxLots = 4`, `MaxPosts = 4`, and `GiftStaysGift` stated for all of `Keys`: as it stands it is about keys that are used once |
| An edge event of a session that the browser has deleted is neither applied nor refused as a conflict, so the node's loop tries it for ever and every other session of the node waits; the archive maps the missing row to a conflict, the event does not | `edgeruntime/server.go:596`, `edgecontrol/archive.go:36` | `edge_outbox` with `Sessions <- TwoSessions`, `MaxGen = 1`: `EndSettles` |
| A command reads the journal before it takes the lock. If another command runs in between, it acts on the old one and writes it back: a `drain-tick` that read before a rollback drains the colour that is in use | `ops/cli.go:114`, `ops/core.go:225` | `release` with `Timely = FALSE`: `RouteServes`, and before it `LeavesDrained` |
| `rollback`, which the code itself offers for an unfinished release, switches to a candidate that has not passed its checks when the candidate's colour was the previous one, as it is from the second release on; `drain` closes and stops it when the cutover was cut off after the proxy had switched | `ops/release.go:507`, `:450`, `:391` | `release` with `Careless = TRUE`: `RouteServes` |

Observed while modelling, within what the properties allow:

* A connection that is cut leaves its registry entries without an answer until
  some request at least 2 min later evicts them (`websocket_replay.go`); a
  repetition on another connection waits, and with it all later numbers of that
  connection. `Answered` excludes the numbers that wait for such an entry.
* Results that end because the connection was cut are cached as final failures
  for 10 min (`websocket.go:755`, `openai_adapter.go:877`), so a client that
  reconnects and repeats gets a failure. `PaidIsServed` excludes the entries of
  connections that were cut.
* `Create` does not ask whether a cancelled job is still draining; only `Retry`
  does. A cancellation followed by a new job can have two jobs' paid calls under
  way for one source. `OneCall` is per job.
* A cancellation, failure or claim of a project's job marks sources that were
  indexed before it as unindexed, in error or in work.
* A deploy that starts while the last release drains, and is cut off between
  `docker rm` and saving its intent, leaves a journal whose previous colour has
  no container: `drain`, `resume`, `rollback` and `upgrade` fail on `docker
  inspect` from then on, and only `deploy --image` gets on. `ReleaseEnds` leaves this case out
  (`Orphaned`).
* An uncertain top-up attempt is taken up again only when the wallet is low
  again; after a manual top-up its charge may stay uncredited.
* After a settlement of a stream has failed three times nothing settles the row
  later, which is what keeps the discount computed from it right.

## 5. Proofs

Each theorem holds for every value of the constants that the module's ASSUME
admits, and for every length of behaviour. Every safety property of a module
that has a `*Proofs` module is a theorem there; `PROJECT.json` lists which.

`Sums` has what the others need of sums over a function's values
(`SumFunctionOnSet`). The library defines them by recursion over a finite set,
and its induction theorem takes a predicate as a parameter, which the provers
cannot instantiate. `Sums` states induction over sets instead: a set of
naturals has a least element (`LeastElement`), a set of naturals that holds 0
and the successor of each of its members holds all (`NatSteps`), and a
set of subsets of a finite set that holds each subset whose proper parts it
holds has them all (`SubsetInduction`). From
these: a sum is what its recursion says (`SumUnfold`), one value more or less
changes it by that value (`SumChange`, `SumWith`, `SumWithout`), sums add
(`SumPlus`, `SumUnion`), are monotone and bounded (`SumPart`, `SumAtMost`),
and differences of neighbours telescope (`SumTelescopes`); `SumMoved` and
`TakenInAll` are about money that moves between places and debits along an
order.

`PaymentProofs`, first for `BillingLedger`, any finite sets of keys and payments, any amounts and
numbers of lots (`FiniteAssumption`; the tables are finite):

* `Typing` (`[]TypeOK`). `TypeOK` is inductive; the work is that a debit never
  takes more from a lot than it holds (`TakenBounded`), and that a refund
  returns naturals to lots that exist, also when it opens replacement lots
  (`RestoredType`, `ReplacedNumbers`, `RestoredLotsType`).
* `ChargesAreSplit` (`[]ChargeSplit`). Inductive relative to `TypeOK`: each way
  to write a row keeps charge = grant + wallet.
* `DebtIsSanctioned`, `DiscountsSpareGifts`, `EndedRowsAreFinal`: the three
  action properties, each proved of a step from `TypeOK` (and `ChargeSplit`
  where a settlement lowers the wallet part), then lifted with `PTL`.
* `WalletHoldsCash`, `LedgerAddsUp` and `GiftsStayGifts` from the inductive
  invariant `Balanced`. `RowSound` says of one key that its ledger rows add up
  to its grant part; to keep it through a refund one has to know that a row not
  in force took nothing, and, for the gift part, that a key which is used once
  has posted nothing negative while it is reserved. `Numbered` says that a lot
  not yet opened is empty, so that opening a replacement adds nothing to any sum
  but what is put into it. `Cash` is the wallet's equation. A debit along the
  order of the lots takes in all what was asked of them (`TakenInAll`), and a
  refund's loop gives back in all what the rows say was taken.
* `RefundsCanBeSpent` (`RefundIsSpendable`): a refund adds only to lots that are
  open then.
* `LedgerIsAPurse`: `Spec => P!Spec` under the mapping `P` of `BillingLedger`,
  balance = wallet plus what remains in the lots. Each action is a purse step or
  a stutter, as a debit takes from wallet and lots what it adds to the charge,
  and a replacement lot holds what its rows had taken from the lot that expired.

Then for `AutoTopup`, any number of workers, attempts and faults, with or
without `Refusals` except where said:

* `TopupTyping`, `CardsAreChargedOnce` (`[]ChargedOnce`) and `CreditsAreCharged`
  (`[]CreditIsCharged`) follow from the inductive invariant `Sound`.
  `ChargedOnce` alone is not inductive: a second charge needs a key that was
  forgotten, so the invariant has to carry how old a key can be when a worker is
  about to use it. `Locals` says a worker that may charge began within `GiveUp`
  of its attempt's creation and is within `CallBound` of its own beginning;
  `Booked` says a key is not older than its attempt and that a charge is exactly
  what Stripe's key records. `StillRemembered` adds the two: what was charged
  once is answered from memory. The lock plays no part, so a lost connection
  cannot break it.
* `SuccessesAreCredited` (`[]SuccessIsCredited`) and, for `~Refusals`,
  `ChargesAreAccounted` (`[]ChargeIsAccounted`) follow from the inductive
  invariant `Accounted`. Here the lock matters. `Held`: only its holder still
  has its connection, so whoever writes the row's status is alone. `Knowing`:
  each worker asks Stripe for the payment its row keeps, sees the row as it left
  it while it has its connection, and has as its answer what Stripe has
  recorded. `Settled`: an attempt that succeeded was charged and credited.
  `Closing` is the only part that needs `~Refusals`: an attempt that is about to
  be closed as failed was declined, or nothing is known under its key and nobody
  else is on the way to Stripe with it. With `Refusals` it is false, as section 4
  shows.

`TranslationProofs`, first for `TranslationReplay`, any number of workers and
attempts. All but the first of these theorems assume `Prompt`, `ReserveBound +
ProviderBound + TailBound < StaleAfter`, which the code relies on but does not
enforce; the last three also `~Disturbed`.

* `Typing` (`[]TypeOK`), without further assumptions.
* `OwnersKeepClaims` (`[]OwnerKeepsClaim`, which no run needs to check): a row can be taken over only when
  stale, and `InTime` bounds how long ago the row of a live owner was touched,
  phase by phase; by `Prompt` that is never long enough.
* `ReservationsAreClaimed` (`[]NoneStranded`): a row is left only by its owner,
  which settles or refunds first, or by a take-over, which refunds; with owners
  kept nothing else writes a reservation.
* `RequestsArePaidOnce` (`[]PaidOnce`) and `ResultsArePaid` (`[]StoredIsPaid`):
  `History` says that no attempt follows a settled one, that a claim that may
  still be paid is the newest attempt with none settled, and that a row that
  was completed names the settled one. It is kept only while a claim sees the
  history as it is (`~Disturbed`) and its owner is alone (`Prompt`).
* `RequestIsAClaim` (`Spec => R!Spec`): under the mapping `R` of
  `TranslationReplay`, which reads `paid` off the usage history and `held`,
  `failed` and `none` off the row, each step is one of `RequestClaim`'s or leaves
  it alone. A claim is `Own` because by `OwnersKeepClaims` the owner it takes
  over from is gone, and by `History` it finds nothing paid.

Then for `TranslationSocket`, any number of connections, workers, sessions,
request ids, contents, transcripts and faults, and any capacities. Its ASSUME
says that there is some content and that `none`, which stands for "no id" and
"no content", is neither. All five safety properties follow from one inductive
invariant, `Faithful` (`SocketIsFaithful`), which was model-checked on both
runs' instances before it was proved:

* `Kept`, per connection: every transcript heard is held, in the timer's hands
  or in a paragraph, a pending barrier's target covers what was heard when it
  was set, and what was acknowledged is in paragraphs that were written. With it
  `FlushesAreTrue` (`[]FlushIsTrue`): the target is the last number only because
  `flush` cannot run while the timer holds a batch.
* `Distinct`, `Placed` and `Ended`: a number is in the queue once or with one
  worker, has no result and no waiting duplicate meanwhile, and was not written;
  nothing is under way on a closed connection.
* `Apart`: what is under way is of the session the connection is in. With it
  `SessionsStayApart` (`[]SessionsApart`). A switch may go ahead once everything
  up to the last number is written because, by `Placed`, a number that is under
  way is none of these.
* `Owned` and `InFlight`: a paragraph that made a registry entry is the only one
  that did, and a pending entry stands for its request and has its paragraph
  under way, unless its connection was cut. With `Kept` and `Ended` they give
  `AcceptedGetsFinished` (`[]AcceptedIsFinished`). An entry that has not aged
  and whose paragraph is under way is still pending and registered; that is what
  makes the result of a job be the one its entry keeps.
* `Matching`: results, entries and waiting duplicates are of the content of their
  paragraphs. With it `AnswersAreRight` (`[]AnswersMatch`).
* `Claimed` and `Refused`: a claim has one holder, and names the content it
  translates; while an entry says "refused for good", the content is not stored
  as paid and nobody who holds the claim can still pay for it. With it
  `PaidGetsServed` (`[]PaidIsServed`), which by itself is not inductive: another
  connection's worker settles the claim later.

A step is treated by what it does and not by its name: `Finishes` and `Proceeds`
are what all workers' steps come to, `Joins` what every way to give a number
comes to (queued, refused, waiting, in conflict), `Contributes` what the read
loop and the timer do with it, and `Forgets` what ageing and sweeping have in
common. Each has one lemma that it preserves `Faithful`.

`EachRequestIsAClaim` (`SocketSpec => Request(key)!Spec` for every key): the
websockets implement `RequestClaim` too, its workers being those of all
connections. From `Claimed`, who holds a key's row is the one worker that serves
it, whichever connection it is of and however that connection ends.

`StripeWebhookProofs`, for any number of handlers, any price and any settings,
with or without the chaos:

* `Typing` (`[]TypeOK`) and `PaymentsAlwaysAddUp` (`[]PaymentsAddUp`). The sum
  of the refund rows is their largest total only because no event claims more
  than has happened: `Truthful` says so of every event ever sent, `Serving` that
  a handler at work has one of them, `DeltaIs` that a refund adds what its total
  has above the sum so far, and `Debited` keeps the sum at the largest key.
* `AcknowledgedIsRecorded` (`[]AckedIsRecorded`), for settings that are calm.
  `WebhookAssumption` says what that takes: one event at a time, and faults no
  worse than a failing call or a lost answer. What is acknowledged is recorded
  because what was seen and is in no handler's hands is (`Kept`), what a handler
  calls done is, and every handler can still take its id back (`InHand`); a
  refund finds its payment's row because the payment's event came before
  (`Chronicle`) and had to be acknowledged first.
* `AccountFollows` (`[]MirrorsStripe`), likewise for calm settings. `Informed`
  is what an event is worth: the last one that Stripe sent of a subscription
  reports its state, or has the handler fetch it, and what was fetched for it is
  still so. `Following` is the calm part: an event that was seen has all earlier
  ones acknowledged and is in one handler's hands, so the last event is the last
  to write the account, and once it is done the account is what Stripe says. A
  change of the subscription makes a new last event, which is not done.

`MainStreamProofs`, for any connections, sessions, limits, terms and amounts,
from `WriteSlack <= DbTerm - LocalTerm` and `IsFiniteSet(Conns)`:

* `Exclusion` (`[]OneWriter`). `OneWriter` speaks of what may be written now;
  the invariant speaks of rows. `Sound` ties each connection's local bound to
  its row: while the bound runs, the row outlives it by the margin, and a frame
  that was cleared is written before the row's term ends. `Alone` and the counts
  say that rows that are alive exclude each other on a session and number no
  more than the plan allows, also while an admission that has counted them is
  about to insert its own under the user lock.
* `AudioIsPrepaid` (`[]FramesArePrepaid`) and `ExactBill` (`[]BillIsExact`) from
  the inductive invariant `Money`. It says of each connection, by the place its
  stream is at, what its chain of reservations holds: what was forwarded and
  cleared fits into the rows that have committed, all but the last of which
  begin where the one before ended; and that in the settlement each row either
  charges its part of the audio or is still to be settled to it, whatever the
  order. That the parts add up to what was forwarded is `SumTelescopes`.

`IndexJobsProofs`, for any sources, workers, jobs and attempts:

* `Typing`, `WaitingHasJob` (`[]StatusHasJob`) and `ReadyHasVector`
  (`[]ReadyIsIndexed`): inductive with the types.
* `CallsAreSingle` (`[]OneCall`) follows from `Held`: a run at the provider
  whose context lives owns its job's row, also when the job was cancelled, and a
  row has one owner.

`EdgeSessionProofs`, for any sessions, window length, reach and bounds, of
`EdgeSession` by itself and behind the outbox:

* The invariant `Sound` speaks of each generation by itself. `Granted`: its
  windows are numbered without gaps, its stream has sent no more than they hold,
  its journal's counters only grow (`Honest`), what is on record of it is in the
  journal, and once it is billed nothing is prepaid and nothing is sent.
  `Reigns`: the session's row is where the journal's applied event left it, and
  each generation up to the current one has its owner and stays prepaid until it
  is billed. `BeginsOnce` keeps a deleted session from starting again: without
  it a new generation 1 would find the keys and the stream of the old one.
* `AudioIsPaid` (`[]SentIsPrepaid`), `JournalsApply` (`[]JournalApplies`) and
  `WatermarkStands` (`DurableStands`) follow from `Sound` and from what the steps
  do to the row.
* `BillIsWhatWasSent` (`[]BilledIsSent`): with its usage rows, whose sum is that
  of the windows before the last, which are full, and of what the last one held.
* `EventsReachTheSite` (`[]NothingLost`) and `NumbersStayFresh`
  (`[]NumbersAreFresh`) of `OutboxSpec`, from the inductive invariant
  `Delivering`. `Prefixes` and `Queued`: what left the queue is a prefix of the
  journal and what is in it goes on from there in order, which is what makes an
  acknowledgement of one event one of all before it. `Recorded` says what an
  answer on its way stands for: the main site's row, or its archive, already has
  it. `Numbers` says the counter is not behind the journal.
  `EdgeOutbox!Among` is a recursive function and not `SelectSeq` so that its
  properties can be proved with `NatSteps`.
* `BilledBehindTheOutbox`: what is proved of `EdgeSession` holds of `OutboxSpec`,
  each of whose steps is one of `EdgeSession`, several streams that break at
  once, or a stutter of its variables.
* `GrantIsPrepaid` and `GrantIsPrepaidBehindTheOutbox`: each generation
  implements `PrepaidStream`, what was paid being the windows still pending and
  the amounts of the usage rows (`Cost`). Every step leaves a generation alone,
  reserves its next window, sends, or settles it (`Moves`). `Sound` does not say
  enough of a settled one, as a deletion removes its row and its bill: `Whole`
  says that its windows are all pending or none is, that one with none pending
  sends no more, and that its usage rows then cost what it sent.

`ReleaseProofs`, for `Timely`, that is when the journal a command has read is
still current when it gets the lock, and `~Careless`, no rollback or drain inside
a cutover. `Release` has no other parameter and its run is the whole state
space, so these theorems reach no further than the run does; what they add is
the reason:

* `StaysSteady` (`[]Steady`), the inductive invariant. `Place` says for each
  step of a command which phase the journal is in and that the colour it works
  on is the spare one. `Persisted`: a container is in the mode its file has, an
  active one runs and a stopped one was drained, so restarts and reboots change
  nothing. `Vetted`: a colour about to be switched to has passed its checks, one
  about to be stopped is drained. `Routed`: the colour of the journal serves,
  always, and the proxy's file and route are elsewhere only inside a cutover,
  and then at a colour that serves. No part of it mentions what a command still
  has in mind, which is why a command may die after any step and the next one go
  on from `state.json`.
* `UsersAreServed` (`[]RouteServes`) and `OldColorLeavesDrained`
  (`[]LeavesDrained`) follow. `RouteServes` alone is not inductive: a reload
  that is under way when a cutover fails makes the proxy forward to what its
  file then names.

Model-checked only: liveness, which is out of the prover's reach throughout
(`PaymentLands`, `EndSettles`, `RevokedEnds`, `JobEnds`, `ReleaseEnds`,
`Answered`, `Ends`). Every safety property a run checks is a theorem.

## 6. Not modelled

Within the modelled parts: legacy usage rows without a snapshot; membership plan
codes, intervals and periods; subscription states other than active, past due
and canceled; the customer link, which is set before a checkout exists; wording
of stored errors; rounding of amounts. Of the websocket: admission, heartbeats,
more than one speaker, paragraphs that a gap or a full buffer ends (only the
timer and complete ones do), the answer that the registry is full. Of edges:
node selection and registration, stream limits, attestation of archive owners,
the provider's wire protocol. Of releases: migrations, image, memory and
contract checks, the initial conversion, handoff offers. Of the main stream:
unlimited plans, users' own keys, transcripts, metrics, balance notices;
`AcquireMain` and the stream registry are taken in one action, and text such as
`EndOfStream`, which is passed on without a lease check, is no write of
`OneWriter`. Of the index: an edit that leaves the content as it was, which
cancels and resets like any other, session targets, several models, storage
quotas, deletion.

Components that have no module, and why:

* **The rest of the operations tool**: backups, installation, registration of
  edges, and the edge and YuAction variants of a release.
* **AI generation requests, skill map jobs, batch transcription, blob
  deletions**: leased rows of the two protocols that `TranslationReplay`
  (request key with a charge) and `IndexJobs` (durable queue with fences) model.
* **Knowledge ingestion and retrieval, AI workspace, sessions, study, accounts,
  agents, redemption codes**: request-scoped CRUD, text processing, embeddings
  and search; what they charge or grant goes through the ledger's operations.
* **Signup risk, pricing and model routing**: computations whose results are
  inputs of the models here.
* **Statements and analytics**: read-only. **Provider adapters, mailer,
  metrics, configuration, event worker, PCAS, edge provisioning**: I/O with
  external services. **Frontend, extension, YuAction**: what they repeat and
  reorder is what the backend's models let clients do.
