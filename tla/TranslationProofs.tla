--------------------------- MODULE TranslationProofs ---------------------------
(***************************************************************************)
(* Theorems about real-time translation: first the durable requests of     *)
(* TranslationReplay, for every number of workers and attempts and every   *)
(* setting of the deadlines, then the websockets of TranslationSocket, for *)
(* every number of connections, workers, requests, sessions and transcripts*)
(* and every capacity of their queues.                                     *)
(***************************************************************************)
EXTENDS TranslationReplay, TranslationSocket, FiniteSetTheorems, SequenceTheorems, TLAPS

-----------------------------------------------------------------------------
(* Durable translation requests                                            *)

Worker == [pc : {"idle", "claim"} \union Active, attempt : 0..MaxAttempt,
           seen : 0..MaxAttempt, paid : BOOLEAN, deadline : Nat]

\* There is a newest usage row, or none at all.
NewestIs(l) ==
  /\ l = 0 \/ usage[l] # "none"
  /\ \A b \in Attempts : b > l => usage[b] = "none"
HasNewest == \E l \in 0..MaxAttempt : NewestIs(l)

-----------------------------------------------------------------------------
(* Types                                                                   *)

\* Latest is the newest attempt with a usage row.
LEMMA LatestIsNewest ==
  ASSUME TypeOK, HasNewest
  PROVE  Latest \in 0..MaxAttempt /\ NewestIs(Latest)
<1> DEFINE S == {a \in Attempts : usage[a] # "none"} \union {0}
<1>1. PICK l \in 0..MaxAttempt : NewestIs(l)
  BY DEF HasNewest
<1>2. l \in S /\ \A y \in S : l >= y
  BY <1>1, ReplayAssumption DEF NewestIs, Attempts
<1>3. Latest \in S /\ \A y \in S : Latest >= y
  BY <1>2 DEF Latest, Max
<1>4. Latest \in 0..MaxAttempt /\ Latest = l
  BY <1>2, <1>3, ReplayAssumption DEF Attempts
<1> QED BY <1>1, <1>4

\* A usage row is only ever added.
LEMMA UsageKept ==
  ASSUME TypeOK, HasNewest, NEW a, NEW s \in {"reserved", "settled", "refunded"},
         usage' = [usage EXCEPT ![a] = s]
  PROVE  usage' \in [Attempts -> {"none", "reserved", "settled", "refunded"}] /\ HasNewest'
<1>1. PICK l \in 0..MaxAttempt : NewestIs(l)
  BY DEF HasNewest
<1>2. usage \in [Attempts -> {"none", "reserved", "settled", "refunded"}]
  BY DEF TypeOK
<1>3. CASE a \in Attempts /\ a > l
  <2>1. NewestIs(a)'
    BY <1>1, <1>2, <1>3, ReplayAssumption DEF NewestIs, Attempts
  <2> QED BY <1>2, <1>3, <2>1, ReplayAssumption DEF HasNewest, Attempts
<1>4. CASE ~(a \in Attempts /\ a > l)
  <2>1. NewestIs(l)'
    BY <1>1, <1>2, <1>4, ReplayAssumption DEF NewestIs, Attempts
  <2> QED BY <1>1, <1>2, <2>1 DEF HasNewest
<1> QED BY <1>3, <1>4

\* Nor is one lost where the usage rows stay as they are.
LEMMA UsageSame ==
  ASSUME TypeOK, HasNewest, usage' = usage
  PROVE  usage' \in [Attempts -> {"none", "reserved", "settled", "refunded"}] /\ HasNewest'
BY DEF TypeOK, HasNewest, NewestIs

LEMMA RefundKept ==
  ASSUME TypeOK, HasNewest, NEW a, usage' = RefundIfExists(a)
  PROVE  usage' \in [Attempts -> {"none", "reserved", "settled", "refunded"}] /\ HasNewest'
<1>1. CASE usage[a] = "reserved"
  BY <1>1, UsageKept DEF RefundIfExists
<1>2. CASE usage[a] # "reserved"
  BY <1>2, UsageSame DEF RefundIfExists
<1> QED BY <1>1, <1>2

\* The settings are natural numbers.
LEMMA Settings ==
  /\ StaleAfter \in Nat /\ ReserveBound \in Nat /\ ProviderBound \in Nat
  /\ TailBound \in Nat /\ Retention \in Nat /\ MaxTime \in Nat
  /\ MaxAttempt \in Nat /\ MaxAttempt > 0
BY ReplayAssumption

LEMMA InitTyped == Init => TypeOK /\ HasNewest
<1> SUFFICES ASSUME Init PROVE TypeOK /\ HasNewest
  OBVIOUS
<1>1. TypeOK
  BY ReplayAssumption DEF Init, TypeOK, NoRow, Idle, Active
<1>2. NewestIs(0)
  BY DEF Init, NewestIs
<1> QED BY <1>1, <1>2, ReplayAssumption DEF HasNewest

\* The fields of a worker change one by one.
LEMMA WorkerTyped ==
  ASSUME TypeOK
  PROVE  /\ Idle \in Worker
         /\ \A w \in Workers : worker[w] \in Worker
         /\ \A x \in Worker, w \in Workers :
              [worker EXCEPT ![w] = x] \in [Workers -> Worker]
         /\ \A w \in Workers, p \in {"idle", "claim"} \union Active, d \in Nat :
              [worker EXCEPT ![w].pc = p, ![w].deadline = d] \in [Workers -> Worker]
<1>1. Idle \in Worker
  BY ReplayAssumption DEF Idle, Worker
<1>2. worker \in [Workers -> Worker]
  BY DEF TypeOK, Worker
<1>3. ASSUME NEW w \in Workers, NEW p \in {"idle", "claim"} \union Active, NEW d \in Nat
      PROVE  [worker EXCEPT ![w].pc = p, ![w].deadline = d] \in [Workers -> Worker]
  BY <1>2, <1>3 DEF Worker
<1> QED BY <1>1, <1>2, <1>3

\* What a claim writes over the idle worker is a worker.
LEMMA FieldsTyped ==
  ASSUME NEW x \in Worker, NEW p \in {"idle", "claim"} \union Active,
         NEW a \in 0..MaxAttempt, NEW b \in BOOLEAN, NEW d \in Nat
  PROVE  /\ [x EXCEPT !.pc = p, !.attempt = a, !.deadline = d] \in Worker
         /\ [x EXCEPT !.pc = p, !.seen = a, !.paid = b, !.deadline = d] \in Worker
BY DEF Worker

\* Every row that is written has its type.
LEMMA PutTyped ==
  ASSUME TypeOK, NEW state \in {"none", "reserved", "completed", "failed", "expired"},
         NEW attempt \in 0..MaxAttempt, Put(state, attempt)
  PROVE  row' \in [state : {"none", "reserved", "completed", "failed", "expired"},
                   attempt : 0..MaxAttempt, started : 0..MaxTime, expires : Nat]
BY ReplayAssumption DEF TypeOK, Put

LEMMA NextTyped ==
  TypeOK /\ HasNewest /\ [Next]_vars => TypeOK' /\ HasNewest'
<1> SUFFICES ASSUME TypeOK, HasNewest, [Next]_vars PROVE TypeOK' /\ HasNewest'
  OBVIOUS
<1> USE Settings
<1> DEFINE RowOK == row \in [state : {"none", "reserved", "completed", "failed", "expired"},
                             attempt : 0..MaxAttempt, started : 0..MaxTime, expires : Nat]
           UsageOK == /\ usage \in [Attempts -> {"none", "reserved", "settled", "refunded"}]
                      /\ HasNewest
           WorkerOK == worker \in [Workers -> Worker]
           NowOK == now \in 0..MaxTime
<1>1. RowOK /\ UsageOK /\ WorkerOK /\ NowOK
  BY DEF TypeOK, Worker
<1>2. SUFFICES RowOK' /\ UsageOK' /\ WorkerOK' /\ NowOK'
  BY DEF TypeOK, Worker
<1>3. UNCHANGED row => RowOK'
  BY <1>1
<1>4. UNCHANGED usage => UsageOK'
  BY UsageSame
<1>5. UNCHANGED worker => WorkerOK'
  BY <1>1
<1>6. UNCHANGED now => NowOK'
  BY <1>1
<1>7. /\ now \in Nat /\ now + Retention \in Nat /\ now + ReserveBound \in Nat
      /\ now + ProviderBound \in Nat /\ now + TailBound \in Nat
  BY <1>1
<1>8. \A w \in Workers : Answer(w) => WorkerOK'
  BY WorkerTyped DEF Answer
<1>9. ASSUME NEW w \in Workers, NEW p \in {"idle", "claim"} \union Active,
             NEW bound, now + bound \in Nat, Goto(w, p, bound)
      PROVE  WorkerOK'
  BY <1>9, WorkerTyped DEF Goto
<1>10. ASSUME NEW w \in Workers, NEW attempt \in 0..MaxAttempt, Own(w, attempt)
       PROVE  WorkerOK'
  <2> DEFINE d == now + ReserveBound
  <2>1. d \in Nat
    BY <1>7
  <2> HIDE DEF d
  <2>2. [Idle EXCEPT !.pc = "reserve", !.attempt = attempt, !.deadline = d] \in Worker
    BY <2>1, FieldsTyped, WorkerTyped DEF Active
  <2> QED BY <1>10, <2>2, WorkerTyped DEF Own, d
<1>11. CASE Tick
  BY <1>1, <1>3, <1>4, <1>5, <1>11 DEF Tick
<1>12. CASE Cleanup
  <2>1. RowOK'
    BY <1>12 DEF Cleanup, NoRow
  <2> QED BY <1>4, <1>5, <1>6, <1>12, <2>1 DEF Cleanup
<1>13. ASSUME NEW w \in Workers, ReadHistory(w)
       PROVE  RowOK' /\ UsageOK' /\ WorkerOK' /\ NowOK'
  <2>1. Latest \in 0..MaxAttempt /\ Paid \in BOOLEAN
    BY LatestIsNewest DEF Paid
  <2> DEFINE d == now + TailBound
  <2>2. d \in Nat
    BY <1>7
  <2> HIDE DEF d
  <2>3. [Idle EXCEPT !.pc = "claim", !.seen = Latest, !.paid = Paid, !.deadline = d] \in Worker
    BY <2>1, <2>2, FieldsTyped, WorkerTyped
  <2> QED BY <1>3, <1>4, <1>6, <1>13, <2>3, WorkerTyped DEF ReadHistory, d
<1>14. ASSUME NEW w \in Workers, ClaimFirst(w)
       PROVE  RowOK' /\ UsageOK' /\ WorkerOK' /\ NowOK'
  <2>1. worker[w].seen \in 0..MaxAttempt
    BY WorkerTyped DEF Worker
  <2>2. RowOK' /\ WorkerOK'
    BY <1>8, <1>10, <1>14, <2>1, PutTyped DEF ClaimFirst
  <2> QED BY <1>4, <1>6, <1>14, <2>2 DEF ClaimFirst
<1>15. ASSUME NEW w \in Workers, ClaimAnswered(w)
       PROVE  RowOK' /\ UsageOK' /\ WorkerOK' /\ NowOK'
  <2>1. ASSUME row' = [row EXCEPT !.state = "expired", !.expires = now + Retention]
        PROVE  RowOK'
    <3> DEFINE expires == now + Retention
    <3>1. expires \in Nat
      BY <1>7
    <3> HIDE DEF expires
    <3> QED BY <1>1, <2>1, <3>1 DEF expires
  <2>2. \/ UNCHANGED row
        \/ row' = [row EXCEPT !.state = "expired", !.expires = now + Retention]
    BY <1>15 DEF ClaimAnswered
  <2> HIDE DEF RowOK
  <2>3. RowOK'
    BY <1>3, <2>1, <2>2
  <2> QED BY <1>4, <1>6, <1>8, <1>15, <2>3 DEF ClaimAnswered
<1>16. ASSUME NEW w \in Workers, ClaimNext(w)
       PROVE  RowOK' /\ UsageOK' /\ WorkerOK' /\ NowOK'
  <2>1. row.attempt + 1 \in 0..MaxAttempt
    BY <1>1, <1>16 DEF ClaimNext
  <2>2. RowOK' /\ WorkerOK'
    BY <1>10, <1>16, <2>1, PutTyped DEF ClaimNext
  <2>3. UsageOK'
    BY <1>16, UsageSame, RefundKept DEF ClaimNext
  <2> QED BY <1>6, <1>16, <2>2, <2>3 DEF ClaimNext
<1>17. ASSUME NEW w \in Workers, Reserve(w)
       PROVE  RowOK' /\ UsageOK' /\ WorkerOK' /\ NowOK'
  <2>1. UsageOK'
    BY <1>17, UsageKept, UsageSame DEF Reserve
  <2>2. WorkerOK'
    BY <1>7, <1>8, <1>9, <1>17 DEF Reserve, Active
  <2> QED BY <1>3, <1>6, <1>17, <2>1, <2>2 DEF Reserve
<1>18. ASSUME NEW w \in Workers, GiveUpReserving(w) \/ Provide(w)
       PROVE  RowOK' /\ UsageOK' /\ WorkerOK' /\ NowOK'
  <2>1. WorkerOK'
    BY <1>7, <1>9, <1>18 DEF GiveUpReserving, Provide, Active
  <2> QED BY <1>3, <1>4, <1>6, <1>18, <2>1 DEF GiveUpReserving, Provide
<1>19. ASSUME NEW w \in Workers, Settle(w)
       PROVE  RowOK' /\ UsageOK' /\ WorkerOK' /\ NowOK'
  <2>1. UsageOK'
    BY <1>19, UsageKept, UsageSame DEF Settle
  <2>2. RowOK'
    BY <1>1, <1>7, <1>19 DEF Settle
  <2> QED BY <1>6, <1>8, <1>19, <2>1, <2>2 DEF Settle
<1>20. ASSUME NEW w \in Workers, FailRequest(w)
       PROVE  RowOK' /\ UsageOK' /\ WorkerOK' /\ NowOK'
  <2>1. UsageOK'
    BY <1>20, UsageSame, RefundKept DEF FailRequest
  <2>2. RowOK'
    BY <1>1, <1>20 DEF FailRequest
  <2> QED BY <1>6, <1>8, <1>20, <2>1, <2>2 DEF FailRequest
<1>21. ASSUME NEW w \in Workers, CancelRequest(w) \/ Abandon(w)
       PROVE  RowOK' /\ UsageOK' /\ WorkerOK' /\ NowOK'
  <2>1. RowOK'
    BY <1>1, <1>21 DEF CancelRequest, Abandon, NoRow
  <2> QED BY <1>4, <1>6, <1>8, <1>21, <2>1 DEF CancelRequest, Abandon
<1>22. CASE UNCHANGED vars
  BY <1>3, <1>4, <1>5, <1>6, <1>22 DEF vars
<1> HIDE DEF RowOK, UsageOK, WorkerOK, NowOK
<1> QED
  BY <1>11, <1>12, <1>13, <1>14, <1>15, <1>16, <1>17, <1>18, <1>19, <1>20, <1>21, <1>22 DEF Next

\* Every row, usage row and worker keeps its type; in particular no claim asks
\* for an attempt beyond the last.
THEOREM Typing == Spec => []TypeOK
<1>1. Init => TypeOK /\ HasNewest
  BY InitTyped
<1>2. TypeOK /\ HasNewest /\ [Next]_vars => (TypeOK /\ HasNewest)'
  BY NextTyped
<1> QED BY <1>1, <1>2, PTL DEF Spec

-----------------------------------------------------------------------------
(* Ownership                                                               *)

\* The deadlines of an owner's three phases end before its claim is stale.
Prompt == ReserveBound + ProviderBound + TailBound < StaleAfter

\* How long after its claim an owner is done with a phase.
Budget(pc) ==
  CASE pc = "reserve" -> ReserveBound
    [] pc = "provide" -> ReserveBound + ProviderBound
    [] OTHER          -> ReserveBound + ProviderBound + TailBound

InTime == \A w \in Workers : worker[w].pc \in Active =>
  now <= worker[w].deadline /\ worker[w].deadline <= row.started + Budget(worker[w].pc)

Claims == OwnerKeepsClaim /\ InTime

NoneActive == \A w \in Workers : worker[w].pc \notin Active

\* Without an owner there is nothing to keep.
LEMMA NoOwner == NoneActive => Claims
BY DEF NoneActive, Claims, OwnerKeepsClaim, InTime

\* Only a reserved row that is not stale has an owner.
LEMMA OwnedIsFresh ==
  ASSUME Prompt, TypeOK, Claims, row.state # "reserved" \/ Stale
  PROVE  NoneActive
<1> SUFFICES ASSUME NEW w \in Workers, worker[w].pc \in Active PROVE FALSE
  BY DEF NoneActive
<1>1. row.state = "reserved"
  BY DEF Claims, OwnerKeepsClaim, Owns
<1>2. /\ now <= worker[w].deadline
      /\ worker[w].deadline <= row.started + Budget(worker[w].pc)
  BY DEF Claims, InTime
<1>3. row.started \in Nat /\ now \in Nat /\ worker[w].deadline \in Nat
  BY Settings DEF TypeOK
<1>4. Budget(worker[w].pc) \in Nat /\ Budget(worker[w].pc) < StaleAfter
  BY Settings DEF Budget, Prompt
<1>5. now - row.started < StaleAfter
  BY <1>2, <1>3, <1>4, Settings
<1> QED BY <1>1, <1>3, <1>5, Settings DEF Stale

\* The one owner leaves, or somebody who owns nothing does.
LEMMA OwnerLeaves ==
  ASSUME TypeOK, Claims, NEW w \in Workers, Answer(w)
  PROVE  /\ worker[w].pc \in Active => NoneActive'
         /\ NoneActive => NoneActive'
         /\ row' = row /\ now' = now => Claims'
<1>1. \A v \in Workers : worker'[v] = IF v = w THEN Idle ELSE worker[v]
  BY DEF TypeOK, Answer
<1>2. Idle.pc \notin Active
  BY DEF Idle, Active
<1> QED BY <1>1, <1>2 DEF Claims, OwnerKeepsClaim, InTime, NoneActive, Owns

\* A claim that nobody holds gets one owner.
LEMMA OwnerEnters ==
  ASSUME TypeOK, NoneActive, NEW w \in Workers, NEW attempt \in 0..MaxAttempt,
         Own(w, attempt), Put("reserved", attempt), now' = now
  PROVE  Claims'
<1>1. \A v \in Workers :
        v # w => worker'[v] = worker[v] /\ worker'[v].pc \notin Active
  BY DEF TypeOK, Own, NoneActive
<1>2. /\ worker'[w].pc = "reserve" /\ worker'[w].attempt = attempt
      /\ worker'[w].deadline = now + ReserveBound
  BY DEF TypeOK, Own, Idle
<1>3. row'.state = "reserved" /\ row'.attempt = attempt /\ row'.started = now
  BY DEF Put
<1>4. now \in Nat
  BY Settings DEF TypeOK
<1>5. OwnerKeepsClaim'
  BY <1>1, <1>2, <1>3 DEF OwnerKeepsClaim, Owns
<1>6. InTime'
  BY <1>1, <1>2, <1>3, <1>4, Settings DEF InTime, Budget
<1> QED BY <1>5, <1>6 DEF Claims

\* The owner goes on to a phase that ends in time.
LEMMA OwnerGoesOn ==
  ASSUME TypeOK, Claims, NEW w \in Workers, worker[w].pc \in Active,
         NEW p \in Active, NEW bound \in Nat, Goto(w, p, bound),
         Budget(worker[w].pc) + bound <= Budget(p), row' = row, now' = now
  PROVE  Claims'
<1>1. \A v \in Workers : v # w => worker'[v] = worker[v]
  BY DEF TypeOK, Goto
<1>2. /\ worker'[w].pc = p /\ worker'[w].attempt = worker[w].attempt
      /\ worker'[w].deadline = now + bound
  BY DEF TypeOK, Goto
<1>3. OwnerKeepsClaim'
  BY <1>1, <1>2 DEF Claims, OwnerKeepsClaim, Owns
<1>4. row.started \in Nat /\ now \in Nat /\ worker[w].deadline \in Nat
  BY Settings DEF TypeOK
<1>5. Budget(p) \in Nat /\ Budget(worker[w].pc) \in Nat
  BY Settings DEF Budget
<1>6. now <= now + bound /\ now + bound <= row.started + Budget(p)
  BY <1>4, <1>5 DEF Claims, InTime
<1>7. InTime'
  BY <1>1, <1>2, <1>6 DEF Claims, InTime
<1> QED BY <1>3, <1>7 DEF Claims

LEMMA InitClaims == Init => Claims
<1> SUFFICES ASSUME Init PROVE NoneActive
  BY NoOwner
<1> QED BY DEF Init, Idle, Active, NoneActive

LEMMA NextClaims ==
  ASSUME Prompt, TypeOK, Claims, [Next]_vars
  PROVE  Claims'
<1>1. CASE Tick
  <2>1. OwnerKeepsClaim'
    BY <1>1 DEF Tick, Claims, OwnerKeepsClaim, Owns
  <2>2. InTime'
    <3> SUFFICES ASSUME NEW w \in Workers, worker[w].pc \in Active
                 PROVE  /\ now' <= worker[w].deadline
                        /\ worker[w].deadline <= row.started + Budget(worker[w].pc)
      BY <1>1 DEF Tick, InTime
    <3>1. now < worker[w].deadline
      BY <1>1 DEF Tick, At, Active
    <3>2. now \in Nat /\ worker[w].deadline \in Nat
      BY Settings DEF TypeOK
    <3> QED BY <1>1, <3>1, <3>2 DEF Tick, Claims, InTime
  <2> QED BY <2>1, <2>2 DEF Claims
<1>2. CASE Cleanup
  <2>1. NoneActive
    BY <1>2, OwnedIsFresh DEF Cleanup
  <2> QED BY <1>2, <2>1, NoOwner DEF Cleanup, NoneActive, Claims, OwnerKeepsClaim, InTime
<1>3. ASSUME NEW w \in Workers, ReadHistory(w)
      PROVE  Claims'
  <2>1. /\ \A v \in Workers : v # w => worker'[v] = worker[v]
        /\ worker'[w].pc \notin Active
    BY <1>3 DEF TypeOK, ReadHistory, Idle, Active
  <2> QED BY <1>3, <2>1 DEF ReadHistory, Claims, OwnerKeepsClaim, InTime, Owns
<1>4. ASSUME NEW w \in Workers, ClaimFirst(w)
      PROVE  Claims'
  <2>1. NoneActive
    BY <1>4, OwnedIsFresh DEF ClaimFirst
  <2>2. CASE worker[w].paid
    <3>1. NoneActive'
      BY <1>4, <2>1, <2>2, OwnerLeaves DEF ClaimFirst
    <3> QED BY <3>1 DEF NoneActive, Claims, OwnerKeepsClaim, InTime
  <2>3. CASE ~worker[w].paid
    <3> DEFINE next == worker[w].seen + 1
    <3>1. next \in 0..MaxAttempt
      BY <1>4, <2>3, Settings DEF ClaimFirst, TypeOK
    <3>2. Put("reserved", next) /\ Own(w, next) /\ now' = now
      BY <1>4, <2>3 DEF ClaimFirst
    <3> HIDE DEF next
    <3> QED BY <2>1, <3>1, <3>2, OwnerEnters
  <2> QED BY <2>2, <2>3
<1>5. ASSUME NEW w \in Workers, ClaimAnswered(w)
      PROVE  Claims'
  <2>1. CASE row.state = "reserved"
    <3>1. row' = row /\ now' = now
      BY <1>5, <2>1 DEF ClaimAnswered
    <3> QED BY <1>5, <3>1, OwnerLeaves DEF ClaimAnswered
  <2>2. CASE row.state # "reserved"
    <3>1. NoneActive'
      BY <1>5, <2>2, OwnedIsFresh, OwnerLeaves DEF ClaimAnswered
    <3> QED BY <3>1 DEF NoneActive, Claims, OwnerKeepsClaim, InTime
  <2> QED BY <2>1, <2>2
<1>6. ASSUME NEW w \in Workers, ClaimNext(w)
      PROVE  Claims'
  <2> DEFINE next == row.attempt + 1
  <2>1. NoneActive
    BY <1>6, OwnedIsFresh DEF ClaimNext
  <2>2. next \in 0..MaxAttempt
    BY <1>6, Settings DEF ClaimNext, TypeOK
  <2>3. Put("reserved", next) /\ Own(w, next) /\ now' = now
    BY <1>6 DEF ClaimNext
  <2> HIDE DEF next
  <2> QED BY <2>1, <2>2, <2>3, OwnerEnters
<1>7. ASSUME NEW w \in Workers, Reserve(w) \/ GiveUpReserving(w) \/ Provide(w)
      PROVE  Claims'
  <2>1. worker[w].pc \in Active /\ row' = row /\ now' = now
    BY <1>7 DEF Reserve, GiveUpReserving, Provide, At, Active
  <2>2. CASE Answer(w)
    BY <2>1, <2>2, OwnerLeaves
  <2>3. CASE At(w, "reserve") /\ Goto(w, "provide", ProviderBound)
    <3>1. Budget("reserve") + ProviderBound <= Budget("provide")
      BY Settings DEF Budget
    <3> QED BY <2>1, <2>3, <3>1, OwnerGoesOn, Settings DEF At, Active
  <2>4. CASE At(w, "reserve") /\ Goto(w, "cancel", TailBound)
    <3>1. Budget("reserve") + TailBound <= Budget("cancel")
      BY Settings DEF Budget
    <3> QED BY <2>1, <2>4, <3>1, OwnerGoesOn, Settings DEF At, Active
  <2>5. ASSUME NEW p \in {"settle", "fail"}, At(w, "provide"), Goto(w, p, TailBound)
        PROVE  Claims'
    <3>1. Budget("provide") + TailBound <= Budget(p)
      BY Settings DEF Budget
    <3> QED BY <2>1, <2>5, <3>1, OwnerGoesOn, Settings DEF At, Active
  <2> QED BY <1>7, <2>2, <2>3, <2>4, <2>5 DEF Reserve, GiveUpReserving, Provide
<1>8. ASSUME NEW w \in Workers, Settle(w) \/ FailRequest(w) \/ CancelRequest(w)
      PROVE  Claims'
  <2>1. worker[w].pc \in Active /\ Answer(w)
    BY <1>8 DEF Settle, FailRequest, CancelRequest, At, Active
  <2>2. NoneActive'
    BY <2>1, OwnerLeaves
  <2> QED BY <2>2 DEF NoneActive, Claims, OwnerKeepsClaim, InTime
<1>9. ASSUME NEW w \in Workers, Abandon(w)
      PROVE  Claims'
  BY <1>9, OwnerLeaves DEF Abandon
<1>10. CASE UNCHANGED vars
  BY <1>10 DEF vars, Claims, OwnerKeepsClaim, InTime, Owns
<1> QED BY <1>1, <1>2, <1>3, <1>4, <1>5, <1>6, <1>7, <1>8, <1>9, <1>10 DEF Next

\* While the phases of an owner end before the stale threshold, whatever they
\* take, no live owner loses its claim and no attempt has two workers.
THEOREM OwnersKeepClaims ==
  ASSUME Prompt
  PROVE  Spec => []OwnerKeepsClaim
<1>1. Init => TypeOK /\ HasNewest /\ Claims
  BY InitTyped, InitClaims
<1>2. TypeOK /\ HasNewest /\ Claims /\ [Next]_vars => (TypeOK /\ HasNewest /\ Claims)'
  BY NextTyped, NextClaims
<1>3. Claims => OwnerKeepsClaim
  BY DEF Claims
<1> QED BY <1>1, <1>2, <1>3, PTL DEF Spec

-----------------------------------------------------------------------------
(* Charges                                                                 *)

\* A refund leaves no reservation of the attempt behind, and no other changes.
LEMMA Refunded ==
  ASSUME TypeOK, NEW r, usage' = RefundIfExists(r)
  PROVE  \A a \in Attempts : usage'[a] = IF a = r /\ usage[a] = "reserved" THEN "refunded" ELSE usage[a]
BY DEF TypeOK, RefundIfExists

LEMMA NextStranded ==
  ASSUME Prompt, TypeOK, Claims, NoneStranded, [Next]_vars
  PROVE  NoneStranded'
<1>1. CASE Tick \/ UNCHANGED vars
  BY <1>1 DEF Tick, vars, NoneStranded
<1>2. CASE Cleanup
  BY <1>2 DEF Cleanup, NoneStranded
<1>3. ASSUME NEW w \in Workers, ReadHistory(w) \/ GiveUpReserving(w) \/ Provide(w) \/ Abandon(w)
      PROVE  NoneStranded'
  BY <1>3 DEF ReadHistory, GiveUpReserving, Provide, Abandon, NoneStranded
<1>4. ASSUME NEW w \in Workers, ClaimFirst(w) \/ ClaimAnswered(w)
      PROVE  NoneStranded'
  <2>1. CASE ClaimFirst(w)
    BY <2>1 DEF ClaimFirst, NoneStranded
  <2>2. CASE ClaimAnswered(w)
    BY <2>2 DEF ClaimAnswered, NoneStranded
  <2> QED BY <1>4, <2>1, <2>2
<1>5. ASSUME NEW w \in Workers, ClaimNext(w)
      PROVE  NoneStranded'
  <2>1. \A a \in Attempts : usage'[a] # "reserved"
    BY <1>5, Refunded DEF ClaimNext, NoneStranded, Stale
  <2> QED BY <2>1 DEF NoneStranded
<1>6. ASSUME NEW w \in Workers, Reserve(w)
      PROVE  NoneStranded'
  <2>1. Owns(w)
    BY <1>6 DEF Reserve, At, Active, Claims, OwnerKeepsClaim
  <2> QED BY <1>6, <2>1 DEF Reserve, Owns, NoneStranded, TypeOK
<1>7. ASSUME NEW w \in Workers, Settle(w)
      PROVE  NoneStranded'
  BY <1>7 DEF Settle, NoneStranded, TypeOK
<1>8. ASSUME NEW w \in Workers, FailRequest(w)
      PROVE  NoneStranded'
  BY <1>8, Refunded DEF FailRequest, NoneStranded
<1>9. ASSUME NEW w \in Workers, CancelRequest(w)
      PROVE  NoneStranded'
  BY <1>9 DEF CancelRequest, NoneStranded
<1> QED BY <1>1, <1>2, <1>3, <1>4, <1>5, <1>6, <1>7, <1>8, <1>9 DEF Next

\* Under the same condition every reservation that is still charged belongs to
\* the claim in force.
THEOREM ReservationsAreClaimed ==
  ASSUME Prompt
  PROVE  Spec => []NoneStranded
<1> DEFINE Inv == TypeOK /\ HasNewest /\ Claims /\ NoneStranded
<1>1. Init => Inv
  BY InitTyped, InitClaims DEF Init, NoneStranded
<1>2. Inv /\ [Next]_vars => Inv'
  BY NextTyped, NextClaims, NextStranded
<1>3. Inv => NoneStranded
  OBVIOUS
<1> QED BY <1>1, <1>2, <1>3, PTL DEF Spec

-----------------------------------------------------------------------------
(* Payment                                                                 *)

\* The usage rows agree with the request's row: what is settled came last and
\* is what the row stores, and a claim that may still be paid is the newest.
History ==
  /\ \A a, b \in Attempts : usage[a] = "settled" /\ b > a => usage[b] = "none"
  /\ row.state \in {"reserved", "failed"} =>
       /\ row.attempt \in Attempts
       /\ \A a \in Attempts : usage[a] # "settled" /\ (a > row.attempt => usage[a] = "none")
  /\ row.state \in {"completed", "expired"} =>
       row.attempt \in Attempts /\ usage[row.attempt] = "settled"
  /\ row.state = "none" => row.attempt = 0

\* Two settled attempts would each be newer than the other.
LEMMA HistoryIsPaid ==
  ASSUME TypeOK, History
  PROVE  StoredIsPaid /\ PaidOnce
<1>1. \A a, b \in Attempts : usage[a] = "settled" /\ usage[b] = "settled" => a = b
  BY DEF History, Attempts
<1>2. StoredIsPaid
  <2>1. ASSUME NEW a \in Attempts, usage[a] = "settled"
        PROVE  row.state \in {"none", "completed", "expired"} /\ row.attempt \in {0, a}
    BY <1>1, <2>1 DEF History, TypeOK
  <2> QED BY <2>1 DEF StoredIsPaid, History
<1>3. PaidOnce
  <2> DEFINE S == {a \in Attempts : usage[a] = "settled"}
  <2>1. CASE S = {}
    BY <2>1, FS_EmptySet DEF PaidOnce
  <2>2. CASE S # {}
    <3>1. PICK a \in Attempts : S = {a}
      BY <1>1, <2>2
    <3>2. Cardinality(S) = 1
      BY <3>1, FS_Singleton
    <3> QED BY <3>2 DEF PaidOnce
  <2> QED BY <2>1, <2>2
<1> QED BY <1>2, <1>3

LEMMA NextHistory ==
  ASSUME Prompt, ~Disturbed, TypeOK, HasNewest, Claims, NoneStranded, History, [Next]_vars
  PROVE  History'
<1>1. CASE Tick \/ UNCHANGED vars
  BY <1>1 DEF Tick, vars, History
<1>2. CASE Cleanup
  BY <1>2 DEF Cleanup, NoRow, History
<1>3. ASSUME NEW w \in Workers, ReadHistory(w) \/ GiveUpReserving(w) \/ Provide(w) \/ Abandon(w)
      PROVE  History'
  BY <1>3 DEF ReadHistory, GiveUpReserving, Provide, Abandon, History
<1>4. ASSUME NEW w \in Workers, ClaimFirst(w)
      PROVE  History'
  <2>1. /\ Latest \in 0..MaxAttempt /\ NewestIs(Latest)
        /\ worker[w].seen = Latest /\ worker[w].paid = Paid
    BY <1>4, LatestIsNewest DEF ClaimFirst
  <2>2. usage' = usage /\ row.state = "none"
    BY <1>4 DEF ClaimFirst
  <2>3. CASE Paid
    <3>1. /\ row'.state = "expired" /\ row'.attempt = Latest
      BY <1>4, <2>1, <2>3 DEF ClaimFirst, Put
    <3>2. Latest \in Attempts
      BY <2>1, <2>3, Settings DEF Paid, Attempts
    <3>3. usage[Latest] = "settled"
      BY <2>1, <2>2, <2>3, <3>2 DEF Paid, NewestIs, NoneStranded, TypeOK, Attempts
    <3> QED BY <2>2, <3>1, <3>2, <3>3 DEF History
  <2>4. CASE ~Paid
    <3>1. row'.state = "reserved" /\ row'.attempt = Latest + 1 /\ Latest + 1 \in Attempts
      BY <1>4, <2>1, <2>4, Settings DEF ClaimFirst, Put, Attempts
    <3>2. ASSUME NEW a \in Attempts, usage[a] = "settled"
          PROVE  FALSE
      <4>1. a = Latest
        BY <2>1, <3>2 DEF History, NewestIs, Attempts
      <4> QED BY <2>4, <3>2, <4>1 DEF Paid, Attempts
    <3>3. \A a \in Attempts : a > Latest + 1 => usage[a] = "none"
      BY <2>1 DEF NewestIs, Attempts
    <3> QED BY <2>2, <3>1, <3>2, <3>3 DEF History
  <2> QED BY <2>3, <2>4
<1>5. ASSUME NEW w \in Workers, ClaimAnswered(w)
      PROVE  History'
  BY <1>5 DEF ClaimAnswered, History, TypeOK
<1>6. ASSUME NEW w \in Workers, ClaimNext(w)
      PROVE  History'
  <2>1. row.state \in {"reserved", "failed"}
    BY <1>6 DEF ClaimNext, Stale
  <2>2. row'.state = "reserved" /\ row'.attempt = row.attempt + 1 /\ row.attempt + 1 \in Attempts
    BY <1>6, <2>1, Settings DEF ClaimNext, Put, History, Attempts
  <2>3. \A a \in Attempts : usage'[a] = usage[a] \/ (usage[a] = "reserved" /\ usage'[a] = "refunded")
    BY <1>6, Refunded DEF ClaimNext
  <2>4. \A a \in Attempts : a > row.attempt + 1 => a > row.attempt
    BY <2>1 DEF History, Attempts
  <2> QED BY <2>1, <2>2, <2>3, <2>4 DEF History
<1>7. ASSUME NEW w \in Workers, Reserve(w)
      PROVE  History'
  <2>1. Owns(w)
    BY <1>7 DEF Reserve, At, Active, Claims, OwnerKeepsClaim
  <2>2. \A a \in Attempts : usage'[a] # usage[a] => a = row.attempt /\ usage'[a] = "reserved"
    BY <1>7, <2>1 DEF Reserve, Owns, TypeOK
  <2> QED BY <1>7, <2>1, <2>2 DEF Reserve, Owns, History, Attempts
<1>8. ASSUME NEW w \in Workers, Settle(w)
      PROVE  History'
  <2>1. CASE Owns(w) /\ usage[row.attempt] = "reserved"
    <3>1. row'.state = "completed" /\ row'.attempt = row.attempt /\ row.attempt \in Attempts
      BY <1>8, <2>1 DEF Settle, Owns, History, TypeOK
    <3>2. \A a \in Attempts : usage'[a] = IF a = row.attempt THEN "settled" ELSE usage[a]
      BY <1>8, <2>1 DEF Settle, TypeOK
    <3> QED BY <2>1, <3>1, <3>2 DEF Owns, History, Attempts
  <2>2. CASE ~(Owns(w) /\ usage[row.attempt] = "reserved")
    BY <1>8, <2>2 DEF Settle, History
  <2> QED BY <2>1, <2>2
<1>9. ASSUME NEW w \in Workers, FailRequest(w)
      PROVE  History'
  <2>1. CASE Owns(w)
    <3>1. row'.state = "failed" /\ row'.attempt = row.attempt
      BY <1>9, <2>1 DEF FailRequest, TypeOK
    <3>2. \A a \in Attempts : usage'[a] = usage[a] \/ (usage[a] = "reserved" /\ usage'[a] = "refunded")
      BY <1>9, <2>1, Refunded DEF FailRequest
    <3> QED BY <2>1, <3>1, <3>2 DEF Owns, History
  <2>2. CASE ~Owns(w)
    BY <1>9, <2>2 DEF FailRequest, History
  <2> QED BY <2>1, <2>2
<1>10. ASSUME NEW w \in Workers, CancelRequest(w)
       PROVE  History'
  BY <1>10 DEF CancelRequest, NoRow, History
<1> QED
  BY <1>1, <1>2, <1>3, <1>4, <1>5, <1>6, <1>7, <1>8, <1>9, <1>10 DEF Next

Undisturbed == TypeOK /\ HasNewest /\ Claims /\ NoneStranded /\ History

LEMMA UndisturbedHolds ==
  ASSUME Prompt, ~Disturbed
  PROVE  Spec => []Undisturbed
<1>1. Init => Undisturbed
  <2>1. Init => History
    BY DEF Init, NoRow, History
  <2> QED BY <2>1, InitTyped, InitClaims DEF Init, NoneStranded, Undisturbed
<1>2. Undisturbed /\ [Next]_vars => Undisturbed'
  BY NextTyped, NextClaims, NextStranded, NextHistory DEF Undisturbed
<1> QED BY <1>1, <1>2, PTL DEF Spec

\* If, besides, no other attempt is made between the two statements of a claim,
\* a request is paid at most once, however often its row is cleaned up.
THEOREM RequestsArePaidOnce ==
  ASSUME Prompt, ~Disturbed
  PROVE  Spec => []PaidOnce
<1>1. Undisturbed => PaidOnce
  BY HistoryIsPaid DEF Undisturbed
<1> QED BY <1>1, UndisturbedHolds, PTL

\* Under the same conditions a result is stored exactly when it is paid for.
THEOREM ResultsArePaid ==
  ASSUME Prompt, ~Disturbed
  PROVE  Spec => []StoredIsPaid
<1>1. Undisturbed => StoredIsPaid
  BY HistoryIsPaid DEF Undisturbed
<1> QED BY <1>1, UndisturbedHolds, PTL

-----------------------------------------------------------------------------
(* A request is one claim                                                  *)

\* What the row says of the claim, as long as usage and row agree.
LEMMA ClaimStates ==
  ASSUME TypeOK, History
  PROVE  /\ row.state \in {"completed", "expired"} => ClaimState = "paid"
         /\ row.state = "reserved" => ClaimState = "held"
         /\ row.state = "failed" => ClaimState = "failed"
         /\ row.state = "none" => ClaimState \in {"none", "paid"}
         /\ ClaimState \in R!States
BY DEF TypeOK, History, ClaimState, R!States

\* Who works owns the claim alone.
LEMMA OwnersAre ==
  ASSUME Claims
  PROVE  /\ \A w \in Workers : worker[w].pc \in Active => Owners = {w} /\ row.state = "reserved"
         /\ NoneActive <=> Owners = {}
BY DEF Claims, OwnerKeepsClaim, Owns, Owners, NoneActive

\* The owners after one worker's step.
LEMMA OwnersMove ==
  ASSUME TypeOK, NEW w \in Workers, NEW x, worker' = [worker EXCEPT ![w] = x]
  PROVE  Owners' = IF x.pc \in Active THEN Owners \union {w} ELSE Owners \ {w}
BY DEF TypeOK, Owners

LEMMA OwnersLeave ==
  ASSUME TypeOK, NEW w \in Workers, Answer(w)
  PROVE  Owners' = Owners \ {w}
BY OwnersMove DEF Answer, Idle, Active

LEMMA OwnersAdvance ==
  ASSUME TypeOK, NEW w \in Workers, worker[w].pc \in Active, NEW pc \in Active, NEW bound, Goto(w, pc, bound)
  PROVE  Owners' = Owners
BY DEF TypeOK, Owners, Goto

LEMMA NextClaim ==
  ASSUME Prompt, ~Disturbed, Undisturbed, Undisturbed', [Next]_vars
  PROVE  R!Next \/ UNCHANGED <<ClaimState, Owners>>
<1>1. /\ TypeOK /\ Claims /\ NoneStranded /\ History
      /\ TypeOK' /\ Claims' /\ History'
  BY DEF Undisturbed
<1>2. /\ row.state \in {"completed", "expired"} => ClaimState = "paid"
      /\ row.state = "reserved" => ClaimState = "held"
      /\ row.state = "failed" => ClaimState = "failed"
      /\ row.state = "none" => ClaimState \in {"none", "paid"}
  BY <1>1, ClaimStates
<1>3. /\ row'.state \in {"completed", "expired"} => ClaimState' = "paid"
      /\ row'.state = "reserved" => ClaimState' = "held"
      /\ ClaimState' \in R!States
  BY <1>1 DEF TypeOK, History, ClaimState, R!States
<1>4. CASE Tick \/ UNCHANGED vars
  BY <1>4 DEF Tick, vars, ClaimState, Owners
<1>5. CASE Cleanup
  <2>1. Owners' = Owners /\ usage' = usage /\ row' = NoRow
    BY <1>5 DEF Cleanup, Owners
  <2>2. CASE row.state = "failed"
    BY <1>2, <2>1, <2>2 DEF ClaimState, NoRow, R!Next, R!Forget
  <2>3. CASE row.state \in {"completed", "expired"}
    BY <1>2, <2>1, <2>3 DEF ClaimState, NoRow
  <2> QED BY <1>5, <2>2, <2>3 DEF Cleanup
<1>6. ASSUME NEW w \in Workers, ReadHistory(w)
      PROVE  UNCHANGED <<ClaimState, Owners>>
  <2>1. worker[w].pc = "idle" /\ UNCHANGED <<row, usage>>
    BY <1>6 DEF ReadHistory, At
  <2> DEFINE x == [Idle EXCEPT !.pc = "claim", !.seen = Latest, !.paid = Paid, !.deadline = now + TailBound]
  <2>2. worker' = [worker EXCEPT ![w] = x] /\ x.pc = "claim"
    BY <1>6 DEF ReadHistory, Idle
  <2> HIDE DEF x
  <2>3. Owners' = Owners \ {w} /\ w \notin Owners
    BY <1>1, <2>1, <2>2, OwnersMove DEF Owners, Active
  <2> QED BY <2>1, <2>3 DEF ClaimState
<1>7. ASSUME NEW w \in Workers, At(w, "claim"), NoneActive, ClaimState # "paid", row'.state = "reserved",
             NEW attempt, Own(w, attempt)
      PROVE  R!Own(w)
  <2> DEFINE x == [Idle EXCEPT !.pc = "reserve", !.attempt = attempt, !.deadline = now + ReserveBound]
  <2>1. worker' = [worker EXCEPT ![w] = x] /\ x.pc = "reserve"
    BY <1>7 DEF Own, Idle
  <2> HIDE DEF x
  <2>2. Owners = {} /\ Owners' = {w}
    BY <1>1, <1>7, <2>1, OwnersAre, OwnersMove DEF Active
  <2> QED BY <1>3, <1>7, <2>2 DEF R!Own
<1>8. ASSUME NEW w \in Workers, ClaimFirst(w)
      PROVE  R!Own(w) \/ UNCHANGED <<ClaimState, Owners>>
  <2>1. /\ row.state = "none" /\ usage' = usage /\ NoneActive /\ w \notin Owners
    BY <1>1, <1>8 DEF ClaimFirst, NoneActive, Claims, OwnerKeepsClaim, Owns, Owners
  <2>2. CASE worker[w].paid
    <3>1. row'.state = "expired" /\ Answer(w)
      BY <1>8, <2>2 DEF ClaimFirst, Put
    <3>2. \E a \in Attempts : usage[a] = "settled"
      BY <1>1, <2>1, <3>1 DEF History
    <3> QED BY <1>1, <2>1, <3>1, <3>2, OwnersLeave DEF ClaimState
  <2>3. CASE ~worker[w].paid
    <3>1. PICK attempt : row'.state = "reserved" /\ Own(w, attempt)
      BY <1>8, <2>3 DEF ClaimFirst, Put
    <3>2. \A a \in Attempts : usage[a] # "settled"
      BY <1>1, <2>1, <3>1 DEF History
    <3>3. ClaimState # "paid"
      BY <2>1, <3>2 DEF ClaimState
    <3> QED BY <1>7, <1>8, <2>1, <3>1, <3>3 DEF ClaimFirst
  <2> QED BY <2>2, <2>3
<1>9. ASSUME NEW w \in Workers, ClaimAnswered(w)
      PROVE  UNCHANGED <<ClaimState, Owners>>
  <2>1. /\ worker[w].pc = "claim" /\ Answer(w) /\ usage' = usage
        /\ row' = row \/ (row.state = "completed" /\ row'.state = "expired")
    BY <1>1, <1>9 DEF ClaimAnswered, At, TypeOK
  <2>2. Owners' = Owners
    BY <1>1, <2>1, OwnersLeave DEF Owners, Active
  <2> QED BY <1>2, <1>3, <2>1, <2>2 DEF ClaimState
<1>10. ASSUME NEW w \in Workers, ClaimNext(w)
       PROVE  R!Own(w)
  <2>1. NoneActive /\ row.state \in {"reserved", "failed"}
    BY <1>1, <1>10, OwnedIsFresh DEF ClaimNext, Stale
  <2>2. PICK attempt : row'.state = "reserved" /\ Own(w, attempt)
    BY <1>10 DEF ClaimNext, Put
  <2> QED BY <1>2, <1>7, <1>10, <2>1, <2>2 DEF ClaimNext
<1>11. ASSUME NEW w \in Workers, worker[w].pc \in Active, Answer(w)
       PROVE  R!Leave(w)
  <2>1. Owners = {w} /\ Owners' = {}
    BY <1>1, <1>11, OwnersAre, OwnersLeave
  <2> QED BY <1>3, <2>1 DEF R!Leave
<1>12. ASSUME NEW w \in Workers, worker[w].pc \in Active, NEW pc \in Active, NEW bound, Goto(w, pc, bound), row' = row
       PROVE  UNCHANGED <<ClaimState, Owners>>
  <2>1. row.state = "reserved" /\ Owners' = Owners
    BY <1>1, <1>12, OwnersAre, OwnersAdvance
  <2> QED BY <1>2, <1>3, <1>12, <2>1
<1>13. ASSUME NEW w \in Workers, Reserve(w) \/ GiveUpReserving(w) \/ Provide(w)
       PROVE  R!Leave(w) \/ UNCHANGED <<ClaimState, Owners>>
  <2>1. worker[w].pc \in Active /\ row' = row
    BY <1>13 DEF Reserve, GiveUpReserving, Provide, At, Active
  <2>2. Answer(w) \/ \E pc \in Active, bound \in Nat : Goto(w, pc, bound)
    BY <1>13, Settings DEF Reserve, GiveUpReserving, Provide, Active
  <2> QED BY <1>11, <1>12, <2>1, <2>2
<1>14. ASSUME NEW w \in Workers, Settle(w) \/ FailRequest(w) \/ CancelRequest(w)
       PROVE  R!Leave(w)
  BY <1>11, <1>14 DEF Settle, FailRequest, CancelRequest, At, Active
<1>15. ASSUME NEW w \in Workers, Abandon(w)
       PROVE  R!Leave(w) \/ UNCHANGED <<ClaimState, Owners>>
  <2>1. CASE worker[w].pc \in Active
    BY <1>11, <1>15, <2>1 DEF Abandon
  <2>2. CASE worker[w].pc \notin Active
    BY <1>1, <1>15, <2>2, OwnersLeave DEF Abandon, ClaimState, Owners
  <2> QED BY <2>1, <2>2
<1> QED
  BY <1>4, <1>5, <1>6, <1>8, <1>9, <1>10, <1>13, <1>14, <1>15 DEF Next, R!Next

\* The durable claim is used as RequestClaim promises. Given the reservation,
\* the provider and the tail fit into the time a claim stays fresh, and the
\* clock is not disturbed, ClaimTranslationRequest gives the claim to one
\* attempt at a time and only if nothing is paid; whoever has it leaves it with
\* its outcome, or dies with it; and CleanupTranslationRequestResults forgets
\* failures but never, with the usage that outlives its row, a payment.
THEOREM RequestIsAClaim ==
  ASSUME Prompt, ~Disturbed
  PROVE  Spec => ImplementsClaim
<1>1. Init => R!Init
  BY DEF Init, NoRow, Idle, Active, ClaimState, Owners, R!Init
<1>2. Undisturbed /\ Undisturbed' /\ [Next]_vars => [R!Next]_<<ClaimState, Owners>>
  BY NextClaim
<1> QED BY <1>1, <1>2, UndisturbedHolds, PTL DEF Spec, ImplementsClaim, R!Spec

-----------------------------------------------------------------------------
(* Translation websockets                                                  *)

Phases == {"open", "switching", "left", "finishing", "closed"}
Barriers == [target : Nat, heard : Nat]
Connection ==
  [phase : Phases, cut : BOOLEAN, gate : BOOLEAN, session : Sessions, to : Sessions,
   target : Nat, heard : Nat, held : SUBSET Nat, batch : SUBSET Nat, notes : BOOLEAN,
   flushes : SUBSET Barriers, acked : Nat, context : SUBSET Sessions]
Para == [units : SUBSET Nat, id : Requests \cup {"none"}, content : Contents,
         session : Sessions, entry : Nat]
Outcome == [kind : {"pending", "again", "failed", "ok"}, content : Contents \cup {"none"}]
Entry == [content : Contents, owner : Conns, aged : BOOLEAN, result : Outcome]
Numbered(c) == 1..Len(paragraphs[c])
InWork == {"claim", "reserve", "provide", "settle"}

SocketTyped ==
  /\ conn \in [Conns -> Connection]
  /\ paragraphs \in [Conns -> Seq(Para)]
  /\ jobs \in [Conns -> Seq(Nat)]
  /\ hands \in [Conns -> [JobWorkers -> [pc : InWork \cup {"idle"}, n : Nat]]]
  /\ waiting \in [Conns -> SUBSET [seq : Nat, entry : Nat]]
  /\ aux \in [Conns -> SUBSET [unit : Nat, session : Sessions]]
  /\ arrived \in [Conns -> SUBSET [seq : Nat, result : Outcome]]
  /\ written \in [Conns -> Seq(Outcome)]
  /\ registry \in [Keys -> Nat]
  /\ entries \in Seq(Entry)
  /\ claims \in [Keys -> [state : {"none", "held", "failed", "paid"}, content : Contents \cup {"none"}]]

\* The paragraphs of "ps" up to number n hold every unit up to h.
Hold(ps, n, units) == \A u \in units : \E i \in 1..n : u \in ps[i].units

\* Every transcript heard is held, in the timer's hands or in a paragraph; what
\* a barrier waits for, and what was acknowledged, is in the paragraphs so far.
Kept(c) ==
  /\ Hold(paragraphs[c], Len(paragraphs[c]), (1..conn[c].heard) \ (conn[c].held \cup conn[c].batch))
  /\ \A f \in conn[c].flushes :
       f.target <= Len(paragraphs[c]) /\ Hold(paragraphs[c], f.target, 1..f.heard)
  /\ Hold(paragraphs[c], Len(written[c]), 1..conn[c].acked)
  /\ Len(written[c]) <= Len(paragraphs[c])
  /\ conn[c].phase \in {"switching", "finishing", "closed"} => conn[c].held = {} /\ conn[c].batch = {}
  /\ conn[c].phase = "switching" => conn[c].target = Len(paragraphs[c])

\* Queued or with a worker.
Queued(c, n) == \E i \in 1..Len(jobs[c]) : jobs[c][i] = n
With(c, w, n) == hands[c][w].pc # "idle" /\ hands[c][w].n = n
OnTheWay(c, n) == Queued(c, n) \/ \E w \in JobWorkers : With(c, w, n)

\* A number is queued once, or with one worker.
Distinct(c) ==
  /\ \A i, j \in 1..Len(jobs[c]) : jobs[c][i] = jobs[c][j] => i = j
  /\ \A v \in JobWorkers, n \in Nat : With(c, v, n) =>
       ~Queued(c, n) /\ \A w \in JobWorkers : With(c, w, n) => v = w

\* One that is, has no result yet, and no other is waited for in its place.
Placed(c) ==
  /\ \A n \in Nat : OnTheWay(c, n) =>
       /\ n \in Numbered(c) /\ n > Len(written[c])
       /\ \A r \in arrived[c] : r.seq # n
       /\ \A x \in waiting[c] : x.seq # n
  /\ \A r \in arrived[c] : r.seq \in Numbered(c)
  /\ \A x \in waiting[c] : x.seq \in Numbered(c) /\ x.entry \in 1..Len(entries)

\* What is under way is of the connection's session.
Apart(c) ==
  /\ \A n \in Numbered(c) : OnTheWay(c, n) => paragraphs[c][n].session = conn[c].session
  /\ \A t \in aux[c] : t.session = conn[c].session
  /\ conn[c].context \subseteq {conn[c].session}

\* Nothing is under way on a connection that has ended.
Ended(c) == conn[c].phase = "closed" => \A n \in Nat : ~OnTheWay(c, n)

\* A paragraph with an entry made it, and the entry is nobody else's.
Owned(c, n) ==
  LET p == paragraphs[c][n] IN
  /\ p.entry \in 0..Len(entries)
  /\ OnTheWay(c, n) /\ p.id # "none" => p.entry # 0
  /\ p.entry # 0 =>
       /\ p.id # "none" /\ entries[p.entry].content = p.content /\ entries[p.entry].owner = c
       /\ \A k \in Keys : registry[k] = p.entry => k = KeyOf(p)
       /\ \A d \in Conns : \A m \in Numbered(d) :
            paragraphs[d][m].entry = p.entry => d = c /\ m = n

\* An entry in flight stands for its request, and its paragraph is under way
\* unless its connection was cut; one under way that has not aged is in flight.
InFlight(c, n) ==
  LET p == paragraphs[c][n] IN p.entry # 0 =>
  /\ entries[p.entry].result = Pending =>
       registry[KeyOf(p)] = p.entry /\ (OnTheWay(c, n) \/ conn[c].cut)
  /\ OnTheWay(c, n) /\ ~entries[p.entry].aged =>
       registry[KeyOf(p)] = p.entry /\ entries[p.entry].result = Pending

\* A translation on its way to a paragraph is of its content.
Matching ==
  /\ \A c \in Conns :
       /\ \A r \in arrived[c] : r.result.kind = "ok" => r.result.content = paragraphs[c][r.seq].content
       /\ \A x \in waiting[c] : entries[x.entry].content = paragraphs[c][x.seq].content
  /\ \A e \in 1..Len(entries) : entries[e].result.kind = "ok" => entries[e].result.content = entries[e].content
  /\ \A k \in Keys : registry[k] \in 0..Len(entries) /\ (claims[k].state = "paid" => claims[k].content # "none")

\* The worker has the claim of request k.
Holds(c, w, k) ==
  /\ hands[c][w].pc \in {"reserve", "provide", "settle"}
  /\ Job(c, w).id # "none" /\ KeyOf(Job(c, w)) = k

\* A claim has one holder, and says what it translates.
Claimed(k) ==
  \A c \in Conns, w \in JobWorkers : Holds(c, w, k) =>
    /\ claims[k] = [state |-> "held", content |-> Job(c, w).content]
    /\ \A d \in Conns, v \in JobWorkers : Holds(d, v, k) => d = c /\ v = w

\* Who was refused for good has nothing paid, and nobody is about to pay it.
Refused(k) == LET entry == entries[registry[k]] IN
  registry[k] # 0 /\ entry.result = Failed /\ ~conn[entry.owner].cut =>
    /\ claims[k] # [state |-> "paid", content |-> entry.content]
    /\ \A c \in Conns, w \in JobWorkers : Holds(c, w, k) => Job(c, w).content # entry.content

Faithful ==
  /\ SocketTyped /\ Matching /\ AnswersMatch
  /\ \A c \in Conns : Kept(c) /\ Distinct(c) /\ Placed(c) /\ Apart(c) /\ Ended(c)
  /\ \A c \in Conns : \A n \in Numbered(c) : Owned(c, n) /\ InFlight(c, n)
  /\ \A k \in Keys : Claimed(k) /\ Refused(k)

LEMMA Given ==
  /\ First \in Sessions /\ Contents # {} /\ "none" \notin Requests /\ "none" \notin Contents
  /\ Plain \subseteq Conns /\ Identified \subseteq Conns /\ Summarising \subseteq Conns
  /\ QueueCap \in Nat /\ FlushSlots \in Nat /\ Unnamed \in Contents
<1>1. Unnamed \in Contents
  BY SocketAssumption DEF Unnamed
<1> QED BY <1>1, SocketAssumption

LEMMA Outcomes ==
  /\ Pending \in Outcome /\ Again \in Outcome /\ Failed \in Outcome
  /\ \A x \in Contents \cup {"none"} : Ok(x) \in Outcome /\ Ok(x) # Pending /\ Ok(x) # Failed /\ Ok(x) # Again
  /\ \A x \in Contents \cup {"none"} : Ok(x).kind = "ok" /\ Ok(x).content = x
  /\ Pending.kind # "ok" /\ Again.kind # "ok" /\ Failed.kind # "ok"
  /\ Pending # Again /\ Pending # Failed /\ Again # Failed
BY DEF Pending, Again, Failed, Ok, Outcome

LEMMA Larger == ASSUME NEW a \in Nat, NEW b \in Nat PROVE Max({a, b}) = IF a >= b THEN a ELSE b
<1> DEFINE m == IF a >= b THEN a ELSE b
<1>1. m \in {a, b} /\ \A y \in {a, b} : m >= y
  OBVIOUS
<1>2. \A x \in {a, b} : (\A y \in {a, b} : x >= y) => x = m
  OBVIOUS
<1> HIDE DEF m
<1>3. (CHOOSE x \in {a, b} : \A y \in {a, b} : x >= y) = m
  BY <1>1, <1>2
<1> QED BY <1>3 DEF Max, m

LEMMA SocketInitTyped == ASSUME SocketInit PROVE SocketTyped
<1>1. conn \in [Conns -> Connection]
  BY Given DEF SocketInit, Connection, Phases
<1>2. paragraphs \in [Conns -> Seq(Para)] /\ jobs \in [Conns -> Seq(Nat)] /\ written \in [Conns -> Seq(Outcome)]
  BY DEF SocketInit
<1>3. hands \in [Conns -> [JobWorkers -> [pc : InWork \cup {"idle"}, n : Nat]]]
  BY DEF SocketInit, NoJob
<1>4. registry \in [Keys -> Nat]
  BY DEF SocketInit
<1>5. claims \in [Keys -> [state : {"none", "held", "failed", "paid"}, content : Contents \cup {"none"}]]
  BY DEF SocketInit
<1>6. /\ waiting \in [Conns -> SUBSET [seq : Nat, entry : Nat]]
      /\ aux \in [Conns -> SUBSET [unit : Nat, session : Sessions]]
      /\ arrived \in [Conns -> SUBSET [seq : Nat, result : Outcome]]
  BY DEF SocketInit
<1>7. entries \in Seq(Entry)
  BY DEF SocketInit
<1> QED BY <1>1, <1>2, <1>3, <1>4, <1>5, <1>6, <1>7 DEF SocketTyped

LEMMA InitFaithful == ASSUME SocketInit PROVE Faithful
<1>1. SocketTyped
  BY SocketInitTyped
<1>2. \A c \in Conns : /\ conn[c].phase = "open" /\ conn[c].heard = 0 /\ conn[c].flushes = {} /\ conn[c].acked = 0
                       /\ conn[c].context = {} /\ paragraphs[c] = <<>> /\ jobs[c] = <<>> /\ waiting[c] = {}
                       /\ aux[c] = {} /\ arrived[c] = {} /\ written[c] = <<>>
                       /\ \A w \in JobWorkers : hands[c][w].pc = "idle"
  BY DEF SocketInit, NoJob
<1>3. entries = <<>> /\ \A k \in Keys : registry[k] = 0 /\ claims[k].state = "none"
  BY DEF SocketInit
<1>4. Matching /\ AnswersMatch
  BY <1>2, <1>3 DEF Matching, AnswersMatch
<1>5. ASSUME NEW c \in Conns PROVE Kept(c) /\ Distinct(c) /\ Placed(c) /\ Apart(c) /\ Ended(c) /\ Numbered(c) = {}
  BY <1>2 DEF Ended, Kept, Distinct, Placed, Apart, Numbered, Hold, OnTheWay, Queued, With
<1>6. ASSUME NEW k \in Keys PROVE Claimed(k) /\ Refused(k)
  BY <1>2, <1>3 DEF Claimed, Refused, Holds
<1> QED BY <1>1, <1>4, <1>5, <1>6 DEF Faithful

-----------------------------------------------------------------------------
(* What the steps are made of                                              *)

\* The entries so far stay whose they are; one that was answered stays so, and
\* one that has aged too.
EntriesGrow ==
  /\ Len(entries) <= Len(entries')
  /\ \A e \in 1..Len(entries) :
       /\ entries'[e].content = entries[e].content /\ entries'[e].owner = entries[e].owner
       /\ entries[e].aged => entries'[e].aged
       /\ entries[e].result # Pending => entries'[e].result = entries[e].result

LEMMA SameEntries == ASSUME SocketTyped, UNCHANGED entries PROVE EntriesGrow
BY DEF EntriesGrow, SocketTyped

LEMMA SendTyped ==
  ASSUME SocketTyped, NEW c \in Conns, NEW n \in Nat, NEW result \in Outcome, Send(c, n, result)
  PROVE  /\ arrived' \in [Conns -> SUBSET [seq : Nat, result : Outcome]]
         /\ \A d \in Conns : d # c => arrived'[d] = arrived[d]
         /\ \A r \in arrived'[c] : r \in arrived[c] \/ r = [seq |-> n, result |-> result]
<1>1. arrived \in [Conns -> SUBSET [seq : Nat, result : Outcome]]
  BY DEF SocketTyped
<1>2. CASE arrived' = [arrived EXCEPT ![c] = @ \union {[seq |-> n, result |-> result]}]
  BY <1>1, <1>2
<1>3. CASE UNCHANGED arrived
  BY <1>1, <1>3
<1> QED BY <1>2, <1>3 DEF Send

\* One entry is given another result.
LEMMA EntryFilled ==
  ASSUME entries \in Seq(Entry), NEW e \in 1..Len(entries), NEW result \in Outcome,
         entries' = [entries EXCEPT ![e].result = result]
  PROVE  /\ entries' \in Seq(Entry) /\ Len(entries') = Len(entries)
         /\ \A f \in 1..Len(entries) : f # e => entries'[f] = entries[f]
         /\ entries'[e] = [entries[e] EXCEPT !.result = result]
<1>1. entries[e] \in Entry
  OBVIOUS
<1>2. [entries[e] EXCEPT !.result = result] \in Entry
  BY <1>1 DEF Entry
<1>3. entries' = [entries EXCEPT ![e] = [entries[e] EXCEPT !.result = result]]
  OBVIOUS
<1> QED BY <1>2, <1>3

\* A result is filled in at most into the paragraph's own entry.
LEMMA CompleteEffect ==
  ASSUME SocketTyped, NEW p \in Para, p.id # "none", NEW result \in Outcome, Complete(p, result),
         p.entry \in 1..Len(entries)
  PROVE  /\ registry' \in [Keys -> Nat] /\ Len(entries') = Len(entries) /\ KeyOf(p) \in Keys
         /\ entries' \in Seq(Entry)
         /\ \A e \in 1..Len(entries) : e # p.entry => entries'[e] = entries[e]
         /\ \A k \in Keys : k # KeyOf(p) => registry'[k] = registry[k]
         /\ entries'[p.entry].content = entries[p.entry].content
         /\ entries'[p.entry].owner = entries[p.entry].owner
         /\ entries'[p.entry].aged = entries[p.entry].aged
         /\ IF registry[KeyOf(p)] = p.entry /\ entries[p.entry].result = Pending
            THEN /\ entries'[p.entry].result = result
                 /\ registry'[KeyOf(p)] = IF result = Again THEN 0 ELSE p.entry
            ELSE registry' = registry /\ entries' = entries
<1>1. KeyOf(p) \in Keys
  BY DEF Para, KeyOf, Keys
<1>2. CASE registry[KeyOf(p)] # p.entry \/ entries[p.entry].result # Pending
  BY <1>1, <1>2 DEF Complete, SocketTyped
<1>3. CASE registry[KeyOf(p)] = p.entry /\ entries[p.entry].result = Pending
  <2>1. entries' = [entries EXCEPT ![p.entry].result = result]
    BY <1>3 DEF Complete
  <2>2. registry' = IF result = Again THEN [registry EXCEPT ![KeyOf(p)] = 0] ELSE registry
    BY <1>3 DEF Complete
  <2>3. /\ entries' \in Seq(Entry) /\ Len(entries') = Len(entries)
        /\ \A f \in 1..Len(entries) : f # p.entry => entries'[f] = entries[f]
        /\ entries'[p.entry] = [entries[p.entry] EXCEPT !.result = result]
    BY <2>1, EntryFilled DEF SocketTyped
  <2>4. registry' \in [Keys -> Nat]
    BY <1>1, <2>2 DEF SocketTyped
  <2>5. registry'[KeyOf(p)] = IF result = Again THEN 0 ELSE p.entry
    BY <1>1, <1>3, <2>2 DEF SocketTyped
  <2>6. entries[p.entry] \in Entry
    BY DEF SocketTyped
  <2>7. \A k \in Keys : k # KeyOf(p) => registry'[k] = registry[k]
    BY <1>1, <2>2 DEF SocketTyped
  <2> QED BY <1>1, <1>3, <2>3, <2>4, <2>5, <2>6, <2>7 DEF Entry
<1> QED BY <1>2, <1>3

-----------------------------------------------------------------------------
(* Where a number is                                                       *)

LEMMA PlacesSame ==
  ASSUME UNCHANGED <<jobs, hands>>, NEW c \in Conns
  PROVE  /\ Distinct(c) => Distinct(c)'
         /\ \A n \in Nat : OnTheWay(c, n)' <=> OnTheWay(c, n)
BY DEF Distinct, OnTheWay, Queued, With

LEMMA PlacesAdvance ==
  ASSUME SocketTyped, NEW c \in Conns, NEW w \in JobWorkers, NEW pc \in InWork,
         hands[c][w].pc # "idle", Advance(c, w, pc), UNCHANGED jobs, NEW d \in Conns
  PROVE  /\ Distinct(d) => Distinct(d)'
         /\ \A n \in Nat : OnTheWay(d, n)' <=> OnTheWay(d, n)
         /\ \A v \in JobWorkers : hands'[d][v].n = hands[d][v].n
         /\ \A v \in JobWorkers : hands'[d][v].pc = IF d = c /\ v = w THEN pc ELSE hands[d][v].pc
<1>1. \A v \in JobWorkers : /\ hands'[d][v].n = hands[d][v].n
                            /\ hands'[d][v].pc = IF d = c /\ v = w THEN pc ELSE hands[d][v].pc
  BY DEF SocketTyped, Advance
<1>2. \A v \in JobWorkers, n \in Nat : With(d, v, n)' <=> With(d, v, n)
  BY <1>1 DEF With, InWork
<1>3. \A n \in Nat : Queued(d, n)' <=> Queued(d, n)
  BY DEF Queued
<1> QED BY <1>1, <1>2, <1>3 DEF Distinct, OnTheWay

Frees(c, w) == hands' = [hands EXCEPT ![c][w] = NoJob]

LEMMA PlacesFreed ==
  ASSUME SocketTyped, NEW c \in Conns, NEW w \in JobWorkers, NEW n \in Nat, With(c, w, n),
         Distinct(c), Frees(c, w), UNCHANGED jobs, NEW d \in Conns
  PROVE  /\ Distinct(d) => Distinct(d)'
         /\ \A m \in Nat : OnTheWay(d, m)' <=> OnTheWay(d, m) /\ ~(d = c /\ m = n)
         /\ \A v \in JobWorkers : hands'[d][v] = IF d = c /\ v = w THEN NoJob ELSE hands[d][v]
<1>1. \A v \in JobWorkers : hands'[d][v] = IF d = c /\ v = w THEN NoJob ELSE hands[d][v]
  BY DEF SocketTyped, Frees
<1>2. \A v \in JobWorkers, m \in Nat : With(d, v, m)' <=> With(d, v, m) /\ ~(d = c /\ v = w)
  BY <1>1 DEF With, NoJob
<1>3. \A m \in Nat : Queued(d, m)' <=> Queued(d, m)
  BY DEF Queued
<1>4. \A m \in Nat : With(c, w, m) <=> m = n
  BY DEF With
<1>5. ~Queued(c, n) /\ \A v \in JobWorkers : With(c, v, n) => v = w
  BY DEF Distinct
<1>6. \A m \in Nat : OnTheWay(d, m)' <=> OnTheWay(d, m) /\ ~(d = c /\ m = n)
  BY <1>2, <1>3, <1>4, <1>5 DEF OnTheWay
<1> QED BY <1>1, <1>2, <1>3, <1>6 DEF Distinct

Dequeues(c) == jobs[c] # <<>> /\ jobs' = [jobs EXCEPT ![c] = Tail(@)]

LEMMA HeadsAndTails ==
  ASSUME SocketTyped, NEW c \in Conns, Dequeues(c)
  PROVE  /\ Head(jobs[c]) = jobs[c][1] /\ jobs[c][1] \in Nat /\ Len(jobs[c]) >= 1
         /\ Len(jobs'[c]) = Len(jobs[c]) - 1
         /\ \A i \in 1..Len(jobs'[c]) : i + 1 \in 1..Len(jobs[c]) /\ jobs'[c][i] = jobs[c][i + 1]
         /\ \A d \in Conns : d # c => jobs'[d] = jobs[d]
<1>1. jobs[c] \in Seq(Nat) /\ jobs'[c] = Tail(jobs[c]) /\ jobs[c] # <<>>
  BY DEF SocketTyped, Dequeues
<1>2. \A d \in Conns : d # c => jobs'[d] = jobs[d]
  BY DEF SocketTyped, Dequeues
<1>3. /\ Head(jobs[c]) \in Nat /\ Head(jobs[c]) = jobs[c][1] /\ Len(jobs[c]) \in Nat
      /\ Len(Tail(jobs[c])) = Len(jobs[c]) - 1 /\ Len(Tail(jobs[c])) \in Nat
      /\ \A i \in 1..Len(Tail(jobs[c])) : Tail(jobs[c])[i] = jobs[c][i + 1]
  BY <1>1, HeadTailProperties
<1>4. Len(jobs[c]) >= 1
  BY <1>3
<1>5. Len(jobs'[c]) = Len(jobs[c]) - 1
  BY <1>1, <1>3
<1>6. \A i \in 1..Len(jobs'[c]) : i + 1 \in 1..Len(jobs[c])
  BY <1>3, <1>5
<1>7. \A i \in 1..Len(jobs'[c]) : jobs'[c][i] = jobs[c][i + 1]
  BY <1>1, <1>3
<1> QED BY <1>2, <1>3, <1>4, <1>5, <1>6, <1>7

\* The first of the queue leaves it.
LEMMA PlacesDequeued ==
  ASSUME SocketTyped, NEW c \in Conns, Dequeues(c), Distinct(c), NEW d \in Conns
  PROVE  /\ \A m \in Nat : Queued(d, m)' <=> Queued(d, m) /\ ~(d = c /\ m = jobs[c][1])
         /\ Distinct(d) => \A k, l \in 1..Len(jobs'[d]) : jobs'[d][k] = jobs'[d][l] => k = l
<1>1. CASE d # c
  <2>1. jobs'[d] = jobs[d]
    BY <1>1, HeadsAndTails
  <2> QED BY <1>1, <2>1 DEF Queued, Distinct
<1>2. CASE d = c
  <2>1. \A i, j \in 1..Len(jobs[c]) : jobs[c][i] = jobs[c][j] => i = j
    BY DEF Distinct
  <2>2. jobs[c] \in Seq(Nat) /\ Len(jobs[c]) \in Nat
    BY DEF SocketTyped
  <2>3. ASSUME NEW k \in 1..Len(jobs'[c]), NEW l \in 1..Len(jobs'[c]), jobs'[c][k] = jobs'[c][l]
        PROVE  k = l
    <3>1. /\ k + 1 \in 1..Len(jobs[c]) /\ jobs'[c][k] = jobs[c][k + 1]
          /\ l + 1 \in 1..Len(jobs[c]) /\ jobs'[c][l] = jobs[c][l + 1]
      BY HeadsAndTails
    <3>2. k + 1 = l + 1
      BY <2>1, <2>3, <3>1
    <3>3. k \in Int /\ l \in Int
      OBVIOUS
    <3> QED BY <3>2, <3>3
  <2>4. ASSUME NEW m \in Nat, NEW i \in 1..Len(jobs'[c]), jobs'[c][i] = m PROVE Queued(c, m) /\ m # jobs[c][1]
    <3>0. i + 1 \in 1..Len(jobs[c]) /\ jobs'[c][i] = jobs[c][i + 1] /\ Len(jobs[c]) >= 1
      BY HeadsAndTails
    <3>1. i + 1 \in 1..Len(jobs[c]) /\ jobs[c][i + 1] = m /\ i + 1 # 1 /\ 1 \in 1..Len(jobs[c])
      BY <2>2, <2>4, <3>0
    <3> QED BY <2>1, <3>1 DEF Queued
  <2>5. ASSUME NEW m \in Nat, NEW i \in 1..Len(jobs[c]), jobs[c][i] = m, m # jobs[c][1] PROVE Queued(c, m)'
    <3>1. i - 1 \in 1..Len(jobs'[c]) /\ (i - 1) + 1 = i
      BY <2>2, <2>5, HeadsAndTails
    <3>2. jobs'[c][i - 1] = jobs[c][(i - 1) + 1]
      BY <3>1, HeadsAndTails
    <3>3. jobs'[c][i - 1] = m
      BY <2>5, <3>1, <3>2
    <3> QED BY <3>1, <3>3 DEF Queued
  <2>6. \A m \in Nat : Queued(c, m)' <=> Queued(c, m) /\ m # jobs[c][1]
    BY <2>4, <2>5 DEF Queued
  <2>7. \A k, l \in 1..Len(jobs'[c]) : jobs'[c][k] = jobs'[c][l] => k = l
    BY <2>3
  <2> QED BY <1>2, <2>6, <2>7
<1> QED BY <1>1, <1>2

\* ... and is dropped, or taken up by an idle worker.
LEMMA PlacesDropped ==
  ASSUME SocketTyped, NEW c \in Conns, Dequeues(c), Distinct(c), UNCHANGED hands, NEW d \in Conns
  PROVE  /\ Distinct(d) => Distinct(d)'
         /\ \A m \in Nat : OnTheWay(d, m)' <=> OnTheWay(d, m) /\ ~(d = c /\ m = jobs[c][1])
         /\ OnTheWay(c, jobs[c][1])
<1>1. Queued(c, jobs[c][1]) /\ jobs[c][1] \in Nat
  BY HeadsAndTails DEF Queued, SocketTyped
<1>2. \A v \in JobWorkers, m \in Nat : With(d, v, m)' <=> With(d, v, m)
  BY DEF With
<1>3. \A v \in JobWorkers : ~With(c, v, jobs[c][1])
  BY <1>1 DEF Distinct
<1>4. \A m \in Nat : OnTheWay(d, m)' <=> OnTheWay(d, m) /\ ~(d = c /\ m = jobs[c][1])
  <2>1. \A m \in Nat : Queued(d, m)' <=> Queued(d, m) /\ ~(d = c /\ m = jobs[c][1])
    BY PlacesDequeued
  <2> QED BY <1>2, <1>3, <2>1 DEF OnTheWay
<1>5. Distinct(d) => Distinct(d)'
  BY <1>2, PlacesDequeued DEF Distinct
<1> QED BY <1>1, <1>4, <1>5 DEF OnTheWay

TakesUp(c, w) == hands' = [hands EXCEPT ![c][w] = [pc |-> "claim", n |-> Head(jobs[c])]]

LEMMA PlacesTaken ==
  ASSUME SocketTyped, NEW c \in Conns, Dequeues(c), Distinct(c),
         NEW w \in JobWorkers, InHand(c, w, "idle"), TakesUp(c, w), NEW d \in Conns
  PROVE  /\ Distinct(d) => Distinct(d)'
         /\ \A m \in Nat : OnTheWay(d, m)' <=> OnTheWay(d, m)
         /\ \A v \in JobWorkers : (d = c /\ v = w) \/ hands'[d][v] = hands[d][v]
         /\ hands'[c][w] = [pc |-> "claim", n |-> Head(jobs[c])]
<1>0. /\ \A m \in Nat : Queued(d, m)' <=> Queued(d, m) /\ ~(d = c /\ m = jobs[c][1])
      /\ jobs[c][1] \in Nat /\ Head(jobs[c]) = jobs[c][1] /\ Len(jobs[c]) >= 1
  BY HeadsAndTails, PlacesDequeued
<1>1. Queued(c, jobs[c][1])
  BY <1>0 DEF Queued, SocketTyped
<1>2. /\ \A v \in JobWorkers : (d = c /\ v = w) \/ hands'[d][v] = hands[d][v]
      /\ hands'[c][w] = [pc |-> "claim", n |-> Head(jobs[c])]
  BY DEF SocketTyped, TakesUp
<1>3. \A v \in JobWorkers, m \in Nat :
        With(d, v, m)' <=> IF d = c /\ v = w THEN m = jobs[c][1] ELSE With(d, v, m)
  BY <1>0, <1>2 DEF With
<1>4. \A v \in JobWorkers : ~With(c, v, jobs[c][1])
  BY <1>0, <1>1 DEF Distinct
<1>5. \A m \in Nat : ~With(c, w, m)
  BY DEF With, InHand
<1>6. \A m \in Nat : OnTheWay(d, m)' <=> OnTheWay(d, m)
  <2>1. CASE d # c
    BY <1>0, <1>3, <2>1 DEF OnTheWay
  <2>2. CASE d = c
    BY <1>0, <1>1, <1>3, <1>4, <1>5, <2>2 DEF OnTheWay
  <2> QED BY <2>1, <2>2
<1>7. ASSUME Distinct(d) PROVE Distinct(d)'
  <2>1. \A k, l \in 1..Len(jobs'[d]) : jobs'[d][k] = jobs'[d][l] => k = l
    BY <1>7, PlacesDequeued
  <2>2. ASSUME NEW v \in JobWorkers, NEW n \in Nat, With(d, v, n)'
        PROVE ~Queued(d, n)' /\ \A u \in JobWorkers : With(d, u, n)' => v = u
    <3>1. CASE d = c /\ n = jobs[c][1]
      BY <1>0, <1>3, <1>4, <2>2, <3>1
    <3>2. CASE ~(d = c /\ n = jobs[c][1])
      <4>1. With(d, v, n) /\ ~(d = c /\ v = w)
        BY <1>3, <2>2, <3>2
      <4>2. \A u \in JobWorkers : With(d, u, n)' => With(d, u, n)
        BY <1>3, <3>2
      <4> QED BY <1>0, <1>7, <4>1, <4>2 DEF Distinct
    <3> QED BY <3>1, <3>2
  <2> QED BY <2>1, <2>2 DEF Distinct
<1> QED BY <1>2, <1>6, <1>7

\* A new number is queued.
Enqueues(c, n) == jobs' = [jobs EXCEPT ![c] = Append(@, n)]

LEMMA PlacesQueued ==
  ASSUME SocketTyped, NEW c \in Conns, NEW n \in Nat, ~OnTheWay(c, n),
         Enqueues(c, n), UNCHANGED hands, NEW d \in Conns
  PROVE  /\ Distinct(d) => Distinct(d)'
         /\ \A m \in Nat : OnTheWay(d, m)' <=> OnTheWay(d, m) \/ (d = c /\ m = n)
<1>1. CASE d # c
  <2>1. jobs'[d] = jobs[d] /\ hands'[d] = hands[d]
    BY <1>1 DEF SocketTyped, Enqueues
  <2>2. \A m \in Nat : Queued(d, m)' <=> Queued(d, m)
    BY <2>1 DEF Queued
  <2>3. \A v \in JobWorkers, m \in Nat : With(d, v, m)' <=> With(d, v, m)
    BY <2>1 DEF With
  <2>4. \A m \in Nat : OnTheWay(d, m)' <=> OnTheWay(d, m)
    BY <2>2, <2>3 DEF OnTheWay
  <2>5. Distinct(d) => Distinct(d)'
    BY <2>1, <2>2, <2>3 DEF Distinct
  <2> QED BY <1>1, <2>4, <2>5
<1>2. CASE d = c
  <2>1. /\ Len(jobs[c]) \in Nat /\ Len(jobs'[c]) = Len(jobs[c]) + 1 /\ jobs'[c][Len(jobs[c]) + 1] = n
        /\ \A i \in 1..Len(jobs[c]) : jobs'[c][i] = jobs[c][i]
    BY DEF SocketTyped, Enqueues
  <2> DEFINE last == Len(jobs[c])
  <2> HIDE DEF last
  <2>2. /\ last \in Nat /\ Len(jobs'[c]) = last + 1 /\ Len(jobs[c]) = last /\ jobs'[c][last + 1] = n
         /\ \A i \in 1..last : jobs'[c][i] = jobs[c][i]
    BY <2>1 DEF last
  <2>3. 1..(last + 1) = (1..last) \cup {last + 1}
    BY <2>2
  <2>4. \A m \in Nat : Queued(c, m)' <=> Queued(c, m) \/ m = n
    BY <2>2, <2>3 DEF Queued
  <2>5. \A v \in JobWorkers, m \in Nat : With(c, v, m)' <=> With(c, v, m)
    BY DEF With
  <2>6. \A i \in 1..Len(jobs[c]) : jobs[c][i] # n
    BY DEF OnTheWay, Queued
  <2>7. ASSUME Distinct(c), NEW k \in 1..Len(jobs'[c]), NEW l \in 1..Len(jobs'[c]), jobs'[c][k] = jobs'[c][l]
        PROVE k = l
    <3>1. \A i, j \in 1..last : jobs[c][i] = jobs[c][j] => i = j
      BY <2>2, <2>7 DEF Distinct
    <3>2. k \in (1..last) \cup {last + 1} /\ l \in (1..last) \cup {last + 1}
      BY <2>2, <2>3
    <3>3. \A i \in 1..last : jobs'[c][i] = jobs[c][i] /\ jobs[c][i] # n
      BY <2>2, <2>6
    <3>4. CASE k = last + 1
      BY <2>2, <2>7, <3>2, <3>3, <3>4
    <3>5. CASE k \in 1..last
      BY <2>2, <2>7, <3>1, <3>2, <3>3, <3>5
    <3> QED BY <3>2, <3>4, <3>5
  <2>8. \A v \in JobWorkers : ~With(c, v, n)
    BY DEF OnTheWay
  <2>9. \A m \in Nat : OnTheWay(c, m)' <=> OnTheWay(c, m) \/ m = n
    BY <2>4, <2>5 DEF OnTheWay
  <2>10. Distinct(c) => Distinct(c)'
    <3> SUFFICES ASSUME Distinct(c) PROVE Distinct(c)'
      OBVIOUS
    <3>1. \A k, l \in 1..Len(jobs'[c]) : jobs'[c][k] = jobs'[c][l] => k = l
      BY <2>7
    <3>2. \A v \in JobWorkers, m \in Nat : With(c, v, m)' =>
            ~Queued(c, m)' /\ \A w \in JobWorkers : With(c, w, m)' => v = w
      BY <2>4, <2>5, <2>8 DEF Distinct
    <3> QED BY <3>1, <3>2 DEF Distinct
  <2> QED BY <1>2, <2>9, <2>10
<1> QED BY <1>1, <1>2

-----------------------------------------------------------------------------
(* A number is answered                                                    *)

LEMMA Parts ==
  ASSUME Faithful
  PROVE  /\ SocketTyped /\ Matching /\ AnswersMatch
         /\ \A c \in Conns : Kept(c) /\ Distinct(c) /\ Placed(c) /\ Apart(c) /\ Ended(c)
         /\ \A c \in Conns : \A n \in Numbered(c) : Owned(c, n) /\ InFlight(c, n)
         /\ \A k \in Keys : Claimed(k) /\ Refused(k)
BY DEF Faithful

LEMMA ParaTyped ==
  ASSUME SocketTyped, NEW c \in Conns, NEW n \in Numbered(c)
  PROVE  /\ paragraphs[c][n] \in Para /\ n \in Nat
         /\ paragraphs[c][n].id # "none" => KeyOf(paragraphs[c][n]) \in Keys
<1>1. paragraphs[c][n] \in Para
  BY DEF SocketTyped, Numbered
<1>2. n \in Nat
  BY DEF SocketTyped, Numbered
<1> QED BY <1>1, <1>2 DEF Para, KeyOf, Keys

\* The paragraph's own entry is filled in if it is still in flight; nothing else
\* changes but that a request to be tried again is forgotten.
LEMMA Completed ==
  ASSUME Faithful, NEW c \in Conns, NEW n \in Numbered(c), NEW result \in Outcome,
         Complete(paragraphs[c][n], result), result # Pending
  PROVE  LET p == paragraphs[c][n] IN
         /\ registry' \in [Keys -> Nat] /\ entries' \in Seq(Entry) /\ Len(entries') = Len(entries)
         /\ EntriesGrow
         /\ \A e \in 1..Len(entries) :
              /\ entries'[e].content = entries[e].content /\ entries'[e].owner = entries[e].owner
              /\ entries'[e].aged = entries[e].aged
              /\ e # p.entry => entries'[e].result = entries[e].result
              /\ entries'[e].result \in {entries[e].result, result}
         /\ \A k \in Keys : registry'[k] = registry[k] \/
              (registry'[k] = 0 /\ p.entry # 0 /\ registry[k] = p.entry /\ result = Again)
         /\ p.entry # 0 => entries'[p.entry].result # Pending
<1> DEFINE p == paragraphs[c][n]
<1>1. p \in Para /\ Owned(c, n) /\ InFlight(c, n) /\ SocketTyped /\ (p.id # "none" => KeyOf(p) \in Keys)
  BY Parts, ParaTyped
<1>2. CASE p.entry = 0
  <2>1. registry' = registry /\ entries' = entries
    BY <1>2 DEF Complete
  <2> QED BY <1>1, <1>2, <2>1, SameEntries DEF SocketTyped
<1>3. CASE p.entry # 0
  <2>1. p.id # "none" /\ p.entry \in 1..Len(entries) /\ KeyOf(p) \in Keys
    BY <1>1, <1>3 DEF Owned, SocketTyped
  <2>2. entries[p.entry].result = Pending => registry[KeyOf(p)] = p.entry
    BY <1>1, <1>3 DEF InFlight
  <2> HIDE DEF p
  <2>3. Complete(p, result)
    BY DEF p
  <2>4. /\ registry' \in [Keys -> Nat] /\ entries' \in Seq(Entry) /\ Len(entries') = Len(entries)
        /\ \A e \in 1..Len(entries) : e # p.entry => entries'[e] = entries[e]
        /\ \A k \in Keys : k # KeyOf(p) => registry'[k] = registry[k]
        /\ entries'[p.entry].content = entries[p.entry].content
        /\ entries'[p.entry].owner = entries[p.entry].owner
        /\ entries'[p.entry].aged = entries[p.entry].aged
        /\ IF registry[KeyOf(p)] = p.entry /\ entries[p.entry].result = Pending
           THEN /\ entries'[p.entry].result = result
                /\ registry'[KeyOf(p)] = IF result = Again THEN 0 ELSE p.entry
           ELSE registry' = registry /\ entries' = entries
    BY <1>1, <2>1, <2>3, CompleteEffect
  <2>5. entries'[p.entry].result # Pending
    BY <2>2, <2>4
  <2>6. \A k \in Keys : registry'[k] = registry[k] \/
          (registry'[k] = 0 /\ p.entry # 0 /\ registry[k] = p.entry /\ result = Again)
    BY <1>3, <2>4
  <2>7. \A e \in 1..Len(entries) :
          /\ entries'[e].content = entries[e].content /\ entries'[e].owner = entries[e].owner
          /\ entries'[e].aged = entries[e].aged
          /\ e # p.entry => entries'[e].result = entries[e].result
          /\ entries'[e].result \in {entries[e].result, result}
    BY <2>4
  <2>8. EntriesGrow
    BY <1>1, <2>4, <2>7 DEF EntriesGrow, SocketTyped
  <2> QED BY <2>4, <2>5, <2>6, <2>7, <2>8 DEF p
<1> QED BY <1>2, <1>3

\* What is answered, with what, and that its number is nowhere else then.
Resolves(c, n, result) ==
  /\ OnTheWay(c, n) /\ result # Pending
  /\ result.kind = "ok" => result.content = paragraphs[c][n].content
  /\ Complete(paragraphs[c][n], result) /\ Send(c, n, result)
  /\ UNCHANGED <<paragraphs, written, waiting>>
  /\ \A d \in Conns : conn'[d].cut = conn[d].cut
  /\ \A d \in Conns, m \in Nat : OnTheWay(d, m)' <=> OnTheWay(d, m) /\ ~(d = c /\ m = n)

LEMMA AnsweredOwned ==
  ASSUME Faithful, NEW c \in Conns, NEW n \in Numbered(c), NEW result \in Outcome, Resolves(c, n, result),
         NEW d \in Conns, NEW m \in Numbered(d)
  PROVE  Owned(d, m)' /\ InFlight(d, m)'
<1> DEFINE p == paragraphs[d][m]
           q == paragraphs[c][n]
<1>1. /\ Owned(d, m) /\ InFlight(d, m) /\ Owned(c, n) /\ SocketTyped
      /\ p \in Para /\ m \in Nat /\ (p.id # "none" => KeyOf(p) \in Keys)
  BY Parts, ParaTyped
<1>2. /\ EntriesGrow /\ Len(entries') = Len(entries) /\ paragraphs' = paragraphs
      /\ \A e \in 1..Len(entries) :
              /\ entries'[e].content = entries[e].content /\ entries'[e].owner = entries[e].owner
              /\ entries'[e].aged = entries[e].aged
              /\ e # q.entry => entries'[e].result = entries[e].result
              /\ entries'[e].result \in {entries[e].result, result}
      /\ \A k \in Keys : registry'[k] = registry[k] \/
              (registry'[k] = 0 /\ q.entry # 0 /\ registry[k] = q.entry /\ result = Again)
      /\ q.entry # 0 => entries'[q.entry].result # Pending
  BY Completed DEF Resolves
<1>3. OnTheWay(d, m)' <=> OnTheWay(d, m) /\ ~(d = c /\ m = n)
  BY <1>1 DEF Resolves
<1>4. ~(d = c /\ m = n) /\ p.entry # 0 => p.entry # q.entry
  BY <1>1 DEF Owned
<1>5. p.entry \in 0..Len(entries) /\ (p.entry # 0 => p.entry \in 1..Len(entries))
  BY <1>1 DEF Owned, SocketTyped
<1>6. Owned(d, m)'
  <2>1. p.entry # 0 => \A k \in Keys : registry'[k] = p.entry => k = KeyOf(p)
    BY <1>1, <1>2 DEF Owned
  <2>2. p.entry # 0 => /\ p.id # "none" /\ entries'[p.entry].content = p.content
                       /\ entries'[p.entry].owner = d
    BY <1>1, <1>2, <1>5 DEF Owned
  <2>3. p.entry # 0 => \A x \in Conns : \A i \in Numbered(x) : paragraphs[x][i].entry = p.entry => x = d /\ i = m
    BY <1>1 DEF Owned
  <2>4. OnTheWay(d, m)' /\ p.id # "none" => p.entry # 0
    BY <1>1, <1>3 DEF Owned
  <2> QED BY <1>2, <1>5, <2>1, <2>2, <2>3, <2>4 DEF Owned, Numbered, KeyOf
<1>7. InFlight(d, m)'
  <2> SUFFICES ASSUME p.entry # 0
               PROVE  /\ entries'[p.entry].result = Pending =>
                           registry'[KeyOf(p)] = p.entry /\ (OnTheWay(d, m)' \/ conn'[d].cut)
                      /\ OnTheWay(d, m)' /\ ~entries'[p.entry].aged =>
                           registry'[KeyOf(p)] = p.entry /\ entries'[p.entry].result = Pending
    BY <1>2 DEF InFlight, KeyOf
  <2>1. p.entry \in 1..Len(entries) /\ KeyOf(p) \in Keys
    BY <1>1, <1>5 DEF Owned
  <2>2. CASE d = c /\ m = n
    BY <1>2, <1>3, <2>2
  <2>3. CASE ~(d = c /\ m = n)
    <3>1. /\ entries'[p.entry].result = entries[p.entry].result /\ entries'[p.entry].aged = entries[p.entry].aged
          /\ registry[KeyOf(p)] = p.entry => registry'[KeyOf(p)] = p.entry
      BY <1>2, <1>4, <2>1, <2>3
    <3>2. conn'[d].cut = conn[d].cut
      BY DEF Resolves
    <3> QED BY <1>1, <1>3, <2>3, <3>1, <3>2 DEF InFlight
  <2> QED BY <2>2, <2>3
<1> QED BY <1>6, <1>7

LEMMA ResolvedPlaced ==
  ASSUME Faithful, NEW c \in Conns, NEW n \in Numbered(c), NEW result \in Outcome, Resolves(c, n, result),
         NEW d \in Conns
  PROVE  Placed(d)'
<1>1. Placed(d) /\ SocketTyped /\ n \in Nat /\ Numbered(d)' = Numbered(d) /\ written' = written /\ waiting' = waiting
  BY Parts, ParaTyped DEF Resolves, Numbered
<1>2. /\ \A x \in Conns : x # c => arrived'[x] = arrived[x]
      /\ \A r \in arrived'[c] : r \in arrived[c] \/ r = [seq |-> n, result |-> result]
  BY <1>1, SendTyped DEF Resolves
<1>3. \A m \in Nat : OnTheWay(d, m)' <=> OnTheWay(d, m) /\ ~(d = c /\ m = n)
  BY DEF Resolves
<1>4. Len(entries') = Len(entries)
  BY Completed DEF Resolves
<1>5. \A r \in arrived'[d] : r \in arrived[d] \/ (d = c /\ r.seq = n)
  BY <1>2
<1>6. \A r \in arrived'[d] : r.seq \in Numbered(d)
  BY <1>1, <1>5 DEF Placed
<1>7. ASSUME NEW m \in Nat, OnTheWay(d, m)'
      PROVE  /\ m \in Numbered(d) /\ m > Len(written[d])
             /\ \A r \in arrived'[d] : r.seq # m
             /\ \A x \in waiting[d] : x.seq # m
  BY <1>1, <1>3, <1>5, <1>7 DEF Placed
<1>8. \A x \in waiting[d] : x.seq \in Numbered(d) /\ x.entry \in 1..Len(entries')
  BY <1>1, <1>4 DEF Placed
<1> QED BY <1>1, <1>6, <1>7, <1>8 DEF Placed

LEMMA ResolvedMatching ==
  ASSUME Faithful, NEW c \in Conns, NEW n \in Numbered(c), NEW result \in Outcome, Resolves(c, n, result),
         \A k \in Keys : claims'[k].state = "paid" => claims'[k].content # "none"
  PROVE  Matching' /\ AnswersMatch'
<1>1. /\ Matching /\ AnswersMatch /\ SocketTyped /\ Owned(c, n) /\ n \in Nat
      /\ paragraphs' = paragraphs /\ written' = written /\ waiting' = waiting
      /\ result.kind = "ok" => result.content = paragraphs[c][n].content
  BY Parts, ParaTyped DEF Resolves
<1>2. /\ Len(entries') = Len(entries)
      /\ \A e \in 1..Len(entries) :
              /\ entries'[e].content = entries[e].content
              /\ e # paragraphs[c][n].entry => entries'[e].result = entries[e].result
              /\ entries'[e].result \in {entries[e].result, result}
      /\ \A k \in Keys : registry'[k] = registry[k] \/ registry'[k] = 0
  BY Completed DEF Resolves
<1>3. /\ \A d \in Conns : d # c => arrived'[d] = arrived[d]
      /\ \A r \in arrived'[c] : r \in arrived[c] \/ r = [seq |-> n, result |-> result]
  BY <1>1, SendTyped DEF Resolves
<1>4. ASSUME NEW d \in Conns, NEW r \in arrived'[d], r.result.kind = "ok"
      PROVE  r.result.content = paragraphs[d][r.seq].content
  BY <1>1, <1>3, <1>4 DEF Matching
<1>5. ASSUME NEW d \in Conns, NEW x \in waiting[d]
      PROVE  entries'[x.entry].content = paragraphs[d][x.seq].content
  <2>1. x.entry \in 1..Len(entries)
    BY Parts DEF Placed
  <2> QED BY <1>1, <1>2, <2>1 DEF Matching
<1>6. ASSUME NEW e \in 1..Len(entries), entries'[e].result.kind = "ok"
      PROVE  entries'[e].result.content = entries'[e].content
  <2>1. CASE entries'[e].result = entries[e].result
    BY <1>1, <1>2, <1>6, <2>1 DEF Matching
  <2>2. CASE entries'[e].result # entries[e].result
    <3>1. e = paragraphs[c][n].entry /\ entries'[e].result = result /\ e # 0
      BY <1>1, <1>2, <2>2 DEF SocketTyped
    <3>2. entries[e].content = paragraphs[c][n].content
      BY <1>1, <3>1 DEF Owned
    <3> QED BY <1>1, <1>2, <1>6, <3>1, <3>2
  <2> QED BY <2>1, <2>2
<1>7. \A k \in Keys : registry'[k] \in 0..Len(entries')
  <2>1. Len(entries) \in Nat
    BY <1>1 DEF SocketTyped
  <2> QED BY <1>1, <1>2, <2>1 DEF Matching
<1>8. Matching'
  BY <1>1, <1>2, <1>4, <1>5, <1>6, <1>7 DEF Matching
<1>9. AnswersMatch'
  BY <1>1 DEF AnswersMatch
<1> QED BY <1>8, <1>9

-----------------------------------------------------------------------------
(* The claims                                                              *)

\* A step after which nobody holds the claim who did not, and the holder's row
\* is as it was.
LEMMA ClaimedStays ==
  ASSUME NEW k \in Keys, Claimed(k),
         \A c \in Conns, w \in JobWorkers : Holds(c, w, k)' =>
           Holds(c, w, k) /\ Job(c, w)' = Job(c, w) /\ claims'[k] = claims[k]
  PROVE  Claimed(k)'
BY DEF Claimed

\* A step that refuses nobody for good and pays for nobody but a holder.
LEMMA RefusedStays ==
  ASSUME SocketTyped, EntriesGrow, NEW k \in Keys, Refused(k), registry[k] \in 0..Len(entries),
         registry'[k] \in {0, registry[k]},
         registry[k] # 0 => (entries'[registry[k]].result = Failed => entries[registry[k]].result = Failed),
         \A c \in Conns : conn[c].cut => conn'[c].cut,
         \A x : claims'[k] = [state |-> "paid", content |-> x] =>
           \/ claims[k] = [state |-> "paid", content |-> x]
           \/ \E c \in Conns, w \in JobWorkers : Holds(c, w, k) /\ Job(c, w).content = x,
         \A c \in Conns, w \in JobWorkers : Holds(c, w, k)' =>
           Holds(c, w, k) /\ Job(c, w)'.content = Job(c, w).content
  PROVE  Refused(k)'
<1> SUFFICES ASSUME registry'[k] # 0, entries'[registry'[k]].result = Failed,
                    ~conn'[entries'[registry'[k]].owner].cut
             PROVE  /\ claims'[k] # [state |-> "paid", content |-> entries'[registry'[k]].content]
                    /\ \A c \in Conns, w \in JobWorkers :
                         Holds(c, w, k)' => Job(c, w)'.content # entries'[registry'[k]].content
  BY DEF Refused
<1> DEFINE e == registry[k]
<1>1. registry'[k] = e /\ e # 0 /\ e \in 1..Len(entries)
  BY DEF SocketTyped
<1>2. entries'[e].content = entries[e].content /\ entries'[e].owner = entries[e].owner /\ entries[e].result = Failed
  BY <1>1 DEF EntriesGrow
<1>3. entries[e].owner \in Conns
  <2>1. entries[e] \in Entry
    BY <1>1 DEF SocketTyped
  <2> QED BY <2>1 DEF Entry
<1>4. ~conn[entries[e].owner].cut
  BY <1>1, <1>2, <1>3
<1>5. /\ claims[k] # [state |-> "paid", content |-> entries[e].content]
      /\ \A c \in Conns, w \in JobWorkers : Holds(c, w, k) => Job(c, w).content # entries[e].content
  BY <1>1, <1>2, <1>4 DEF Refused
<1> QED BY <1>1, <1>2, <1>5

LEMMA HoldsStays ==
  ASSUME SocketTyped, NEW c \in Conns, NEW w \in JobWorkers, Placed(c), hands'[c][w] = hands[c][w],
         \A m \in Numbered(c) : paragraphs'[c][m] = paragraphs[c][m], NEW k \in Keys
  PROVE  /\ Holds(c, w, k)' <=> Holds(c, w, k)
         /\ Holds(c, w, k) => Job(c, w)' = Job(c, w) /\ Job(c, w) \in Para
<1>1. CASE hands[c][w].pc \in {"reserve", "provide", "settle"}
  <2>1. hands[c][w].n \in Nat /\ With(c, w, hands[c][w].n)
    BY <1>1 DEF SocketTyped, With
  <2>2. hands[c][w].n \in Numbered(c)
    BY <2>1 DEF Placed, OnTheWay
  <2>3. Job(c, w)' = Job(c, w) /\ Job(c, w) \in Para
    BY <2>2, ParaTyped DEF Job
  <2>4. KeyOf(Job(c, w))' = KeyOf(Job(c, w))
    BY <2>3 DEF KeyOf
  <2> QED BY <2>3, <2>4 DEF Holds
<1>2. CASE hands[c][w].pc \notin {"reserve", "provide", "settle"}
  BY <1>2 DEF Holds
<1> QED BY <1>1, <1>2

-----------------------------------------------------------------------------
(* Steps that answer nothing and number nothing                            *)

Rests ==
  /\ UNCHANGED <<paragraphs, written, waiting, arrived, registry, entries>>
  /\ \A d \in Conns : conn[d].cut => conn'[d].cut
  /\ \A d \in Conns, m \in Nat : OnTheWay(d, m)' <=> OnTheWay(d, m)

LEMMA OwnershipStays ==
  ASSUME Faithful, UNCHANGED <<paragraphs, registry, entries>>,
         \A d \in Conns : conn[d].cut => conn'[d].cut,
         \A d \in Conns, m \in Nat : OnTheWay(d, m)' <=> OnTheWay(d, m)
  PROVE  \A d \in Conns : Numbered(d)' = Numbered(d) /\ \A m \in Numbered(d) : Owned(d, m)' /\ InFlight(d, m)'
<1>1. ASSUME NEW d \in Conns, NEW m \in Numbered(d) PROVE Owned(d, m)' /\ InFlight(d, m)'
  <2>1. Owned(d, m) /\ InFlight(d, m) /\ m \in Nat
    BY Parts, ParaTyped
  <2>2. (OnTheWay(d, m)' <=> OnTheWay(d, m)) /\ (conn[d].cut => conn'[d].cut)
    BY <2>1
  <2>3. Owned(d, m)'
    BY <2>1, <2>2 DEF Owned, Numbered, KeyOf
  <2>4. InFlight(d, m)'
    BY <2>1, <2>2 DEF InFlight, KeyOf
  <2> QED BY <2>3, <2>4
<1> QED BY <1>1 DEF Numbered

LEMMA RestingKeeps ==
  ASSUME Faithful, Rests
  PROVE  /\ EntriesGrow
         /\ \A d \in Conns : Placed(d)'
         /\ \A d \in Conns : \A m \in Numbered(d) : Owned(d, m)' /\ InFlight(d, m)'
         /\ (\A k \in Keys : claims'[k].state = "paid" => claims'[k].content # "none") => Matching' /\ AnswersMatch'
<1>1. SocketTyped /\ Matching /\ AnswersMatch
  BY Parts
<1>2. EntriesGrow
  BY <1>1, SameEntries DEF Rests
<1>3. ASSUME NEW d \in Conns PROVE Placed(d)'
  <2>1. Placed(d) /\ \A m \in Nat : OnTheWay(d, m)' <=> OnTheWay(d, m)
    BY Parts DEF Rests
  <2> QED BY <2>1 DEF Placed, Numbered, Rests
<1>4. \A d \in Conns : \A m \in Numbered(d) : Owned(d, m)' /\ InFlight(d, m)'
  BY OwnershipStays DEF Rests
<1>5. AnswersMatch'
  BY <1>1 DEF AnswersMatch, Rests
<1>6. ASSUME \A k \in Keys : claims'[k].state = "paid" => claims'[k].content # "none" PROVE Matching'
  BY <1>1, <1>6 DEF Matching, Rests
<1> QED BY <1>2, <1>3, <1>4, <1>5, <1>6

\* The same claims with the same holders.
LEMMA ClaimsRest ==
  ASSUME Faithful, Rests, UNCHANGED <<hands, claims>>, NEW k \in Keys
  PROVE  Claimed(k)' /\ Refused(k)'
<1>1. SocketTyped /\ Claimed(k) /\ Refused(k) /\ registry[k] \in 0..Len(entries) /\ EntriesGrow
  BY Parts, RestingKeeps DEF Matching
<1>2. \A c \in Conns, w \in JobWorkers :
        (Holds(c, w, k)' <=> Holds(c, w, k)) /\ (Holds(c, w, k) => Job(c, w)' = Job(c, w))
  BY <1>1, HoldsStays, Parts DEF Rests
<1>3. Claimed(k)'
  BY <1>1, <1>2, ClaimedStays
<1>4. Refused(k)'
  BY <1>1, <1>2, RefusedStays DEF Rests
<1> QED BY <1>3, <1>4

LEMMA KeptStays ==
  ASSUME NEW c \in Conns, Kept(c), paragraphs'[c] = paragraphs[c], written'[c] = written[c],
         conn'[c].heard = conn[c].heard, conn'[c].held = conn[c].held, conn'[c].batch = conn[c].batch,
         conn'[c].flushes = conn[c].flushes, conn'[c].acked = conn[c].acked,
         conn'[c].phase = conn[c].phase, conn'[c].target = conn[c].target
  PROVE  Kept(c)'
BY DEF Kept, Hold

LEMMA ApartStays ==
  ASSUME NEW c \in Conns, Apart(c), paragraphs'[c] = paragraphs[c], conn'[c].session = conn[c].session,
         \A m \in Numbered(c) : OnTheWay(c, m)' => OnTheWay(c, m),
         \A t \in aux'[c] : t \in aux[c] \/ t.session = conn[c].session,
         conn'[c].context \subseteq conn[c].context \cup {conn[c].session}
  PROVE  Apart(c)'
BY DEF Apart, Numbered

LEMMA EndedStays ==
  ASSUME NEW c \in Conns, Ended(c), conn'[c].phase = "closed" => conn[c].phase = "closed",
         \A m \in Nat : OnTheWay(c, m)' => OnTheWay(c, m)
  PROVE  Ended(c)'
BY DEF Ended

-----------------------------------------------------------------------------
(* The workers                                                             *)

ClaimRow == [state : {"none", "held", "failed", "paid"}, content : Contents \cup {"none"}]

LEMMA ClaimSet ==
  ASSUME SocketTyped, Matching, NEW p \in Para, NEW state \in {"none", "held", "failed", "paid"},
         claims' = SetClaim(p, state)
  PROVE  /\ claims' \in [Keys -> ClaimRow]
         /\ \A k \in Keys : claims'[k].state = "paid" => claims'[k].content # "none"
         /\ \A k \in Keys : IF p.id # "none" /\ k = KeyOf(p)
              THEN claims'[k] = [state |-> state, content |-> IF state = "none" THEN "none" ELSE p.content]
              ELSE claims'[k] = claims[k]
<1>1. claims \in [Keys -> ClaimRow] /\ \A k \in Keys : claims[k].state = "paid" => claims[k].content # "none"
  BY DEF SocketTyped, ClaimRow, Matching
<1>2. p.content \in Contents /\ p.content # "none"
  BY Given DEF Para
<1>3. CASE p.id = "none"
  BY <1>1, <1>3 DEF SetClaim
<1>4. CASE p.id # "none"
  <2>1. KeyOf(p) \in Keys
    BY <1>4 DEF Para, KeyOf, Keys
  <2> DEFINE stored == [state |-> state, content |-> IF state = "none" THEN "none" ELSE p.content]
  <2>2. claims' = [claims EXCEPT ![KeyOf(p)] = stored]
    BY <1>4 DEF SetClaim
  <2>3. stored \in ClaimRow /\ (stored.state = "paid" => stored.content # "none")
    BY <1>2 DEF ClaimRow
  <2> HIDE DEF stored
  <2>4. /\ claims' \in [Keys -> ClaimRow]
        /\ \A k \in Keys : claims'[k] = IF k = KeyOf(p) THEN stored ELSE claims[k]
    BY <1>1, <2>1, <2>2, <2>3
  <2> QED BY <1>1, <1>4, <2>3, <2>4 DEF stored
<1> QED BY <1>3, <1>4

\* Of the connections only the gates and the contexts change.
Bookkeeping ==
  /\ conn' \in [Conns -> Connection]
  /\ \A d \in Conns :
       /\ conn'[d].heard = conn[d].heard /\ conn'[d].held = conn[d].held /\ conn'[d].batch = conn[d].batch
       /\ conn'[d].flushes = conn[d].flushes /\ conn'[d].acked = conn[d].acked
       /\ conn'[d].phase = conn[d].phase /\ conn'[d].target = conn[d].target
       /\ conn'[d].session = conn[d].session /\ conn'[d].cut = conn[d].cut
       /\ conn'[d].context \subseteq conn[d].context \cup {conn[d].session}

\* What a worker may write of its connection leaves the rest as it is.
SameConnection(c, r) ==
  /\ r.heard = conn[c].heard /\ r.held = conn[c].held /\ r.batch = conn[c].batch
  /\ r.flushes = conn[c].flushes /\ r.acked = conn[c].acked
  /\ r.phase = conn[c].phase /\ r.target = conn[c].target
  /\ r.session = conn[c].session /\ r.cut = conn[c].cut
  /\ r.context \subseteq conn[c].context \cup {conn[c].session}

LEMMA BookkeepingIs ==
  ASSUME SocketTyped, NEW c \in Conns, NEW r \in Connection, SameConnection(c, r),
         conn' = [conn EXCEPT ![c] = r]
  PROVE  Bookkeeping
<1>1. conn \in [Conns -> Connection]
  BY DEF SocketTyped
<1>2. conn' \in [Conns -> Connection] /\ conn'[c] = r /\ \A d \in Conns : d # c => conn'[d] = conn[d]
  BY <1>1
<1> QED BY <1>2 DEF Bookkeeping, SameConnection

LEMMA BookkeepingCases ==
  ASSUME SocketTyped, NEW c \in Conns,
         \/ UNCHANGED conn
         \/ conn' = [conn EXCEPT ![c].gate = TRUE]
         \/ conn' = [conn EXCEPT ![c].context = @ \union {conn[c].session}]
         \/ conn' = [conn EXCEPT ![c].context = @ \union {conn[c].session}, ![c].gate = TRUE]
  PROVE  Bookkeeping
<1>1. conn \in [Conns -> Connection] /\ conn[c] \in Connection
  BY DEF SocketTyped
<1>2. CASE UNCHANGED conn
  BY <1>1, <1>2 DEF Bookkeeping
<1>3. CASE conn' = [conn EXCEPT ![c].gate = TRUE]
  <2> DEFINE r == [conn[c] EXCEPT !.gate = TRUE]
  <2>1. r \in Connection /\ SameConnection(c, r)
    BY <1>1 DEF Connection, SameConnection
  <2>2. conn' = [conn EXCEPT ![c] = r]
    BY <1>1, <1>3
  <2> QED BY <2>1, <2>2, BookkeepingIs
<1>4. CASE conn' = [conn EXCEPT ![c].context = @ \union {conn[c].session}]
  <2> DEFINE r == [conn[c] EXCEPT !.context = @ \union {conn[c].session}]
  <2>1. r \in Connection /\ SameConnection(c, r)
    BY <1>1 DEF Connection, SameConnection
  <2>2. conn' = [conn EXCEPT ![c] = r]
    BY <1>1, <1>4
  <2> QED BY <2>1, <2>2, BookkeepingIs
<1>5. CASE conn' = [conn EXCEPT ![c].context = @ \union {conn[c].session}, ![c].gate = TRUE]
  <2> DEFINE r == [conn[c] EXCEPT !.context = @ \union {conn[c].session}, !.gate = TRUE]
  <2>1. r \in Connection /\ SameConnection(c, r)
    BY <1>1 DEF Connection, SameConnection
  <2>2. conn' = [conn EXCEPT ![c] = r]
    BY <1>1, <1>5
  <2> QED BY <2>1, <2>2, BookkeepingIs
<1> QED BY <1>2, <1>3, <1>4, <1>5

LEMMA BookkeepingKeeps ==
  ASSUME Faithful, Bookkeeping, UNCHANGED <<paragraphs, written>>,
         \A d \in Conns : aux'[d] \subseteq aux[d],
         \A d \in Conns, m \in Nat : OnTheWay(d, m)' => OnTheWay(d, m)
  PROVE  \A d \in Conns : Kept(d)' /\ Apart(d)' /\ Ended(d)'
<1> SUFFICES ASSUME NEW d \in Conns PROVE Kept(d)' /\ Apart(d)' /\ Ended(d)'
  OBVIOUS
<1>1. Kept(d) /\ Apart(d) /\ Ended(d)
  BY Parts
<1>2. Kept(d)'
  BY <1>1, KeptStays DEF Bookkeeping
<1>3. \A m \in Numbered(d) : OnTheWay(d, m)' => OnTheWay(d, m)
  BY Parts, ParaTyped
<1>4. Apart(d)'
  BY <1>1, <1>3, ApartStays DEF Bookkeeping
<1>5. Ended(d)'
  BY <1>1, EndedStays DEF Bookkeeping
<1> QED BY <1>2, <1>4, <1>5

\* What a worker's number is, whatever it is doing.
LEMMA JobOf ==
  ASSUME Faithful, NEW c \in Conns, NEW w \in JobWorkers, hands[c][w].pc # "idle"
  PROVE  /\ hands[c][w].n \in Numbered(c) /\ hands[c][w].n \in Nat /\ With(c, w, hands[c][w].n)
         /\ OnTheWay(c, hands[c][w].n)
         /\ Job(c, w) = paragraphs[c][hands[c][w].n] /\ Job(c, w) \in Para
         /\ Job(c, w).session = conn[c].session
         /\ Job(c, w).id # "none" => KeyOf(Job(c, w)) \in Keys /\ Job(c, w).entry \in 1..Len(entries)
<1> DEFINE n == hands[c][w].n
<1>1. n \in Nat /\ With(c, w, n) /\ SocketTyped
  BY Parts DEF SocketTyped, With
<1>2. OnTheWay(c, n)
  BY <1>1 DEF OnTheWay
<1>3. n \in Numbered(c)
  BY <1>1, <1>2, Parts DEF Placed
<1>4. paragraphs[c][n] \in Para /\ Owned(c, n) /\ paragraphs[c][n].session = conn[c].session
  BY <1>1, <1>2, <1>3, Parts, ParaTyped DEF Apart
<1>5. /\ paragraphs[c][n].id # "none" => KeyOf(paragraphs[c][n]) \in Keys /\ paragraphs[c][n].entry # 0
      /\ paragraphs[c][n].entry \in 0..Len(entries) /\ Len(entries) \in Nat
  <2>1. paragraphs[c][n].id # "none" => KeyOf(paragraphs[c][n]) \in Keys
    BY <1>1, <1>3, ParaTyped
  <2>2. Len(entries) \in Nat
    BY <1>1 DEF SocketTyped
  <2> QED BY <1>2, <1>4, <2>1, <2>2 DEF Owned
<1>6. Job(c, w) = paragraphs[c][n]
  BY DEF Job
<1> QED BY <1>1, <1>2, <1>3, <1>4, <1>5, <1>6

\* The worker is done with its paragraph.
Finishes(c, w, result) ==
  /\ result # Pending /\ (result.kind = "ok" => result.content = Job(c, w).content)
  /\ SendJobResult(c, w, result)
  /\ UNCHANGED <<paragraphs, jobs, waiting, written, aux>>
  /\ Bookkeeping
  /\ claims' \in [Keys -> ClaimRow]
  /\ \A k \in Keys : claims'[k].state = "paid" => claims'[k].content # "none"

LEMMA FinishResolves ==
  ASSUME Faithful, NEW c \in Conns, NEW w \in JobWorkers, hands[c][w].pc # "idle",
         NEW result \in Outcome, Finishes(c, w, result), NEW n \in Nat, hands[c][w].n = n
  PROVE  /\ Resolves(c, n, result)
         /\ \A d \in Conns : Distinct(d)'
         /\ \A d \in Conns, v \in JobWorkers : hands'[d][v] = IF d = c /\ v = w THEN NoJob ELSE hands[d][v]
         /\ hands' \in [Conns -> [JobWorkers -> [pc : InWork \cup {"idle"}, n : Nat]]]
<1>1. /\ n \in Nat /\ With(c, w, n) /\ OnTheWay(c, n) /\ Job(c, w) = paragraphs[c][n]
      /\ SocketTyped /\ \A d \in Conns : Distinct(d)
  BY JobOf, Parts
<1>2. Frees(c, w) /\ UNCHANGED jobs
  BY DEF Finishes, SendJobResult, Frees
<1>3. \A d \in Conns : /\ Distinct(d)'
                       /\ \A m \in Nat : OnTheWay(d, m)' <=> OnTheWay(d, m) /\ ~(d = c /\ m = n)
                       /\ \A v \in JobWorkers : hands'[d][v] = IF d = c /\ v = w THEN NoJob ELSE hands[d][v]
  <2> SUFFICES ASSUME NEW d \in Conns
               PROVE  /\ Distinct(d)'
                      /\ \A m \in Nat : OnTheWay(d, m)' <=> OnTheWay(d, m) /\ ~(d = c /\ m = n)
                      /\ \A v \in JobWorkers : hands'[d][v] = IF d = c /\ v = w THEN NoJob ELSE hands[d][v]
    OBVIOUS
  <2> QED BY <1>1, <1>2, PlacesFreed
<1>4. hands' \in [Conns -> [JobWorkers -> [pc : InWork \cup {"idle"}, n : Nat]]]
  BY <1>1, <1>2 DEF SocketTyped, NoJob, Frees
<1>5. Resolves(c, n, result)
  BY <1>1, <1>3 DEF Resolves, Finishes, SendJobResult, Bookkeeping
<1> QED BY <1>3, <1>4, <1>5

LEMMA FinishKeeps ==
  ASSUME Faithful, NEW c \in Conns, NEW w \in JobWorkers, hands[c][w].pc # "idle",
         NEW result \in Outcome, Finishes(c, w, result)
  PROVE  /\ SocketTyped' /\ Matching' /\ AnswersMatch'
         /\ \A d \in Conns : Kept(d)' /\ Distinct(d)' /\ Placed(d)' /\ Apart(d)' /\ Ended(d)'
         /\ \A d \in Conns : \A m \in Numbered(d)' : Owned(d, m)' /\ InFlight(d, m)'
<1>0. PICK n \in Nat : hands[c][w].n = n
  BY JobOf
<1>1. n \in Numbered(c) /\ n \in Nat
  BY <1>0, JobOf
<1>2. Resolves(c, n, result) /\ \A d \in Conns : Distinct(d)'
  BY <1>0, FinishResolves
<1>3. Matching' /\ AnswersMatch' /\ \A d \in Conns : Placed(d)'
  BY <1>1, <1>2, ResolvedMatching, ResolvedPlaced DEF Finishes
<1>4. \A d \in Conns : \A m \in Numbered(d) : Owned(d, m)' /\ InFlight(d, m)'
  BY <1>1, <1>2, AnsweredOwned
<1>5. \A d \in Conns : Numbered(d)' = Numbered(d)
  BY DEF Finishes, Numbered
<1>6. \A d \in Conns : Kept(d)' /\ Apart(d)' /\ Ended(d)'
  BY <1>2, BookkeepingKeeps DEF Finishes, Resolves
<1>7. SocketTyped'
  <2>1. registry' \in [Keys -> Nat] /\ entries' \in Seq(Entry)
    BY <1>1, <1>2, Completed DEF Resolves
  <2>2. arrived' \in [Conns -> SUBSET [seq : Nat, result : Outcome]]
    BY <1>1, <1>2, Parts, SendTyped DEF Resolves
  <2>3. hands' \in [Conns -> [JobWorkers -> [pc : InWork \cup {"idle"}, n : Nat]]]
    BY <1>0, FinishResolves
  <2> QED BY <2>1, <2>2, <2>3, Parts DEF SocketTyped, Finishes, Bookkeeping, ClaimRow
<1> QED BY <1>2, <1>3, <1>4, <1>5, <1>6, <1>7

\* What becomes of the claims: nothing, or the worker has this one and settles
\* it or gives it up. Who is refused for good had it, or its content differs.
LEMMA FinishClaims ==
  ASSUME Faithful, NEW c \in Conns, NEW w \in JobWorkers, hands[c][w].pc # "idle",
         NEW result \in Outcome, Finishes(c, w, result), NEW k \in Keys,
         \/ claims'[k] = claims[k]
         \/ Holds(c, w, k) /\ claims'[k].state # "paid"
         \/ Holds(c, w, k) /\ claims'[k] = [state |-> "paid", content |-> Job(c, w).content] /\ result # Failed,
         result = Failed /\ Job(c, w).id # "none" /\ k = KeyOf(Job(c, w)) =>
           \/ Holds(c, w, k) /\ claims'[k].state # "paid"
           \/ claims[k].content # Job(c, w).content /\ claims'[k] = claims[k]
  PROVE  Claimed(k)' /\ Refused(k)'
<1>0. PICK n \in Nat : hands[c][w].n = n
  BY JobOf
<1> DEFINE p == paragraphs[c][n]
<1>1. /\ n \in Numbered(c) /\ Job(c, w) = p /\ Resolves(c, n, result) /\ SocketTyped
      /\ Claimed(k) /\ Refused(k) /\ registry[k] \in 0..Len(entries) /\ Owned(c, n)
  BY <1>0, JobOf, FinishResolves, Parts DEF Matching
<1>2. /\ EntriesGrow
      /\ \A e \in 1..Len(entries) :
           e # p.entry => entries'[e].result = entries[e].result
      /\ \A e \in 1..Len(entries) :
           /\ entries'[e].result \in {entries[e].result, result} /\ entries'[e].content = entries[e].content
      /\ registry'[k] \in {0, registry[k]}
  BY <1>1, Completed DEF Resolves
<1>3. \A d \in Conns, v \in JobWorkers : Holds(d, v, k)' =>
        Holds(d, v, k) /\ ~(d = c /\ v = w) /\ Job(d, v)' = Job(d, v)
  <2> SUFFICES ASSUME NEW d \in Conns, NEW v \in JobWorkers, Holds(d, v, k)'
               PROVE  Holds(d, v, k) /\ ~(d = c /\ v = w) /\ Job(d, v)' = Job(d, v)
    OBVIOUS
  <2>1. ~(d = c /\ v = w) /\ hands'[d][v] = hands[d][v]
    BY <1>0, FinishResolves DEF Holds, NoJob
  <2> QED BY <2>1, <1>1, HoldsStays, Parts DEF Resolves
<1>4. Claimed(k)'
  <2>1. ASSUME NEW d \in Conns, NEW v \in JobWorkers, Holds(d, v, k)' PROVE claims'[k] = claims[k]
    <3>1. Holds(d, v, k) /\ ~(d = c /\ v = w)
      BY <1>3, <2>1
    <3>2. ~Holds(c, w, k)
      BY <1>1, <3>1 DEF Claimed
    <3> QED BY <3>2
  <2> QED BY <1>1, <1>3, <2>1, ClaimedStays
<1>5. Refused(k)'
  <2>1. CASE registry[k] # 0 /\ entries'[registry[k]].result = Failed /\ entries[registry[k]].result # Failed
    <3>1. registry[k] \in 1..Len(entries)
      BY <1>1, <2>1 DEF SocketTyped
    <3>2. registry[k] = p.entry /\ result = Failed /\ p.entry # 0
      BY <1>2, <2>1, <3>1
    <3>3. p.id # "none" /\ k = KeyOf(p) /\ entries[p.entry].content = p.content
      BY <1>1, <3>2 DEF Owned
    <3>4. entries'[registry[k]].content = p.content
      BY <1>2, <3>1, <3>2, <3>3
    <3>5. \/ Holds(c, w, k) /\ claims'[k].state # "paid"
          \/ claims[k].content # p.content /\ claims'[k] = claims[k]
      BY <1>1, <3>2, <3>3
    <3>6. /\ claims'[k] # [state |-> "paid", content |-> p.content]
          /\ \A d \in Conns, v \in JobWorkers : Holds(d, v, k)' => Job(d, v)'.content # p.content
      <4>0. ASSUME NEW d \in Conns, NEW v \in JobWorkers, Holds(d, v, k)
            PROVE  /\ claims[k].content = Job(d, v).content
                   /\ Holds(c, w, k) => d = c /\ v = w
        <5>1. claims[k] = [state |-> "held", content |-> Job(d, v).content]
          BY <1>1, <4>0 DEF Claimed
        <5>2. Holds(c, w, k) => d = c /\ v = w
          BY <1>1, <4>0 DEF Claimed
        <5> QED BY <5>1, <5>2
      <4>1. CASE Holds(c, w, k) /\ claims'[k].state # "paid"
        BY <1>3, <4>0, <4>1
      <4>2. CASE claims[k].content # p.content /\ claims'[k] = claims[k]
        BY <1>3, <4>0, <4>2
      <4> QED BY <3>5, <4>1, <4>2
    <3>7. registry'[k] # 0 => entries'[registry'[k]].content = p.content
      BY <1>2, <3>4
    <3> QED BY <3>6, <3>7 DEF Refused
  <2>2. CASE registry[k] # 0 => (entries'[registry[k]].result = Failed => entries[registry[k]].result = Failed)
    <3>1. \A x : claims'[k] = [state |-> "paid", content |-> x] =>
           \/ claims[k] = [state |-> "paid", content |-> x]
           \/ \E d \in Conns, v \in JobWorkers : Holds(d, v, k) /\ Job(d, v).content = x
      <4> SUFFICES ASSUME NEW x, claims'[k] = [state |-> "paid", content |-> x], claims'[k] # claims[k]
                   PROVE  Holds(c, w, k) /\ Job(c, w).content = x
        OBVIOUS
      <4>1. Holds(c, w, k) /\ claims'[k] = [state |-> "paid", content |-> Job(c, w).content]
        OBVIOUS
      <4> QED BY <4>1
    <3>2. \A d \in Conns : conn[d].cut => conn'[d].cut
      BY <1>1 DEF Resolves
    <3>3. \A d \in Conns, v \in JobWorkers : Holds(d, v, k)' =>
            Holds(d, v, k) /\ Job(d, v)'.content = Job(d, v).content
      BY <1>3
    <3> HIDE DEF p
    <3> QED BY <1>1, <1>2, <2>2, <3>1, <3>2, <3>3, RefusedStays
  <2> QED BY <2>1, <2>2
<1> QED BY <1>4, <1>5

RightClaims(c, w, result) == \A k \in Keys :
  /\ \/ claims'[k] = claims[k]
     \/ Holds(c, w, k) /\ claims'[k].state # "paid"
     \/ Holds(c, w, k) /\ claims'[k] = [state |-> "paid", content |-> Job(c, w).content] /\ result # Failed
  /\ result = Failed /\ Job(c, w).id # "none" /\ k = KeyOf(Job(c, w)) =>
       \/ Holds(c, w, k) /\ claims'[k].state # "paid"
       \/ claims[k].content # Job(c, w).content /\ claims'[k] = claims[k]

LEMMA FinishFaithful ==
  ASSUME Faithful, NEW c \in Conns, NEW w \in JobWorkers, hands[c][w].pc # "idle",
         NEW result \in Outcome, Finishes(c, w, result), RightClaims(c, w, result)
  PROVE  Faithful'
<1>1. \A k \in Keys : Claimed(k)' /\ Refused(k)'
  BY FinishClaims DEF RightClaims
<1>2. /\ SocketTyped' /\ Matching' /\ AnswersMatch'
      /\ \A d \in Conns : Kept(d)' /\ Distinct(d)' /\ Placed(d)' /\ Apart(d)' /\ Ended(d)'
      /\ \A d \in Conns : \A m \in Numbered(d)' : Owned(d, m)' /\ InFlight(d, m)'
  BY FinishKeeps
<1> QED BY <1>1, <1>2 DEF Faithful

\* The worker goes on with its paragraph.
Proceeds(c, w, pc) ==
  /\ Advance(c, w, pc)
  /\ UNCHANGED <<paragraphs, jobs, waiting, written, aux, arrived, registry, entries, conn>>
  /\ claims' \in [Keys -> ClaimRow]
  /\ \A k \in Keys : claims'[k].state = "paid" => claims'[k].content # "none"

LEMMA ProceedKeeps ==
  ASSUME Faithful, NEW c \in Conns, NEW w \in JobWorkers, hands[c][w].pc # "idle",
         NEW pc \in InWork, Proceeds(c, w, pc)
  PROVE  /\ SocketTyped' /\ Matching' /\ AnswersMatch'
         /\ \A d \in Conns : Kept(d)' /\ Distinct(d)' /\ Placed(d)' /\ Apart(d)' /\ Ended(d)'
         /\ \A d \in Conns : \A m \in Numbered(d)' : Owned(d, m)' /\ InFlight(d, m)'
         /\ Rests
<1>1. SocketTyped /\ \A d \in Conns : Kept(d) /\ Distinct(d) /\ Apart(d)
  BY Parts
<1>2. \A d \in Conns : /\ Distinct(d)'
                       /\ \A m \in Nat : OnTheWay(d, m)' <=> OnTheWay(d, m)
  BY <1>1, PlacesAdvance DEF Proceeds
<1>3. Rests
  BY <1>2 DEF Rests, Proceeds
<1>4. /\ Matching' /\ AnswersMatch' /\ \A d \in Conns : Placed(d)'
      /\ \A d \in Conns : \A m \in Numbered(d) : Owned(d, m)' /\ InFlight(d, m)'
  BY <1>3, RestingKeeps DEF Proceeds
<1>5. \A d \in Conns : Kept(d)' /\ Apart(d)' /\ Ended(d)'
  <2>1. Bookkeeping
    BY <1>1 DEF Bookkeeping, Proceeds, SocketTyped
  <2> QED BY <1>2, <2>1, BookkeepingKeeps DEF Proceeds
<1>6. SocketTyped'
  <2>1. hands' \in [Conns -> [JobWorkers -> [pc : InWork \cup {"idle"}, n : Nat]]]
    <3> DEFINE r == [hands[c][w] EXCEPT !.pc = pc]
    <3>1. hands[c][w] \in [pc : InWork \cup {"idle"}, n : Nat]
      BY <1>1 DEF SocketTyped
    <3>2. r \in [pc : InWork \cup {"idle"}, n : Nat]
      BY <3>1
    <3>3. hands' = [hands EXCEPT ![c] = [hands[c] EXCEPT ![w] = r]]
      BY <1>1 DEF SocketTyped, Proceeds, Advance
    <3> HIDE DEF r
    <3> QED BY <1>1, <3>2, <3>3 DEF SocketTyped
  <2> QED BY <1>1, <2>1 DEF SocketTyped, Proceeds, ClaimRow
<1>7. \A d \in Conns : Numbered(d)' = Numbered(d)
  BY DEF Numbered, Proceeds
<1> QED BY <1>2, <1>3, <1>4, <1>5, <1>6, <1>7

\* Going on does not change who holds a claim.
LEMMA ProceedFaithful ==
  ASSUME Faithful, NEW c \in Conns, NEW w \in JobWorkers, hands[c][w].pc # "idle",
         NEW pc \in InWork, Proceeds(c, w, pc), UNCHANGED claims,
         hands[c][w].pc \in {"reserve", "provide", "settle"} \/ Job(c, w).id = "none"
  PROVE  Faithful'
<1>1. /\ SocketTyped' /\ Matching' /\ AnswersMatch'
      /\ \A d \in Conns : Kept(d)' /\ Distinct(d)' /\ Placed(d)' /\ Apart(d)' /\ Ended(d)'
      /\ \A d \in Conns : \A m \in Numbered(d)' : Owned(d, m)' /\ InFlight(d, m)'
      /\ Rests
  BY ProceedKeeps
<1>2. SocketTyped /\ EntriesGrow /\ paragraphs' = paragraphs
  BY <1>1, Parts, RestingKeeps DEF Rests
<1>3. ASSUME NEW d \in Conns, NEW v \in JobWorkers
      PROVE  /\ Job(d, v)' = Job(d, v)
             /\ hands'[d][v].pc = IF d = c /\ v = w THEN pc ELSE hands[d][v].pc
  BY <1>2, PlacesAdvance DEF Job, Proceeds
<1>4. ASSUME NEW d \in Conns, NEW v \in JobWorkers, NEW k \in Keys, Holds(d, v, k)'
      PROVE  Holds(d, v, k)
  <2>1. Job(d, v)' = Job(d, v) /\ KeyOf(Job(d, v))' = KeyOf(Job(d, v))
    BY <1>3 DEF KeyOf
  <2>2. Job(d, v).id # "none" /\ KeyOf(Job(d, v)) = k
    BY <1>4, <2>1 DEF Holds
  <2>3. hands[d][v].pc \in {"reserve", "provide", "settle"}
    BY <1>3, <1>4, <2>2 DEF Holds
  <2> QED BY <2>2, <2>3 DEF Holds
<1>5. ASSUME NEW k \in Keys PROVE Claimed(k)' /\ Refused(k)'
  <2>1. Claimed(k) /\ Refused(k) /\ registry[k] \in 0..Len(entries)
    BY Parts DEF Matching
  <2>2. Claimed(k)'
    BY <1>3, <1>4, <2>1, ClaimedStays
  <2>3. Refused(k)'
    BY <1>1, <1>2, <1>3, <1>4, <2>1, RefusedStays DEF Rests
  <2> QED BY <2>2, <2>3
<1> QED BY <1>1, <1>5 DEF Faithful

LEMMA ClaimsTyped ==
  ASSUME Faithful
  PROVE  claims \in [Keys -> ClaimRow] /\ \A k \in Keys : claims[k].state = "paid" => claims[k].content # "none"
BY Parts DEF SocketTyped, ClaimRow, Matching

LEMMA ClaimSetRight ==
  ASSUME Faithful, NEW c \in Conns, NEW w \in JobWorkers, hands[c][w].pc \in {"reserve", "provide", "settle"},
         NEW state \in {"none", "held", "failed", "paid"}, claims' = SetClaim(Job(c, w), state),
         NEW result \in Outcome, state = "paid" => result # Failed
  PROVE  /\ RightClaims(c, w, result)
         /\ claims' \in [Keys -> ClaimRow] /\ \A k \in Keys : claims'[k].state = "paid" => claims'[k].content # "none"
<1>1. Job(c, w) \in Para /\ SocketTyped /\ Matching
  BY JobOf, Parts
<1>2. /\ claims' \in [Keys -> ClaimRow]
      /\ \A k \in Keys : claims'[k].state = "paid" => claims'[k].content # "none"
      /\ \A k \in Keys : IF Job(c, w).id # "none" /\ k = KeyOf(Job(c, w))
           THEN claims'[k] = [state |-> state, content |-> IF state = "none" THEN "none" ELSE Job(c, w).content]
           ELSE claims'[k] = claims[k]
  BY <1>1, ClaimSet
<1>3. ASSUME NEW k \in Keys, Job(c, w).id # "none", k = KeyOf(Job(c, w))
      PROVE  Holds(c, w, k)
  BY <1>3 DEF Holds
<1>4. ASSUME NEW k \in Keys
      PROVE  /\ \/ claims'[k] = claims[k]
                \/ Holds(c, w, k) /\ claims'[k].state # "paid"
                \/ Holds(c, w, k) /\ claims'[k] = [state |-> "paid", content |-> Job(c, w).content] /\ result # Failed
             /\ result = Failed /\ Job(c, w).id # "none" /\ k = KeyOf(Job(c, w)) =>
                  \/ Holds(c, w, k) /\ claims'[k].state # "paid"
                  \/ claims[k].content # Job(c, w).content /\ claims'[k] = claims[k]
  <2>1. CASE Job(c, w).id # "none" /\ k = KeyOf(Job(c, w))
    <3>1. claims'[k] = [state |-> state, content |-> IF state = "none" THEN "none" ELSE Job(c, w).content]
      BY <1>2, <2>1
    <3>2. Holds(c, w, k) /\ claims'[k].state = state
      BY <1>3, <2>1, <3>1
    <3>3. CASE state = "paid"
      BY <3>1, <3>2, <3>3
    <3>4. CASE state # "paid"
      BY <3>2, <3>4
    <3> QED BY <3>3, <3>4
  <2>2. CASE ~(Job(c, w).id # "none" /\ k = KeyOf(Job(c, w)))
    BY <1>2, <2>2
  <2> QED BY <2>1, <2>2
<1> QED BY <1>2, <1>4 DEF RightClaims

LEMMA ClaimSameRight ==
  ASSUME Faithful, NEW c \in Conns, NEW w \in JobWorkers, NEW result \in Outcome, UNCHANGED claims,
         result = Failed => Job(c, w).id = "none" \/ claims[KeyOf(Job(c, w))].content # Job(c, w).content
  PROVE  /\ RightClaims(c, w, result)
         /\ claims' \in [Keys -> ClaimRow] /\ \A k \in Keys : claims'[k].state = "paid" => claims'[k].content # "none"
BY ClaimsTyped DEF RightClaims

LEMMA TakeFaithful ==
  ASSUME Faithful, NEW c \in Conns, NEW w \in JobWorkers, Take(c, w)
  PROVE  Faithful'
<1>1. SocketTyped /\ Placed(c) /\ \A d \in Conns : Distinct(d)
  BY Parts
<1>2. Dequeues(c) /\ UNCHANGED <<conn, paragraphs, waiting, aux, written, claims>>
  BY DEF Take, Dequeues
<1>3. /\ jobs' \in [Conns -> Seq(Nat)]
      /\ Head(jobs[c]) = jobs[c][1] /\ jobs[c][1] \in Nat /\ Len(jobs[c]) >= 1
  <2>1. jobs[c] \in Seq(Nat) /\ jobs[c] # <<>>
    BY <1>1, <1>2 DEF SocketTyped, Dequeues
  <2>2. Tail(jobs[c]) \in Seq(Nat)
    BY <2>1, HeadTailProperties
  <2>3. jobs' \in [Conns -> Seq(Nat)]
    BY <1>1, <1>2, <2>2 DEF SocketTyped, Dequeues
  <2> QED BY <1>1, <1>2, <2>3, HeadsAndTails
<1>4. PICK n \in Nat : n = jobs[c][1]
  BY <1>3
<1>5. OnTheWay(c, n) /\ n \in Numbered(c)
  <2>1. Queued(c, n)
    BY <1>1, <1>3, <1>4 DEF Queued, SocketTyped
  <2> QED BY <1>1, <2>1 DEF OnTheWay, Placed
<1>6. Bookkeeping
  BY <1>1, <1>2, BookkeepingCases
<1>7. \A d \in Conns : Numbered(d)' = Numbered(d)
  BY <1>2 DEF Numbered
<1>8. CASE hands' = [hands EXCEPT ![c][w] = [pc |-> "claim", n |-> Head(jobs[c])]] /\ UNCHANGED <<arrived, registry, entries>>
  <2>1. TakesUp(c, w) /\ InHand(c, w, "idle")
    BY <1>8 DEF TakesUp, Take
  <2>2. \A d \in Conns : /\ Distinct(d)'
                         /\ \A m \in Nat : OnTheWay(d, m)' <=> OnTheWay(d, m)
                         /\ \A v \in JobWorkers : (d = c /\ v = w) \/ hands'[d][v] = hands[d][v]
                         /\ hands'[c][w] = [pc |-> "claim", n |-> Head(jobs[c])]
    BY <1>1, <1>2, <2>1, PlacesTaken
  <2>3. Rests
    BY <1>2, <1>8, <2>2 DEF Rests
  <2>4. /\ EntriesGrow /\ Matching' /\ AnswersMatch' /\ \A d \in Conns : Placed(d)'
        /\ \A d \in Conns : \A m \in Numbered(d) : Owned(d, m)' /\ InFlight(d, m)'
    BY <1>2, <2>3, RestingKeeps, ClaimsTyped
  <2>5. \A d \in Conns : Kept(d)' /\ Apart(d)' /\ Ended(d)'
    BY <1>2, <1>6, <2>2, BookkeepingKeeps
  <2>6. SocketTyped'
    <3>1. hands' \in [Conns -> [JobWorkers -> [pc : InWork \cup {"idle"}, n : Nat]]]
      <4> DEFINE r == [pc |-> "claim", n |-> n]
      <4>1. r \in [pc : InWork \cup {"idle"}, n : Nat]
        BY DEF InWork
      <4>2. hands' = [hands EXCEPT ![c] = [hands[c] EXCEPT ![w] = r]]
        BY <1>1, <1>3, <1>4, <1>8 DEF SocketTyped
      <4> HIDE DEF r
      <4> QED BY <1>1, <4>1, <4>2 DEF SocketTyped
    <3> QED BY <1>1, <1>2, <1>3, <1>8, <3>1 DEF SocketTyped
  <2>7. ASSUME NEW d \in Conns, NEW v \in JobWorkers, NEW k \in Keys, Holds(d, v, k)'
        PROVE  Holds(d, v, k) /\ Job(d, v)' = Job(d, v)
    <3>1. ~(d = c /\ v = w)
      BY <2>2, <2>7 DEF Holds
    <3>2. hands'[d][v] = hands[d][v]
      BY <2>2, <3>1
    <3> QED BY <1>1, <1>2, <2>7, <3>2, HoldsStays, Parts
  <2>8. ASSUME NEW k \in Keys PROVE Claimed(k)' /\ Refused(k)'
    <3>1. Claimed(k) /\ Refused(k) /\ registry[k] \in 0..Len(entries)
      BY Parts DEF Matching
    <3>2. Claimed(k)'
      BY <1>2, <2>7, <3>1, ClaimedStays
    <3>3. \A d \in Conns, v \in JobWorkers : Holds(d, v, k)' => Holds(d, v, k) /\ Job(d, v)'.content = Job(d, v).content
      BY <2>7
    <3>4. Refused(k)'
      BY <1>1, <1>2, <1>8, <2>4, <3>1, <3>3, RefusedStays
    <3> QED BY <3>2, <3>4
  <2> QED BY <1>7, <2>2, <2>4, <2>5, <2>6, <2>8 DEF Faithful
<1>9. CASE Complete(paragraphs[c][Head(jobs[c])], Again) /\ Send(c, Head(jobs[c]), Again) /\ UNCHANGED hands
  <2>0. Complete(paragraphs[c][n], Again) /\ Send(c, n, Again) /\ UNCHANGED hands
    BY <1>3, <1>4, <1>9
  <2>1. \A d \in Conns : /\ Distinct(d)'
                         /\ \A m \in Nat : OnTheWay(d, m)' <=> OnTheWay(d, m) /\ ~(d = c /\ m = n)
    BY <1>1, <1>2, <1>4, <2>0, PlacesDropped
  <2>2. Resolves(c, n, Again)
    BY <1>2, <1>5, <2>0, <2>1, Outcomes DEF Resolves
  <2>3. /\ Matching' /\ AnswersMatch' /\ \A d \in Conns : Placed(d)'
        /\ \A d \in Conns : \A m \in Numbered(d) : Owned(d, m)' /\ InFlight(d, m)'
    BY <1>2, <1>5, <2>2, Outcomes, ResolvedMatching, ResolvedPlaced, AnsweredOwned, ClaimsTyped
  <2>4. \A d \in Conns : Kept(d)' /\ Apart(d)' /\ Ended(d)'
    BY <1>2, <1>6, <2>1, BookkeepingKeeps
  <2>5. /\ registry' \in [Keys -> Nat] /\ entries' \in Seq(Entry) /\ EntriesGrow
        /\ \A e \in 1..Len(entries) : entries'[e].result \in {entries[e].result, Again}
        /\ \A k \in Keys : registry'[k] \in {0, registry[k]}
    BY <1>5, <2>0, Outcomes, Completed
  <2>6. SocketTyped'
    <3>1. arrived' \in [Conns -> SUBSET [seq : Nat, result : Outcome]]
      BY <1>1, <2>0, Outcomes, SendTyped
    <3> QED BY <1>1, <1>2, <1>3, <2>0, <2>5, <3>1 DEF SocketTyped
  <2>7. ASSUME NEW d \in Conns, NEW v \in JobWorkers, NEW k \in Keys, Holds(d, v, k)'
        PROVE  Holds(d, v, k) /\ Job(d, v)' = Job(d, v)
    BY <1>1, <1>2, <2>0, <2>7, HoldsStays, Parts
  <2>8. ASSUME NEW k \in Keys PROVE Claimed(k)' /\ Refused(k)'
    <3>1. Claimed(k) /\ Refused(k) /\ registry[k] \in 0..Len(entries)
      BY Parts DEF Matching
    <3>2. Claimed(k)'
      BY <1>2, <2>7, <3>1, ClaimedStays
    <3>3. \A d \in Conns, v \in JobWorkers : Holds(d, v, k)' => Holds(d, v, k) /\ Job(d, v)'.content = Job(d, v).content
      BY <2>7
    <3>4. registry[k] # 0 => (entries'[registry[k]].result = Failed => entries[registry[k]].result = Failed)
      BY <1>1, <2>5, <3>1, Outcomes DEF SocketTyped
    <3>5. Refused(k)'
      BY <1>1, <1>2, <2>5, <3>1, <3>3, <3>4, RefusedStays
    <3> QED BY <3>2, <3>5
  <2> QED BY <1>7, <2>1, <2>3, <2>4, <2>6, <2>8 DEF Faithful
<1> QED BY <1>8, <1>9 DEF Take

\* The claim is taken: nobody else holds it, and the worker's entry is in flight.
LEMMA ClaimTaken ==
  ASSUME Faithful, NEW c \in Conns, NEW w \in JobWorkers, hands[c][w].pc = "claim",
         Job(c, w).id # "none", ~Overdue(Job(c, w)), ~Held(KeyOf(Job(c, w))),
         claims' = SetClaim(Job(c, w), "held"), Advance(c, w, "reserve"),
         UNCHANGED <<paragraphs, jobs, waiting, written, aux, arrived, registry, entries, conn>>
  PROVE  Faithful'
<1> DEFINE key == KeyOf(Job(c, w))
<1>1. /\ SocketTyped /\ Matching /\ Job(c, w) \in Para /\ key \in Keys
      /\ Job(c, w).entry \in 1..Len(entries)
  BY JobOf, Parts
<1>2. PICK n \in Nat : hands[c][w].n = n
  BY JobOf
<1>3. registry[key] = Job(c, w).entry /\ entries[Job(c, w).entry].result = Pending
  <2>1. OnTheWay(c, n) /\ n \in Numbered(c) /\ Job(c, w) = paragraphs[c][n] /\ InFlight(c, n)
    BY <1>2, JobOf, Parts
  <2>2. Job(c, w).entry # 0 /\ ~entries[Job(c, w).entry].aged
    BY <1>1 DEF Overdue
  <2> QED BY <2>1, <2>2 DEF InFlight
<1>4. /\ claims' \in [Keys -> ClaimRow]
      /\ \A k \in Keys : claims'[k].state = "paid" => claims'[k].content # "none"
      /\ claims'[key] = [state |-> "held", content |-> Job(c, w).content]
      /\ \A k \in Keys : k # key => claims'[k] = claims[k]
  BY <1>1, ClaimSet
<1>5. Proceeds(c, w, "reserve")
  BY <1>4 DEF Proceeds
<1>6. /\ SocketTyped' /\ Matching' /\ AnswersMatch'
      /\ \A d \in Conns : Kept(d)' /\ Distinct(d)' /\ Placed(d)' /\ Apart(d)' /\ Ended(d)'
      /\ \A d \in Conns : \A m \in Numbered(d)' : Owned(d, m)' /\ InFlight(d, m)'
      /\ Rests
  BY <1>5, ProceedKeeps DEF InWork
<1>7. EntriesGrow
  BY <1>6, RestingKeeps
<1>8. ASSUME NEW d \in Conns, NEW v \in JobWorkers
      PROVE  /\ Job(d, v)' = Job(d, v)
             /\ hands'[d][v].pc = IF d = c /\ v = w THEN "reserve" ELSE hands[d][v].pc
  <2>1. hands'[d][v].n = hands[d][v].n
        /\ hands'[d][v].pc = IF d = c /\ v = w THEN "reserve" ELSE hands[d][v].pc
    BY <1>1, PlacesAdvance DEF InWork
  <2> QED BY <2>1 DEF Job
<1> HIDE DEF key
<1>9. ASSUME NEW d \in Conns, NEW v \in JobWorkers, NEW k \in Keys, Holds(d, v, k)'
      PROVE  (d = c /\ v = w /\ k = key) \/ (Holds(d, v, k) /\ k # key)
  <2>1. Job(d, v)' = Job(d, v) /\ KeyOf(Job(d, v))' = KeyOf(Job(d, v))
    BY <1>8 DEF KeyOf
  <2>2. Job(d, v).id # "none" /\ KeyOf(Job(d, v)) = k
    BY <1>9, <2>1 DEF Holds
  <2>3. CASE d = c /\ v = w
    BY <2>2, <2>3 DEF key
  <2>4. CASE ~(d = c /\ v = w)
    <3>1. Holds(d, v, k)
      BY <1>8, <1>9, <2>2, <2>4 DEF Holds
    <3>2. k # key
      BY <3>1 DEF Holds, Held, key
    <3> QED BY <3>1, <3>2
  <2> QED BY <2>3, <2>4
<1>10. ASSUME NEW k \in Keys PROVE Claimed(k)' /\ Refused(k)'
  <2>1. Claimed(k) /\ Refused(k) /\ registry[k] \in 0..Len(entries)
    BY Parts DEF Matching
  <2>2. CASE k = key
    <3>1. Claimed(k)'
      BY <1>4, <1>8, <1>9, <2>2 DEF Claimed
    <3>2. entries'[registry'[k]].result # Failed
      BY <1>3, <1>6, <2>2, Outcomes DEF Rests
    <3> QED BY <3>1, <3>2 DEF Refused
  <2>3. CASE k # key
    <3>1. claims'[k] = claims[k]
      BY <1>4, <2>3
    <3>2. \A d \in Conns, v \in JobWorkers : Holds(d, v, k)' => Holds(d, v, k) /\ Job(d, v)' = Job(d, v)
      BY <1>8, <1>9, <2>3
    <3>3. Claimed(k)'
      BY <2>1, <3>1, <3>2, ClaimedStays
    <3>4. \A d \in Conns, v \in JobWorkers : Holds(d, v, k)' => Holds(d, v, k) /\ Job(d, v)'.content = Job(d, v).content
      BY <3>2
    <3>5. Refused(k)'
      BY <1>1, <1>6, <1>7, <2>1, <3>1, <3>4, RefusedStays DEF Rests
    <3> QED BY <3>3, <3>5
  <2> QED BY <2>2, <2>3
<1> QED BY <1>6, <1>10 DEF Faithful

LEMMA ClaimFaithful ==
  ASSUME Faithful, NEW c \in Conns, NEW w \in JobWorkers, Claim(c, w)
  PROVE  Faithful'
<1> DEFINE p == Job(c, w)
           claim == claims[KeyOf(p)]
<1>1. /\ hands[c][w].pc = "claim" /\ hands[c][w].pc # "idle"
      /\ UNCHANGED <<conn, paragraphs, jobs, waiting, aux, written>>
  BY DEF Claim, InHand
<1>2. SocketTyped /\ Matching /\ Bookkeeping /\ (p.id # "none" => KeyOf(p) \in Keys)
  BY <1>1, BookkeepingCases, JobOf, Parts
<1>3. ASSUME p.id = "none", Advance(c, w, "reserve"), UNCHANGED <<arrived, shared>>
      PROVE  Faithful'
  <2>1. Proceeds(c, w, "reserve") /\ UNCHANGED claims
    BY <1>1, <1>3, ClaimsTyped DEF Proceeds, shared
  <2> QED BY <1>1, <1>3, <2>1, ProceedFaithful DEF InWork
<1>4. ASSUME p.id # "none", ~Overdue(p), ~Held(KeyOf(p)), claims' = SetClaim(p, "held"),
             Advance(c, w, "reserve"), UNCHANGED <<arrived, registry, entries>>
      PROVE  Faithful'
  BY <1>1, <1>4, ClaimTaken
<1>5. ASSUME NEW result \in Outcome, SendJobResult(c, w, result), UNCHANGED claims, result # Pending,
             result.kind = "ok" => result.content = p.content,
             result = Failed => p.id = "none" \/ claim.content # p.content
      PROVE  Faithful'
  <2>1. RightClaims(c, w, result) /\ Finishes(c, w, result)
    BY <1>1, <1>2, <1>5, ClaimSameRight DEF Finishes
  <2> QED BY <1>1, <2>1, FinishFaithful
<1>6. ASSUME SendJobResult(c, w, Again), UNCHANGED claims PROVE Faithful'
  BY <1>5, <1>6, Outcomes
<1>7. ASSUME p.id # "none", claim.content \in {"none", p.content}, claim.state = "paid",
             SendJobResult(c, w, Ok(claim.content)), UNCHANGED claims
      PROVE  Faithful'
  <2>1. claim.content # "none" /\ claim.content = p.content
    BY <1>2, <1>7 DEF Matching
  <2>2. claim.content \in Contents \cup {"none"}
    BY <1>2, <1>7, JobOf, <1>1, <2>1 DEF Para
  <2>3. Ok(claim.content) \in Outcome /\ Ok(claim.content) # Pending /\ Ok(claim.content) # Failed
        /\ Ok(claim.content).content = p.content
    BY <2>1, <2>2, Outcomes
  <2> HIDE DEF p, claim
  <2> QED BY <1>5, <1>7, <2>3
<1>8. ASSUME p.id # "none", ~(claim.content \in {"none", p.content}),
             SendJobResult(c, w, Failed), UNCHANGED claims
      PROVE  Faithful'
  BY <1>5, <1>8, Outcomes
<1> QED BY <1>3, <1>4, <1>6, <1>7, <1>8 DEF Claim

LEMMA ReserveFaithful ==
  ASSUME Faithful, NEW c \in Conns, NEW w \in JobWorkers, ReserveJob(c, w)
  PROVE  Faithful'
<1>1. /\ hands[c][w].pc = "reserve" /\ hands[c][w].pc # "idle"
      /\ UNCHANGED <<conn, paragraphs, jobs, waiting, aux, written>>
  BY DEF ReserveJob, InHand
<1>2. Bookkeeping
  BY <1>1, BookkeepingCases, Parts
<1>3. ASSUME Advance(c, w, "provide"), UNCHANGED <<arrived, shared>> PROVE Faithful'
  <2>1. Proceeds(c, w, "provide") /\ UNCHANGED claims
    BY <1>1, <1>3, ClaimsTyped DEF Proceeds, shared
  <2> QED BY <1>1, <2>1, ProceedFaithful DEF InWork
<1>4. ASSUME NEW result \in {Again, Failed}, claims' = SetClaim(Job(c, w), "none"), SendJobResult(c, w, result)
      PROVE  Faithful'
  <2>1. result \in Outcome /\ result # Pending /\ result.kind # "ok"
    BY Outcomes
  <2>2. RightClaims(c, w, result) /\ Finishes(c, w, result)
    BY <1>1, <1>2, <1>4, <2>1, ClaimSetRight DEF Finishes
  <2> QED BY <1>1, <2>1, <2>2, FinishFaithful
<1> QED BY <1>3, <1>4 DEF ReserveJob

LEMMA TranslateFaithful ==
  ASSUME Faithful, NEW c \in Conns, NEW w \in JobWorkers, Translate(c, w)
  PROVE  Faithful'
<1>1. /\ hands[c][w].pc = "provide" /\ hands[c][w].pc # "idle"
      /\ UNCHANGED <<paragraphs, jobs, waiting, aux, written>>
  BY DEF Translate, InHand
<1>2. ASSUME Advance(c, w, "settle"), UNCHANGED <<arrived, shared, conn>> PROVE Faithful'
  <2>1. Proceeds(c, w, "settle") /\ UNCHANGED claims
    BY <1>1, <1>2, ClaimsTyped DEF Proceeds, shared
  <2> QED BY <1>1, <2>1, ProceedFaithful DEF InWork
<1>3. ASSUME NEW result \in {Again, Failed}, claims' = SetClaim(Job(c, w), "failed"),
             SendJobResult(c, w, result), UNCHANGED conn
      PROVE  Faithful'
  <2>1. result \in Outcome /\ result # Pending /\ result.kind # "ok" /\ Bookkeeping
    BY <1>3, Outcomes, BookkeepingCases, Parts
  <2>2. RightClaims(c, w, result) /\ Finishes(c, w, result)
    BY <1>1, <1>3, <2>1, ClaimSetRight DEF Finishes
  <2> QED BY <1>1, <2>1, <2>2, FinishFaithful
<1>4. ASSUME conn' = [conn EXCEPT ![c].gate = TRUE], UNCHANGED claims,
             SendJobResult(c, w, IF Job(c, w).id = "none" THEN Failed ELSE Again)
      PROVE  Faithful'
  <2>1. PICK result \in {Again, Failed} : result = IF Job(c, w).id = "none" THEN Failed ELSE Again
    OBVIOUS
  <2>2. result \in Outcome /\ result # Pending /\ result.kind # "ok" /\ Bookkeeping
    BY <1>4, Outcomes, BookkeepingCases, Parts
  <2>3. result = Failed => Job(c, w).id = "none"
    BY <2>1, Outcomes
  <2>4. RightClaims(c, w, result) /\ Finishes(c, w, result)
    BY <1>1, <1>4, <2>1, <2>2, <2>3, ClaimSameRight DEF Finishes
  <2> QED BY <1>1, <2>2, <2>4, FinishFaithful
<1> QED BY <1>2, <1>3, <1>4 DEF Translate

LEMMA SettleFaithful ==
  ASSUME Faithful, NEW c \in Conns, NEW w \in JobWorkers, SettleJob(c, w)
  PROVE  Faithful'
<1>1. /\ hands[c][w].pc = "settle" /\ hands[c][w].pc # "idle"
      /\ UNCHANGED <<paragraphs, jobs, waiting, aux, written>>
      /\ SendJobResult(c, w, Ok(Job(c, w).content))
  BY DEF SettleJob, InHand
<1>2. Job(c, w) \in Para /\ Job(c, w).session = conn[c].session /\ SocketTyped
  BY <1>1, JobOf, Parts
<1>3. Bookkeeping
  BY <1>2, BookkeepingCases DEF SettleJob
<1>4. PICK result \in Outcome : result = Ok(Job(c, w).content)
  BY <1>2, Outcomes DEF Para
<1>5. result # Pending /\ result # Failed /\ result.content = Job(c, w).content
  BY <1>2, <1>4, Outcomes DEF Para
<1>6. CASE claims' = SetClaim(Job(c, w), "paid")
  <2>1. RightClaims(c, w, result) /\ Finishes(c, w, result)
    BY <1>1, <1>3, <1>4, <1>5, <1>6, ClaimSetRight DEF Finishes
  <2> QED BY <1>1, <2>1, FinishFaithful
<1>7. CASE claims' = claims
  <2>1. RightClaims(c, w, result) /\ Finishes(c, w, result)
    BY <1>1, <1>3, <1>4, <1>5, <1>7, ClaimSameRight DEF Finishes
  <2> QED BY <1>1, <2>1, FinishFaithful
<1> QED BY <1>6, <1>7 DEF SettleJob

LEMMA WorkFaithful ==
  ASSUME Faithful, NEW c \in Conns, NEW w \in JobWorkers, Work(c, w)
  PROVE  Faithful'
BY TakeFaithful, ClaimFaithful, ReserveFaithful, TranslateFaithful, SettleFaithful DEF Work

-----------------------------------------------------------------------------
(* Delivery                                                                *)

LEMMA ClaimsSame ==
  ASSUME Faithful, UNCHANGED <<conn, paragraphs, hands, registry, entries, claims>>, NEW k \in Keys
  PROVE  Claimed(k)' /\ Refused(k)'
<1>1. Claimed(k) /\ Refused(k)
  BY Parts
<1>2. \A c \in Conns, w \in JobWorkers : (Holds(c, w, k)' <=> Holds(c, w, k)) /\ Job(c, w)' = Job(c, w)
  BY DEF Holds, Job, KeyOf
<1>3. Claimed(k)'
  BY <1>1, <1>2 DEF Claimed
<1>4. Refused(k)'
  BY <1>1, <1>2 DEF Refused
<1> QED BY <1>3, <1>4

LEMMA ReplayFaithful ==
  ASSUME Faithful, NEW c \in Conns, NEW x \in waiting[c], Replay(c, x)
  PROVE  Faithful'
<1>1. /\ SocketTyped /\ Matching /\ AnswersMatch /\ Placed(c)
      /\ x \in [seq : Nat, entry : Nat] /\ x.seq \in Numbered(c) /\ x.entry \in 1..Len(entries)
      /\ entries[x.entry] \in Entry
  <2>1. SocketTyped /\ Matching /\ AnswersMatch /\ Placed(c)
    BY Parts
  <2>2. x \in [seq : Nat, entry : Nat] /\ x.seq \in Numbered(c) /\ x.entry \in 1..Len(entries)
    BY <2>1 DEF SocketTyped, Placed
  <2> QED BY <2>1, <2>2 DEF SocketTyped
<1>2. UNCHANGED <<conn, paragraphs, jobs, hands, aux, written, registry, entries, claims, faults>>
  BY DEF Replay, shared
<1>3. /\ waiting' \in [Conns -> SUBSET [seq : Nat, entry : Nat]]
      /\ \A d \in Conns : waiting'[d] \subseteq waiting[d]
      /\ waiting'[c] = waiting[c] \ {x}
  BY <1>1 DEF Replay, SocketTyped
<1>4. PICK n \in Nat : n = x.seq
  BY <1>1
<1>5. PICK result \in Outcome : result = entries[x.entry].result
  BY <1>1 DEF Entry
<1>6. /\ arrived' \in [Conns -> SUBSET [seq : Nat, result : Outcome]]
      /\ \A d \in Conns : d # c => arrived'[d] = arrived[d]
      /\ \A r \in arrived'[c] : r \in arrived[c] \/ r = [seq |-> n, result |-> result]
  <2>1. CASE Send(c, n, result)
    BY <1>1, <2>1, SendTyped
  <2>2. CASE UNCHANGED arrived
    BY <1>1, <2>2 DEF SocketTyped
  <2> QED BY <1>4, <1>5, <2>1, <2>2 DEF Replay
<1>7. SocketTyped'
  BY <1>1, <1>2, <1>3, <1>6 DEF SocketTyped
<1>8. \A d \in Conns : (Distinct(d) => Distinct(d)') /\ \A m \in Nat : OnTheWay(d, m)' <=> OnTheWay(d, m)
  BY <1>2, PlacesSame
<1>9. \A d \in Conns : Distinct(d)' /\ Kept(d)' /\ Apart(d)' /\ Ended(d)'
  <2>1. Bookkeeping /\ \A d \in Conns : aux'[d] \subseteq aux[d]
    BY <1>1, <1>2, BookkeepingCases
  <2> QED BY <1>2, <1>8, <2>1, BookkeepingKeeps, Parts
<1>10. ASSUME NEW d \in Conns PROVE Placed(d)'
  <2>1. /\ \A m \in Nat : OnTheWay(d, m) =>
             /\ m \in Numbered(d) /\ m > Len(written[d])
             /\ \A r \in arrived[d] : r.seq # m
             /\ \A y \in waiting[d] : y.seq # m
        /\ \A r \in arrived[d] : r.seq \in Numbered(d)
        /\ \A y \in waiting[d] : y.seq \in Numbered(d) /\ y.entry \in 1..Len(entries)
    BY Parts DEF Placed
  <2>2. \A r \in arrived'[d] : r \in arrived[d] \/ (d = c /\ r.seq = x.seq)
    BY <1>4, <1>6
  <2>3. \A r \in arrived'[d] : r.seq \in Numbered(d)
    BY <1>1, <2>1, <2>2
  <2>4. ASSUME NEW m \in Nat, OnTheWay(d, m) PROVE \A r \in arrived'[d] : r.seq # m
    BY <2>1, <2>2, <2>4
  <2>5. \A y \in waiting'[d] : y \in waiting[d]
    BY <1>3
  <2> QED BY <1>2, <1>8, <2>1, <2>3, <2>4, <2>5 DEF Placed, Numbered
<1>11. Matching'
  <2>1. ASSUME NEW d \in Conns, NEW r \in arrived'[d], r.result.kind = "ok"
        PROVE  r.result.content = paragraphs[d][r.seq].content
    <3>1. CASE r \in arrived[d]
      BY <1>1, <2>1, <3>1 DEF Matching
    <3>2. CASE d = c /\ r = [seq |-> n, result |-> result]
      BY <1>1, <1>4, <1>5, <2>1, <3>2 DEF Matching
    <3> QED BY <1>6, <3>1, <3>2
  <2> QED BY <1>1, <1>2, <1>3, <2>1 DEF Matching
<1>12. AnswersMatch'
  BY <1>1, <1>2 DEF AnswersMatch
<1>13. \A d \in Conns : \A m \in Numbered(d)' : Owned(d, m)' /\ InFlight(d, m)'
  BY <1>2, <1>8, OwnershipStays
<1>14. ASSUME NEW k \in Keys PROVE Claimed(k)' /\ Refused(k)'
  BY <1>2, ClaimsSame
<1> QED BY <1>7, <1>9, <1>10, <1>11, <1>12, <1>13, <1>14 DEF Faithful

LEMMA DeliverFaithful ==
  ASSUME Faithful, NEW c \in Conns, Deliver(c)
  PROVE  Faithful'
<1>1. PICK r \in Due(c) : /\ written' = [written EXCEPT ![c] = Append(@, r.result)]
                          /\ arrived' = [arrived EXCEPT ![c] = @ \ {r}]
                          /\ UNCHANGED <<conn, paragraphs, jobs, hands, waiting, aux, shared, faults>>
  BY DEF Deliver
<1>2. UNCHANGED <<conn, paragraphs, jobs, hands, waiting, aux, registry, entries, claims>>
  BY <1>1 DEF shared
<1>3. /\ SocketTyped /\ Matching /\ AnswersMatch /\ Placed(c)
      /\ r \in arrived[c] /\ r \in [seq : Nat, result : Outcome] /\ r.seq \in Numbered(c)
      /\ r.seq = Len(written[c]) + 1 /\ written[c] \in Seq(Outcome) /\ Len(written[c]) \in Nat
      /\ Len(paragraphs[c]) \in Nat
  <2>1. SocketTyped /\ Matching /\ AnswersMatch /\ Placed(c)
    BY Parts
  <2>2. r \in arrived[c] /\ r.seq = Len(written[c]) + 1
    BY DEF Due
  <2> QED BY <2>1, <2>2 DEF SocketTyped, Placed
<1> DEFINE last == Len(written[c])
<1>4. /\ written' \in [Conns -> Seq(Outcome)]
      /\ \A d \in Conns : d # c => written'[d] = written[d]
      /\ Len(written'[c]) = last + 1 /\ written'[c][last + 1] = r.result
      /\ \A i \in 1..last : written'[c][i] = written[c][i]
  BY <1>1, <1>3 DEF SocketTyped
<1>5. /\ arrived' \in [Conns -> SUBSET [seq : Nat, result : Outcome]]
      /\ \A d \in Conns : \A s \in arrived'[d] : s \in arrived[d]
  BY <1>1, <1>3 DEF SocketTyped
<1>6. SocketTyped'
  BY <1>2, <1>3, <1>4, <1>5 DEF SocketTyped
<1>7. \A d \in Conns : (Distinct(d) => Distinct(d)') /\ \A m \in Nat : OnTheWay(d, m)' <=> OnTheWay(d, m)
  BY <1>2, PlacesSame
<1> HIDE DEF last
<1>8. last \in Nat /\ Len(written[c]) = last /\ r.seq = last + 1 /\ Numbered(c) = 1..Len(paragraphs[c])
      /\ last + 1 <= Len(paragraphs[c])
  BY <1>3 DEF last, Numbered
<1>9. ASSUME NEW d \in Conns PROVE Placed(d)'
  <2>1. /\ \A m \in Nat : OnTheWay(d, m) =>
             /\ m \in Numbered(d) /\ m > Len(written[d])
             /\ \A s \in arrived[d] : s.seq # m
             /\ \A y \in waiting[d] : y.seq # m
        /\ \A s \in arrived[d] : s.seq \in Numbered(d)
        /\ \A y \in waiting[d] : y.seq \in Numbered(d) /\ y.entry \in 1..Len(entries)
    BY Parts DEF Placed
  <2>2. ASSUME NEW m \in Nat, OnTheWay(d, m) PROVE m > Len(written'[d])
    <3>1. CASE d = c
      BY <1>3, <1>4, <1>8, <2>1, <2>2, <3>1
    <3>2. CASE d # c
      BY <1>4, <2>1, <2>2, <3>2
    <3> QED BY <3>1, <3>2
  <2> QED BY <1>2, <1>5, <1>7, <2>1, <2>2 DEF Placed, Numbered
<1>10. ASSUME NEW d \in Conns PROVE Kept(d)'
  <2>1. Kept(d)
    BY Parts
  <2>2. CASE d = c
    <3>1. \A units : Hold(paragraphs[c], last, units) => Hold(paragraphs[c], last + 1, units)
      BY <1>8 DEF Hold
    <3> QED BY <1>2, <1>4, <1>8, <2>1, <2>2, <3>1 DEF Kept
  <2>3. CASE d # c
    BY <1>2, <1>4, <2>1, <2>3, KeptStays
  <2> QED BY <2>2, <2>3
<1>11. ASSUME NEW d \in Conns PROVE Apart(d)' /\ Ended(d)'
  <2>1. Apart(d) /\ Ended(d) /\ \A m \in Numbered(d) : OnTheWay(d, m)' => OnTheWay(d, m)
    BY <1>3, <1>7, Parts, ParaTyped
  <2>2. Apart(d)'
    BY <1>2, <2>1, ApartStays
  <2>3. Ended(d)'
    BY <1>2, <1>7, <2>1 DEF Ended
  <2> QED BY <2>2, <2>3
<1>12. Matching'
  BY <1>2, <1>3, <1>5 DEF Matching
<1>13. AnswersMatch'
  <2>1. ASSUME NEW d \in Conns, NEW i \in 1..Len(written'[d]), written'[d][i].kind = "ok"
        PROVE  written'[d][i].content = paragraphs[d][i].content
    <3>1. CASE d = c /\ i = last + 1
      BY <1>3, <1>4, <1>8, <2>1, <3>1 DEF Matching
    <3>2. CASE d = c /\ i # last + 1
      <4>1. i \in 1..last
        BY <1>4, <1>8, <3>2
      <4> QED BY <1>3, <1>4, <1>8, <2>1, <3>2, <4>1 DEF AnswersMatch
    <3>3. CASE d # c
      BY <1>3, <1>4, <2>1, <3>3 DEF AnswersMatch
    <3> QED BY <3>1, <3>2, <3>3
  <2> QED BY <1>2, <2>1 DEF AnswersMatch
<1>14. \A d \in Conns : \A m \in Numbered(d)' : Owned(d, m)' /\ InFlight(d, m)'
  BY <1>2, <1>7, OwnershipStays
<1>15. \A k \in Keys : Claimed(k)' /\ Refused(k)'
  BY <1>2, ClaimsSame
<1>16. \A d \in Conns : Distinct(d)'
  BY <1>7, Parts
<1> QED BY <1>6, <1>9, <1>10, <1>11, <1>12, <1>13, <1>14, <1>15, <1>16 DEF Faithful

-----------------------------------------------------------------------------
(* Steps of a connection that submit nothing                               *)

Changes(c, r) == conn' = [conn EXCEPT ![c] = r]

LEMMA QuietFaithful ==
  ASSUME Faithful, NEW c \in Conns, NEW r \in Connection, Changes(c, r),
         conn[c].cut => r.cut, r.phase = "closed" => conn[c].phase = "closed",
         UNCHANGED <<paragraphs, jobs, hands, waiting, arrived, written, registry, entries, claims>>,
         aux' \in [Conns -> SUBSET [unit : Nat, session : Sessions]],
         \A d \in Conns : d # c => aux'[d] = aux[d],
         Kept(c)', Apart(c)'
  PROVE  Faithful'
<1>1. SocketTyped
  BY Parts
<1>2. conn' \in [Conns -> Connection] /\ conn'[c] = r /\ \A d \in Conns : d # c => conn'[d] = conn[d]
  BY <1>1 DEF SocketTyped, Changes
<1>3. \A d \in Conns : Distinct(d)' /\ \A m \in Nat : OnTheWay(d, m)' <=> OnTheWay(d, m)
  BY PlacesSame, Parts
<1>4. Rests
  BY <1>2, <1>3 DEF Rests
<1>5. /\ Matching' /\ AnswersMatch' /\ \A d \in Conns : Placed(d)'
      /\ \A d \in Conns : \A m \in Numbered(d) : Owned(d, m)' /\ InFlight(d, m)'
  BY <1>4, RestingKeeps, ClaimsTyped
<1>6. ASSUME NEW d \in Conns PROVE Kept(d)' /\ Apart(d)' /\ Ended(d)'
  <2>1. Kept(d) /\ Apart(d) /\ Ended(d) /\ \A m \in Numbered(d) : OnTheWay(d, m)' => OnTheWay(d, m)
    BY <1>1, <1>3, Parts, ParaTyped
  <2>2. Ended(d)'
    BY <1>2, <1>3, <2>1, EndedStays
  <2>3. CASE d # c
    BY <1>2, <2>1, <2>2, <2>3, KeptStays, ApartStays
  <2> QED BY <2>2, <2>3
<1>7. \A k \in Keys : Claimed(k)' /\ Refused(k)'
  BY <1>4, ClaimsRest
<1>8. \A d \in Conns : Numbered(d)' = Numbered(d)
  BY DEF Numbered
<1>9. SocketTyped'
  BY <1>1, <1>2 DEF SocketTyped
<1> QED BY <1>3, <1>5, <1>6, <1>7, <1>8, <1>9 DEF Faithful

LEMMA TimerTakesFaithful ==
  ASSUME Faithful, NEW c \in Conns, TimerTakes(c)
  PROVE  Faithful'
<1>1. SocketTyped /\ conn \in [Conns -> Connection] /\ conn[c] \in Connection /\ Kept(c) /\ Apart(c)
  BY Parts DEF SocketTyped
<1> DEFINE r == [conn[c] EXCEPT !.batch = conn[c].held, !.held = {}]
<1>2. Changes(c, r) /\ r \in Connection
  BY <1>1 DEF TimerTakes, Connection, Changes
<1>3. conn'[c] = r /\ UNCHANGED <<paragraphs, jobs, hands, waiting, aux, arrived, written, registry, entries, claims>>
  BY <1>1, <1>2 DEF TimerTakes, shared, Changes
<1>4. /\ conn'[c].held = {} /\ conn'[c].batch = conn[c].held /\ conn'[c].heard = conn[c].heard
      /\ conn'[c].flushes = conn[c].flushes /\ conn'[c].acked = conn[c].acked
      /\ conn'[c].phase = conn[c].phase /\ conn'[c].target = conn[c].target
      /\ conn'[c].session = conn[c].session /\ conn'[c].context = conn[c].context /\ conn'[c].cut = conn[c].cut
  BY <1>1, <1>3 DEF Connection
<1>5. conn[c].batch = {} /\ conn[c].phase = "open"
  BY <1>1 DEF TimerTakes, Unlocked, Kept
<1>6. Kept(c)'
  BY <1>1, <1>3, <1>4, <1>5 DEF Kept, Hold
<1>7. Apart(c)'
  BY <1>1, <1>3, <1>4 DEF Apart, Numbered, OnTheWay, Queued, With
<1> HIDE DEF r
<1> QED BY <1>1, <1>2, <1>3, <1>4, <1>6, <1>7, QuietFaithful DEF SocketTyped

LEMMA BarrierFaithful ==
  ASSUME Faithful, NEW c \in Conns, NEW flush \in conn[c].flushes, Barrier(c, flush)
  PROVE  Faithful'
<1>1. SocketTyped /\ conn \in [Conns -> Connection] /\ conn[c] \in Connection /\ Kept(c) /\ Apart(c)
  BY Parts DEF SocketTyped
<1>2. flush.target \in Nat /\ flush.heard \in Nat /\ conn[c].acked \in Nat /\ Len(written[c]) \in Nat
      /\ conn[c].flushes \subseteq Barriers
  BY <1>1 DEF Connection, Barriers, SocketTyped
<1>3. PICK acked \in Nat : /\ conn' = [conn EXCEPT ![c].flushes = @ \ {flush}, ![c].acked = acked]
                           /\ acked = conn[c].acked \/ (acked = flush.heard /\ Len(written[c]) >= flush.target)
  <2>1. CASE Len(written[c]) >= flush.target /\
             conn' = [conn EXCEPT ![c].flushes = @ \ {flush}, ![c].acked = Max({@, flush.heard})]
    <3>1. Max({conn[c].acked, flush.heard}) \in {conn[c].acked, flush.heard}
      BY <1>2, Larger
    <3>2. conn' = [conn EXCEPT ![c].flushes = @ \ {flush}, ![c].acked = Max({conn[c].acked, flush.heard})]
      BY <2>1
    <3> QED BY <1>2, <2>1, <3>1, <3>2
  <2>2. CASE conn' = [conn EXCEPT ![c].flushes = @ \ {flush}]
    <3>1. conn' = [conn EXCEPT ![c].flushes = @ \ {flush}, ![c].acked = conn[c].acked]
      BY <1>1, <2>2 DEF Connection
    <3> QED BY <1>2, <3>1
  <2> QED BY <2>1, <2>2 DEF Barrier
<1> DEFINE r == [conn[c] EXCEPT !.flushes = conn[c].flushes \ {flush}, !.acked = acked]
<1>4. Changes(c, r) /\ r \in Connection
  BY <1>1, <1>2, <1>3 DEF Connection, Changes
<1>5. conn'[c] = r /\ UNCHANGED <<paragraphs, jobs, hands, waiting, aux, arrived, written, registry, entries, claims>>
  BY <1>1, <1>4 DEF Barrier, shared, Changes
<1>6. /\ conn'[c].flushes = conn[c].flushes \ {flush} /\ conn'[c].acked = acked
      /\ conn'[c].held = conn[c].held /\ conn'[c].batch = conn[c].batch /\ conn'[c].heard = conn[c].heard
      /\ conn'[c].phase = conn[c].phase /\ conn'[c].target = conn[c].target
      /\ conn'[c].session = conn[c].session /\ conn'[c].context = conn[c].context /\ conn'[c].cut = conn[c].cut
  BY <1>1, <1>5 DEF Connection
<1>7. Hold(paragraphs[c], Len(written[c]), 1..acked)
  <2>1. CASE acked = conn[c].acked
    BY <1>1, <2>1 DEF Kept
  <2>2. CASE acked = flush.heard /\ Len(written[c]) >= flush.target
    <3>1. Hold(paragraphs[c], flush.target, 1..flush.heard)
      BY <1>1 DEF Kept
    <3>2. 1..flush.target \subseteq 1..Len(written[c])
      BY <1>2, <2>2
    <3> QED BY <2>2, <3>1, <3>2 DEF Hold
  <2> QED BY <1>3, <2>1, <2>2
<1>8. Kept(c)'
  BY <1>1, <1>5, <1>6, <1>7 DEF Kept, Hold
<1>9. Apart(c)'
  BY <1>1, <1>5, <1>6 DEF Apart, Numbered, OnTheWay, Queued, With
<1> HIDE DEF r
<1> QED BY <1>1, <1>4, <1>5, <1>6, <1>8, <1>9, QuietFaithful DEF SocketTyped

LEMMA SwitchedFaithful ==
  ASSUME Faithful, NEW c \in Conns, Switched(c)
  PROVE  Faithful'
<1>1. SocketTyped /\ conn \in [Conns -> Connection] /\ conn[c] \in Connection /\ Kept(c) /\ Apart(c) /\ Placed(c)
  BY Parts DEF SocketTyped
<1> DEFINE r == [conn[c] EXCEPT !.phase = "open", !.session = conn[c].to, !.target = 0, !.held = {}, !.context = {}]
<1>2. Changes(c, r) /\ r \in Connection
  BY <1>1 DEF Switched, Connection, Phases, Changes
<1>3. conn'[c] = r /\ UNCHANGED <<paragraphs, jobs, hands, waiting, aux, arrived, written, registry, entries, claims>>
  BY <1>1, <1>2 DEF Switched, shared, Changes
<1>4. /\ conn'[c].held = {} /\ conn'[c].batch = conn[c].batch /\ conn'[c].heard = conn[c].heard
      /\ conn'[c].flushes = conn[c].flushes /\ conn'[c].acked = conn[c].acked
      /\ conn'[c].phase = "open" /\ conn'[c].context = {} /\ conn'[c].cut = conn[c].cut
  BY <1>1, <1>3 DEF Connection
<1>5. conn[c].phase = "switching" /\ conn[c].held = {} /\ Len(written[c]) >= Len(paragraphs[c]) /\ aux[c] = {}
  BY <1>1 DEF Switched, Kept
<1>6. Kept(c)'
  BY <1>1, <1>3, <1>4, <1>5 DEF Kept, Hold
<1>7. \A n \in Nat : ~OnTheWay(c, n)
  BY <1>1, <1>5 DEF Placed, Numbered, SocketTyped
<1>8. Apart(c)'
  <2>1. \A n \in Nat : ~OnTheWay(c, n)'
    BY <1>3, <1>7 DEF OnTheWay, Queued, With
  <2>2. \A n \in Numbered(c)' : n \in Nat
    BY <1>3, <1>1, ParaTyped DEF Numbered
  <2> QED BY <1>3, <1>4, <1>5, <2>1, <2>2 DEF Apart
<1> HIDE DEF r
<1>9. r.phase # "closed" /\ (conn[c].cut => r.cut)
  BY <1>3, <1>4
<1> QED BY <1>1, <1>2, <1>3, <1>6, <1>8, <1>9, QuietFaithful DEF SocketTyped

LEMMA TaskFaithful ==
  ASSUME Faithful, NEW c \in Conns, NEW t \in aux[c], Task(c, t)
  PROVE  Faithful'
<1>1. SocketTyped /\ conn \in [Conns -> Connection] /\ conn[c] \in Connection /\ Kept(c) /\ Apart(c)
  BY Parts DEF SocketTyped
<1>2. /\ aux' \in [Conns -> SUBSET [unit : Nat, session : Sessions]]
      /\ \A d \in Conns : aux'[d] \subseteq aux[d] /\ (d # c => aux'[d] = aux[d])
      /\ t.session = conn[c].session
  BY <1>1 DEF Task, SocketTyped, Apart
<1>3. Bookkeeping
  BY <1>1, <1>2, BookkeepingCases DEF Task
<1>4. UNCHANGED <<paragraphs, jobs, hands, waiting, arrived, written, registry, entries, claims>>
  BY DEF Task, shared
<1>5. \A d \in Conns : Distinct(d)' /\ \A m \in Nat : OnTheWay(d, m)' <=> OnTheWay(d, m)
  BY <1>4, PlacesSame, Parts
<1>6. \A d \in Conns : Kept(d)' /\ Apart(d)'
  BY <1>2, <1>3, <1>4, <1>5, BookkeepingKeeps
<1>7. PICK r \in Connection : r = conn'[c]
  BY <1>3 DEF Bookkeeping
<1>8. Changes(c, r)
  BY <1>1, <1>7 DEF Task, Changes
<1>9. r.cut = conn[c].cut /\ r.phase = conn[c].phase
  BY <1>3, <1>7 DEF Bookkeeping
<1> QED BY <1>2, <1>4, <1>6, <1>8, <1>9, QuietFaithful

LEMMA CutFaithful ==
  ASSUME Faithful, NEW c \in Conns, Cut(c)
  PROVE  Faithful'
<1>1. SocketTyped /\ conn \in [Conns -> Connection] /\ conn[c] \in Connection /\ Kept(c) /\ Apart(c)
  BY Parts DEF SocketTyped
<1> DEFINE r == [conn[c] EXCEPT !.cut = TRUE]
<1>2. Changes(c, r) /\ r \in Connection
  BY <1>1 DEF Cut, Connection, Changes
<1>3. conn'[c] = r /\ UNCHANGED <<paragraphs, jobs, hands, waiting, aux, arrived, written, registry, entries, claims>>
  BY <1>1, <1>2 DEF Cut, shared, Changes
<1>4. /\ conn'[c].held = conn[c].held /\ conn'[c].batch = conn[c].batch /\ conn'[c].heard = conn[c].heard
      /\ conn'[c].flushes = conn[c].flushes /\ conn'[c].acked = conn[c].acked
      /\ conn'[c].phase = conn[c].phase /\ conn'[c].target = conn[c].target
      /\ conn'[c].session = conn[c].session /\ conn'[c].context = conn[c].context /\ conn'[c].cut
  BY <1>1, <1>3 DEF Connection
<1>5. Kept(c)'
  BY <1>1, <1>3, <1>4, KeptStays
<1>6. Apart(c)'
  BY <1>1, <1>3, <1>4 DEF Apart, Numbered, OnTheWay, Queued, With
<1> HIDE DEF r
<1> QED BY <1>1, <1>2, <1>3, <1>4, <1>5, <1>6, QuietFaithful DEF SocketTyped

LEMMA LeaveFaithful ==
  ASSUME Faithful, NEW c \in Conns, Leave(c)
  PROVE  Faithful'
<1>1. SocketTyped /\ conn \in [Conns -> Connection] /\ conn[c] \in Connection /\ Kept(c) /\ Apart(c)
  BY Parts DEF SocketTyped
<1> DEFINE r == [conn[c] EXCEPT !.phase = "left", !.target = 0, !.flushes = {}]
<1>2. Changes(c, r) /\ r \in Connection
  BY <1>1 DEF Leave, Connection, Phases, Changes
<1>3. conn'[c] = r /\ UNCHANGED <<paragraphs, jobs, hands, waiting, aux, arrived, written, registry, entries, claims>>
  BY <1>1, <1>2 DEF Leave, shared, Changes
<1>4. /\ conn'[c].held = conn[c].held /\ conn'[c].batch = conn[c].batch /\ conn'[c].heard = conn[c].heard
      /\ conn'[c].flushes = {} /\ conn'[c].acked = conn[c].acked /\ conn'[c].phase = "left"
      /\ conn'[c].session = conn[c].session /\ conn'[c].context = conn[c].context /\ conn'[c].cut = conn[c].cut
  BY <1>1, <1>3 DEF Connection
<1>5. Kept(c)'
  BY <1>1, <1>3, <1>4 DEF Kept, Hold
<1>6. Apart(c)'
  BY <1>1, <1>3, <1>4 DEF Apart, Numbered, OnTheWay, Queued, With
<1> HIDE DEF r
<1>7. r.phase # "closed" /\ (conn[c].cut => r.cut)
  BY <1>3, <1>4
<1> QED BY <1>1, <1>2, <1>3, <1>5, <1>6, <1>7, QuietFaithful DEF SocketTyped

LEMMA CloseFaithful ==
  ASSUME Faithful, NEW c \in Conns, Close(c)
  PROVE  Faithful'
<1>1. /\ SocketTyped /\ conn \in [Conns -> Connection] /\ conn[c] \in Connection
      /\ Matching /\ AnswersMatch
      /\ \A d \in Conns : Kept(d) /\ Distinct(d) /\ Placed(d) /\ Apart(d) /\ Ended(d)
  BY Parts DEF SocketTyped
<1> DEFINE r == [conn[c] EXCEPT !.phase = "closed"]
<1>2. conn' = [conn EXCEPT ![c] = r] /\ r \in Connection
  BY <1>1 DEF Close, Connection, Phases
<1>3. /\ conn' \in [Conns -> Connection] /\ conn'[c] = r /\ \A d \in Conns : d # c => conn'[d] = conn[d]
      /\ UNCHANGED <<paragraphs, hands, waiting, aux, written, registry, entries, claims>>
  BY <1>1, <1>2 DEF Close, shared
<1>4. /\ conn'[c].held = conn[c].held /\ conn'[c].batch = conn[c].batch /\ conn'[c].heard = conn[c].heard
      /\ conn'[c].flushes = conn[c].flushes /\ conn'[c].acked = conn[c].acked /\ conn'[c].phase = "closed"
      /\ conn'[c].session = conn[c].session /\ conn'[c].context = conn[c].context
      /\ \A d \in Conns : conn'[d].cut = conn[d].cut
  BY <1>1, <1>3 DEF Connection
<1> HIDE DEF r
<1>5. /\ jobs' \in [Conns -> Seq(Nat)] /\ jobs'[c] = <<>> /\ \A d \in Conns : d # c => jobs'[d] = jobs[d]
      /\ arrived' \in [Conns -> SUBSET [seq : Nat, result : Outcome]]
      /\ \A d \in Conns : \A s \in arrived'[d] : s \in arrived[d]
  BY <1>1 DEF Close, SocketTyped
<1>6. conn[c].phase = "finishing" /\ (jobs[c] = <<>> \/ conn[c].cut) /\ \A w \in JobWorkers : hands[c][w].pc = "idle"
  BY DEF Close, InHand
<1>7. \A m \in Nat : ~OnTheWay(c, m)'
  BY <1>3, <1>5, <1>6 DEF OnTheWay, Queued, With
<1>8. \A m \in Nat : OnTheWay(c, m) => conn[c].cut
  BY <1>6 DEF OnTheWay, Queued, With
<1>9. \A d \in Conns : d # c => \A m \in Nat : OnTheWay(d, m)' <=> OnTheWay(d, m)
  BY <1>3, <1>5 DEF OnTheWay, Queued, With
<1>10. SocketTyped'
  BY <1>1, <1>3, <1>5 DEF SocketTyped
<1>11. ASSUME NEW d \in Conns PROVE Kept(d)' /\ Distinct(d)' /\ Placed(d)' /\ Apart(d)' /\ Ended(d)'
  <2>1. \A n \in Numbered(d) : n \in Nat
    BY <1>1, ParaTyped
  <2>2. \A m \in Nat : OnTheWay(d, m)' => OnTheWay(d, m)
    BY <1>7, <1>9
  <2>3. Kept(d)'
    <3>1. CASE d # c
      BY <1>1, <1>3, <3>1, KeptStays
    <3>2. CASE d = c
      BY <1>1, <1>3, <1>4, <1>6, <3>2 DEF Kept, Hold
    <3> QED BY <3>1, <3>2
  <2>4. Distinct(d)'
    <3>1. CASE d # c
      <4>1. jobs'[d] = jobs[d] /\ hands'[d] = hands[d]
        BY <1>3, <1>5, <3>1
      <4>2. \A n \in Nat : Queued(d, n)' <=> Queued(d, n)
        BY <4>1 DEF Queued
      <4>3. \A w \in JobWorkers, n \in Nat : With(d, w, n)' <=> With(d, w, n)
        BY <4>1 DEF With
      <4> QED BY <1>1, <4>1, <4>2, <4>3 DEF Distinct
    <3>2. CASE d = c
      BY <1>3, <1>5, <1>6, <3>2 DEF Distinct, With
    <3> QED BY <3>1, <3>2
  <2>5. Placed(d)'
    BY <1>1, <1>3, <1>5, <2>2 DEF Placed, Numbered
  <2>6. Apart(d)'
    BY <1>1, <1>3, <1>4, <2>1, <2>2, ApartStays
  <2>7. Ended(d)'
    <3>1. CASE d # c
      BY <1>1, <1>3, <2>2, <3>1, EndedStays
    <3>2. CASE d = c
      BY <1>7, <3>2 DEF Ended
    <3> QED BY <3>1, <3>2
  <2> QED BY <2>3, <2>4, <2>5, <2>6, <2>7
<1>12. Matching' /\ AnswersMatch'
  <2>1. Matching'
    BY <1>1, <1>3, <1>5 DEF Matching
  <2>2. AnswersMatch'
    BY <1>1, <1>3 DEF AnswersMatch
  <2> QED BY <2>1, <2>2
<1>13. ASSUME NEW d \in Conns, NEW m \in Numbered(d)' PROVE Owned(d, m)' /\ InFlight(d, m)'
  <2>1. m \in Numbered(d) /\ Owned(d, m) /\ InFlight(d, m) /\ m \in Nat
    BY <1>1, <1>3, Parts, ParaTyped DEF Numbered
  <2>2. OnTheWay(d, m)' => OnTheWay(d, m)
    BY <1>7, <1>9, <2>1
  <2>3. OnTheWay(d, m) => OnTheWay(d, m)' \/ conn'[d].cut
    BY <1>4, <1>8, <1>9, <2>1
  <2>4. Owned(d, m)'
    BY <1>3, <2>1, <2>2 DEF Owned, Numbered, KeyOf
  <2>5. InFlight(d, m)'
    BY <1>3, <1>4, <2>1, <2>2, <2>3 DEF InFlight, KeyOf
  <2> QED BY <2>4, <2>5
<1>14. ASSUME NEW k \in Keys PROVE Claimed(k)' /\ Refused(k)'
  <2>1. Claimed(k) /\ Refused(k) /\ registry[k] \in 0..Len(entries) /\ EntriesGrow
    BY <1>1, <1>3, Parts, SameEntries DEF Matching
  <2>2. \A d \in Conns, w \in JobWorkers : (Holds(d, w, k)' <=> Holds(d, w, k)) /\ Job(d, w)' = Job(d, w)
    BY <1>3 DEF Holds, Job, KeyOf
  <2>3. Claimed(k)'
    BY <1>3, <2>1, <2>2, ClaimedStays
  <2>4. Refused(k)'
    BY <1>1, <1>3, <1>4, <2>1, <2>2, RefusedStays
  <2> QED BY <2>3, <2>4
<1> QED BY <1>10, <1>11, <1>12, <1>13, <1>14 DEF Faithful

-----------------------------------------------------------------------------
(* The registry forgets                                                    *)

\* Some entries grow old; old ones are forgotten, and end if they were in flight.
Forgets ==
  /\ UNCHANGED <<conn, paragraphs, jobs, hands, waiting, aux, arrived, written, claims>>
  /\ entries' \in Seq(Entry) /\ Len(entries') = Len(entries) /\ registry' \in [Keys -> Nat]
  /\ \A e \in 1..Len(entries) :
       /\ entries'[e].content = entries[e].content /\ entries'[e].owner = entries[e].owner
       /\ entries[e].aged => entries'[e].aged
       /\ entries'[e].result # entries[e].result =>
            entries[e].result = Pending /\ entries'[e].result = Again /\ entries[e].aged
  /\ \A k \in Keys : registry'[k] # registry[k] =>
       registry'[k] = 0 /\ (registry[k] \in 1..Len(entries) =>
         entries[registry[k]].aged /\ entries'[registry[k]].result # Pending)

LEMMA ForgetFaithful == ASSUME Faithful, Forgets PROVE Faithful'
<1>1. /\ SocketTyped /\ Matching /\ AnswersMatch /\ Len(entries) \in Nat
      /\ \A d \in Conns : Kept(d) /\ Distinct(d) /\ Placed(d) /\ Apart(d) /\ Ended(d)
  BY Parts DEF SocketTyped
<1>2. UNCHANGED <<conn, paragraphs, jobs, hands, waiting, aux, arrived, written, claims>>
  BY DEF Forgets
<1>3. EntriesGrow
  BY <1>1 DEF EntriesGrow, Forgets
<1>4. SocketTyped'
  BY <1>1 DEF SocketTyped, Forgets
<1>5. \A d \in Conns : Distinct(d)' /\ \A m \in Nat : OnTheWay(d, m)' <=> OnTheWay(d, m)
  BY <1>1, <1>2, PlacesSame
<1>6. ASSUME NEW d \in Conns PROVE Kept(d)' /\ Placed(d)' /\ Apart(d)' /\ Ended(d)'
  <2>1. Bookkeeping /\ \A x \in Conns : aux'[x] \subseteq aux[x]
    BY <1>1, <1>2, BookkeepingCases
  <2>2. Kept(d)' /\ Apart(d)' /\ Ended(d)'
    BY <1>2, <1>5, <2>1, BookkeepingKeeps
  <2>3. Len(entries') = Len(entries)
    BY DEF Forgets
  <2>4. Placed(d)'
    BY <1>1, <1>2, <1>5, <2>3 DEF Placed, Numbered
  <2> QED BY <2>2, <2>4
<1>7. AnswersMatch'
  BY <1>1, <1>2 DEF AnswersMatch
<1>8. Matching'
  <2>1. ASSUME NEW d \in Conns, NEW x \in waiting[d]
        PROVE  entries'[x.entry].content = paragraphs[d][x.seq].content
    <3>1. x.entry \in 1..Len(entries)
      BY <1>1 DEF Placed
    <3> QED BY <1>1, <3>1 DEF Matching, Forgets
  <2>2. ASSUME NEW e \in 1..Len(entries), entries'[e].result.kind = "ok"
        PROVE  entries'[e].result.content = entries'[e].content
    <3>1. entries'[e].result = entries[e].result
      BY <2>2, Outcomes DEF Forgets
    <3> QED BY <1>1, <2>2, <3>1 DEF Matching, Forgets
  <2>3. \A k \in Keys : registry'[k] \in 0..Len(entries)
    BY <1>1 DEF Matching, Forgets
  <2>4. Len(entries') = Len(entries)
    BY DEF Forgets
  <2> QED BY <1>1, <1>2, <2>1, <2>2, <2>3, <2>4 DEF Matching
<1>9. ASSUME NEW d \in Conns, NEW m \in Numbered(d)' PROVE Owned(d, m)' /\ InFlight(d, m)'
  <2>1. m \in Numbered(d) /\ Owned(d, m) /\ InFlight(d, m) /\ m \in Nat /\ (OnTheWay(d, m)' <=> OnTheWay(d, m))
    BY <1>1, <1>2, <1>5, Parts, ParaTyped DEF Numbered
  <2> DEFINE p == paragraphs[d][m]
  <2>2. p.entry \in 0..Len(entries) /\ (p.entry # 0 => p.entry \in 1..Len(entries))
        /\ (p.id # "none" => KeyOf(p) \in Keys)
    BY <1>1, <2>1, ParaTyped DEF Owned
  <2>3. Owned(d, m)'
    <3>1. p.entry # 0 => \A k \in Keys : registry'[k] = p.entry => k = KeyOf(p)
      BY <2>1 DEF Owned, Forgets
    <3>2. p.entry # 0 => /\ p.id # "none" /\ entries'[p.entry].content = p.content
                         /\ entries'[p.entry].owner = d
      BY <2>1, <2>2 DEF Owned, Forgets
    <3>3. p.entry # 0 => \A x \in Conns : \A i \in Numbered(x) : paragraphs[x][i].entry = p.entry => x = d /\ i = m
      BY <2>1 DEF Owned
    <3>4. OnTheWay(d, m)' /\ p.id # "none" => p.entry # 0
      BY <2>1 DEF Owned
    <3>5. Len(entries') = Len(entries) /\ paragraphs' = paragraphs
      BY DEF Forgets
    <3> QED BY <2>2, <3>1, <3>2, <3>3, <3>4, <3>5 DEF Owned, Numbered, KeyOf
  <2>4. InFlight(d, m)'
    <3> SUFFICES ASSUME p.entry # 0
                 PROVE  /\ entries'[p.entry].result = Pending =>
                             registry'[KeyOf(p)] = p.entry /\ (OnTheWay(d, m)' \/ conn'[d].cut)
                        /\ OnTheWay(d, m)' /\ ~entries'[p.entry].aged =>
                             registry'[KeyOf(p)] = p.entry /\ entries'[p.entry].result = Pending
      BY <1>2 DEF InFlight, KeyOf
    <3>1. p.entry \in 1..Len(entries) /\ KeyOf(p) \in Keys
      BY <2>1, <2>2 DEF Owned
    <3>2. ASSUME entries'[p.entry].result = Pending
          PROVE  registry'[KeyOf(p)] = p.entry /\ (OnTheWay(d, m)' \/ conn'[d].cut)
      <4>1. entries[p.entry].result = Pending
        BY <3>1, <3>2, Outcomes DEF Forgets
      <4>2. registry[KeyOf(p)] = p.entry /\ (OnTheWay(d, m) \/ conn[d].cut)
        BY <2>1, <4>1 DEF InFlight
      <4> QED BY <1>2, <2>1, <3>1, <3>2, <4>2 DEF Forgets
    <3>3. ASSUME OnTheWay(d, m)', ~entries'[p.entry].aged
          PROVE  registry'[KeyOf(p)] = p.entry /\ entries'[p.entry].result = Pending
      <4>1. ~entries[p.entry].aged
        BY <3>1, <3>3 DEF Forgets
      <4>2. registry[KeyOf(p)] = p.entry /\ entries[p.entry].result = Pending
        BY <2>1, <3>3, <4>1 DEF InFlight
      <4> QED BY <3>1, <4>1, <4>2 DEF Forgets
    <3> QED BY <3>2, <3>3
  <2> QED BY <2>3, <2>4
<1>10. ASSUME NEW k \in Keys PROVE Claimed(k)' /\ Refused(k)'
  <2>1. Claimed(k) /\ Refused(k) /\ registry[k] \in 0..Len(entries)
    BY Parts DEF Matching
  <2>2. \A d \in Conns, w \in JobWorkers : (Holds(d, w, k)' <=> Holds(d, w, k)) /\ Job(d, w)' = Job(d, w)
    BY <1>2 DEF Holds, Job, KeyOf
  <2>3. Claimed(k)'
    BY <1>2, <2>1, <2>2, ClaimedStays
  <2>4. registry'[k] \in {0, registry[k]}
    BY DEF Forgets
  <2>5. registry[k] # 0 => (entries'[registry[k]].result = Failed => entries[registry[k]].result = Failed)
    <3>1. registry[k] # 0 => registry[k] \in 1..Len(entries)
      BY <1>1, <2>1
    <3> QED BY <3>1, Outcomes DEF Forgets
  <2>6. Refused(k)'
    BY <1>1, <1>2, <1>3, <2>1, <2>2, <2>4, <2>5, RefusedStays
  <2> QED BY <2>3, <2>6
<1> QED BY <1>4, <1>5, <1>6, <1>7, <1>8, <1>9, <1>10 DEF Faithful

LEMMA SweepFaithful == ASSUME Faithful, Sweep PROVE Faithful'
<1>1. SocketTyped /\ Matching /\ Len(entries) \in Nat
  BY Parts DEF SocketTyped
<1> DEFINE old == {k \in Keys : registry[k] # 0 /\ entries[registry[k]].aged}
           after(e) == IF entries[e].result = Pending /\ \E k \in old : registry[k] = e
                       THEN [entries[e] EXCEPT !.result = Again] ELSE entries[e]
<1>2. /\ UNCHANGED <<conn, paragraphs, jobs, hands, waiting, aux, arrived, written, claims>>
      /\ registry' = [k \in Keys |-> IF k \in old THEN 0 ELSE registry[k]]
      /\ entries' = [e \in 1..Len(entries) |-> after(e)]
  BY <1>1 DEF Sweep, SocketTyped
<1>3. ASSUME NEW e \in 1..Len(entries)
      PROVE  /\ after(e) \in Entry
             /\ after(e).content = entries[e].content /\ after(e).owner = entries[e].owner
             /\ after(e).aged = entries[e].aged
             /\ after(e).result # entries[e].result =>
                  entries[e].result = Pending /\ after(e).result = Again /\ \E k \in old : registry[k] = e
             /\ (\E k \in old : registry[k] = e) => after(e).result # Pending
  <2>1. entries[e] \in Entry
    BY <1>1 DEF SocketTyped
  <2> HIDE DEF old
  <2> QED BY <2>1, Outcomes DEF Entry
<1> HIDE DEF after
<1>4. entries' \in Seq(Entry) /\ Len(entries') = Len(entries) /\ \A e \in 1..Len(entries) : entries'[e] = after(e)
  BY <1>1, <1>2, <1>3
<1>5. registry' \in [Keys -> Nat]
  BY <1>1, <1>2 DEF SocketTyped
<1>6. ASSUME NEW k \in Keys, registry'[k] # registry[k]
      PROVE  registry'[k] = 0 /\ (registry[k] \in 1..Len(entries) =>
               entries[registry[k]].aged /\ entries'[registry[k]].result # Pending)
  BY <1>2, <1>3, <1>4, <1>6
<1>7. ASSUME NEW e \in 1..Len(entries), entries'[e].result # entries[e].result
      PROVE  entries[e].result = Pending /\ entries'[e].result = Again /\ entries[e].aged
  BY <1>3, <1>4, <1>7
<1>8. Forgets
  BY <1>2, <1>3, <1>4, <1>5, <1>6, <1>7 DEF Forgets
<1> QED BY <1>8, ForgetFaithful

LEMMA AgeFaithful == ASSUME Faithful, NEW k \in Keys, Age(k) PROVE Faithful'
<1>1. SocketTyped /\ Matching /\ Len(entries) \in Nat
  BY Parts DEF SocketTyped
<1>2. PICK e \in 1..Len(entries) : e = registry[k]
  BY <1>1 DEF Age, Matching
<1>3. /\ UNCHANGED <<conn, paragraphs, jobs, hands, waiting, aux, arrived, written, registry, claims>>
      /\ entries' = [entries EXCEPT ![e].aged = TRUE]
  BY <1>2 DEF Age
<1> DEFINE r == [entries[e] EXCEPT !.aged = TRUE]
<1>4. r \in Entry /\ r.content = entries[e].content /\ r.owner = entries[e].owner /\ r.aged /\ r.result = entries[e].result
  <2>1. entries[e] \in Entry
    BY <1>1 DEF SocketTyped
  <2> QED BY <2>1 DEF Entry
<1>5. entries' = [entries EXCEPT ![e] = r]
  BY <1>1, <1>3 DEF SocketTyped
<1> HIDE DEF r
<1>6. /\ entries' \in Seq(Entry) /\ Len(entries') = Len(entries) /\ entries'[e] = r
      /\ \A f \in 1..Len(entries) : f # e => entries'[f] = entries[f]
  BY <1>1, <1>4, <1>5 DEF SocketTyped
<1>7. Forgets
  BY <1>1, <1>3, <1>4, <1>6 DEF Forgets, SocketTyped
<1> QED BY <1>7, ForgetFaithful

-----------------------------------------------------------------------------
(* A paragraph is submitted                                                *)

\* It gets the next number, with the connection's session.
Appends(c, n, q) ==
  /\ n = Len(paragraphs[c]) + 1 /\ q.session = conn[c].session
  /\ paragraphs' = [paragraphs EXCEPT ![c] = Append(@, q)]
  /\ UNCHANGED <<hands, written, claims>>
  /\ \A d \in Conns : conn'[d].cut = conn[d].cut

\* It makes an entry of its own, or none; an old entry of its request ends.
Registers(c, n, q) ==
  /\ entries' \in Seq(Entry) /\ registry' \in [Keys -> Nat]
  /\ \A e \in 1..Len(entries) :
       /\ entries'[e].content = entries[e].content /\ entries'[e].owner = entries[e].owner
       /\ entries'[e].aged = entries[e].aged
       /\ entries'[e].result # entries[e].result =>
            entries[e].result = Pending /\ entries'[e].result = Again /\ entries[e].aged
  /\ \A k \in Keys : registry'[k] # registry[k] =>
       /\ k = KeyOf(q) /\ q.entry # 0 /\ registry'[k] \in {0, q.entry}
       /\ registry[k] # 0 => entries[registry[k]].aged /\ entries'[registry[k]].result # Pending
  /\ q.entry = 0 => Len(entries') = Len(entries)
  /\ q.entry # 0 =>
       /\ q.id # "none" /\ q.entry = Len(entries) + 1 /\ Len(entries') = Len(entries) + 1
       /\ entries'[q.entry].content = q.content /\ entries'[q.entry].owner = c
       /\ entries'[q.entry].result \in {Pending, Again, Failed}
       /\ entries'[q.entry].result = Failed => conn[c].cut
       /\ entries'[q.entry].result = Pending => registry'[KeyOf(q)] = q.entry

\* It is queued, or answered at once, or waits for an entry with its content.
Situates(c, n, q) ==
  /\ jobs' \in [Conns -> Seq(Nat)]
  /\ waiting' \in [Conns -> SUBSET [seq : Nat, entry : Nat]]
  /\ arrived' \in [Conns -> SUBSET [seq : Nat, result : Outcome]]
  /\ \A d \in Conns : d # c => arrived'[d] = arrived[d] /\ waiting'[d] = waiting[d]
  /\ \A r \in arrived'[c] : r \in arrived[c] \/ (r.seq = n /\ r.result \in {Again, Failed} /\ UNCHANGED jobs)
  /\ \A x \in waiting'[c] : x \in waiting[c] \/
       (x.seq = n /\ x.entry \in 1..Len(entries) /\ entries[x.entry].content = q.content /\ UNCHANGED jobs)
  /\ UNCHANGED jobs \/ Enqueues(c, n)
  /\ q.entry # 0 /\ entries'[q.entry].result = Pending => Enqueues(c, n)
  /\ Enqueues(c, n) /\ q.id # "none" => q.entry # 0 /\ entries'[q.entry].result = Pending

Joins(c, n, q) == Appends(c, n, q) /\ Registers(c, n, q) /\ Situates(c, n, q)

LEMMA Appended ==
  ASSUME SocketTyped, NEW c \in Conns, NEW n \in Nat, NEW q \in Para, Appends(c, n, q)
  PROVE  /\ paragraphs' \in [Conns -> Seq(Para)]
         /\ \A d \in Conns : d # c => paragraphs'[d] = paragraphs[d] /\ Numbered(d)' = Numbered(d)
         /\ Len(paragraphs[c]) \in Nat /\ Len(paragraphs'[c]) = Len(paragraphs[c]) + 1
         /\ paragraphs'[c][n] = q /\ \A m \in Numbered(c) : paragraphs'[c][m] = paragraphs[c][m]
         /\ Numbered(c)' = Numbered(c) \cup {n} /\ n \notin Numbered(c)
<1>1. paragraphs \in [Conns -> Seq(Para)] /\ Len(paragraphs[c]) \in Nat /\ n = Len(paragraphs[c]) + 1
  BY DEF SocketTyped, Appends
<1>2. paragraphs' = [paragraphs EXCEPT ![c] = Append(@, q)]
  BY DEF Appends
<1>3. /\ paragraphs' \in [Conns -> Seq(Para)]
      /\ \A d \in Conns : d # c => paragraphs'[d] = paragraphs[d]
      /\ Len(paragraphs'[c]) = Len(paragraphs[c]) + 1 /\ paragraphs'[c][n] = q
      /\ \A m \in 1..Len(paragraphs[c]) : paragraphs'[c][m] = paragraphs[c][m]
  BY <1>1, <1>2
<1> QED BY <1>1, <1>3 DEF Numbered

LEMMA JoinedPlaces ==
  ASSUME Faithful, NEW c \in Conns, NEW n \in Nat, NEW q \in Para, Joins(c, n, q)
  PROVE  /\ \A d \in Conns : Distinct(d)'
         /\ \A d \in Conns, m \in Nat : OnTheWay(d, m)' <=> OnTheWay(d, m) \/ (d = c /\ m = n /\ ~UNCHANGED jobs)
         /\ ~OnTheWay(c, n)
         /\ UNCHANGED jobs \/ Enqueues(c, n)
<1>1. SocketTyped /\ Placed(c) /\ n \notin Numbered(c) /\ \A d \in Conns : Distinct(d)
  BY Parts, Appended DEF Joins
<1>2. ~OnTheWay(c, n)
  BY <1>1 DEF Placed
<1>3. UNCHANGED hands
  BY DEF Joins, Appends
<1>4. CASE UNCHANGED jobs
  BY <1>1, <1>2, <1>3, <1>4, PlacesSame
<1>5. CASE Enqueues(c, n) /\ ~UNCHANGED jobs
  <2>1. \A d \in Conns : /\ Distinct(d)'
                         /\ \A m \in Nat : OnTheWay(d, m)' <=> OnTheWay(d, m) \/ (d = c /\ m = n)
    BY <1>1, <1>2, <1>3, <1>5, PlacesQueued
  <2> QED BY <1>2, <1>5, <2>1
<1> QED BY <1>4, <1>5 DEF Joins, Situates

LEMMA JoinedPlaced ==
  ASSUME Faithful, NEW c \in Conns, NEW n \in Nat, NEW q \in Para, Joins(c, n, q), NEW d \in Conns
  PROVE  Placed(d)'
<1>1. SocketTyped /\ Placed(d) /\ Kept(c) /\ Len(written[c]) \in Nat
  BY Parts DEF SocketTyped
<1>2. /\ \A x \in Conns : x # c => Numbered(x)' = Numbered(x)
      /\ Numbered(c)' = Numbered(c) \cup {n} /\ n \notin Numbered(c)
      /\ Len(paragraphs[c]) \in Nat /\ n = Len(paragraphs[c]) + 1
  BY <1>1, Appended DEF Joins, Appends
<1>3. /\ written' = written
      /\ \A x \in Conns : x # c => arrived'[x] = arrived[x] /\ waiting'[x] = waiting[x]
      /\ \A r \in arrived'[c] : r \in arrived[c] \/ (r.seq = n /\ UNCHANGED jobs)
      /\ \A x \in waiting'[c] : x \in waiting[c] \/ (x.seq = n /\ x.entry \in 1..Len(entries) /\ UNCHANGED jobs)
  BY DEF Joins, Appends, Situates
<1>4. \A m \in Nat : OnTheWay(d, m)' <=> OnTheWay(d, m) \/ (d = c /\ m = n /\ ~UNCHANGED jobs)
  BY JoinedPlaces
<1>5. Len(entries) \in Nat /\ Len(entries') \in Nat /\ 1..Len(entries) \subseteq 1..Len(entries')
  BY <1>1 DEF SocketTyped, Joins, Registers
<1>6. /\ \A m \in Nat : OnTheWay(d, m) =>
           /\ m \in Numbered(d) /\ m > Len(written[d])
           /\ \A r \in arrived[d] : r.seq # m
           /\ \A x \in waiting[d] : x.seq # m
      /\ \A r \in arrived[d] : r.seq \in Numbered(d)
      /\ \A x \in waiting[d] : x.seq \in Numbered(d) /\ x.entry \in 1..Len(entries)
  BY <1>1 DEF Placed
<1>7. CASE d # c
  BY <1>2, <1>3, <1>4, <1>5, <1>6, <1>7 DEF Placed
<1>8. CASE d = c
  <2>1. \A r \in arrived'[c] : r.seq \in Numbered(c)'
    BY <1>2, <1>3, <1>6, <1>8
  <2>2. \A x \in waiting'[c] : x.seq \in Numbered(c)' /\ x.entry \in 1..Len(entries')
    BY <1>2, <1>3, <1>5, <1>6, <1>8
  <2>3. ASSUME NEW m \in Nat, OnTheWay(c, m)'
        PROVE  /\ m \in Numbered(c)' /\ m > Len(written[c])
               /\ \A r \in arrived'[c] : r.seq # m
               /\ \A x \in waiting'[c] : x.seq # m
    <3>1. CASE OnTheWay(c, m)
      BY <1>2, <1>3, <1>6, <1>8, <3>1
    <3>2. CASE m = n /\ ~UNCHANGED jobs
      <4>1. n > Len(written[c])
        BY <1>1, <1>2 DEF Kept
      <4> QED BY <1>2, <1>3, <1>6, <1>8, <3>2, <4>1
    <3> QED BY <1>4, <1>8, <2>3, <3>1, <3>2
  <2> QED BY <1>3, <1>8, <2>1, <2>2, <2>3 DEF Placed
<1> QED BY <1>7, <1>8

LEMMA JoinedMatching ==
  ASSUME Faithful, NEW c \in Conns, NEW n \in Nat, NEW q \in Para, Joins(c, n, q)
  PROVE  Matching' /\ AnswersMatch'
<1>1. /\ SocketTyped /\ Matching /\ AnswersMatch /\ Len(entries) \in Nat
      /\ \A d \in Conns : Placed(d) /\ Kept(d) /\ Len(written[d]) \in Nat /\ Len(paragraphs[d]) \in Nat
  BY Parts DEF SocketTyped
<1>2. /\ \A d \in Conns : \A m \in Numbered(d) : paragraphs'[d][m] = paragraphs[d][m]
      /\ paragraphs'[c][n] = q
  BY <1>1, Appended DEF Joins, Numbered
<1>3. /\ written' = written /\ claims' = claims
      /\ \A d \in Conns : d # c => arrived'[d] = arrived[d] /\ waiting'[d] = waiting[d]
      /\ \A r \in arrived'[c] : r \in arrived[c] \/ (r.seq = n /\ r.result \in {Again, Failed})
      /\ \A x \in waiting'[c] : x \in waiting[c] \/
           (x.seq = n /\ x.entry \in 1..Len(entries) /\ entries[x.entry].content = q.content)
  BY DEF Joins, Appends, Situates
<1>4. ASSUME NEW d \in Conns, NEW r \in arrived'[d], r.result.kind = "ok"
      PROVE  r.result.content = paragraphs'[d][r.seq].content
  <2>1. r \in arrived[d]
    BY <1>3, <1>4, Outcomes
  <2>2. r.seq \in Numbered(d)
    BY <1>1, <2>1 DEF Placed
  <2> QED BY <1>1, <1>2, <1>4, <2>1, <2>2 DEF Matching
<1>5. ASSUME NEW d \in Conns, NEW x \in waiting'[d]
      PROVE  entries'[x.entry].content = paragraphs'[d][x.seq].content
  <2>1. CASE x \in waiting[d]
    <3>1. x.seq \in Numbered(d) /\ x.entry \in 1..Len(entries)
      BY <1>1, <2>1 DEF Placed
    <3>2. entries[x.entry].content = paragraphs[d][x.seq].content
      BY <1>1, <2>1 DEF Matching
    <3>3. entries'[x.entry].content = entries[x.entry].content
      BY <3>1 DEF Joins, Registers
    <3> QED BY <1>2, <3>1, <3>2, <3>3
  <2>2. CASE d = c /\ x.seq = n /\ x.entry \in 1..Len(entries) /\ entries[x.entry].content = q.content
    BY <1>2, <2>2 DEF Joins, Registers
  <2> QED BY <1>3, <2>1, <2>2
<1>6. ASSUME NEW e \in 1..Len(entries'), entries'[e].result.kind = "ok"
      PROVE  entries'[e].result.content = entries'[e].content
  <2>1. CASE e \in 1..Len(entries)
    <3>1. entries'[e].result = entries[e].result
      BY <1>6, <2>1, Outcomes DEF Joins, Registers
    <3> QED BY <1>1, <1>6, <2>1, <3>1 DEF Matching, Joins, Registers
  <2>2. CASE e \notin 1..Len(entries)
    <3>1. q.entry # 0 /\ e = q.entry
      BY <1>1, <2>2 DEF Joins, Registers
    <3> QED BY <1>6, <3>1, Outcomes DEF Joins, Registers
  <2> QED BY <2>1, <2>2
<1>7. \A k \in Keys : registry'[k] \in 0..Len(entries')
  <2> SUFFICES ASSUME NEW k \in Keys PROVE registry'[k] \in 0..Len(entries')
    OBVIOUS
  <2>1. CASE registry'[k] = registry[k]
    BY <1>1, <2>1 DEF Matching, Joins, Registers
  <2>2. CASE registry'[k] # registry[k]
    BY <1>1, <2>2 DEF Joins, Registers
  <2> QED BY <2>1, <2>2
<1>8. Matching'
  BY <1>1, <1>3, <1>4, <1>5, <1>6, <1>7 DEF Matching
<1>9. AnswersMatch'
  <2>1. \A d \in Conns : 1..Len(written[d]) \subseteq Numbered(d)
    <3> SUFFICES ASSUME NEW d \in Conns PROVE 1..Len(written[d]) \subseteq Numbered(d)
      OBVIOUS
    <3>1. Len(written[d]) <= Len(paragraphs[d])
      BY <1>1 DEF Kept
    <3> QED BY <1>1, <3>1 DEF Numbered
  <2> QED BY <1>1, <1>2, <1>3, <2>1 DEF AnswersMatch
<1> QED BY <1>8, <1>9

LEMMA JoinedOwned ==
  ASSUME Faithful, NEW c \in Conns, NEW n \in Nat, NEW q \in Para, Joins(c, n, q),
         NEW d \in Conns, NEW m \in Numbered(d)'
  PROVE  Owned(d, m)' /\ InFlight(d, m)'
<1>1. SocketTyped /\ Matching /\ Len(entries) \in Nat
  BY Parts DEF SocketTyped
<1>2. /\ \A x \in Conns : \A i \in Numbered(x) : paragraphs'[x][i] = paragraphs[x][i]
      /\ \A x \in Conns : \A i \in Numbered(x)' : i \in Numbered(x) \/ (x = c /\ i = n)
      /\ paragraphs'[c][n] = q /\ n \notin Numbered(c)
  <2>1. /\ \A x \in Conns : x # c => paragraphs'[x] = paragraphs[x] /\ Numbered(x)' = Numbered(x)
        /\ paragraphs'[c][n] = q /\ \A i \in Numbered(c) : paragraphs'[c][i] = paragraphs[c][i]
        /\ Numbered(c)' = Numbered(c) \cup {n} /\ n \notin Numbered(c)
    BY <1>1, Appended DEF Joins
  <2> QED BY <2>1
<1>3. /\ \A x \in Conns, i \in Nat : OnTheWay(x, i)' <=> OnTheWay(x, i) \/ (x = c /\ i = n /\ ~UNCHANGED jobs)
      /\ ~OnTheWay(c, n) /\ (UNCHANGED jobs \/ Enqueues(c, n))
  BY JoinedPlaces
<1>4. \A x \in Conns : conn'[x].cut = conn[x].cut
  BY DEF Joins, Appends
<1>5. \A x \in Conns : \A i \in Numbered(x) :
        paragraphs[x][i].entry \in 0..Len(entries) /\ paragraphs[x][i].entry \in Nat
  BY <1>1, Parts DEF Owned
<1>6. /\ \A e \in 1..Len(entries) :
           /\ entries'[e].content = entries[e].content /\ entries'[e].owner = entries[e].owner
           /\ entries'[e].aged = entries[e].aged
           /\ entries'[e].result # entries[e].result =>
                entries[e].result = Pending /\ entries'[e].result = Again /\ entries[e].aged
      /\ \A k \in Keys : registry'[k] # registry[k] =>
           /\ k = KeyOf(q) /\ q.entry # 0 /\ registry'[k] \in {0, q.entry}
           /\ registry[k] # 0 => entries[registry[k]].aged /\ entries'[registry[k]].result # Pending
      /\ q.entry # 0 => q.entry = Len(entries) + 1
      /\ Len(entries') = IF q.entry = 0 THEN Len(entries) ELSE Len(entries) + 1
  BY DEF Joins, Registers
<1>7. CASE m \in Numbered(d)
  <2> DEFINE p == paragraphs[d][m]
  <2>1. /\ Owned(d, m) /\ InFlight(d, m) /\ m \in Nat /\ p \in Para /\ (p.id # "none" => KeyOf(p) \in Keys)
        /\ ~(d = c /\ m = n)
    BY <1>1, <1>2, <1>7, Parts, ParaTyped
  <2>2. /\ p.entry \in 0..Len(entries) /\ (p.entry # 0 => p.entry \in 1..Len(entries))
        /\ p.entry \in 0..Len(entries')
        /\ paragraphs'[d][m] = p /\ (OnTheWay(d, m)' <=> OnTheWay(d, m))
    BY <1>1, <1>2, <1>3, <1>5, <1>6, <1>7, <2>1
  <2>3. Owned(d, m)'
    <3>1. p.entry # 0 => \A k \in Keys : registry'[k] = p.entry => k = KeyOf(p)
      <4> SUFFICES ASSUME p.entry # 0, NEW k \in Keys, registry'[k] = p.entry PROVE k = KeyOf(p)
        OBVIOUS
      <4>1. registry'[k] = registry[k]
        BY <1>1, <1>6, <2>2
      <4> QED BY <2>1, <4>1 DEF Owned
    <3>2. p.entry # 0 => /\ p.id # "none" /\ entries'[p.entry].content = p.content
                         /\ entries'[p.entry].owner = d
      BY <1>6, <2>1, <2>2 DEF Owned
    <3>3. p.entry # 0 => \A x \in Conns : \A i \in Numbered(x)' : paragraphs'[x][i].entry = p.entry => x = d /\ i = m
      <4> SUFFICES ASSUME p.entry # 0, NEW x \in Conns, NEW i \in Numbered(x)', paragraphs'[x][i].entry = p.entry
                   PROVE  x = d /\ i = m
        OBVIOUS
      <4>1. i \in Numbered(x) /\ paragraphs[x][i].entry = p.entry
        BY <1>1, <1>2, <1>6, <2>2
      <4> QED BY <2>1, <4>1 DEF Owned
    <3>4. OnTheWay(d, m)' /\ p.id # "none" => p.entry # 0
      BY <2>1, <2>2 DEF Owned
    <3> HIDE DEF p
    <3> QED BY <2>2, <3>1, <3>2, <3>3, <3>4 DEF Owned, KeyOf
  <2>4. InFlight(d, m)'
    <3> SUFFICES ASSUME p.entry # 0
                 PROVE  /\ entries'[p.entry].result = Pending =>
                             registry'[KeyOf(p)] = p.entry /\ (OnTheWay(d, m)' \/ conn'[d].cut)
                        /\ OnTheWay(d, m)' /\ ~entries'[p.entry].aged =>
                             registry'[KeyOf(p)] = p.entry /\ entries'[p.entry].result = Pending
      BY <2>2 DEF InFlight, KeyOf
    <3>1. p.entry \in 1..Len(entries) /\ KeyOf(p) \in Keys
      BY <2>1, <2>2 DEF Owned
    <3>2. ASSUME entries'[p.entry].result = Pending
          PROVE  registry'[KeyOf(p)] = p.entry /\ (OnTheWay(d, m)' \/ conn'[d].cut)
      <4>1. entries[p.entry].result = Pending
        BY <1>6, <3>1, <3>2, Outcomes
      <4>2. registry[KeyOf(p)] = p.entry /\ (OnTheWay(d, m) \/ conn[d].cut)
        BY <2>1, <4>1 DEF InFlight
      <4>3. registry'[KeyOf(p)] = registry[KeyOf(p)]
        BY <1>6, <3>1, <3>2, <4>2
      <4> QED BY <1>4, <2>2, <4>2, <4>3
    <3>3. ASSUME OnTheWay(d, m)', ~entries'[p.entry].aged
          PROVE  registry'[KeyOf(p)] = p.entry /\ entries'[p.entry].result = Pending
      <4>1. ~entries[p.entry].aged
        BY <1>6, <3>1, <3>3
      <4>2. registry[KeyOf(p)] = p.entry /\ entries[p.entry].result = Pending
        BY <2>1, <2>2, <3>3, <4>1 DEF InFlight
      <4>3. registry'[KeyOf(p)] = registry[KeyOf(p)]
        BY <1>6, <3>1, <4>1, <4>2
      <4> QED BY <1>6, <3>1, <4>1, <4>2, <4>3
    <3> QED BY <3>2, <3>3
  <2> QED BY <2>3, <2>4
<1>8. CASE m \notin Numbered(d)
  <2>1. d = c /\ m = n /\ paragraphs'[d][m] = q
    BY <1>2, <1>8
  <2>2. OnTheWay(c, n)' => Enqueues(c, n)
    BY <1>3
  <2>3. OnTheWay(c, n)' /\ q.id # "none" => q.entry # 0 /\ entries'[q.entry].result = Pending
    BY <2>2 DEF Joins, Situates
  <2>4. q.entry # 0 =>
          /\ q.id # "none" /\ entries'[q.entry].content = q.content /\ entries'[q.entry].owner = c
          /\ entries'[q.entry].result = Pending => registry'[KeyOf(q)] = q.entry
    BY DEF Joins, Registers
  <2>5. q.entry # 0 /\ entries'[q.entry].result = Pending => OnTheWay(c, n)'
    <3> SUFFICES ASSUME q.entry # 0, entries'[q.entry].result = Pending PROVE OnTheWay(c, n)'
      OBVIOUS
    <3>1. Enqueues(c, n)
      BY DEF Joins, Situates
    <3>2. jobs'[c] = Append(jobs[c], n) /\ jobs[c] \in Seq(Nat)
      BY <1>1, <3>1 DEF SocketTyped, Enqueues
    <3>3. Len(jobs'[c]) \in 1..Len(jobs'[c]) /\ jobs'[c][Len(jobs'[c])] = n
      BY <3>2
    <3> QED BY <3>3 DEF OnTheWay, Queued
  <2>6. Owned(c, n)'
    <3>1. q.entry \in 0..Len(entries')
      BY <1>1, <1>6
    <3>2. q.entry # 0 => \A k \in Keys : registry'[k] = q.entry => k = KeyOf(q)
      <4> SUFFICES ASSUME q.entry # 0, NEW k \in Keys, registry'[k] = q.entry PROVE k = KeyOf(q)
        OBVIOUS
      <4>1. registry[k] # q.entry
        BY <1>1, <1>6 DEF Matching
      <4> QED BY <1>6, <4>1
    <3>3. q.entry # 0 => \A x \in Conns : \A i \in Numbered(x)' : paragraphs'[x][i].entry = q.entry => x = c /\ i = n
      <4> SUFFICES ASSUME q.entry # 0, NEW x \in Conns, NEW i \in Numbered(x)', paragraphs'[x][i].entry = q.entry
                   PROVE  x = c /\ i = n
        OBVIOUS
      <4>1. CASE i \in Numbered(x)
        BY <1>1, <1>2, <1>5, <1>6, <4>1
      <4> QED BY <1>2, <4>1
    <3> QED BY <2>1, <2>3, <2>4, <3>1, <3>2, <3>3 DEF Owned, KeyOf
  <2>7. InFlight(c, n)'
    <3>1. q.entry # 0 => q.id # "none"
      BY <2>4
    <3> QED BY <2>1, <2>3, <2>4, <2>5, <3>1 DEF InFlight, KeyOf
  <2> QED BY <2>1, <2>6, <2>7
<1> QED BY <1>7, <1>8

LEMMA JoinedClaims ==
  ASSUME Faithful, NEW c \in Conns, NEW n \in Nat, NEW q \in Para, Joins(c, n, q), NEW k \in Keys
  PROVE  Claimed(k)' /\ Refused(k)'
<1>1. SocketTyped /\ Matching /\ Len(entries) \in Nat /\ Claimed(k) /\ Refused(k) /\ registry[k] \in 0..Len(entries)
  BY Parts DEF SocketTyped, Matching
<1>2. \A d \in Conns : \A m \in Numbered(d) : paragraphs'[d][m] = paragraphs[d][m]
  BY <1>1, Appended DEF Joins
<1>3. UNCHANGED <<hands, claims>> /\ \A d \in Conns : conn'[d].cut = conn[d].cut
  BY DEF Joins, Appends
<1>4. \A d \in Conns, w \in JobWorkers : Holds(d, w, k)' => Holds(d, w, k) /\ Job(d, w)' = Job(d, w)
  <2> SUFFICES ASSUME NEW d \in Conns, NEW w \in JobWorkers, Holds(d, w, k)'
               PROVE  Holds(d, w, k) /\ Job(d, w)' = Job(d, w)
    OBVIOUS
  <2> QED BY <1>1, <1>2, <1>3, HoldsStays, Parts
<1>5. Claimed(k)'
  BY <1>1, <1>3, <1>4, ClaimedStays
<1>6. EntriesGrow
  BY <1>1 DEF Joins, Registers, EntriesGrow
<1>7. CASE registry'[k] \in {0, registry[k]}
  <2>1. registry[k] # 0 => (entries'[registry[k]].result = Failed => entries[registry[k]].result = Failed)
    <3>1. registry[k] # 0 => registry[k] \in 1..Len(entries)
      BY <1>1
    <3> QED BY <3>1, Outcomes DEF Joins, Registers
  <2>2. \A d \in Conns, w \in JobWorkers : Holds(d, w, k)' => Holds(d, w, k) /\ Job(d, w)'.content = Job(d, w).content
    BY <1>4
  <2>3. Refused(k)'
    BY <1>1, <1>3, <1>6, <1>7, <2>1, <2>2, RefusedStays
  <2> QED BY <1>5, <2>3
<1>8. CASE registry'[k] \notin {0, registry[k]}
  <2>1. q.entry # 0 /\ registry'[k] = q.entry
    BY <1>8 DEF Joins, Registers
  <2>2. entries'[q.entry].result = Failed => conn'[entries'[q.entry].owner].cut
    BY <1>3, <2>1 DEF Joins, Registers
  <2>3. Refused(k)'
    BY <2>1, <2>2 DEF Refused
  <2> QED BY <1>5, <2>3
<1> QED BY <1>7, <1>8

\* The entry that a submitted paragraph makes.
Row(c, p, result) == [content |-> p.content, owner |-> c, aged |-> FALSE, result |-> result]

\* What Enqueue may do with a paragraph that has an id.
QueuesIt(c, n, q, made) == LET grown(result) == Append(made, Row(c, q, result)) IN
  \/ Enqueues(c, n) /\ entries' = grown(Pending) /\ registry' = [registry EXCEPT ![KeyOf(q)] = q.entry] /\ UNCHANGED arrived
  \/ entries' = grown(Again) /\ registry' = [registry EXCEPT ![KeyOf(q)] = 0] /\ Send(c, n, Again) /\ UNCHANGED jobs
  \/ conn[c].cut /\ entries' = grown(Failed) /\ registry' = [registry EXCEPT ![KeyOf(q)] = q.entry] /\ UNCHANGED <<jobs, arrived>>

LEMMA NotQueued == ASSUME SocketTyped, NEW c \in Conns, NEW n \in Nat, UNCHANGED jobs PROVE ~Enqueues(c, n)
<1>1. jobs[c] \in Seq(Nat) /\ jobs \in [Conns -> Seq(Nat)]
  BY DEF SocketTyped
<1>2. ASSUME Enqueues(c, n) PROVE FALSE
  <2>1. jobs[c] = Append(jobs[c], n)
    BY <1>1, <1>2 DEF Enqueues
  <2>2. Len(Append(jobs[c], n)) = Len(jobs[c]) + 1 /\ Len(jobs[c]) \in Nat
    BY <1>1
  <2> QED BY <2>1, <2>2
<1> QED BY <1>2

\* The registry as it is when the paragraph is enqueued: an old entry in its
\* place has ended.
Ready(p, made) ==
  /\ made \in Seq(Entry) /\ Len(made) = Len(entries)
  /\ \A e \in 1..Len(entries) :
       /\ made[e].content = entries[e].content /\ made[e].owner = entries[e].owner
       /\ made[e].aged = entries[e].aged
       /\ made[e].result # entries[e].result =>
            entries[e].result = Pending /\ made[e].result = Again /\ entries[e].aged
  /\ p.id # "none" /\ registry[KeyOf(p)] # 0 =>
       entries[registry[KeyOf(p)]].aged /\ made[registry[KeyOf(p)]].result # Pending

LEMMA RegistersIt ==
  ASSUME SocketTyped, Matching, NEW c \in Conns, NEW n \in Nat, NEW q \in Para, q.id # "none",
         q.entry = Len(entries) + 1, NEW made, Ready(q, made),
         NEW result \in {Pending, Again, Failed}, result = Failed => conn[c].cut,
         entries' = Append(made, Row(c, q, result)),
         NEW v \in {0, q.entry}, result = Pending => v = q.entry,
         registry' = [registry EXCEPT ![KeyOf(q)] = v]
  PROVE  Registers(c, n, q)
<1>1. Row(c, q, result) \in Entry /\ q.content \in Contents /\ KeyOf(q) \in Keys
  <2>1. result \in Outcome
    BY Outcomes
  <2> QED BY <2>1 DEF Row, Entry, Para, KeyOf, Keys
<1>2. made \in Seq(Entry) /\ Len(made) = Len(entries) /\ Len(entries) \in Nat
  BY DEF Ready, SocketTyped
<1>3. /\ Row(c, q, result).content = q.content /\ Row(c, q, result).owner = c
      /\ Row(c, q, result).result = result
  BY DEF Row
<1> DEFINE newest == Row(c, q, result)
           last == Len(entries)
<1> HIDE DEF newest
<1>4. /\ entries' \in Seq(Entry) /\ Len(entries') = last + 1 /\ entries'[last + 1] = newest
      /\ \A e \in 1..last : entries'[e] = made[e]
  <2>1. newest \in Entry /\ entries' = Append(made, newest)
    BY <1>1 DEF newest
  <2> QED BY <1>2, <2>1
<1>5. newest.content = q.content /\ newest.owner = c /\ newest.result = result
  BY <1>3 DEF newest
<1>6. registry' \in [Keys -> Nat] /\ registry'[KeyOf(q)] = v /\ \A k \in Keys : k # KeyOf(q) => registry'[k] = registry[k]
  <2>1. v \in Nat
    BY <1>2
  <2> QED BY <1>1, <2>1 DEF SocketTyped
<1>7. \A k \in Keys : registry[k] \in 0..last
  BY DEF Matching
<1>8. \A e \in 1..last :
       /\ entries'[e].content = entries[e].content /\ entries'[e].owner = entries[e].owner
       /\ entries'[e].aged = entries[e].aged
       /\ entries'[e].result # entries[e].result =>
            entries[e].result = Pending /\ entries'[e].result = Again /\ entries[e].aged
  BY <1>4 DEF Ready
<1>9. ASSUME NEW k \in Keys, registry'[k] # registry[k]
      PROVE  /\ k = KeyOf(q) /\ q.entry # 0 /\ registry'[k] \in {0, q.entry}
             /\ registry[k] # 0 => entries[registry[k]].aged /\ entries'[registry[k]].result # Pending
  <2>1. k = KeyOf(q) /\ registry'[k] = v /\ q.entry # 0
    BY <1>2, <1>6, <1>9
  <2>2. registry[k] # 0 => registry[k] \in 1..last
    BY <1>2, <1>7
  <2> QED BY <1>4, <2>1, <2>2 DEF Ready
<1>10. q.entry # 0 /\ q.entry = last + 1
  BY <1>2
<1>11. /\ q.id # "none" /\ Len(entries') = Len(entries) + 1
       /\ entries'[q.entry].content = q.content /\ entries'[q.entry].owner = c
       /\ entries'[q.entry].result \in {Pending, Again, Failed}
       /\ entries'[q.entry].result = Failed => conn[c].cut
       /\ entries'[q.entry].result = Pending => registry'[KeyOf(q)] = q.entry
  BY <1>4, <1>5, <1>6, <1>10
<1> QED BY <1>4, <1>6, <1>8, <1>9, <1>10, <1>11 DEF Registers

LEMMA QueuedJoins ==
  ASSUME Faithful, NEW c \in Conns, NEW n \in Nat, NEW q \in Para, q.id # "none",
         q.entry = Len(entries) + 1, NEW made, Ready(q, made), Appends(c, n, q),
         QueuesIt(c, n, q, made), UNCHANGED waiting
  PROVE  Joins(c, n, q)
<1>1. SocketTyped /\ Matching /\ Len(entries) \in Nat /\ q.entry # 0
  BY Parts DEF SocketTyped
<1>2. /\ waiting' \in [Conns -> SUBSET [seq : Nat, entry : Nat]]
      /\ \A d \in Conns : waiting'[d] = waiting[d]
  BY <1>1 DEF SocketTyped
<1>3. \A result \in Outcome : entries' = Append(made, Row(c, q, result)) => entries'[q.entry].result = result
  <2> SUFFICES ASSUME NEW result \in Outcome, entries' = Append(made, Row(c, q, result))
               PROVE  entries'[q.entry].result = result
    OBVIOUS
  <2>1. made \in Seq(Entry) /\ Len(made) = Len(entries)
    BY DEF Ready
  <2>2. PICK r : r = Row(c, q, result)
    OBVIOUS
  <2>3. r.result = result
    BY <2>2 DEF Row
  <2>4. entries'[Len(entries) + 1] = r
    BY <1>1, <2>1, <2>2
  <2> QED BY <2>3, <2>4
<1>4. CASE /\ Enqueues(c, n) /\ entries' = Append(made, Row(c, q, Pending))
           /\ registry' = [registry EXCEPT ![KeyOf(q)] = q.entry] /\ UNCHANGED arrived
  <2>1. Registers(c, n, q)
    BY <1>1, <1>4, RegistersIt, Outcomes
  <2>2. jobs' \in [Conns -> Seq(Nat)] /\ arrived' \in [Conns -> SUBSET [seq : Nat, result : Outcome]]
    BY <1>1, <1>4 DEF SocketTyped, Enqueues
  <2>3. Situates(c, n, q)
    <3>1. entries'[q.entry].result = Pending
      BY <1>3, <1>4, Outcomes
    <3> QED BY <1>1, <1>2, <1>4, <2>2, <3>1 DEF Situates
  <2> QED BY <2>1, <2>3 DEF Joins
<1>5. CASE /\ entries' = Append(made, Row(c, q, Again))
           /\ registry' = [registry EXCEPT ![KeyOf(q)] = 0] /\ Send(c, n, Again) /\ UNCHANGED jobs
  <2>1. Registers(c, n, q)
    BY <1>1, <1>5, RegistersIt, Outcomes
  <2>2. /\ arrived' \in [Conns -> SUBSET [seq : Nat, result : Outcome]]
        /\ \A d \in Conns : d # c => arrived'[d] = arrived[d]
        /\ \A r \in arrived'[c] : r \in arrived[c] \/ r = [seq |-> n, result |-> Again]
    BY <1>1, <1>5, SendTyped, Outcomes
  <2>3. ~Enqueues(c, n) /\ jobs' \in [Conns -> Seq(Nat)]
    BY <1>1, <1>5, NotQueued DEF SocketTyped
  <2>4. entries'[q.entry].result # Pending
    BY <1>3, <1>5, Outcomes
  <2>5. Situates(c, n, q)
    <3>1. \A r \in arrived'[c] : r \in arrived[c] \/ (r.seq = n /\ r.result \in {Again, Failed} /\ UNCHANGED jobs)
      BY <1>5, <2>2
    <3> QED BY <1>1, <1>2, <1>5, <2>2, <2>3, <2>4, <3>1 DEF Situates
  <2> QED BY <2>1, <2>5 DEF Joins
<1>6. CASE /\ conn[c].cut /\ entries' = Append(made, Row(c, q, Failed))
           /\ registry' = [registry EXCEPT ![KeyOf(q)] = q.entry] /\ UNCHANGED <<jobs, arrived>>
  <2>1. Registers(c, n, q)
    BY <1>1, <1>6, RegistersIt, Outcomes
  <2>2. /\ arrived' \in [Conns -> SUBSET [seq : Nat, result : Outcome]]
        /\ \A d \in Conns : arrived'[d] = arrived[d]
    BY <1>1, <1>6 DEF SocketTyped
  <2>3. ~Enqueues(c, n) /\ jobs' \in [Conns -> Seq(Nat)]
    BY <1>1, <1>6, NotQueued DEF SocketTyped
  <2>4. entries'[q.entry].result # Pending
    BY <1>3, <1>6, Outcomes
  <2>5. Situates(c, n, q)
    BY <1>1, <1>2, <1>6, <2>2, <2>3, <2>4 DEF Situates
  <2> QED BY <2>1, <2>5 DEF Joins
<1> QED BY <1>4, <1>5, <1>6 DEF QueuesIt

\* A paragraph that makes no entry.
LEMMA PlainJoins ==
  ASSUME Faithful, NEW c \in Conns, NEW n \in Nat, NEW q \in Para, q.entry = 0, Appends(c, n, q),
         UNCHANGED <<registry, entries>>,
         \/ q.id = "none" /\ Enqueues(c, n) /\ UNCHANGED <<arrived, waiting>>
         \/ Send(c, n, Again) /\ UNCHANGED <<jobs, waiting>>
         \/ Send(c, n, Failed) /\ UNCHANGED <<jobs, waiting>>
         \/ UNCHANGED <<jobs, arrived, waiting>>
         \/ \E e \in 1..Len(entries) : /\ entries[e].content = q.content /\ UNCHANGED <<jobs, arrived>>
              /\ waiting' = [waiting EXCEPT ![c] = @ \union {[seq |-> n, entry |-> e]}]
  PROVE  Joins(c, n, q)
<1>1. SocketTyped /\ Len(entries) \in Nat
  BY Parts DEF SocketTyped
<1>2. Registers(c, n, q)
  BY <1>1 DEF Registers, SocketTyped
<1>3. Situates(c, n, q)
  <2>1. CASE q.id = "none" /\ Enqueues(c, n) /\ UNCHANGED <<arrived, waiting>>
    <3>1. jobs' \in [Conns -> Seq(Nat)]
      BY <1>1, <2>1 DEF SocketTyped, Enqueues
    <3> QED BY <1>1, <2>1, <3>1 DEF Situates, SocketTyped
  <2>2. ASSUME NEW result \in {Again, Failed}, Send(c, n, result), UNCHANGED <<jobs, waiting>>
        PROVE  Situates(c, n, q)
    <3>1. /\ arrived' \in [Conns -> SUBSET [seq : Nat, result : Outcome]]
          /\ \A d \in Conns : d # c => arrived'[d] = arrived[d]
          /\ \A r \in arrived'[c] : r \in arrived[c] \/ r = [seq |-> n, result |-> result]
      BY <1>1, <2>2, SendTyped, Outcomes
    <3>2. ~Enqueues(c, n)
      BY <1>1, <2>2, NotQueued
    <3> QED BY <1>1, <2>2, <3>1, <3>2 DEF Situates, SocketTyped
  <2>3. CASE UNCHANGED <<jobs, arrived, waiting>>
    <3>1. ~Enqueues(c, n)
      BY <1>1, <2>3, NotQueued
    <3> QED BY <1>1, <2>3, <3>1 DEF Situates, SocketTyped
  <2>4. ASSUME NEW e \in 1..Len(entries), entries[e].content = q.content, UNCHANGED <<jobs, arrived>>,
               waiting' = [waiting EXCEPT ![c] = @ \union {[seq |-> n, entry |-> e]}]
        PROVE  Situates(c, n, q)
    <3>1. /\ waiting' \in [Conns -> SUBSET [seq : Nat, entry : Nat]]
          /\ \A d \in Conns : d # c => waiting'[d] = waiting[d]
          /\ \A x \in waiting'[c] : x \in waiting[c] \/ x = [seq |-> n, entry |-> e]
      BY <1>1, <2>4 DEF SocketTyped
    <3>2. ~Enqueues(c, n)
      BY <1>1, <2>4, NotQueued
    <3> QED BY <1>1, <2>4, <3>1, <3>2 DEF Situates, SocketTyped
  <2> QED BY <2>1, <2>2, <2>3, <2>4
<1> QED BY <1>2, <1>3 DEF Joins

LEMMA EnqueueJoins ==
  ASSUME Faithful, NEW c \in Conns, NEW p \in Para, p.entry = 0, p.session = conn[c].session,
         NEW made, Ready(p, made), p.id = "none" => made = entries, Enqueue(c, p, registry, made),
         UNCHANGED <<hands, written, claims>>, \A d \in Conns : conn'[d].cut = conn[d].cut
  PROVE  \E n \in Nat, q \in Para : Joins(c, n, q) /\ q.units = p.units
<1>1. SocketTyped /\ Len(paragraphs[c]) + 1 \in Nat /\ Len(made) = Len(entries) /\ Len(entries) \in Nat
  BY Parts DEF SocketTyped, Ready
<1>2. PICK n \in Nat : n = Len(paragraphs[c]) + 1
  BY <1>1
<1>3. CASE p.id = "none"
  <2>1. Appends(c, n, p)
    BY <1>2, <1>3 DEF Appends, Enqueue
  <2>2. UNCHANGED <<registry, entries>>
    BY <1>3 DEF Enqueue
  <2>3. \/ Enqueues(c, n) /\ UNCHANGED <<arrived, waiting>>
        \/ Send(c, n, Again) /\ UNCHANGED <<jobs, waiting>>
        \/ UNCHANGED <<jobs, arrived, waiting>>
    BY <1>2 DEF Enqueue, Enqueues
  <2>4. Joins(c, n, p)
    BY <1>3, <2>1, <2>2, <2>3, PlainJoins
  <2> QED BY <2>4
<1>4. CASE p.id # "none"
  <2> DEFINE q == [p EXCEPT !.entry = Len(entries) + 1]
  <2>1. /\ q \in Para /\ q.entry = Len(entries) + 1 /\ q.id # "none" /\ KeyOf(q) = KeyOf(p)
        /\ q.units = p.units /\ q.session = conn[c].session /\ q.content = p.content
    BY <1>1, <1>4 DEF Para, KeyOf
  <2>2. paragraphs' = [paragraphs EXCEPT ![c] = Append(@, q)] /\ UNCHANGED waiting
    BY <1>1, <1>4 DEF Enqueue
  <2>3. \A result : Row(c, q, result) = [content |-> p.content, owner |-> c, aged |-> FALSE, result |-> result]
    BY <2>1 DEF Row
  <2>4. \/ /\ jobs' = [jobs EXCEPT ![c] = Append(@, n)] /\ entries' = Append(made, Row(c, q, Pending))
           /\ registry' = [registry EXCEPT ![KeyOf(p)] = Len(entries) + 1] /\ UNCHANGED arrived
        \/ /\ entries' = Append(made, Row(c, q, Again)) /\ registry' = [registry EXCEPT ![KeyOf(p)] = 0]
           /\ Send(c, n, Again) /\ UNCHANGED jobs
        \/ /\ conn[c].cut /\ entries' = Append(made, Row(c, q, Failed))
           /\ registry' = [registry EXCEPT ![KeyOf(p)] = Len(entries) + 1] /\ UNCHANGED <<jobs, arrived>>
    BY <1>1, <1>2, <1>4, <2>3 DEF Enqueue
  <2> HIDE DEF q
  <2>5. Appends(c, n, q)
    BY <1>2, <2>1, <2>2 DEF Appends
  <2>6. QueuesIt(c, n, q, made)
    BY <2>1, <2>4 DEF QueuesIt, Enqueues
  <2>7. Ready(q, made)
    BY <1>4, <2>1 DEF Ready
  <2>8. Joins(c, n, q)
    BY <2>1, <2>2, <2>5, <2>6, <2>7, QueuedJoins
  <2> QED BY <2>1, <2>8
<1> QED BY <1>3, <1>4

LEMMA SubmitJoins ==
  ASSUME Faithful, NEW c \in Conns, NEW units \in SUBSET Nat, NEW id \in Requests \cup {"none"},
         NEW content \in Contents, Submit(c, units, id, content),
         UNCHANGED <<hands, written, claims>>, \A d \in Conns : conn'[d].cut = conn[d].cut
  PROVE  \E n \in Nat, q \in Para : Joins(c, n, q) /\ q.units = units
<1> DEFINE p == [units |-> units, id |-> id, content |-> content, session |-> conn[c].session, entry |-> 0]
           e == IF id = "none" THEN 0 ELSE registry[KeyOf(p)]
<1>1. SocketTyped /\ Matching /\ Len(entries) \in Nat /\ entries \in Seq(Entry)
  BY Parts DEF SocketTyped
<1>2. /\ p \in Para /\ p.units = units /\ p.id = id /\ p.content = content
      /\ p.session = conn[c].session /\ p.entry = 0
  BY <1>1 DEF Para, SocketTyped, Connection
<1>3. (id # "none" => KeyOf(p) \in Keys) /\ (e = 0 \/ e \in 1..Len(entries))
  <2>1. id # "none" => KeyOf(p) \in Keys
    BY <1>2 DEF Para, KeyOf, Keys
  <2> HIDE DEF p
  <2> QED BY <1>1, <2>1 DEF Matching
<1>4. PICK n \in Nat : n = Len(paragraphs[c]) + 1
  BY <1>1 DEF SocketTyped
<1>5. \/ e = 0 /\ Enqueue(c, p, registry, entries)
      \/ e # 0 /\ entries[e].aged /\ Enqueue(c, p, registry, Expire(e))
      \/ /\ e # 0 /\ entries[e].content = content
         /\ paragraphs' = [paragraphs EXCEPT ![c] = Append(@, p)]
         /\ waiting' = [waiting EXCEPT ![c] = @ \union {[seq |-> n, entry |-> e]}]
         /\ UNCHANGED <<jobs, arrived, registry, entries>>
      \/ /\ paragraphs' = [paragraphs EXCEPT ![c] = Append(@, p)]
         /\ Send(c, n, Failed) /\ UNCHANGED <<jobs, waiting, registry, entries>>
  BY <1>4 DEF Submit
<1> HIDE DEF p
<1>6. CASE e = 0 /\ Enqueue(c, p, registry, entries)
  <2>1. Ready(p, entries)
    BY <1>1, <1>2, <1>6 DEF Ready
  <2> QED BY <1>2, <1>6, <2>1, EnqueueJoins
<1>7. CASE e # 0 /\ entries[e].aged /\ Enqueue(c, p, registry, Expire(e))
  <2>1. PICK f \in 1..Len(entries) : f = e
    BY <1>3, <1>7
  <2>2. PICK made : made = Expire(e)
    OBVIOUS
  <2>3. /\ made \in Seq(Entry) /\ Len(made) = Len(entries)
        /\ \A g \in 1..Len(entries) : g # f => made[g] = entries[g]
        /\ made[f] = IF entries[f].result = Pending THEN [entries[f] EXCEPT !.result = Again] ELSE entries[f]
    <3>1. [entries[f] EXCEPT !.result = Again] \in Entry
      <4>1. entries[f] \in Entry
        BY <1>1
      <4> QED BY <4>1, Outcomes DEF Entry
    <3> DEFINE r == [entries[f] EXCEPT !.result = Again]
    <3>2. entries[f].result = Pending => made = [entries EXCEPT ![f] = r]
      BY <1>1, <2>1, <2>2 DEF Expire
    <3>3. entries[f].result # Pending => made = entries
      BY <2>1, <2>2 DEF Expire
    <3>4. r \in Entry
      BY <3>1
    <3> HIDE DEF r
    <3>5. CASE entries[f].result = Pending
      <4>1. made \in Seq(Entry) /\ Len(made) = Len(entries) /\ made[f] = r
            /\ \A g \in 1..Len(entries) : g # f => made[g] = entries[g]
        BY <1>1, <3>2, <3>4, <3>5
      <4> QED BY <3>5, <4>1 DEF r
    <3>6. CASE entries[f].result # Pending
      BY <1>1, <3>3, <3>6
    <3> QED BY <3>5, <3>6
  <2>4. entries[f] \in Entry
    BY <1>1
  <2>5. /\ made[f].content = entries[f].content /\ made[f].owner = entries[f].owner
        /\ made[f].aged = entries[f].aged /\ made[f].result # Pending
        /\ made[f].result # entries[f].result => entries[f].result = Pending /\ made[f].result = Again
    BY <2>3, <2>4, Outcomes DEF Entry
  <2>6. entries[f].aged /\ f = registry[KeyOf(p)] /\ p.id # "none"
    BY <1>2, <1>7, <2>1
  <2>7. Ready(p, made)
    BY <1>1, <2>3, <2>5, <2>6 DEF Ready
  <2>8. Enqueue(c, p, registry, made)
    BY <1>7, <2>2
  <2> HIDE DEF e
  <2> QED BY <1>2, <2>6, <2>7, <2>8, EnqueueJoins
<1>8. CASE /\ e # 0 /\ entries[e].content = content
           /\ paragraphs' = [paragraphs EXCEPT ![c] = Append(@, p)]
           /\ waiting' = [waiting EXCEPT ![c] = @ \union {[seq |-> n, entry |-> e]}]
           /\ UNCHANGED <<jobs, arrived, registry, entries>>
  <2>1. Appends(c, n, p)
    BY <1>2, <1>4, <1>8 DEF Appends
  <2> HIDE DEF e
  <2>2. Joins(c, n, p)
    BY <1>2, <1>3, <1>8, <2>1, PlainJoins
  <2> QED BY <1>2, <2>2
<1>9. CASE /\ paragraphs' = [paragraphs EXCEPT ![c] = Append(@, p)]
           /\ Send(c, n, Failed) /\ UNCHANGED <<jobs, waiting, registry, entries>>
  <2>1. Appends(c, n, p)
    BY <1>2, <1>4, <1>9 DEF Appends
  <2>2. Joins(c, n, p)
    BY <1>2, <1>9, <2>1, PlainJoins
  <2> QED BY <1>2, <2>2
<1> QED BY <1>5, <1>6, <1>7, <1>8, <1>9

\* What a step of the read loop or the timer submits, if anything.
Contributes(c, units) ==
  /\ \/ units = {} /\ UNCHANGED <<paragraphs, jobs, waiting, arrived, registry, entries>>
     \/ \E id \in Requests \cup {"none"}, content \in Contents : Submit(c, units, id, content)
  /\ UNCHANGED <<hands, written, claims>> /\ \A d \in Conns : conn'[d].cut = conn[d].cut

\* Tasks are added for the session of the connection.
Tasks(c) ==
  /\ aux' \in [Conns -> SUBSET [unit : Nat, session : Sessions]]
  /\ \A d \in Conns : d # c => aux'[d] = aux[d]
  /\ \A t \in aux'[c] : t \in aux[c] \/ t.session = conn[c].session

\* What the paragraphs held they hold, and the units as well.
Grown(c, units) ==
  /\ Len(paragraphs[c]) \in Nat /\ Len(paragraphs'[c]) \in Nat /\ Len(paragraphs[c]) <= Len(paragraphs'[c])
  /\ written' = written
  /\ \A i \in 0..Len(paragraphs[c]), us \in SUBSET Nat : Hold(paragraphs[c], i, us) => Hold(paragraphs'[c], i, us)
  /\ \A us \in SUBSET Nat : Hold(paragraphs[c], Len(paragraphs[c]), us) =>
       Hold(paragraphs'[c], Len(paragraphs'[c]), us \cup units)

LEMMA JoinGrows ==
  ASSUME Faithful, NEW c \in Conns, NEW n \in Nat, NEW q \in Para, Joins(c, n, q)
  PROVE  Grown(c, q.units)
<1>1. /\ Len(paragraphs[c]) \in Nat /\ Len(paragraphs'[c]) = Len(paragraphs[c]) + 1
      /\ paragraphs'[c][n] = q /\ \A m \in Numbered(c) : paragraphs'[c][m] = paragraphs[c][m]
      /\ n = Len(paragraphs[c]) + 1 /\ written' = written
  <2>1. SocketTyped /\ Appends(c, n, q)
    BY Parts DEF Joins
  <2>2. n = Len(paragraphs[c]) + 1 /\ written' = written
    BY <2>1 DEF Appends
  <2> QED BY <2>1, <2>2, Appended
<1> DEFINE last == Len(paragraphs[c])
<1> HIDE DEF last
<1>2. last \in Nat /\ Len(paragraphs'[c]) = last + 1 /\ n = last + 1 /\ Len(paragraphs[c]) = last
      /\ \A m \in 1..last : paragraphs'[c][m] = paragraphs[c][m]
  BY <1>1 DEF last, Numbered
<1>3. ASSUME NEW i \in 0..last, NEW us \in SUBSET Nat, Hold(paragraphs[c], i, us) PROVE Hold(paragraphs'[c], i, us)
  <2>1. \A m \in 1..i : m \in 1..last
    BY <1>2
  <2> QED BY <1>2, <1>3, <2>1 DEF Hold
<1>4. ASSUME NEW us \in SUBSET Nat, Hold(paragraphs[c], last, us) PROVE Hold(paragraphs'[c], last + 1, us \cup q.units)
  <2>1. Hold(paragraphs'[c], last, us)
    BY <1>2, <1>3, <1>4
  <2>2. n \in 1..(last + 1) /\ \A m \in 1..last : m \in 1..(last + 1)
    BY <1>2
  <2> QED BY <1>1, <2>1, <2>2 DEF Hold
<1> QED BY <1>1, <1>2, <1>3, <1>4 DEF Grown

LEMMA Grows ==
  ASSUME Faithful, NEW c \in Conns, NEW units \in SUBSET Nat, Contributes(c, units)
  PROVE  Grown(c, units)
<1>1. CASE units = {} /\ UNCHANGED <<paragraphs, jobs, waiting, arrived, registry, entries>>
  <2>1. Len(paragraphs[c]) \in Nat
    BY Parts DEF SocketTyped
  <2>2. \A us : us \cup units = us
    BY <1>1
  <2> QED BY <1>1, <2>1, <2>2 DEF Grown, Contributes
<1>2. ASSUME NEW id \in Requests \cup {"none"}, NEW content \in Contents, Submit(c, units, id, content)
      PROVE  Grown(c, units)
  <2>1. \E n \in Nat, q \in Para : Joins(c, n, q) /\ q.units = units
    BY <1>2, SubmitJoins DEF Contributes
  <2> QED BY <2>1, JoinGrows
<1> QED BY <1>1, <1>2 DEF Contributes

LEMMA JoinFaithful ==
  ASSUME Faithful, NEW c \in Conns, NEW n \in Nat, NEW q \in Para, Joins(c, n, q),
         NEW r \in Connection, Changes(c, r), r.session = conn[c].session, r.context = conn[c].context,
         r.phase # "closed", Tasks(c), Kept(c)'
  PROVE  Faithful'
<1>1. SocketTyped /\ \A d \in Conns : Kept(d) /\ Apart(d) /\ Ended(d)
  BY Parts
<1>2. conn' \in [Conns -> Connection] /\ conn'[c] = r /\ \A d \in Conns : d # c => conn'[d] = conn[d]
  BY <1>1 DEF SocketTyped, Changes
<1>3. /\ paragraphs' \in [Conns -> Seq(Para)]
      /\ \A d \in Conns : d # c => paragraphs'[d] = paragraphs[d] /\ Numbered(d)' = Numbered(d)
      /\ paragraphs'[c][n] = q /\ \A m \in Numbered(c) : paragraphs'[c][m] = paragraphs[c][m]
      /\ Numbered(c)' = Numbered(c) \cup {n}
  BY <1>1, Appended DEF Joins
<1>4. /\ \A d \in Conns : Distinct(d)'
      /\ \A d \in Conns, m \in Nat : OnTheWay(d, m)' => OnTheWay(d, m) \/ (d = c /\ m = n)
  BY JoinedPlaces
<1>5. UNCHANGED <<hands, written, claims>> /\ q.session = conn[c].session
  BY DEF Joins, Appends
<1>6. SocketTyped'
  BY <1>1, <1>2, <1>3, <1>5 DEF SocketTyped, Joins, Registers, Situates, Tasks
<1>7. ASSUME NEW d \in Conns PROVE Kept(d)' /\ Apart(d)' /\ Ended(d)'
  <2>1. CASE d # c
    <3>1. \A m \in Numbered(d) : OnTheWay(d, m)' => OnTheWay(d, m)
      BY <1>1, <1>4, <2>1, ParaTyped
    <3>2. Kept(d)' /\ Apart(d)'
      BY <1>1, <1>2, <1>3, <1>5, <2>1, <3>1, KeptStays, ApartStays DEF Tasks
    <3>3. Ended(d)'
      BY <1>1, <1>2, <1>4, <2>1, EndedStays
    <3> QED BY <3>2, <3>3
  <2>2. CASE d = c
    <3>1. \A m \in Numbered(c) : m \in Nat
      BY <1>1, ParaTyped
    <3>2. Apart(c)'
      <4>1. \A m \in Numbered(c)' : OnTheWay(c, m)' => paragraphs'[c][m].session = conn'[c].session
        BY <1>1, <1>2, <1>3, <1>4, <1>5, <3>1 DEF Apart
      <4>2. \A t \in aux'[c] : t.session = conn'[c].session
        BY <1>1, <1>2 DEF Apart, Tasks
      <4>3. conn'[c].context \subseteq {conn'[c].session}
        BY <1>1, <1>2 DEF Apart
      <4> QED BY <4>1, <4>2, <4>3 DEF Apart
    <3>3. Ended(c)'
      BY <1>2 DEF Ended
    <3> QED BY <2>2, <3>2, <3>3
  <2> QED BY <2>1, <2>2
<1>8. Matching' /\ AnswersMatch' /\ \A d \in Conns : Placed(d)'
  BY JoinedMatching, JoinedPlaced
<1>9. \A d \in Conns : \A m \in Numbered(d)' : Owned(d, m)' /\ InFlight(d, m)'
  BY JoinedOwned
<1>10. \A k \in Keys : Claimed(k)' /\ Refused(k)'
  BY JoinedClaims
<1> QED BY <1>4, <1>6, <1>7, <1>8, <1>9, <1>10 DEF Faithful

LEMMA ContributeFaithful ==
  ASSUME Faithful, NEW c \in Conns, NEW units \in SUBSET Nat, Contributes(c, units),
         NEW r \in Connection, Changes(c, r), r.session = conn[c].session, r.context = conn[c].context,
         r.phase # "closed", Tasks(c), Kept(c)'
  PROVE  Faithful'
<1>1. CASE UNCHANGED <<paragraphs, jobs, waiting, arrived, registry, entries>>
  <2>1. conn'[c] = r /\ conn'[c].cut = conn[c].cut /\ Apart(c) /\ SocketTyped
    BY Parts DEF Changes, Contributes, SocketTyped
  <2>2. UNCHANGED <<paragraphs, jobs, hands, waiting, arrived, written, registry, entries, claims>>
    BY <1>1 DEF Contributes
  <2>3. Apart(c)'
    <3>1. \A m \in Numbered(c) : OnTheWay(c, m)' => OnTheWay(c, m)
      BY <2>2 DEF OnTheWay, Queued, With
    <3> QED BY <2>1, <2>2, <3>1, ApartStays DEF Tasks
  <2> QED BY <2>1, <2>2, <2>3, QuietFaithful DEF Tasks
<1>2. ASSUME NEW id \in Requests \cup {"none"}, NEW content \in Contents, Submit(c, units, id, content)
      PROVE  Faithful'
  <2>1. \E n \in Nat, q \in Para : Joins(c, n, q)
    BY <1>2, SubmitJoins DEF Contributes
  <2> QED BY <2>1, JoinFaithful
<1> QED BY <1>1, <1>2 DEF Contributes

LEMMA ContributeKept ==
  ASSUME SocketTyped, NEW c \in Conns, Kept(c), NEW units \in SUBSET Nat, Grown(c, units),
         NEW r \in Connection, r = conn'[c], conn[c] \in Connection,
         r.heard \in {conn[c].heard, conn[c].heard + 1}, r.acked = conn[c].acked,
         conn[c].held \cup conn[c].batch \cup ((1..r.heard) \ (1..conn[c].heard)) \subseteq r.held \cup r.batch \cup units,
         \A f \in r.flushes : f \in conn[c].flushes \/
           (f.target = Len(paragraphs'[c]) /\ f.heard = r.heard /\ r.held = {} /\ r.batch = {}),
         r.phase \in {"switching", "finishing"} => r.held = {} /\ r.batch = {}, r.phase # "closed",
         r.phase = "switching" => r.target = Len(paragraphs'[c])
  PROVE  Kept(c)'
<1>1. conn[c].heard \in Nat /\ r.heard \in Nat /\ Len(written[c]) \in Nat /\ conn[c].acked \in Nat
      /\ \A f \in conn[c].flushes : f.target \in Nat /\ f.heard \in Nat
  BY DEF Connection, Barriers, SocketTyped
<1>2. /\ Hold(paragraphs[c], Len(paragraphs[c]), (1..conn[c].heard) \ (conn[c].held \cup conn[c].batch))
      /\ \A f \in conn[c].flushes :
           f.target <= Len(paragraphs[c]) /\ Hold(paragraphs[c], f.target, 1..f.heard)
      /\ Hold(paragraphs[c], Len(written[c]), 1..conn[c].acked)
      /\ Len(written[c]) <= Len(paragraphs[c])
  BY DEF Kept
<1>3. Hold(paragraphs'[c], Len(paragraphs'[c]), (1..r.heard) \ (r.held \cup r.batch))
  <2> DEFINE us == (1..conn[c].heard) \ (conn[c].held \cup conn[c].batch)
  <2>1. us \in SUBSET Nat
    OBVIOUS
  <2>2. (1..r.heard) \ (r.held \cup r.batch) \subseteq us \cup units
    OBVIOUS
  <2>3. Hold(paragraphs'[c], Len(paragraphs'[c]), us \cup units)
    BY <1>2, <2>1 DEF Grown
  <2> HIDE DEF us
  <2> QED BY <2>2, <2>3 DEF Hold
<1>4. ASSUME NEW f \in r.flushes
      PROVE  f.target <= Len(paragraphs'[c]) /\ Hold(paragraphs'[c], f.target, 1..f.heard)
  <2>1. CASE f \in conn[c].flushes
    <3>1. f.target \in 0..Len(paragraphs[c]) /\ 1..f.heard \in SUBSET Nat
      BY <1>1, <1>2, <2>1 DEF Grown
    <3>2. f.target <= Len(paragraphs'[c])
      BY <1>1, <1>2, <2>1 DEF Grown
    <3> QED BY <1>2, <2>1, <3>1, <3>2 DEF Grown
  <2>2. CASE f.target = Len(paragraphs'[c]) /\ f.heard = r.heard /\ r.held = {} /\ r.batch = {}
    <3>1. (1..r.heard) \ (r.held \cup r.batch) = 1..f.heard
      BY <2>2
    <3> QED BY <1>3, <2>2, <3>1 DEF Grown
  <2> QED BY <2>1, <2>2
<1>5. Hold(paragraphs'[c], Len(written[c]), 1..conn[c].acked)
  <2>1. Len(written[c]) \in 0..Len(paragraphs[c]) /\ 1..conn[c].acked \in SUBSET Nat
    BY <1>1, <1>2 DEF Grown
  <2> QED BY <1>2, <2>1 DEF Grown
<1>6. written' = written /\ Len(written[c]) <= Len(paragraphs'[c])
  BY <1>1, <1>2 DEF Grown
<1> QED BY <1>3, <1>4, <1>5, <1>6 DEF Kept

LEMMA UnitsContribute ==
  ASSUME SocketTyped, NEW c \in Conns, NEW units \in SUBSET Nat, SubmitUnits(c, units),
         UNCHANGED <<hands, written, claims>>, \A d \in Conns : conn'[d].cut = conn[d].cut
  PROVE  Contributes(c, units) /\ Tasks(c)
<1>1. Contributes(c, units)
  BY Given DEF SubmitUnits, Contributes
<1>2. Tasks(c)
  <2> DEFINE t == [unit |-> conn[c].heard, session |-> conn[c].session]
  <2>1. t \in [unit : Nat, session : Sessions] /\ t.session = conn[c].session
    BY DEF SocketTyped, Connection
  <2>2. aux' = IF conn[c].notes THEN [aux EXCEPT ![c] = @ \union {t}] ELSE aux
    BY DEF SubmitUnits
  <2> HIDE DEF t
  <2> QED BY <2>1, <2>2 DEF Tasks, SocketTyped
<1> QED BY <1>1, <1>2

LEMMA TranscriptFaithful ==
  ASSUME Faithful, NEW c \in Conns, NEW id \in Requests \cup {"none"}, NEW content \in Contents,
         NEW done, NEW told, Transcript(c, id, content, done, told)
  PROVE  Faithful'
<1>1. SocketTyped /\ conn \in [Conns -> Connection] /\ conn[c] \in Connection /\ Kept(c)
  BY Parts DEF SocketTyped
<1> DEFINE unit == conn[c].heard + 1
           units == IF id = "none" THEN conn[c].held \cup {unit} ELSE {unit}
           submits == id # "none" \/ done
           after == IF id # "none" THEN conn[c].held ELSE IF done THEN {} ELSE units
           adds == IF submits THEN units ELSE {}
           r == [conn[c] EXCEPT !.heard = unit, !.notes = c \in Summarising /\ ~told, !.held = after]
<1>2. unit \in Nat /\ units \in SUBSET Nat /\ adds \in SUBSET Nat /\ after \in SUBSET Nat
      /\ conn[c].held \cup {unit} \subseteq after \cup adds
  BY <1>1 DEF Connection
<1>3. conn[c].phase = "open" /\ UNCHANGED <<hands, written, claims>>
  BY DEF Transcript, Reading
<1> HIDE DEF after
<1>4. conn' = [conn EXCEPT ![c].heard = unit, ![c].notes = c \in Summarising /\ ~told, ![c].held = after]
  BY <1>1 DEF Transcript, after
<1>5. Changes(c, r) /\ r \in Connection
  BY <1>1, <1>2, <1>4 DEF Connection, Changes
<1>6. /\ r.heard = conn[c].heard + 1 /\ r.acked = conn[c].acked /\ r.held = after /\ r.batch = conn[c].batch
      /\ r.flushes = conn[c].flushes /\ r.phase = "open" /\ r.session = conn[c].session
      /\ r.context = conn[c].context /\ r.cut = conn[c].cut
  BY <1>1, <1>3 DEF Connection
<1> HIDE DEF r
<1>7. r = conn'[c] /\ \A d \in Conns : conn'[d].cut = conn[d].cut
  BY <1>1, <1>5, <1>6 DEF Changes
<1>8. Contributes(c, adds)
  <2>1. CASE submits
    <3>1. Submit(c, units, id, content) /\ adds = units
      BY <2>1 DEF Transcript
    <3> HIDE DEF units
    <3> QED BY <1>3, <1>7, <3>1 DEF Contributes
  <2>2. CASE ~submits
    BY <1>3, <1>7, <2>2 DEF Contributes, Transcript
  <2> QED BY <2>1, <2>2
<1>9. Tasks(c)
  <2> DEFINE t == [unit |-> unit, session |-> conn[c].session]
  <2>1. t \in [unit : Nat, session : Sessions] /\ t.session = conn[c].session
    BY <1>1, <1>2 DEF Connection
  <2>2. aux' = IF told THEN [aux EXCEPT ![c] = @ \union {t}] ELSE aux
    BY DEF Transcript
  <2> HIDE DEF t
  <2> QED BY <1>1, <2>1, <2>2 DEF Tasks, SocketTyped
<1>10. Grown(c, adds)
  BY <1>2, <1>8, Grows
<1>11. Kept(c)'
  <2>1. (1..r.heard) \ (1..conn[c].heard) = {unit}
    <3>1. conn[c].heard \in Nat
      BY <1>1 DEF Connection
    <3>2. \A h \in Nat : (1..(h + 1)) \ (1..h) = {h + 1}
      OBVIOUS
    <3> QED BY <1>6, <3>1, <3>2
  <2> HIDE DEF adds, unit
  <2>2. conn[c].held \cup conn[c].batch \cup ((1..r.heard) \ (1..conn[c].heard)) \subseteq r.held \cup r.batch \cup adds
    BY <1>2, <1>6, <2>1
  <2> QED BY <1>1, <1>2, <1>5, <1>6, <1>7, <1>10, <2>2, ContributeKept
<1> HIDE DEF adds
<1> QED BY <1>2, <1>5, <1>6, <1>8, <1>9, <1>11, ContributeFaithful

LEMMA TimerSubmitsFaithful ==
  ASSUME Faithful, NEW c \in Conns, TimerSubmits(c)
  PROVE  Faithful'
<1>1. SocketTyped /\ conn \in [Conns -> Connection] /\ conn[c] \in Connection /\ Kept(c)
  BY Parts DEF SocketTyped
<1> DEFINE r == [conn[c] EXCEPT !.batch = {}, !.notes = FALSE]
<1>2. Changes(c, r) /\ r \in Connection
  BY <1>1 DEF TimerSubmits, Connection, Changes
<1>3. /\ r.heard = conn[c].heard /\ r.acked = conn[c].acked /\ r.held = conn[c].held /\ r.batch = {}
      /\ r.flushes = conn[c].flushes /\ r.phase = conn[c].phase /\ r.target = conn[c].target
      /\ r.session = conn[c].session /\ r.context = conn[c].context /\ r.cut = conn[c].cut
  BY <1>1 DEF Connection
<1>4. conn[c].batch # {} /\ conn[c].batch \in SUBSET Nat /\ UNCHANGED <<hands, written, claims>>
  BY <1>1 DEF TimerSubmits, Unlocked, Connection
<1>5. conn[c].phase \notin {"switching", "finishing", "closed"}
  BY <1>1, <1>4 DEF Kept
<1> HIDE DEF r
<1>6. r = conn'[c] /\ \A d \in Conns : conn'[d].cut = conn[d].cut
  BY <1>1, <1>2, <1>3 DEF Changes
<1>7. Contributes(c, conn[c].batch) /\ Tasks(c)
  BY <1>1, <1>4, <1>6, UnitsContribute DEF TimerSubmits
<1>8. Grown(c, conn[c].batch)
  BY <1>4, <1>7, Grows
<1>9. Kept(c)'
  BY <1>1, <1>2, <1>3, <1>4, <1>5, <1>6, <1>8, ContributeKept
<1> QED BY <1>2, <1>3, <1>4, <1>5, <1>7, <1>9, ContributeFaithful

LEMMA FlushFaithful ==
  ASSUME Faithful, NEW c \in Conns, Flush(c)
  PROVE  Faithful'
<1>1. SocketTyped /\ conn \in [Conns -> Connection] /\ conn[c] \in Connection /\ Kept(c)
  BY Parts DEF SocketTyped
<1>2. /\ conn[c].phase = "open" /\ conn[c].batch = {} /\ conn[c].held \in SUBSET Nat
      /\ UNCHANGED <<hands, written, claims>>
  BY <1>1 DEF Flush, Reading, Unlocked, Connection
<1>3. \A d \in Conns : conn'[d].cut = conn[d].cut
  BY <1>1 DEF Flush, Connection
<1>4. Contributes(c, conn[c].held) /\ Tasks(c)
  BY <1>1, <1>2, <1>3, UnitsContribute DEF Flush
<1>5. Grown(c, conn[c].held)
  BY <1>2, <1>4, Grows
<1> DEFINE barrier == [target |-> Len(paragraphs'[c]), heard |-> conn[c].heard]
<1>6. PICK more \in SUBSET Barriers : /\ more = IF Cardinality(conn[c].flushes) < FlushSlots
                                               THEN conn[c].flushes \cup {barrier} ELSE conn[c].flushes
  <2>1. barrier \in Barriers
    BY <1>1, <1>5 DEF Grown, Connection, Barriers
  <2>2. conn[c].flushes \in SUBSET Barriers
    BY <1>1 DEF Connection
  <2> HIDE DEF barrier
  <2> QED BY <2>1, <2>2
<1> DEFINE s == [conn[c] EXCEPT !.held = {}, !.notes = FALSE, !.flushes = more]
<1>7. PICK r \in Connection : r = s
  BY <1>1 DEF Connection
<1>8. conn' = [conn EXCEPT ![c] = s]
  BY <1>1, <1>6 DEF Flush
<1>9. Changes(c, r)
  BY <1>7, <1>8 DEF Changes
<1>10. /\ r.heard = conn[c].heard /\ r.acked = conn[c].acked /\ r.held = {} /\ r.batch = {}
       /\ r.flushes = more /\ r.phase = "open"
       /\ r.session = conn[c].session /\ r.context = conn[c].context
  BY <1>1, <1>2, <1>7 DEF Connection
<1> HIDE DEF s
<1>11. r = conn'[c]
  BY <1>1, <1>9 DEF Changes
<1>12. \A f \in r.flushes : f \in conn[c].flushes \/
           (f.target = Len(paragraphs'[c]) /\ f.heard = r.heard /\ r.held = {} /\ r.batch = {})
  BY <1>6, <1>10
<1>13. Kept(c)'
  BY <1>1, <1>2, <1>5, <1>10, <1>11, <1>12, ContributeKept
<1> QED BY <1>2, <1>4, <1>9, <1>10, <1>13, ContributeFaithful

LEMMA SwitchFaithful ==
  ASSUME Faithful, NEW c \in Conns, NEW to \in Sessions, Switch(c, to)
  PROVE  Faithful'
<1>1. SocketTyped /\ conn \in [Conns -> Connection] /\ conn[c] \in Connection /\ Kept(c)
  BY Parts DEF SocketTyped
<1>2. /\ conn[c].phase = "open" /\ conn[c].batch = {} /\ conn[c].held \in SUBSET Nat
      /\ UNCHANGED <<hands, written, claims>>
  BY <1>1 DEF Switch, Reading, Unlocked, Connection
<1>3. \A d \in Conns : conn'[d].cut = conn[d].cut
  BY <1>1 DEF Switch, Connection
<1>4. Contributes(c, conn[c].held) /\ Tasks(c)
  BY <1>1, <1>2, <1>3, UnitsContribute DEF Switch
<1>5. Grown(c, conn[c].held)
  BY <1>2, <1>4, Grows
<1> DEFINE s == [conn[c] EXCEPT !.phase = "switching", !.to = to, !.held = {}, !.notes = FALSE,
                                !.target = Len(paragraphs'[c])]
<1>6. PICK r \in Connection : r = s
  BY <1>1, <1>5 DEF Connection, Phases, Grown
<1>7. conn' = [conn EXCEPT ![c] = s]
  BY <1>1 DEF Switch
<1>8. Changes(c, r)
  BY <1>6, <1>7 DEF Changes
<1>9. /\ r.heard = conn[c].heard /\ r.acked = conn[c].acked /\ r.held = {} /\ r.batch = {}
      /\ r.flushes = conn[c].flushes /\ r.phase = "switching" /\ r.target = Len(paragraphs'[c])
      /\ r.session = conn[c].session /\ r.context = conn[c].context
  BY <1>1, <1>2, <1>6 DEF Connection
<1> HIDE DEF s
<1>10. r = conn'[c]
  BY <1>1, <1>8 DEF Changes
<1>11. Kept(c)'
  BY <1>1, <1>2, <1>5, <1>9, <1>10, ContributeKept
<1> QED BY <1>2, <1>4, <1>8, <1>9, <1>11, ContributeFaithful

LEMMA FinalFlushFaithful ==
  ASSUME Faithful, NEW c \in Conns, FinalFlush(c)
  PROVE  Faithful'
<1>1. SocketTyped /\ conn \in [Conns -> Connection] /\ conn[c] \in Connection /\ Kept(c)
  BY Parts DEF SocketTyped
<1>2. /\ conn[c].batch = {} /\ conn[c].held \in SUBSET Nat /\ UNCHANGED <<hands, written, claims>>
  BY <1>1 DEF FinalFlush, Unlocked, Connection
<1> DEFINE r == [conn[c] EXCEPT !.phase = "finishing", !.held = {}, !.notes = FALSE]
<1>3. Changes(c, r) /\ r \in Connection
  BY <1>1 DEF FinalFlush, Connection, Phases, Changes
<1>4. /\ r.heard = conn[c].heard /\ r.acked = conn[c].acked /\ r.held = {} /\ r.batch = {}
      /\ r.flushes = conn[c].flushes /\ r.phase = "finishing"
      /\ r.session = conn[c].session /\ r.context = conn[c].context /\ r.cut = conn[c].cut
  BY <1>1, <1>2 DEF Connection
<1> HIDE DEF r
<1>5. r = conn'[c] /\ \A d \in Conns : conn'[d].cut = conn[d].cut
  BY <1>1, <1>3, <1>4 DEF Changes
<1>6. Contributes(c, conn[c].held) /\ Tasks(c)
  BY <1>1, <1>2, <1>5, UnitsContribute DEF FinalFlush
<1>7. Grown(c, conn[c].held)
  BY <1>2, <1>6, Grows
<1>8. Kept(c)'
  BY <1>1, <1>2, <1>3, <1>4, <1>5, <1>7, ContributeKept
<1> QED BY <1>2, <1>3, <1>4, <1>6, <1>8, ContributeFaithful

LEMMA StepFaithful == ASSUME Faithful, [SocketNext]_socketVars PROVE Faithful'
<1>1. CASE UNCHANGED socketVars
  <2>1. UNCHANGED <<conn, paragraphs, jobs, hands, waiting, aux, arrived, written, registry, entries, claims>>
    BY <1>1 DEF socketVars
  <2>2. Forgets
    <3>1. SocketTyped
      BY Parts
    <3> QED BY <2>1, <3>1 DEF Forgets, SocketTyped
  <2> QED BY <2>2, ForgetFaithful
<1>2. CASE Sweep
  BY <1>2, SweepFaithful
<1>3. ASSUME NEW k \in Keys, Age(k) PROVE Faithful'
  BY <1>3, AgeFaithful
<1>4. ASSUME NEW c \in Conns, NEW told \in {FALSE, (c \in Summarising)},
             NEW id \in Requests, NEW content \in Contents, Transcript(c, id, content, TRUE, told)
      PROVE  Faithful'
  BY <1>4, TranscriptFaithful
<1>5. ASSUME NEW c \in Conns, NEW told \in {FALSE, (c \in Summarising)},
             NEW done \in BOOLEAN, Transcript(c, "none", Unnamed, done, told)
      PROVE  Faithful'
  BY <1>5, Given, TranscriptFaithful
<1>6. ASSUME NEW c \in Conns, TimerTakes(c) \/ TimerSubmits(c) \/ Flush(c) PROVE Faithful'
  BY <1>6, TimerTakesFaithful, TimerSubmitsFaithful, FlushFaithful
<1>7. ASSUME NEW c \in Conns, NEW flush \in conn[c].flushes, Barrier(c, flush) PROVE Faithful'
  BY <1>7, BarrierFaithful
<1>8. ASSUME NEW c \in Conns, NEW to \in Sessions, Switch(c, to) PROVE Faithful'
  BY <1>8, SwitchFaithful
<1>9. ASSUME NEW c \in Conns, Switched(c) PROVE Faithful'
  BY <1>9, SwitchedFaithful
<1>10. ASSUME NEW c \in Conns, NEW t \in aux[c], Task(c, t) PROVE Faithful'
  BY <1>10, TaskFaithful
<1>11. ASSUME NEW c \in Conns, NEW w \in JobWorkers, Work(c, w) PROVE Faithful'
  BY <1>11, WorkFaithful
<1>12. ASSUME NEW c \in Conns, NEW x \in waiting[c], Replay(c, x) PROVE Faithful'
  BY <1>12, ReplayFaithful
<1>13. ASSUME NEW c \in Conns, Deliver(c) \/ Cut(c) \/ Leave(c) \/ FinalFlush(c) \/ Close(c) PROVE Faithful'
  BY <1>13, DeliverFaithful, CutFaithful, LeaveFaithful, FinalFlushFaithful, CloseFaithful
<1> QED BY <1>1, <1>2, <1>3, <1>4, <1>5, <1>6, <1>7, <1>8, <1>9, <1>10, <1>11, <1>12, <1>13 DEF SocketNext

\* Every state of the translation websockets of a process is consistent: what was
\* heard is somewhere, each number is in one place, each entry has one paragraph
\* and each claim one holder, through ageing, sweeps, cuts, retries and switches.
THEOREM SocketIsFaithful == SocketSpec => []Faithful
<1>1. SocketInit => Faithful
  BY InitFaithful
<1>2. Faithful /\ [SocketNext]_socketVars => Faithful'
  BY StepFaithful
<1> QED BY <1>1, <1>2, PTL DEF SocketSpec

\* "pending buffers flushed" is true when it is sent: all that was heard before
\* the flush, by the read loop or taken up by the flush timer, has been written.
THEOREM FlushesAreTrue == SocketSpec => []FlushIsTrue
<1>1. ASSUME Faithful PROVE FlushIsTrue
  <2>1. \A c \in Conns : Hold(paragraphs[c], Len(written[c]), 1..conn[c].acked)
    BY <1>1, Parts DEF Kept
  <2> QED BY <2>1 DEF FlushIsTrue, Hold
<1> QED BY <1>1, SocketIsFaithful, PTL

\* No translation and no summary task of one session enters the context of the
\* next, whatever was in flight when init switched (resetSessionContext).
THEOREM SessionsStayApart == SocketSpec => []SessionsApart
<1>1. ASSUME Faithful PROVE SessionsApart
  BY <1>1, Parts DEF SessionsApart, Apart
<1> QED BY <1>1, SocketIsFaithful, PTL

\* Whatever a request id was used for before, on this connection or another, the
\* translation written for a paragraph is one of its text (Begin, Wait, Complete).
THEOREM AnswersAreRight == SocketSpec => []AnswersMatch
<1>1. ASSUME Faithful PROVE AnswersMatch
  BY <1>1, Parts
<1> QED BY <1>1, SocketIsFaithful, PTL

\* A connection that ends without being cut has put all it heard into paragraphs
\* and given every request it registered an outcome (the final flush of Handle).
THEOREM AcceptedGetsFinished == SocketSpec => []AcceptedIsFinished
<1>1. ASSUME Faithful PROVE AcceptedIsFinished
  <2> SUFFICES ASSUME NEW c \in Conns, conn[c].phase = "closed", ~conn[c].cut
               PROVE  /\ \A unit \in 1..conn[c].heard :
                           \E n \in DOMAIN paragraphs[c] : unit \in paragraphs[c][n].units
                      /\ \A n \in DOMAIN paragraphs[c] :
                           paragraphs[c][n].entry # 0 => entries[paragraphs[c][n].entry].result # Pending
    BY DEF AcceptedIsFinished
  <2>1. SocketTyped /\ Kept(c) /\ Ended(c) /\ \A n \in Numbered(c) : InFlight(c, n) /\ n \in Nat
    BY <1>1, Parts, ParaTyped
  <2>2. DOMAIN paragraphs[c] = Numbered(c)
    BY <2>1 DEF Numbered, SocketTyped
  <2>3. Hold(paragraphs[c], Len(paragraphs[c]), 1..conn[c].heard)
    <3>1. conn[c].held = {} /\ conn[c].batch = {}
      BY <2>1 DEF Kept
    <3>2. (1..conn[c].heard) \ (conn[c].held \cup conn[c].batch) = 1..conn[c].heard
      BY <3>1
    <3> QED BY <2>1, <3>2 DEF Kept
  <2>4. \A n \in Numbered(c) : ~OnTheWay(c, n)
    BY <2>1 DEF Ended
  <2> QED BY <2>1, <2>2, <2>3, <2>4 DEF Hold, Numbered, InFlight
<1> QED BY <1>1, SocketIsFaithful, PTL

\* While a paid translation is stored, whoever repeats the request is not refused
\* for good, even if its settlement reported an error and had committed.
THEOREM PaidGetsServed == SocketSpec => []PaidIsServed
<1>1. ASSUME Faithful PROVE PaidIsServed
  BY <1>1, Parts DEF PaidIsServed, Refused
<1> QED BY <1>1, SocketIsFaithful, PTL

-----------------------------------------------------------------------------
(* Each request is one claim                                               *)

\* The paragraphs so far are what they were.
Numbering == \A d \in Conns : \A m \in Numbered(d) : paragraphs'[d][m] = paragraphs[d][m]

LEMMA ServingIs ==
  ASSUME NEW k
  PROVE  /\ Serving(k) \subseteq Conns \X JobWorkers
         /\ \A c \in Conns, w \in JobWorkers : <<c, w>> \in Serving(k) <=> Holds(c, w, k)
         /\ Serving(k)' \subseteq Conns \X JobWorkers
         /\ \A c \in Conns, w \in JobWorkers : <<c, w>> \in Serving(k)' <=> Holds(c, w, k)'
BY DEF Serving, Holds

\* Nobody else's part changes with one worker's.
LEMMA ServingElsewhere ==
  ASSUME Faithful, NEW c \in Conns, NEW w \in JobWorkers, Numbering,
         \A d \in Conns, v \in JobWorkers : ~(d = c /\ v = w) => hands'[d][v] = hands[d][v],
         NEW k \in Keys, NEW d \in Conns, NEW v \in JobWorkers, ~(d = c /\ v = w)
  PROVE  <<d, v>> \in Serving(k)' <=> <<d, v>> \in Serving(k)
<1>1. SocketTyped /\ Placed(d)
  BY Parts
<1>2. Holds(d, v, k)' <=> Holds(d, v, k)
  BY <1>1, HoldsStays DEF Numbering
<1> QED BY <1>2, ServingIs

LEMMA ServingSame ==
  ASSUME NEW c \in Conns, NEW w \in JobWorkers, NEW k \in Keys,
         \A d \in Conns, v \in JobWorkers : ~(d = c /\ v = w) => (<<d, v>> \in Serving(k)' <=> <<d, v>> \in Serving(k)),
         <<c, w>> \in Serving(k)' <=> <<c, w>> \in Serving(k)
  PROVE  Serving(k)' = Serving(k)
<1>1. \A d \in Conns, v \in JobWorkers : <<d, v>> \in Serving(k)' <=> <<d, v>> \in Serving(k)
  OBVIOUS
<1> QED BY <1>1, ServingIs

\* A holder is alone.
LEMMA ServedAlone ==
  ASSUME Faithful, NEW k \in Keys, NEW c \in Conns, NEW w \in JobWorkers, <<c, w>> \in Serving(k)
  PROVE  Serving(k) = {<<c, w>>}
<1>1. Holds(c, w, k) /\ Claimed(k)
  BY ServingIs, Parts
<1>2. \A d \in Conns, v \in JobWorkers : <<d, v>> \in Serving(k) => d = c /\ v = w
  BY <1>1, ServingIs DEF Claimed
<1> QED BY <1>2, ServingIs

Rested(k) == claims'[k].state = claims[k].state /\ Serving(k)' = Serving(k)

LEMMA QuietServes ==
  ASSUME Faithful, UNCHANGED <<hands, claims>>, Numbering, NEW k \in Keys
  PROVE  Rested(k)
<1>1. ASSUME NEW d \in Conns, NEW v \in JobWorkers
      PROVE  <<d, v>> \in Serving(k)' <=> <<d, v>> \in Serving(k)
  <2>1. SocketTyped /\ Placed(d) /\ hands'[d][v] = hands[d][v]
    BY Parts
  <2>2. Holds(d, v, k)' <=> Holds(d, v, k)
    BY <2>1, HoldsStays DEF Numbering
  <2> QED BY <2>2, ServingIs
<1> QED BY <1>1, ServingIs DEF Rested

LEMMA SubmitAppends ==
  ASSUME NEW c, NEW units, NEW id, NEW content, Submit(c, units, id, content)
  PROVE  \E q : paragraphs' = [paragraphs EXCEPT ![c] = Append(@, q)]
BY DEF Submit, Enqueue

LEMMA AppendNumbers ==
  ASSUME SocketTyped, NEW c \in Conns, NEW q, paragraphs' = [paragraphs EXCEPT ![c] = Append(@, q)]
  PROVE  Numbering
<1> SUFFICES ASSUME NEW d \in Conns, NEW m \in Numbered(d) PROVE paragraphs'[d][m] = paragraphs[d][m]
  BY DEF Numbering
<1>1. CASE d # c
  BY <1>1 DEF SocketTyped
<1>2. CASE d = c
  <2> DEFINE all == Para \cup {q}
  <2>1. paragraphs[c] \in Seq(all) /\ q \in all /\ m \in 1..Len(paragraphs[c])
    BY <1>2 DEF SocketTyped, Numbered
  <2>2. paragraphs'[c] = Append(paragraphs[c], q)
    BY DEF SocketTyped
  <2> HIDE DEF all
  <2> QED BY <1>2, <2>1, <2>2
<1> QED BY <1>1, <1>2

LEMMA SubmitNumbers ==
  ASSUME SocketTyped, NEW c \in Conns, NEW units, NEW id, NEW content, Submit(c, units, id, content)
  PROVE  Numbering
BY SubmitAppends, AppendNumbers

LEMMA SameNumbers == ASSUME UNCHANGED paragraphs PROVE Numbering
BY DEF Numbering

LEMMA UnitsNumber ==
  ASSUME SocketTyped, NEW c \in Conns, NEW units, SubmitUnits(c, units)
  PROVE  Numbering
BY SubmitNumbers, SameNumbers DEF SubmitUnits

\* Whoever speaks, leaves or passes results on leaves the claims alone.
LEMMA NotAWorker ==
  ASSUME SocketTyped, [SocketNext]_socketVars
  PROVE  \/ \E c \in Conns, w \in JobWorkers : Work(c, w)
         \/ Numbering /\ UNCHANGED <<hands, claims>>
<1>1. CASE UNCHANGED socketVars
  BY <1>1, SameNumbers DEF socketVars
<1>2. CASE Sweep \/ \E k \in Keys : Age(k)
  BY <1>2, SameNumbers DEF Sweep, Age
<1>3. ASSUME NEW c \in Conns, NEW id, NEW content, NEW done, NEW told, Transcript(c, id, content, done, told)
      PROVE  Numbering /\ UNCHANGED <<hands, claims>>
  <2>1. UNCHANGED <<hands, claims>>
    BY <1>3 DEF Transcript
  <2>2. (\E units : Submit(c, units, id, content)) \/ UNCHANGED paragraphs
    BY <1>3 DEF Transcript
  <2> QED BY <2>1, <2>2, SubmitNumbers, SameNumbers
<1>4. ASSUME NEW c \in Conns, TimerSubmits(c) \/ Flush(c) \/ FinalFlush(c) \/ \E to \in Sessions : Switch(c, to)
      PROVE  Numbering /\ UNCHANGED <<hands, claims>>
  <2>1. UNCHANGED <<hands, claims>>
    BY <1>4 DEF TimerSubmits, Flush, FinalFlush, Switch
  <2>2. \E units : SubmitUnits(c, units)
    BY <1>4 DEF TimerSubmits, Flush, FinalFlush, Switch
  <2> QED BY <2>1, <2>2, UnitsNumber
<1>5. ASSUME NEW c \in Conns,
             \/ TimerTakes(c) \/ Switched(c) \/ Deliver(c) \/ Cut(c) \/ Leave(c) \/ Close(c)
             \/ \E flush \in conn[c].flushes : Barrier(c, flush)
             \/ \E t \in aux[c] : Task(c, t)
             \/ \E x \in waiting[c] : Replay(c, x)
      PROVE  Numbering /\ UNCHANGED <<hands, claims>>
  <2>1. UNCHANGED <<paragraphs, hands, claims>>
    BY <1>5 DEF TimerTakes, Switched, Deliver, Cut, Leave, Close, Barrier, Task, Replay, shared
  <2> QED BY <2>1, SameNumbers
<1> QED BY <1>1, <1>2, <1>3, <1>4, <1>5 DEF SocketNext

\* A worker that is done: it gives up its claim, if it had one.
LEMMA FinishServes ==
  ASSUME Faithful, NEW c \in Conns, NEW w \in JobWorkers, Frees(c, w), UNCHANGED paragraphs,
         NEW k \in Keys, claims'[k].state \in Request(k)!States,
         <<c, w>> \in Serving(k) \/ claims'[k] = claims[k]
  PROVE  Request(k)!Leave(<<c, w>>) \/ Rested(k)
<1>1. \A d \in Conns, v \in JobWorkers : hands'[d][v] = IF d = c /\ v = w THEN NoJob ELSE hands[d][v]
  BY Parts DEF SocketTyped, Frees
<1>2. \A d \in Conns, v \in JobWorkers : ~(d = c /\ v = w) => (<<d, v>> \in Serving(k)' <=> <<d, v>> \in Serving(k))
  BY <1>1, SameNumbers, ServingElsewhere
<1>3. <<c, w>> \notin Serving(k)'
  <2>1. hands'[c][w].pc = "idle"
    BY <1>1 DEF NoJob
  <2> QED BY <2>1, ServingIs DEF Holds
<1>4. CASE <<c, w>> \in Serving(k)
  <2>1. Serving(k) = {<<c, w>>}
    BY <1>4, ServedAlone
  <2>2. \A d \in Conns, v \in JobWorkers : <<d, v>> \notin Serving(k)'
    BY <1>2, <1>3, <2>1
  <2>3. Serving(k)' = {}
    BY <2>2, ServingIs
  <2> QED BY <1>4, <2>3 DEF Request!Leave
<1>5. CASE <<c, w>> \notin Serving(k)
  BY <1>2, <1>3, <1>5, ServingSame DEF Rested
<1> QED BY <1>4, <1>5

\* A worker that goes on, without a claim or with the one it has.
LEMMA ProceedServes ==
  ASSUME Faithful, NEW c \in Conns, NEW w \in JobWorkers, NEW pc \in InWork, Advance(c, w, pc),
         UNCHANGED <<paragraphs, claims>>, NEW k \in Keys,
         Job(c, w).id = "none" \/ {hands[c][w].pc, pc} \subseteq {"reserve", "provide", "settle"}
  PROVE  Rested(k)
<1>1. /\ \A d \in Conns, v \in JobWorkers : ~(d = c /\ v = w) => hands'[d][v] = hands[d][v]
      /\ hands'[c][w].pc = pc /\ hands'[c][w].n = hands[c][w].n
  BY Parts DEF SocketTyped, Advance
<1>2. \A d \in Conns, v \in JobWorkers : ~(d = c /\ v = w) => (<<d, v>> \in Serving(k)' <=> <<d, v>> \in Serving(k))
  BY <1>1, SameNumbers, ServingElsewhere
<1>3. Job(c, w)' = Job(c, w) /\ KeyOf(Job(c, w))' = KeyOf(Job(c, w))
  BY <1>1 DEF Job, KeyOf
<1>4. Holds(c, w, k)' <=> Holds(c, w, k)
  BY <1>1, <1>3 DEF Holds
<1> QED BY <1>2, <1>4, ServingIs, ServingSame DEF Rested

LEMMA ClaimServes ==
  ASSUME Faithful, NEW c \in Conns, NEW w \in JobWorkers, hands[c][w].pc = "claim",
         Job(c, w).id # "none", ~Held(KeyOf(Job(c, w))), claims[KeyOf(Job(c, w))].state # "paid",
         claims' = SetClaim(Job(c, w), "held"), Advance(c, w, "reserve"), UNCHANGED paragraphs,
         NEW k \in Keys
  PROVE  Request(k)!Own(<<c, w>>) \/ Rested(k)
<1>1. /\ \A d \in Conns, v \in JobWorkers : ~(d = c /\ v = w) => hands'[d][v] = hands[d][v]
      /\ hands'[c][w].pc = "reserve" /\ hands'[c][w].n = hands[c][w].n
  BY Parts DEF SocketTyped, Advance
<1>2. \A d \in Conns, v \in JobWorkers : ~(d = c /\ v = w) => (<<d, v>> \in Serving(k)' <=> <<d, v>> \in Serving(k))
  BY <1>1, SameNumbers, ServingElsewhere
<1>3. Job(c, w)' = Job(c, w) /\ KeyOf(Job(c, w))' = KeyOf(Job(c, w))
  BY <1>1 DEF Job, KeyOf
<1>4. Holds(c, w, k)' <=> KeyOf(Job(c, w)) = k
  BY <1>1, <1>3 DEF Holds
<1>5. ~Holds(c, w, k)
  BY DEF Holds
<1>6. Job(c, w) \in Para /\ SocketTyped /\ Matching
  BY JobOf, Parts
<1>7. IF k = KeyOf(Job(c, w)) THEN claims'[k].state = "held" ELSE claims'[k] = claims[k]
  <2>1. IF k = KeyOf(Job(c, w)) THEN claims'[k] = [state |-> "held", content |-> Job(c, w).content]
                                ELSE claims'[k] = claims[k]
    BY <1>6, ClaimSet
  <2> QED BY <2>1
<1>8. CASE k = KeyOf(Job(c, w))
  <2>1. \A d \in Conns, v \in JobWorkers : ~Holds(d, v, k)
    BY <1>8 DEF Held, Holds
  <2>2. Serving(k) = {}
    BY <2>1, ServingIs
  <2>3. \A d \in Conns, v \in JobWorkers : <<d, v>> \in Serving(k)' <=> d = c /\ v = w
    BY <1>2, <1>4, <1>8, <2>2, ServingIs
  <2>4. Serving(k)' = {<<c, w>>}
    BY <2>3, ServingIs
  <2> QED BY <1>7, <1>8, <2>2, <2>4 DEF Request!Own
<1>9. CASE k # KeyOf(Job(c, w))
  BY <1>2, <1>4, <1>5, <1>7, <1>9, ServingIs, ServingSame DEF Rested
<1> QED BY <1>8, <1>9

LEMMA SetServes ==
  ASSUME Faithful, NEW c \in Conns, NEW w \in JobWorkers, hands[c][w].pc \in {"reserve", "provide", "settle"},
         NEW state \in {"none", "held", "failed", "paid"}, claims' = SetClaim(Job(c, w), state),
         Frees(c, w), UNCHANGED paragraphs, NEW k \in Keys
  PROVE  Request(k)!Leave(<<c, w>>) \/ Rested(k)
<1>1. Job(c, w) \in Para /\ SocketTyped /\ Matching
  BY JobOf, Parts
<1>2. /\ claims' \in [Keys -> ClaimRow]
      /\ IF Job(c, w).id # "none" /\ k = KeyOf(Job(c, w)) THEN TRUE ELSE claims'[k] = claims[k]
  BY <1>1, ClaimSet
<1>3. claims'[k].state \in Request(k)!States
  BY <1>2 DEF ClaimRow, Request!States
<1>4. <<c, w>> \in Serving(k) \/ claims'[k] = claims[k]
  BY <1>2, ServingIs DEF Holds
<1> QED BY <1>3, <1>4, FinishServes

LEMMA SameServes ==
  ASSUME Faithful, NEW c \in Conns, NEW w \in JobWorkers, Frees(c, w), UNCHANGED <<paragraphs, claims>>, NEW k \in Keys
  PROVE  Request(k)!Leave(<<c, w>>) \/ Rested(k)
<1>1. claims'[k].state \in Request(k)!States
  BY Parts DEF SocketTyped, Request!States
<1> QED BY <1>1, FinishServes

LEMMA TakeServes ==
  ASSUME Faithful, NEW c \in Conns, NEW w \in JobWorkers, Take(c, w), NEW k \in Keys
  PROVE  Rested(k)
<1>1. UNCHANGED <<paragraphs, claims>> /\ hands[c][w].pc = "idle"
  BY DEF Take, InHand
<1>2. CASE UNCHANGED hands
  BY <1>1, <1>2, SameNumbers, QuietServes
<1>3. CASE TakesUp(c, w)
  <2>1. /\ \A d \in Conns, v \in JobWorkers : ~(d = c /\ v = w) => hands'[d][v] = hands[d][v]
        /\ hands'[c][w].pc = "claim"
    BY <1>3, Parts DEF SocketTyped, TakesUp
  <2>2. \A d \in Conns, v \in JobWorkers : ~(d = c /\ v = w) => (<<d, v>> \in Serving(k)' <=> <<d, v>> \in Serving(k))
    BY <1>1, <2>1, SameNumbers, ServingElsewhere
  <2>3. ~Holds(c, w, k) /\ ~Holds(c, w, k)'
    BY <1>1, <2>1 DEF Holds
  <2> QED BY <1>1, <2>2, <2>3, ServingIs, ServingSame DEF Rested
<1> QED BY <1>2, <1>3 DEF Take, TakesUp

LEMMA WorkServes ==
  ASSUME Faithful, NEW c \in Conns, NEW w \in JobWorkers, Work(c, w), NEW k \in Keys
  PROVE  Request(k)!Own(<<c, w>>) \/ Request(k)!Leave(<<c, w>>) \/ Rested(k)
<1>1. ASSUME NEW result, SendJobResult(c, w, result) PROVE Frees(c, w)
  BY <1>1 DEF SendJobResult, Frees
<1>2. CASE Claim(c, w)
  <2>1. hands[c][w].pc = "claim" /\ UNCHANGED paragraphs
    BY <1>2 DEF Claim, InHand
  <2>2. CASE Job(c, w).id = "none" /\ Advance(c, w, "reserve") /\ UNCHANGED claims
    BY <2>1, <2>2, ProceedServes DEF InWork
  <2>3. CASE /\ Job(c, w).id # "none" /\ ~Held(KeyOf(Job(c, w))) /\ claims[KeyOf(Job(c, w))].state # "paid"
             /\ claims' = SetClaim(Job(c, w), "held") /\ Advance(c, w, "reserve")
    BY <2>1, <2>3, ClaimServes
  <2>4. ASSUME NEW result, SendJobResult(c, w, result), UNCHANGED claims
        PROVE  Request(k)!Leave(<<c, w>>) \/ Rested(k)
    BY <1>1, <2>1, <2>4, SameServes
  <2> QED BY <1>2, <2>2, <2>3, <2>4 DEF Claim, shared
<1>3. CASE ReserveJob(c, w)
  <2>1. hands[c][w].pc = "reserve" /\ UNCHANGED paragraphs
    BY <1>3 DEF ReserveJob, InHand
  <2>2. CASE Advance(c, w, "provide") /\ UNCHANGED claims
    BY <2>1, <2>2, ProceedServes DEF InWork
  <2>3. ASSUME NEW result, SendJobResult(c, w, result), claims' = SetClaim(Job(c, w), "none")
        PROVE  Request(k)!Leave(<<c, w>>) \/ Rested(k)
    BY <1>1, <2>1, <2>3, SetServes
  <2> QED BY <1>3, <2>2, <2>3 DEF ReserveJob, shared
<1>4. CASE Translate(c, w)
  <2>1. hands[c][w].pc = "provide" /\ UNCHANGED paragraphs
    BY <1>4 DEF Translate, InHand
  <2>2. CASE Advance(c, w, "settle") /\ UNCHANGED claims
    BY <2>1, <2>2, ProceedServes DEF InWork
  <2>3. ASSUME NEW result, SendJobResult(c, w, result), claims' = SetClaim(Job(c, w), "failed")
        PROVE  Request(k)!Leave(<<c, w>>) \/ Rested(k)
    BY <1>1, <2>1, <2>3, SetServes
  <2>4. ASSUME NEW result, SendJobResult(c, w, result), UNCHANGED claims
        PROVE  Request(k)!Leave(<<c, w>>) \/ Rested(k)
    BY <1>1, <2>1, <2>4, SameServes
  <2> QED BY <1>4, <2>2, <2>3, <2>4 DEF Translate, shared
<1>5. CASE SettleJob(c, w)
  <2>1. hands[c][w].pc = "settle" /\ UNCHANGED paragraphs /\ Frees(c, w)
    BY <1>1, <1>5 DEF SettleJob, InHand
  <2>2. CASE claims' = SetClaim(Job(c, w), "paid")
    BY <2>1, <2>2, SetServes
  <2>3. CASE claims' = claims
    BY <2>1, <2>3, SameServes
  <2> QED BY <1>5, <2>2, <2>3 DEF SettleJob
<1> QED BY <1>2, <1>3, <1>4, <1>5, TakeServes DEF Work

LEMMA StepServes ==
  ASSUME Faithful, [SocketNext]_socketVars, NEW k \in Keys
  PROVE  [Request(k)!Next]_<<claims[k].state, Serving(k)>>
<1>1. ASSUME NEW c \in Conns, NEW w \in JobWorkers, Work(c, w)
      PROVE  Request(k)!Next \/ Rested(k)
  BY <1>1, WorkServes DEF Request!Next
<1>2. ASSUME Numbering, UNCHANGED <<hands, claims>> PROVE Rested(k)
  BY <1>2, QuietServes
<1> QED BY <1>1, <1>2, NotAWorker, Parts DEF Rested

\* In one process, whatever connections ask for the same request, on however
\* many workers, it is one claim that they use as RequestClaim promises: the
\* workers between ClaimTranslationRequest and the outcome are at most one, a
\* refused reservation gives the claim back, and no step of the read loops, of
\* the registry or of the deliveries touches it.
THEOREM EachRequestIsAClaim ==
  ASSUME NEW key \in Keys
  PROVE  SocketSpec => Request(key)!Spec
<1>1. SocketInit => Request(key)!Init
  <2> SUFFICES ASSUME SocketInit PROVE Request(key)!Init
    OBVIOUS
  <2>1. \A c \in Conns, w \in JobWorkers : <<c, w>> \notin Serving(key)
    BY ServingIs DEF SocketInit, Holds, NoJob
  <2>2. Serving(key) = {}
    BY <2>1, ServingIs
  <2> QED BY <2>2 DEF SocketInit, Request!Init
<1>2. Faithful /\ [SocketNext]_socketVars => [Request(key)!Next]_<<claims[key].state, Serving(key)>>
  BY StepServes
<1> QED BY <1>1, <1>2, SocketIsFaithful, PTL DEF SocketSpec, Request!Spec

================================================================================
