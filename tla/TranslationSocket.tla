------------------------- MODULE TranslationSocket -------------------------
(***************************************************************************)
(* A user's translation websockets in one process. On each connection the   *)
(* read loop turns transcripts into numbered paragraphs, workers translate  *)
(* them in any order, and one goroutine writes the results in the order of  *)
(* their numbers. Connections share a registry of requests in flight, in    *)
(* which a paragraph that was submitted before waits for the first one's    *)
(* result, and the durable claims of TranslationReplay, here one row a      *)
(* request. AI translation is active, usage is metered, one speaker talks.  *)
(***************************************************************************)
EXTENDS Integers, Sequences, FiniteSets, SequencesExt

CONSTANTS
  Conns,        \* connections
  Plain,        \* those whose client sends transcripts without ids
  Identified,   \* those whose client gives ids
  Summarising,  \* those with summaries or retrieval
  JobWorkers,   \* worker goroutines of a connection
  Requests,     \* request ids a client may give
  Contents,     \* fingerprints of what they translate
  Sessions,     \* transcription sessions a connection may switch between
  First,        \* the session a connection begins with
  QueueCap,     \* capacity of the job queue (128)
  FlushSlots,   \* flush barriers that may be pending (8)
  MaxUnits,     \* bound on the transcripts of all connections
  MaxFaults     \* bound on failures, cuts and aged entries

ASSUME SocketAssumption ==
  /\ First \in Sessions /\ Contents # {} /\ "none" \notin Requests \cup Contents
  /\ Plain \subseteq Conns /\ Identified \subseteq Conns /\ Summarising \subseteq Conns
  /\ {QueueCap, FlushSlots} \subseteq Nat \ {0} /\ {MaxUnits, MaxFaults} \subseteq Nat

VARIABLES
  conn,         \* per connection: what its read loop and timer hold
  paragraphs,   \* the paragraphs submitted, by number
  jobs,         \* numbers of the queued ones
  hands,        \* what each worker has in hand
  waiting,      \* duplicates: goroutines that wait for an entry
  aux,          \* summary and ingestion tasks
  arrived,      \* results sent and not yet written
  written,      \* results written, in order
  registry,     \* request of a session -> its entry, 0 for none
  entries,      \* every registry entry that was made
  claims,       \* translation_request_results
  faults
socketVars == <<conn, paragraphs, jobs, hands, waiting, aux, arrived, written,
                registry, entries, claims, faults>>
shared == <<registry, entries, claims>>

Keys == Sessions \X Requests
NoJob == [pc |-> "idle", n |-> 0]
Pending == [kind |-> "pending", content |-> "none"]
Again == [kind |-> "again", content |-> "none"]       \* an error to retry
Failed == [kind |-> "failed", content |-> "none"]     \* a final error
Ok(content) == [kind |-> "ok", content |-> content]

SocketInit ==
  /\ conn = [c \in Conns |-> [phase |-> "open", cut |-> FALSE, gate |-> FALSE,
                session |-> First, to |-> First, target |-> 0, heard |-> 0, held |-> {},
                batch |-> {}, notes |-> FALSE, flushes |-> {}, acked |-> 0, context |-> {}]]
  /\ paragraphs = [c \in Conns |-> <<>>] /\ jobs = [c \in Conns |-> <<>>]
  /\ hands = [c \in Conns |-> [w \in JobWorkers |-> NoJob]]
  /\ waiting = [c \in Conns |-> {}] /\ aux = [c \in Conns |-> {}]
  /\ arrived = [c \in Conns |-> {}] /\ written = [c \in Conns |-> <<>>]
  /\ registry = [k \in Keys |-> 0] /\ entries = <<>>
  /\ claims = [k \in Keys |-> [state |-> "none", content |-> "none"]]
  /\ faults = 0

Fault == faults < MaxFaults /\ faults' = faults + 1
NoFault == UNCHANGED faults
Unnamed == CHOOSE content \in Contents : TRUE      \* never compared
Heard == MapThenSumSet(LAMBDA c : conn[c].heard, Conns)
KeyOf(p) == <<p.session, p.id>>

-----------------------------------------------------------------------------
(* The registry. Age is a flag: two minutes for an entry in flight, ten for *)
(* a completed one.                                                         *)

(* Complete: only the entry that still stands for its request is filled in, *)
(* once; a result to retry is forgotten. *)
Complete(p, result) ==
  IF p.entry = 0 \/ registry[KeyOf(p)] # p.entry \/ entries[p.entry].result # Pending
  THEN UNCHANGED <<registry, entries>>
  ELSE /\ entries' = [entries EXCEPT ![p.entry].result = result]
       /\ registry' = IF result = Again THEN [registry EXCEPT ![KeyOf(p)] = 0] ELSE registry

Expire(e) == IF entries[e].result = Pending THEN [entries EXCEPT ![e].result = Again] ELSE entries

(* sendResult: once the connection is cut, the result may be dropped. *)
Send(c, n, result) ==
  \/ arrived' = [arrived EXCEPT ![c] = @ \union {[seq |-> n, result |-> result]}]
  \/ conn[c].cut /\ UNCHANGED arrived

(* The paragraph goes to the queue; if it stays full for two seconds it is  *)
(* to be retried, and on a cut connection it may fail for good, unanswered. *)
Enqueue(c, p, registered, made) ==
  LET n == Len(paragraphs[c]) + 1
      known == p.id # "none"
      key == KeyOf(p)
      entry == Len(made) + 1
      with(result) == IF known THEN Append(made, [content |-> p.content, owner |-> c,
                                                  aged |-> FALSE, result |-> result])
                               ELSE made
      keep == IF known THEN [registered EXCEPT ![key] = entry] ELSE registered
  IN /\ paragraphs' = [paragraphs EXCEPT ![c] =
                         Append(@, IF known THEN [p EXCEPT !.entry = entry] ELSE p)]
     /\ \/ /\ Len(jobs[c]) < QueueCap
           /\ jobs' = [jobs EXCEPT ![c] = Append(@, n)]
           /\ entries' = with(Pending) /\ registry' = keep /\ UNCHANGED arrived
        \/ /\ Len(jobs[c]) = QueueCap
           /\ entries' = with(Again)
           /\ registry' = IF known THEN [registered EXCEPT ![key] = 0] ELSE registered
           /\ Send(c, n, Again) /\ UNCHANGED jobs
        \/ /\ conn[c].cut
           /\ entries' = with(Failed) /\ registry' = keep /\ UNCHANGED <<jobs, arrived>>
     /\ UNCHANGED waiting

(* Mutant: a paragraph whose request is registered gets a number, no result.*)
SubmitSilent(c, units, id, content) ==
  LET p == [units |-> units, id |-> id, content |-> content,
            session |-> conn[c].session, entry |-> 0]
      e == IF id = "none" THEN 0 ELSE registry[KeyOf(p)]
  IN IF e = 0 THEN Enqueue(c, p, registry, entries)
     ELSE /\ paragraphs' = [paragraphs EXCEPT ![c] = Append(@, p)]
          /\ UNCHANGED <<jobs, waiting, arrived, registry, entries>>

(* Mutant: a duplicate is recognised by its id alone. *)
SubmitById(c, units, id, content) ==
  LET n == Len(paragraphs[c]) + 1
      p == [units |-> units, id |-> id, content |-> content,
            session |-> conn[c].session, entry |-> 0]
      e == IF id = "none" THEN 0 ELSE registry[KeyOf(p)]
  IN IF e = 0 THEN Enqueue(c, p, registry, entries)
     ELSE /\ paragraphs' = [paragraphs EXCEPT ![c] = Append(@, p)]
          /\ waiting' = [waiting EXCEPT ![c] = @ \union {[seq |-> n, entry |-> e]}]
          /\ UNCHANGED <<jobs, arrived, registry, entries>>

(* submitParagraphs, with Begin: a number is given; the request is owned    *)
(* here, waits for the one in flight, or conflicts with it.                 *)
Submit(c, units, id, content) ==
  LET n == Len(paragraphs[c]) + 1
      p == [units |-> units, id |-> id, content |-> content,
            session |-> conn[c].session, entry |-> 0]
      e == IF id = "none" THEN 0 ELSE registry[KeyOf(p)]
  IN \/ /\ e = 0
        /\ Enqueue(c, p, registry, entries)
     \/ /\ e # 0 /\ entries[e].content = content /\ entries[e].aged
        /\ Enqueue(c, p, registry, Expire(e))
     \/ /\ e # 0 /\ entries[e].content = content /\ ~entries[e].aged
        /\ paragraphs' = [paragraphs EXCEPT ![c] = Append(@, p)]
        /\ waiting' = [waiting EXCEPT ![c] = @ \union {[seq |-> n, entry |-> e]}]
        /\ UNCHANGED <<jobs, arrived, registry, entries>>
     \/ /\ e # 0 /\ entries[e].content # content
        /\ paragraphs' = [paragraphs EXCEPT ![c] = Append(@, p)]
        /\ Send(c, n, Failed)
        /\ UNCHANGED <<jobs, waiting, registry, entries>>

(* What is held is submitted as one paragraph, and the retrieval buffer as  *)
(* a task. *)
SubmitUnits(c, units) ==
  /\ IF units = {} THEN UNCHANGED <<paragraphs, jobs, waiting, arrived, registry, entries>>
     ELSE Submit(c, units, "none", Unnamed)
  /\ aux' = IF conn[c].notes
            THEN [aux EXCEPT ![c] = @ \union {[unit |-> conn[c].heard, session |-> conn[c].session]}]
            ELSE aux

(* Begin also sweeps the registry once a minute, whoever calls it. *)
Sweep ==
  /\ \E k \in Keys : registry[k] # 0 /\ entries[registry[k]].aged
  /\ LET old == {k \in Keys : registry[k] # 0 /\ entries[registry[k]].aged} IN
     /\ registry' = [k \in Keys |-> IF k \in old THEN 0 ELSE registry[k]]
     /\ entries' = [e \in DOMAIN entries |->
          IF entries[e].result = Pending /\ \E k \in old : registry[k] = e
          THEN [entries[e] EXCEPT !.result = Again] ELSE entries[e]]
  /\ UNCHANGED <<conn, paragraphs, jobs, hands, waiting, aux, arrived, written, claims, faults>>

Age(k) ==
  /\ registry[k] # 0 /\ ~entries[registry[k]].aged /\ Fault
  /\ entries' = [entries EXCEPT ![registry[k]].aged = TRUE]
  /\ UNCHANGED <<conn, paragraphs, jobs, hands, waiting, aux, arrived, written, registry, claims>>

-----------------------------------------------------------------------------
(* The read loop and the flush timer, which share flushMu: it is taken      *)
(* while the timer holds a batch.                                           *)

Reading(c) == conn[c].phase = "open"
Unlocked(c) == conn[c].batch = {}

(* A transcript with an id is a paragraph of its own; without one it stays  *)
(* in the aggregation buffer or completes the paragraph. Its text joins the *)
(* retrieval buffer, which may be handed on.                                *)
Transcript(c, id, content, done, told) ==
  LET unit == conn[c].heard + 1
      units == IF id = "none" THEN conn[c].held \union {unit} ELSE {unit}
      submits == id # "none" \/ done
      task == [unit |-> unit, session |-> conn[c].session]
  IN /\ Reading(c) /\ Heard < MaxUnits
     /\ conn' = [conn EXCEPT ![c].heard = unit, ![c].notes = c \in Summarising /\ ~told,
                  ![c].held = IF id # "none" THEN @ ELSE IF done THEN {} ELSE units]
     /\ aux' = IF told THEN [aux EXCEPT ![c] = @ \union {task}] ELSE aux
     /\ IF submits THEN Submit(c, units, id, content)
        ELSE UNCHANGED <<paragraphs, jobs, waiting, arrived, registry, entries>>
     /\ UNCHANGED <<hands, written, claims>> /\ NoFault

TimerTakes(c) ==
  /\ conn[c].phase \in {"open", "switching"} /\ Unlocked(c) /\ conn[c].held # {}
  /\ conn' = [conn EXCEPT ![c].batch = conn[c].held, ![c].held = {}]
  /\ UNCHANGED <<paragraphs, jobs, hands, waiting, aux, arrived, written, shared, faults>>

TimerSubmits(c) ==
  /\ ~Unlocked(c)
  /\ SubmitUnits(c, conn[c].batch)
  /\ conn' = [conn EXCEPT ![c].batch = {}, ![c].notes = FALSE]
  /\ UNCHANGED <<hands, written, claims>> /\ NoFault

(* Mutant: flush does not take flushMu. *)
FlushUnlocked(c) ==
  LET target == Len(paragraphs'[c]) IN
  /\ Reading(c)
  /\ SubmitUnits(c, conn[c].held)
  /\ conn' = [conn EXCEPT ![c].held = {}, ![c].notes = FALSE,
       ![c].flushes = @ \union {[target |-> target, heard |-> conn[c].heard]}]
  /\ UNCHANGED <<hands, written, claims>> /\ NoFault

(* flush: everything heard is submitted under the lock; a barrier waits for *)
(* the last number, unless all the slots are taken. *)
Flush(c) ==
  LET target == Len(paragraphs'[c])
      barrier == [target |-> target, heard |-> conn[c].heard] IN
  /\ Reading(c) /\ Unlocked(c)
  /\ SubmitUnits(c, conn[c].held)
  /\ conn' = [conn EXCEPT ![c].held = {}, ![c].notes = FALSE,
       ![c].flushes = IF Cardinality(@) < FlushSlots THEN @ \union {barrier} ELSE @]
  /\ UNCHANGED <<hands, written, claims>> /\ NoFault

(* The barrier ends: acknowledged, or after its time without a promise. *)
Barrier(c, flush) ==
  /\ flush \in conn[c].flushes
  /\ \/ /\ Len(written[c]) >= flush.target
        /\ conn' = [conn EXCEPT ![c].flushes = @ \ {flush}, ![c].acked = Max({@, flush.heard})]
     \/ conn' = [conn EXCEPT ![c].flushes = @ \ {flush}]
  /\ UNCHANGED <<paragraphs, jobs, hands, waiting, aux, arrived, written, shared, faults>>

(* init with another session: everything of the old one is submitted, and   *)
(* the read loop waits for its results and its tasks.                       *)
Switch(c, to) ==
  /\ Reading(c) /\ Unlocked(c) /\ to # conn[c].session
  /\ SubmitUnits(c, conn[c].held)
  /\ conn' = [conn EXCEPT ![c].phase = "switching", ![c].to = to, ![c].held = {},
                ![c].notes = FALSE, ![c].target = Len(paragraphs'[c])]
  /\ UNCHANGED <<hands, written, claims>> /\ NoFault

(* Mutant: the new session does not wait for the old one's results. *)
SwitchEarly(c) ==
  /\ conn[c].phase = "switching" /\ aux[c] = {}
  /\ conn' = [conn EXCEPT ![c].phase = "open", ![c].session = conn[c].to, ![c].target = 0,
                ![c].held = {}, ![c].context = {}]
  /\ UNCHANGED <<paragraphs, jobs, hands, waiting, aux, arrived, written, shared, faults>>

(* resetSessionContext *)
Switched(c) ==
  /\ conn[c].phase = "switching" /\ Len(written[c]) >= conn[c].target /\ aux[c] = {}
  /\ conn' = [conn EXCEPT ![c].phase = "open", ![c].session = conn[c].to, ![c].target = 0,
                ![c].held = {}, ![c].context = {}]
  /\ UNCHANGED <<paragraphs, jobs, hands, waiting, aux, arrived, written, shared, faults>>

(* A task updates the summary of the connection; a cut one only counts.     *)
(* Uncertain accounting closes the paid flow.                               *)
Task(c, t) ==
  /\ t \in aux[c]
  /\ aux' = [aux EXCEPT ![c] = @ \ {t}]
  /\ \/ conn[c].cut /\ UNCHANGED conn /\ NoFault
     \/ ~conn[c].cut /\ NoFault
        /\ conn' = [conn EXCEPT ![c].context = @ \union {t.session}]
     \/ ~conn[c].cut /\ Fault /\ conn' = [conn EXCEPT ![c].gate = TRUE]
  /\ UNCHANGED <<paragraphs, jobs, hands, waiting, arrived, written, shared>>

-----------------------------------------------------------------------------
(* The workers. *)

InHand(c, w, pc) == hands[c][w].pc = pc
Job(c, w) == paragraphs[c][hands[c][w].n]
Advance(c, w, pc) == hands' = [hands EXCEPT ![c][w].pc = pc]

(* sendJobResult *)
SendJobResult(c, w, result) ==
  /\ Complete(Job(c, w), result) /\ Send(c, hands[c][w].n, result)
  /\ hands' = [hands EXCEPT ![c][w] = NoJob]

SetClaim(p, state) ==
  IF p.id = "none" THEN claims
  ELSE [claims EXCEPT ![KeyOf(p)] = [state |-> state,
           content |-> IF state = "none" THEN "none" ELSE p.content]]

(* A job that waited longer than its budget of 90 s is to be retried; an    *)
(* entry of two minutes is older than that. *)
Overdue(p) == p.entry # 0 /\ entries[p.entry].aged

Take(c, w) ==
  /\ InHand(c, w, "idle") /\ jobs[c] # <<>> /\ conn[c].phase # "closed"
  /\ jobs' = [jobs EXCEPT ![c] = Tail(@)]
  /\ \/ /\ ~Overdue(paragraphs[c][Head(jobs[c])])
        /\ hands' = [hands EXCEPT ![c][w] = [pc |-> "claim", n |-> Head(jobs[c])]]
        /\ NoFault /\ UNCHANGED <<arrived, registry, entries>>
     \/ /\ IF Overdue(paragraphs[c][Head(jobs[c])]) THEN NoFault ELSE Fault
        /\ Complete(paragraphs[c][Head(jobs[c])], Again)
        /\ Send(c, Head(jobs[c]), Again) /\ UNCHANGED hands
  /\ UNCHANGED <<conn, paragraphs, waiting, aux, written, claims>>

(* Some worker holds the claim. It is taken over only when none does:       *)
(* TranslationReplay shows what that takes. *)
Held(key) == \E c \in Conns, w \in JobWorkers :
  /\ hands[c][w].pc \in {"reserve", "provide", "settle"}
  /\ Job(c, w).id # "none" /\ KeyOf(Job(c, w)) = key

(* ClaimTranslationRequest, within the budget: owned, still in hand         *)
(* elsewhere, replayed, or in conflict with what the request meant before.  *)
Claim(c, w) ==
  LET p == Job(c, w)
      key == KeyOf(p)
      claim == claims[key]
      asks == p.id # "none" /\ ~Overdue(p)
      same == claim.content \in {"none", p.content}
      answer(result) == SendJobResult(c, w, result) /\ UNCHANGED claims
  IN /\ InHand(c, w, "claim")
     /\ \/ /\ p.id = "none" /\ Advance(c, w, "reserve")
           /\ UNCHANGED <<arrived, shared>> /\ NoFault
        \/ /\ asks /\ same /\ claim.state # "paid" /\ ~Held(key)
           /\ claims' = SetClaim(p, "held") /\ Advance(c, w, "reserve")
           /\ UNCHANGED <<arrived, registry, entries>> /\ NoFault
        \/ asks /\ same /\ claim.state = "held" /\ answer(Again) /\ NoFault
        \/ asks /\ same /\ claim.state = "paid" /\ answer(Ok(claim.content)) /\ NoFault
        \/ asks /\ ~same /\ answer(Failed) /\ NoFault
        \/ p.id # "none" /\ answer(Again) /\ IF Overdue(p) THEN NoFault ELSE Fault
     /\ UNCHANGED <<conn, paragraphs, jobs, waiting, aux, written>>

(* The paid flow is closed, or the reservation is refused: the claim is     *)
(* given back. *)
ReserveJob(c, w) ==
  LET refuse(result) ==
        claims' = SetClaim(Job(c, w), "none") /\ SendJobResult(c, w, result) IN
  /\ InHand(c, w, "reserve")
  /\ \/ conn[c].gate /\ refuse(Again) /\ NoFault
     \/ ~conn[c].gate /\ Advance(c, w, "provide") /\ UNCHANGED <<arrived, shared>> /\ NoFault
     \/ ~conn[c].gate /\ (refuse(Again) \/ refuse(Failed)) /\ Fault
  /\ UNCHANGED <<conn, paragraphs, jobs, waiting, aux, written>>

(* The provider fails, by itself or because the connection was cut; when    *)
(* the refund fails too the paid flow is closed and the claim stays. *)
Translate(c, w) ==
  /\ InHand(c, w, "provide")
  /\ \/ Advance(c, w, "settle") /\ UNCHANGED <<arrived, shared, conn>> /\ NoFault
     \/ /\ claims' = SetClaim(Job(c, w), "failed")
        /\ \/ SendJobResult(c, w, Again) /\ Fault
           \/ SendJobResult(c, w, Failed) /\ IF conn[c].cut THEN NoFault ELSE Fault
        /\ UNCHANGED conn
     \/ /\ Fault /\ conn' = [conn EXCEPT ![c].gate = TRUE]
        /\ SendJobResult(c, w, IF Job(c, w).id = "none" THEN Failed ELSE Again) /\ UNCHANGED claims
  /\ UNCHANGED <<paragraphs, jobs, waiting, aux, written>>

(* Mutant: without a settlement the translation is withheld. *)
SettleWithheld(c, w) ==
  /\ InHand(c, w, "settle")
  /\ \/ claims' = SetClaim(Job(c, w), "paid") /\ SendJobResult(c, w, Ok(Job(c, w).content)) /\ NoFault
     \/ claims' \in {SetClaim(Job(c, w), "paid"), claims} /\ SendJobResult(c, w, Failed) /\ Fault
  /\ UNCHANGED <<conn, paragraphs, jobs, waiting, aux, written>>

(* The translation is delivered even if its settlement reports an error,    *)
(* committed or not; then the paid flow is closed. *)
SettleJob(c, w) ==
  /\ InHand(c, w, "settle")
  /\ \/ /\ claims' = SetClaim(Job(c, w), "paid") /\ NoFault
        /\ conn' = [conn EXCEPT ![c].context = @ \union {Job(c, w).session}]
     \/ /\ claims' \in {SetClaim(Job(c, w), "paid"), claims} /\ Fault
        /\ conn' = [conn EXCEPT ![c].context = @ \union {Job(c, w).session}, ![c].gate = TRUE]
  /\ SendJobResult(c, w, Ok(Job(c, w).content))
  /\ UNCHANGED <<paragraphs, jobs, waiting, aux, written>>

Work(c, w) == Take(c, w) \/ Claim(c, w) \/ ReserveJob(c, w) \/ Translate(c, w) \/ SettleJob(c, w)
-----------------------------------------------------------------------------
(* Delivery. *)

(* Mutant: the goroutine waits on, whether the connection is left or not. *)
ReplayForever(c, x) ==
  /\ x \in waiting[c] /\ entries[x.entry].result # Pending
  /\ waiting' = [waiting EXCEPT ![c] = @ \ {x}]
  /\ Send(c, x.seq, entries[x.entry].result)
  /\ UNCHANGED <<conn, paragraphs, jobs, hands, aux, written, shared, faults>>

(* A duplicate's goroutine passes the entry's result on, or stops waiting   *)
(* when the connection is left. *)
Replay(c, x) ==
  /\ x \in waiting[c]
  /\ waiting' = [waiting EXCEPT ![c] = @ \ {x}]
  /\ \/ entries[x.entry].result # Pending /\ Send(c, x.seq, entries[x.entry].result)
     \/ (conn[c].cut \/ conn[c].phase \notin {"open", "switching"}) /\ UNCHANGED arrived
  /\ UNCHANGED <<conn, paragraphs, jobs, hands, aux, written, shared, faults>>

Due(c) == {r \in arrived[c] : r.seq = Len(written[c]) + 1}

Deliver(c) ==
  \E r \in Due(c) :
    /\ written' = [written EXCEPT ![c] = Append(@, r.result)]
    /\ arrived' = [arrived EXCEPT ![c] = @ \ {r}]
    /\ UNCHANGED <<conn, paragraphs, jobs, hands, waiting, aux, shared, faults>>

-----------------------------------------------------------------------------
(* The end of a connection. *)

(* cancel: the auxiliary queue stayed full, or one of the waits below took  *)
(* too long. *)
Cut(c) ==
  /\ conn[c].phase # "closed" /\ ~conn[c].cut /\ Fault
  /\ conn' = [conn EXCEPT ![c].cut = TRUE]
  /\ UNCHANGED <<paragraphs, jobs, hands, waiting, aux, arrived, written, shared>>

(* The client is gone, the flow was closed, or a switch took too long: the  *)
(* read loop ends and nothing waits for deliveries any more. *)
Leave(c) ==
  /\ conn[c].phase \in {"open", "switching"}
  /\ conn' = [conn EXCEPT ![c].phase = "left", ![c].target = 0, ![c].flushes = {}]
  /\ UNCHANGED <<paragraphs, jobs, hands, waiting, aux, arrived, written, shared, faults>>

(* The timer has stopped; what is held is submitted and the queue closed. *)
FinalFlush(c) ==
  /\ conn[c].phase = "left" /\ Unlocked(c)
  /\ SubmitUnits(c, conn[c].held)
  /\ conn' = [conn EXCEPT ![c].phase = "finishing", ![c].held = {}, ![c].notes = FALSE]
  /\ UNCHANGED <<hands, written, claims>> /\ NoFault

(* Mutant: the workers are not waited for. *)
CloseEarly(c) ==
  /\ conn[c].phase = "finishing" /\ waiting[c] = {} /\ aux[c] = {}
  /\ conn' = [conn EXCEPT ![c].phase = "closed"]
  /\ jobs' = [jobs EXCEPT ![c] = <<>>]
  /\ hands' = [hands EXCEPT ![c] = [w \in JobWorkers |-> NoJob]]
  /\ UNCHANGED <<paragraphs, waiting, aux, arrived, written, shared, faults>>

(* The workers are done, with a cut leaving the queue as it is; results are *)
(* written as far as they are in order, and the tasks have ended. *)
Close(c) ==
  /\ conn[c].phase = "finishing" /\ (jobs[c] = <<>> \/ conn[c].cut)
  /\ \A w \in JobWorkers : InHand(c, w, "idle")
  /\ waiting[c] = {} /\ Due(c) = {} /\ aux[c] = {}
  /\ conn' = [conn EXCEPT ![c].phase = "closed"]
  /\ jobs' = [jobs EXCEPT ![c] = <<>>] /\ arrived' = [arrived EXCEPT ![c] = {}]
  /\ UNCHANGED <<paragraphs, hands, waiting, aux, written, shared, faults>>

SocketNext ==
  \/ Sweep
  \/ \E k \in Keys : Age(k)
  \/ \E c \in Conns :
       \/ \E told \in {FALSE, (c \in Summarising)} :
            \/ /\ c \in Identified
               /\ \E id \in Requests, content \in Contents : Transcript(c, id, content, TRUE, told)
            \/ /\ c \in Plain
               /\ \E done \in BOOLEAN : Transcript(c, "none", Unnamed, done, told)
       \/ TimerTakes(c) \/ TimerSubmits(c) \/ Flush(c)
       \/ \E flush \in conn[c].flushes : Barrier(c, flush)
       \/ \E to \in Sessions : Switch(c, to)
       \/ Switched(c)
       \/ \E t \in aux[c] : Task(c, t)
       \/ \E w \in JobWorkers : Work(c, w)
       \/ \E x \in waiting[c] : Replay(c, x)
       \/ Deliver(c) \/ Cut(c) \/ Leave(c) \/ FinalFlush(c) \/ Close(c)

(* Goroutines run; provider and database calls have deadlines; a connection *)
(* that was cut or whose flow was closed has its socket closed. A client    *)
(* need not speak or leave, and nothing need ever age or be swept. Every    *)
(* such step uses something up, so that it is enough that some step is      *)
(* taken while one can be.                                                  *)
Progress == \E c \in Conns :
  \/ Deliver(c) \/ \E w \in JobWorkers : Work(c, w)
  \/ \E x \in waiting[c] : Replay(c, x)
  \/ \E t \in aux[c] : Task(c, t)
  \/ TimerTakes(c) \/ TimerSubmits(c)
  \/ (conn[c].cut \/ conn[c].gate) /\ Leave(c)
  \/ FinalFlush(c) \/ Close(c)

SocketSpec == SocketInit /\ [][SocketNext]_socketVars /\ WF_socketVars(Progress)

-----------------------------------------------------------------------------
(* Properties                                                              *)

(* When "pending buffers flushed" is sent, every transcript heard before    *)
(* the flush, also one that the timer had just taken up, is part of a       *)
(* paragraph whose result was written before.                               *)
FlushIsTrue == \A c \in Conns : \A unit \in 1..conn[c].acked :
  \E n \in 1..Len(written[c]) : unit \in paragraphs[c][n].units

(* The context of a session's translations and its summary never hold text  *)
(* of another session of the same connection.                               *)
SessionsApart == \A c \in Conns : conn[c].context \subseteq {conn[c].session}

(* A translation that is delivered for a paragraph is one of that paragraph,*)
(* whatever was submitted under the same request id before.                 *)
AnswersMatch == \A c \in Conns : \A n \in 1..Len(written[c]) :
  written[c][n].kind = "ok" => written[c][n].content = paragraphs[c][n].content

(* A connection that ends without a cut has finished what it accepted:      *)
(* every transcript is in a paragraph, and every request that was           *)
(* registered has its outcome, for the client to fetch when it reconnects.  *)
AcceptedIsFinished == \A c \in Conns :
  conn[c].phase = "closed" /\ ~conn[c].cut =>
    /\ \A unit \in 1..conn[c].heard :
         \E n \in DOMAIN paragraphs[c] : unit \in paragraphs[c][n].units
    /\ \A n \in DOMAIN paragraphs[c] :
         paragraphs[c][n].entry # 0 => entries[paragraphs[c][n].entry].result # Pending

(* A paid translation is not lost to its client: while it stands, whoever   *)
(* repeats the request word for word gets it or is told to try again, and   *)
(* is never refused for good, unless on the word of a connection that was   *)
(* cut. *)
PaidIsServed == \A k \in Keys : registry[k] # 0 =>
  LET entry == entries[registry[k]] IN
  claims[k] = [state |-> "paid", content |-> entry.content] /\ ~conn[entry.owner].cut
    => entry.result # Failed

(* Some paragraph waits for the result of a connection that was cut, and    *)
(* whose entry nobody fills in until it is swept.                           *)
Stranded(c) == \E x \in waiting[c] : conn[entries[x.entry].owner].cut

(* No failure, conflict, duplicate or slow worker blocks the results behind *)
(* it: each number is written, unless the connection ends or waits for one  *)
(* that was cut.                                                            *)
Answered == \A c \in Conns, n \in 1..MaxUnits :
  (n \in DOMAIN paragraphs[c]) ~>
    (n <= Len(written[c]) \/ conn[c].phase \notin {"open", "switching"} \/ Stranded(c))

(* A connection that is left ends.                                          *)
Ends == \A c \in Conns : (conn[c].phase = "left") ~> (conn[c].phase = "closed")

-----------------------------------------------------------------------------
(* Who is between the claim of a request and its outcome.                   *)
Serving(key) == {x \in Conns \X JobWorkers :
  /\ hands[x[1]][x[2]].pc \in {"reserve", "provide", "settle"}
  /\ Job(x[1], x[2]).id # "none" /\ KeyOf(Job(x[1], x[2])) = key}

(* The websockets' reduced claim of a request promises what the detailed    *)
(* protocol of TranslationReplay does.                                      *)
Request(key) == INSTANCE RequestClaim WITH
  Workers <- Conns \X JobWorkers, state <- claims[key].state, owners <- Serving(key)
=============================================================================
