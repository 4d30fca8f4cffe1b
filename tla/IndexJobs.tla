----------------------------- MODULE IndexJobs -----------------------------
(***************************************************************************)
(* Semantic indexing of one knowledge project: a durable queue of paid      *)
(* embedding jobs over the project or one of its sources, workers that hold  *)
(* a job under a lease and a fencing token, and the owner, who creates,      *)
(* cancels and retries jobs and edits sources meanwhile. A source has one    *)
(* chunk. Session targets, other models, quotas and deletion are left out.   *)
(***************************************************************************)
EXTENDS Integers, FiniteSets

CONSTANTS
  Sources,      \* the project's sources, numbered in the order of their ids
  Project,      \* the target that is the whole project
  Workers,      \* worker goroutines of all pools
  Nobody,       \* no lease owner
  MaxJobs,      \* bound on jobs
  MaxAttempts,  \* max_attempts of a job
  MaxTurns      \* bound on cancellations, retries, edits, failures and crashes together

ASSUME IndexAssumption ==
  /\ Sources \subseteq Nat /\ IsFiniteSet(Sources) /\ Project \notin Sources
  /\ Nobody \notin Workers
  /\ {MaxJobs, MaxAttempts} \subseteq Nat \ {0}
  /\ MaxTurns \in Nat

VARIABLES
  job,          \* ai_index_jobs with their snapshots of chunks
  source,       \* knowledge_sources with their chunk
  worker,       \* what each worker is doing, for which job
  turns         \* cancellations, retries, edits, failures and crashes so far

vars == <<job, source, worker, turns>>

Jobs == 1..MaxJobs
Targets == Sources \cup {Project}
Covers(t) == IF t = Project THEN Sources ELSE {t}

(* A job: left is chunk_count - processed_chunks, seen the content digest    *)
(* per source, wanted the sources whose chunk is in the snapshot, changed    *)
(* the error message that says the target has changed. cancel_requested_at   *)
(* is set exactly while the status is "cancelled".                           *)
Absent ==
  [target |-> Project, status |-> "absent", attempts |-> 0, owner |-> Nobody, live |-> FALSE,
   seen |-> [s \in Sources |-> 0], wanted |-> {}, left |-> 0, changed |-> FALSE]

Idle == [pc |-> "idle", job |-> 1, source |-> Project, cut |-> FALSE, retry |-> FALSE, changed |-> FALSE]

Init ==
  /\ job = [j \in Jobs |-> Absent]
  /\ source = [s \in Sources |-> [version |-> 1, vector |-> 0, status |-> "unindexed"]]
  /\ worker = [w \in Workers |-> Idle]
  /\ turns = 0

Active(j) == job[j].status \in {"queued", "processing"}
Pending(t) == {s \in Covers(t) : source[s].vector # source[s].version}
Digest(t) == [s \in Sources |-> IF s \in Covers(t) THEN source[s].version ELSE 0]

(* setIndexTargetStatusTx on rows that this step may already have changed *)
Marked(rows, t, status) ==
  [s \in Sources |-> IF s \in Covers(t) THEN [rows[s] EXCEPT !.status = status] ELSE rows[s]]

Put(w, r) == worker' = [worker EXCEPT ![w] = r]
Goto(w, pc) == Put(w, [worker[w] EXCEPT !.pc = pc])
Finally(w, pc) == Put(w, [Idle EXCEPT !.pc = pc, !.job = worker[w].job])
Broken(w, retry, changed) ==
  Put(w, [Idle EXCEPT !.pc = "fail", !.job = worker[w].job, !.retry = retry, !.changed = changed])
Turn == turns < MaxTurns /\ turns' = turns + 1

(* The job's row is still this run's: every claim has a fresh token, and a   *)
(* worker has one run at a time, so the worker's name stands for its token.  *)
Leased(w) ==
  LET j == job[worker[w].job] IN j.status = "processing" /\ j.owner = w /\ j.live

-----------------------------------------------------------------------------
(* The owner's requests.                                                     *)

(* CreateAIIndexJob with a confirmation of the present content; an outdated  *)
(* one, a second active job in the project and a ready target are refused.   *)
Create(j, t) ==
  /\ job[j].status = "absent" /\ \A i \in 1..j - 1 : job[i].status # "absent"
  /\ \A i \in Jobs : ~Active(i)
  /\ Pending(t) # {}
  /\ job' = [job EXCEPT ![j] = [Absent EXCEPT !.target = t, !.status = "queued", !.seen = Digest(t),
                                              !.wanted = Pending(t), !.left = Cardinality(Pending(t))]]
  /\ source' = Marked(source, t, "queued")
  /\ UNCHANGED <<worker, turns>>

(* Mutant: a cancelled job lets go of its lease at once. *)
CancelFrees(j) ==
  /\ Turn
  /\ Active(j)
  /\ job' = [job EXCEPT ![j].status = "cancelled", ![j].live = FALSE, ![j].owner = Nobody]
  /\ source' = Marked(source, job[j].target, "unindexed")
  /\ UNCHANGED worker

(* CancelAIIndexJob keeps the lease of a running job until its worker has    *)
(* returned.                                                                 *)
Cancel(j) ==
  /\ Turn
  /\ Active(j)
  /\ job' = [job EXCEPT ![j].status = "cancelled",
                        ![j].live = @ /\ job[j].status = "processing",
                        ![j].owner = IF job[j].status = "processing" THEN @ ELSE Nobody]
  /\ source' = Marked(source, job[j].target, "unindexed")
  /\ UNCHANGED worker

Draining(j) == job[j].status = "cancelled" /\ job[j].owner # Nobody /\ job[j].live

(* RetryAIIndexJob: a job whose content has changed stays as it is, one that *)
(* is still draining is busy.                                                *)
Retry(j) ==
  /\ Turn
  /\ job[j].status \in {"error", "cancelled"} /\ ~job[j].changed
  /\ ~Draining(j)
  /\ \A i \in Jobs : ~Active(i)
  /\ Digest(job[j].target) = job[j].seen
  /\ job' = [job EXCEPT ![j].status = "queued", ![j].attempts = 0, ![j].owner = Nobody, ![j].live = FALSE]
  /\ source' = Marked(source, job[j].target, "queued")
  /\ UNCHANGED worker

(* coordinateAIIndexScopeMutationTx for a change of s, and the reset of the  *)
(* targets of the jobs that it cancels.                                      *)
Hit(s) == {j \in Jobs : Active(j) /\ s \in Covers(job[j].target)}
Fenced(s) ==
  [j \in Jobs |-> IF j \in Hit(s)
     THEN [job[j] EXCEPT !.status = "cancelled", !.changed = TRUE, !.owner = Nobody, !.live = FALSE]
     ELSE job[j]]

(* Mutant: only the changed source is reset, not the others of the project's *)
(* job.                                                                      *)
ResetNothing(s) == source

Reset(s) ==
  [u \in Sources |-> IF \E j \in Hit(s) : u \in Covers(job[j].target)
     THEN [source[u] EXCEPT !.status = "unindexed"] ELSE source[u]]

(* New content for a source: new chunks without vectors. *)
Edit(s) ==
  /\ Turn
  /\ job' = Fenced(s)
  /\ source' = [Reset(s) EXCEPT ![s] =
       [version |-> @.version + 1, vector |-> 0,
        status |-> IF @.status \in {"ready", "stale"} THEN "stale" ELSE "unindexed"]]
  /\ UNCHANGED worker

-----------------------------------------------------------------------------
(* The workers.                                                              *)

Lapsed(j) == job[j].status = "processing" /\ ~job[j].live
Spent == {j \in Jobs : Lapsed(j) /\ job[j].attempts >= MaxAttempts}

(* Mutant: only queued jobs are taken, not those whose worker has died. *)
QueuedOnly == {j \in Jobs : job[j].status = "queued" /\ job[j].attempts < MaxAttempts}

Ripe == {j \in Jobs : (job[j].status = "queued" \/ Lapsed(j)) /\ job[j].attempts < MaxAttempts}

(* ClaimAIIndexJobs: jobs out of attempts end, then the oldest is taken.     *)
Expired == [j \in Jobs |-> IF j \in Spent
              THEN [job[j] EXCEPT !.status = "error", !.owner = Nobody] ELSE job[j]]
Given == [s \in Sources |-> IF \E j \in Spent : s \in Covers(job[j].target)
              THEN [source[s] EXCEPT !.status = "error"] ELSE source[s]]

Claim(w) ==
  /\ worker[w].pc = "idle" /\ UNCHANGED turns
  /\ \/ /\ Ripe = {} /\ Spent # {}
        /\ job' = Expired /\ source' = Given /\ UNCHANGED worker
     \/ \E j \in Ripe :
          /\ \A i \in Ripe : j <= i
          /\ job' = [Expired EXCEPT ![j].status = "processing", ![j].owner = w, ![j].live = TRUE,
                                    ![j].attempts = @ + 1]
          /\ source' = Marked(Given, job[j].target, "processing")
          /\ Put(w, [Idle EXCEPT !.pc = "list", !.job = j])

(* ListKnowledgeChunksForIndex and selectKnowledgeEmbeddingBatch: the first  *)
(* source of the snapshot that has no vector yet. ErrLeaseLost goes straight *)
(* to the release, changed content to a failure that is not retried.         *)
Left(w) ==
  LET j == job[worker[w].job]
  IN {s \in j.wanted : source[s].version = j.seen[s] /\ source[s].vector # source[s].version}

List(w) ==
  LET j == job[worker[w].job] IN
  /\ worker[w].pc = "list" /\ ~worker[w].cut
  /\ \/ ~Leased(w) /\ Finally(w, "release")
     \/ Leased(w) /\ Digest(j.target) # j.seen /\ Broken(w, FALSE, TRUE)
     \/ Leased(w) /\ Digest(j.target) = j.seen /\ Left(w) = {} /\ Finally(w, "complete")
     \/ /\ Leased(w) /\ Digest(j.target) = j.seen
        /\ \E s \in Left(w) :
             /\ \A u \in Left(w) : s <= u
             /\ Put(w, [worker[w] EXCEPT !.pc = "fence", !.source = s])
  /\ UNCHANGED <<job, source, turns>>

(* ensureAIIndexProviderFence renews the lease right before the paid call.   *)
Fence(w) ==
  /\ worker[w].pc = "fence" /\ ~worker[w].cut
  /\ IF Leased(w) THEN Goto(w, "call") ELSE Finally(w, "release")
  /\ UNCHANGED <<job, source, turns>>

(* EmbedBatchForIndex answers, fails, or finds no money. *)
Call(w) ==
  /\ worker[w].pc = "call" /\ ~worker[w].cut
  /\ \/ Goto(w, "upsert") /\ UNCHANGED turns
     \/ \E retry \in BOOLEAN : Broken(w, retry, FALSE) /\ Turn
  /\ UNCHANGED <<job, source>>

(* UpsertKnowledgeChunkEmbeddingsForJob: only under the lease, and only into *)
(* a chunk of the snapshot that is still the one that was read.              *)
Fits(w) ==
  LET j == job[worker[w].job]
  IN j.left >= 1 /\ worker[w].source \in j.wanted /\ source[worker[w].source].version = j.seen[worker[w].source]

(* Mutant: vectors are written without the lease and by position. *)
UpsertUnfenced(w) ==
  LET i == worker[w].job
      s == worker[w].source
  IN
  /\ worker[w].pc = "upsert" /\ ~worker[w].cut /\ UNCHANGED turns
  /\ source' = [source EXCEPT ![s].vector = job[i].seen[s], ![s].status = "ready"]
  /\ UNCHANGED job
  /\ Put(w, [worker[w] EXCEPT !.pc = "list", !.source = Project])

Upsert(w) ==
  LET i == worker[w].job
      s == worker[w].source
  IN
  /\ worker[w].pc = "upsert" /\ ~worker[w].cut /\ UNCHANGED turns
  /\ \/ /\ Leased(w) /\ Fits(w)
        /\ source' = [source EXCEPT ![s].vector = job[i].seen[s], ![s].status = "ready"]
        /\ job' = [job EXCEPT ![i].left = @ - 1]
        /\ Put(w, [worker[w] EXCEPT !.pc = "list", !.source = Project])
     \/ Leased(w) /\ ~Fits(w) /\ Broken(w, FALSE, TRUE) /\ UNCHANGED <<job, source>>
     \/ ~Leased(w) /\ Finally(w, "release") /\ UNCHANGED <<job, source>>

(* CompleteAIIndexJob checks the digest and every chunk once more. *)
Complete(w) ==
  LET i == worker[w].job
      t == job[i].target
  IN
  /\ worker[w].pc = "complete" /\ UNCHANGED turns
  /\ \/ /\ Leased(w) /\ Digest(t) = job[i].seen /\ Pending(t) = {}
        /\ job' = [job EXCEPT ![i].status = "ready", ![i].left = 0, ![i].owner = Nobody, ![i].live = FALSE]
        /\ source' = Marked(source, t, "ready")
        /\ Finally(w, "release")
     \/ /\ Leased(w) /\ (Digest(t) # job[i].seen \/ Pending(t) # {})
        /\ Broken(w, FALSE, TRUE) /\ UNCHANGED <<job, source>>
     \/ ~Leased(w) /\ Finally(w, "release") /\ UNCHANGED <<job, source>>

(* FailAIIndexJob: another attempt, or the end. *)
Fail(w) ==
  LET i == worker[w].job
      again == worker[w].retry /\ job[i].attempts < MaxAttempts
  IN
  /\ worker[w].pc = "fail" /\ Finally(w, "release") /\ UNCHANGED turns
  /\ IF Leased(w)
     THEN /\ job' = [job EXCEPT ![i].status = IF again THEN "queued" ELSE "error", ![i].changed = worker[w].changed,
                                ![i].owner = Nobody, ![i].live = FALSE]
          /\ source' = Marked(source, job[i].target, IF again THEN "queued" ELSE "error")
     ELSE UNCHANGED <<job, source>>

(* ReleaseCancelledAIIndexJobLease ends the drain, last of all. *)
Release(w) ==
  LET i == worker[w].job IN
  /\ worker[w].pc = "release" /\ Put(w, Idle)
  /\ IF job[i].status = "cancelled" /\ job[i].owner = w
     THEN job' = [job EXCEPT ![i].owner = Nobody, ![i].live = FALSE]
     ELSE UNCHANGED job
  /\ UNCHANGED <<source, turns>>

-----------------------------------------------------------------------------
(* Time and faults.                                                          *)

Working(w) == worker[w].pc \in {"list", "fence", "call", "upsert"}

(* The run's context ends: the renewal finds the lease gone, or fails; the   *)
(* job was cancelled in this process; the run's 30 minutes are over.         *)
Cut(w) ==
  /\ Working(w) /\ ~worker[w].cut
  /\ Put(w, [worker[w] EXCEPT !.cut = TRUE])
  /\ \/ ~Leased(w) /\ UNCHANGED turns
     \/ Leased(w) /\ Turn
  /\ UNCHANGED <<job, source>>

(* Whatever the run does next then fails with the context's error. *)
Stop(w) == Working(w) /\ worker[w].cut /\ Broken(w, TRUE, FALSE) /\ UNCHANGED <<job, source, turns>>

(* A call of the store fails; a failed FailAIIndexJob is only logged. *)
StoreError(w) ==
  /\ \/ worker[w].pc \in {"list", "fence", "upsert", "complete"} /\ Broken(w, TRUE, FALSE)
     \/ worker[w].pc = "fail" /\ Finally(w, "release")
     \/ worker[w].pc = "release" /\ Put(w, Idle)
  /\ Turn /\ UNCHANGED <<job, source>>

Crash(w) == worker[w].pc # "idle" /\ Put(w, Idle) /\ Turn /\ UNCHANGED <<job, source>>

(* Three minutes without a renewal: while a run has its context, it renews   *)
(* every 45 s, and its context ends when a renewal fails.                    *)
Lapse(j) ==
  /\ job[j].live
  /\ \A w \in Workers : Working(w) /\ worker[w].job = j /\ job[j].owner = w => worker[w].cut
  /\ job' = [job EXCEPT ![j].live = FALSE]
  /\ UNCHANGED <<source, worker, turns>>

Work(w) ==
  \/ Claim(w) \/ List(w) \/ Fence(w) \/ Call(w) \/ Upsert(w) \/ Complete(w) \/ Fail(w) \/ Release(w) \/ Stop(w)

Owner == \/ \E j \in Jobs : Cancel(j) \/ Retry(j) \/ \E t \in Targets : Create(j, t)
         \/ \E s \in Sources : Edit(s)

Next ==
  \/ Owner
  \/ \E w \in Workers : Work(w) \/ Cut(w) \/ StoreError(w) \/ Crash(w)
  \/ \E j \in Jobs : Lapse(j)

(* Workers poll every three seconds, calls end with their contexts, and a    *)
(* lease that nobody renews lapses.                                          *)
Progress == (\E w \in Workers : Work(w)) \/ (\E j \in Jobs : Lapse(j))
Fairness == WF_vars(Progress)

Safe == Init /\ [][Next]_vars
Spec == Safe /\ Fairness

-----------------------------------------------------------------------------
(* Properties.                                                               *)

Statuses == {"unindexed", "queued", "processing", "ready", "stale", "error"}
Steps == {"idle", "list", "fence", "call", "upsert", "complete", "fail", "release"}

Attempts == 0..MaxAttempts

JobRow ==
  [target : Targets, status : {"absent", "queued", "processing", "ready", "error", "cancelled"},
   attempts : Attempts, owner : Workers \cup {Nobody}, live : BOOLEAN,
   seen : [Sources -> Nat], wanted : SUBSET Sources, left : Int, changed : BOOLEAN]
SourceRow == [version : Nat \ {0}, vector : Nat, status : Statuses]
Run == [pc : Steps, job : Jobs, source : Targets, cut : BOOLEAN, retry : BOOLEAN, changed : BOOLEAN]

TypeOK ==
  /\ job \in [Jobs -> JobRow]
  /\ source \in [Sources -> SourceRow]
  /\ worker \in [Workers -> Run]
  /\ turns \in 0..MaxTurns

(* A job has at most one worker at the provider whose run has not been cut   *)
(* off, so no two of them pay for a batch at once: not when its lease        *)
(* lapses, nor when it is cancelled and retried while the first worker is    *)
(* still there (ai_index_jobs.go:1377).                                      *)
OneCall ==
  \A v, w \in Workers :
    worker[v].pc = "call" /\ worker[w].pc = "call" /\ worker[v].job = worker[w].job
      /\ ~worker[v].cut /\ ~worker[w].cut => v = w

(* A source that is shown as queued or in work has a job that will take it   *)
(* out of that state: no cancellation, edit or late worker leaves it there.  *)
StatusHasJob ==
  \A s \in Sources : source[s].status \in {"queued", "processing"} =>
    \E j \in Jobs : Active(j) /\ s \in Covers(job[j].target)

(* A source that is shown as ready has a vector of its present content,      *)
(* however late the answer for the earlier one came.                         *)
ReadyIsIndexed ==
  \A s \in Sources :
    /\ source[s].vector \in {0, source[s].version}
    /\ source[s].status = "ready" => source[s].vector = source[s].version

(* Every job comes to an end: workers that die or lose their lease are       *)
(* followed by others until the attempts are used up.                        *)
JobEnds == <>[](\A j \in Jobs : ~Active(j))

=============================================================================
