--------------------------- MODULE IndexJobsProofs ---------------------------
(***************************************************************************)
(* Theorems about the index jobs of a project, for every number of sources, *)
(* workers, jobs and attempts.                                              *)
(***************************************************************************)
EXTENDS IndexJobs, FiniteSetTheorems, TLAPS

-----------------------------------------------------------------------------
(* Types                                                                    *)

LEMMA Settings ==
  /\ Sources \subseteq Nat /\ Project \notin Sources /\ Nobody \notin Workers
  /\ MaxJobs \in Nat /\ MaxJobs > 0 /\ MaxAttempts \in Nat /\ MaxAttempts > 0 /\ MaxTurns \in Nat
BY IndexAssumption

\* What a worker's record may become.
LEMMA IdleTyped == Idle \in Run
BY Settings DEF Idle, Run, Jobs, Targets, Steps

LEMMA PutTyped ==
  ASSUME TypeOK, NEW w \in Workers, NEW r \in Run, Put(w, r)
  PROVE  worker' \in [Workers -> Run]
BY DEF TypeOK, Put

LEMMA GotoTyped ==
  ASSUME TypeOK, NEW w \in Workers, NEW pc \in Steps, Goto(w, pc)
  PROVE  worker' \in [Workers -> Run]
<1>1. [worker[w] EXCEPT !.pc = pc] \in Run
  BY DEF TypeOK, Run
<1> QED BY <1>1, PutTyped DEF Goto

LEMMA FinallyTyped ==
  ASSUME TypeOK, NEW w \in Workers, NEW pc \in Steps, Finally(w, pc)
  PROVE  worker' \in [Workers -> Run]
<1>1. [Idle EXCEPT !.pc = pc, !.job = worker[w].job] \in Run
  BY IdleTyped DEF TypeOK, Run
<1> QED BY <1>1, PutTyped DEF Finally

LEMMA BrokenTyped ==
  ASSUME TypeOK, NEW w \in Workers, NEW retry \in BOOLEAN, NEW changed \in BOOLEAN, Broken(w, retry, changed)
  PROVE  worker' \in [Workers -> Run]
<1>1. [Idle EXCEPT !.pc = "fail", !.job = worker[w].job, !.retry = retry, !.changed = changed] \in Run
  BY IdleTyped DEF TypeOK, Run, Steps
<1> QED BY <1>1, PutTyped DEF Broken

LEMMA MarkedTyped ==
  ASSUME NEW rows \in [Sources -> SourceRow], NEW t, NEW status \in Statuses
  PROVE  Marked(rows, t, status) \in [Sources -> SourceRow]
<1> SUFFICES ASSUME NEW s \in Sources
             PROVE  (IF s \in Covers(t) THEN [rows[s] EXCEPT !.status = status] ELSE rows[s]) \in SourceRow
  BY DEF Marked
<1>1. rows[s] \in SourceRow
  OBVIOUS
<1> QED BY <1>1 DEF SourceRow

LEMMA AttemptsFacts ==
  /\ 0 \in Attempts
  /\ \A a \in Attempts : a \in Nat /\ (a < MaxAttempts => a + 1 \in Attempts)
BY Settings DEF Attempts

LEMMA DigestTyped == ASSUME TypeOK, NEW t PROVE Digest(t) \in [Sources -> Nat]
BY DEF Digest, TypeOK, SourceRow

LEMMA PendingTyped ==
  ASSUME TypeOK, NEW t \in Targets PROVE Pending(t) \in SUBSET Sources /\ Cardinality(Pending(t)) \in Nat
<1>1. Pending(t) \subseteq Sources
  BY Settings DEF Pending, Covers, Targets
<1>2. IsFiniteSet(Sources)
  BY IndexAssumption
<1> QED BY <1>1, <1>2, FS_Subset, FS_CardinalityType

LEMMA TurnTyped == ASSUME TypeOK, Turn PROVE turns' \in 0..MaxTurns
BY Settings DEF TypeOK, Turn

LEMMA CreateTyped == ASSUME TypeOK, NEW j \in Jobs, NEW t \in Targets, Create(j, t) PROVE TypeOK'
<1> DEFINE new == [Absent EXCEPT !.target = t, !.status = "queued", !.seen = Digest(t),
                                 !.wanted = Pending(t), !.left = Cardinality(Pending(t))]
<1>1. Digest(t) \in [Sources -> Nat] /\ Pending(t) \in SUBSET Sources /\ Cardinality(Pending(t)) \in Int
  BY DigestTyped, PendingTyped
<1>0. Absent \in JobRow
  BY AttemptsFacts DEF JobRow, Absent, Targets
<1>2. new \in JobRow
  BY <1>0, <1>1 DEF JobRow
<1>3. job' = [job EXCEPT ![j] = new]
  BY DEF Create
<1> HIDE DEF new
<1>4. job' \in [Jobs -> JobRow]
  BY <1>2, <1>3 DEF TypeOK
<1>5. source' \in [Sources -> SourceRow]
  BY MarkedTyped DEF Create, TypeOK, Statuses
<1> QED BY <1>4, <1>5 DEF TypeOK, Create

LEMMA CancelTyped == ASSUME TypeOK, NEW j \in Jobs, Cancel(j) PROVE TypeOK'
<1>1. job[j] \in JobRow
  BY DEF TypeOK
<1>2. job' \in [Jobs -> JobRow]
  BY <1>1 DEF TypeOK, Cancel, JobRow
<1>3. source' \in [Sources -> SourceRow]
  BY MarkedTyped DEF Cancel, TypeOK, Statuses
<1> QED BY <1>2, <1>3, TurnTyped DEF TypeOK, Cancel

LEMMA RetryTyped == ASSUME TypeOK, NEW j \in Jobs, Retry(j) PROVE TypeOK'
<1>1. job[j] \in JobRow
  BY DEF TypeOK
<1>2. [job[j] EXCEPT !.status = "queued", !.attempts = 0, !.owner = Nobody, !.live = FALSE] \in JobRow
  BY <1>1, AttemptsFacts DEF JobRow
<1>4. job' \in [Jobs -> JobRow]
  BY <1>2 DEF TypeOK, Retry
<1>3. source' \in [Sources -> SourceRow]
  BY MarkedTyped DEF Retry, TypeOK, Statuses
<1> QED BY <1>3, <1>4, TurnTyped DEF TypeOK, Retry

LEMMA EditTyped == ASSUME TypeOK, NEW s \in Sources, Edit(s) PROVE TypeOK'
<1>1. Fenced(s) \in [Jobs -> JobRow]
  <2> SUFFICES ASSUME NEW j \in Jobs
               PROVE  (IF j \in Hit(s)
                       THEN [job[j] EXCEPT !.status = "cancelled", !.changed = TRUE, !.owner = Nobody, !.live = FALSE]
                       ELSE job[j]) \in JobRow
    BY DEF Fenced
  <2>1. job[j] \in JobRow
    BY DEF TypeOK
  <2> QED BY <2>1 DEF JobRow
<1>2. Reset(s) \in [Sources -> SourceRow]
  <2> SUFFICES ASSUME NEW u \in Sources
               PROVE  (IF \E j \in Hit(s) : u \in Covers(job[j].target)
                       THEN [source[u] EXCEPT !.status = "unindexed"] ELSE source[u]) \in SourceRow
    BY DEF Reset
  <2>1. source[u] \in SourceRow
    BY DEF TypeOK
  <2> QED BY <2>1 DEF SourceRow, Statuses
<1>3. source' \in [Sources -> SourceRow]
  BY <1>2 DEF Edit, SourceRow, Statuses
<1> QED BY <1>1, <1>3, TurnTyped DEF TypeOK, Edit

LEMMA ExpiredTyped == ASSUME TypeOK PROVE Expired \in [Jobs -> JobRow] /\ Given \in [Sources -> SourceRow]
<1>1. ASSUME NEW j \in Jobs
      PROVE  (IF j \in Spent THEN [job[j] EXCEPT !.status = "error", !.owner = Nobody] ELSE job[j]) \in JobRow
  <2>1. job[j] \in JobRow
    BY DEF TypeOK
  <2> QED BY <2>1 DEF JobRow
<1>2. ASSUME NEW s \in Sources
      PROVE  (IF \E j \in Spent : s \in Covers(job[j].target)
              THEN [source[s] EXCEPT !.status = "error"] ELSE source[s]) \in SourceRow
  <2>1. source[s] \in SourceRow
    BY DEF TypeOK
  <2> QED BY <2>1 DEF SourceRow, Statuses
<1> QED BY <1>1, <1>2 DEF Expired, Given

LEMMA ClaimTyped == ASSUME TypeOK, NEW w \in Workers, Claim(w) PROVE TypeOK'
<1>1. CASE job' = Expired /\ source' = Given /\ UNCHANGED worker
  BY <1>1, ExpiredTyped DEF TypeOK, Claim
<1>2. ASSUME NEW j \in Ripe,
             job' = [Expired EXCEPT ![j].status = "processing", ![j].owner = w, ![j].live = TRUE,
                                    ![j].attempts = @ + 1],
             source' = Marked(Given, job[j].target, "processing"),
             Put(w, [Idle EXCEPT !.pc = "list", !.job = j])
      PROVE  TypeOK'
  <2>1. j \in Jobs /\ job[j] \in JobRow /\ job[j].attempts < MaxAttempts
    BY <1>2 DEF Ripe, TypeOK
  <2>2. j \notin Spent
    BY <2>1, AttemptsFacts, Settings DEF Spent, JobRow
  <2>3. Expired[j] = job[j]
    BY <2>1, <2>2 DEF Expired
  <2>4. [Expired[j] EXCEPT !.status = "processing", !.owner = w, !.live = TRUE,
                           !.attempts = Expired[j].attempts + 1] \in JobRow
    <3>1. job[j].attempts + 1 \in Attempts
      BY <2>1, AttemptsFacts DEF JobRow
    <3> QED BY <2>1, <2>3, <3>1 DEF JobRow
  <2>5. job' \in [Jobs -> JobRow]
    BY <1>2, <2>1, <2>4, ExpiredTyped
  <2>6. source' \in [Sources -> SourceRow]
    BY <1>2, ExpiredTyped, MarkedTyped DEF Statuses
  <2>7. worker' \in [Workers -> Run]
    <3>1. [Idle EXCEPT !.pc = "list", !.job = j] \in Run
      BY <2>1, IdleTyped DEF Run, Steps
    <3> QED BY <1>2, <3>1, PutTyped
  <2> QED BY <2>5, <2>6, <2>7 DEF TypeOK, Claim
<1> QED BY <1>1, <1>2 DEF Claim

LEMMA ListTyped == ASSUME TypeOK, NEW w \in Workers, List(w) PROVE TypeOK'
<1>1. worker[w] \in Run
  BY DEF TypeOK
<1>2. ASSUME NEW s \in Left(w), Put(w, [worker[w] EXCEPT !.pc = "fence", !.source = s])
      PROVE  worker' \in [Workers -> Run]
  <2>1. s \in Sources
    BY <1>1, <1>2 DEF Left, TypeOK, JobRow, Run
  <2>2. [worker[w] EXCEPT !.pc = "fence", !.source = s] \in Run
    BY <1>1, <2>1 DEF Run, Targets, Steps
  <2> QED BY <1>2, <2>2, PutTyped
<1>3. worker' \in [Workers -> Run]
  BY <1>2, FinallyTyped, BrokenTyped DEF List, Steps
<1> QED BY <1>3 DEF TypeOK, List

LEMMA FenceTyped == ASSUME TypeOK, NEW w \in Workers, Fence(w) PROVE TypeOK'
<1>1. worker' \in [Workers -> Run]
  BY FinallyTyped, GotoTyped DEF Fence, Steps
<1> QED BY <1>1 DEF TypeOK, Fence

LEMMA CallTyped == ASSUME TypeOK, NEW w \in Workers, Call(w) PROVE TypeOK'
<1>1. worker' \in [Workers -> Run]
  BY GotoTyped, BrokenTyped DEF Call, Steps
<1>2. turns' \in 0..MaxTurns
  BY TurnTyped DEF Call, TypeOK
<1> QED BY <1>1, <1>2 DEF TypeOK, Call

\* A run whose lease holds has a row of its own.
LEMMA RowOfRun ==
  ASSUME TypeOK, NEW w \in Workers
  PROVE  worker[w] \in Run /\ worker[w].job \in Jobs /\ job[worker[w].job] \in JobRow
BY DEF TypeOK, Run

LEMMA LeftTyped == ASSUME NEW r \in JobRow, NEW l \in Int PROVE [r EXCEPT !.left = l] \in JobRow
BY DEF JobRow

LEMMA UpsertTyped == ASSUME TypeOK, NEW w \in Workers, Upsert(w) PROVE TypeOK'
<1> DEFINE i == worker[w].job
           s == worker[w].source
<1>1. worker[w] \in Run /\ i \in Jobs /\ job[i] \in JobRow
  BY RowOfRun
<1>2. CASE /\ Leased(w) /\ Fits(w)
           /\ source' = [source EXCEPT ![s].vector = job[i].seen[s], ![s].status = "ready"]
           /\ job' = [job EXCEPT ![i].left = @ - 1]
           /\ Put(w, [worker[w] EXCEPT !.pc = "list", !.source = Project])
  <2>1. s \in Sources
    BY <1>1, <1>2 DEF Fits, JobRow
  <2>2. [source[s] EXCEPT !.vector = job[i].seen[s], !.status = "ready"] \in SourceRow
    <3> DEFINE v == job[i].seen[s]
    <3>1. v \in Nat /\ source[s] \in SourceRow
      BY <1>1, <2>1 DEF TypeOK, JobRow
    <3> HIDE DEF v
    <3>2. [source[s] EXCEPT !.vector = v, !.status = "ready"] \in SourceRow
      BY <3>1 DEF SourceRow, Statuses
    <3> QED BY <3>2 DEF v
  <2>3. source' \in [Sources -> SourceRow]
    BY <1>2, <2>1, <2>2 DEF TypeOK
  <2>4. [job[i] EXCEPT !.left = job[i].left - 1] \in JobRow
    <3>1. job[i].left - 1 \in Int
      BY <1>1 DEF JobRow
    <3> QED BY <1>1, <3>1, LeftTyped
  <2>5. job' \in [Jobs -> JobRow]
    BY <1>1, <1>2, <2>4 DEF TypeOK
  <2>6. [worker[w] EXCEPT !.pc = "list", !.source = Project] \in Run
    BY <1>1 DEF Run, Targets, Steps
  <2>7. worker' \in [Workers -> Run]
    BY <1>2, <2>6, PutTyped
  <2> QED BY <2>3, <2>5, <2>7 DEF TypeOK, Upsert
<1>3. CASE Broken(w, FALSE, TRUE) /\ UNCHANGED <<job, source>>
  BY <1>3, BrokenTyped DEF TypeOK, Upsert
<1>4. CASE Finally(w, "release") /\ UNCHANGED <<job, source>>
  BY <1>4, FinallyTyped DEF TypeOK, Upsert, Steps
<1> QED BY <1>2, <1>3, <1>4 DEF Upsert

LEMMA CompleteTyped == ASSUME TypeOK, NEW w \in Workers, Complete(w) PROVE TypeOK'
<1> DEFINE i == worker[w].job
           t == job[i].target
<1>1. i \in Jobs /\ job[i] \in JobRow
  BY RowOfRun
<1>2. CASE /\ job' = [job EXCEPT ![i].status = "ready", ![i].left = 0, ![i].owner = Nobody, ![i].live = FALSE]
           /\ source' = Marked(source, t, "ready")
           /\ Finally(w, "release")
  <2>1. [job[i] EXCEPT !.status = "ready", !.left = 0, !.owner = Nobody, !.live = FALSE] \in JobRow
    <3> DEFINE r == [job[i] EXCEPT !.status = "ready"]
               q == [r EXCEPT !.left = 0]
    <3>1. r \in JobRow
      BY <1>1 DEF JobRow
    <3>2. q \in JobRow
      <4> HIDE DEF r
      <4> QED BY <3>1, LeftTyped
    <3>3. [q EXCEPT !.owner = Nobody, !.live = FALSE] \in JobRow
      <4> HIDE DEF q
      <4> QED BY <3>2 DEF JobRow
    <3> QED BY <3>3
  <2>2. job' \in [Jobs -> JobRow]
    BY <1>1, <1>2, <2>1 DEF TypeOK
  <2>3. source' \in [Sources -> SourceRow]
    BY <1>2, MarkedTyped DEF TypeOK, Statuses
  <2> QED BY <1>2, <2>2, <2>3, FinallyTyped DEF TypeOK, Complete, Steps
<1>3. CASE Broken(w, FALSE, TRUE) /\ UNCHANGED <<job, source>>
  BY <1>3, BrokenTyped DEF TypeOK, Complete
<1>4. CASE Finally(w, "release") /\ UNCHANGED <<job, source>>
  BY <1>4, FinallyTyped DEF TypeOK, Complete, Steps
<1> QED BY <1>2, <1>3, <1>4 DEF Complete

LEMMA FailTyped == ASSUME TypeOK, NEW w \in Workers, Fail(w) PROVE TypeOK'
<1> DEFINE i == worker[w].job
           again == worker[w].retry /\ job[i].attempts < MaxAttempts
           st == IF again THEN "queued" ELSE "error"
<1>1. worker[w] \in Run /\ i \in Jobs /\ job[i] \in JobRow
  BY RowOfRun
<1>2. worker' \in [Workers -> Run]
  BY FinallyTyped DEF Fail, Steps
<1>3. CASE Leased(w)
  <2>1. /\ job' = [job EXCEPT ![i].status = st, ![i].changed = worker[w].changed,
                              ![i].owner = Nobody, ![i].live = FALSE]
        /\ source' = Marked(source, job[i].target, st)
    BY <1>3 DEF Fail
  <2>2. st \in {"queued", "error"}
    OBVIOUS
  <2> HIDE DEF st
  <2>3. [job[i] EXCEPT !.status = st, !.changed = worker[w].changed, !.owner = Nobody, !.live = FALSE] \in JobRow
    BY <1>1, <2>2 DEF JobRow, Run
  <2>4. job' \in [Jobs -> JobRow]
    BY <1>1, <2>1, <2>3 DEF TypeOK
  <2>5. source' \in [Sources -> SourceRow]
    BY <2>1, <2>2, MarkedTyped DEF TypeOK, Statuses
  <2> QED BY <1>2, <2>4, <2>5 DEF TypeOK, Fail
<1>4. CASE ~Leased(w)
  BY <1>2, <1>4 DEF TypeOK, Fail
<1> QED BY <1>3, <1>4

LEMMA ReleaseTyped == ASSUME TypeOK, NEW w \in Workers, Release(w) PROVE TypeOK'
<1> DEFINE i == worker[w].job
<1>1. i \in Jobs /\ job[i] \in JobRow
  BY RowOfRun
<1>2. [job[i] EXCEPT !.owner = Nobody, !.live = FALSE] \in JobRow
  BY <1>1 DEF JobRow
<1>3. job' \in [Jobs -> JobRow]
  BY <1>1, <1>2 DEF TypeOK, Release
<1>4. worker' \in [Workers -> Run]
  BY IdleTyped, PutTyped DEF Release
<1> QED BY <1>3, <1>4 DEF TypeOK, Release

LEMMA FaultsTyped ==
  ASSUME TypeOK, NEW w \in Workers, Cut(w) \/ Stop(w) \/ StoreError(w) \/ Crash(w) PROVE TypeOK'
<1>1. worker[w] \in Run
  BY DEF TypeOK
<1>2. [worker[w] EXCEPT !.cut = TRUE] \in Run
  BY <1>1 DEF Run
<1>3. CASE Cut(w)
  BY <1>2, <1>3, PutTyped, TurnTyped DEF TypeOK, Cut
<1>4. CASE Stop(w)
  BY <1>4, BrokenTyped DEF TypeOK, Stop
<1>5. CASE StoreError(w)
  <2>1. worker' \in [Workers -> Run]
    BY <1>5, BrokenTyped, FinallyTyped, IdleTyped, PutTyped DEF StoreError, Steps
  <2> QED BY <1>5, <2>1, TurnTyped DEF TypeOK, StoreError
<1>6. CASE Crash(w)
  BY <1>6, IdleTyped, PutTyped, TurnTyped DEF TypeOK, Crash
<1> QED BY <1>3, <1>4, <1>5, <1>6

LEMMA LapseTyped == ASSUME TypeOK, NEW j \in Jobs, Lapse(j) PROVE TypeOK'
<1>1. job[j] \in JobRow
  BY DEF TypeOK
<1>2. [job[j] EXCEPT !.live = FALSE] \in JobRow
  BY <1>1 DEF JobRow
<1> QED BY <1>2 DEF TypeOK, Lapse

LEMMA TypeStep == ASSUME TypeOK, [Next]_vars PROVE TypeOK'
<1>1. ASSUME NEW j \in Jobs, Cancel(j) \/ Retry(j) \/ \E t \in Targets : Create(j, t) PROVE TypeOK'
  BY <1>1, CancelTyped, RetryTyped, CreateTyped
<1>2. ASSUME NEW w \in Workers, Work(w) PROVE TypeOK'
  BY <1>2, ClaimTyped, ListTyped, FenceTyped, CallTyped, UpsertTyped, CompleteTyped, FailTyped, ReleaseTyped,
     FaultsTyped DEF Work
<1>3. CASE UNCHANGED vars
  BY <1>3 DEF vars, TypeOK
<1> QED BY <1>1, <1>2, <1>3, EditTyped, FaultsTyped, LapseTyped DEF Next, Owner

LEMMA InitTyped == Init => TypeOK
BY Settings, AttemptsFacts, IdleTyped DEF Init, TypeOK, Absent, JobRow, SourceRow, Targets, Statuses
-----------------------------------------------------------------------------
(* A source that waits has a job                                            *)

\* What every step does: jobs outside gone stay active, and a source's status
\* is settled, or backed by an active job, or as before and not theirs.
Shifts(gone) ==
  /\ gone \subseteq Jobs
  /\ \A j \in Jobs \ gone : Active(j) => Active(j)' /\ job'[j].target = job[j].target
  /\ \A s \in Sources :
       \/ source'[s].status \notin {"queued", "processing"}
       \/ \E j \in Jobs : Active(j)' /\ s \in Covers(job'[j].target)
       \/ source'[s].status = source[s].status /\ \A j \in gone : s \notin Covers(job[j].target)

LEMMA Shift == ASSUME StatusHasJob, NEW gone, Shifts(gone) PROVE StatusHasJob'
<1> SUFFICES ASSUME NEW s \in Sources, source'[s].status \in {"queued", "processing"}
             PROVE  \E j \in Jobs : Active(j)' /\ s \in Covers(job'[j].target)
  BY DEF StatusHasJob, Active, Covers
<1>0. Shifts(gone)
  OBVIOUS
<1>1. CASE source'[s].status = source[s].status /\ \A j \in gone : s \notin Covers(job[j].target)
  <2>1. PICK j \in Jobs : Active(j) /\ s \in Covers(job[j].target)
    BY <1>1 DEF StatusHasJob
  <2>2. j \notin gone
    BY <1>1, <2>1
  <2> QED BY <1>0, <2>1, <2>2 DEF Shifts
<1> QED BY <1>0, <1>1 DEF Shifts

LEMMA StatusCreate ==
  ASSUME TypeOK, StatusHasJob, NEW j \in Jobs, NEW t \in Targets, Create(j, t) PROVE StatusHasJob'
<1>1. job'[j].status = "queued" /\ job'[j].target = t /\ Active(j)'
  BY DEF Create, TypeOK, Absent, Active
<1>2. \A i \in Jobs \ {} : Active(i) => Active(i)' /\ job'[i].target = job[i].target
  BY DEF Create
<1>3. \A s \in Sources : s \in Covers(t) \/ source'[s] = source[s]
  BY DEF Create, Marked
<1>9. Shifts({})
  BY <1>1, <1>2, <1>3 DEF Shifts
<1> QED BY <1>9, Shift

LEMMA StatusCancel ==
  ASSUME TypeOK, StatusHasJob, NEW j \in Jobs, Cancel(j) PROVE StatusHasJob'
<1>1. \A i \in Jobs \ {j} : job'[i] = job[i]
  BY DEF Cancel, TypeOK
<1>2. \A s \in Sources : IF s \in Covers(job[j].target) THEN source'[s].status = "unindexed" ELSE source'[s] = source[s]
  BY DEF Cancel, Marked, TypeOK, SourceRow
<1>3. \A i \in Jobs \ {j} : Active(i) => Active(i)' /\ job'[i].target = job[i].target
  BY <1>1 DEF Active
<1>9. Shifts({j})
  BY <1>2, <1>3 DEF Shifts
<1> QED BY <1>9, Shift

LEMMA StatusRetry ==
  ASSUME TypeOK, StatusHasJob, NEW j \in Jobs, Retry(j) PROVE StatusHasJob'
<1>1. job'[j].status = "queued" /\ job'[j].target = job[j].target /\ Active(j)'
  BY DEF Retry, TypeOK, JobRow, Active
<1>2. \A i \in Jobs \ {} : Active(i) => Active(i)' /\ job'[i].target = job[i].target
  BY DEF Retry
<1>3. \A s \in Sources : s \in Covers(job[j].target) \/ source'[s] = source[s]
  BY DEF Retry, Marked
<1>9. Shifts({})
  BY <1>1, <1>2, <1>3 DEF Shifts
<1> QED BY <1>9, Shift

LEMMA StatusEdit ==
  ASSUME TypeOK, StatusHasJob, NEW s \in Sources, Edit(s) PROVE StatusHasJob'
<1>1. \A i \in Jobs \ Hit(s) : job'[i] = job[i]
  BY DEF Edit, Fenced
<1>2. \A i \in Jobs \ Hit(s) : Active(i) => Active(i)' /\ job'[i].target = job[i].target
  BY <1>1 DEF Active
<1>3. ASSUME NEW u \in Sources
      PROVE  \/ source'[u].status \notin {"queued", "processing"}
             \/ source'[u].status = source[u].status /\ \A i \in Hit(s) : u \notin Covers(job[i].target)
  <2>1. source[u] \in SourceRow
    BY DEF TypeOK
  <2>2. CASE u = s
    <3>1. source'[s].status \in {"stale", "unindexed"}
      BY DEF Edit, Reset
    <3> QED BY <2>2, <3>1
  <2>3. CASE u # s
    <3>1. source'[u] = Reset(s)[u]
      BY <2>3 DEF Edit, Reset
    <3>2. CASE \E j \in Hit(s) : u \in Covers(job[j].target)
      BY <2>1, <3>1, <3>2 DEF Reset, SourceRow
    <3> QED BY <3>1, <3>2 DEF Reset
  <2> QED BY <2>2, <2>3
<1>4. Hit(s) \subseteq Jobs
  BY DEF Hit
<1>9. Shifts(Hit(s))
  BY <1>2, <1>3, <1>4 DEF Shifts
<1> QED BY <1>9, Shift

LEMMA StatusClaim ==
  ASSUME TypeOK, StatusHasJob, NEW w \in Workers, Claim(w) PROVE StatusHasJob'
<1>1. Spent \subseteq Jobs
  BY DEF Spent
<1>2. \A i \in Jobs \ Spent : Expired[i] = job[i]
  BY DEF Expired
<1>3. \A s \in Sources :
        \/ Given[s].status = "error"
        \/ Given[s] = source[s] /\ \A i \in Spent : s \notin Covers(job[i].target)
  BY DEF Given, TypeOK, SourceRow
<1>4. CASE job' = Expired /\ source' = Given /\ UNCHANGED worker
  <2>1. \A i \in Jobs \ Spent : Active(i) => Active(i)' /\ job'[i].target = job[i].target
    BY <1>2, <1>4 DEF Active
  <2>2. \A s \in Sources :
          \/ source'[s].status \notin {"queued", "processing"}
          \/ source'[s].status = source[s].status /\ \A j \in Spent : s \notin Covers(job[j].target)
    BY <1>3, <1>4
  <2>9. Shifts(Spent)
    BY <1>1, <2>1, <2>2 DEF Shifts
  <2> QED BY <2>9, Shift
<1>5. ASSUME NEW j \in Ripe,
             job' = [Expired EXCEPT ![j].status = "processing", ![j].owner = w, ![j].live = TRUE,
                                    ![j].attempts = @ + 1],
             source' = Marked(Given, job[j].target, "processing")
      PROVE  StatusHasJob'
  <2>1. j \in Jobs /\ j \notin Spent
    BY AttemptsFacts, Settings DEF Ripe, Spent, TypeOK, JobRow
  <2>2. Expired[j] = job[j] /\ Expired \in [Jobs -> JobRow]
    BY <1>2, <2>1, ExpiredTyped
  <2>3. job'[j].status = "processing" /\ job'[j].target = job[j].target
    BY <1>5, <2>1, <2>2 DEF JobRow
  <2>4. \A i \in Jobs \ {j} : job'[i] = Expired[i]
    BY <1>5, <2>2
  <2>5. \A i \in Jobs \ Spent : Active(i) => Active(i)' /\ job'[i].target = job[i].target
    BY <1>2, <2>3, <2>4 DEF Active
  <2>6. \A s \in Sources : s \in Covers(job'[j].target) \/ source'[s] = Given[s]
    BY <1>5, <2>3 DEF Marked
  <2>7. Active(j)'
    BY <2>3 DEF Active
  <2>8. \A s \in Sources :
          \/ source'[s].status \notin {"queued", "processing"}
          \/ \E i \in Jobs : Active(i)' /\ s \in Covers(job'[i].target)
          \/ source'[s].status = source[s].status /\ \A i \in Spent : s \notin Covers(job[i].target)
    BY <1>3, <2>1, <2>6, <2>7
  <2>9. Shifts(Spent)
    BY <1>1, <2>5, <2>8 DEF Shifts
  <2> QED BY <2>9, Shift
<1> QED BY <1>4, <1>5 DEF Claim

\* Steps that end a job or leave its row active, and mark its own target.
LEMMA StatusUpsert ==
  ASSUME TypeOK, StatusHasJob, NEW w \in Workers, Upsert(w) PROVE StatusHasJob'
<1> DEFINE i == worker[w].job
           s == worker[w].source
<1>1. \A k \in Jobs : job'[k].status = job[k].status /\ job'[k].target = job[k].target
  <2>1. CASE UNCHANGED job
    BY <2>1
  <2>2. CASE ~UNCHANGED job
    <3>1. job' = [job EXCEPT ![i].left = @ - 1]
      BY <2>2 DEF Upsert
    <3>2. i \in Jobs /\ job[i] \in JobRow
      BY RowOfRun
    <3>3. job'[i] = [job[i] EXCEPT !.left = job[i].left - 1] /\ \A k \in Jobs \ {i} : job'[k] = job[k]
      BY <3>1, <3>2 DEF TypeOK
    <3>4. job'[i].status = job[i].status /\ job'[i].target = job[i].target
      BY <3>2, <3>3 DEF JobRow
    <3> QED BY <3>3, <3>4
  <2> QED BY <2>1, <2>2
<1>2. \A u \in Sources : source'[u].status = "ready" \/ source'[u].status = source[u].status
  <2>1. CASE UNCHANGED source
    BY <2>1
  <2>2. CASE ~UNCHANGED source
    <3>1. source' = [source EXCEPT ![s].vector = job[i].seen[s], ![s].status = "ready"]
      BY <2>2 DEF Upsert
    <3>2. ASSUME NEW u \in Sources PROVE source'[u].status = "ready" \/ source'[u].status = source[u].status
      <4>1. source[u] \in SourceRow
        BY DEF TypeOK
      <4>2. CASE u = s
        <5>1. source'[s] = [source[s] EXCEPT !.vector = job[i].seen[s], !.status = "ready"]
          BY <3>1, <4>2 DEF TypeOK
        <5> QED BY <4>1, <4>2, <5>1 DEF SourceRow
      <4>3. CASE u # s
        BY <3>1, <4>3 DEF TypeOK
      <4> QED BY <4>2, <4>3
    <3> QED BY <3>2
  <2> QED BY <2>1, <2>2
<1>9. Shifts({})
  BY <1>1, <1>2 DEF Shifts, Active
<1> QED BY <1>9, Shift

LEMMA StatusComplete ==
  ASSUME TypeOK, StatusHasJob, NEW w \in Workers, Complete(w) PROVE StatusHasJob'
<1> DEFINE i == worker[w].job
<1>1. CASE UNCHANGED <<job, source>>
  BY <1>1 DEF StatusHasJob, Active, Covers
<1>2. CASE ~UNCHANGED <<job, source>>
  <2>1. \A k \in Jobs \ {i} : job'[k] = job[k]
    BY <1>2 DEF Complete, TypeOK
  <2>2. source' = Marked(source, job[i].target, "ready")
    BY <1>2 DEF Complete
  <2>3. \A s \in Sources : IF s \in Covers(job[i].target) THEN source'[s].status = "ready" ELSE source'[s] = source[s]
    BY <2>2 DEF Marked, TypeOK, SourceRow
  <2>4. \A k \in Jobs \ {i} : Active(k) => Active(k)' /\ job'[k].target = job[k].target
    BY <2>1 DEF Active
  <2>5. i \in Jobs
    BY RowOfRun
  <2>9. Shifts({i})
    BY <2>3, <2>4, <2>5 DEF Shifts
  <2> QED BY <2>9, Shift
<1> QED BY <1>1, <1>2

LEMMA StatusFail ==
  ASSUME TypeOK, StatusHasJob, NEW w \in Workers, Fail(w) PROVE StatusHasJob'
<1>0. PICK i \in Jobs : i = worker[w].job /\ job[i] \in JobRow
  BY RowOfRun
<1> DEFINE again == worker[w].retry /\ job[i].attempts < MaxAttempts
           st == IF again THEN "queued" ELSE "error"
<1>1. CASE ~Leased(w)
  BY <1>1 DEF Fail, StatusHasJob, Active, Covers
<1>2. CASE Leased(w)
  <2>1. /\ job' = [job EXCEPT ![i].status = st, ![i].changed = worker[w].changed,
                              ![i].owner = Nobody, ![i].live = FALSE]
        /\ source' = Marked(source, job[i].target, st)
    BY <1>0, <1>2 DEF Fail
  <2>2. st \in {"queued", "error"}
    OBVIOUS
  <2> HIDE DEF st
  <2>3. job'[i].status = st /\ job'[i].target = job[i].target /\ \A k \in Jobs \ {i} : job'[k] = job[k]
    BY <1>0, <2>1 DEF TypeOK, JobRow
  <2>4. \A s \in Sources : IF s \in Covers(job[i].target) THEN source'[s].status = st ELSE source'[s] = source[s]
    BY <2>1 DEF Marked, TypeOK, SourceRow
  <2>5. CASE st = "queued"
    <3>0. Active(i)'
      BY <2>3, <2>5 DEF Active
    <3>1. \A k \in Jobs \ {} : Active(k) => Active(k)' /\ job'[k].target = job[k].target
      <4>1. \A k \in Jobs \ {i} : Active(k) => Active(k)' /\ job'[k].target = job[k].target
        BY <2>3 DEF Active
      <4> QED BY <2>3, <3>0, <4>1
    <3>2. \A s \in Sources : \/ \E k \in Jobs : Active(k)' /\ s \in Covers(job'[k].target)
                             \/ source'[s].status = source[s].status
      BY <1>0, <2>3, <2>4, <3>0
    <3>9. Shifts({})
      BY <3>1, <3>2 DEF Shifts
    <3> QED BY <3>9, Shift
  <2>6. CASE st = "error"
    <3>1. \A k \in Jobs \ {i} : Active(k) => Active(k)' /\ job'[k].target = job[k].target
      BY <2>3 DEF Active
    <3>9. Shifts({i})
      BY <1>0, <2>4, <2>6, <3>1 DEF Shifts
    <3> QED BY <3>9, Shift
  <2> QED BY <2>2, <2>5, <2>6
<1> QED BY <1>1, <1>2

LEMMA StatusRest ==
  ASSUME TypeOK, StatusHasJob, UNCHANGED source,
         \A i \in Jobs : job'[i].target = job[i].target /\ job'[i].status = job[i].status
  PROVE  StatusHasJob'
BY DEF StatusHasJob, Active, Covers

LEMMA StatusStep == ASSUME TypeOK, StatusHasJob, [Next]_vars PROVE StatusHasJob'
<1>1. ASSUME NEW w \in Workers, Release(w) PROVE StatusHasJob'
  <2>1. UNCHANGED source
    BY <1>1 DEF Release
  <2>2. \A i \in Jobs : job'[i].target = job[i].target /\ job'[i].status = job[i].status
    <3>1. CASE UNCHANGED job
      BY <3>1
    <3>2. CASE job' = [job EXCEPT ![worker[w].job].owner = Nobody, ![worker[w].job].live = FALSE]
      BY <3>2 DEF TypeOK, JobRow
    <3> QED BY <1>1, <3>1, <3>2 DEF Release
  <2> QED BY <2>1, <2>2, StatusRest
<1>2. ASSUME NEW j \in Jobs, Lapse(j) PROVE StatusHasJob'
  <2>1. UNCHANGED source
    BY <1>2 DEF Lapse
  <2>2. \A i \in Jobs : job'[i].target = job[i].target /\ job'[i].status = job[i].status
    BY <1>2 DEF Lapse, TypeOK, JobRow
  <2> QED BY <2>1, <2>2, StatusRest
<1>3. CASE UNCHANGED <<job, source>>
  BY <1>3, StatusRest
<1>4. ASSUME NEW w \in Workers, Work(w) PROVE StatusHasJob'
  BY <1>1, <1>3, <1>4, StatusClaim, StatusUpsert, StatusComplete, StatusFail
     DEF Work, List, Fence, Call, Stop
<1>5. ASSUME NEW w \in Workers, Cut(w) \/ StoreError(w) \/ Crash(w) PROVE StatusHasJob'
  BY <1>3, <1>5 DEF Cut, StoreError, Crash
<1>6. CASE Owner
  BY <1>6, StatusCreate, StatusCancel, StatusRetry, StatusEdit DEF Owner
<1> QED BY <1>2, <1>3, <1>4, <1>5, <1>6 DEF Next, vars
-----------------------------------------------------------------------------
(* What is shown as ready has its vector                                    *)

Indexed(row) == row.vector \in {0, row.version} /\ (row.status = "ready" => row.vector = row.version)

\* Most steps only change a source's status, to something other than ready.
LEMMA ReadyShift ==
  ASSUME ReadyIsIndexed,
         \A s \in Sources : \/ Indexed(source'[s])
                            \/ /\ source'[s].version = source[s].version
                               /\ source'[s].vector = source[s].vector
                               /\ source'[s].status \in {source[s].status} \cup (Statuses \ {"ready"})
  PROVE  ReadyIsIndexed'
<1> SUFFICES ASSUME NEW s \in Sources PROVE Indexed(source'[s])
  BY DEF ReadyIsIndexed, Indexed
<1>1. Indexed(source[s])
  BY DEF ReadyIsIndexed, Indexed
<1> QED BY <1>1 DEF Indexed

LEMMA ReadyMarked ==
  ASSUME NEW rows \in [Sources -> SourceRow], NEW t, NEW st \in Statuses \ {"ready"}, NEW s \in Sources
  PROVE  LET row == Marked(rows, t, st)[s]
         IN /\ row.version = rows[s].version /\ row.vector = rows[s].vector
            /\ row.status \in {rows[s].status} \cup (Statuses \ {"ready"})
<1>1. rows[s] \in SourceRow
  OBVIOUS
<1> QED BY <1>1 DEF Marked, SourceRow

LEMMA ReadyOwner == ASSUME TypeOK, ReadyIsIndexed, Owner PROVE ReadyIsIndexed'
<1> DEFINE Kept(s) == /\ source'[s].version = source[s].version
                      /\ source'[s].vector = source[s].vector
                      /\ source'[s].status \in {source[s].status} \cup (Statuses \ {"ready"})
<1>1. ASSUME NEW t, NEW st \in Statuses \ {"ready"}, source' = Marked(source, t, st) PROVE ReadyIsIndexed'
  <2>1. \A s \in Sources : Kept(s)
    BY <1>1, ReadyMarked DEF TypeOK
  <2> QED BY <2>1, ReadyShift
<1>2. ASSUME NEW j \in Jobs, Cancel(j) \/ Retry(j) \/ \E t \in Targets : Create(j, t) PROVE ReadyIsIndexed'
  BY <1>1, <1>2 DEF Cancel, Retry, Create, Statuses
<1>3. ASSUME NEW e \in Sources, Edit(e) PROVE ReadyIsIndexed'
  <2>1. Indexed(source'[e])
    <3>1. source'[e].vector = 0 /\ source'[e].status \in {"stale", "unindexed"}
      BY <1>3 DEF Edit, Reset
    <3> QED BY <3>1 DEF Indexed
  <2>2. ASSUME NEW s \in Sources, s # e PROVE Kept(s)
    <3>1. source'[s] = Reset(e)[s] /\ source[s] \in SourceRow
      BY <1>3, <2>2 DEF Edit, Reset, TypeOK
    <3> QED BY <3>1 DEF Reset, SourceRow, Statuses
  <2> QED BY <2>1, <2>2, ReadyShift
<1> QED BY <1>2, <1>3 DEF Owner

LEMMA ReadyClaim == ASSUME TypeOK, ReadyIsIndexed, NEW w \in Workers, Claim(w) PROVE ReadyIsIndexed'
<1> DEFINE Same(row, s) == /\ row.version = source[s].version /\ row.vector = source[s].vector
                           /\ row.status \in {source[s].status} \cup (Statuses \ {"ready"})
<1>1. ASSUME NEW s \in Sources PROVE Same(Given[s], s)
  <2>1. source[s] \in SourceRow
    BY DEF TypeOK
  <2> QED BY <2>1 DEF Given, SourceRow, Statuses
<1>2. ASSUME NEW t, NEW s \in Sources PROVE Same(Marked(Given, t, "processing")[s], s)
  <2>1. LET row == Marked(Given, t, "processing")[s]
        IN /\ row.version = Given[s].version /\ row.vector = Given[s].vector
           /\ row.status \in {Given[s].status} \cup (Statuses \ {"ready"})
    BY ExpiredTyped, ReadyMarked DEF Statuses
  <2> QED BY <1>1, <2>1
<1>3. source' = Given \/ \E t : source' = Marked(Given, t, "processing")
  BY DEF Claim
<1>4. \A s \in Sources : Same(source'[s], s)
  BY <1>1, <1>2, <1>3
<1> QED BY <1>4, ReadyShift

LEMMA ReadyUpsert == ASSUME TypeOK, ReadyIsIndexed, NEW w \in Workers, Upsert(w) PROVE ReadyIsIndexed'
<1>1. CASE UNCHANGED source
  BY <1>1 DEF ReadyIsIndexed
<1>2. CASE ~UNCHANGED source
  <2>1. PICK s : s = worker[w].source
    OBVIOUS
  <2>2. PICK v : v = job[worker[w].job].seen[s]
    OBVIOUS
  <2>3. source' = [source EXCEPT ![s].vector = v, ![s].status = "ready"] /\ source[s].version = v
    BY <1>2, <2>1, <2>2 DEF Upsert, Fits
  <2>4. ASSUME NEW u \in Sources PROVE Indexed(source'[u]) \/ source'[u] = source[u]
    <3>1. CASE u = s
      <4>1. source[s] \in SourceRow /\ source'[s] = [source[s] EXCEPT !.vector = v, !.status = "ready"]
        BY <2>3, <3>1 DEF TypeOK
      <4>2. source'[s].vector = v /\ source'[s].version = v
        BY <2>3, <4>1 DEF SourceRow
      <4> QED BY <3>1, <4>2 DEF Indexed
    <3>2. CASE u # s
      BY <2>3, <3>2 DEF TypeOK
    <3> QED BY <3>1, <3>2
  <2> QED BY <2>4, ReadyShift
<1> QED BY <1>1, <1>2

LEMMA ReadyComplete == ASSUME TypeOK, ReadyIsIndexed, NEW w \in Workers, Complete(w) PROVE ReadyIsIndexed'
<1>1. CASE UNCHANGED source
  BY <1>1 DEF ReadyIsIndexed
<1>2. CASE ~UNCHANGED source
  <2>1. PICK t : t = job[worker[w].job].target
    OBVIOUS
  <2>2. source' = Marked(source, t, "ready") /\ Pending(t) = {}
    BY <1>2, <2>1 DEF Complete
  <2>3. ASSUME NEW s \in Sources PROVE Indexed(source'[s]) \/ source'[s] = source[s]
    <3>1. CASE s \in Covers(t)
      <4>1. source[s] \in SourceRow /\ source'[s] = [source[s] EXCEPT !.status = "ready"]
        BY <2>2, <3>1 DEF TypeOK, Marked
      <4>2. source[s].vector = source[s].version
        BY <2>2, <3>1 DEF Pending
      <4> QED BY <4>1, <4>2 DEF Indexed, SourceRow
    <3>2. CASE s \notin Covers(t)
      BY <2>2, <3>2 DEF Marked
    <3> QED BY <3>1, <3>2
  <2> QED BY <2>3, ReadyShift
<1> QED BY <1>1, <1>2

LEMMA ReadyFail == ASSUME TypeOK, ReadyIsIndexed, NEW w \in Workers, Fail(w) PROVE ReadyIsIndexed'
<1>1. CASE UNCHANGED source
  BY <1>1 DEF ReadyIsIndexed
<1>2. CASE ~UNCHANGED source
  <2>1. \E t : \E st \in {"queued", "error"} : source' = Marked(source, t, st)
    BY <1>2 DEF Fail
  <2>2. PICK t, st : st \in {"queued", "error"} /\ source' = Marked(source, t, st)
    BY <2>1
  <2>3. \A s \in Sources : /\ source'[s].version = source[s].version
                           /\ source'[s].vector = source[s].vector
                           /\ source'[s].status \in {source[s].status} \cup (Statuses \ {"ready"})
    BY <2>2, ReadyMarked DEF TypeOK, Statuses
  <2> QED BY <2>3, ReadyShift
<1> QED BY <1>1, <1>2

LEMMA ReadyStep == ASSUME TypeOK, ReadyIsIndexed, [Next]_vars PROVE ReadyIsIndexed'
<1>1. CASE UNCHANGED source
  BY <1>1 DEF ReadyIsIndexed
<1>2. ASSUME NEW w \in Workers, Work(w) PROVE ReadyIsIndexed'
  BY <1>1, <1>2, ReadyClaim, ReadyUpsert, ReadyComplete, ReadyFail DEF Work, List, Fence, Call, Release, Stop
<1>3. ASSUME NEW w \in Workers, Cut(w) \/ StoreError(w) \/ Crash(w) PROVE ReadyIsIndexed'
  BY <1>1, <1>3 DEF Cut, StoreError, Crash
<1>4. ASSUME NEW j \in Jobs, Lapse(j) PROVE ReadyIsIndexed'
  BY <1>1, <1>4 DEF Lapse
<1> QED BY <1>1, <1>2, <1>3, <1>4, ReadyOwner DEF Next, vars
-----------------------------------------------------------------------------
(* One worker at the provider per job                                       *)

\* A worker that is at the provider and still has its context.
Paying(w) == worker[w].pc = "call" /\ ~worker[w].cut

\* Its job's row keeps others out: by a lease in the worker's name, also while the
\* cancelled job drains, or because the changed target bars a retry.
Bars(row, w) ==
  \/ row.owner = w /\ row.live /\ row.status \in {"processing", "cancelled"}
  \/ row.status = "cancelled" /\ row.changed

Held == \A w \in Workers : Paying(w) => Bars(job[worker[w].job], w)

CallInv == TypeOK /\ OneCall /\ Held

LEMMA HeldShift ==
  ASSUME CallInv,
         \A w \in Workers : Paying(w)' =>
           /\ Paying(w) /\ worker'[w] = worker[w]
           /\ Bars(job[worker[w].job], w) => Bars(job'[worker[w].job], w)
  PROVE  OneCall' /\ Held'
<1>1. OneCall'
  <2> SUFFICES ASSUME NEW v \in Workers, NEW w \in Workers,
                      Paying(v)', Paying(w)', worker'[v].job = worker'[w].job
               PROVE  v = w
    BY DEF OneCall, Paying
  <2>1. Paying(v) /\ Paying(w) /\ worker[v].job = worker[w].job
    OBVIOUS
  <2> QED BY <2>1 DEF CallInv, OneCall, Paying
<1>2. Held'
  BY DEF CallInv, Held
<1> QED BY <1>1, <1>2

\* A step of one worker to anywhere but the provider.
LEMMA PutElsewhere ==
  ASSUME TypeOK, NEW w \in Workers, NEW r, Put(w, r), r.pc # "call" \/ r.cut
  PROVE  /\ ~Paying(w)'
         /\ \A v \in Workers \ {w} : worker'[v] = worker[v]
BY DEF TypeOK, Put, Paying

LEMMA GoesElsewhere ==
  ASSUME TypeOK, NEW w \in Workers,
         \/ \E pc : pc # "call" /\ Finally(w, pc)
         \/ \E retry, changed : Broken(w, retry, changed)
         \/ Goto(w, "upsert")
         \/ Put(w, Idle)
         \/ \E s : Put(w, [worker[w] EXCEPT !.pc = "fence", !.source = s])
         \/ Put(w, [worker[w] EXCEPT !.pc = "list", !.source = Project])
         \/ \E j : Put(w, [Idle EXCEPT !.pc = "list", !.job = j])
         \/ Put(w, [worker[w] EXCEPT !.cut = TRUE])
  PROVE  /\ ~Paying(w)'
         /\ \A v \in Workers \ {w} : worker'[v] = worker[v]
<1>0. worker[w] \in Run
  BY DEF TypeOK
<1>1. CASE \E pc : pc # "call" /\ Finally(w, pc)
  <2>1. PICK pc : pc # "call" /\ Finally(w, pc)
    BY <1>1
  <2>2. [Idle EXCEPT !.pc = pc, !.job = worker[w].job].pc = pc
    BY DEF Idle
  <2> QED BY <2>1, <2>2, PutElsewhere DEF Finally
<1>2. CASE \E retry, changed : Broken(w, retry, changed)
  <2>1. PICK retry, changed : Broken(w, retry, changed)
    BY <1>2
  <2>2. [Idle EXCEPT !.pc = "fail", !.job = worker[w].job, !.retry = retry, !.changed = changed].pc = "fail"
    BY DEF Idle
  <2> QED BY <2>1, <2>2, PutElsewhere DEF Broken
<1>3. CASE Goto(w, "upsert")
  <2>1. [worker[w] EXCEPT !.pc = "upsert"].pc = "upsert"
    BY <1>0 DEF Run
  <2> QED BY <1>3, <2>1, PutElsewhere DEF Goto
<1>4. CASE Put(w, Idle)
  BY <1>4, PutElsewhere DEF Idle
<1>5. CASE \E s : Put(w, [worker[w] EXCEPT !.pc = "fence", !.source = s])
  <2>1. PICK s : Put(w, [worker[w] EXCEPT !.pc = "fence", !.source = s])
    BY <1>5
  <2>2. [worker[w] EXCEPT !.pc = "fence", !.source = s].pc = "fence"
    BY <1>0 DEF Run
  <2> QED BY <2>1, <2>2, PutElsewhere
<1>6. CASE Put(w, [worker[w] EXCEPT !.pc = "list", !.source = Project])
  <2>1. [worker[w] EXCEPT !.pc = "list", !.source = Project].pc = "list"
    BY <1>0 DEF Run
  <2> QED BY <1>6, <2>1, PutElsewhere
<1>7. CASE \E j : Put(w, [Idle EXCEPT !.pc = "list", !.job = j])
  <2>1. PICK j : Put(w, [Idle EXCEPT !.pc = "list", !.job = j])
    BY <1>7
  <2>2. [Idle EXCEPT !.pc = "list", !.job = j].pc = "list"
    BY DEF Idle
  <2> QED BY <2>1, <2>2, PutElsewhere
<1>8. CASE Put(w, [worker[w] EXCEPT !.cut = TRUE])
  <2>1. [worker[w] EXCEPT !.cut = TRUE].cut = TRUE
    BY <1>0 DEF Run
  <2> QED BY <1>8, <2>1, PutElsewhere
<1> QED BY <1>1, <1>2, <1>3, <1>4, <1>5, <1>6, <1>7, <1>8

\* The owner's requests leave the workers where they are.
LEMMA HeldOwner == ASSUME CallInv, Owner PROVE OneCall' /\ Held'
<1>0. UNCHANGED worker
  BY DEF Owner, Cancel, Retry, Create, Edit
<1>1. ASSUME NEW w \in Workers, Paying(w) PROVE Bars(job'[worker[w].job], w)
  <2>1. PICK i \in Jobs : i = worker[w].job /\ job[i] \in JobRow
    BY RowOfRun DEF CallInv
  <2>2. Bars(job[i], w)
    BY <1>1, <2>1 DEF CallInv, Held
  <2>3. w # Nobody
    BY Settings
  <2>4. ASSUME NEW j \in Jobs, Cancel(j) PROVE Bars(job'[i], w)
    <3>1. CASE i # j
      <4>1. job'[i] = job[i]
        BY <2>4, <3>1 DEF Cancel, CallInv, TypeOK
      <4> QED BY <2>2, <4>1
    <3>2. CASE i = j
      <4>1. job[i].status = "processing" /\ job[i].owner = w /\ job[i].live
        BY <2>2, <2>4, <3>2 DEF Bars, Cancel, Active
      <4>2. job'[i].status = "cancelled" /\ job'[i].owner = job[i].owner /\ job'[i].live = job[i].live
        BY <2>1, <2>4, <3>2, <4>1 DEF Cancel, JobRow, CallInv, TypeOK
      <4> QED BY <4>1, <4>2 DEF Bars
    <3> QED BY <3>1, <3>2
  <2>5. ASSUME NEW j \in Jobs, Retry(j) PROVE Bars(job'[i], w)
    <3>1. i # j
      BY <2>2, <2>3, <2>5 DEF Bars, Retry, Draining
    <3>2. job'[i] = job[i]
      BY <2>5, <3>1 DEF Retry, CallInv, TypeOK
    <3> QED BY <2>2, <3>2
  <2>6. ASSUME NEW j \in Jobs, NEW t \in Targets, Create(j, t) PROVE Bars(job'[i], w)
    <3>1. i # j
      BY <2>2, <2>6 DEF Bars, Create
    <3>2. job'[i] = job[i]
      BY <2>6, <3>1 DEF Create, CallInv, TypeOK
    <3> QED BY <2>2, <3>2
  <2>7. ASSUME NEW s \in Sources, Edit(s) PROVE Bars(job'[i], w)
    <3>1. CASE i \in Hit(s)
      <4>1. job'[i] = [job[i] EXCEPT !.status = "cancelled", !.changed = TRUE, !.owner = Nobody, !.live = FALSE]
        BY <2>7, <3>1 DEF Edit, Fenced
      <4> QED BY <2>1, <4>1 DEF Bars, JobRow
    <3>2. CASE i \notin Hit(s)
      BY <2>2, <2>7, <3>2 DEF Edit, Fenced
    <3> QED BY <3>1, <3>2
  <2>8. Bars(job'[i], w)
    BY <2>4, <2>5, <2>6, <2>7 DEF Owner
  <2> QED BY <2>1, <2>8
<1>2. \A w \in Workers : Paying(w)' => Paying(w) /\ worker'[w] = worker[w]
  BY <1>0 DEF Paying
<1> QED BY <1>1, <1>2, HeldShift

\* A worker's step leaves the rows that others are barred by as they are.
LEMMA HeldWork ==
  ASSUME CallInv, NEW w \in Workers, ~Paying(w)', \A v \in Workers \ {w} : worker'[v] = worker[v],
         \A v \in Workers \ {w} : Paying(v) /\ Bars(job[worker[v].job], v) => Bars(job'[worker[v].job], v)
  PROVE  OneCall' /\ Held'
<1>1. \A v \in Workers : Paying(v)' =>
        /\ Paying(v) /\ worker'[v] = worker[v]
        /\ Bars(job[worker[v].job], v) => Bars(job'[worker[v].job], v)
  BY DEF Paying
<1> QED BY <1>1, HeldShift

LEMMA HeldClaim == ASSUME CallInv, NEW w \in Workers, Claim(w) PROVE OneCall' /\ Held'
<1>1. ASSUME NEW v \in Workers, Bars(job[worker[v].job], v) PROVE Bars(job'[worker[v].job], v)
  <2>1. PICK i \in Jobs : i = worker[v].job /\ job[i] \in JobRow
    BY RowOfRun DEF CallInv
  <2>2. i \notin Spent /\ i \notin Ripe
    BY <1>1, <2>1 DEF Spent, Ripe, Lapsed, Bars
  <2>3. Expired[i] = job[i]
    BY <2>2 DEF Expired
  <2>4. Expired \in [Jobs -> JobRow]
    BY ExpiredTyped DEF CallInv
  <2>5. job'[i] = job[i]
    BY <2>2, <2>3, <2>4 DEF Claim
  <2> QED BY <1>1, <2>1, <2>5
<1>2. CASE UNCHANGED worker
  <2>1. \A v \in Workers : Paying(v)' => Paying(v) /\ worker'[v] = worker[v]
    BY <1>2 DEF Paying
  <2> QED BY <1>1, <2>1, HeldShift
<1>3. CASE \E j : Put(w, [Idle EXCEPT !.pc = "list", !.job = j])
  BY <1>1, <1>3, GoesElsewhere, HeldWork DEF CallInv
<1> QED BY <1>2, <1>3 DEF Claim

LEMMA HeldFence == ASSUME CallInv, NEW w \in Workers, Fence(w) PROVE OneCall' /\ Held'
<1>0. worker[w] \in Run /\ worker[w].pc = "fence" /\ UNCHANGED job
  BY DEF CallInv, TypeOK, Fence
<1>1. CASE ~Leased(w)
  BY <1>0, <1>1, GoesElsewhere, HeldWork DEF CallInv, Fence
<1>2. CASE Leased(w)
  <2>1. worker' = [worker EXCEPT ![w] = [worker[w] EXCEPT !.pc = "call"]]
    BY <1>2 DEF Fence, Goto, Put
  <2>2. worker'[w].job = worker[w].job /\ \A v \in Workers \ {w} : worker'[v] = worker[v]
    BY <1>0, <2>1 DEF CallInv, TypeOK, Run
  <2>3. Bars(job'[worker'[w].job], w)
    BY <1>0, <1>2, <2>2 DEF Leased, Bars
  <2>4. Held'
    BY <1>0, <2>2, <2>3 DEF CallInv, Held, Paying
  <2>5. ASSUME NEW v \in Workers \ {w}, Paying(v), worker[v].job = worker[w].job PROVE FALSE
    <3>1. Bars(job[worker[w].job], v)
      BY <2>5 DEF CallInv, Held
    <3> QED BY <1>2, <2>5, <3>1 DEF Leased, Bars
  <2>6. OneCall'
    <3> SUFFICES ASSUME NEW u \in Workers, NEW v \in Workers, u # v,
                        Paying(u)', Paying(v)', worker'[u].job = worker'[v].job
                 PROVE  FALSE
      BY DEF OneCall, Paying
    <3>1. CASE u # w /\ v # w
      BY <2>2, <3>1 DEF CallInv, OneCall, Paying
    <3>2. CASE u = w \/ v = w
      BY <2>2, <2>5, <3>2 DEF Paying
    <3> QED BY <3>1, <3>2
  <2> QED BY <2>4, <2>6
<1> QED BY <1>1, <1>2

\* The rows that workers write are their own: leased to them, or theirs to release.
LEMMA HeldOwn ==
  ASSUME CallInv, NEW w \in Workers, ~Paying(w)', \A v \in Workers \ {w} : worker'[v] = worker[v],
         \A i \in Jobs : i # worker[w].job => job'[i] = job[i],
         \/ UNCHANGED job
         \/ Leased(w)
         \/ LET i == worker[w].job
            IN  /\ job[i].owner = w /\ job'[i].status = job[i].status /\ job'[i].changed = job[i].changed
  PROVE  OneCall' /\ Held'
<1>1. ASSUME NEW v \in Workers \ {w}, Bars(job[worker[v].job], v) PROVE Bars(job'[worker[v].job], v)
  <2>1. PICK i \in Jobs : i = worker[v].job
    BY RowOfRun DEF CallInv
  <2>2. PICK k \in Jobs : k = worker[w].job
    BY RowOfRun DEF CallInv
  <2>3. CASE i # k
    BY <1>1, <2>1, <2>2, <2>3
  <2>4. CASE i = k
    BY <1>1, <2>1, <2>2, <2>4 DEF Leased, Bars
  <2> QED BY <2>1, <2>3, <2>4
<1> QED BY <1>1, HeldWork

LEMMA HeldRun ==
  ASSUME CallInv, NEW w \in Workers,
         \/ List(w) \/ Call(w) \/ Upsert(w) \/ Complete(w) \/ Fail(w) \/ Release(w) \/ Stop(w)
         \/ Cut(w) \/ StoreError(w) \/ Crash(w)
  PROVE  OneCall' /\ Held'
<1>0. TypeOK
  BY DEF CallInv
<1>1. ~Paying(w)' /\ \A v \in Workers \ {w} : worker'[v] = worker[v]
  BY <1>0, GoesElsewhere DEF List, Call, Upsert, Complete, Fail, Release, Stop, Cut, StoreError, Crash
<1>2. \A i \in Jobs : i # worker[w].job => job'[i] = job[i]
  BY <1>0 DEF TypeOK, List, Call, Upsert, Complete, Fail, Release, Stop, Cut, StoreError, Crash
<1>3. CASE UNCHANGED job
  BY <1>1, <1>2, <1>3, HeldOwn
<1>4. CASE Leased(w)
  BY <1>1, <1>2, <1>4, HeldOwn
<1>5. CASE Release(w) /\ ~UNCHANGED job
  <2>1. PICK i \in Jobs : i = worker[w].job /\ job[i] \in JobRow
    BY <1>0, RowOfRun
  <2>2. job[i].owner = w /\ job' = [job EXCEPT ![i].owner = Nobody, ![i].live = FALSE]
    BY <1>5, <2>1 DEF Release
  <2>3. job'[i].status = job[i].status /\ job'[i].changed = job[i].changed
    BY <1>0, <2>1, <2>2 DEF TypeOK, JobRow
  <2> QED BY <1>1, <1>2, <2>1, <2>2, <2>3, HeldOwn
<1> QED BY <1>3, <1>4, <1>5 DEF List, Call, Upsert, Complete, Fail, Stop, Cut, StoreError, Crash

LEMMA HeldLapse == ASSUME CallInv, NEW j \in Jobs, Lapse(j) PROVE OneCall' /\ Held'
<1>1. ASSUME NEW w \in Workers, Paying(w), Bars(job[worker[w].job], w) PROVE Bars(job'[worker[w].job], w)
  <2>1. PICK i \in Jobs : i = worker[w].job /\ job[i] \in JobRow
    BY RowOfRun DEF CallInv
  <2>2. CASE i # j
    BY <1>1, <2>1, <2>2 DEF Lapse
  <2>3. CASE i = j
    <3>1. job[i].owner # w
      BY <1>1, <2>1, <2>3 DEF Lapse, Paying, Working
    <3>2. job'[i].status = job[i].status /\ job'[i].changed = job[i].changed
      BY <2>1, <2>3 DEF Lapse, CallInv, TypeOK, JobRow
    <3> QED BY <1>1, <2>1, <3>1, <3>2 DEF Bars
  <2> QED BY <2>2, <2>3
<1>2. \A w \in Workers : Paying(w)' => Paying(w) /\ worker'[w] = worker[w]
  BY DEF Lapse, Paying
<1> QED BY <1>1, <1>2, HeldShift

LEMMA CallStep == ASSUME CallInv, [Next]_vars PROVE CallInv'
<1>1. TypeOK'
  BY TypeStep DEF CallInv
<1>2. CASE UNCHANGED vars
  BY <1>1, <1>2 DEF vars, CallInv, OneCall, Held, Paying, Bars
<1>3. ASSUME NEW w \in Workers, Work(w) \/ Cut(w) \/ StoreError(w) \/ Crash(w) PROVE OneCall' /\ Held'
  BY <1>3, HeldClaim, HeldFence, HeldRun DEF Work
<1> QED BY <1>1, <1>2, <1>3, HeldOwner, HeldLapse DEF Next, CallInv

-----------------------------------------------------------------------------
(* The theorems                                                             *)

LEMMA InitHolds == ASSUME Init PROVE TypeOK /\ StatusHasJob /\ ReadyIsIndexed /\ OneCall /\ Held
<1>1. TypeOK
  BY InitTyped
<1>2. StatusHasJob /\ ReadyIsIndexed
  BY DEF Init, StatusHasJob, ReadyIsIndexed
<1>3. OneCall /\ Held
  BY DEF Init, Idle, OneCall, Held, Paying
<1> QED BY <1>1, <1>2, <1>3

\* Every variable keeps its type under every operation of ai_index_jobs.go and its workers.
THEOREM Typing == Spec => []TypeOK
<1>1. Init => TypeOK
  BY InitHolds
<1>2. TypeOK /\ [Next]_vars => TypeOK'
  BY TypeStep
<1> QED BY <1>1, <1>2, PTL DEF Spec, Safe

\* No source is left shown as queued or in work without a job for it: whatever
\* setIndexTargetStatusTx marks, a cancellation, an edit or a claim marks back.
THEOREM WaitingHasJob == Spec => []StatusHasJob
<1>1. Init => TypeOK /\ StatusHasJob
  BY InitHolds
<1>2. TypeOK /\ StatusHasJob /\ [Next]_vars => (TypeOK /\ StatusHasJob)'
  BY TypeStep, StatusStep
<1> QED BY <1>1, <1>2, PTL DEF Spec, Safe

\* What is shown as ready has a vector of its present content, whatever a worker
\* whose lease has gone still writes.
THEOREM ReadyHasVector == Spec => []ReadyIsIndexed
<1>1. Init => TypeOK /\ ReadyIsIndexed
  BY InitHolds
<1>2. TypeOK /\ ReadyIsIndexed /\ [Next]_vars => (TypeOK /\ ReadyIsIndexed)'
  BY TypeStep, ReadyStep
<1> QED BY <1>1, <1>2, PTL DEF Spec, Safe

\* A job never has two workers at the provider, through cancellations, retries,
\* edits and lapsed leases.
THEOREM CallsAreSingle == Spec => []OneCall
<1>1. Init => CallInv
  BY InitHolds DEF CallInv
<1>2. CallInv /\ [Next]_vars => CallInv'
  BY CallStep
<1>3. CallInv => OneCall
  BY DEF CallInv
<1> QED BY <1>1, <1>2, <1>3, PTL DEF Spec, Safe
=============================================================================
