---------------------------- MODULE EdgeSession ----------------------------
(***************************************************************************)
(* The main site's control of transcription sessions that run on regional   *)
(* edge nodes. A session is authorised one generation at a time; each       *)
(* generation prepays windows of audio, reports what it sent in a journal   *)
(* of numbered events, and is settled once: by its terminal event, in time  *)
(* or from the archive, or as unused. Calls reach the main site in any      *)
(* order and any number of times. Every action of the main site is one      *)
(* transaction under the user's advisory lock.                              *)
(*                                                                          *)
(* A unit of audio is one frame: samples, provider samples and audio        *)
(* sequences then move together. The protocol is version 2. A generation    *)
(* never changes its node, so it stands for its node too.                   *)
(***************************************************************************)
EXTENDS Integers, Sequences, FiniteSetsExt, Functions

CONSTANTS
  Sessions,
  Window,       \* samples of one budget window (30 s)
  Reach,        \* how far an event may be ahead of the applied prefix (1024)
  MaxGen,       \* bound on generations of a session
  MaxWindows,   \* bound on budget windows of a generation
  MaxEvents     \* bound on the events journalled before the last report

ASSUME EdgeAssumption ==
  /\ {Reach, MaxGen, MaxEvents} \subseteq Nat
  /\ {Window, MaxWindows} \subseteq Nat \ {0}

VARIABLES
  exists,       \* sessions: the row the browser made
  row,          \* edge_sessions
  book,         \* per generation: its usage rows, budgets and reconciliation
  stored,       \* edge_events: sequences of a generation
  archived,     \* edge_archived_events
  owner,        \* edge_generation_owners
  stream        \* the generation at its node, with its journal

vars == <<exists, row, book, stored, archived, owner, stream>>

Grants == Sessions \X (1..MaxGen)     \* a session and one of its generations
Windows == 1..MaxWindows
Kinds == {"usage", "final", "end"}    \* "final": transcript or checkpoint
Unbilled == -1

NoRow == [gen |-> 0, status |-> "none", approved |-> 0, consumed |-> 0, seq |-> 0,
          durable |-> 0, resume |-> 0, lease |-> "live"]
NoOwner == [approved |-> 0, last |-> 0]
NoStream == [pc |-> "none", granted |-> 0, resume |-> 0, durable |-> 0, sent |-> 0,
             journal |-> <<>>]

(* keys: usage rows edge:<session>:<generation>:<window>, never deleted;    *)
(* pending: budgets not settled; charge: what each usage row cost in the    *)
(* end; billed: the reconciliation's billable samples.                      *)
NoBook == [keys |-> {}, pending |-> {}, charge |-> [w \in Windows |-> 0], billed |-> Unbilled]

Init ==
  /\ exists = [s \in Sessions |-> TRUE]
  /\ row = [s \in Sessions |-> NoRow]
  /\ book = [i \in Grants |-> NoBook]
  /\ stored = [i \in Grants |-> {}]
  /\ archived = [i \in Grants |-> {}]
  /\ owner = [i \in Grants |-> NoOwner]
  /\ stream = [i \in Grants |-> NoStream]

-----------------------------------------------------------------------------
(* The row, budgets and settlement.                                         *)

Larger(a, b) == IF a < b THEN b ELSE a
Smaller(a, b) == IF a < b THEN a ELSE b
Current(s) == <<s, row[s].gen>>
Open(s) == row[s].status \in {"authorized", "connected"}

(* Every write of the row fires the trigger that records the owner. *)
Write(s, r) ==
  /\ row' = [row EXCEPT ![s] = r]
  /\ owner' = [owner EXCEPT ![<<s, r.gen>>] =
       [approved |-> Larger(@.approved, r.approved), last |-> Larger(@.last, r.seq)]]

(* reserve. *)
NextWindow(approved) == approved \div Window + 1
WithWindow(b, w) == [b EXCEPT !.keys = @ \union {w}, !.pending = @ \union {w}]

(* What is left of the billable total for window w, the windows in order. *)
Share(b, w, billable) ==
  LET before == Window * Cardinality({v \in b.pending : v < w}) IN
  Smaller(Larger(billable - before, 0), Window)

Payable(b, billable) == billable <= Window * Cardinality(b.pending)

(* settleGeneration. *)
Settled(b, billable) ==
  [b EXCEPT !.charge = [w \in Windows |->
              IF w \in b.pending THEN Share(b, w, billable) ELSE b.charge[w]],
            !.pending = {},
            !.billed = IF @ = Unbilled THEN billable ELSE @]

(* No sign that the grant was ever used. *)
Untouched(s) ==
  /\ row[s].status = "authorized" /\ row[s].consumed = 0 /\ row[s].seq = 0
  /\ row[s].durable = row[s].resume /\ stored[Current(s)] = {}

(* Mutant: what was reported so far is taken for the final total. *)
FencedAsReported(s) ==
  IF Open(s) THEN Settled(book[Current(s)], row[s].consumed) ELSE book[Current(s)]

(* fenceIncomplete: an unused grant is released; a used one stays prepaid   *)
(* until its terminal event is recovered.                                   *)
Fenced(s) ==
  IF Untouched(s) THEN Settled(book[Current(s)], 0) ELSE book[Current(s)]

-----------------------------------------------------------------------------
(* Authorize. Its other answers (the same grant again, refusals) change     *)
(* nothing.                                                                 *)

FirstRow == [NoRow EXCEPT !.gen = 1, !.status = "authorized", !.approved = Window]

(* A session that was deleted left its usage keys and starts no more. *)
AuthorizeFirst(s) ==
  LET i == <<s, 1>> IN
  /\ exists[s] /\ row[s].gen = 0 /\ i \in Grants /\ 1 \notin book[i].keys
  /\ Write(s, FirstRow)
  /\ book' = [book EXCEPT ![i] = WithWindow(@, 1)]
  /\ UNCHANGED <<exists, stored, archived, stream>>

(* Mutant: the row keeps the counters of the generation before. *)
SuccessorCounting(r) ==
  [r EXCEPT !.gen = @ + 1, !.status = "authorized", !.approved = Window,
            !.seq = 0, !.resume = r.durable, !.lease = "live"]

(* Mutant: the audio goes on from where the last generation began. *)
SuccessorReplaying(r) ==
  [r EXCEPT !.gen = @ + 1, !.status = "authorized", !.approved = Window, !.consumed = 0,
            !.seq = 0, !.durable = r.resume, !.lease = "live"]

(* The counters start again; the audio goes on from what is durable. *)
Successor(r) ==
  [r EXCEPT !.gen = @ + 1, !.status = "authorized", !.approved = Window, !.consumed = 0,
            !.seq = 0, !.resume = r.durable, !.lease = "live"]

(* The next generation, once the last is closed or past its clock allowance. *)
AuthorizeNext(s) ==
  LET next == Successor(row[s]) IN
  /\ exists[s] /\ row[s].gen \in 1..(MaxGen - 1)
  /\ row[s].status = "closed" \/ row[s].lease \in {"expired", "lapsed"}
  /\ Write(s, next)
  /\ book' = [book EXCEPT ![Current(s)] = Fenced(s),
                          ![<<s, next.gen>>] = WithWindow(@, 1)]
  /\ UNCHANGED <<exists, stored, archived, stream>>

-----------------------------------------------------------------------------
(* Connect and Renew, called by the node.                                   *)

(* A grant is spent once. If the answer is lost, no stream comes of it.     *)
Connect(s) ==
  LET i == Current(s)
      opened == [NoStream EXCEPT !.pc = "open", !.granted = row[s].approved,
                                 !.resume = row[s].resume, !.durable = row[s].durable]
  IN
  /\ row[s].status = "authorized" /\ row[s].lease = "live"
  /\ Write(s, [row[s] EXCEPT !.status = "connected"])
  /\ \/ stream' = [stream EXCEPT ![i] = opened]
     \/ stream' = [stream EXCEPT ![i] = [NoStream EXCEPT !.pc = "over"]]
  /\ UNCHANGED <<exists, book, stored, archived>>

(* Less than half a window is left of what was approved. *)
Low(r) == 2 * (r.approved - r.consumed) < Window

(* Mutant: the grant grows although no window was paid. *)
RenewUnpaid(s) ==
  LET i == Current(s)
      r == [row[s] EXCEPT !.approved = IF Low(row[s]) THEN @ + Window ELSE @]
  IN
  /\ row[s].status = "connected" /\ row[s].lease = "live"
  /\ NextWindow(row[s].approved) \in Windows
  /\ Write(s, r)
  /\ stream' = [stream EXCEPT ![i].granted = IF stream[i].pc = "open" THEN r.approved ELSE @]
  /\ UNCHANGED <<exists, book, stored, archived>>

(* Only consumption that was reported justifies another window. The answer  *)
(* may be lost, or come when the stream is over.                            *)
Renew(s) ==
  LET i == Current(s)
      w == NextWindow(row[s].approved)
      r == [row[s] EXCEPT !.approved = IF Low(row[s]) THEN @ + Window ELSE @]
  IN
  /\ row[s].status = "connected" /\ row[s].lease = "live"
  /\ w \in Windows
  /\ Write(s, r)
  /\ book' = IF Low(row[s]) THEN [book EXCEPT ![i] = WithWindow(@, w)] ELSE book
  /\ \/ stream[i].pc = "open" /\ stream' = [stream EXCEPT ![i].granted = r.approved]
     \/ UNCHANGED stream
  /\ UNCHANGED <<exists, stored, archived>>

(* The lease: live, within the clock allowance of 3 s, past it, and lapsed  *)
(* for longer than the reaper's 10 minutes.                                 *)
Age(s) ==
  /\ Open(s)
  /\ \/ row[s].lease = "live" /\ row' = [row EXCEPT ![s].lease = "late"]
     \/ row[s].lease = "late" /\ row' = [row EXCEPT ![s].lease = "expired"]
     \/ row[s].lease = "expired" /\ row' = [row EXCEPT ![s].lease = "lapsed"]
  /\ UNCHANGED <<exists, book, stored, archived, owner, stream>>

-----------------------------------------------------------------------------
(* Event.                                                                   *)

Journal(i) == stream[i].journal
Events(i) == 1..Len(Journal(i))
Evidence(i) == stored[i] \union archived[i]

(* validateTerminalUsage: no report on record goes beyond the end. *)
Terminal(i, k, last) ==
  /\ last <= k
  /\ \A j \in Evidence(i) : j <= k /\ Journal(i)[j].samples <= Journal(i)[k].samples
  /\ Current(i[1]) = i =>
       row[i[1]].seq <= k /\ row[i[1]].consumed <= Journal(i)[k].samples

(* applyEvent accepts event k on top of row r. *)
Applicable(r, i, k) ==
  LET e == Journal(i)[k] IN
  /\ r.consumed <= e.samples /\ e.samples <= r.approved
  /\ r.durable <= e.durable /\ e.durable <= r.resume + e.samples
  /\ e.kind \in {"usage", "end"} => e.durable = r.durable
  /\ e.kind = "end" => Terminal(i, k, r.seq) /\ Payable(book[i], e.samples)

Applied(r, i, k) ==
  LET e == Journal(i)[k] IN
  [r EXCEPT !.consumed = e.samples, !.durable = e.durable, !.seq = k,
            !.status = IF e.kind = "end" THEN "closed" ELSE @]

(* The end of the contiguous events after the prefix, or the terminal one.  *)
Reached(r, i, have) ==
  Max({r.seq} \union {k \in have : /\ r.seq < k /\ (r.seq + 1)..k \subseteq have
                                   /\ \A j \in (r.seq + 1)..(k - 1) : Journal(i)[j].kind # "end"})

RowAt(r, i, k) == IF k = r.seq THEN r ELSE Applied(r, i, k)

(* The row after event k arrived on top of what is stored. *)
After(i, k) == RowAt(row[i[1]], i, Reached(row[i[1]], i, stored[i] \union {k}))

(* Everything that is contiguous with k in place is applied or nothing is.  *)
Accepts(i, k) ==
  LET r == row[i[1]] IN
  /\ Current(i[1]) = i /\ Open(i[1]) /\ k \in Events(i) \ stored[i]
  /\ k <= r.seq + Reach /\ Journal(i)[k].samples <= r.approved
  /\ \A j \in (r.seq + 1)..After(i, k).seq : Applicable(RowAt(r, i, j - 1), i, j)

(* Event. Duplicates and refused events change nothing. *)
Event(i, k) ==
  LET after == After(i, k) IN
  /\ Accepts(i, k)
  /\ stored' = [stored EXCEPT ![i] = @ \union {k}]
  /\ Write(i[1], after)
  /\ book' = IF after.status = "closed"
             THEN [book EXCEPT ![i] = Settled(@, after.consumed)] ELSE book
  /\ UNCHANGED <<exists, archived, stream>>

(* Archive: an event of a generation that is fenced or closed is kept as    *)
(* evidence; a terminal one settles what is still pending.                  *)
Shut(i) == row[i[1]].gen > i[2] \/ (Current(i[1]) = i /\ ~Open(i[1]))

(* Mutant: what is archived is evidence only. *)
LateEndIgnored(i, k) == FALSE

LateEnd(i, k) ==
  Journal(i)[k].kind = "end" /\ book[i].billed = Unbilled /\ book[i].pending # {}

Archivable(i, k) ==
  /\ row[i[1]].gen # 0 /\ Shut(i) /\ k \in Events(i)
  /\ Journal(i)[k].samples <= owner[i].approved /\ k <= owner[i].last + Reach
  /\ LateEnd(i, k) => Terminal(i, k, owner[i].last) /\ Payable(book[i], Journal(i)[k].samples)

Archive(i, k) ==
  /\ Archivable(i, k)
  /\ archived' = [archived EXCEPT ![i] = @ \union {k}]
  /\ book' = IF LateEnd(i, k)
             THEN [book EXCEPT ![i] = Settled(@, Journal(i)[k].samples)] ELSE book
  /\ UNCHANGED <<exists, row, stored, owner, stream>>

-----------------------------------------------------------------------------
(* Reap, CancelAuthorizedSession, and the browser's deletion of a session.  *)

Closed(s) == Write(s, [row[s] EXCEPT !.status = "closed"])

Reap(s) ==
  /\ Open(s) /\ row[s].lease = "lapsed"
  /\ Closed(s)
  /\ book' = [book EXCEPT ![Current(s)] = Fenced(s)]
  /\ UNCHANGED <<exists, stored, archived, stream>>

Cancel(s) ==
  /\ exists[s] /\ Untouched(s)
  /\ Closed(s)
  /\ book' = [book EXCEPT ![Current(s)] = Settled(@, 0)]
  /\ UNCHANGED <<exists, stored, archived, stream>>

Cleared(f, s, nothing) == [i \in Grants |-> IF i[1] = s THEN nothing ELSE f[i]]

(* The rows cascade; a trigger refuses while a budget is unsettled, and the *)
(* usage ledger stays.                                                      *)
Delete(s) ==
  /\ exists[s] /\ \A g \in 1..MaxGen : book[<<s, g>>].pending = {}
  /\ exists' = [exists EXCEPT ![s] = FALSE]
  /\ row' = [row EXCEPT ![s] = NoRow]
  /\ book' = [i \in Grants |-> IF i[1] = s THEN [book[i] EXCEPT !.billed = Unbilled] ELSE book[i]]
  /\ stored' = Cleared(stored, s, {}) /\ archived' = Cleared(archived, s, {})
  /\ owner' = Cleared(owner, s, NoOwner)
  /\ UNCHANGED stream

Recreate(s) ==
  /\ ~exists[s] /\ exists' = [exists EXCEPT ![s] = TRUE]
  /\ UNCHANGED <<row, book, stored, archived, owner, stream>>

-----------------------------------------------------------------------------
(* The generation at its node.                                              *)

Node(i) == stream[i].pc = "open" /\ UNCHANGED <<exists, row, book, stored, archived, owner>>

(* readAudio: one frame to the provider, within what is granted. *)
Send(i) ==
  /\ Node(i) /\ stream[i].sent < stream[i].granted
  /\ stream' = [stream EXCEPT ![i].sent = @ + 1]

Room == MapThenSumSet(LAMBDA i : Len(Journal(i)), Grants) < MaxEvents

(* checkpointEvent: the counters as they are, numbered and kept durably. *)
Journalled(i, kind, durable) ==
  Append(Journal(i), [kind |-> kind, samples |-> stream[i].sent, durable |-> durable])

Report(i) ==
  /\ Node(i) /\ Room
  /\ stream' = [stream EXCEPT ![i].journal = Journalled(i, "usage", stream[i].durable)]

(* A provider's final covers audio up to some frame. *)
Final(i) ==
  /\ Node(i) /\ Room
  /\ \E d \in stream[i].durable..(stream[i].resume + stream[i].sent) :
       stream' = [stream EXCEPT ![i].journal = Journalled(i, "final", d), ![i].durable = d]

(* The end, after the last frame; it may exceed the journal's soft limit. *)
Finish(i) ==
  /\ Node(i)
  /\ stream' = [stream EXCEPT ![i].journal = Journalled(i, "end", stream[i].durable),
                              ![i].pc = "over"]

(* The node stops without an end: a crash, or a journal that is full. *)
Break(i) == Node(i) /\ stream' = [stream EXCEPT ![i].pc = "over"]

-----------------------------------------------------------------------------
Next ==
  \/ \E s \in Sessions :
       \/ AuthorizeFirst(s) \/ AuthorizeNext(s) \/ Connect(s) \/ Renew(s) \/ Age(s)
       \/ Reap(s) \/ Cancel(s) \/ Delete(s) \/ Recreate(s)
  \/ \E i \in Grants :
       \/ Send(i) \/ Report(i) \/ Final(i) \/ Finish(i) \/ Break(i)
       \/ \E k \in Events(i) : Event(i, k) \/ Archive(i, k)

Spec == Init /\ [][Next]_vars
-----------------------------------------------------------------------------
(* Properties.                                                              *)

Samples == 0..(Window * MaxWindows)
Durables == 0..(Window * MaxWindows * MaxGen)
EventRecords == [kind : Kinds, samples : Samples, durable : Durables]
Rows == [gen : 0..MaxGen, status : {"none", "authorized", "connected", "closed"},
         approved : Samples, consumed : Samples, seq : Nat,
         durable : Durables, resume : Durables,
         lease : {"live", "late", "expired", "lapsed"}]
Books == [keys : SUBSET Windows, pending : SUBSET Windows,
          charge : [Windows -> 0..Window], billed : Samples \union {Unbilled}]

(* Rows, books, journals and streams have their types. *)
TypeOK ==
  /\ exists \in [Sessions -> BOOLEAN]
  /\ row \in [Sessions -> Rows]
  /\ book \in [Grants -> Books]
  /\ stored \in [Grants -> SUBSET Nat] /\ archived \in [Grants -> SUBSET Nat]
  /\ owner \in [Grants -> [approved : Samples, last : Nat]]
  /\ stream \in [Grants -> [pc : {"none", "open", "over"}, granted : Samples,
                            resume : Durables, durable : Durables, sent : Samples,
                            journal : Seq(EventRecords)]]

(* A generation that was reconciled was billed for exactly the audio its    *)
(* node sent to the provider, however its reports, its end, a handoff, the  *)
(* reaper and a cancellation were interleaved: nothing is refunded that was *)
(* sent, no report is taken for the last word. And that ends its money: no  *)
(* window of it stays prepaid, also when a renewal was under way, and its   *)
(* usage rows add up to the bill.                                           *)
BilledIsSent ==
  \A i \in Grants : book[i].billed # Unbilled =>
    /\ book[i].billed = stream[i].sent
    /\ book[i].pending = {}
    /\ SumFunction(book[i].charge) = book[i].billed

(* Audio goes to the provider only when it was paid for: what a node has    *)
(* sent is within the windows reserved under the generation's usage keys.   *)
SentIsPrepaid ==
  \A i \in Grants : stream[i].sent <= Window * Cardinality(book[i].keys)

(* What a node journals the main site can always use: the next event in     *)
(* order is never in conflict with the row, so a generation that is alive   *)
(* is never quarantined by an honest node's own reports; and an end that    *)
(* comes after its generation was fenced or closed without it settles the    *)
(* prepayment when it is archived (archive.go:86).                           *)
JournalApplies ==
  /\ \A s \in Sessions :
       LET i == Current(s)
           k == row[s].seq + 1
       IN Open(s) /\ k \in Events(i) => Applicable(row[s], i, k)
  /\ \A i \in Grants :
       LET k == Len(Journal(i)) IN
       /\ row[i[1]].gen # 0 /\ Shut(i) /\ book[i].pending # {}
       /\ k > 0 /\ Journal(i)[k].kind = "end" /\ k <= owner[i].last + Reach
       => LateEnd(i, k) /\ Archivable(i, k)

(* The durable watermark, up to which a browser may discard audio, never    *)
(* falls back while the session exists, through handoffs, lost ends and     *)
(* reports that overtake each other.                                        *)
DurableStands ==
  [][\A s \in Sessions : row'[s].gen # 0 => row'[s].durable >= row[s].durable]_vars

-----------------------------------------------------------------------------
(* A generation as the account sees it, also after its session was deleted: *)
(* a window that is pending costs all of itself, any other what its usage   *)
(* row says.                                                                *)
Cost(i) == Window * Cardinality(book[i].pending) + SumFunction(book[i].charge)
Reconciled(i) == book[i].keys # {} /\ book[i].pending = {}

Generation(i) == INSTANCE PrepaidStream WITH
  paid <- Cost(i), sent <- stream[i].sent, billed <- Reconciled(i)
=============================================================================
