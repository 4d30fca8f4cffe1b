----------------------------- MODULE EdgeOutbox -----------------------------
(***************************************************************************)
(* An edge node with its durable outbox, composed with the main site's      *)
(* control of its sessions (EdgeSession). Streams append their events to    *)
(* one SQLite queue; one loop sends the oldest event until the main site    *)
(* has applied it, sets a generation aside that is refused, and hands what  *)
(* was set aside to the archive when nothing else waits. Calls fail, their  *)
(* answers get lost, and the node restarts. The node's clock does not step  *)
(* back, so the queue's order is the order of appending.                    *)
(***************************************************************************)
EXTENDS EdgeSession

CONSTANTS
  Deletions,    \* TRUE: browsers delete sessions
  MaxLosses     \* bound on calls that fail or lose their answer, and restarts

ASSUME OutboxAssumption == Deletions \in BOOLEAN /\ MaxLosses \in Nat

VARIABLES
  queue,        \* events not blocked, in order: <<generation, sequence>>
  blocked,      \* events set aside, in order
  backoff,      \* generations whose archival waits 30 s
  counter,      \* next_seq of each generation; 1 when there is no row
  call,         \* the call of Run that was made and is to be acted on
  losses

node == <<queue, blocked, backoff, counter, call, losses>>
allVars == <<vars, node>>

Items == Range(queue) \union Range(blocked)     \* the rows of the outbox

Idle == [kind |-> "none", item |-> <<>>, answer |-> "none", ack |-> 0]

OutboxInit ==
  /\ Init
  /\ queue = <<>> /\ blocked = <<>> /\ backoff = {}
  /\ counter = [i \in Grants |-> 1]
  /\ call = Idle /\ losses = 0

-----------------------------------------------------------------------------
(* The main site and the streams, without the calls that Run makes.         *)

(* Append: number, row and counter in one transaction. *)
Appends(i) ==
  /\ Report(i) \/ Final(i) \/ Finish(i)
  /\ queue' = Append(queue, <<i, counter[i]>>)
  /\ counter' = [counter EXCEPT ![i] = @ + 1]
  /\ UNCHANGED <<blocked, backoff, call, losses>>

Others ==
  /\ \/ \E s \in Sessions :
          \/ AuthorizeFirst(s) \/ AuthorizeNext(s) \/ Connect(s) \/ Renew(s) \/ Age(s)
          \/ Reap(s) \/ Cancel(s) \/ (Deletions /\ Delete(s))
     \/ \E i \in Grants : Send(i) \/ Break(i)
  /\ UNCHANGED node

-----------------------------------------------------------------------------
(* Run: one call at a time.                                                 *)

Its(i) == {i} \X Nat          \* the items of a generation
Has(q, i) == \E item \in Range(q) : item[1] = i

(* The items of q that are in S, in their order. *)
Among(q, S) ==
  LET kept[n \in 0..Len(q)] ==
        IF n = 0 THEN <<>>
        ELSE IF q[n] \in S THEN Append(kept[n - 1], q[n]) ELSE kept[n - 1]
  IN kept[Len(q)]

Without(q, gone) == Among(q, Range(q) \ gone)

(* What the main site answers to an event. A session that no longer exists  *)
(* is an error like any other.                                              *)
Answer(i, k) ==
  CASE row[i[1]].gen = 0 -> "error"
    [] Current(i[1]) = i /\ (k \in stored[i] \/ Accepts(i, k)) -> "saved"
    [] OTHER -> "conflict"

Lost == losses < MaxLosses /\ losses' = losses + 1

(* The oldest event is sent. The main site acts or does not; then the       *)
(* answer arrives or does not.                                              *)
Post ==
  LET i == Head(queue)[1]
      k == Head(queue)[2]
  IN
  /\ call = Idle /\ queue # <<>>
  /\ \/ /\ IF Accepts(i, k) THEN Event(i, k) ELSE UNCHANGED vars
        /\ \/ /\ call' = [kind |-> "event", item |-> Head(queue), answer |-> Answer(i, k),
                          ack |-> row'[i[1]].seq]
              /\ UNCHANGED losses
           \/ Lost /\ UNCHANGED call
     \/ Lost /\ UNCHANGED <<vars, call>>
  /\ UNCHANGED <<queue, blocked, backoff, counter>>

(* Mutant: the acknowledgement is taken for the whole generation. *)
TakeAll ==
  LET i == call.item[1] IN
  /\ call.kind = "event" /\ call.answer = "saved"
  /\ queue' = Without(queue, Its(i)) /\ blocked' = Without(blocked, Its(i))
  /\ counter' = counter /\ call' = Idle
  /\ UNCHANGED <<vars, backoff, losses>>

(* Ack: everything up to the applied prefix leaves the queue, and with the  *)
(* last of an ended generation its counter.                                 *)
Take ==
  LET i == call.item[1]
      acked == {i} \X (1..call.ack)
      ended == \E item \in acked \intersect Items : Journal(i)[item[2]].kind = "end"
  IN
  /\ call.kind = "event" /\ call.answer = "saved"
  /\ IF call.ack >= call.item[2]
     THEN /\ queue' = Without(queue, acked) /\ blocked' = Without(blocked, acked)
          /\ counter' = IF ended /\ ~Has(queue', i) /\ ~Has(blocked', i)
                        THEN [counter EXCEPT ![i] = 1] ELSE counter
     ELSE UNCHANGED <<queue, blocked, counter>>
  /\ call' = Idle
  /\ UNCHANGED <<vars, backoff, losses>>

(* Block: what the queue holds of the generation is set aside. *)
SetAside ==
  LET i == call.item[1] IN
  /\ call.kind = "event" /\ call.answer = "conflict"
  /\ queue' = Without(queue, Its(i))
  /\ blocked' = blocked \o Among(queue, Its(i))
  /\ call' = Idle
  /\ UNCHANGED <<vars, backoff, counter, losses>>

(* Any other answer: the same event again after a while. *)
Again ==
  /\ call.kind = "event" /\ call.answer = "error"
  /\ call' = Idle
  /\ UNCHANGED <<vars, queue, blocked, backoff, counter, losses>>

(* NextArchive, only when no event waits: the oldest event set aside of a   *)
(* generation that does not back off.                                       *)
PostArchive ==
  LET ready == Among(blocked, (Grants \ backoff) \X Nat)
      i == Head(ready)[1]
      k == Head(ready)[2]
  IN
  /\ call = Idle /\ queue = <<>> /\ ready # <<>>
  /\ \/ /\ IF Archivable(i, k) THEN Archive(i, k) ELSE UNCHANGED vars
        /\ \/ /\ call' = [kind |-> "archive", item |-> Head(ready), ack |-> 0,
                          answer |-> IF Archivable(i, k) THEN "saved" ELSE "conflict"]
              /\ UNCHANGED losses
           \/ Lost /\ UNCHANGED call
     \/ Lost /\ UNCHANGED <<vars, call>>
  /\ UNCHANGED <<queue, blocked, backoff, counter>>

(* Mutant: the counter goes with the last event, whoever is still writing. *)
MayRetireAlways(i) == TRUE

(* The counter is retired only once the generation's writer is gone. *)
MayRetire(i) == stream[i].pc # "open"

(* Archive and retireCounter, or RetryArchive. *)
TakeArchive ==
  LET i == call.item[1] IN
  /\ call.kind = "archive" /\ call' = Idle
  /\ IF call.answer = "saved"
     THEN /\ blocked' = Without(blocked, {call.item})
          /\ counter' = IF MayRetire(i) /\ ~Has(queue, i) /\ ~Has(blocked', i)
                        THEN [counter EXCEPT ![i] = 1] ELSE counter
          /\ UNCHANGED backoff
     ELSE backoff' = backoff \union {i} /\ UNCHANGED <<blocked, counter>>
  /\ UNCHANGED <<vars, queue, losses>>

Elapse == backoff # {} /\ backoff' = {} /\ UNCHANGED <<vars, queue, blocked, counter, call, losses>>

(* The process starts again: streams and the call in hand are gone, the     *)
(* queue and its counters are not.                                          *)
Restart ==
  /\ Lost /\ call' = Idle
  /\ stream' = [i \in Grants |-> IF stream[i].pc = "open" THEN [stream[i] EXCEPT !.pc = "over"]
                                                          ELSE stream[i]]
  /\ UNCHANGED <<exists, row, book, stored, archived, owner, queue, blocked, backoff, counter>>

Run == Post \/ Take \/ SetAside \/ Again \/ PostArchive \/ TakeArchive

OutboxNext == (\E i \in Grants : Appends(i)) \/ Others \/ Run \/ Elapse \/ Restart

(* The loop goes on, time passes; calls that fail are finitely many. *)
OutboxSpec == OutboxInit /\ [][OutboxNext]_allVars /\ WF_allVars(Run) /\ WF_allVars(Elapse)

-----------------------------------------------------------------------------
(* Properties.                                                              *)

(* An event that was journalled is in the outbox until the main site has it *)
(* in its tables: no acknowledgement, restart, refusal or archival loses    *)
(* one, as long as its session exists.                                      *)
NothingLost ==
  \A i \in Grants : row[i[1]].gen >= i[2] =>
    \A k \in Events(i) : \/ <<i, k>> \in Items
                         \/ k \in Evidence(i)

(* A generation's numbers are never given out twice: while its stream runs, *)
(* the counter is the number after the last event, also when everything     *)
(* before was acknowledged or archived.                                     *)
NumbersAreFresh ==
  \A i \in Grants : stream[i].pc = "open" => counter[i] = Len(Journal(i)) + 1

(* Every generation whose end was journalled is settled in the end, whether *)
(* its events are applied, or refused and archived.                         *)
EndSettles ==
  \A i \in Grants :
    (Journal(i) # <<>> /\ Journal(i)[Len(Journal(i))].kind = "end") ~> (book[i].pending = {})
=============================================================================
