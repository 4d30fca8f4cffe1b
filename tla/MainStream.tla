----------------------------- MODULE MainStream -----------------------------
(***************************************************************************)
(* Transcription through the main site: one user's connections, each        *)
(* admitted by a lease in the database, its local bound and a live-stream    *)
(* registry, forwarding audio that the ledger prepaid in reservations, and    *)
(* settling the unused tail when it ends. Edge sessions of the same user      *)
(* compete for the admission. A byte of audio costs one unit, so does its     *)
(* translation; transcripts, metrics and messages to the client are left out. *)
(***************************************************************************)
EXTENDS Integers, Sequences, FiniteSets, Functions

CONSTANTS
  Conns,            \* connection ids, each used once
  Sessions,         \* the user's session ids
  NoSession,        \* a connection without a session
  Inputs,           \* the plan's limit, what the clients do, and a bound on faults
  DbTerm,           \* mainLeaseDuration, in ticks
  LocalTerm,        \* the shorter term the holder itself keeps
  WriteSlack,       \* ticks between the last check of a frame and its write
  Quantum,          \* bytes of speechmaticsReservationPeriod
  MaxReservations,  \* bound on the reservations of a connection
  Gift, Wallet,     \* the account's money at the start
  Percent           \* paid_route_discount_percent

ASSUME MainAssumption ==
  /\ NoSession \notin Sessions /\ IsFiniteSet(Conns)
  /\ IsFiniteSet(Sessions)
  /\ Inputs \subseteq
       [limit : Nat, conns : SUBSET Conns, sessions : SUBSET (Sessions \cup {NoSession}),
        frames : SUBSET (Nat \ {0}), translations : SUBSET BOOLEAN, ending : SUBSET Conns, faults : Nat]
  /\ {DbTerm, LocalTerm, Quantum, MaxReservations} \subseteq Nat \ {0}
  /\ {WriteSlack, Gift, Wallet, Percent} \subseteq Nat
  /\ WriteSlack <= DbTerm - LocalTerm

VARIABLES
  conn,      \* the handler of each connection and its audioUsageMeter
  lease,     \* main_transcription_leases and the MainLease of each connection
  edge,      \* edge_sessions: an Edge was never, is or is no longer on a session
  bill,      \* usage_logs: a row per connection, kind and reservation
  discount,  \* route_discount_refunds: the paid amount it was computed from
  funds,     \* gift grants and wallet of the account
  input,     \* SessionLimitForUser; who may connect, send and end; how many
             \* answers and processes may be lost and calls fail: fixed
  faults     \* faults so far

vars == <<conn, lease, edge, bill, discount, funds, input, faults>>

Kinds == {"audio", "translation"}
Slots == 1..MaxReservations

NewConn ==
  [pc |-> "new", cut |-> FALSE, pending |-> FALSE, gifted |-> FALSE,
   translation |-> FALSE, held |-> <<>>, total |-> 0, frame |-> 0, slack |-> 0,
   todo |-> {}, settled |-> TRUE]
NewLease == [session |-> NoSession, db |-> 0, local |-> 0, next |-> 0, renewal |-> "none"]
Abandoned(l) == [l EXCEPT !.local = 0, !.next = 0, !.renewal = "none"]
Gone(pc) == [NewConn EXCEPT !.pc = pc]
NoRow == [state |-> "none", charge |-> 0, gift |-> 0]

Init ==
  /\ conn = [c \in Conns |-> NewConn]
  /\ lease = [c \in Conns |-> NewLease]
  /\ edge = [s \in Sessions |-> "never"]
  /\ bill = [c \in Conns |-> [k \in Kinds |-> [i \in Slots |-> NoRow]]]
  /\ discount = [c \in Conns |-> -1]
  /\ funds = [gift |-> Gift, wallet |-> Wallet]
  /\ input \in Inputs
  /\ faults = 0

Set(c, r) == conn' = [conn EXCEPT ![c] = r]
At(c, pc) == conn[c].pc = pc
Fault == faults < input.faults /\ faults' = faults + 1

(* The money side and the admission side, for UNCHANGED.                     *)
money == <<bill, discount, funds>>
admission == <<lease, edge, input>>

-----------------------------------------------------------------------------
(* Admission. userLock makes a whole admission exclude every other one of    *)
(* the user; a lease that has expired is as good as deleted.                 *)

Live(c) == lease[c].db > 0
EdgeStreams == {s \in Sessions : edge[s] = "live"}
ActiveStreams == Cardinality({c \in Conns : Live(c)}) + Cardinality(EdgeStreams)
Locked == \E c \in Conns : At(c, "admitting")

Leased(s) == \E d \in Conns : Live(d) /\ lease[d].session = s
Assigned(s) == s # NoSession /\ (edge[s] # "never" \/ Leased(s))

\* AcquireMain up to the local bound; ErrConflict and ErrUnavailable refuse.
Connect(c, s) ==
  /\ At(c, "new") /\ c \in input.conns /\ ~Locked
  /\ ~Assigned(s) /\ ActiveStreams < input.limit
  /\ Set(c, [conn[c] EXCEPT !.pc = "admitting"])
  /\ lease' = [lease EXCEPT ![c].next = LocalTerm, ![c].session = s]
  /\ UNCHANGED <<edge, input, faults, money>>

Streaming == {"open", "charging", "cleared"}
Registered == {c \in Conns : conn[c].pc \in Streaming \cup {"starting", "settle"}}

\* INSERT and COMMIT of AcquireMain, its answer, and liveStreams.Acquire, whose
\* registry only this process reads.
Admit(c) ==
  /\ At(c, "admitting")
  /\ Set(c, [conn[c] EXCEPT !.pc = IF Cardinality(Registered) < input.limit THEN "starting" ELSE "release"])
  /\ lease' = [lease EXCEPT ![c].db = DbTerm, ![c].local = lease[c].next, ![c].next = 0]
  /\ UNCHANGED <<edge, input, faults, money>>

\* The transaction fails, or commits with its answer lost: nobody holds it.
AdmitFails(c) ==
  /\ At(c, "admitting") /\ Fault
  /\ Set(c, Gone("gone"))
  /\ lease' = [lease EXCEPT ![c] = NewLease] \/ lease' = [lease EXCEPT ![c] = Abandoned([@ EXCEPT !.db = DbTerm])]
  /\ UNCHANGED <<edge, input, money>>

\* MainLease.Check
Admitted(c) == lease[c].local > 0

\* The lease is being kept alive: the socket's context is not cancelled.
Kept(c) == conn[c].pc \in Streaming \cup {"starting"} /\ ~conn[c].cut

\* The ticker of KeepAlive; its first tick comes later than the admission.
RenewBegin(c) ==
  /\ Kept(c) /\ Admitted(c) /\ lease[c].renewal = "none" /\ lease[c].local < LocalTerm
  /\ lease' = [lease EXCEPT ![c].next = LocalTerm, ![c].renewal = "asked"]
  /\ UNCHANGED <<conn, edge, input, money, faults>>

\* The UPDATE, which does not touch a row that has expired.
RenewWrite(c) ==
  /\ lease[c].renewal = "asked" /\ Live(c)
  /\ lease' = [lease EXCEPT ![c].db = DbTerm, ![c].renewal = "written"]
  /\ UNCHANGED <<conn, edge, input, money, faults>>

\* Mutant: the new local bound is counted from the answer.
RenewedFromAnswer(c) == [lease[c] EXCEPT !.local = LocalTerm, !.renewal = "none"]

Renewed(c) == [lease[c] EXCEPT !.local = lease[c].next, !.next = 0, !.renewal = "none"]

RenewDone(c) ==
  /\ lease[c].renewal = "written" /\ Kept(c) /\ Admitted(c)
  /\ lease' = [lease EXCEPT ![c] = Renewed(c)]
  /\ UNCHANGED <<conn, edge, input, money, faults>>

\* A renewal that finds the lease expired cancels the socket.
Lapses(c) ==
  /\ Kept(c) /\ (~Admitted(c) \/ (lease[c].renewal = "asked" /\ ~Live(c)))
  /\ Set(c, [conn[c] EXCEPT !.cut = TRUE])
  /\ lease' = [lease EXCEPT ![c] = Abandoned(lease[c])]
  /\ UNCHANGED <<edge, input, money, faults>>

\* So does one that fails or whose answer is lost.
RenewFails(c) ==
  /\ Kept(c) /\ lease[c].renewal # "none" /\ Fault
  /\ Set(c, [conn[c] EXCEPT !.cut = TRUE])
  /\ lease' = [lease EXCEPT ![c] = Abandoned(lease[c])]
  /\ UNCHANGED <<edge, input, money>>

\* Authorize on an Edge.
EdgeGrant(s) ==
  /\ edge[s] # "live" /\ ~Locked
  /\ ~Leased(s) /\ ActiveStreams < input.limit
  /\ edge' = [edge EXCEPT ![s] = "live"]
  /\ UNCHANGED <<conn, lease, input, money, faults>>

EdgeEnds(s) ==
  /\ edge[s] = "live"
  /\ edge' = [edge EXCEPT ![s] = "over"]
  /\ UNCHANGED <<conn, lease, input, money, faults>>

-----------------------------------------------------------------------------
(* The meter.                                                                *)

Prepaid(r) == IF r.held = <<>> THEN 0 ELSE LET h == r.held[Len(r.held)] IN h.start + h.size

\* Mutant: a frame longer than the period is reserved like a shorter one.
ReservedQuantum(r, n) ==
  [r EXCEPT !.held = Append(@, [start |-> Prepaid(r), size |-> Quantum, ok |-> FALSE])]

\* ReserveNextBytes when the next n bytes are not covered
Reserved(r, n) ==
  LET missing == r.total + n - Prepaid(r)
      size == IF missing < Quantum THEN Quantum ELSE missing
  IN  [r EXCEPT !.held = Append(@, [start |-> Prepaid(r), size |-> size, ok |-> FALSE])]

Confirmed(r) == [r EXCEPT !.held = [@ EXCEPT ![Len(r.held)].ok = TRUE]]

\* Mutant: a reservation that was never confirmed is taken for used.
ActualOfConfirmed(r, h) ==
  IF ~h.ok \/ r.total >= h.start + h.size THEN h.size ELSE IF r.total > h.start THEN r.total - h.start ELSE 0

Actual(r, h) ==
  IF h.ok /\ r.total > h.start
  THEN IF r.total - h.start > h.size THEN h.size ELSE r.total - h.start
  ELSE 0

\* Unconfirmed reservations too: their commit may have succeeded.
PendingSettlements(r) ==
  {[kind |-> k, slot |-> i, bytes |-> Actual(r, r.held[i])] :
     k \in IF r.translation THEN Kinds ELSE {"audio"},
     i \in {i \in DOMAIN r.held : Actual(r, r.held[i]) # r.held[i].size}}

\* The audio of every reservation is settled before any translation.
Precedes(e, f) == IF e.kind = f.kind THEN e.slot < f.slot ELSE e.kind = "audio"

\* Both loops have ended: the snapshot of the bytes to settle is final.
Ended(r) == [r EXCEPT !.pc = "settle", !.cut = TRUE, !.frame = 0, !.slack = 0, !.todo = PendingSettlements(r)]

-----------------------------------------------------------------------------
(* The stream.                                                               *)

\* Mutant: a termination that came before its callback is not looked for.
OpenedAnyway(r) == [r EXCEPT !.pc = "open"]

Opened(r) == [r EXCEPT !.pc = "open", !.cut = r.pending]

\* SetTerminate, after the provider has been dialled on the route of RouteForUser
Ready(c) ==
  /\ At(c, "starting") /\ ~conn[c].cut
  /\ Set(c, [Opened(conn[c]) EXCEPT !.gifted = funds.gift > 0])
  /\ UNCHANGED <<admission, money, faults>>

\* The upgrade, the token or the dial fails.
StartFails(c) ==
  /\ At(c, "starting") /\ (Fault \/ (conn[c].cut /\ UNCHANGED faults))
  /\ Set(c, [conn[c] EXCEPT !.pc = "release"])
  /\ UNCHANGED <<admission, money>>

Told(r) == IF r.pc = "starting" THEN [r EXCEPT !.pending = TRUE] ELSE [r EXCEPT !.cut = TRUE]

\* Terminate and TerminateBySession; once it runs, also either peer's end.
Terminate(c) ==
  /\ c \in Registered \cap input.ending /\ ~conn[c].cut /\ ~conn[c].pending
  /\ Set(c, Told(conn[c]))
  /\ UNCHANGED <<admission, money, faults>>

\* The client's StartRecognition, with or without translation.
Start(c, translation) ==
  /\ At(c, "open") /\ ~conn[c].cut /\ conn[c].held = <<>> /\ Admitted(c)
  /\ Set(c, Reserved([conn[c] EXCEPT !.pc = "charging", !.translation = translation], 1))
  /\ UNCHANGED <<admission, money, faults>>

\* An audio frame that the reservations cover
Frame(c, n) ==
  /\ At(c, "open") /\ ~conn[c].cut /\ conn[c].held # <<>> /\ Admitted(c)
  /\ conn[c].total + n <= Prepaid(conn[c])
  /\ Set(c, [conn[c] EXCEPT !.pc = "cleared", !.frame = n, !.slack = WriteSlack])
  /\ UNCHANGED <<admission, money, faults>>

\* and one that needs another
FrameReserves(c, n) ==
  /\ At(c, "open") /\ ~conn[c].cut /\ conn[c].held # <<>> /\ Admitted(c)
  /\ conn[c].total + n > Prepaid(conn[c]) /\ Len(conn[c].held) < MaxReservations
  /\ Set(c, Reserved([conn[c] EXCEPT !.pc = "charging", !.frame = n], n))
  /\ UNCHANGED <<admission, money, faults>>

\* The loop ends: its context is cancelled, or a message finds the lease expired.
Leave(c) ==
  /\ At(c, "open") /\ (conn[c].cut \/ ~Admitted(c))
  /\ Set(c, Ended(conn[c]))
  /\ UNCHANGED <<admission, money, faults>>

-----------------------------------------------------------------------------
(* The ledger.                                                               *)

Slot(c) == Len(conn[c].held)
Size(c) == conn[c].held[Slot(c)].size
Part(c, kind) == IF kind = "audio" \/ conn[c].translation THEN Size(c) ELSE 0

\* Transcription outside the gift route is not paid from gifts.
GiftFor(c, kind, gift) ==
  IF kind = "audio" /\ ~conn[c].gifted THEN 0 ELSE IF gift < Part(c, kind) THEN gift ELSE Part(c, kind)

Affordable(c) ==
  LET g == GiftFor(c, "audio", funds.gift)
      h == GiftFor(c, "translation", funds.gift - g)
  IN  Part(c, "audio") - g + Part(c, "translation") - h <= funds.wallet

\* RecordUsageBatch: both rows or neither
Record(c) ==
  LET g == GiftFor(c, "audio", funds.gift)
      h == GiftFor(c, "translation", funds.gift - g)
      row(size, gift) == [state |-> "reserved", charge |-> size, gift |-> gift]
  IN  /\ bill' = [bill EXCEPT
           ![c]["audio"][Slot(c)] = row(Part(c, "audio"), g),
           ![c]["translation"][Slot(c)] = IF conn[c].translation THEN row(Part(c, "translation"), h) ELSE @]
      /\ funds' = [gift |-> funds.gift - g - h,
                   wallet |-> funds.wallet - (Part(c, "audio") - g) - (Part(c, "translation") - h)]

Allowed(c) == Admitted(c) /\ ~conn[c].cut

\* RecordUsageBatch answers: the reservation is confirmed and, unless the
\* lease or the context has ended meanwhile, the message is cleared.
Charge(c) ==
  LET r == Confirmed(conn[c])
  IN  /\ At(c, "charging") /\ Affordable(c)
      /\ Record(c)
      /\ Set(c, IF Allowed(c) THEN [r EXCEPT !.pc = "cleared", !.slack = WriteSlack] ELSE Ended(r))
      /\ UNCHANGED <<admission, discount, faults>>

\* The answer is lost after the commit; a cancelled context may do that too.
ChargeUnknown(c) ==
  /\ At(c, "charging") /\ Affordable(c) /\ (Fault \/ (conn[c].cut /\ UNCHANGED faults))
  /\ Record(c)
  /\ Set(c, Ended(conn[c]))
  /\ UNCHANGED <<admission, discount>>

ChargeFails(c) ==
  /\ At(c, "charging") /\ (Fault \/ ((conn[c].cut \/ ~Affordable(c)) /\ UNCHANGED faults))
  /\ Set(c, Ended(conn[c]))
  /\ UNCHANGED <<admission, money>>

\* WriteMessage to the provider, then AddReservedForwardedBytes; the message
\* that starts the recognition counts no audio.
Forward(c) ==
  LET r == [conn[c] EXCEPT !.pc = "open", !.frame = 0, !.slack = 0]
      total == r.total + conn[c].frame
  IN  /\ At(c, "cleared")
      /\ Set(c, IF total <= Prepaid(r) THEN [r EXCEPT !.total = total] ELSE Ended(r))
      /\ UNCHANGED <<admission, money, faults>>

WriteFails(c) ==
  /\ At(c, "cleared") /\ (Fault \/ (conn[c].cut /\ UNCHANGED faults))
  /\ Set(c, Ended(conn[c]))
  /\ UNCHANGED <<admission, money>>

-----------------------------------------------------------------------------
(* The end.                                                                  *)

\* SettleUsageReservation: wallet money goes back before gifts.
SettledRow(row, bytes) ==
  LET back == row.charge - bytes
      wallet == IF back < row.charge - row.gift THEN back ELSE row.charge - row.gift
  IN  [state |-> "settled", charge |-> bytes, gift |-> row.gift - (back - wallet)]

Returned(row, new) ==
  [gift |-> funds.gift + row.gift - new.gift,
   wallet |-> funds.wallet + (row.charge - row.gift) - (new.charge - new.gift)]

Settle(c, e) ==
  LET row == bill[c][e.kind][e.slot]
      new == SettledRow(row, e.bytes)
  IN  IF row.state = "reserved"
      THEN bill' = [bill EXCEPT ![c][e.kind][e.slot] = new] /\ funds' = Returned(row, new)
      ELSE UNCHANGED <<bill, funds>>

Due(c, e) == At(c, "settle") /\ \A f \in conn[c].todo \ {e} : Precedes(e, f)

Settles(c) ==
  \E e \in conn[c].todo :
    /\ Due(c, e)
    /\ Settle(c, e)
    /\ Set(c, [conn[c] EXCEPT !.todo = @ \ {e}])
    /\ UNCHANGED <<admission, discount, faults>>

\* Three attempts fail, or one has committed and no answer arrives.
SettleFails(c) ==
  \E e \in conn[c].todo :
    /\ Due(c, e) /\ Fault
    /\ Settle(c, e) \/ UNCHANGED <<bill, funds>>
    /\ Set(c, [conn[c] EXCEPT !.todo = @ \ {e}, !.settled = FALSE])
    /\ UNCHANGED <<admission, discount>>

Bill(c, kind) == SumFunction([i \in Slots |-> bill[c][kind][i].charge])
PaidPart(c) == SumFunction([i \in Slots |-> bill[c]["audio"][i].charge - bill[c]["audio"][i].gift])
Back(c) == (PaidPart(c) * Percent) \div 100

\* RefundRouteDiscount, for a gift-funded stream; releaseStream
Finish(c) ==
  /\ At(c, "settle") /\ conn[c].todo = {}
  /\ IF conn[c].gifted /\ Back(c) > 0
     THEN /\ discount' = [discount EXCEPT ![c] = PaidPart(c)]
          /\ funds' = [funds EXCEPT !.wallet = @ + Back(c)]
     ELSE UNCHANGED <<discount, funds>>
  /\ Set(c, [conn[c] EXCEPT !.pc = "release"])
  /\ UNCHANGED <<admission, bill, faults>>

DiscountFails(c) ==
  /\ At(c, "settle") /\ conn[c].todo = {} /\ conn[c].gifted /\ Fault
  /\ Set(c, [conn[c] EXCEPT !.pc = "release"])
  /\ UNCHANGED <<admission, money>>

\* MainLease.Release, which may fail to delete the row
Release(c) ==
  /\ At(c, "release")
  /\ Set(c, Gone("done"))
  /\ \/ lease' = [lease EXCEPT ![c] = NewLease] /\ UNCHANGED faults
     \/ lease' = [lease EXCEPT ![c] = Abandoned(lease[c])] /\ Fault
  /\ UNCHANGED <<edge, input, money>>

Alive == {c \in Conns : conn[c].pc \notin {"new", "done", "gone"}}

\* The process ends with all its connections.
Crash ==
  /\ Alive # {} /\ Fault
  /\ conn' = [c \in Conns |-> IF c \in Alive THEN Gone("gone") ELSE conn[c]]
  /\ lease' = [c \in Conns |-> IF c \in Alive THEN Abandoned(lease[c]) ELSE lease[c]]
  /\ UNCHANGED <<edge, input, money>>

-----------------------------------------------------------------------------
Less(n) == IF n = 0 THEN 0 ELSE n - 1

\* A frame that has been cleared is written within WriteSlack ticks.
Tick ==
  /\ \A c \in Conns : At(c, "cleared") => conn[c].slack > 0
  /\ \E c \in Conns : lease[c].db > 0 \/ lease[c].local > 0 \/ lease[c].next > 0
  /\ lease' = [c \in Conns |-> [lease[c] EXCEPT !.db = Less(@), !.local = Less(@), !.next = Less(@)]]
  /\ conn' = [c \in Conns |-> [conn[c] EXCEPT !.slack = Less(@)]]
  /\ UNCHANGED <<edge, input, money, faults>>

Handler(c) ==
  \/ Admit(c) \/ Lapses(c) \/ Ready(c) \/ Leave(c)
  \/ Charge(c) \/ ChargeFails(c) \/ Forward(c)
  \/ StartFails(c) \/ Settles(c) \/ Finish(c) \/ Release(c)

Next ==
  \/ \E c \in Conns :
       \/ Handler(c) \/ AdmitFails(c)
       \/ RenewBegin(c) \/ RenewWrite(c) \/ RenewDone(c) \/ RenewFails(c)
       \/ Terminate(c) \/ ChargeUnknown(c) \/ WriteFails(c) \/ SettleFails(c) \/ DiscountFails(c)
       \/ \E s \in input.sessions : Connect(c, s)
       \/ \E t \in input.translations : Start(c, t)
       \/ \E n \in input.frames : Frame(c, n) \/ FrameReserves(c, n)
  \/ \E s \in Sessions : EdgeGrant(s) \/ EdgeEnds(s)
  \/ Crash \/ Tick

Spec == Init /\ [][Next]_vars /\ \A c \in Conns : WF_vars(Handler(c))

-----------------------------------------------------------------------------
(* Properties.                                                               *)

\* The handler may be writing audio, or the message that starts the recognition,
\* to the provider. Other text is passed on without a look at the lease.
Writer(c) == At(c, "cleared")

\* Whatever expires, is renewed late or is released while a frame waits: a
\* session has one writer, on the main site or an Edge, and the user no more
\* writers than the plan allows (main_ingress.go:64-67, :100-121).
OneWriter ==
  /\ \A s \in Sessions :
       Cardinality({c \in Conns : Writer(c) /\ lease[c].session = s}) + Cardinality({s} \cap EdgeStreams) <= 1
  /\ Cardinality({c \in Conns : Writer(c)}) + Cardinality(EdgeStreams) <= input.limit

Used(c) == conn[c].total + IF Writer(c) THEN conn[c].frame ELSE 0

\* No audio reaches the provider, and none stays there after a crash, that
\* committed rows do not pay for, its translation included
\* (speechmatics_proxy.go:570-590, speechmatics_accounting.go:46-88).
FramesArePrepaid ==
  \A c \in Conns : Bill(c, "audio") >= Used(c) /\ (conn[c].translation => Bill(c, "translation") >= Used(c))

\* A stream whose settlements all succeeded has paid for exactly what was
\* forwarded, however it ended and whatever answers were lost; the discount
\* is that of what the rows finally say was paid (routing.go:235).
BillIsExact ==
  /\ \A c \in Conns : At(c, "release") /\ conn[c].settled =>
       /\ Bill(c, "audio") = conn[c].total
       /\ Bill(c, "translation") = IF conn[c].translation THEN conn[c].total ELSE 0
  /\ \A c \in Conns : discount[c] # -1 => discount[c] = PaidPart(c)

Over(c) == conn[c].pc \in {"done", "gone"}

\* A stream that was terminated, even before its callback was there, or whose
\* admission has expired ends and gives its slot back.
RevokedEnds ==
  \A c \in Conns :
    conn[c].cut \/ conn[c].pending \/ (conn[c].pc \in Streaming /\ ~Admitted(c)) ~> Over(c)

=============================================================================
