--------------------------- MODULE MainStreamProofs ---------------------------
(***************************************************************************)
(* A session has one writer and a user no more than the plan allows, for     *)
(* every number of connections and sessions and every term of the leases;    *)
(* and audio is paid for before it is sent, and in the end to the byte.      *)
(***************************************************************************)
EXTENDS MainStream, Sums, SequenceTheorems

Fields ==
  {"pc", "cut", "pending", "gifted", "translation", "held", "total", "frame", "slack", "todo", "settled"}

LeaseRow ==
  [session : Sessions \cup {NoSession}, db : 0..DbTerm, local : Nat, next : 0..LocalTerm,
   renewal : {"none", "asked", "written"}]

Margin == DbTerm - LocalTerm

(* A connection and its lease: the local bound, present or asked for, ends   *)
(* the margin before the row does, and a cleared frame is written before it. *)
Sound(r, l) ==
  /\ DOMAIN r = Fields /\ r.slack \in Nat
  /\ l \in LeaseRow
  /\ l.local > 0 => l.db >= l.local + Margin
  /\ l.renewal = "written" /\ l.next > 0 => l.db >= l.next + Margin
  /\ r.pc = "cleared" => l.db >= r.slack + 1
  /\ r.pc \in {"new", "admitting"} => l.db = 0 /\ l.local = 0 /\ l.renewal = "none"

Shape ==
  /\ conn = [c \in Conns |-> conn[c]]
  /\ lease = [c \in Conns |-> lease[c]]
  /\ edge \in [Sessions -> {"never", "live", "over"}]
  /\ input.limit \in Nat /\ input.sessions \subseteq Sessions \cup {NoSession}

(* Nobody else is on the session of c.                                       *)
Alone(c) ==
  lease[c].session # NoSession =>
    /\ edge[lease[c].session] # "live"
    /\ \A d \in Conns : Live(d) /\ lease[d].session = lease[c].session => d = c

LiveConns == {c \in Conns : Live(c)}

(* A live lease has its session for itself, and so will the admission that   *)
(* is under way, of which there is one at a time and for which there is room. *)
Inv ==
  /\ Shape
  /\ \A c \in Conns : Sound(conn[c], lease[c])
  /\ \A c \in Conns : Live(c) \/ At(c, "admitting") => Alone(c)
  /\ ActiveStreams <= input.limit
  /\ \A c \in Conns : At(c, "admitting") => ActiveStreams < input.limit
  /\ \A c, d \in Conns : At(c, "admitting") /\ At(d, "admitting") => c = d

LEMMA Constants ==
  /\ NoSession \notin Sessions /\ IsFiniteSet(Conns) /\ IsFiniteSet(Sessions)
  /\ DbTerm \in Nat /\ DbTerm > 0 /\ LocalTerm \in Nat /\ LocalTerm > 0
  /\ WriteSlack \in Nat /\ WriteSlack <= Margin /\ Margin \in Nat
  /\ \A i \in Inputs : i.limit \in Nat /\ i.sessions \subseteq Sessions \cup {NoSession}
BY MainAssumption DEF Margin

LEMMA Terms ==
  /\ DbTerm \in Nat /\ LocalTerm \in Nat /\ Margin \in Nat
  /\ DbTerm = LocalTerm + Margin /\ WriteSlack \in Nat /\ WriteSlack <= Margin
  /\ 0 \in 0..DbTerm /\ DbTerm \in 0..DbTerm /\ 0 \in 0..LocalTerm /\ LocalTerm \in 0..LocalTerm
BY Constants DEF Margin

(* The numbers of a lease, and what its record may become.                   *)
LEMMA Numbers ==
  ASSUME NEW l \in LeaseRow
  PROVE  l.db \in Nat /\ l.db <= DbTerm /\ l.local \in Nat /\ l.next \in Nat /\ l.next <= LocalTerm
BY Terms DEF LeaseRow

LEMMA NewSound == Sound(NewConn, NewLease) /\ NewConn.pc = "new"
BY Constants DEF Sound, NewConn, NewLease, Fields, LeaseRow

(* What the live streams number.                                             *)
LEMMA Counted ==
  /\ IsFiniteSet(LiveConns) /\ IsFiniteSet(EdgeStreams)
  /\ Cardinality(LiveConns) \in Nat /\ Cardinality(EdgeStreams) \in Nat
  /\ ActiveStreams = Cardinality(LiveConns) + Cardinality(EdgeStreams)
<1>1. LiveConns \subseteq Conns /\ EdgeStreams \subseteq Sessions
  BY DEF LiveConns, EdgeStreams
<1>2. IsFiniteSet(LiveConns) /\ IsFiniteSet(EdgeStreams)
  BY <1>1, Constants, FS_Subset
<1> QED BY <1>2, FS_CardinalityType DEF ActiveStreams, LiveConns

(* Streams only end: there are no more of them.                              *)
LEMMA FewerStreams ==
  ASSUME LiveConns' \subseteq LiveConns, EdgeStreams' \subseteq EdgeStreams
  PROVE  ActiveStreams' \in Nat /\ ActiveStreams \in Nat /\ ActiveStreams' <= ActiveStreams
<1>1. /\ IsFiniteSet(LiveConns') /\ Cardinality(LiveConns') <= Cardinality(LiveConns)
      /\ IsFiniteSet(EdgeStreams') /\ Cardinality(EdgeStreams') <= Cardinality(EdgeStreams)
  BY Counted, FS_Subset
<1>2. Cardinality(LiveConns') \in Nat /\ Cardinality(EdgeStreams') \in Nat
  BY <1>1, FS_CardinalityType
<1>3. ActiveStreams' = Cardinality(LiveConns') + Cardinality(EdgeStreams')
  BY DEF ActiveStreams, LiveConns
<1> QED BY <1>1, <1>2, <1>3, Counted

-----------------------------------------------------------------------------
(* A step of one connection that is not being admitted and gains no lease.   *)
LEMMA OwnStep ==
  ASSUME Inv, NEW c \in Conns, NEW r, NEW l,
         conn' = [conn EXCEPT ![c] = r], lease' = [lease EXCEPT ![c] = l],
         UNCHANGED <<edge, input>>,
         Sound(r, l), r.pc # "admitting",
         l.db > 0 => Live(c) /\ l.session = lease[c].session
  PROVE  Inv'
<1>1. \A d \in Conns : conn'[d] = (IF d = c THEN r ELSE conn[d]) /\ lease'[d] = (IF d = c THEN l ELSE lease[d])
  BY DEF Inv, Shape
<1>2. Shape'
  BY DEF Inv, Shape
<1>3. \A d \in Conns : Sound(conn'[d], lease'[d])
  BY <1>1 DEF Inv
<1>4. \A d \in Conns : Live(d)' => Live(d) /\ lease'[d].session = lease[d].session
  BY <1>1 DEF Live
<1>5. \A d \in Conns : At(d, "admitting")' => d # c /\ At(d, "admitting") /\ lease'[d] = lease[d]
  BY <1>1 DEF At
<1>6. \A d \in Conns : Live(d)' \/ At(d, "admitting")' => Alone(d)'
  <2> SUFFICES ASSUME NEW d \in Conns, Live(d)' \/ At(d, "admitting")' PROVE Alone(d)'
    OBVIOUS
  <2>1. Alone(d) /\ lease'[d].session = lease[d].session
    BY <1>4, <1>5 DEF Inv
  <2> QED BY <2>1, <1>4 DEF Alone
<1>7. ActiveStreams' \in Nat /\ ActiveStreams \in Nat /\ ActiveStreams' <= ActiveStreams
  BY <1>4, FewerStreams DEF LiveConns, EdgeStreams
<1>8. ActiveStreams' <= input'.limit /\ \A d \in Conns : At(d, "admitting")' => ActiveStreams' < input'.limit
  BY <1>5, <1>7 DEF Inv, Shape
<1>9. \A d, e \in Conns : At(d, "admitting")' /\ At(e, "admitting")' => d = e
  BY <1>5 DEF Inv
<1> QED BY <1>2, <1>3, <1>6, <1>8, <1>9 DEF Inv

(* The handler moves, the lease stays.                                       *)
LEMMA HandlerStep ==
  ASSUME Inv, NEW c \in Conns, NEW r, Set(c, r), UNCHANGED admission,
         DOMAIN r = Fields, r.slack \in Nat, r.pc \notin {"new", "admitting"},
         r.pc = "cleared" => lease[c].db >= r.slack + 1
  PROVE  Inv'
<1>1. Sound(conn[c], lease[c])
  BY DEF Inv
<1>2. Sound(r, lease[c])
  BY <1>1 DEF Sound
<1>3. lease' = [lease EXCEPT ![c] = lease[c]] /\ lease[c].db \in Nat
  BY <1>1 DEF admission, Inv, Shape, Sound, LeaseRow
<1> QED BY <1>2, <1>3, OwnStep DEF Set, admission, Live

-----------------------------------------------------------------------------
(* Steps that leave the lease alone.                                         *)

LEMMA Parts ==
  ASSUME Inv, NEW c \in Conns
  PROVE  /\ Sound(conn[c], lease[c]) /\ DOMAIN conn[c] = Fields /\ conn[c].slack \in Nat
         /\ lease[c] \in LeaseRow
         /\ lease[c].db \in Nat /\ lease[c].db <= DbTerm
         /\ lease[c].local \in Nat /\ lease[c].next \in Nat /\ lease[c].next <= LocalTerm
         /\ lease[c] = [session |-> lease[c].session, db |-> lease[c].db, local |-> lease[c].local,
                        next |-> lease[c].next, renewal |-> lease[c].renewal]
<1>1. Sound(conn[c], lease[c])
  BY DEF Inv
<1> QED BY <1>1, Constants DEF Sound, LeaseRow

LEMMA EndedSound ==
  ASSUME NEW r, DOMAIN r = Fields
  PROVE  DOMAIN Ended(r) = Fields /\ Ended(r).pc = "settle" /\ Ended(r).slack = 0
BY DEF Ended, Fields

LEMMA ReservedSound ==
  ASSUME NEW r, DOMAIN r = Fields, NEW n
  PROVE  DOMAIN Reserved(r, n) = Fields /\ Reserved(r, n).pc = r.pc /\ Reserved(r, n).slack = r.slack
BY DEF Reserved, Fields

LEMMA ConfirmedSound ==
  ASSUME NEW r, DOMAIN r = Fields
  PROVE  DOMAIN Confirmed(r) = Fields
BY DEF Confirmed, Fields

LEMMA StepEnds ==
  ASSUME Inv, NEW c \in Conns, NEW r, DOMAIN r = Fields, Set(c, Ended(r)), UNCHANGED admission
  PROVE  Inv'
BY EndedSound, HandlerStep

(* A frame is cleared while the local bound holds.                           *)
LEMMA ClearedInTime ==
  ASSUME Inv, NEW c \in Conns, Admitted(c)
  PROVE  lease[c].db >= WriteSlack + 1
<1> DEFINE db == lease[c].db  local == lease[c].local
<1>1. db \in Nat /\ local \in Nat /\ local > 0 /\ db >= local + Margin
  BY Parts DEF Sound, Admitted
<1> HIDE DEF db, local
<1>2. db >= WriteSlack + 1
  BY <1>1, Constants
<1> QED BY <1>2 DEF db

LEMMA ReadyStep == ASSUME Inv, NEW c \in Conns, Ready(c) PROVE Inv'
<1> DEFINE r == [Opened(conn[c]) EXCEPT !.gifted = funds.gift > 0]
<1>1. DOMAIN r = Fields /\ r.pc = "open" /\ r.slack \in Nat
  BY Parts DEF Opened, Fields
<1>2. Set(c, r) /\ UNCHANGED admission
  BY DEF Ready
<1> HIDE DEF r
<1> QED BY <1>1, <1>2, HandlerStep

LEMMA TerminateStep == ASSUME Inv, NEW c \in Conns, Terminate(c) PROVE Inv'
<1> DEFINE r == Told(conn[c])
<1>1. DOMAIN r = Fields /\ r.pc = conn[c].pc /\ r.slack = conn[c].slack
  BY Parts DEF Told, Fields
<1>2. Set(c, r) /\ UNCHANGED admission /\ conn[c].pc \in Streaming \cup {"starting", "settle"}
  BY DEF Terminate, Registered
<1>3. r.pc = "cleared" => lease[c].db >= r.slack + 1
  BY <1>1, Parts DEF Sound
<1> HIDE DEF r
<1> QED BY <1>1, <1>2, <1>3, Parts, HandlerStep DEF Streaming

LEMMA StartFailsStep == ASSUME Inv, NEW c \in Conns, StartFails(c) PROVE Inv'
<1> DEFINE r == [conn[c] EXCEPT !.pc = "release"]
<1>1. DOMAIN r = Fields /\ r.pc = "release" /\ r.slack \in Nat
  BY Parts DEF Fields
<1>2. Set(c, r) /\ UNCHANGED admission
  BY DEF StartFails
<1> HIDE DEF r
<1> QED BY <1>1, <1>2, HandlerStep

LEMMA LeaveStep == ASSUME Inv, NEW c \in Conns, Leave(c) PROVE Inv'
<1>1. Set(c, Ended(conn[c])) /\ UNCHANGED admission
  BY DEF Leave
<1> QED BY <1>1, Parts, StepEnds

LEMMA ChargeUnknownStep == ASSUME Inv, NEW c \in Conns, ChargeUnknown(c) PROVE Inv'
<1>1. Set(c, Ended(conn[c])) /\ UNCHANGED admission
  BY DEF ChargeUnknown
<1> QED BY <1>1, Parts, StepEnds

LEMMA ChargeFailsStep == ASSUME Inv, NEW c \in Conns, ChargeFails(c) PROVE Inv'
<1>1. Set(c, Ended(conn[c])) /\ UNCHANGED admission
  BY DEF ChargeFails
<1> QED BY <1>1, Parts, StepEnds

LEMMA WriteFailsStep == ASSUME Inv, NEW c \in Conns, WriteFails(c) PROVE Inv'
<1>1. Set(c, Ended(conn[c])) /\ UNCHANGED admission
  BY DEF WriteFails
<1> QED BY <1>1, Parts, StepEnds

LEMMA StartStep == ASSUME Inv, NEW c \in Conns, NEW t, Start(c, t) PROVE Inv'
<1> DEFINE q == [conn[c] EXCEPT !.pc = "charging", !.translation = t]
<1>1. DOMAIN q = Fields /\ q.pc = "charging" /\ q.slack \in Nat
  BY Parts DEF Fields
<1>2. Set(c, Reserved(q, 1)) /\ UNCHANGED admission
  BY DEF Start
<1> HIDE DEF q
<1> QED BY <1>1, <1>2, ReservedSound, HandlerStep

LEMMA FrameReservesStep == ASSUME Inv, NEW c \in Conns, NEW n, FrameReserves(c, n) PROVE Inv'
<1> DEFINE q == [conn[c] EXCEPT !.pc = "charging", !.frame = n]
<1>1. DOMAIN q = Fields /\ q.pc = "charging" /\ q.slack \in Nat
  BY Parts DEF Fields
<1>2. Set(c, Reserved(q, n)) /\ UNCHANGED admission
  BY DEF FrameReserves
<1> HIDE DEF q
<1> QED BY <1>1, <1>2, ReservedSound, HandlerStep

LEMMA FrameStep == ASSUME Inv, NEW c \in Conns, NEW n, Frame(c, n) PROVE Inv'
<1> DEFINE r == [conn[c] EXCEPT !.pc = "cleared", !.frame = n, !.slack = WriteSlack]
<1>1. DOMAIN r = Fields /\ r.pc = "cleared" /\ r.slack = WriteSlack
  BY Parts DEF Fields
<1>2. Set(c, r) /\ UNCHANGED admission /\ Admitted(c)
  BY DEF Frame
<1> HIDE DEF r
<1> QED BY <1>1, <1>2, ClearedInTime, Constants, HandlerStep

LEMMA ChargeStep == ASSUME Inv, NEW c \in Conns, Charge(c) PROVE Inv'
<1> DEFINE q == Confirmed(conn[c])
           r == [q EXCEPT !.pc = "cleared", !.slack = WriteSlack]
<1>1. DOMAIN q = Fields
  BY Parts, ConfirmedSound
<1>2. UNCHANGED admission /\ Set(c, IF Allowed(c) THEN r ELSE Ended(q))
  BY DEF Charge
<1> HIDE DEF q
<1>3. DOMAIN r = Fields /\ r.pc = "cleared" /\ r.slack = WriteSlack
  BY <1>1 DEF Fields
<1> HIDE DEF r
<1>4. CASE Allowed(c)
  <2>1. Admitted(c) /\ Set(c, r)
    BY <1>2, <1>4 DEF Allowed
  <2> QED BY <2>1, <1>2, <1>3, ClearedInTime, Constants, HandlerStep
<1>5. CASE ~Allowed(c)
  BY <1>1, <1>2, <1>5, StepEnds
<1> QED BY <1>4, <1>5

LEMMA ForwardStep == ASSUME Inv, NEW c \in Conns, Forward(c) PROVE Inv'
<1> DEFINE q == [conn[c] EXCEPT !.pc = "open", !.frame = 0, !.slack = 0]
           total == q.total + conn[c].frame
           r == [q EXCEPT !.total = total]
<1>1. DOMAIN q = Fields /\ q.pc = "open" /\ q.slack = 0
  BY Parts DEF Fields
<1>2. UNCHANGED admission /\ Set(c, IF total <= Prepaid(q) THEN r ELSE Ended(q))
  BY DEF Forward
<1> HIDE DEF q, total
<1>3. DOMAIN r = Fields /\ r.pc = "open" /\ r.slack = 0
  BY <1>1 DEF Fields
<1> HIDE DEF r
<1>4. CASE total <= Prepaid(q)
  BY <1>2, <1>3, <1>4, HandlerStep
<1>5. CASE ~(total <= Prepaid(q))
  BY <1>1, <1>2, <1>5, StepEnds
<1> QED BY <1>4, <1>5

LEMMA SettlesStep == ASSUME Inv, NEW c \in Conns, Settles(c) PROVE Inv'
<1>1. PICK e \in conn[c].todo : Due(c, e) /\ Set(c, [conn[c] EXCEPT !.todo = @ \ {e}]) /\ UNCHANGED admission
  BY DEF Settles
<1> DEFINE r == [conn[c] EXCEPT !.todo = @ \ {e}]
<1>2. DOMAIN r = Fields /\ r.pc = "settle" /\ r.slack \in Nat
  BY <1>1, Parts DEF Due, At, Fields
<1>3. Set(c, r)
  BY <1>1
<1> HIDE DEF r
<1> QED BY <1>1, <1>2, <1>3, HandlerStep

LEMMA SettleFailsStep == ASSUME Inv, NEW c \in Conns, SettleFails(c) PROVE Inv'
<1>1. PICK e \in conn[c].todo :
        /\ Due(c, e) /\ UNCHANGED admission
        /\ Set(c, [conn[c] EXCEPT !.todo = @ \ {e}, !.settled = FALSE])
  BY DEF SettleFails
<1> DEFINE r == [conn[c] EXCEPT !.todo = @ \ {e}, !.settled = FALSE]
<1>2. DOMAIN r = Fields /\ r.pc = "settle" /\ r.slack \in Nat
  BY <1>1, Parts DEF Due, At, Fields
<1>3. Set(c, r)
  BY <1>1
<1> HIDE DEF r
<1> QED BY <1>1, <1>2, <1>3, HandlerStep

LEMMA FinishStep == ASSUME Inv, NEW c \in Conns, Finish(c) \/ DiscountFails(c) PROVE Inv'
<1> DEFINE r == [conn[c] EXCEPT !.pc = "release"]
<1>1. DOMAIN r = Fields /\ r.pc = "release" /\ r.slack \in Nat
  BY Parts DEF Fields
<1>2. Set(c, r) /\ UNCHANGED admission
  BY DEF Finish, DiscountFails
<1> HIDE DEF r
<1> QED BY <1>1, <1>2, HandlerStep

-----------------------------------------------------------------------------
(* Renewal and release.                                                      *)

(* A holder that gives up or dies leaves the row as it is, to expire.        *)
LEMMA AbandonedSound ==
  ASSUME NEW l \in LeaseRow, NEW r, DOMAIN r = Fields, r.slack \in Nat,
         r.pc \notin {"new", "admitting"}, r.pc = "cleared" => l.db >= r.slack + 1
  PROVE  Sound(r, Abandoned(l)) /\ Abandoned(l).db = l.db /\ Abandoned(l).session = l.session
<1>1. /\ Abandoned(l) \in LeaseRow /\ Abandoned(l).db = l.db /\ Abandoned(l).session = l.session
      /\ Abandoned(l).local = 0 /\ Abandoned(l).next = 0 /\ Abandoned(l).renewal = "none"
  BY Terms DEF Abandoned, LeaseRow
<1> QED BY <1>1 DEF Sound

LEMMA GoneSound ==
  ASSUME NEW pc
  PROVE  DOMAIN Gone(pc) = Fields /\ Gone(pc).pc = pc /\ Gone(pc).slack = 0
BY DEF Gone, NewConn, Fields

LEMMA RenewBeginStep == ASSUME Inv, NEW c \in Conns, RenewBegin(c) PROVE Inv'
<1> DEFINE l == [lease[c] EXCEPT !.next = LocalTerm, !.renewal = "asked"]
<1>1. /\ l \in LeaseRow /\ l.db = lease[c].db /\ l.local = lease[c].local /\ l.renewal = "asked"
      /\ l.session = lease[c].session
  <2>1. lease[c] \in LeaseRow
    BY Parts
  <2> QED BY <2>1, Terms DEF LeaseRow
<1>2. /\ lease' = [lease EXCEPT ![c] = l] /\ conn' = [conn EXCEPT ![c] = conn[c]]
      /\ UNCHANGED <<edge, input>> /\ conn[c].pc \in Streaming \cup {"starting"}
  BY DEF RenewBegin, Kept, Inv, Shape
<1> HIDE DEF l
<1>3. Sound(conn[c], l)
  BY <1>1, <1>2, Parts DEF Sound, Streaming
<1> QED BY <1>1, <1>2, <1>3, OwnStep DEF Streaming, Live

LEMMA RenewWriteStep == ASSUME Inv, NEW c \in Conns, RenewWrite(c) PROVE Inv'
<1> DEFINE l == [lease[c] EXCEPT !.db = DbTerm, !.renewal = "written"]
<1>1. /\ l \in LeaseRow /\ l.db = DbTerm /\ l.local = lease[c].local /\ l.next = lease[c].next
      /\ l.renewal = "written" /\ l.session = lease[c].session
  <2>1. lease[c] \in LeaseRow
    BY Parts
  <2> QED BY <2>1, Terms DEF LeaseRow
<1>2. /\ lease' = [lease EXCEPT ![c] = l] /\ conn' = [conn EXCEPT ![c] = conn[c]]
      /\ UNCHANGED <<edge, input>> /\ lease[c].renewal = "asked" /\ Live(c)
  BY DEF RenewWrite, Inv, Shape
<1> HIDE DEF l
<1>3. conn[c].pc \notin {"new", "admitting"}
  <2>1. Sound(conn[c], lease[c])
    BY Parts
  <2>2. NewLease.renewal = "none"
    BY DEF NewLease
  <2> QED BY <1>2, <2>1, <2>2 DEF Sound
<1> DEFINE db == lease[c].db  local == lease[c].local  next == lease[c].next
           slack == conn[c].slack
<1>0. db \in Nat /\ db <= DbTerm /\ local \in Nat /\ next \in Nat /\ next <= LocalTerm /\ slack \in Nat
  BY Parts, Numbers
<1> HIDE DEF db, local, next, slack
<1>4. l.next > 0 => l.db >= l.next + Margin
  <2>1. next > 0 => DbTerm >= next + Margin
    BY <1>0, Terms
  <2> QED BY <2>1, <1>1 DEF next
<1>5. l.local > 0 => l.db >= l.local + Margin
  <2>1. local > 0 => db >= local + Margin
    BY Parts DEF Sound, db, local
  <2>2. local > 0 => DbTerm >= local + Margin
    BY <2>1, <1>0, Terms
  <2> QED BY <2>2, <1>1 DEF local
<1>6. conn[c].pc = "cleared" => l.db >= conn[c].slack + 1
  <2>1. conn[c].pc = "cleared" => db >= slack + 1
    BY Parts DEF Sound, db, slack
  <2>2. conn[c].pc = "cleared" => DbTerm >= slack + 1
    BY <2>1, <1>0, Terms
  <2> QED BY <2>2, <1>1 DEF slack
<1>7. Sound(conn[c], l)
  BY <1>1, <1>3, <1>4, <1>5, <1>6, Parts DEF Sound
<1> QED BY <1>1, <1>2, <1>3, <1>7, OwnStep

LEMMA RenewDoneStep == ASSUME Inv, NEW c \in Conns, RenewDone(c) PROVE Inv'
<1> DEFINE l == Renewed(c)
<1>1. /\ l \in LeaseRow /\ l.db = lease[c].db /\ l.local = lease[c].next /\ l.next = 0
      /\ l.renewal = "none" /\ l.session = lease[c].session
  <2>1. lease[c] \in LeaseRow
    BY Parts
  <2>2. lease[c].next \in Nat
    BY <2>1, Numbers
  <2> QED BY <2>1, <2>2, Terms DEF LeaseRow, Renewed
<1>2. /\ lease' = [lease EXCEPT ![c] = l] /\ conn' = [conn EXCEPT ![c] = conn[c]]
      /\ UNCHANGED <<edge, input>> /\ lease[c].renewal = "written"
      /\ conn[c].pc \in Streaming \cup {"starting"}
  BY DEF RenewDone, Kept, Inv, Shape
<1> HIDE DEF l
<1>3. Sound(conn[c], l)
  BY <1>1, <1>2, Parts DEF Sound, Streaming
<1> QED BY <1>1, <1>2, <1>3, OwnStep DEF Streaming, Live

LEMMA LapsesStep == ASSUME Inv, NEW c \in Conns, Lapses(c) \/ RenewFails(c) PROVE Inv'
<1> DEFINE r == [conn[c] EXCEPT !.cut = TRUE]
           l == Abandoned(lease[c])
<1>1. DOMAIN r = Fields /\ r.pc = conn[c].pc /\ r.slack = conn[c].slack
  BY Parts DEF Fields
<1>2. /\ lease' = [lease EXCEPT ![c] = l] /\ conn' = [conn EXCEPT ![c] = r]
      /\ UNCHANGED <<edge, input>> /\ conn[c].pc \in Streaming \cup {"starting"}
  BY DEF Lapses, RenewFails, Kept, Set
<1> HIDE DEF r
<1>3. r.pc = "cleared" => lease[c].db >= r.slack + 1
  BY <1>1, Parts DEF Sound
<1>4. Sound(r, l) /\ l.db = lease[c].db /\ l.session = lease[c].session
  BY <1>1, <1>2, <1>3, Parts, AbandonedSound DEF Streaming
<1> HIDE DEF l
<1> QED BY <1>1, <1>2, <1>4, OwnStep DEF Streaming, Live

LEMMA ReleaseStep == ASSUME Inv, NEW c \in Conns, Release(c) PROVE Inv'
<1> DEFINE r == Gone("done")
<1>1. /\ conn' = [conn EXCEPT ![c] = r] /\ UNCHANGED <<edge, input>>
      /\ \/ lease' = [lease EXCEPT ![c] = NewLease]
         \/ lease' = [lease EXCEPT ![c] = Abandoned(lease[c])]
  BY DEF Release, Set
<1>2. Sound(r, NewLease) /\ NewLease.db = 0
  BY NewSound, GoneSound DEF Sound, NewLease
<1>3. Sound(r, Abandoned(lease[c])) /\ Abandoned(lease[c]).db = lease[c].db /\ Abandoned(lease[c]).session = lease[c].session
  <2>1. lease[c] \in LeaseRow /\ r.pc = "done" /\ r.slack = 0 /\ DOMAIN r = Fields
    BY GoneSound, Parts
  <2> HIDE DEF r
  <2> QED BY <2>1, AbandonedSound
<1>4. r.pc = "done"
  BY GoneSound
<1> HIDE DEF r
<1>5. CASE lease' = [lease EXCEPT ![c] = NewLease]
  <2> DEFINE l == NewLease
  <2>1. Sound(r, l) /\ ~(l.db > 0) /\ lease' = [lease EXCEPT ![c] = l]
    BY <1>2, <1>5
  <2> HIDE DEF l
  <2> QED BY <2>1, <1>1, <1>4, OwnStep
<1>6. CASE lease' = [lease EXCEPT ![c] = Abandoned(lease[c])]
  BY <1>1, <1>3, <1>4, <1>6, OwnStep DEF Live
<1> QED BY <1>1, <1>5, <1>6

-----------------------------------------------------------------------------
(* Admission.                                                                *)

LEMMA LiveMeans == \A c \in Conns : Live(c) <=> c \in LiveConns
BY DEF LiveConns

(* One connection changes while the streams stay the ones they were.         *)
LEMMA SameStreams ==
  ASSUME LiveConns' = LiveConns, EdgeStreams' = EdgeStreams
  PROVE  ActiveStreams' = ActiveStreams
BY DEF ActiveStreams, LiveConns

LEMMA ConnectStep ==
  ASSUME Inv, NEW c \in Conns, NEW s \in input.sessions, Connect(c, s)
  PROVE  Inv'
<1> DEFINE r == [conn[c] EXCEPT !.pc = "admitting"]
           l == [lease[c] EXCEPT !.next = LocalTerm, !.session = s]
<1>1. conn' = [conn EXCEPT ![c] = r] /\ lease' = [lease EXCEPT ![c] = l] /\ UNCHANGED <<edge, input>>
  BY DEF Connect, Set
<1>2. At(c, "new") /\ ~Locked /\ ~Assigned(s) /\ ActiveStreams < input.limit
  BY DEF Connect
<1>3. DOMAIN r = Fields /\ r.pc = "admitting" /\ r.slack \in Nat
  BY Parts DEF Fields
<1>4. lease[c] \in LeaseRow /\ lease[c].db = 0 /\ lease[c].local = 0 /\ lease[c].renewal = "none"
  BY <1>2, Parts DEF Sound, At
<1>5. s \in Sessions \cup {NoSession}
  BY DEF Inv, Shape
<1>6. /\ l \in LeaseRow /\ l.db = 0 /\ l.local = 0 /\ l.renewal = "none" /\ l.session = s
  BY <1>4, <1>5, Terms DEF LeaseRow
<1> HIDE DEF r, l
<1>7. Sound(r, l)
  BY <1>3, <1>6 DEF Sound
<1>8. \A d \in Conns : conn'[d] = (IF d = c THEN r ELSE conn[d]) /\ lease'[d] = (IF d = c THEN l ELSE lease[d])
  BY <1>1 DEF Inv, Shape
<1>9. Shape'
  BY <1>1 DEF Inv, Shape
<1>10. ~Live(c) /\ ~Live(c)'
  BY <1>4, <1>6, <1>8 DEF Live
<1>11. \A d \in Conns : Live(d)' <=> Live(d)
  BY <1>8, <1>10 DEF Live
<1>12. ActiveStreams' = ActiveStreams
  BY <1>1, <1>11, SameStreams DEF LiveConns, EdgeStreams
<1>13. \A d \in Conns : At(d, "admitting")' => d = c
  BY <1>2, <1>8 DEF At, Locked
<1>14. \A d \in Conns : Live(d)' \/ At(d, "admitting")' => Alone(d)'
  <2>1. Alone(c)'
    BY <1>1, <1>2, <1>6, <1>8, <1>10, <1>11 DEF Alone, Assigned, Leased
  <2>2. ASSUME NEW d \in Conns, Live(d)' PROVE Alone(d)'
    <3>1. d # c /\ Live(d) /\ Alone(d)
      BY <2>2, <1>10, <1>11 DEF Inv
    <3>2. \A e \in Conns : Live(e)' => e # c /\ lease'[e] = lease[e]
      BY <1>8, <1>10
    <3> QED BY <3>1, <3>2, <1>1, <1>8, <1>11 DEF Alone
  <2> QED BY <2>1, <2>2, <1>13
<1>15. \A d \in Conns : Sound(conn'[d], lease'[d])
  BY <1>7, <1>8 DEF Inv
<1> QED BY <1>1, <1>2, <1>9, <1>12, <1>13, <1>14, <1>15 DEF Inv

LEMMA AdmittedAlready ==
  ASSUME Inv, NEW c \in Conns, At(c, "admitting"), NEW r, NEW l,
         conn' = [conn EXCEPT ![c] = r], lease' = [lease EXCEPT ![c] = l],
         UNCHANGED <<edge, input>>,
         Sound(r, l), r.pc # "admitting", l.db > 0, l.session = lease[c].session
  PROVE  Inv'
<1>1. \A d \in Conns : conn'[d] = (IF d = c THEN r ELSE conn[d]) /\ lease'[d] = (IF d = c THEN l ELSE lease[d])
  BY DEF Inv, Shape
<1>2. Shape'
  BY DEF Inv, Shape
<1>3. \A d \in Conns : Sound(conn'[d], lease'[d])
  BY <1>1 DEF Inv
<1>4. Alone(c) /\ ActiveStreams < input.limit /\ ~Live(c) /\ Live(c)'
  BY <1>1, Parts DEF Inv, Sound, At, Live
<1>5. \A d \in Conns : Live(d)' <=> Live(d) \/ d = c
  BY <1>1, <1>4 DEF Live
<1>6. \A d \in Conns : lease'[d].session = lease[d].session
  BY <1>1
<1>7. \A d \in Conns : ~At(d, "admitting")'
  BY <1>1 DEF At, Inv
<1>8. \A d \in Conns : Live(d)' => Alone(d)'
  <2> SUFFICES ASSUME NEW d \in Conns, Live(d)' PROVE Alone(d)'
    OBVIOUS
  <2>1. CASE d = c
    BY <2>1, <1>4, <1>5, <1>6 DEF Alone
  <2>2. CASE d # c
    <3>1. Live(d) /\ Alone(d)
      BY <2>2, <1>5 DEF Inv
    <3>2. lease[d].session # NoSession => lease[c].session # lease[d].session
      BY <3>1, <2>2, <1>4 DEF Alone
    <3> QED BY <3>1, <3>2, <1>5, <1>6 DEF Alone
  <2> QED BY <2>1, <2>2
<1>9. ActiveStreams' <= input'.limit
  <2>1. LiveConns' = LiveConns \cup {c} /\ c \notin LiveConns /\ EdgeStreams' = EdgeStreams
    BY <1>4, <1>5 DEF LiveConns, EdgeStreams
  <2>2. Cardinality(LiveConns') = Cardinality(LiveConns) + 1
    BY <2>1, Counted, FS_AddElement
  <2>3. ActiveStreams' = Cardinality(LiveConns') + Cardinality(EdgeStreams')
    BY DEF ActiveStreams, LiveConns
  <2>4. ActiveStreams' = ActiveStreams + 1 /\ ActiveStreams \in Nat
    BY <2>1, <2>2, <2>3, Counted
  <2> QED BY <2>4, <1>4 DEF Inv, Shape
<1> QED BY <1>2, <1>3, <1>7, <1>8, <1>9 DEF Inv

LEMMA AdmitStep == ASSUME Inv, NEW c \in Conns, Admit(c) PROVE Inv'
<1> DEFINE r == [conn[c] EXCEPT !.pc = IF Cardinality(Registered) < input.limit THEN "starting" ELSE "release"]
           l == [lease[c] EXCEPT !.db = DbTerm, !.local = lease[c].next, !.next = 0]
<1>1. /\ conn' = [conn EXCEPT ![c] = r] /\ lease' = [lease EXCEPT ![c] = l] /\ UNCHANGED <<edge, input>>
      /\ At(c, "admitting")
  BY DEF Admit, Set
<1>2. DOMAIN r = Fields /\ r.pc \in {"starting", "release"} /\ r.slack \in Nat
  BY Parts DEF Fields
<1>3. lease[c] \in LeaseRow /\ lease[c].renewal = "none"
  BY <1>1, Parts DEF Sound, At
<1>4. lease[c].next \in Nat /\ lease[c].next <= LocalTerm
  BY <1>3, Numbers
<1>5. /\ l \in LeaseRow /\ l.db = DbTerm /\ l.local = lease[c].next /\ l.renewal = "none"
      /\ l.session = lease[c].session
  BY <1>3, <1>4, Terms DEF LeaseRow
<1> HIDE DEF r, l
<1>6. l.local > 0 => l.db >= l.local + Margin
  <2> DEFINE n == lease[c].next
  <2>1. n \in Nat /\ n <= LocalTerm
    BY <1>4
  <2> HIDE DEF n
  <2>2. DbTerm >= n + Margin
    BY <2>1, Terms
  <2> QED BY <2>2, <1>5 DEF n
<1>7. Sound(r, l) /\ l.db > 0
  BY <1>2, <1>5, <1>6, Constants DEF Sound
<1> QED BY <1>1, <1>2, <1>5, <1>7, AdmittedAlready

LEMMA AdmitFailsStep == ASSUME Inv, NEW c \in Conns, AdmitFails(c) PROVE Inv'
<1> DEFINE r == Gone("gone")
           q == [lease[c] EXCEPT !.db = DbTerm]
           l == Abandoned(q)
<1>1. /\ conn' = [conn EXCEPT ![c] = r] /\ UNCHANGED <<edge, input>> /\ At(c, "admitting")
      /\ lease' = [lease EXCEPT ![c] = NewLease] \/ lease' = [lease EXCEPT ![c] = l]
  BY DEF AdmitFails, Set, Inv, Shape
<1>2. DOMAIN r = Fields /\ r.pc = "gone" /\ r.slack = 0
  BY GoneSound
<1>3. q \in LeaseRow /\ q.db = DbTerm /\ q.session = lease[c].session
  <2>1. lease[c] \in LeaseRow
    BY Parts
  <2> QED BY <2>1, Terms DEF LeaseRow
<1> HIDE DEF r, q
<1>4. Sound(r, l) /\ l.db > 0 /\ l.session = lease[c].session
  BY <1>2, <1>3, AbandonedSound, Constants
<1>5. Sound(r, NewLease) /\ NewLease.db = 0
  BY <1>2, NewSound DEF Sound, NewLease
<1> HIDE DEF l
<1>6. CASE lease' = [lease EXCEPT ![c] = l]
  BY <1>1, <1>2, <1>4, <1>6, AdmittedAlready
<1>7. CASE lease' = [lease EXCEPT ![c] = NewLease]
  <2> DEFINE m == NewLease
  <2>1. Sound(r, m) /\ ~(m.db > 0) /\ lease' = [lease EXCEPT ![c] = m]
    BY <1>5, <1>7
  <2> HIDE DEF m
  <2> QED BY <2>1, <1>1, <1>2, OwnStep
<1> QED BY <1>1, <1>6, <1>7

LEMMA EdgeGrantStep == ASSUME Inv, NEW s \in Sessions, EdgeGrant(s) PROVE Inv'
<1>1. /\ UNCHANGED <<conn, lease, input>> /\ edge' = [edge EXCEPT ![s] = "live"] /\ edge[s] # "live"
      /\ ~Locked /\ ~Leased(s) /\ ActiveStreams < input.limit
  BY DEF EdgeGrant
<1>2. Shape' /\ \A c \in Conns : Sound(conn'[c], lease'[c])
  BY <1>1 DEF Inv, Shape
<1>3. \A c \in Conns : ~At(c, "admitting")' /\ (Live(c)' <=> Live(c))
  BY <1>1 DEF Locked, At, Live
<1>4. \A c \in Conns : Live(c)' => Alone(c)'
  <2> SUFFICES ASSUME NEW c \in Conns, Live(c) PROVE Alone(c)'
    BY <1>3
  <2>1. Alone(c) /\ lease[c].session # s
    BY <1>1 DEF Inv, Leased
  <2> QED BY <2>1, <1>1, <1>3 DEF Alone, Inv, Shape
<1>5. ActiveStreams' <= input'.limit
  <2>1. LiveConns' = LiveConns /\ EdgeStreams' = EdgeStreams \cup {s} /\ s \notin EdgeStreams
    BY <1>1, <1>3 DEF LiveConns, EdgeStreams, Inv, Shape
  <2>2. Cardinality(EdgeStreams') = Cardinality(EdgeStreams) + 1
    BY <2>1, Counted, FS_AddElement
  <2>3. ActiveStreams' = Cardinality(LiveConns') + Cardinality(EdgeStreams')
    BY DEF ActiveStreams, LiveConns
  <2>4. ActiveStreams' = ActiveStreams + 1 /\ ActiveStreams \in Nat
    BY <2>1, <2>2, <2>3, Counted
  <2> QED BY <2>4, <1>1 DEF Inv, Shape
<1> QED BY <1>2, <1>3, <1>4, <1>5 DEF Inv

(* Everyone's lease and handler may change at once, but only towards the end. *)
LEMMA EveryStep ==
  ASSUME Inv, Shape', UNCHANGED input,
         \A c \in Conns : Sound(conn'[c], lease'[c]),
         \A c \in Conns : Live(c)' => Live(c),
         \A c \in Conns : At(c, "admitting")' => At(c, "admitting"),
         \A c \in Conns : Live(c)' \/ At(c, "admitting")' => lease'[c].session = lease[c].session,
         \A s \in Sessions : edge'[s] = "live" => edge[s] = "live"
  PROVE  Inv'
<1>1. \A c \in Conns : Live(c)' \/ At(c, "admitting")' => Alone(c)'
  <2> SUFFICES ASSUME NEW c \in Conns, Live(c)' \/ At(c, "admitting")' PROVE Alone(c)'
    OBVIOUS
  <2>1. Alone(c) /\ lease'[c].session = lease[c].session
    BY DEF Inv
  <2>2. lease[c].session \in Sessions \cup {NoSession}
    BY Parts DEF LeaseRow
  <2> QED BY <2>1, <2>2 DEF Alone
<1>2. ActiveStreams' \in Nat /\ ActiveStreams \in Nat /\ ActiveStreams' <= ActiveStreams
  BY FewerStreams DEF LiveConns, EdgeStreams
<1>3. ActiveStreams' <= input'.limit /\ \A d \in Conns : At(d, "admitting")' => ActiveStreams' < input'.limit
  BY <1>2 DEF Inv, Shape
<1>4. \A d, e \in Conns : At(d, "admitting")' /\ At(e, "admitting")' => d = e
  BY DEF Inv
<1> QED BY <1>1, <1>3, <1>4 DEF Inv

LEMMA EdgeEndsStep == ASSUME Inv, NEW s \in Sessions, EdgeEnds(s) PROVE Inv'
<1>1. UNCHANGED <<conn, lease, input>> /\ edge' = [edge EXCEPT ![s] = "over"]
  BY DEF EdgeEnds
<1>2. Shape' /\ \A c \in Conns : Sound(conn'[c], lease'[c])
  BY <1>1 DEF Inv, Shape
<1>3. \A t \in Sessions : edge'[t] = "live" => edge[t] = "live"
  BY <1>1 DEF Inv, Shape
<1>4. \A c \in Conns : Live(c)' = Live(c) /\ At(c, "admitting")' = At(c, "admitting")
  BY <1>1 DEF Live, At
<1> QED BY <1>1, <1>2, <1>3, <1>4, EveryStep

LEMMA CrashStep == ASSUME Inv, Crash PROVE Inv'
<1>1. /\ UNCHANGED <<edge, input>>
      /\ conn' = [c \in Conns |-> IF c \in Alive THEN Gone("gone") ELSE conn[c]]
      /\ lease' = [c \in Conns |-> IF c \in Alive THEN Abandoned(lease[c]) ELSE lease[c]]
  BY DEF Crash
<1>2. \A c \in Conns : Sound(Gone("gone"), Abandoned(lease[c])) /\ Abandoned(lease[c]).db = lease[c].db
                        /\ Abandoned(lease[c]).session = lease[c].session
  <2> SUFFICES ASSUME NEW c \in Conns
               PROVE  Sound(Gone("gone"), Abandoned(lease[c])) /\ Abandoned(lease[c]).db = lease[c].db
                      /\ Abandoned(lease[c]).session = lease[c].session
    OBVIOUS
  <2> DEFINE r == Gone("gone")
  <2>0. lease[c] \in LeaseRow
    BY Parts
  <2>1. DOMAIN r = Fields /\ r.pc = "gone" /\ r.slack = 0
    BY GoneSound
  <2> HIDE DEF r
  <2>2. Sound(r, Abandoned(lease[c])) /\ Abandoned(lease[c]).db = lease[c].db
        /\ Abandoned(lease[c]).session = lease[c].session
    BY <2>0, <2>1, AbandonedSound
  <2> QED BY <2>2 DEF r
<1>3. \A c \in Conns : Sound(conn'[c], lease'[c])
  BY <1>1, <1>2 DEF Inv
<1>4. Shape'
  BY <1>1 DEF Inv, Shape
<1>5. \A c \in Conns : Live(c)' => Live(c)
  BY <1>1, <1>2 DEF Live
<1>6. \A c \in Conns : At(c, "admitting")' => At(c, "admitting")
  BY <1>1, GoneSound DEF At
<1>7. \A c \in Conns : lease'[c].session = lease[c].session
  BY <1>1, <1>2
<1>8. edge' = edge /\ input' = input
  BY <1>1
<1> QED BY <1>3, <1>4, <1>5, <1>6, <1>7, <1>8, EveryStep

-----------------------------------------------------------------------------
(* Time.                                                                     *)

LEMMA LessIs == \A n \in Nat : Less(n) \in Nat /\ Less(n) <= n /\ (Less(n) > 0 => n = Less(n) + 1)
BY DEF Less

LEMMA TickStep == ASSUME Inv, Tick PROVE Inv'
<1> DEFINE r(c) == [conn[c] EXCEPT !.slack = Less(@)]
           l(c) == [lease[c] EXCEPT !.db = Less(@), !.local = Less(@), !.next = Less(@)]
<1>1. /\ UNCHANGED <<edge, input>>
      /\ conn' = [c \in Conns |-> r(c)] /\ lease' = [c \in Conns |-> l(c)]
      /\ \A c \in Conns : At(c, "cleared") => conn[c].slack > 0
  BY DEF Tick
<1>2. ASSUME NEW c \in Conns
      PROVE  /\ DOMAIN r(c) = Fields /\ r(c).pc = conn[c].pc /\ r(c).slack = Less(conn[c].slack)
             /\ r(c).slack \in Nat
  BY Parts, LessIs DEF Fields
<1>3. ASSUME NEW c \in Conns
      PROVE  /\ l(c) \in LeaseRow /\ l(c).session = lease[c].session /\ l(c).renewal = lease[c].renewal
             /\ l(c).db = Less(lease[c].db) /\ l(c).local = Less(lease[c].local) /\ l(c).next = Less(lease[c].next)
  <2> DEFINE db == lease[c].db  local == lease[c].local  next == lease[c].next
  <2>1. lease[c] \in LeaseRow
    BY Parts
  <2>2. db \in Nat /\ db <= DbTerm /\ local \in Nat /\ next \in Nat /\ next <= LocalTerm
    BY <2>1, Numbers
  <2>3. /\ Less(db) \in 0..DbTerm /\ Less(local) \in Nat /\ Less(next) \in 0..LocalTerm
    <3> HIDE DEF db, local, next
    <3> QED BY <2>2, LessIs, Terms
  <2> QED BY <2>1, <2>3 DEF LeaseRow
<1> HIDE DEF r, l
<1>4. ASSUME NEW c \in Conns PROVE Sound(r(c), l(c))
  <2> DEFINE db == lease[c].db  local == lease[c].local  next == lease[c].next  slack == conn[c].slack
  <2>1. db \in Nat /\ local \in Nat /\ next \in Nat /\ slack \in Nat
    BY Parts
  <2>2. /\ local > 0 => db >= local + Margin
        /\ lease[c].renewal = "written" /\ next > 0 => db >= next + Margin
        /\ conn[c].pc = "cleared" => db >= slack + 1 /\ slack > 0
        /\ conn[c].pc \in {"new", "admitting"} => db = 0 /\ local = 0 /\ lease[c].renewal = "none"
    BY <1>1, Parts DEF Sound, At
  <2> HIDE DEF db, local, next, slack
  <2>4. Less(local) > 0 => Less(db) >= Less(local) + Margin
    BY <2>1, <2>2, Terms DEF Less
  <2>5. lease[c].renewal = "written" /\ Less(next) > 0 => Less(db) >= Less(next) + Margin
    BY <2>1, <2>2, Terms DEF Less
  <2>6. conn[c].pc = "cleared" => Less(db) >= Less(slack) + 1
    BY <2>1, <2>2 DEF Less
  <2>7. conn[c].pc \in {"new", "admitting"} => Less(db) = 0 /\ Less(local) = 0
    BY <2>2 DEF Less
  <2> QED BY <1>2, <1>3, <2>2, <2>4, <2>5, <2>6, <2>7 DEF Sound, db, local, next, slack
<1>5. \A c \in Conns : conn'[c] = r(c) /\ lease'[c] = l(c)
  BY <1>1
<1>6. \A c \in Conns : Sound(conn'[c], lease'[c])
  BY <1>4, <1>5
<1>7. Shape'
  BY <1>1 DEF Inv, Shape
<1>8. \A c \in Conns : Live(c)' => Live(c)
  <2> SUFFICES ASSUME NEW c \in Conns, Live(c)' PROVE Live(c)
    OBVIOUS
  <2> DEFINE db == lease[c].db
  <2>1. db \in Nat /\ Less(db) > 0
    BY Parts, <1>3, <1>5 DEF Live
  <2> HIDE DEF db
  <2>2. db > 0
    BY <2>1 DEF Less
  <2> QED BY <2>2 DEF db, Live
<1>9. \A c \in Conns : At(c, "admitting")' => At(c, "admitting")
  BY <1>2, <1>5 DEF At
<1>10. \A c \in Conns : lease'[c].session = lease[c].session
  BY <1>3, <1>5
<1>11. edge' = edge /\ input' = input
  BY <1>1
<1> QED BY <1>6, <1>7, <1>8, <1>9, <1>10, <1>11, EveryStep

-----------------------------------------------------------------------------
(* The invariant and what follows from it.                                   *)

LEMMA InitInv == Init => Inv
<1> SUFFICES ASSUME Init PROVE Inv
  OBVIOUS
<1>1. \A c \in Conns : conn[c] = NewConn /\ lease[c] = NewLease
  BY DEF Init
<1>2. NewLease.db = 0
  BY DEF NewLease
<1>3. \A c \in Conns : ~Live(c) /\ ~At(c, "admitting") /\ Sound(conn[c], lease[c])
  BY <1>1, <1>2, NewSound DEF Live, At
<1>4. Shape
  BY Constants DEF Init, Shape
<1>5. LiveConns = {} /\ EdgeStreams = {}
  BY <1>3 DEF LiveConns, EdgeStreams, Init
<1>6. ActiveStreams <= input.limit
  <2>1. ActiveStreams = 0
    BY <1>5, Counted, FS_EmptySet
  <2> QED BY <2>1, <1>4 DEF Shape
<1> QED BY <1>3, <1>4, <1>6 DEF Inv

LEMMA NextInv == Inv /\ [Next]_vars => Inv'
<1> SUFFICES ASSUME Inv, [Next]_vars PROVE Inv'
  OBVIOUS
<1>1. ASSUME NEW c \in Conns, Handler(c) PROVE Inv'
  BY <1>1, AdmitStep, LapsesStep, ReadyStep, LeaveStep, ChargeStep, ChargeFailsStep, ForwardStep,
     StartFailsStep, SettlesStep, FinishStep, ReleaseStep DEF Handler
<1>2. ASSUME NEW c \in Conns, AdmitFails(c) \/ RenewBegin(c) \/ RenewWrite(c) \/ RenewDone(c) \/ RenewFails(c)
      PROVE Inv'
  BY <1>2, AdmitFailsStep, RenewBeginStep, RenewWriteStep, RenewDoneStep, LapsesStep
<1>3. ASSUME NEW c \in Conns,
             Terminate(c) \/ ChargeUnknown(c) \/ WriteFails(c) \/ SettleFails(c) \/ DiscountFails(c)
      PROVE Inv'
  BY <1>3, TerminateStep, ChargeUnknownStep, WriteFailsStep, SettleFailsStep, FinishStep
<1>4. ASSUME NEW c \in Conns, NEW s \in input.sessions, Connect(c, s) PROVE Inv'
  BY <1>4, ConnectStep
<1>5. ASSUME NEW c \in Conns, NEW t \in input.translations, Start(c, t) PROVE Inv'
  BY <1>5, StartStep
<1>6. ASSUME NEW c \in Conns, NEW n \in input.frames, Frame(c, n) \/ FrameReserves(c, n) PROVE Inv'
  BY <1>6, FrameStep, FrameReservesStep
<1>7. ASSUME NEW s \in Sessions, EdgeGrant(s) \/ EdgeEnds(s) PROVE Inv'
  BY <1>7, EdgeGrantStep, EdgeEndsStep
<1>8. CASE UNCHANGED vars
  <2>1. /\ conn' = conn /\ lease' = lease /\ edge' = edge /\ input' = input
    BY <1>8 DEF vars
  <2>2. Shape' /\ \A c \in Conns : Sound(conn'[c], lease'[c])
    BY <2>1 DEF Inv, Shape
  <2>3. \A c \in Conns : Live(c)' = Live(c) /\ At(c, "admitting")' = At(c, "admitting")
    BY <2>1 DEF Live, At
  <2> QED BY <2>1, <2>2, <2>3, EveryStep
<1> QED BY <1>1, <1>2, <1>3, <1>4, <1>5, <1>6, <1>7, <1>8, CrashStep, TickStep DEF Next

\* A session has one writer, and the user no more than the plan allows: a
\* frame that is cleared is written while its row is live, and live rows and
\* Edges share the sessions and the slots out (main_ingress.go).
LEMMA InvOneWriter == Inv => OneWriter
<1> SUFFICES ASSUME Inv PROVE OneWriter
  OBVIOUS
<1>1. \A c \in Conns : Writer(c) => Live(c) /\ Alone(c)
  <2> SUFFICES ASSUME NEW c \in Conns, Writer(c) PROVE Live(c) /\ Alone(c)
    OBVIOUS
  <2> DEFINE db == lease[c].db  slack == conn[c].slack
  <2>1. db \in Nat /\ slack \in Nat /\ db >= slack + 1
    BY Parts DEF Sound, Writer, At
  <2> HIDE DEF db, slack
  <2>2. db > 0
    BY <2>1
  <2> QED BY <2>2 DEF db, Live, Inv
<1>2. ASSUME NEW s \in Sessions
      PROVE  Cardinality({c \in Conns : Writer(c) /\ lease[c].session = s}) + Cardinality({s} \cap EdgeStreams) <= 1
  <2> DEFINE W == {c \in Conns : Writer(c) /\ lease[c].session = s}
             E == {s} \cap EdgeStreams
  <2>0. s # NoSession
    BY Constants
  <2>1. \A c, d \in W : c = d
    BY <1>1, <2>0 DEF Alone
  <2>2. W # {} => E = {}
    BY <1>1, <2>0 DEF Alone, EdgeStreams
  <2>3. E = {} \/ E = {s}
    OBVIOUS
  <2>4. W = {} \/ \E c : W = {c}
    BY <2>1
  <2>5. Cardinality({}) = 0 /\ \A x : Cardinality({x}) = 1
    BY FS_EmptySet, FS_Singleton
  <2> HIDE DEF W, E
  <2>6. Cardinality(W) + Cardinality(E) <= 1
    <3>1. CASE W = {}
      BY <3>1, <2>3, <2>5
    <3>2. CASE W # {}
      <4>1. PICK c : W = {c}
        BY <3>2, <2>4
      <4>2. Cardinality(W) = 1 /\ Cardinality(E) = 0
        BY <3>2, <4>1, <2>2, <2>5
      <4> QED BY <4>2
    <3> QED BY <3>1, <3>2
  <2> QED BY <2>6 DEF W, E
<1>3. Cardinality({c \in Conns : Writer(c)}) + Cardinality(EdgeStreams) <= input.limit
  <2> DEFINE W == {c \in Conns : Writer(c)}
  <2>1. W \subseteq LiveConns
    BY <1>1 DEF LiveConns
  <2> HIDE DEF W
  <2>2. IsFiniteSet(W) /\ Cardinality(W) <= Cardinality(LiveConns)
    BY <2>1, Counted, FS_Subset
  <2>3. Cardinality(W) \in Nat
    BY <2>2, FS_CardinalityType
  <2>4. Cardinality(LiveConns) + Cardinality(EdgeStreams) <= input.limit
    BY Counted DEF Inv
  <2>5. Cardinality(W) + Cardinality(EdgeStreams) <= input.limit
    BY <2>2, <2>3, <2>4, Counted DEF Inv, Shape
  <2> QED BY <2>5 DEF W
<1> QED BY <1>2, <1>3 DEF OneWriter

\* However the leases expire, are renewed late, are lost or are released, one
\* connection or Edge writes for a session, and no more than the plan allows
\* for the user: AcquireMain, renew and the check after each charge suffice.
THEOREM Exclusion == Spec => []OneWriter
<1>1. Spec => []Inv
  BY InitInv, NextInv, PTL DEF Spec
<1> QED BY <1>1, InvOneWriter, PTL

-----------------------------------------------------------------------------
(* The money of a connection. Its reservations follow one another without a  *)
(* gap, only the last may be unconfirmed, and each has a row for every kind  *)
(* that is billed; nothing else has one.                                     *)

Billed(r) == IF r.translation THEN Kinds ELSE {"audio"}

Reservation == [start : Nat, size : Nat \ {0}, ok : BOOLEAN]

\* Where the i-th reservation ends, and how far the confirmed ones reach.
End(h, i) == IF i = 0 THEN 0 ELSE h[i].start + h[i].size
Secured(h) == IF h = <<>> THEN 0 ELSE IF h[Len(h)].ok THEN End(h, Len(h)) ELSE h[Len(h)].start

Chained(h) ==
  /\ h \in Seq(Reservation) /\ Len(h) <= MaxReservations
  /\ \A i \in 1..Len(h) : h[i].start = End(h, i - 1)
  /\ \A i \in 1..Len(h) : h[i].ok \/ i = Len(h)

\* What is, or may already be, with the provider.
Sent(r) == r.total + IF r.pc = "cleared" THEN r.frame ELSE 0

Early == {"new", "admitting", "starting"}
Closed == {"release", "done", "gone"}

Empty(r) == r.held = <<>> /\ r.total = 0 /\ r.frame = 0 /\ r.translation = FALSE /\ r.settled

Table(b) == b = [k \in Kinds |-> [i \in Slots |-> b[k][i]]]

Rows(b) ==
  /\ Table(b)
  /\ \A k \in Kinds, i \in Slots : b[k][i].charge \in Nat

Whole(h, row) == row.state = "reserved" /\ row.charge = h.size

NothingElse(r, b) ==
  \A k \in Kinds, i \in Slots : b[k][i] = NoRow \/ (k \in Billed(r) /\ i <= Len(r.held))

\* While audio is forwarded every confirmed reservation has all its rows.
Paying(r, b) ==
  /\ r.settled /\ (r.pc = "open" => r.frame = 0)
  /\ \A i \in 1..Len(r.held) : r.held[i].ok \/ r.pc = "charging"
  /\ r.pc = "charging" => r.held # <<>> /\ ~r.held[Len(r.held)].ok /\ r.total + r.frame <= Prepaid(r)
  /\ \A k \in Billed(r), i \in 1..Len(r.held) :
       IF r.held[i].ok THEN Whole(r.held[i], b[k][i]) ELSE b[k][i] = NoRow

\* Afterwards a row is as it was charged, or settled to what was used; the
\* unconfirmed reservation may have rows or none.
Left(r, b) ==
  \A k \in Billed(r), i \in 1..Len(r.held) :
    \/ Whole(r.held[i], b[k][i])
    \/ b[k][i].state = "settled" /\ b[k][i].charge = Actual(r, r.held[i])
    \/ b[k][i] = NoRow /\ ~r.held[i].ok

Meant(r, e) ==
  e.kind \in Billed(r) /\ e.slot \in 1..Len(r.held) /\ e.bytes = Actual(r, r.held[e.slot])

\* A row that does not charge what was used is still to be settled.
Listed(r, b) ==
  /\ \A e \in r.todo : Meant(r, e)
  /\ r.settled => \A k \in Billed(r), i \in 1..Len(r.held) :
       b[k][i].charge = Actual(r, r.held[i]) \/ \E e \in r.todo : e.kind = k /\ e.slot = i

ExactRows(r, b) ==
  r.settled => \A k \in Billed(r), i \in 1..Len(r.held) : b[k][i].charge = Actual(r, r.held[i])

Paid(r, b) ==
  /\ r.pc \in Early \cup Streaming \cup {"settle"} \cup Closed
  /\ Rows(b) /\ r.total \in Nat /\ r.frame \in Nat /\ r.translation \in BOOLEAN
  /\ r.pc \in Early \cup {"done", "gone"} => Empty(r)
  /\ r.pc \notin {"done", "gone"} => Chained(r.held) /\ Sent(r) <= Secured(r.held) /\ NothingElse(r, b)
  /\ r.pc \in Streaming => Paying(r, b)
  /\ r.pc \in {"settle", "release"} => Left(r, b)
  /\ r.pc = "settle" => Listed(r, b)
  /\ r.pc = "release" => ExactRows(r, b)

Money ==
  /\ bill = [c \in Conns |-> bill[c]] /\ discount = [c \in Conns |-> discount[c]]
  /\ input.frames \subseteq Nat \ {0} /\ input.translations \subseteq BOOLEAN
  /\ \A c \in Conns : Paid(conn[c], bill[c])
  /\ \A c \in Conns : discount[c] = -1 \/ (conn[c].pc \in Closed /\ discount[c] = PaidPart(c))

-----------------------------------------------------------------------------
(* What the chain of reservations adds up to.                                *)

LEMMA Counts == MaxReservations \in Nat /\ MaxReservations > 0 /\ Quantum \in Nat \ {0} /\ IsFiniteSet(Slots)
<1>1. MaxReservations \in Nat /\ MaxReservations > 0 /\ Quantum \in Nat \ {0}
  BY MainAssumption
<1>2. 1 \in Int /\ MaxReservations \in Int
  BY <1>1
<1> QED BY <1>1, <1>2, FS_Interval DEF Slots

LEMMA ChainIs ==
  ASSUME NEW h, Chained(h)
  PROVE  /\ Len(h) \in Nat /\ Len(h) <= MaxReservations /\ DOMAIN h = 1..Len(h)
         /\ 1..Len(h) \subseteq Slots
         /\ \A i \in 1..Len(h) :
              /\ h[i] \in Reservation /\ h[i].start \in Nat /\ h[i].size \in Nat /\ h[i].size > 0
              /\ h[i].start = End(h, i - 1) /\ End(h, i) = h[i].start + h[i].size
              /\ h[i].ok \/ i = Len(h)
         /\ \A i \in 0..Len(h) : End(h, i) \in Nat
         /\ h = <<>> <=> Len(h) = 0
         /\ Secured(h) \in Nat
<1>1. h \in Seq(Reservation) /\ Len(h) <= MaxReservations
  BY DEF Chained
<1>2. Len(h) \in Nat /\ DOMAIN h = 1..Len(h) /\ (h = <<>> <=> Len(h) = 0)
  BY <1>1, LenProperties, EmptySeq
<1>3. 1..Len(h) \subseteq Slots
  BY <1>1, <1>2, Counts DEF Slots
<1>4. \A i \in 1..Len(h) : h[i] \in Reservation
  BY <1>1, ElementOfSeq
<1>5. \A i \in 1..Len(h) : h[i].start \in Nat /\ h[i].size \in Nat /\ h[i].size > 0
  BY <1>4 DEF Reservation
<1>6. \A i \in 1..Len(h) : h[i].start = End(h, i - 1) /\ (h[i].ok \/ i = Len(h))
  BY DEF Chained
<1>7. \A i \in 1..Len(h) : End(h, i) = h[i].start + h[i].size
  BY DEF End
<1>8. \A i \in 0..Len(h) : End(h, i) \in Nat
  BY <1>5, <1>7 DEF End
<1>9. Secured(h) \in Nat
  <2>1. CASE h = <<>>
    BY <2>1 DEF Secured
  <2>2. CASE h # <<>>
    <3>1. Len(h) \in 1..Len(h)
      BY <1>2, <2>2
    <3> QED BY <2>2, <3>1, <1>5, <1>8 DEF Secured
  <2> QED BY <2>1, <2>2
<1> QED BY <1>1, <1>2, <1>3, <1>4, <1>5, <1>6, <1>7, <1>8, <1>9

\* What "amount" bytes use of a reservation.
UsedOf(amount, h) == Actual([total |-> amount], h)

LEMMA UsedOfIs ==
  /\ \A r, h : Actual(r, h) = UsedOf(r.total, h)
  /\ \A amount, h : UsedOf(amount, h) =
       IF h.ok /\ amount > h.start
       THEN IF amount - h.start > h.size THEN h.size ELSE amount - h.start
       ELSE 0
BY DEF UsedOf, Actual

LEMMA UsedOfBounds ==
  ASSUME NEW h \in Reservation, NEW amount \in Nat
  PROVE  UsedOf(amount, h) \in Nat /\ UsedOf(amount, h) <= h.size /\ (~h.ok => UsedOf(amount, h) = 0)
<1>1. h.start \in Nat /\ h.size \in Nat
  BY DEF Reservation
<1> QED BY <1>1, UsedOfIs

\* The reservations that hold "amount" bytes hold them exactly once.
LEMMA UsedInAll ==
  ASSUME NEW h, Chained(h), NEW amount \in Nat, amount <= Secured(h), NEW f,
         \A i \in Slots : f[i] = IF i <= Len(h) THEN UsedOf(amount, h[i]) ELSE 0
  PROVE  SumFunctionOnSet(f, Slots) = amount
<1> DEFINE N == Len(h)
           g == [i \in 0..N |-> IF amount <= End(h, i) THEN amount ELSE End(h, i)]
<1>1. N \in Nat /\ 1..N \subseteq Slots /\ \A i \in 0..N : End(h, i) \in Nat
  BY ChainIs
<1>2. \A i \in 0..N : g[i] \in Int /\ g[i] = IF amount <= End(h, i) THEN amount ELSE End(h, i)
  BY <1>1
<1>3. g[0] = 0 /\ g[N] = amount
  <2>1. End(h, 0) = 0 /\ 0 \in 0..N /\ N \in 0..N
    BY <1>1 DEF End
  <2>2. amount <= End(h, N)
    <3>1. CASE N = 0
      BY <3>1, ChainIs DEF Secured, End
    <3>2. CASE N # 0
      <4>1. N \in 1..N /\ h # <<>>
        BY <1>1, <3>2, ChainIs
      <4>2. h[N].start \in Nat /\ h[N].size \in Nat /\ End(h, N) = h[N].start + h[N].size
        BY <4>1, ChainIs
      <4>3. Secured(h) = IF h[N].ok THEN End(h, N) ELSE h[N].start
        BY <4>1 DEF Secured
      <4> HIDE DEF N
      <4> QED BY <4>2, <4>3
    <3> QED BY <3>1, <3>2
  <2> HIDE DEF g, N
  <2> QED BY <1>1, <1>2, <2>1, <2>2
<1> HIDE DEF g
<1>4. \A i \in 1..N : f[i] = g[i] - g[i - 1]
  <2> SUFFICES ASSUME NEW i \in 1..N PROVE f[i] = g[i] - g[i - 1]
    OBVIOUS
  <2> DEFINE s == h[i].start  z == h[i].size
  <2>1. f[i] = UsedOf(amount, h[i])
    BY <1>1
  <2>2. s \in Nat /\ z \in Nat /\ z > 0 /\ End(h, i - 1) = s /\ End(h, i) = s + z /\ (h[i].ok \/ i = N)
    BY ChainIs
  <2>3. g[i] = (IF amount <= s + z THEN amount ELSE s + z) /\ g[i - 1] = IF amount <= s THEN amount ELSE s
    BY <1>1, <1>2, <2>2
  <2>4. f[i] = IF h[i].ok /\ amount > s THEN IF amount - s > z THEN z ELSE amount - s ELSE 0
    BY <2>1, UsedOfIs
  <2>5. ~h[i].ok => amount <= s
    BY <2>2, ChainIs DEF Secured
  <2> HIDE DEF s, z
  <2>6. CASE h[i].ok
    BY <2>2, <2>3, <2>4, <2>6
  <2>7. CASE ~h[i].ok
    <3>1. amount <= s /\ f[i] = 0
      BY <2>4, <2>5, <2>7
    <3>2. g[i] = amount /\ g[i - 1] = amount
      BY <3>1, <2>2, <2>3
    <3> QED BY <3>1, <3>2
  <2> QED BY <2>6, <2>7
<1>5. SumFunctionOnSet(f, 1..N) = amount
  <2>1. SumFunctionOnSet(f, 1..N) = g[N] - g[0]
    <3> HIDE DEF N
    <3> QED BY <1>1, <1>2, <1>4, SumTelescopes
  <2> QED BY <2>1, <1>3
<1>6. /\ \A i \in Slots : f[i] \in Int
      /\ \A i \in Slots : i \notin 1..N => f[i] = 0
  <2>1. \A i \in 1..N : UsedOf(amount, h[i]) \in Int
    <3> TAKE i \in 1..N
    <3>1. h[i] \in Reservation
      BY ChainIs
    <3>2. UsedOf(amount, h[i]) \in Nat
      BY <3>1, UsedOfBounds
    <3> QED BY <3>2
  <2>2. \A i \in Slots : i \in Nat /\ (i <= N <=> i \in 1..N)
    BY <1>1, Counts DEF Slots
  <2> HIDE DEF N
  <2>3. \A i \in Slots : f[i] = IF i <= N THEN UsedOf(amount, h[i]) ELSE 0
    BY DEF N
  <2> QED BY <2>1, <2>2, <2>3
<1> HIDE DEF N
<1>7. SumFunctionOnSet(f, Slots) = SumFunctionOnSet(f, 1..N)
  BY <1>1, <1>6, Counts, SumPart
<1> QED BY <1>5, <1>7

-----------------------------------------------------------------------------
(* What the rows say then: every audio byte is paid for, and in the end      *)
(* nothing but what was forwarded is.                                        *)

LEMMA SumIsBill ==
  ASSUME NEW c \in Conns, NEW k \in Kinds
  PROVE  Bill(c, k) = SumFunctionOnSet([i \in Slots |-> bill[c][k][i].charge], Slots)
BY DEF Bill, SumFunction

LEMMA AudioIsBilled == \A r : "audio" \in Billed(r) /\ Billed(r) \subseteq Kinds /\ (r.translation => "translation" \in Billed(r))
BY DEF Billed, Kinds

LEMMA SentIs ==
  ASSUME NEW r, NEW b, Paid(r, b)
  PROVE  Sent(r) \in Nat /\ r.total \in Nat /\ r.total <= Sent(r) /\ (r.pc # "cleared" => Sent(r) = r.total)
BY DEF Paid, Sent

\* A row covers what is used of its reservation.
LEMMA RowCovers ==
  ASSUME NEW r, NEW b, Paid(r, b), r.pc \notin {"done", "gone"},
         NEW k \in Billed(r), NEW i \in 1..Len(r.held)
  PROVE  UsedOf(Sent(r), r.held[i]) <= b[k][i].charge
<1> DEFINE h == r.held[i]
<1>1. Chained(r.held) /\ Rows(b)
  BY DEF Paid
<1>2. h \in Reservation /\ i \in Slots /\ k \in Kinds
  BY <1>1, ChainIs, AudioIsBilled
<1>3. b[k][i].charge \in Nat
  BY <1>1, <1>2 DEF Rows
<1>4. UsedOf(Sent(r), h) \in Nat /\ UsedOf(Sent(r), h) <= h.size /\ (~h.ok => UsedOf(Sent(r), h) = 0)
  BY <1>2, SentIs, UsedOfBounds
<1>5. NoRow.charge = 0
  BY DEF NoRow
<1>6. CASE r.pc \in Early
  <2>1. r.held = <<>>
    BY <1>6 DEF Paid, Empty
  <2>2. Len(r.held) = 0
    BY <2>1
  <2> QED BY <2>2
<1>7. CASE r.pc \in Streaming
  <2>1. IF h.ok THEN Whole(h, b[k][i]) ELSE b[k][i] = NoRow
    BY <1>7 DEF Paid, Paying
  <2> QED BY <2>1, <1>4, <1>5 DEF Whole
<1>8. CASE r.pc \in {"settle", "release"}
  <2>1. Sent(r) = r.total
    BY <1>8, SentIs
  <2>2. Whole(h, b[k][i]) \/ b[k][i].charge = Actual(r, h) \/ (b[k][i] = NoRow /\ ~h.ok)
    BY <1>8 DEF Paid, Left
  <2>3. Actual(r, h) = UsedOf(Sent(r), h)
    BY <2>1, UsedOfIs
  <2> QED BY <2>2, <2>3, <1>3, <1>4, <1>5 DEF Whole
<1>9. r.pc \in Early \cup Streaming \cup {"settle", "release"}
  BY DEF Paid, Closed
<1> QED BY <1>6, <1>7, <1>8, <1>9

LEMMA MoneyPrepays == Money => FramesArePrepaid
<1> SUFFICES ASSUME Money, NEW c \in Conns, NEW k \in Billed(conn[c])
             PROVE  Bill(c, k) >= Used(c)
  BY AudioIsBilled DEF FramesArePrepaid
<1> DEFINE r == conn[c]  b == bill[c]
           f == [i \in Slots |-> b[k][i].charge]
           g == [i \in Slots |-> IF i <= Len(r.held) THEN UsedOf(Sent(r), r.held[i]) ELSE 0]
<1>1. Paid(r, b) /\ k \in Kinds
  BY AudioIsBilled DEF Money
<1>2. Used(c) = Sent(r) /\ Bill(c, k) = SumFunctionOnSet(f, Slots)
  BY <1>1, SumIsBill DEF Used, Sent, Writer, At
<1>3. \A i \in Slots : f[i] \in Nat
  BY <1>1 DEF Paid, Rows
<1>4. SumFunctionOnSet(f, Slots) \in Nat
  <2> HIDE DEF f
  <2> QED BY <1>3, Counts, SumNat
<1>5. CASE r.pc \in {"done", "gone"}
  <2>1. Sent(r) = 0
    BY <1>1, <1>5, SentIs DEF Paid, Empty
  <2> HIDE DEF r, b, f
  <2> QED BY <2>1, <1>2, <1>4
<1>6. CASE r.pc \notin {"done", "gone"}
  <2>1. Chained(r.held) /\ Sent(r) <= Secured(r.held) /\ Sent(r) \in Nat
    BY <1>1, <1>6, SentIs DEF Paid
  <2>2. \A i \in Slots : g[i] \in Int /\ g[i] <= f[i]
    <3> TAKE i \in Slots
    <3>1. CASE i <= Len(r.held)
      <4>1. i \in 1..Len(r.held)
        BY <2>1, <3>1, ChainIs, Counts DEF Slots
      <4>2. r.held[i] \in Reservation
        BY <2>1, <4>1, ChainIs
      <4>3. UsedOf(Sent(r), r.held[i]) \in Nat
        BY <2>1, <4>2, UsedOfBounds
      <4>4. UsedOf(Sent(r), r.held[i]) <= b[k][i].charge
        BY <1>1, <1>6, <4>1, RowCovers
      <4> QED BY <3>1, <4>3, <4>4
    <3>2. CASE ~(i <= Len(r.held))
      <4>1. g[i] = 0 /\ f[i] \in Nat
        BY <1>3, <3>2
      <4> HIDE DEF f, g
      <4> QED BY <4>1
    <3> QED BY <3>1, <3>2
  <2>3. SumFunctionOnSet(g, Slots) = Sent(r)
    <3>1. \A i \in Slots : g[i] = IF i <= Len(r.held) THEN UsedOf(Sent(r), r.held[i]) ELSE 0
      OBVIOUS
    <3> HIDE DEF g
    <3> QED BY <2>1, <3>1, UsedInAll
  <2>4. \A i \in Slots : f[i] \in Int
    BY <1>3
  <2> HIDE DEF f, g
  <2>5. SumFunctionOnSet(g, Slots) <= SumFunctionOnSet(f, Slots)
    BY <2>2, <2>4, Counts, SumAtMost
  <2> QED BY <2>1, <2>3, <2>5, <1>2, <1>4
<1> QED BY <1>5, <1>6

LEMMA MoneyIsExact == Money => BillIsExact
<1> SUFFICES ASSUME Money PROVE BillIsExact
  OBVIOUS
<1>1. ASSUME NEW c \in Conns, At(c, "release"), conn[c].settled, NEW k \in Kinds
      PROVE  Bill(c, k) = IF k \in Billed(conn[c]) THEN conn[c].total ELSE 0
  <2> DEFINE r == conn[c]  b == bill[c]
             f == [i \in Slots |-> b[k][i].charge]
  <2>1. Paid(r, b) /\ r.pc = "release" /\ r.settled
    BY <1>1 DEF Money, At
  <2>2. Sent(r) = r.total /\ r.total \in Nat
    BY <2>1, SentIs
  <2>3. Chained(r.held) /\ r.total <= Secured(r.held) /\ NothingElse(r, b) /\ ExactRows(r, b) /\ Rows(b)
    BY <2>1, <2>2 DEF Paid
  <2>4. Bill(c, k) = SumFunctionOnSet(f, Slots)
    BY SumIsBill
  <2>5. \A i \in Slots : f[i] = b[k][i].charge
    OBVIOUS
  <2>6. NoRow.charge = 0
    BY DEF NoRow
  <2> HIDE DEF f
  <2>7. CASE k \in Billed(r)
    <3>1. \A i \in Slots : f[i] = IF i <= Len(r.held) THEN UsedOf(r.total, r.held[i]) ELSE 0
      <4> TAKE i \in Slots
      <4>1. CASE i <= Len(r.held)
        <5>1. i \in 1..Len(r.held)
          BY <2>3, <4>1, ChainIs, Counts DEF Slots
        <5>2. b[k][i].charge = Actual(r, r.held[i])
          BY <2>1, <2>3, <2>7, <5>1 DEF ExactRows
        <5> QED BY <2>5, <4>1, <5>2, UsedOfIs
      <4>2. CASE ~(i <= Len(r.held))
        BY <2>3, <2>5, <2>6, <4>2 DEF NothingElse
      <4> QED BY <4>1, <4>2
    <3>2. SumFunctionOnSet(f, Slots) = r.total
      BY <2>2, <2>3, <3>1, UsedInAll
    <3> QED BY <2>4, <2>7, <3>2
  <2>8. CASE k \notin Billed(r)
    <3>1. \A i \in Slots : f[i] = 0
      BY <2>3, <2>5, <2>6, <2>8 DEF NothingElse
    <3>2. SumFunctionOnSet(f, Slots) = SumFunctionOnSet(f, {})
      <4>1. {} \in SUBSET Slots /\ \A i \in Slots : f[i] \in Int /\ (i \notin {} => f[i] = 0)
        BY <3>1
      <4> QED BY <4>1, Counts, SumPart
    <3> QED BY <2>4, <2>8, <3>2, SumOfNone
  <2> QED BY <2>7, <2>8
<1>2. \A c \in Conns : "translation" \in Billed(conn[c]) <=> conn[c].translation
  <2> TAKE c \in Conns
  <2>1. conn[c].translation \in BOOLEAN
    BY DEF Money, Paid
  <2> QED BY <2>1 DEF Billed, Kinds
<1>3. "audio" \in Kinds /\ "translation" \in Kinds
  BY DEF Kinds
<1>4. \A c \in Conns : discount[c] # -1 => discount[c] = PaidPart(c)
  BY DEF Money
<1> QED BY <1>1, <1>2, <1>3, <1>4, AudioIsBilled DEF BillIsExact

-----------------------------------------------------------------------------
(* How each step of the handler moves the money of its connection.           *)

\* Nothing has been reserved yet.
LEMMA EmptyPaid ==
  ASSUME NEW r, NEW b, Rows(b), \A k \in Kinds, i \in Slots : b[k][i] = NoRow,
         Empty(r), r.pc \in Early \cup {"open", "release"}
  PROVE  Paid(r, b)
<1>1. r.held = <<>> /\ r.total = 0 /\ r.frame = 0 /\ r.translation = FALSE /\ r.settled
  BY DEF Empty
<1>2. r.held \in Seq(Reservation) /\ Len(r.held) = 0
  BY <1>1, EmptySeq
<1>3. Chained(r.held)
  BY <1>2, Counts DEF Chained
<1>4. Sent(r) <= Secured(r.held)
  BY <1>1 DEF Sent, Secured, Early
<1>5. NothingElse(r, b)
  BY DEF NothingElse
<1>6. r.pc \in Streaming => r.pc = "open"
  BY DEF Early, Streaming
<1>7. r.pc = "open" => Paying(r, b)
  BY <1>1, <1>2 DEF Paying
<1>8. Left(r, b) /\ ExactRows(r, b)
  BY <1>2 DEF Left, ExactRows
<1>9. r.pc \notin {"settle", "done", "gone"} /\ r.pc \in Early \cup Streaming \cup {"settle"} \cup Closed
  BY DEF Early, Streaming, Closed
<1>10. r.total \in Nat /\ r.frame \in Nat /\ r.translation \in BOOLEAN
  <2>1. r.total = 0 /\ r.frame = 0
    BY DEF Empty
  <2>2. r.translation \in BOOLEAN
    BY <1>1, Zenon
  <2> QED BY ONLY <2>1, <2>2
<1>11. r.pc \in Streaming => Paying(r, b)
  BY <1>6, <1>7
<1> QED BY ONLY Rows(b), Empty(r), <1>3, <1>4, <1>5, <1>11, <1>8, <1>9, <1>10, Zenon DEF Paid

LEMMA EarlyRows ==
  ASSUME NEW r, NEW b, Paid(r, b), r.pc \in Early \/ (r.pc \in {"open", "settle", "release"} /\ r.held = <<>>)
  PROVE  Rows(b) /\ r.held = <<>> /\ Len(r.held) = 0 /\ \A k \in Kinds, i \in Slots : b[k][i] = NoRow
<1>1. r.held = <<>> /\ NothingElse(r, b) /\ Rows(b)
  BY DEF Paid, Empty, Early
<1>2. Len(r.held) = 0 /\ \A i \in Slots : ~(i <= 0)
  BY <1>1, Counts DEF Slots
<1> QED BY <1>1, <1>2 DEF NothingElse

LEMMA GonePaid ==
  ASSUME NEW pc \in {"done", "gone"}, NEW b, Rows(b)
  PROVE  Paid(Gone(pc), b)
<1> DEFINE r == Gone(pc)
<1>1. /\ r.pc = pc /\ r.held = <<>> /\ r.total = 0 /\ r.frame = 0
      /\ r.translation = FALSE /\ r.settled = TRUE
  BY DEF Gone, NewConn
<1> HIDE DEF r
<1>2. r.pc \notin Streaming \cup {"settle", "release"} /\ r.pc \in Closed
  BY <1>1 DEF Streaming, Closed
<1>3. Empty(r)
  BY <1>1 DEF Empty
<1>4. r.total \in Nat /\ r.frame \in Nat /\ r.translation \in BOOLEAN /\ r.pc \in {"done", "gone"}
  <2>1. r.total = 0 /\ r.frame = 0 /\ r.pc \in {"done", "gone"}
    BY <1>1, Zenon
  <2>2. r.translation \in BOOLEAN
    BY <1>1, Zenon
  <2> QED BY ONLY <2>1, <2>2
<1>5. r.pc \notin Streaming /\ r.pc \notin {"settle", "release"} /\ r.pc # "settle" /\ r.pc # "release"
  BY <1>2
<1>6. Paid(r, b)
  BY ONLY Rows(b), <1>2, <1>3, <1>4, <1>5, Zenon DEF Paid
<1> QED BY <1>6 DEF r

\* The money is in these fields alone.
SameMoney(r, q) ==
  /\ q.pc = r.pc /\ q.held = r.held /\ q.total = r.total /\ q.frame = r.frame
  /\ q.translation = r.translation /\ q.settled = r.settled /\ q.todo = r.todo

LEMMA StillPaid ==
  ASSUME NEW r, NEW q, NEW b, Paid(r, b), SameMoney(r, q)
  PROVE  Paid(q, b)
<1>1. /\ q.pc = r.pc /\ q.held = r.held /\ q.total = r.total /\ q.frame = r.frame
      /\ q.translation = r.translation /\ q.settled = r.settled /\ q.todo = r.todo
  BY DEF SameMoney
<1>2. Sent(q) = Sent(r) /\ Billed(q) = Billed(r) /\ Prepaid(q) = Prepaid(r)
  BY <1>1 DEF Sent, Billed, Prepaid
<1>3. \A h : Actual(q, h) = Actual(r, h)
  BY <1>1 DEF Actual
<1>4. Empty(q) = Empty(r) /\ NothingElse(q, b) = NothingElse(r, b)
  BY <1>1, <1>2 DEF Empty, NothingElse
<1>5. Paying(q, b) = Paying(r, b)
  BY <1>1, <1>2 DEF Paying
<1>6. Left(r, b) => Left(q, b)
  BY <1>1, <1>2, <1>3 DEF Left
<1>7. Listed(r, b) => Listed(q, b)
  <2>1. \A e : Meant(q, e) = Meant(r, e)
    BY <1>1, <1>2, <1>3 DEF Meant
  <2> QED BY <1>1, <1>2, <1>3, <2>1 DEF Listed
<1>8. ExactRows(r, b) => ExactRows(q, b)
  BY <1>1, <1>2, <1>3 DEF ExactRows
<1> QED BY <1>1, <1>2, <1>4, <1>5, <1>6, <1>7, <1>8 DEF Paid

\* The chain grows by one reservation, or its last one is confirmed.
LEMMA ChainGrows ==
  ASSUME NEW h, Chained(h), \A i \in 1..Len(h) : h[i].ok, Len(h) < MaxReservations,
         NEW x \in Reservation, x.start = End(h, Len(h))
  PROVE  /\ Chained(Append(h, x)) /\ Len(Append(h, x)) = Len(h) + 1
         /\ Append(h, x)[Len(h) + 1] = x /\ \A i \in 1..Len(h) : Append(h, x)[i] = h[i]
<1> DEFINE q == Append(h, x)
<1>1. h \in Seq(Reservation) /\ Len(h) \in Nat
  BY ChainIs DEF Chained
<1>2. /\ q \in Seq(Reservation) /\ Len(q) = Len(h) + 1
      /\ q[Len(h) + 1] = x /\ \A i \in 1..Len(h) : q[i] = h[i]
  BY <1>1
<1> HIDE DEF q
<1>3. \A i \in 1..Len(q) : q[i].start = End(q, i - 1) /\ (q[i].ok \/ i = Len(q))
  <2> SUFFICES ASSUME NEW i \in 1..Len(q) PROVE q[i].start = End(q, i - 1) /\ (q[i].ok \/ i = Len(q))
    OBVIOUS
  <2>1. \A j \in 0..Len(h) : End(q, j) = End(h, j)
    BY <1>1, <1>2 DEF End
  <2>2. CASE i = Len(h) + 1
    BY <1>1, <1>2, <2>1, <2>2
  <2>3. CASE i # Len(h) + 1
    <3>1. i \in 1..Len(h) /\ i - 1 \in 0..Len(h)
      BY <1>1, <1>2, <2>3
    <3> QED BY <1>2, <2>1, <3>1 DEF Chained
  <2> QED BY <2>2, <2>3
<1>4. Chained(q)
  <2>1. Len(q) <= MaxReservations
    BY <1>1, <1>2, Counts
  <2> QED BY <1>2, <1>3, <2>1 DEF Chained
<1> QED BY <1>2, <1>4 DEF q

LEMMA ChainConfirmed ==
  ASSUME NEW h, Chained(h), h # <<>>,
         NEW q, q = [h EXCEPT ![Len(h)].ok = TRUE]
  PROVE  /\ Chained(q) /\ Len(q) = Len(h)
         /\ \A i \in 1..Len(h) : q[i].ok /\ q[i].start = h[i].start /\ q[i].size = h[i].size
         /\ \A i \in 1..Len(h) : i # Len(h) => q[i] = h[i]
<1> DEFINE n == Len(h)  x == [h[n] EXCEPT !.ok = TRUE]
<1>1. h \in Seq(Reservation) /\ n \in 1..n /\ n \in Nat /\ h[n] \in Reservation
  BY ChainIs DEF Chained
<1>2. x \in Reservation /\ x.ok /\ x.start = h[n].start /\ x.size = h[n].size
  BY <1>1 DEF Reservation
<1>3. q = [h EXCEPT ![n] = x]
  OBVIOUS
<1> HIDE DEF x
<1>4. q \in Seq(Reservation) /\ Len(q) = n /\ \A i \in 1..n : q[i] = IF i = n THEN x ELSE h[i]
  <2> HIDE DEF n
  <2>1. n \in 1..Len(h) /\ h \in Seq(Reservation)
    BY <1>1 DEF n
  <2>2. x \in Reservation
    BY <1>2
  <2>3. q \in Seq(Reservation) /\ Len(q) = Len(h)
    BY ONLY <2>1, <2>2, <1>3
  <2>4. DOMAIN h = 1..Len(h)
    BY ONLY <2>1
  <2> QED BY ONLY <2>1, <2>3, <2>4, <1>3 DEF n
<1>5. \A i \in 1..n : q[i].ok /\ q[i].start = h[i].start /\ q[i].size = h[i].size
  BY <1>2, <1>4 DEF Chained
<1>6. \A i \in 0..n : End(q, i) = End(h, i)
  BY <1>1, <1>5 DEF End
<1>7. \A i \in 1..n : q[i].start = End(q, i - 1)
  <2> TAKE i \in 1..n
  <2>1. i - 1 \in 0..n
    BY <1>1
  <2> QED BY <2>1, <1>5, <1>6 DEF Chained
<1>8. Len(q) <= MaxReservations
  BY <1>4 DEF Chained
<1> QED BY <1>4, <1>5, <1>7, <1>8 DEF Chained

LEMMA PrepaidIs ==
  ASSUME NEW r, Chained(r.held)
  PROVE  /\ Prepaid(r) = End(r.held, Len(r.held)) /\ Prepaid(r) \in Nat
         /\ (\A i \in 1..Len(r.held) : r.held[i].ok) => Secured(r.held) = Prepaid(r)
<1> DEFINE h == r.held
<1>1. Len(h) \in Nat /\ (h = <<>> <=> Len(h) = 0) /\ \A i \in 0..Len(h) : End(h, i) \in Nat
  BY ChainIs
<1>2. Prepaid(r) = End(h, Len(h))
  BY <1>1 DEF Prepaid, End
<1>3. h # <<>> => Len(h) \in 1..Len(h)
  BY <1>1
<1> QED BY <1>1, <1>2, <1>3 DEF Secured, Prepaid

\* What has been forwarded is within the confirmed reservations, which have
\* all their rows; the last one may have them or not if it is not confirmed.
Winding(r, b) ==
  /\ Rows(b) /\ Chained(r.held) /\ NothingElse(r, b)
  /\ r.total \in Nat /\ r.total <= Secured(r.held) /\ r.translation \in BOOLEAN /\ r.settled
  /\ \A k \in Billed(r), i \in 1..Len(r.held) :
       Whole(r.held[i], b[k][i]) \/ (b[k][i] = NoRow /\ ~r.held[i].ok)

LEMMA PayingWinds ==
  ASSUME NEW r, NEW b, Paid(r, b), r.pc \in Streaming
  PROVE  Winding(r, b)
<1>1. r.pc \notin {"done", "gone"}
  BY DEF Streaming
<1>2. Chained(r.held) /\ Sent(r) <= Secured(r.held) /\ NothingElse(r, b) /\ Paying(r, b) /\ Rows(b)
      /\ r.translation \in BOOLEAN
  BY <1>1 DEF Paid
<1>3. r.total \in Nat /\ r.total <= Secured(r.held)
  BY <1>2, SentIs, ChainIs
<1>4. r.settled /\ \A k \in Billed(r), i \in 1..Len(r.held) :
        Whole(r.held[i], b[k][i]) \/ (b[k][i] = NoRow /\ ~r.held[i].ok)
  BY <1>2 DEF Paying
<1> QED BY <1>2, <1>3, <1>4 DEF Winding

\* The settlements that Ended lists are the right ones.
LEMMA EndedPaid ==
  ASSUME NEW r, DOMAIN r = Fields, NEW b, Winding(r, b)
  PROVE  Paid(Ended(r), b)
<1> DEFINE q == Ended(r)
<1>1. /\ q.pc = "settle" /\ q.held = r.held /\ q.total = r.total /\ q.frame = 0
      /\ q.translation = r.translation /\ q.settled = r.settled /\ q.todo = PendingSettlements(r)
  BY DEF Ended, Fields
<1> HIDE DEF q
<1>2. /\ Rows(b) /\ Chained(r.held) /\ NothingElse(r, b) /\ r.translation \in BOOLEAN
      /\ r.total \in Nat /\ r.total <= Secured(r.held) /\ r.settled
      /\ \A k \in Billed(r), i \in 1..Len(r.held) :
           Whole(r.held[i], b[k][i]) \/ (b[k][i] = NoRow /\ ~r.held[i].ok)
  BY DEF Winding
<1>3. Billed(q) = Billed(r) /\ (\A h : Actual(q, h) = Actual(r, h)) /\ Sent(q) = q.total + 0
  BY <1>1 DEF Billed, Actual, Sent
<1>4. DOMAIN r.held = 1..Len(r.held) /\ 1..Len(r.held) \subseteq Slots
      /\ \A i \in 1..Len(r.held) : r.held[i] \in Reservation /\ r.held[i].size \in Nat
  BY <1>2, ChainIs
<1>5. Left(q, b)
  BY <1>1, <1>2, <1>3 DEF Left
<1>6. NothingElse(q, b)
  BY <1>1, <1>2, <1>3 DEF NothingElse
<1>7. Listed(q, b)
  <2>1. ASSUME NEW e \in q.todo PROVE Meant(q, e)
    <3>1. PICK k \in Billed(r), i \in DOMAIN r.held : e = [kind |-> k, slot |-> i, bytes |-> Actual(r, r.held[i])]
      BY <1>1, <2>1 DEF PendingSettlements, Billed
    <3>2. e.kind = k /\ e.slot = i /\ e.bytes = Actual(r, r.held[i])
      BY <3>1
    <3> QED BY <3>1, <3>2, <1>1, <1>3, <1>4 DEF Meant
  <2>2. ASSUME NEW k \in Billed(q), NEW i \in 1..Len(q.held), b[k][i].charge # Actual(q, q.held[i])
        PROVE  \E e \in q.todo : e.kind = k /\ e.slot = i
    <3> DEFINE h == r.held[i]  e == [kind |-> k, slot |-> i, bytes |-> Actual(r, h)]
    <3>1. k \in Billed(r) /\ i \in 1..Len(r.held) /\ i \in DOMAIN r.held /\ b[k][i].charge # Actual(r, h)
      BY <2>2, <1>1, <1>3, <1>4
    <3>2. Actual(r, h) # h.size
      <4>1. CASE Whole(h, b[k][i])
        BY <4>1, <3>1 DEF Whole
      <4>2. CASE b[k][i] = NoRow /\ ~h.ok
        <5>1. b[k][i].charge = 0 /\ Actual(r, h) = 0
          BY <4>2 DEF NoRow, Actual
        <5> QED BY <5>1, <3>1
      <4> QED BY <4>1, <4>2, <3>1, <1>2
    <3>3. e \in PendingSettlements(r)
      BY <3>1, <3>2 DEF PendingSettlements, Billed
    <3> QED BY <3>3, <1>1
  <2> QED BY <2>1, <2>2 DEF Listed
<1>8. q.total \in Nat /\ q.frame \in Nat /\ q.translation \in BOOLEAN /\ Sent(q) <= Secured(q.held) /\ Chained(q.held)
  <2>1. q.total \in Nat /\ q.frame \in Nat /\ Sent(q) <= Secured(q.held)
    <3>1. q.total = r.total /\ q.held = r.held /\ q.frame = 0
      BY <1>1
    <3>2. r.total \in Nat /\ r.total <= Secured(r.held) /\ Sent(q) = q.total + 0
      BY <1>2, <1>3
    <3> QED BY ONLY <3>1, <3>2
  <2> QED BY <1>1, <1>2, <2>1
<1>9. q.pc \notin Early \cup Streaming \cup Closed
  BY <1>1 DEF Early, Streaming, Closed
<1>10. Paid(q, b)
  <2>1. q.pc \in Early \cup Streaming \cup {"settle"} \cup Closed
    BY <1>1
  <2>2. q.pc \notin Early \cup {"done", "gone"} /\ q.pc \notin Streaming /\ q.pc # "release"
    BY <1>1, <1>9
  <2> QED BY ONLY <1>2, <1>5, <1>6, <1>7, <1>8, <2>1, <2>2, Zenon DEF Paid
<1> QED BY <1>10 DEF q

\* Another reservation, not yet charged, for at least the bytes that are missing.
LEMMA ReservedPaid ==
  ASSUME NEW r, DOMAIN r = Fields, NEW b, Rows(b), NothingElse(r, b), r.pc = "charging",
         Chained(r.held), \A i \in 1..Len(r.held) : r.held[i].ok, Len(r.held) < MaxReservations,
         \A k \in Billed(r), i \in 1..Len(r.held) : Whole(r.held[i], b[k][i]),
         r.total \in Nat, r.total <= Prepaid(r), NEW n \in Nat, r.total + n > Prepaid(r),
         r.frame \in Nat, r.frame <= n, r.translation \in BOOLEAN, r.settled
  PROVE  Paid(Reserved(r, n), b)
<1> DEFINE missing == r.total + n - Prepaid(r)
           size == IF missing < Quantum THEN Quantum ELSE missing
           x == [start |-> Prepaid(r), size |-> size, ok |-> FALSE]
           q == Reserved(r, n)  h == Append(r.held, x)  L == Len(r.held)
<1>1. Prepaid(r) = End(r.held, L) /\ Prepaid(r) \in Nat /\ Secured(r.held) = Prepaid(r) /\ L \in Nat
  BY PrepaidIs, ChainIs
<1>2. size \in Nat /\ size > 0 /\ r.total + n <= Prepaid(r) + size
  BY <1>1, Counts
<1>3. x \in Reservation /\ ~x.ok /\ x.start = Prepaid(r) /\ x.size = size
  BY <1>1, <1>2 DEF Reservation
<1>4. /\ q.pc = "charging" /\ q.held = h /\ q.total = r.total /\ q.frame = r.frame
      /\ q.translation = r.translation /\ q.settled = r.settled
  BY DEF Reserved, Fields
<1> HIDE DEF x, q, size
<1>5. Chained(h) /\ Len(h) = L + 1 /\ h[L + 1] = x /\ \A i \in 1..L : h[i] = r.held[i]
  BY <1>1, <1>3, ChainGrows
<1> HIDE DEF h, L
<1>6. h # <<>> /\ h[Len(h)] = x
  BY <1>1, <1>5, ChainIs
<1>7. Billed(q) = Billed(r) /\ Prepaid(q) = Prepaid(r) + size /\ Secured(q.held) = Prepaid(r) /\ Sent(q) = q.total + 0
  BY <1>3, <1>4, <1>6 DEF Billed, Prepaid, Secured, Sent
<1>8. q.total + q.frame <= Prepaid(q) /\ Sent(q) <= Secured(q.held) /\ q.total \in Nat /\ q.frame \in Nat
  <2>1. q.total = r.total /\ q.frame = r.frame
    BY <1>4
  <2> QED BY <2>1, <1>1, <1>2, <1>7
<1>9. \A k \in Kinds, i \in Slots : b[k][i] = NoRow \/ (k \in Billed(q) /\ i <= L)
  BY <1>7 DEF NothingElse, L
<1>10. NothingElse(q, b)
  <2>1. \A i \in Slots : i <= L => i <= Len(q.held)
    BY <1>1, <1>4, <1>5, Counts DEF Slots
  <2> QED BY <1>9, <2>1 DEF NothingElse
<1>11. \A k \in Billed(q) : b[k][L + 1] = NoRow
  <2>1. L + 1 \in Slots /\ ~(L + 1 <= L)
    BY <1>1, Counts DEF Slots, L
  <2> QED BY <1>7, <1>9, <2>1, AudioIsBilled
<1>12. Paying(q, b)
  <2>1. \A i \in 1..Len(q.held) : q.held[i].ok \/ q.pc = "charging"
    BY <1>4
  <2>2. q.held # <<>> /\ ~q.held[Len(q.held)].ok
    BY <1>3, <1>4, <1>6
  <2>3. ASSUME NEW k \in Billed(q), NEW i \in 1..Len(q.held)
        PROVE  IF q.held[i].ok THEN Whole(q.held[i], b[k][i]) ELSE b[k][i] = NoRow
    <3>1. CASE i = L + 1
      BY <3>1, <1>3, <1>4, <1>5, <1>11
    <3>2. CASE i # L + 1
      <4>1. i \in 1..L
        BY <3>2, <1>1, <1>4, <1>5
      <4>2. q.held[i] = r.held[i]
        BY <4>1, <1>4, <1>5
      <4> QED BY <4>1, <4>2, <1>7 DEF L
    <3> QED BY <3>1, <3>2
  <2>4. q.settled
    BY <1>4
  <2> QED BY <2>1, <2>2, <2>3, <2>4, <1>8 DEF Paying
<1>13. q.pc \in Streaming /\ q.pc \notin Early \cup {"done", "gone"} /\ q.pc \notin {"settle", "release"}
       /\ q.pc # "settle" /\ q.pc # "release"
  BY <1>4 DEF Streaming, Early
<1>14. Chained(q.held) /\ q.translation \in BOOLEAN
  BY <1>4, <1>5
<1>15. Paid(q, b)
  <2>1. q.pc \in Early \cup Streaming \cup {"settle"} \cup Closed
    BY <1>13
  <2> QED BY ONLY Rows(b), <1>8, <1>10, <1>12, <1>13, <1>14, <2>1, Zenon DEF Paid
<1> QED BY <1>15 DEF q

\* The rows of the last reservation are there.
Recorded(r, b, d) ==
  /\ Rows(d)
  /\ \A k \in Kinds, i \in Slots :
       IF k \in Billed(r) /\ i = Len(r.held) THEN Whole(r.held[i], d[k][i]) ELSE d[k][i] = b[k][i]

LEMMA RecordedWinds ==
  ASSUME NEW r, NEW b, NEW d, Paid(r, b), r.pc = "charging", Recorded(r, b, d)
  PROVE  Winding(r, d)
<1>1. Winding(r, b)
  BY PayingWinds DEF Streaming
<1>2. /\ Rows(d) /\ Chained(r.held) /\ NothingElse(r, b) /\ Paying(r, b) /\ r.translation \in BOOLEAN
      /\ r.total \in Nat /\ r.total <= Secured(r.held) /\ r.settled
  BY <1>1 DEF Winding, Recorded, Paid, Streaming
<1>3. NothingElse(r, d)
  <2> SUFFICES ASSUME NEW k \in Kinds, NEW i \in Slots, ~(k \in Billed(r) /\ i <= Len(r.held)) PROVE d[k][i] = NoRow
    BY DEF NothingElse
  <2>1. Len(r.held) \in Nat /\ i \in Nat
    BY <1>2, ChainIs, Counts DEF Slots
  <2>2. ~(k \in Billed(r) /\ i = Len(r.held))
    BY <2>1
  <2> QED BY <1>2, <2>2 DEF Recorded, NothingElse
<1>4. ASSUME NEW k \in Billed(r), NEW i \in 1..Len(r.held)
      PROVE  Whole(r.held[i], d[k][i]) \/ (d[k][i] = NoRow /\ ~r.held[i].ok)
  <2>1. k \in Kinds /\ i \in Slots
    BY <1>2, ChainIs, AudioIsBilled
  <2>2. CASE i = Len(r.held)
    BY <2>1, <2>2 DEF Recorded
  <2>3. CASE i # Len(r.held)
    <3>1. d[k][i] = b[k][i]
      BY <2>1, <2>3 DEF Recorded
    <3> QED BY <3>1, <1>1 DEF Winding
  <2> QED BY <2>2, <2>3
<1> QED BY <1>2, <1>3, <1>4 DEF Winding

LEMMA ConfirmedPaid ==
  ASSUME NEW r, DOMAIN r = Fields, NEW b, NEW d, Paid(r, b), r.pc = "charging", Recorded(r, b, d),
         NEW s \in Nat
  PROVE  /\ Winding(Confirmed(r), d)
         /\ Paid([Confirmed(r) EXCEPT !.pc = "cleared", !.slack = s], d)
<1> DEFINE c == Confirmed(r)  q == [c EXCEPT !.pc = "cleared", !.slack = s]  h == r.held  g == c.held
<1>1. Winding(r, d) /\ Paying(r, b)
  BY RecordedWinds DEF Paid, Streaming
<1>2. /\ Rows(d) /\ Chained(h) /\ NothingElse(r, d) /\ r.translation \in BOOLEAN
      /\ r.total \in Nat /\ r.total <= Secured(h) /\ r.settled /\ r.frame \in Nat
      /\ h # <<>> /\ r.total + r.frame <= Prepaid(r)
  BY <1>1 DEF Winding, Paying, Paid
<1>3. /\ c.total = r.total /\ c.frame = r.frame /\ c.translation = r.translation /\ c.settled = r.settled
      /\ g = [h EXCEPT ![Len(h)].ok = TRUE] /\ DOMAIN c = Fields
  BY DEF Confirmed, Fields
<1>4. /\ q.pc = "cleared" /\ q.total = r.total /\ q.frame = r.frame
      /\ q.translation = r.translation /\ q.settled = r.settled /\ q.held = g
  BY <1>3 DEF Fields
<1> HIDE DEF c, q
<1>5. /\ Chained(g) /\ Len(g) = Len(h)
      /\ \A i \in 1..Len(h) : g[i].ok /\ g[i].start = h[i].start /\ g[i].size = h[i].size
  BY <1>2, <1>3, ChainConfirmed
<1> HIDE DEF g
<1>6. Len(h) \in Nat /\ Len(h) \in 1..Len(h) /\ g # <<>> /\ 1..Len(h) \subseteq Slots
  BY <1>2, <1>5, ChainIs
<1>7. End(g, Len(g)) = End(h, Len(h))
  BY <1>5, <1>6 DEF End
<1>8. Secured(g) = Prepaid(r) /\ Prepaid(r) \in Nat
  <2>1. Prepaid(r) = End(h, Len(h)) /\ Prepaid(r) \in Nat
    BY <1>2, PrepaidIs
  <2> QED BY <2>1, <1>5, <1>6, <1>7 DEF Secured
<1>9. Billed(c) = Billed(r) /\ Billed(q) = Billed(r) /\ Sent(q) = r.total + r.frame
  BY <1>3, <1>4 DEF Billed, Sent
<1>10. r.total + r.frame <= Secured(g) /\ r.total <= Secured(g)
  BY <1>2, <1>8
<1>11. NothingElse(c, d) /\ NothingElse(q, d)
  BY <1>2, <1>4, <1>5, <1>9 DEF NothingElse, g
<1>12. \A k \in Billed(r), i \in 1..Len(g) : Whole(g[i], d[k][i])
  <2> SUFFICES ASSUME NEW k \in Billed(r), NEW i \in 1..Len(h) PROVE Whole(g[i], d[k][i])
    BY <1>5
  <2>1. Whole(h[i], d[k][i])
    <3>1. k \in Kinds /\ i \in Slots
      BY <1>6, AudioIsBilled
    <3>2. CASE i = Len(h)
      BY <3>1, <3>2 DEF Recorded
    <3>3. CASE i # Len(h)
      <4>1. h[i].ok
        BY <1>2, <3>3 DEF Chained
      <4> QED BY <4>1, <1>1 DEF Winding
    <3> QED BY <3>2, <3>3
  <2> QED BY <2>1, <1>5 DEF Whole
<1>13. Winding(c, d)
  <2>1. c.held = g
    BY DEF g
  <2>2. c.total \in Nat /\ c.total <= Secured(g)
    BY <1>2, <1>3, <1>10
  <2> QED BY <2>1, <2>2, <1>2, <1>3, <1>5, <1>9, <1>11, <1>12 DEF Winding
<1>14. Paying(q, d)
  <2>1. \A i \in 1..Len(g) : g[i].ok
    BY <1>5
  <2> QED BY <2>1, <1>2, <1>4, <1>9, <1>12 DEF Paying
<1>15. Paid(q, d)
  <2>1. q.total \in Nat /\ q.frame \in Nat /\ Sent(q) <= Secured(q.held)
    <3>1. q.total = r.total /\ q.frame = r.frame /\ q.held = g
      BY <1>4
    <3> QED BY ONLY <3>1, <1>2, <1>9, <1>10
  <2>2. q.translation \in BOOLEAN /\ Chained(q.held)
    BY <1>2, <1>4, <1>5
  <2>3. /\ q.pc \notin Early \cup {"done", "gone"} /\ q.pc \notin {"settle", "release"}
        /\ q.pc # "settle" /\ q.pc # "release" /\ q.pc \in Streaming
    BY <1>4 DEF Early, Streaming
  <2>4. q.pc \in Early \cup Streaming \cup {"settle"} \cup Closed
    BY <2>3
  <2> QED BY ONLY <1>2, <1>11, <1>14, <2>1, <2>2, <2>3, <2>4, Zenon DEF Paid
<1> QED BY <1>13, <1>15 DEF c, q

\* A stream whose reservations are all confirmed goes on.
LEMMA GoesOn ==
  ASSUME NEW r, NEW b, Paid(r, b), r.pc \in {"open", "cleared"}, NEW q, q.pc \in {"open", "cleared"},
         q.held = r.held, q.translation = r.translation, q.settled = r.settled,
         q.total \in Nat, q.frame \in Nat, Sent(q) <= Prepaid(r), q.pc = "open" => q.frame = 0
  PROVE  Paid(q, b)
<1>1. r.pc \in Streaming /\ r.pc \notin {"done", "gone"} /\ r.pc # "charging"
  BY DEF Streaming
<1>2. Rows(b) /\ Chained(r.held) /\ NothingElse(r, b) /\ Paying(r, b) /\ r.translation \in BOOLEAN
  BY <1>1 DEF Paid
<1>3. \A i \in 1..Len(r.held) : r.held[i].ok
  BY <1>1, <1>2 DEF Paying
<1>4. Secured(r.held) = Prepaid(r)
  BY <1>2, <1>3, PrepaidIs
<1>5. Billed(q) = Billed(r)
  BY DEF Billed
<1>6. NothingElse(q, b)
  BY <1>2, <1>5 DEF NothingElse
<1>7. Paying(q, b)
  BY <1>2, <1>3, <1>5 DEF Paying
<1>8. /\ q.pc \notin Early \cup {"done", "gone"} /\ q.pc \notin {"settle", "release"}
      /\ q.pc # "settle" /\ q.pc # "release" /\ q.pc \in Streaming
  BY DEF Early, Streaming
<1>9. q.pc \in Early \cup Streaming \cup {"settle"} \cup Closed
  BY <1>8
<1>10. q.translation \in BOOLEAN /\ Chained(q.held) /\ Sent(q) <= Secured(q.held)
  BY <1>2, <1>4
<1> QED BY ONLY q.total \in Nat, q.frame \in Nat, <1>2, <1>6, <1>7, <1>8, <1>9, <1>10, Zenon DEF Paid


\* A settlement, whether it did anything or not: the row charges what was used
\* from then on, or the stream does not count as settled.
SettledOne(r, b, q, d, e) ==
  /\ q.pc = "settle" /\ q.held = r.held /\ q.total = r.total /\ q.frame = r.frame
  /\ q.translation = r.translation /\ q.todo = r.todo \ {e} /\ (q.settled => r.settled)
  /\ Rows(d)
  /\ \A k \in Kinds, i \in Slots : (k = e.kind /\ i = e.slot) \/ d[k][i] = b[k][i]
  /\ LET old == b[e.kind][e.slot]
         new == d[e.kind][e.slot]
     IN  \/ old.state = "reserved" /\ new.state = "settled" /\ new.charge = e.bytes
         \/ old.state # "reserved" /\ new = old
         \/ new = old /\ ~q.settled

LEMMA SettledPaid ==
  ASSUME NEW r, NEW b, NEW q, NEW d, Paid(r, b), r.pc = "settle",
         NEW e \in r.todo, SettledOne(r, b, q, d, e)
  PROVE  Paid(q, d)
<1> DEFINE k0 == e.kind  i0 == e.slot  h0 == r.held[i0]
<1>1. /\ q.pc = "settle" /\ q.held = r.held /\ q.total = r.total /\ q.frame = r.frame
      /\ q.translation = r.translation /\ q.todo = r.todo \ {e} /\ (q.settled => r.settled) /\ Rows(d)
      /\ \A k \in Kinds, i \in Slots : (k = k0 /\ i = i0) \/ d[k][i] = b[k][i]
  BY DEF SettledOne
<1>2. /\ Chained(r.held) /\ Sent(r) <= Secured(r.held) /\ NothingElse(r, b) /\ r.translation \in BOOLEAN
      /\ Left(r, b) /\ Listed(r, b) /\ r.total \in Nat /\ r.frame \in Nat
  BY DEF Paid
<1>3. k0 \in Billed(r) /\ i0 \in 1..Len(r.held) /\ e.bytes = Actual(r, h0) /\ k0 \in Kinds /\ i0 \in Slots
  BY <1>2, ChainIs, AudioIsBilled DEF Listed, Meant
<1>4. /\ Billed(q) = Billed(r) /\ (\A h : Actual(q, h) = Actual(r, h)) /\ Sent(q) = Sent(r)
      /\ \A f : Meant(q, f) = Meant(r, f)
  <2>1. Billed(q) = Billed(r) /\ (\A h : Actual(q, h) = Actual(r, h)) /\ Sent(q) = Sent(r)
    BY <1>1 DEF Billed, Actual, Sent
  <2> QED BY <2>1, <1>1 DEF Meant
<1>5. \/ d[k0][i0].state = "settled" /\ d[k0][i0].charge = Actual(r, h0)
      \/ d[k0][i0] = b[k0][i0] /\ (b[k0][i0].charge = Actual(r, h0) \/ ~q.settled)
  <2> DEFINE old == b[k0][i0]  new == d[k0][i0]
  <2>1. \/ old.state = "reserved" /\ new.state = "settled" /\ new.charge = Actual(r, h0)
        \/ old.state # "reserved" /\ new = old
        \/ new = old /\ ~q.settled
    BY <1>3 DEF SettledOne
  <2>2. old.state # "reserved" => old.charge = Actual(r, h0)
    <3>1. Whole(h0, old) \/ old.charge = Actual(r, h0) \/ (old = NoRow /\ ~h0.ok)
      BY <1>2, <1>3 DEF Left
    <3>2. old = NoRow /\ ~h0.ok => old.charge = Actual(r, h0)
      BY DEF NoRow, Actual
    <3> QED BY <3>1, <3>2 DEF Whole
  <2> QED BY <2>1, <2>2
<1>6. NothingElse(q, d)
  BY <1>1, <1>2, <1>3, <1>4 DEF NothingElse
<1>7. ASSUME NEW k \in Billed(r), NEW i \in 1..Len(r.held), ~(k = k0 /\ i = i0)
      PROVE  d[k][i] = b[k][i]
  <2>1. k \in Kinds /\ i \in Slots
    BY <1>2, ChainIs, AudioIsBilled
  <2> QED BY <2>1, <1>1, <1>7
<1>8. Left(q, d)
  <2> SUFFICES ASSUME NEW k \in Billed(r), NEW i \in 1..Len(r.held)
               PROVE  \/ Whole(r.held[i], d[k][i])
                      \/ d[k][i].state = "settled" /\ d[k][i].charge = Actual(r, r.held[i])
                      \/ d[k][i] = NoRow /\ ~r.held[i].ok
    BY <1>1, <1>4 DEF Left
  <2>1. \/ Whole(r.held[i], b[k][i])
        \/ b[k][i].state = "settled" /\ b[k][i].charge = Actual(r, r.held[i])
        \/ b[k][i] = NoRow /\ ~r.held[i].ok
    BY <1>2 DEF Left
  <2>2. CASE k = k0 /\ i = i0
    BY <2>1, <2>2, <1>5
  <2>3. CASE ~(k = k0 /\ i = i0)
    BY <2>1, <2>3, <1>7
  <2> QED BY <2>2, <2>3
<1>9. Listed(q, d)
  <2>1. \A f \in q.todo : Meant(q, f)
    BY <1>1, <1>2, <1>4 DEF Listed
  <2>2. ASSUME q.settled, NEW k \in Billed(q), NEW i \in 1..Len(q.held), d[k][i].charge # Actual(q, q.held[i])
        PROVE  \E f \in q.todo : f.kind = k /\ f.slot = i
    <3>1. k \in Billed(r) /\ i \in 1..Len(r.held) /\ d[k][i].charge # Actual(r, r.held[i]) /\ r.settled
      BY <2>2, <1>1, <1>4
    <3>2. ~(k = k0 /\ i = i0)
      BY <2>2, <3>1, <1>5
    <3>3. b[k][i].charge # Actual(r, r.held[i])
      BY <3>1, <3>2, <1>7
    <3>4. PICK f \in r.todo : f.kind = k /\ f.slot = i
      BY <3>1, <3>3, <1>2 DEF Listed
    <3>5. f # e
      BY <3>2, <3>4
    <3> QED BY <3>4, <3>5, <1>1
  <2> QED BY <2>1, <2>2 DEF Listed
<1>10. /\ q.total \in Nat /\ q.frame \in Nat /\ q.translation \in BOOLEAN
       /\ Chained(q.held) /\ Sent(q) <= Secured(q.held)
  BY <1>1, <1>2, <1>4
<1>11. /\ q.pc \notin Early \cup {"done", "gone"} /\ q.pc \notin Streaming /\ q.pc # "release"
       /\ q.pc \in Early \cup Streaming \cup {"settle"} \cup Closed
  BY <1>1 DEF Early, Streaming
<1> QED BY ONLY <1>1, <1>6, <1>8, <1>9, <1>10, <1>11, Zenon DEF Paid

\* Nothing is left to settle.
LEMMA ReleasedPaid ==
  ASSUME NEW r, DOMAIN r = Fields, NEW b, Paid(r, b), r.pc = "settle", r.todo = {},
         NEW q, q = [r EXCEPT !.pc = "release"]
  PROVE  Paid(q, b)
<1>1. /\ q.pc = "release" /\ q.held = r.held /\ q.total = r.total /\ q.frame = r.frame
      /\ q.translation = r.translation /\ (q.settled => r.settled)
  BY DEF Fields
<1>2. /\ Chained(r.held) /\ Sent(r) <= Secured(r.held) /\ NothingElse(r, b) /\ r.translation \in BOOLEAN
      /\ Left(r, b) /\ Listed(r, b) /\ r.total \in Nat /\ r.frame \in Nat /\ Rows(b)
  BY DEF Paid
<1>3. Billed(q) = Billed(r) /\ (\A h : Actual(q, h) = Actual(r, h)) /\ Sent(q) = Sent(r)
  BY <1>1 DEF Billed, Actual, Sent
<1>4. NothingElse(q, b) /\ Left(q, b)
  BY <1>1, <1>2, <1>3 DEF NothingElse, Left
<1>5. ExactRows(q, b)
  BY <1>1, <1>2, <1>3 DEF Listed, ExactRows
<1>6. /\ q.total \in Nat /\ q.frame \in Nat /\ q.translation \in BOOLEAN
      /\ Chained(q.held) /\ Sent(q) <= Secured(q.held)
  BY <1>1, <1>2, <1>3
<1>7. /\ q.pc \notin Early \cup {"done", "gone"} /\ q.pc \notin Streaming /\ q.pc # "settle"
      /\ q.pc \in Early \cup Streaming \cup {"settle"} \cup Closed
  BY <1>1 DEF Early, Streaming, Closed
<1> QED BY ONLY <1>1, <1>2, <1>4, <1>5, <1>6, <1>7, Zenon DEF Paid

-----------------------------------------------------------------------------
(* The steps.                                                                *)

PaidOf(b) == SumFunction([i \in Slots |-> b["audio"][i].charge - b["audio"][i].gift])

LEMMA PaidPartIs == \A c \in Conns : PaidPart(c) = PaidOf(bill[c]) /\ PaidPart(c)' = PaidOf(bill'[c])
BY DEF PaidPart, PaidOf

\* A step of one connection.
LEMMA OwnMoney ==
  ASSUME Inv, Money, NEW c \in Conns, NEW r, Set(c, r), UNCHANGED <<discount, input>>,
         bill' = [d \in Conns |-> bill'[d]], \A d \in Conns : d # c => bill'[d] = bill[d],
         Paid(r, bill'[c]), conn[c].pc \notin Closed
  PROVE  Money'
<1>1. \A d \in Conns : conn'[d] = IF d = c THEN r ELSE conn[d]
  BY DEF Set, Inv, Shape
<1>2. \A d \in Conns : Paid(conn'[d], bill'[d])
  BY <1>1 DEF Money
<1>3. ASSUME NEW d \in Conns
      PROVE  discount'[d] = -1 \/ (conn'[d].pc \in Closed /\ discount'[d] = PaidPart(d)')
  <2>1. discount[d] = -1 \/ (conn[d].pc \in Closed /\ discount[d] = PaidPart(d))
    BY DEF Money
  <2>2. CASE d = c
    BY <2>1, <2>2
  <2>3. CASE d # c
    BY <2>1, <2>3, <1>1, PaidPartIs
  <2> QED BY <2>2, <2>3
<1> QED BY <1>2, <1>3 DEF Money

LEMMA OwnConn ==
  ASSUME Inv, Money, NEW c \in Conns, NEW r, Set(c, r), UNCHANGED <<bill, discount, input>>,
         Paid(r, bill[c]), conn[c].pc \notin Closed \/ r.pc \in Closed
  PROVE  Money'
<1>1. \A d \in Conns : conn'[d] = IF d = c THEN r ELSE conn[d]
  BY DEF Set, Inv, Shape
<1>2. \A d \in Conns : Paid(conn'[d], bill'[d])
  BY <1>1 DEF Money
<1>3. ASSUME NEW d \in Conns
      PROVE  discount'[d] = -1 \/ (conn'[d].pc \in Closed /\ discount'[d] = PaidPart(d)')
  <2>1. discount[d] = -1 \/ (conn[d].pc \in Closed /\ discount[d] = PaidPart(d))
    BY DEF Money
  <2>2. PaidPart(d)' = PaidPart(d)
    BY PaidPartIs
  <2> QED BY <2>1, <2>2, <1>1
<1>4. bill' = [d \in Conns |-> bill'[d]] /\ discount' = [d \in Conns |-> discount'[d]]
  BY DEF Money
<1> QED BY <1>2, <1>3, <1>4 DEF Money

\* Steps that everyone takes at once, or that touch no money.
LEMMA AllMoney ==
  ASSUME Money, UNCHANGED <<bill, discount, input>>,
         \A c \in Conns : Paid(conn'[c], bill[c]) /\ (conn[c].pc \in Closed => conn'[c].pc \in Closed)
  PROVE  Money'
<1>1. \A c \in Conns : PaidPart(c)' = PaidPart(c)
  BY PaidPartIs
<1>2. bill' = [d \in Conns |-> bill'[d]] /\ discount' = [d \in Conns |-> discount'[d]]
  BY DEF Money
<1> QED BY <1>1, <1>2 DEF Money

LEMMA OwnParts ==
  ASSUME Inv, Money, NEW c \in Conns
  PROVE  DOMAIN conn[c] = Fields /\ Paid(conn[c], bill[c]) /\ Rows(bill[c])
BY Parts DEF Money, Paid

LEMMA UntouchedMoney ==
  ASSUME Money, UNCHANGED <<conn, bill, discount, input>>
  PROVE  Money'
BY AllMoney DEF Money

LEMMA ConnectMoney ==
  ASSUME Inv, Money, NEW c \in Conns, NEW s, Connect(c, s)
  PROVE  Money'
<1> DEFINE r == [conn[c] EXCEPT !.pc = "admitting"]
<1>1. Set(c, r) /\ UNCHANGED <<bill, discount, input>> /\ conn[c].pc = "new"
  BY DEF Connect, money, At
<1>2. Empty(conn[c]) /\ \A k \in Kinds, i \in Slots : bill[c][k][i] = NoRow
  BY <1>1, OwnParts, EarlyRows DEF Paid, Early
<1>3. Empty(r) /\ r.pc \in Early
  BY <1>2, OwnParts DEF Empty, Fields, Early
<1> HIDE DEF r
<1>4. Paid(r, bill[c])
  BY <1>2, <1>3, OwnParts, EmptyPaid
<1> QED BY <1>1, <1>4, OwnConn DEF Closed

LEMMA AdmitMoney ==
  ASSUME Inv, Money, NEW c \in Conns, Admit(c) \/ StartFails(c)
  PROVE  Money'
<1>1. PICK pc \in {"starting", "release"} :
        Set(c, [conn[c] EXCEPT !.pc = pc]) /\ UNCHANGED <<bill, discount, input>> /\ conn[c].pc \in Early
  BY DEF Admit, StartFails, money, admission, At, Early
<1> DEFINE r == [conn[c] EXCEPT !.pc = pc]
<1>2. Empty(conn[c]) /\ \A k \in Kinds, i \in Slots : bill[c][k][i] = NoRow
  <2>1. Paid(conn[c], bill[c])
    BY OwnParts
  <2>2. Empty(conn[c])
    BY ONLY <1>1, <2>1, Zenon DEF Paid
  <2> QED BY <1>1, <2>1, <2>2, EarlyRows
<1>3. Empty(r) /\ r.pc \in Early \cup {"open", "release"}
  BY <1>2, OwnParts DEF Empty, Fields, Early
<1>4. Set(c, r)
  BY <1>1
<1> HIDE DEF r
<1>5. Paid(r, bill[c])
  BY <1>2, <1>3, OwnParts, EmptyPaid
<1> QED BY <1>1, <1>4, <1>5, OwnConn DEF Closed, Early

LEMMA ReadyMoney ==
  ASSUME Inv, Money, NEW c \in Conns, Ready(c)
  PROVE  Money'
<1> DEFINE r == [Opened(conn[c]) EXCEPT !.gifted = funds.gift > 0]
<1>1. Set(c, r) /\ UNCHANGED <<bill, discount, input>> /\ conn[c].pc = "starting"
  BY DEF Ready, money, admission, At
<1>2. Empty(conn[c]) /\ \A k \in Kinds, i \in Slots : bill[c][k][i] = NoRow
  BY <1>1, OwnParts, EarlyRows DEF Paid, Early
<1>3. Empty(r) /\ r.pc = "open"
  BY <1>2, OwnParts DEF Empty, Fields, Opened
<1> HIDE DEF r
<1>4. Paid(r, bill[c])
  BY <1>2, <1>3, OwnParts, EmptyPaid
<1> QED BY <1>1, <1>4, OwnConn DEF Closed

LEMMA GoneMoney ==
  ASSUME Inv, Money, NEW c \in Conns, AdmitFails(c) \/ Release(c)
  PROVE  Money'
<1>1. PICK pc \in {"done", "gone"} : Set(c, Gone(pc)) /\ UNCHANGED <<bill, discount, input>>
  BY DEF AdmitFails, Release, money
<1>2. Gone(pc).pc \in Closed
  BY DEF Gone, NewConn, Closed
<1>3. Paid(Gone(pc), bill[c])
  BY OwnParts, GonePaid
<1> QED BY <1>1, <1>2, <1>3, OwnConn

\* The socket is cancelled; nothing of the money is in that.
LEMMA CutMoney ==
  ASSUME Inv, Money, NEW c \in Conns, Lapses(c) \/ RenewFails(c) \/ Terminate(c)
  PROVE  Money'
<1>1. PICK r \in {[conn[c] EXCEPT !.cut = TRUE], Told(conn[c])} : Set(c, r) /\ UNCHANGED <<bill, discount, input>>
  BY DEF Lapses, RenewFails, Terminate, money, admission
<1>2. SameMoney(conn[c], r)
  BY <1>1, OwnParts DEF SameMoney, Told, Fields
<1>3. Paid(r, bill[c]) /\ r.pc = conn[c].pc
  BY <1>2, OwnParts, StillPaid DEF SameMoney
<1> QED BY <1>1, <1>3, OwnConn

LEMMA StartMoney ==
  ASSUME Inv, Money, NEW c \in Conns, NEW t \in input.translations, Start(c, t)
  PROVE  Money'
<1> DEFINE r == [conn[c] EXCEPT !.pc = "charging", !.translation = t]  b == bill[c]
<1>1. Set(c, Reserved(r, 1)) /\ UNCHANGED <<bill, discount, input>> /\ conn[c].pc = "open" /\ conn[c].held = <<>>
  BY DEF Start, money, admission, At
<1>2. Paid(conn[c], b) /\ DOMAIN conn[c] = Fields /\ Rows(b) /\ \A k \in Kinds, i \in Slots : b[k][i] = NoRow
  BY <1>1, OwnParts, EarlyRows
<1>3. /\ r.pc = "charging" /\ r.held = <<>> /\ r.total = conn[c].total /\ r.frame = conn[c].frame
      /\ r.translation = t /\ r.settled = conn[c].settled /\ DOMAIN r = Fields
  BY <1>1, <1>2 DEF Fields
<1>4. /\ Chained(<<>>) /\ Secured(<<>>) = 0 /\ Prepaid(r) = 0 /\ Len(<<>>) = 0
      /\ conn[c].settled /\ conn[c].frame = 0 /\ Sent(conn[c]) <= Secured(conn[c].held)
  BY <1>1, <1>2, <1>3 DEF Paid, Paying, Streaming, Secured, Prepaid
<1>5. conn[c].total = 0
  BY <1>1, <1>2, <1>4, SentIs
<1>6. t \in BOOLEAN
  BY DEF Money
<1> HIDE DEF r
<1>7. Paid(Reserved(r, 1), b)
  <2>1. NothingElse(r, b)
    BY <1>2 DEF NothingElse
  <2>2. \A i \in 1..Len(r.held) : FALSE
    BY <1>3, <1>4
  <2>3. Chained(r.held) /\ Len(r.held) < MaxReservations /\ r.settled /\ r.translation \in BOOLEAN
    BY <1>3, <1>4, <1>6, Counts
  <2>4. r.total = 0 /\ r.frame = 0 /\ Prepaid(r) = 0
    BY <1>3, <1>4, <1>5
  <2>5. /\ r.total \in Nat /\ r.total <= Prepaid(r) /\ 1 \in Nat /\ r.total + 1 > Prepaid(r)
        /\ r.frame \in Nat /\ r.frame <= 1
    BY ONLY <2>4
  <2>6. DOMAIN r = Fields /\ r.pc = "charging" /\ Rows(b)
    BY <1>2, <1>3
  <2>7. /\ \A i \in 1..Len(r.held) : r.held[i].ok
        /\ \A k \in Billed(r), i \in 1..Len(r.held) : Whole(r.held[i], b[k][i])
    BY <2>2
  <2> QED BY ONLY <2>1, <2>3, <2>5, <2>6, <2>7, ReservedPaid
<1> QED BY <1>1, <1>7, OwnConn DEF r, Closed

LEMMA FrameMoney ==
  ASSUME Inv, Money, NEW c \in Conns, NEW n \in input.frames, Frame(c, n)
  PROVE  Money'
<1> DEFINE r == [conn[c] EXCEPT !.pc = "cleared", !.frame = n, !.slack = WriteSlack]
<1>1. /\ Set(c, r) /\ UNCHANGED <<bill, discount, input>> /\ conn[c].pc = "open"
      /\ conn[c].total + n <= Prepaid(conn[c])
  BY DEF Frame, money, admission, At
<1>2. /\ r.pc = "cleared" /\ r.held = conn[c].held /\ r.total = conn[c].total /\ r.frame = n
      /\ r.translation = conn[c].translation /\ r.settled = conn[c].settled
  BY OwnParts DEF Fields
<1>3. n \in Nat /\ conn[c].total \in Nat
  BY OwnParts DEF Money, Paid
<1> HIDE DEF r
<1>4. Sent(r) <= Prepaid(conn[c])
  BY <1>1, <1>2 DEF Sent
<1>5. Paid(r, bill[c])
  BY <1>1, <1>2, <1>3, <1>4, OwnParts, GoesOn
<1> QED BY <1>1, <1>5, OwnConn DEF Closed

LEMMA FrameReservesMoney ==
  ASSUME Inv, Money, NEW c \in Conns, NEW n \in input.frames, FrameReserves(c, n)
  PROVE  Money'
<1> DEFINE r == [conn[c] EXCEPT !.pc = "charging", !.frame = n]  b == bill[c]
<1>1. /\ Set(c, Reserved(r, n)) /\ UNCHANGED <<bill, discount, input>> /\ conn[c].pc = "open"
      /\ conn[c].total + n > Prepaid(conn[c]) /\ Len(conn[c].held) < MaxReservations
  BY DEF FrameReserves, money, admission, At
<1>2. /\ r.pc = "charging" /\ r.held = conn[c].held /\ r.total = conn[c].total /\ r.frame = n
      /\ r.translation = conn[c].translation /\ r.settled = conn[c].settled /\ DOMAIN r = Fields
  BY OwnParts DEF Fields
<1>3. n \in Nat /\ n <= n
  BY DEF Money
<1>4. /\ Paying(conn[c], b) /\ NothingElse(conn[c], b) /\ Rows(b) /\ Chained(conn[c].held)
      /\ conn[c].total \in Nat /\ conn[c].translation \in BOOLEAN /\ Sent(conn[c]) <= Secured(conn[c].held)
  BY <1>1, OwnParts DEF Paid, Streaming
<1>5. conn[c].settled /\ \A i \in 1..Len(conn[c].held) : conn[c].held[i].ok
  BY <1>1, <1>4 DEF Paying
<1>6. Secured(conn[c].held) = Prepaid(conn[c]) /\ Prepaid(r) = Prepaid(conn[c]) /\ Billed(r) = Billed(conn[c])
  BY <1>2, <1>4, <1>5, PrepaidIs DEF Prepaid, Billed
<1>7. Sent(conn[c]) = conn[c].total
  BY <1>1, OwnParts, SentIs
<1> HIDE DEF r
<1>8. Paid(Reserved(r, n), b)
  <2>1. NothingElse(r, b)
    BY <1>2, <1>4, <1>6 DEF NothingElse
  <2>2. Chained(r.held) /\ Len(r.held) < MaxReservations /\ r.settled /\ r.translation \in BOOLEAN
        /\ r.total \in Nat /\ r.frame \in Nat /\ r.frame <= n /\ DOMAIN r = Fields /\ r.pc = "charging"
    BY <1>1, <1>2, <1>3, <1>4, <1>5
  <2>3. r.total <= Prepaid(r) /\ r.total + n > Prepaid(r)
    BY <1>1, <1>2, <1>4, <1>6, <1>7
  <2>4. /\ \A i \in 1..Len(r.held) : r.held[i].ok
        /\ \A k \in Billed(r), i \in 1..Len(r.held) : Whole(r.held[i], b[k][i])
    BY <1>1, <1>2, <1>4, <1>5, <1>6 DEF Paying
  <2> QED BY ONLY <1>3, <1>4, <2>1, <2>2, <2>3, <2>4, ReservedPaid
<1> QED BY <1>1, <1>8, OwnConn DEF r, Closed

LEMMA EndMoney ==
  ASSUME Inv, Money, NEW c \in Conns, Leave(c) \/ ChargeFails(c) \/ WriteFails(c)
  PROVE  Money'
<1>1. Set(c, Ended(conn[c])) /\ UNCHANGED <<bill, discount, input>> /\ conn[c].pc \in Streaming
  BY DEF Leave, ChargeFails, WriteFails, money, admission, At, Streaming
<1>2. Paid(Ended(conn[c]), bill[c])
  BY <1>1, OwnParts, PayingWinds, EndedPaid
<1> QED BY <1>1, <1>2, OwnConn DEF Closed, Streaming

\* Rows of a table are replaced.
ReplacedAt(b, w, s, v, d) ==
  Table(d) /\ \A k \in Kinds, i \in Slots : d[k][i] = IF i = s /\ k = w THEN v ELSE b[k][i]

LEMMA OnePlace ==
  ASSUME NEW b, Table(b), NEW w \in Kinds, NEW s \in Slots, NEW v, NEW d, d = [b EXCEPT ![w][s] = v]
  PROVE  ReplacedAt(b, w, s, v, d)
<1>1. \A k \in Kinds, i \in Slots : d[k][i] = IF i = s /\ k = w THEN v ELSE b[k][i]
  BY DEF Table
<1>2. Table(d)
  BY DEF Table
<1> QED BY <1>1, <1>2 DEF ReplacedAt

TwoPut(b, s, a, t, u, d) ==
  d = [b EXCEPT !["audio"][s] = a, !["translation"][s] = IF u THEN t ELSE @]

LEMMA TwoPlaces ==
  ASSUME NEW b, NEW s \in Slots, Table(b), NEW a, NEW t, NEW u, NEW d, TwoPut(b, s, a, t, u, d)
  PROVE  /\ Table(d)
         /\ \A k \in Kinds, i \in Slots :
              d[k][i] = IF i = s THEN IF k = "audio" THEN a ELSE IF u THEN t ELSE b[k][i] ELSE b[k][i]
<1> DEFINE w == "audio"  z == "translation"  o == [b EXCEPT ![w][s] = a]
           v == IF u THEN t ELSE o[z][s]
           p == [o EXCEPT ![z][s] = v]
<1>1. w \in Kinds /\ z \in Kinds /\ w # z /\ Kinds = {w, z}
  BY DEF Kinds
<1>2. d = p
  BY DEF TwoPut
<1>3. o = [b EXCEPT ![w][s] = a] /\ p = [o EXCEPT ![z][s] = v]
  OBVIOUS
<1> HIDE DEF w, z, v, o, p
<1>4. ReplacedAt(b, w, s, a, o)
  BY <1>1, <1>3, OnePlace
<1>5. ReplacedAt(o, z, s, v, p)
  <2>1. Table(o)
    BY <1>4 DEF ReplacedAt
  <2> QED BY ONLY <1>1, <1>3, <2>1, s \in Slots, OnePlace
<1>6. Table(p) /\ \A k \in Kinds, i \in Slots :
        p[k][i] = IF i = s /\ k = z THEN v ELSE IF i = s /\ k = w THEN a ELSE b[k][i]
  BY <1>4, <1>5 DEF ReplacedAt
<1>7. v = IF u THEN t ELSE b[z][s]
  BY <1>1, <1>4 DEF v, ReplacedAt
<1>8. w = "audio"
  BY DEF w
<1>9. ASSUME NEW k \in Kinds, NEW i \in Slots
      PROVE  d[k][i] = IF i = s THEN IF k = w THEN a ELSE IF u THEN t ELSE b[k][i] ELSE b[k][i]
  BY <1>1, <1>2, <1>6, <1>7
<1> QED BY <1>2, <1>6, <1>8, <1>9

\* RecordUsageBatch writes the rows of the last reservation.
LEMMA RecordIs ==
  ASSUME Inv, Money, NEW c \in Conns, conn[c].pc = "charging", Record(c)
  PROVE  /\ Recorded(conn[c], bill[c], bill'[c])
         /\ bill' = [d \in Conns |-> bill'[d]] /\ \A d \in Conns : d # c => bill'[d] = bill[d]
<1> DEFINE r == conn[c]  b == bill[c]  s == Slot(c)
           row(size, gift) == [state |-> "reserved", charge |-> size, gift |-> gift]
<1>1. /\ Chained(r.held) /\ r.held # <<>> /\ r.translation \in BOOLEAN /\ Rows(b)
  BY OwnParts DEF Paid, Paying, Streaming
<1>2. s = Len(r.held) /\ s \in 1..Len(r.held) /\ s \in Slots
  BY <1>1, ChainIs DEF Slot
<1>3. Size(c) = r.held[s].size /\ Size(c) \in Nat
  BY <1>1, <1>2, ChainIs DEF Size
<1>4. \A k \in Billed(r) : Part(c, k) = Size(c)
  BY <1>1, AudioIsBilled DEF Part, Billed, Kinds
<1>5. PICK g, h :
        bill' = [bill EXCEPT ![c]["audio"][s] = row(Part(c, "audio"), g),
                             ![c]["translation"][s] = IF r.translation THEN row(Part(c, "translation"), h) ELSE @]
  BY DEF Record
<1> DEFINE a == row(Part(c, "audio"), g)  t == row(Part(c, "translation"), h)
           d == bill'[c]
<1>6. /\ a.state = "reserved" /\ a.charge = Part(c, "audio")
      /\ t.state = "reserved" /\ t.charge = Part(c, "translation")
  OBVIOUS
<1> HIDE DEF a, t, s
<1>7. /\ bill' = [e \in Conns |-> bill'[e]] /\ \A e \in Conns : e # c => bill'[e] = bill[e]
      /\ bill'[c] = [b EXCEPT !["audio"][s] = a, !["translation"][s] = IF r.translation THEN t ELSE @]
  BY <1>5 DEF Money, a, t
<1>8. Table(b) /\ \A k \in Kinds, i \in Slots : b[k][i].charge \in Nat
  BY <1>1 DEF Rows
<1> DEFINE of(k) == IF k = "audio" THEN a ELSE IF r.translation THEN t ELSE b[k][s]
           u == r.translation
<1>9. TwoPut(b, s, a, t, u, d)
  BY <1>7 DEF TwoPut
<1> HIDE DEF b, d, u
<1>10. /\ Table(d)
       /\ \A k \in Kinds, i \in Slots : d[k][i] = IF i = s THEN of(k) ELSE b[k][i]
  <2>1. /\ Table(d)
        /\ \A k \in Kinds, i \in Slots :
             d[k][i] = IF i = s THEN IF k = "audio" THEN a ELSE IF u THEN t ELSE b[k][i] ELSE b[k][i]
    BY ONLY <1>2, <1>8, <1>9, TwoPlaces
  <2> QED BY <2>1 DEF u
<1> HIDE DEF of
<1>11. \A k \in Kinds : IF k \in Billed(r) THEN of(k).state = "reserved" /\ of(k).charge = Size(c) ELSE of(k) = b[k][s]
  BY <1>1, <1>4, <1>6, AudioIsBilled DEF of, Billed, Kinds
<1>12. Rows(d)
  BY <1>2, <1>3, <1>8, <1>10, <1>11 DEF Rows
<1>13. Recorded(r, b, d)
  BY <1>2, <1>3, <1>10, <1>11, <1>12 DEF Recorded, Whole
<1> QED BY <1>7, <1>13 DEF b, d

LEMMA ChargeUnknownMoney ==
  ASSUME Inv, Money, NEW c \in Conns, ChargeUnknown(c)
  PROVE  Money'
<1>1. Set(c, Ended(conn[c])) /\ UNCHANGED <<discount, input>> /\ conn[c].pc = "charging" /\ Record(c)
  BY DEF ChargeUnknown, admission, At
<1>2. /\ Recorded(conn[c], bill[c], bill'[c])
      /\ bill' = [d \in Conns |-> bill'[d]] /\ \A d \in Conns : d # c => bill'[d] = bill[d]
  BY <1>1, RecordIs
<1>3. Paid(Ended(conn[c]), bill'[c])
  BY <1>1, <1>2, OwnParts, RecordedWinds, EndedPaid
<1> QED BY <1>1, <1>2, <1>3, OwnMoney DEF Closed

LEMMA ChargeMoney ==
  ASSUME Inv, Money, NEW c \in Conns, Charge(c)
  PROVE  Money'
<1> DEFINE r == Confirmed(conn[c])
           q == IF Allowed(c) THEN [r EXCEPT !.pc = "cleared", !.slack = WriteSlack] ELSE Ended(r)
<1>1. Set(c, q) /\ UNCHANGED <<discount, input>> /\ conn[c].pc = "charging" /\ Record(c)
  BY DEF Charge, admission, At
<1>2. /\ Recorded(conn[c], bill[c], bill'[c])
      /\ bill' = [d \in Conns |-> bill'[d]] /\ \A d \in Conns : d # c => bill'[d] = bill[d]
  BY <1>1, RecordIs
<1>3. Winding(r, bill'[c]) /\ Paid([r EXCEPT !.pc = "cleared", !.slack = WriteSlack], bill'[c])
  BY <1>1, <1>2, OwnParts, Constants, ConfirmedPaid
<1>4. DOMAIN r = Fields
  BY OwnParts, ConfirmedSound
<1> HIDE DEF r
<1>5. Paid(Ended(r), bill'[c])
  BY <1>3, <1>4, EndedPaid
<1>6. Paid(q, bill'[c])
  BY <1>3, <1>5
<1> HIDE DEF q
<1> QED BY <1>1, <1>2, <1>6, OwnMoney DEF Closed

LEMMA ForwardMoney ==
  ASSUME Inv, Money, NEW c \in Conns, Forward(c)
  PROVE  Money'
<1> DEFINE o == conn[c]
           r == [o EXCEPT !.pc = "open", !.frame = 0, !.slack = 0]
           total == r.total + o.frame
           q == [r EXCEPT !.total = total]
<1>1. /\ Set(c, IF total <= Prepaid(r) THEN q ELSE Ended(r))
      /\ UNCHANGED <<bill, discount, input>> /\ o.pc = "cleared"
  BY DEF Forward, money, admission, At
<1>2. /\ r.pc = "open" /\ r.held = o.held /\ r.total = o.total /\ r.frame = 0 /\ r.translation = o.translation
      /\ r.settled = o.settled /\ DOMAIN r = Fields
  BY OwnParts DEF Fields
<1> HIDE DEF r
<1>3. /\ q.pc = "open" /\ q.held = o.held /\ q.total = total /\ q.frame = 0 /\ q.translation = o.translation
      /\ q.settled = o.settled
  BY <1>2 DEF Fields
<1> HIDE DEF q
<1>4. Paid(o, bill[c]) /\ Paying(o, bill[c]) /\ Chained(o.held) /\ Sent(o) <= Secured(o.held)
      /\ o.total \in Nat /\ o.frame \in Nat
  BY <1>1, OwnParts DEF Paid, Streaming
<1>5. Prepaid(o) = Secured(o.held) /\ Prepaid(r) = Prepaid(o)
  BY <1>1, <1>2, <1>4, PrepaidIs DEF Paying, Prepaid
<1>6. Sent(o) = o.total + o.frame /\ total = o.total + o.frame
  BY <1>1, <1>2 DEF Sent
<1>7. total \in Nat /\ total <= Prepaid(r) /\ total <= Prepaid(o)
  BY <1>4, <1>5, <1>6
<1> HIDE DEF total, o
<1>8. Sent(q) <= Prepaid(o)
  <2>1. Sent(q) = total + 0
    BY <1>3 DEF Sent
  <2> QED BY <2>1, <1>7
<1>9. Paid(q, bill[c])
  <2>1. q.total \in Nat /\ q.frame \in Nat
    <3>1. q.total = total /\ q.frame = 0
      BY <1>3
    <3> QED BY ONLY <3>1, <1>7
  <2> QED BY <1>1, <1>3, <1>4, <1>8, <2>1, GoesOn
<1> QED BY <1>1, <1>7, <1>9, OwnConn DEF o, Closed

\* What a settlement does to the rows, if it does anything.
LEMMA SettleIs ==
  ASSUME Inv, Money, NEW c \in Conns, conn[c].pc = "settle", NEW e \in conn[c].todo, Settle(c, e)
  PROVE  /\ Rows(bill'[c]) /\ bill' = [d \in Conns |-> bill'[d]]
         /\ \A d \in Conns : d # c => bill'[d] = bill[d]
         /\ \A k \in Kinds, i \in Slots : (k = e.kind /\ i = e.slot) \/ bill'[c][k][i] = bill[c][k][i]
         /\ LET old == bill[c][e.kind][e.slot]
                new == bill'[c][e.kind][e.slot]
            IN  \/ old.state = "reserved" /\ new.state = "settled" /\ new.charge = e.bytes
                \/ old.state # "reserved" /\ new = old
<1> DEFINE r == conn[c]  b == bill[c]  k0 == e.kind  i0 == e.slot  old == b[k0][i0]
           new == SettledRow(old, e.bytes)
<1>1. Chained(r.held) /\ Meant(r, e) /\ Rows(b) /\ r.total \in Nat
  BY OwnParts DEF Paid, Listed
<1>2. k0 \in Kinds /\ i0 \in Slots
  BY <1>1, ChainIs, AudioIsBilled DEF Meant
<1>3. e.bytes \in Nat
  <2>1. r.held[i0] \in Reservation /\ e.bytes = UsedOf(r.total, r.held[i0])
    BY <1>1, ChainIs, UsedOfIs DEF Meant
  <2> QED BY <1>1, <2>1, UsedOfBounds
<1>4. bill = [d \in Conns |-> bill[d]]
  BY DEF Money
<1>6. CASE old.state # "reserved"
  BY <1>1, <1>4, <1>6 DEF Settle
<1>7. CASE old.state = "reserved"
  <2>1. bill' = [bill EXCEPT ![c] = [b EXCEPT ![k0][i0] = new]]
    BY <1>7 DEF Settle
  <2>2. new.state = "settled" /\ new.charge = e.bytes
    BY DEF SettledRow
  <2> HIDE DEF new
  <2> DEFINE d == [b EXCEPT ![k0][i0] = new]
  <2>3. bill' = [f \in Conns |-> bill'[f]] /\ bill'[c] = d /\ \A f \in Conns : f # c => bill'[f] = bill[f]
    BY <1>4, <2>1
  <2>4. d = [b EXCEPT ![k0][i0] = new]
    OBVIOUS
  <2> HIDE DEF d
  <2>5. ReplacedAt(b, k0, i0, new, d)
    <3>1. Table(b)
      BY <1>1 DEF Rows
    <3> QED BY ONLY <3>1, <1>2, <2>4, OnePlace
  <2>6. Table(d) /\ \A k \in Kinds, i \in Slots : d[k][i] = IF i = i0 /\ k = k0 THEN new ELSE b[k][i]
    BY <2>5 DEF ReplacedAt
  <2>7. Rows(d)
    BY <1>1, <1>3, <2>2, <2>6 DEF Rows
  <2>8. d[k0][i0] = new
    BY <1>2, <2>6
  <2> QED BY <1>7, <2>2, <2>3, <2>6, <2>7, <2>8
<1> QED BY <1>6, <1>7

LEMMA SettleMoney ==
  ASSUME Inv, Money, NEW c \in Conns, Settles(c) \/ SettleFails(c)
  PROVE  Money'
<1> DEFINE r == conn[c]
<1>1. PICK e \in r.todo : \E q \in {[r EXCEPT !.todo = @ \ {e}], [r EXCEPT !.todo = @ \ {e}, !.settled = FALSE]} :
        /\ r.pc = "settle" /\ Set(c, q) /\ UNCHANGED <<discount, input>>
        /\ Settle(c, e) \/ (UNCHANGED <<bill, funds>> /\ q = [r EXCEPT !.todo = @ \ {e}, !.settled = FALSE])
  <2>1. CASE Settles(c)
    BY <2>1 DEF Settles, Due, At, admission
  <2>2. CASE SettleFails(c)
    BY <2>2 DEF SettleFails, Due, At, admission
  <2> QED BY <2>1, <2>2
<1>2. PICK q \in {[r EXCEPT !.todo = @ \ {e}], [r EXCEPT !.todo = @ \ {e}, !.settled = FALSE]} :
        /\ r.pc = "settle" /\ Set(c, q) /\ UNCHANGED <<discount, input>>
        /\ Settle(c, e) \/ (UNCHANGED <<bill, funds>> /\ q = [r EXCEPT !.todo = @ \ {e}, !.settled = FALSE])
  BY <1>1
<1>3. DOMAIN r = Fields /\ Paid(r, bill[c])
  BY OwnParts
<1>4. /\ q.pc = "settle" /\ q.held = r.held /\ q.total = r.total /\ q.frame = r.frame
      /\ q.translation = r.translation /\ q.todo = r.todo \ {e} /\ (q.settled => r.settled)
  BY <1>2, <1>3 DEF Fields
<1>5. CASE Settle(c, e)
  <2>1. /\ Rows(bill'[c]) /\ bill' = [d \in Conns |-> bill'[d]]
        /\ \A d \in Conns : d # c => bill'[d] = bill[d]
        /\ \A k \in Kinds, i \in Slots : (k = e.kind /\ i = e.slot) \/ bill'[c][k][i] = bill[c][k][i]
        /\ LET old == bill[c][e.kind][e.slot]
               new == bill'[c][e.kind][e.slot]
           IN  \/ old.state = "reserved" /\ new.state = "settled" /\ new.charge = e.bytes
               \/ old.state # "reserved" /\ new = old
    BY <1>2, <1>5, SettleIs
  <2>2. SettledOne(r, bill[c], q, bill'[c], e)
    BY <1>4, <2>1 DEF SettledOne
  <2>3. Paid(q, bill'[c])
    BY <1>2, <1>3, <2>2, SettledPaid
  <2> QED BY <1>2, <2>1, <2>3, OwnMoney DEF Closed
<1>6. CASE UNCHANGED <<bill, funds>> /\ q = [r EXCEPT !.todo = @ \ {e}, !.settled = FALSE]
  <2>1. ~q.settled
    BY <1>3, <1>6 DEF Fields
  <2>2. Rows(bill[c])
    BY OwnParts
  <2>3. SettledOne(r, bill[c], q, bill[c], e)
    BY <1>4, <2>1, <2>2 DEF SettledOne
  <2>4. Paid(q, bill[c])
    BY <1>2, <1>3, <2>3, SettledPaid
  <2> QED BY <1>2, <1>6, <2>4, OwnConn DEF Closed
<1> QED BY <1>2, <1>5, <1>6

LEMMA FinishMoney ==
  ASSUME Inv, Money, NEW c \in Conns, Finish(c) \/ DiscountFails(c)
  PROVE  Money'
<1> DEFINE q == [conn[c] EXCEPT !.pc = "release"]
<1>1. /\ Set(c, q) /\ UNCHANGED <<bill, input>> /\ conn[c].pc = "settle" /\ conn[c].todo = {}
      /\ discount' = discount \/ discount' = [discount EXCEPT ![c] = PaidPart(c)]
  BY DEF Finish, DiscountFails, money, admission, At
<1>2. Paid(q, bill[c])
  BY <1>1, OwnParts, ReleasedPaid
<1>3. q.pc = "release"
  BY OwnParts DEF Fields
<1> HIDE DEF q
<1>4. CASE discount' = discount
  BY <1>1, <1>2, <1>4, OwnConn DEF Closed
<1>5. CASE discount' = [discount EXCEPT ![c] = PaidPart(c)]
  <2>1. \A d \in Conns : conn'[d] = IF d = c THEN q ELSE conn[d]
    BY <1>1 DEF Set, Inv, Shape
  <2>2. /\ discount' = [d \in Conns |-> discount'[d]]
        /\ \A d \in Conns : discount'[d] = IF d = c THEN PaidPart(c) ELSE discount[d]
    BY <1>5 DEF Money
  <2>3. \A d \in Conns : PaidPart(d)' = PaidPart(d)
    BY <1>1, PaidPartIs
  <2>4. \A d \in Conns : discount'[d] = -1 \/ (conn'[d].pc \in Closed /\ discount'[d] = PaidPart(d)')
    BY <1>3, <2>1, <2>2, <2>3 DEF Money, Closed
  <2>5. \A d \in Conns : Paid(conn'[d], bill'[d])
    BY <1>1, <1>2, <2>1 DEF Money
  <2> QED BY <1>1, <2>2, <2>4, <2>5 DEF Money
<1> QED BY <1>1, <1>4, <1>5

LEMMA CrashMoney == ASSUME Inv, Money, Crash PROVE Money'
<1>1. UNCHANGED <<bill, discount, input>> /\ \A c \in Conns : conn'[c] = Gone("gone") \/ conn'[c] = conn[c]
  BY DEF Crash, money
<1>2. Gone("gone").pc \in Closed
  BY DEF Gone, NewConn, Closed
<1>3. \A c \in Conns : Paid(conn'[c], bill[c]) /\ (conn[c].pc \in Closed => conn'[c].pc \in Closed)
  <2> TAKE c \in Conns
  <2>1. Paid(Gone("gone"), bill[c])
    BY OwnParts, GonePaid
  <2> QED BY <1>1, <1>2, <2>1, OwnParts
<1> QED BY <1>1, <1>3, AllMoney

LEMMA TickMoney == ASSUME Inv, Money, Tick PROVE Money'
<1>1. UNCHANGED <<bill, discount, input>> /\ \A c \in Conns : conn'[c] = [conn[c] EXCEPT !.slack = Less(@)]
  BY DEF Tick, money
<1>2. \A c \in Conns : Paid(conn'[c], bill[c]) /\ (conn[c].pc \in Closed => conn'[c].pc \in Closed)
  <2> TAKE c \in Conns
  <2>1. SameMoney(conn[c], conn'[c])
    BY <1>1, OwnParts DEF SameMoney, Fields
  <2>2. Paid(conn'[c], bill[c])
    BY <2>1, OwnParts, StillPaid
  <2> QED BY <2>1, <2>2 DEF SameMoney
<1> QED BY <1>1, <1>2, AllMoney

LEMMA InitMoney == Init => Money
<1> SUFFICES ASSUME Init PROVE Money
  OBVIOUS
<1>1. /\ \A c \in Conns : conn[c] = NewConn
      /\ bill = [c \in Conns |-> [k \in Kinds |-> [i \in Slots |-> NoRow]]]
      /\ discount = [c \in Conns |-> -1] /\ input \in Inputs
  BY DEF Init
<1>2. Empty(NewConn) /\ NewConn.pc \in Early
  BY DEF Empty, NewConn, Early
<1>3. ASSUME NEW c \in Conns PROVE Paid(conn[c], bill[c])
  <2>1. Table(bill[c]) /\ \A k \in Kinds, i \in Slots : bill[c][k][i] = NoRow
    BY <1>1 DEF Table
  <2>2. Rows(bill[c])
    BY <2>1 DEF Rows, NoRow
  <2> QED BY <1>1, <1>2, <2>1, <2>2, EmptyPaid
<1>4. input.frames \subseteq Nat \ {0} /\ input.translations \subseteq BOOLEAN
  BY <1>1, MainAssumption
<1> QED BY <1>1, <1>3, <1>4 DEF Money

LEMMA NextMoney == Inv /\ Money /\ [Next]_vars => Money'
<1> SUFFICES ASSUME Inv, Money, [Next]_vars PROVE Money'
  OBVIOUS
<1>1. ASSUME NEW c \in Conns, Handler(c) PROVE Money'
  BY <1>1, AdmitMoney, CutMoney, ReadyMoney, EndMoney, ChargeMoney, ForwardMoney,
     SettleMoney, FinishMoney, GoneMoney DEF Handler
<1>2. ASSUME NEW c \in Conns, RenewBegin(c) \/ RenewWrite(c) \/ RenewDone(c)
      PROVE Money'
  <2>1. UNCHANGED <<conn, bill, discount, input>>
    BY <1>2 DEF RenewBegin, RenewWrite, RenewDone, money
  <2> QED BY <2>1, UntouchedMoney
<1>3. ASSUME NEW c \in Conns,
             \/ AdmitFails(c) \/ RenewFails(c) \/ Terminate(c) \/ ChargeUnknown(c)
             \/ WriteFails(c) \/ SettleFails(c) \/ DiscountFails(c)
      PROVE Money'
  BY <1>3, GoneMoney, CutMoney, ChargeUnknownMoney, EndMoney, SettleMoney, FinishMoney
<1>4. ASSUME NEW c \in Conns, NEW s \in input.sessions, Connect(c, s) PROVE Money'
  BY <1>4, ConnectMoney
<1>5. ASSUME NEW c \in Conns, NEW t \in input.translations, Start(c, t) PROVE Money'
  BY <1>5, StartMoney
<1>6. ASSUME NEW c \in Conns, NEW n \in input.frames, Frame(c, n) \/ FrameReserves(c, n) PROVE Money'
  BY <1>6, FrameMoney, FrameReservesMoney
<1>7. ASSUME NEW s \in Sessions, EdgeGrant(s) \/ EdgeEnds(s) PROVE Money'
  <2>1. UNCHANGED <<conn, bill, discount, input>>
    BY <1>7 DEF EdgeGrant, EdgeEnds, money
  <2> QED BY <2>1, UntouchedMoney
<1>8. CASE UNCHANGED vars
  BY <1>8, UntouchedMoney DEF vars
<1> QED BY <1>1, <1>2, <1>3, <1>4, <1>5, <1>6, <1>7, <1>8, CrashMoney, TickMoney DEF Next

LEMMA AlwaysMoney == Spec => []Money
<1>1. Spec => []Inv
  BY InitInv, NextInv, PTL DEF Spec
<1> QED BY <1>1, InitMoney, NextMoney, PTL DEF Spec

\* Every byte of audio that is, or may be, with the provider is paid for by rows
\* that were committed before it was written, and so is its translation: for any
\* frames, any period and however calls fail or answers are lost.
THEOREM AudioIsPrepaid == Spec => []FramesArePrepaid
BY AlwaysMoney, MoneyPrepays, PTL

\* A stream whose settlements succeeded has paid for what it forwarded, to the
\* byte, whichever reservations were confirmed, lost or never committed, and the
\* route discount is that of what its rows finally say.
THEOREM ExactBill == Spec => []BillIsExact
BY AlwaysMoney, MoneyIsExact, PTL

=============================================================================
