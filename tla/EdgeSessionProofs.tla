--------------------------- MODULE EdgeSessionProofs ---------------------------
(***************************************************************************)
(* Theorems about edge sessions, for any sessions, window, reach and        *)
(* bounds that EdgeAssumption allows, on their own (Spec) and behind a      *)
(* node's outbox (OutboxSpec).                                              *)
(***************************************************************************)
EXTENDS EdgeOutbox, Sums, SequenceTheorems

-----------------------------------------------------------------------------
(* Numbers                                                                 *)

LEMMA Bounds ==
  /\ Reach \in Nat /\ MaxGen \in Nat /\ MaxEvents \in Nat
  /\ Window \in Nat \ {0} /\ MaxWindows \in Nat \ {0}
BY EdgeAssumption

\* A bounded set of naturals has a largest element.
LEMMA LargestNat ==
  ASSUME NEW S \in SUBSET Nat, S # {}, NEW b \in Nat, \A y \in S : y <= b
  PROVE  Max(S) \in S /\ \A y \in S : Max(S) >= y
<1> DEFINE T == {b - y : y \in S}
<1>1. T \in SUBSET Nat /\ T # {}
  <2>1. \A y \in S : y \in Nat /\ y <= b
    OBVIOUS
  <2>2. \A y \in S : b - y \in Nat
    BY <2>1
  <2> QED BY <2>2
<1>2. PICK t \in T : \A u \in T : t <= u
  BY <1>1, LeastElement
<1>3. PICK m \in S : t = b - m
  BY <1>2
<1>4. \A y \in S : b - m <= b - y
  BY <1>2, <1>3
<1>5. \A y \in S : m >= y
  BY <1>4
<1> QED BY <1>5 DEF Max

\* What n windows hold.
LEMMA WindowsHold ==
  ASSUME NEW n \in Nat
  PROVE  /\ Window * n \in Nat /\ NextWindow(Window * n) = n + 1
         /\ Window * n + Window = Window * (n + 1)
<1>1. Window \in Nat \ {0}
  BY Bounds
<1>2. (Window * n) \div Window = n
  BY <1>1
<1> QED BY <1>1, <1>2 DEF NextWindow

-----------------------------------------------------------------------------
(* Types. The bounds of TypeOK are not needed here.                        *)

EventT == [kind : Kinds, samples : Nat, durable : Nat]
RowT == [gen : 0..MaxGen, status : {"none", "authorized", "connected", "closed"},
         approved : Nat, consumed : Nat, seq : Nat, durable : Nat, resume : Nat,
         lease : {"live", "late", "expired", "lapsed"}]
BookT == [keys : SUBSET Windows, pending : SUBSET Windows, charge : [Windows -> Nat],
          billed : Nat \union {Unbilled}]
OwnerT == [approved : Nat, last : Nat]
StreamT == [pc : {"none", "open", "over"}, granted : Nat, resume : Nat, durable : Nat,
            sent : Nat, journal : Seq(EventT)]

Typed ==
  /\ exists \in [Sessions -> BOOLEAN]
  /\ row \in [Sessions -> RowT]
  /\ book \in [Grants -> BookT]
  /\ stored \in [Grants -> SUBSET Nat] /\ archived \in [Grants -> SUBSET Nat]
  /\ owner \in [Grants -> OwnerT]
  /\ stream \in [Grants -> StreamT]

LEMMA NothingTyped ==
  NoRow \in RowT /\ NoBook \in BookT /\ NoOwner \in OwnerT /\ NoStream \in StreamT
<1>1. <<>> \in Seq(EventT)
  BY EmptySeq
<1> QED BY <1>1, Bounds DEF NoRow, RowT, NoBook, BookT, NoOwner, OwnerT, NoStream, StreamT, Unbilled

\* A grant is a session and one of its generations.
LEMMA Parts ==
  ASSUME NEW i \in Grants
  PROVE  i[1] \in Sessions /\ i[2] \in 1..MaxGen /\ i = <<i[1], i[2]>>
BY DEF Grants

-----------------------------------------------------------------------------
(* The invariant                                                           *)

Count(b) == Cardinality(b.keys)

LEMMA CountOfNone == \A b : Count(b) > 0 => b.keys # {}
<1> SUFFICES ASSUME NEW b, Count(b) > 0, b.keys = {} PROVE FALSE
  OBVIOUS
<1>1. Count(b) = 0
  BY FS_EmptySet DEF Count
<1> QED BY <1>1

\* A journal "J" of a stream that began at "resume" and has sent "sent": its
\* counters only grow, and only finals move the watermark. What is durable
\* before its first event is where the stream began.
Mark(J, resume, k) == IF k = 0 THEN resume ELSE J[k].durable
Honest(J, resume, sent) ==
  \A k \in 1..Len(J) :
    /\ J[k].samples <= sent
    /\ resume <= J[k].durable /\ J[k].durable <= resume + J[k].samples
    /\ J[k].kind \in {"usage", "end"} => J[k].durable = Mark(J, resume, k - 1)
    /\ \A j \in 1..k : J[j].samples <= J[k].samples /\ J[j].durable <= J[k].durable

\* A stream sends no more than was granted, that was paid for; its end is its
\* last event and says what it sent.
Streaming(b, st) ==
  /\ st.sent <= st.granted /\ st.granted <= Window * Count(b)
  /\ Honest(st.journal, st.resume, st.sent)
  /\ \A k \in 1..Len(st.journal) : st.journal[k].kind = "end" =>
       k = Len(st.journal) /\ st.pc = "over" /\ st.journal[k].samples = st.sent
  /\ st.pc = "open" => /\ st.durable = Mark(st.journal, st.resume, Len(st.journal))
                       /\ st.durable <= st.resume + st.sent

Uncharged(b) == \A w \in Windows : b.charge[w] = 0

\* A generation's windows are numbered without gaps; without any it never
\* began; what is on record of it is in its journal; nothing is charged before
\* it is settled; and when it is billed nothing stays prepaid, nothing is sent
\* any more, all that was is billed and its windows add up to the bill.
Granted(b, st, kept) ==
  /\ b.keys = 1..Count(b) /\ Count(b) \in Nat
  /\ b.keys = {} => st = NoStream /\ b.billed = Unbilled /\ b.pending = {}
  /\ Streaming(b, st)
  /\ kept \subseteq 1..Len(st.journal)
  /\ b.pending # {} \/ b.keys = {} => Uncharged(b)
  /\ b.billed # Unbilled => /\ b.pending = {} /\ b.billed = st.sent /\ st.pc # "open"
                            /\ SumFunction(b.charge) = b.billed

\* The session's row, as far as it is about its current generation.
Consumed(r, J) ==
  /\ r.seq <= Len(J)
  /\ r.consumed = IF r.seq = 0 THEN 0 ELSE J[r.seq].samples
  /\ r.durable = Mark(J, r.resume, r.seq)

Running(r, b, st) ==
  /\ Count(b) > 0 /\ r.approved = Window * Count(b)
  /\ r.status # "none"
  /\ r.status = "authorized" => st = NoStream
  /\ r.status \in {"authorized", "connected"} => b.billed = Unbilled
  /\ st.pc = "open" \/ Len(st.journal) > 0 => st.resume = r.resume
  /\ Consumed(r, st.journal)

\* What a row says of generation "g": none after the current one has begun, and
\* each up to it has its owner; it stays prepaid until it is billed.
Reigns(r, g, b, o, st) ==
  /\ g > r.gen => o = NoOwner
  /\ r.gen # 0 /\ g > r.gen => b.keys = {}
  /\ g <= r.gen => /\ o.approved = Window * Count(b) /\ o.last <= Len(st.journal)
                   /\ b.billed = Unbilled => b.pending = b.keys
  /\ g = r.gen => Running(r, b, st)

\* A session begins once: its first key outlives it.
BeginsOnce(s) ==
  book[<<s, 1>>].keys = {} =>
    row[s].gen = 0 /\ \A g \in 1..MaxGen : book[<<s, g>>].keys = {}

Sound ==
  /\ Typed
  /\ \A i \in Grants : /\ Granted(book[i], stream[i], Evidence(i))
                       /\ Reigns(row[i[1]], i[2], book[i], owner[i], stream[i])
  /\ \A s \in Sessions : /\ row[s].gen = 0 => row[s] = NoRow
                         /\ MaxGen > 0 => BeginsOnce(s)

LEMMA InitSound == Init => Sound
<1> SUFFICES ASSUME Init PROVE Sound
  OBVIOUS
<1>1. Typed
  BY NothingTyped DEF Init, Typed
<1>2. Count(NoBook) = 0 /\ NoBook.keys = {}
  BY FS_EmptySet DEF Count, NoBook
<1>3. Len(NoStream.journal) = 0 /\ Window * 0 = 0
  BY EmptySeq, Bounds DEF NoStream
<1>4. Streaming(NoBook, NoStream)
  BY <1>2, <1>3 DEF Streaming, Honest, NoStream
<1>5. Granted(NoBook, NoStream, {})
  <2>1. Uncharged(NoBook) /\ Uncharged(NoBook) = TRUE
    BY DEF Uncharged, NoBook
  <2> QED BY <1>2, <1>4, <2>1 DEF Granted, NoBook
<1>6. \A g \in 1..MaxGen : Reigns(NoRow, g, NoBook, NoOwner, NoStream)
  BY Bounds DEF Reigns, NoRow
<1>7. \A i \in Grants : Evidence(i) = {}
  BY DEF Init, Evidence
<1>8. \A s \in Sessions : MaxGen > 0 => BeginsOnce(s)
  BY <1>2, Bounds DEF Init, BeginsOnce, NoRow, Grants
<1>9. \A s \in Sessions : row[s] = NoRow
  BY DEF Init
<1> QED BY <1>1, <1>5, <1>6, <1>7, <1>8, <1>9, Parts DEF Init, Sound

-----------------------------------------------------------------------------
(* Steps about one generation                                              *)

\* A step that touches one generation, and the session's row only when it is
\* the current one, keeps the invariant when it does so for that generation.
LEMMA OneGrant ==
  ASSUME Sound, Typed', NEW i \in Grants,
         \A s \in Sessions : s # i[1] => row'[s] = row[s],
         row'[i[1]].gen = row[i[1]].gen,
         i[2] = row[i[1]].gen \/ row'[i[1]] = row[i[1]],
         \A j \in Grants : j # i => /\ book'[j] = book[j] /\ owner'[j] = owner[j]
                                    /\ stream'[j] = stream[j]
                                    /\ stored'[j] = stored[j] /\ archived'[j] = archived[j],
         Granted(book'[i], stream'[i], stored'[i] \union archived'[i]),
         Reigns(row'[i[1]], i[2], book'[i], owner'[i], stream'[i]),
         book'[i].keys = {} <=> book[i].keys = {}
  PROVE  Sound'
<1>1. ASSUME NEW j \in Grants
      PROVE  /\ Granted(book'[j], stream'[j], stored'[j] \union archived'[j])
             /\ Reigns(row'[j[1]], j[2], book'[j], owner'[j], stream'[j])
  <2>1. CASE j = i
    BY <2>1
  <2>2. CASE j # i
    <3>1. Granted(book'[j], stream'[j], stored'[j] \union archived'[j])
      BY <2>2 DEF Sound, Evidence
    <3>2. Reigns(row[j[1]], j[2], book'[j], owner'[j], stream'[j])
      BY <2>2 DEF Sound
    <3>3. CASE row'[j[1]] = row[j[1]]
      BY <3>1, <3>2, <3>3
    <3>4. CASE row'[j[1]] # row[j[1]]
      <4>1. j[1] = i[1] /\ i[2] = row[i[1]].gen /\ j[2] # i[2]
        BY <2>2, <3>4, Parts
      <4> QED BY <3>1, <3>2, <4>1 DEF Reigns
    <3> QED BY <3>3, <3>4
  <2> QED BY <2>1, <2>2
<1>2. ASSUME NEW s \in Sessions, MaxGen > 0 PROVE BeginsOnce(s)'
  <2>1. \A g \in 1..MaxGen : <<s, g>> \in Grants
    BY DEF Grants
  <2>2. \A j \in Grants : book'[j].keys = {} <=> book[j].keys = {}
    OBVIOUS
  <2>3. row'[s].gen = row[s].gen
    OBVIOUS
  <2>4. 1 \in 1..MaxGen
    BY <1>2, Bounds
  <2> QED BY <1>2, <2>1, <2>2, <2>3, <2>4 DEF Sound, BeginsOnce
<1>3. ASSUME NEW s \in Sessions, row'[s].gen = 0 PROVE row'[s] = NoRow
  <2>1. row'[s] = row[s]
    BY <1>3, Parts
  <2> QED BY <1>3, <2>1 DEF Sound
<1> QED BY <1>1, <1>2, <1>3 DEF Sound, Evidence

\* What is known of a current generation.
LEMMA CurrentOf ==
  ASSUME Sound, NEW s \in Sessions, row[s].gen # 0
  PROVE  /\ Current(s) \in Grants /\ Current(s) = <<s, row[s].gen>>
         /\ Current(s)[1] = s /\ Current(s)[2] = row[s].gen
         /\ Running(row[s], book[Current(s)], stream[Current(s)])
         /\ Granted(book[Current(s)], stream[Current(s)], Evidence(Current(s)))
         /\ owner[Current(s)].approved = row[s].approved
         /\ owner[Current(s)].last <= Len(Journal(Current(s)))
         /\ book[Current(s)].billed = Unbilled => book[Current(s)].pending = book[Current(s)].keys
<1>1. row[s] \in RowT
  BY DEF Sound, Typed
<1>2. row[s].gen \in 1..MaxGen
  BY <1>1, Bounds DEF RowT
<1>3. Current(s) \in Grants /\ Current(s)[1] = s /\ Current(s)[2] = row[s].gen
  BY <1>2 DEF Current, Grants
<1>4. Reigns(row[s], row[s].gen, book[Current(s)], owner[Current(s)], stream[Current(s)])
  BY <1>3 DEF Sound
<1>5. row[s].gen <= row[s].gen
  BY <1>2
<1> QED BY <1>3, <1>4, <1>5 DEF Current, Sound, Reigns, Running, Journal

\* The row and its owner are written together.
LEMMA Written ==
  ASSUME Typed, NEW s \in Sessions, NEW r \in RowT, r.gen \in 1..MaxGen, Write(s, r)
  PROVE  /\ row' \in [Sessions -> RowT] /\ owner' \in [Grants -> OwnerT]
         /\ \A t \in Sessions : row'[t] = IF t = s THEN r ELSE row[t]
         /\ \A j \in Grants : j # <<s, r.gen>> => owner'[j] = owner[j]
         /\ owner'[<<s, r.gen>>].approved = Larger(owner[<<s, r.gen>>].approved, r.approved)
         /\ owner'[<<s, r.gen>>].last = Larger(owner[<<s, r.gen>>].last, r.seq)
<1> DEFINE j == <<s, r.gen>>
           o == [approved |-> Larger(owner[j].approved, r.approved),
                 last |-> Larger(owner[j].last, r.seq)]
<1>1. j \in Grants
  BY DEF Grants
<1>2. owner[j] \in OwnerT /\ r.approved \in Nat /\ r.seq \in Nat
  BY <1>1 DEF Typed, RowT
<1>3. o \in OwnerT
  BY <1>2 DEF OwnerT, Larger
<1>4. row' = [row EXCEPT ![s] = r] /\ owner' = [owner EXCEPT ![j] = o]
  BY DEF Write
<1> HIDE DEF j
<1> QED BY <1>1, <1>3, <1>4 DEF Typed, j

\* The current generation's row changes, what was granted and applied grows.
LEMMA RowWritten ==
  ASSUME Sound, NEW s \in Sessions, row[s].gen # 0, NEW r \in RowT, r.gen = row[s].gen,
         Write(s, r), row[s].approved <= r.approved
  PROVE  /\ row' \in [Sessions -> RowT] /\ owner' \in [Grants -> OwnerT]
         /\ \A t \in Sessions : row'[t] = IF t = s THEN r ELSE row[t]
         /\ \A j \in Grants : j # Current(s) => owner'[j] = owner[j]
         /\ owner'[Current(s)].approved = r.approved
         /\ owner'[Current(s)].last \in {owner[Current(s)].last, r.seq}
<1>1. Typed /\ row[s].gen \in 1..MaxGen /\ row[s] \in RowT
  <2>1. Typed /\ row[s] \in RowT
    BY DEF Sound, Typed
  <2> QED BY <2>1, Bounds DEF RowT
<1>2. Current(s) = <<s, r.gen>>
  BY DEF Current
<1>3. owner[Current(s)].approved = row[s].approved
  BY CurrentOf
<1>4. row[s].approved \in Nat /\ r.approved \in Nat
  BY <1>1 DEF RowT
<1> QED BY <1>1, <1>2, <1>3, <1>4, Written DEF Larger

\* A call for the current generation.
LEMMA RowStep ==
  ASSUME Sound, NEW s \in Sessions, row[s].gen # 0, NEW r \in RowT, r.gen = row[s].gen,
         Write(s, r), row[s].approved <= r.approved, UNCHANGED <<exists, archived>>,
         NEW b \in BookT, NEW st \in StreamT, NEW sto \in SUBSET Nat,
         book' = [book EXCEPT ![Current(s)] = b],
         stream' = [stream EXCEPT ![Current(s)] = st],
         stored' = [stored EXCEPT ![Current(s)] = sto],
         Len(Journal(Current(s))) <= Len(st.journal), Len(st.journal) \in Nat,
         Granted(b, st, sto \union archived[Current(s)]), Running(r, b, st),
         b.billed = Unbilled => b.pending = b.keys
  PROVE  Sound'
<1> DEFINE i == Current(s)
<1>1. /\ i \in Grants /\ i[1] = s /\ i[2] = row[s].gen
      /\ Running(row[s], book[i], stream[i]) /\ owner[i].last <= Len(Journal(i))
  BY CurrentOf
<1>2. /\ row' \in [Sessions -> RowT] /\ owner' \in [Grants -> OwnerT]
      /\ \A t \in Sessions : row'[t] = IF t = s THEN r ELSE row[t]
      /\ \A j \in Grants : j # i => owner'[j] = owner[j]
      /\ owner'[i].approved = r.approved
      /\ owner'[i].last \in {owner[i].last, r.seq}
  BY RowWritten
<1>3. Typed
  BY DEF Sound
<1>4. /\ book' \in [Grants -> BookT] /\ stream' \in [Grants -> StreamT]
      /\ stored' \in [Grants -> SUBSET Nat]
      /\ \A j \in Grants : /\ book'[j] = IF j = i THEN b ELSE book[j]
                           /\ stream'[j] = IF j = i THEN st ELSE stream[j]
                           /\ stored'[j] = IF j = i THEN sto ELSE stored[j]
                           /\ archived'[j] = archived[j]
  BY <1>1, <1>3 DEF Typed
<1>5. Typed'
  BY <1>2, <1>3, <1>4 DEF Typed
<1>6. Reigns(r, i[2], b, owner'[i], st)
  <2>1. i[2] = r.gen /\ r.gen \in Nat
    BY <1>1, Bounds DEF RowT
  <2>2. owner'[i].approved = Window * Count(b) /\ r.seq <= Len(st.journal)
    BY <1>2 DEF Running, Consumed
  <2>3. owner[i].last \in Nat /\ r.seq \in Nat /\ Len(Journal(i)) \in Nat
    <3>1. stream[i] \in StreamT /\ owner[i] \in OwnerT
      BY <1>1, <1>3 DEF Typed
    <3> QED BY <3>1, LenProperties DEF StreamT, OwnerT, RowT, Journal
  <2>4. owner'[i].last <= Len(st.journal)
    BY <1>1, <1>2, <2>2, <2>3
  <2> QED BY <2>1, <2>2, <2>4 DEF Reigns
<1>7. b.keys = {} <=> book[i].keys = {}
  <2>1. Count(b) > 0 /\ Count(book[i]) > 0
    BY <1>1 DEF Running
  <2> QED BY <2>1, CountOfNone
<1>8. /\ row'[i[1]] = r /\ row'[i[1]].gen = row[i[1]].gen /\ i[2] = row[i[1]].gen
      /\ \A t \in Sessions : t # i[1] => row'[t] = row[t]
  BY <1>1, <1>2
<1>9. \A j \in Grants : j # i => /\ book'[j] = book[j] /\ owner'[j] = owner[j]
                                 /\ stream'[j] = stream[j]
                                 /\ stored'[j] = stored[j] /\ archived'[j] = archived[j]
  BY <1>2, <1>4
<1>10. Granted(book'[i], stream'[i], stored'[i] \union archived'[i])
  BY <1>1, <1>4
<1>11. Reigns(row'[i[1]], i[2], book'[i], owner'[i], stream'[i])
  BY <1>1, <1>4, <1>6, <1>8
<1>12. book'[i].keys = {} <=> book[i].keys = {}
  BY <1>1, <1>4, <1>7
<1> HIDE DEF i
<1> QED BY <1>1, <1>5, <1>8, <1>9, <1>10, <1>11, <1>12, OneGrant

\* What a step writes back unchanged.
LEMMA WrittenBack ==
  ASSUME NEW G, NEW T, NEW f \in [G -> T], NEW i \in G
  PROVE  [f EXCEPT ![i] = f[i]] = f
OBVIOUS

\* The parts of a generation's state have their types.
LEMMA GrantTyped ==
  ASSUME Sound, NEW i \in Grants
  PROVE  /\ book[i] \in BookT /\ stream[i] \in StreamT /\ owner[i] \in OwnerT
         /\ stored[i] \in SUBSET Nat /\ archived[i] \in SUBSET Nat
         /\ Journal(i) \in Seq(EventT) /\ Len(Journal(i)) \in Nat
         /\ DOMAIN Journal(i) = 1..Len(Journal(i)) /\ Events(i) = 1..Len(Journal(i))
         /\ \A k \in 1..Len(Journal(i)) : Journal(i)[k] \in EventT
         /\ book = [book EXCEPT ![i] = book[i]] /\ stream = [stream EXCEPT ![i] = stream[i]]
         /\ stored = [stored EXCEPT ![i] = stored[i]]
<1>1. /\ book[i] \in BookT /\ stream[i] \in StreamT /\ owner[i] \in OwnerT
      /\ stored[i] \in SUBSET Nat /\ archived[i] \in SUBSET Nat
  BY DEF Sound, Typed
<1>2. Journal(i) \in Seq(EventT)
  BY <1>1 DEF StreamT, Journal
<1>3. Len(Journal(i)) \in Nat /\ DOMAIN Journal(i) = 1..Len(Journal(i))
  BY <1>2, LenProperties
<1>4. \A k \in 1..Len(Journal(i)) : Journal(i)[k] \in EventT
  BY <1>2, ElementOfSeq
<1>5. /\ book = [book EXCEPT ![i] = book[i]] /\ stream = [stream EXCEPT ![i] = stream[i]]
      /\ stored = [stored EXCEPT ![i] = stored[i]]
  BY WrittenBack DEF Sound, Typed
<1> QED BY <1>1, <1>2, <1>3, <1>4, <1>5 DEF Events

\* A session that is open has begun.
LEMMA Begun ==
  ASSUME Sound, NEW s \in Sessions, row[s].status # "none"
  PROVE  row[s].gen # 0 /\ row[s] \in RowT
BY DEF Sound, Typed, NoRow

\* Stream that opens, or whose opening is not heard of.
LEMMA ConnectSound ==
  ASSUME Sound, NEW s \in Sessions, Connect(s)
  PROVE  Sound'
<1> DEFINE i == Current(s)
           b == book[i]
           r == [row[s] EXCEPT !.status = "connected"]
           opened == [NoStream EXCEPT !.pc = "open", !.granted = row[s].approved,
                                      !.resume = row[s].resume, !.durable = row[s].durable]
           lost == [NoStream EXCEPT !.pc = "over"]
<1>1. row[s].gen # 0 /\ row[s] \in RowT
  BY Begun DEF Connect
<1>2. /\ i \in Grants /\ Running(row[s], b, stream[i]) /\ Granted(b, stream[i], Evidence(i))
      /\ b.billed = Unbilled => b.pending = b.keys
  BY <1>1, CurrentOf
<1>3. stream[i] = NoStream /\ b.billed = Unbilled /\ Count(b) \in Nat /\ Count(b) > 0
      /\ row[s].approved = Window * Count(b)
  BY <1>2 DEF Connect, Running, Granted
<1>4. Len(<<>>) = 0 /\ NoStream.journal = <<>>
  BY EmptySeq DEF NoStream
<1>5. row[s].seq = 0 /\ row[s].consumed = 0 /\ row[s].durable = row[s].resume
  <2>1. row[s].seq <= 0 /\ row[s].seq \in Nat
    BY <1>1, <1>2, <1>3, <1>4 DEF Running, Consumed, RowT
  <2>2. row[s].seq = 0
    BY <2>1
  <2> QED BY <1>2, <2>2 DEF Running, Consumed, Mark
<1>6. r \in RowT /\ r.gen = row[s].gen /\ r.approved = row[s].approved /\ r.seq = 0
      /\ r.consumed = 0 /\ r.durable = r.resume /\ r.resume = row[s].resume /\ r.status = "connected"
  BY <1>1, <1>5 DEF RowT
<1>7. Evidence(i) = {} /\ b.keys # {}
  <2>1. Evidence(i) \subseteq 1..0
    BY <1>2, <1>3, <1>4 DEF Granted
  <2>2. b.keys # {}
    BY <1>3, CountOfNone
  <2> QED BY <2>1, <2>2
<1>8. \A st \in {opened, lost} : st \in StreamT /\ st.journal = <<>> /\ st.pc # "none" /\ st.sent = 0
  BY <1>1, <1>4, NothingTyped DEF StreamT, RowT, NoStream
<1>9. \A st \in {opened, lost} : st.granted \in {0, row[s].approved}
  BY DEF NoStream
<1>10. opened.durable = opened.resume /\ opened.resume = row[s].resume /\ lost.pc = "over"
  BY <1>5 DEF NoStream
<1>11. ASSUME NEW st \in {opened, lost}
       PROVE  Granted(b, st, Evidence(i)) /\ Running(r, b, st)
  <2>1. Len(st.journal) = 0 /\ st \in StreamT
    BY <1>4, <1>8
  <2>2. row[s].approved \in Nat /\ row[s].resume \in Nat
    BY <1>1 DEF RowT
  <2>3. st.sent <= st.granted /\ st.granted <= Window * Count(b)
    <3>1. st.sent = 0 /\ st.granted \in {0, row[s].approved} /\ Window * Count(b) = row[s].approved
      BY <1>3, <1>8, <1>9
    <3> QED BY <2>2, <3>1
  <2>4. Honest(st.journal, st.resume, st.sent)
    BY <2>1 DEF Honest
  <2>5. st.pc = "open" => st.resume = row[s].resume /\ st.durable = st.resume
    BY <1>10
  <2>6. ASSUME st.pc = "open"
        PROVE  st.durable = Mark(st.journal, st.resume, Len(st.journal))
               /\ st.durable <= st.resume + st.sent
    <3>1. Mark(st.journal, st.resume, Len(st.journal)) = st.resume
      BY <2>1 DEF Mark
    <3>2. st.resume \in Nat /\ st.durable = st.resume /\ st.sent = 0
      BY <1>8, <2>2, <2>5, <2>6
    <3> QED BY <3>1, <3>2
  <2> HIDE DEF opened, lost
  <2>7. Streaming(b, st)
    BY <2>1, <2>3, <2>4, <2>6 DEF Streaming
  <2>8. Granted(b, st, Evidence(i))
    BY <1>2, <1>3, <1>7, <2>7 DEF Granted
  <2>9. Consumed(r, st.journal)
    BY <1>6, <2>1 DEF Consumed, Mark
  <2>10. Running(r, b, st)
    BY <1>3, <1>6, <2>1, <2>5, <2>9 DEF Running
  <2> QED BY <2>8, <2>10
<1>12. PICK st \in {opened, lost} : stream' = [stream EXCEPT ![i] = st]
  BY DEF Connect
<1>13. Write(s, r) /\ UNCHANGED <<exists, book, stored, archived>>
  BY DEF Connect
<1>14. Granted(b, st, Evidence(i)) /\ Running(r, b, st) /\ st \in StreamT /\ Len(st.journal) = 0
  BY <1>4, <1>8, <1>11
<1>15. Len(Journal(i)) = 0 /\ row[s].approved <= r.approved
  BY <1>1, <1>3, <1>4, <1>6 DEF Journal, RowT
<1>16. /\ b \in BookT /\ stored[i] \in SUBSET Nat /\ book' = [book EXCEPT ![i] = b]
       /\ stored' = [stored EXCEPT ![i] = stored[i]] /\ archived' = archived
  BY <1>2, <1>13, GrantTyped
<1>17. Granted(b, st, stored[i] \union archived[i])
  BY <1>14 DEF Evidence
<1>18. Len(Journal(i)) <= Len(st.journal) /\ Len(st.journal) \in Nat /\ exists' = exists
  BY <1>13, <1>14, <1>15
<1> HIDE DEF r, opened, lost, b
<1> QED BY <1>1, <1>2, <1>6, <1>12, <1>13, <1>14, <1>15, <1>16, <1>17, <1>18, RowStep

-----------------------------------------------------------------------------
(* Windows and settlements                                                 *)

\* A window more.
LEMMA AnotherWindow ==
  ASSUME NEW b \in BookT, b.keys = 1..Count(b), Count(b) \in Nat, Count(b) + 1 \in Windows
  PROVE  LET next == WithWindow(b, Count(b) + 1) IN
         /\ next \in BookT /\ Count(next) = Count(b) + 1 /\ next.keys = 1..Count(next)
         /\ next.billed = b.billed /\ next.pending = b.pending \union {Count(b) + 1}
         /\ Uncharged(b) => Uncharged(next)
<1> DEFINE n == Count(b)
           next == WithWindow(b, n + 1)
<1>1. next \in BookT /\ next.keys = b.keys \union {n + 1}
      /\ next.billed = b.billed /\ next.pending = b.pending \union {n + 1}
  BY DEF WithWindow, BookT
<1>2. b.keys \union {n + 1} = 1..(n + 1)
  <2> HIDE DEF n
  <2>1. n \in Nat => (1..n) \union {n + 1} = 1..(n + 1)
    OBVIOUS
  <2> QED BY <2>1 DEF n
<1>3. Cardinality(1..(n + 1)) = n + 1
  <2>1. 1 \in Int /\ n + 1 \in Int /\ ~(1 > n + 1)
    OBVIOUS
  <2>2. Cardinality(1..(n + 1)) = (n + 1) - 1 + 1
    BY <2>1, FS_Interval
  <2> QED BY <2>2
<1>4. Count(next) = n + 1
  BY <1>1, <1>2, <1>3 DEF Count
<1>5. Uncharged(b) => Uncharged(next)
  BY DEF WithWindow, BookT, Uncharged
<1> QED BY <1>1, <1>2, <1>4, <1>5

\* A settlement keeps the keys, leaves nothing prepaid, and bills once.
LEMMA SettledIs ==
  ASSUME NEW b \in BookT, NEW billable \in Nat
  PROVE  LET end == Settled(b, billable) IN
         /\ end \in BookT /\ end.keys = b.keys /\ Count(end) = Count(b) /\ end.pending = {}
         /\ end.billed = IF b.billed = Unbilled THEN billable ELSE b.billed
<1>1. \A w \in Windows : Share(b, w, billable) \in Nat
  <2> SUFFICES ASSUME NEW w \in Windows PROVE Share(b, w, billable) \in Nat
    OBVIOUS
  <2> DEFINE before == Window * Cardinality({v \in b.pending : v < w})
  <2>1. {v \in b.pending : v < w} \subseteq 1..MaxWindows
    BY DEF BookT, Windows
  <2>2. IsFiniteSet(1..MaxWindows)
    BY Bounds, FS_Interval
  <2>3. Cardinality({v \in b.pending : v < w}) \in Nat
    BY <2>1, <2>2, FS_Subset, FS_CardinalityType
  <2>4. before \in Nat
    BY <2>3, Bounds
  <2> HIDE DEF before
  <2>5. Larger(billable - before, 0) \in Nat
    BY <2>4 DEF Larger
  <2> QED BY <2>5, Bounds DEF Share, Smaller, before
<1>2. \A w \in Windows : b.charge[w] \in Nat
  BY DEF BookT
<1>3. [w \in Windows |-> IF w \in b.pending THEN Share(b, w, billable) ELSE b.charge[w]]
        \in [Windows -> Nat]
  BY <1>1, <1>2
<1> DEFINE charge == [w \in Windows |-> IF w \in b.pending THEN Share(b, w, billable) ELSE b.charge[w]]
<1>4. Settled(b, billable) = [b EXCEPT !.charge = charge, !.pending = {},
                                       !.billed = IF @ = Unbilled THEN billable ELSE @]
  BY DEF Settled
<1> HIDE DEF charge
<1>5. charge \in [Windows -> Nat]
  BY <1>3 DEF charge
<1>6. /\ Settled(b, billable) \in BookT /\ Settled(b, billable).keys = b.keys
      /\ Settled(b, billable).pending = {}
      /\ Settled(b, billable).billed = IF b.billed = Unbilled THEN billable ELSE b.billed
  BY <1>4, <1>5 DEF BookT
<1> QED BY <1>6 DEF Count

\* A stream keeps its state when its generation gets more windows or its bill.
LEMMA StillStreaming ==
  ASSUME NEW b, NEW next, NEW st \in StreamT, Streaming(b, st),
         Count(b) \in Nat, Count(next) \in Nat, Count(b) <= Count(next)
  PROVE  Streaming(next, st)
<1>1. Window * Count(b) \in Nat /\ Window * Count(next) \in Nat
      /\ Window * Count(b) <= Window * Count(next)
  BY Bounds
<1>2. st.granted \in Nat
  BY DEF StreamT
<1> QED BY <1>1, <1>2 DEF Streaming

\* The windows of a settlement add up to the bill: each takes what those before
\* it left, and together they hold it.
LEMMA ChargesAddUp ==
  ASSUME NEW b \in BookT, b.keys = 1..Count(b), Count(b) \in Nat, b.pending = b.keys,
         Uncharged(b), NEW billable \in Nat, billable <= Window * Count(b)
  PROVE  SumFunction(Settled(b, billable).charge) = billable
<1> DEFINE n == Count(b)
           S == b.pending
           has == [w \in S |-> Window]
           ahead == [w \in S |-> {v \in S : v < w}]
           charge == Settled(b, billable).charge
<1>1. /\ IsFiniteSet(Windows) /\ S \subseteq Windows /\ IsFiniteSet(S) /\ S = 1..n
      /\ S \in SUBSET S /\ S \in SUBSET Windows
  <2>1. IsFiniteSet(1..MaxWindows)
    BY Bounds, FS_Interval
  <2> QED BY <2>1, FS_Subset DEF Windows, BookT
<1>2. charge = [w \in Windows |-> IF w \in S THEN Share(b, w, billable) ELSE b.charge[w]]
  BY DEF Settled, BookT
<1>3. \A w \in Windows : w \notin S => charge[w] = 0
  BY <1>2 DEF Uncharged
<1>4. Ranked(S, ahead)
  <2> HIDE DEF n
  <2>1. \A w \in S : w \in Nat
    BY <1>1 DEF Windows
  <2>2. \A x, y \in S : x = y \/ x < y \/ y < x
    BY <2>1
  <2>3. \A x, y, z \in S : x < y /\ y < z => x < z
    BY <2>1
  <2>4. \A x \in S : ~(x < x)
    BY <2>1
  <2> HIDE DEF S
  <2> QED BY <2>2, <2>3, <2>4 DEF Ranked
<1>5. \A w \in S : SumFunctionOnSet(has, ahead[w]) = Window * Cardinality(ahead[w])
                  /\ SumFunctionOnSet(has, ahead[w]) \in Nat
  <2> SUFFICES ASSUME NEW w \in S
               PROVE  SumFunctionOnSet(has, ahead[w]) = Window * Cardinality(ahead[w])
                      /\ SumFunctionOnSet(has, ahead[w]) \in Nat
    OBVIOUS
  <2>1. ahead[w] \subseteq S /\ IsFiniteSet(ahead[w])
    BY <1>1, FS_Subset
  <2> HIDE DEF ahead, S
  <2>2. \A v \in ahead[w] : has[v] = Window
    BY <2>1
  <2>3. Window \in Int
    BY Bounds
  <2> HIDE DEF has
  <2>4. Cardinality(ahead[w]) \in Nat /\ SumFunctionOnSet(has, ahead[w]) = Window * Cardinality(ahead[w])
    BY <2>1, <2>2, <2>3, SumConstant
  <2> QED BY <2>4, Bounds
<1>6. \A w \in S : charge[w] = Gives(has, ahead, billable, w)
  <2> SUFFICES ASSUME NEW w \in S PROVE charge[w] = Gives(has, ahead, billable, w)
    OBVIOUS
  <2> DEFINE before == SumFunctionOnSet(has, ahead[w])
  <2>1. charge[w] = Share(b, w, billable) /\ has[w] = Window
    BY <1>1, <1>2
  <2>2. {v \in b.pending : v < w} = ahead[w]
    OBVIOUS
  <2>3. before = Window * Cardinality(ahead[w]) /\ before \in Nat
    BY <1>5
  <2> HIDE DEF before, ahead, has, charge
  <2>4. charge[w] = Smaller(Larger(billable - before, 0), Window)
    BY <2>1, <2>2, <2>3 DEF Share
  <2>5. Gives(has, ahead, billable, w)
          = LET left == IF billable <= before THEN 0 ELSE billable - before
            IN  IF has[w] <= left THEN has[w] ELSE left
    BY DEF Gives, before
  <2> HIDE DEF S
  <2> QED BY <2>1, <2>3, <2>4, <2>5, Bounds DEF Smaller, Larger
<1>7. \A w \in S : has[w] \in Nat /\ has[w] = Window /\ ahead[w] \subseteq S
  BY Bounds
<1>8. SumFunctionOnSet(has, S) = Window * n
  <2>1. Cardinality(S) = n
    BY DEF Count
  <2>2. Window \in Int
    BY Bounds
  <2> HIDE DEF S, has, ahead, n
  <2> QED BY <1>1, <1>7, <2>1, <2>2, SumConstant
<1>9. SumFunctionOnSet(charge, S) = billable
  <2> HIDE DEF S, has, ahead, n, charge
  <2>1. SumFunctionOnSet(charge, S)
          = IF billable <= SumFunctionOnSet(has, S) THEN billable ELSE SumFunctionOnSet(has, S)
    <3>1. S \in SUBSET S /\ \A w \in S : ahead[w] \subseteq S
      BY <1>7
    <3>2. \A w \in S : has[w] \in Nat
      BY <1>7
    <3>3. Taking(S, ahead, has, billable, charge)
      BY <1>1, <1>4, <1>6, <3>2 DEF Taking
    <3> QED BY <3>1, <3>3, TakenInAll
  <2> QED BY <1>8, <2>1 DEF n
<1>10. \A w \in Windows : charge[w] \in Int
  <2>1. charge \in [Windows -> Nat]
    BY SettledIs DEF BookT
  <2> HIDE DEF charge
  <2> QED BY <2>1
<1>11. SumFunctionOnSet(charge, Windows) = SumFunctionOnSet(charge, S)
  <2> HIDE DEF S, charge
  <2> QED BY <1>1, <1>3, <1>10, SumPart
<1>12. DOMAIN charge = Windows
  BY <1>2
<1> QED BY <1>9, <1>11, <1>12 DEF SumFunction

\* A generation that has what was sent on its bill.
LEMMA GrantedSettled ==
  ASSUME NEW b \in BookT, NEW st \in StreamT, NEW kept, Granted(b, st, kept),
         b.keys # {}, b.pending = b.keys, b.billed = Unbilled, NEW billable \in Nat, billable = st.sent, st.pc # "open"
  PROVE  Granted(Settled(b, billable), st, kept)
<1> DEFINE end == Settled(b, billable)
<1>1. /\ end \in BookT /\ end.keys = b.keys /\ Count(end) = Count(b) /\ end.pending = {}
      /\ end.billed = billable
  BY SettledIs
<1>2. Count(b) \in Nat /\ Streaming(b, st)
  BY DEF Granted
<1> HIDE DEF end
<1>3. Streaming(end, st)
  BY <1>1, <1>2, StillStreaming
<1>4. SumFunction(end.charge) = billable
  <2>1. billable <= Window * Count(b)
    <3>1. st.sent <= st.granted /\ st.granted <= Window * Count(b)
      BY <1>2 DEF Streaming
    <3>2. st.sent \in Nat /\ st.granted \in Nat /\ Window * Count(b) \in Nat
      BY <1>2, Bounds DEF StreamT
    <3> QED BY <3>1, <3>2
  <2>2. Uncharged(b) /\ b.keys = 1..Count(b)
    BY DEF Granted
  <2> QED BY <1>2, <2>1, <2>2, ChargesAddUp DEF end
<1>5. end.pending = {} /\ end.keys # {}
  BY <1>1
<1>6. Granted(end, st, kept)
  BY <1>1, <1>3, <1>4, <1>5 DEF Granted
<1> QED BY <1>6 DEF end

\* An unused grant.
LEMMA UntouchedIs ==
  ASSUME Sound, NEW s \in Sessions, Untouched(s)
  PROVE  LET i == Current(s)
             end == Settled(book[i], 0)
         IN /\ row[s].gen # 0 /\ stream[i] = NoStream /\ book[i].billed = Unbilled
            /\ end \in BookT /\ end.keys = book[i].keys /\ end.billed # Unbilled
            /\ Count(end) = Count(book[i]) /\ Granted(end, stream[i], Evidence(i))
<1> DEFINE i == Current(s)
<1>1. row[s].gen # 0 /\ row[s].status = "authorized"
  BY Begun DEF Untouched
<1>2. i \in Grants /\ Running(row[s], book[i], stream[i]) /\ Granted(book[i], stream[i], Evidence(i))
  BY <1>1, CurrentOf
<1>3. stream[i] = NoStream /\ book[i].billed = Unbilled /\ Count(book[i]) > 0
  BY <1>1, <1>2 DEF Running
<1>4. book[i].keys # {} /\ book[i] \in BookT /\ stream[i] \in StreamT
      /\ book[i].pending = book[i].keys
  BY <1>1, <1>2, <1>3, CountOfNone, GrantTyped, CurrentOf
<1>5. stream[i].sent = 0 /\ stream[i].pc = "none"
  BY <1>3 DEF NoStream
<1>6. Settled(book[i], 0).billed = 0 /\ 0 # Unbilled
  BY <1>3, <1>4, SettledIs DEF Unbilled
<1> HIDE DEF i
<1> QED BY <1>1, <1>2, <1>3, <1>4, <1>5, <1>6, SettledIs, GrantedSettled DEF i

\* What a fence leaves of a generation.
LEMMA FencedIs ==
  ASSUME Sound, NEW s \in Sessions, row[s].gen # 0
  PROVE  LET i == Current(s) IN
         /\ Fenced(s) \in BookT /\ Fenced(s).keys = book[i].keys /\ Count(Fenced(s)) = Count(book[i])
         /\ Granted(Fenced(s), stream[i], Evidence(i))
         /\ Fenced(s).billed = Unbilled => Fenced(s).pending = Fenced(s).keys
<1> DEFINE i == Current(s)
<1>1. i \in Grants /\ Granted(book[i], stream[i], Evidence(i))
      /\ (book[i].billed = Unbilled => book[i].pending = book[i].keys)
  BY CurrentOf
<1>2. CASE Untouched(s)
  BY <1>2, UntouchedIs DEF Fenced
<1>3. CASE ~Untouched(s)
  BY <1>1, <1>3, GrantTyped DEF Fenced
<1> QED BY <1>2, <1>3

\* A row that is closed, its generation settled or left prepaid.
LEMMA CloseSound ==
  ASSUME Sound, NEW s \in Sessions, row[s].gen # 0, row[s].status # "none", Closed(s),
         NEW b \in BookT, book' = [book EXCEPT ![Current(s)] = b], Count(b) = Count(book[Current(s)]),
         Granted(b, stream[Current(s)], Evidence(Current(s))),
         b.billed = Unbilled => b.pending = b.keys,
         UNCHANGED <<exists, stored, archived, stream>>
  PROVE  Sound'
<1> DEFINE i == Current(s)
           r == [row[s] EXCEPT !.status = "closed"]
<1>1. /\ i \in Grants /\ Running(row[s], book[i], stream[i])
  BY CurrentOf
<1>2. row[s] \in RowT
  BY DEF Sound, Typed
<1>3. /\ r \in RowT /\ r.gen = row[s].gen /\ r.approved = row[s].approved /\ r.seq = row[s].seq
      /\ r.consumed = row[s].consumed /\ r.durable = row[s].durable /\ r.resume = row[s].resume
      /\ r.status = "closed" /\ row[s].approved <= r.approved
  BY <1>2 DEF RowT
<1>4. Write(s, r)
  BY DEF Closed
<1>5. stream[i] \in StreamT /\ stored[i] \in SUBSET Nat /\ Len(Journal(i)) \in Nat
      /\ stream' = [stream EXCEPT ![i] = stream[i]] /\ stored' = [stored EXCEPT ![i] = stored[i]]
  BY <1>1, GrantTyped
<1> HIDE DEF r
<1>6. Running(r, b, stream[i])
  BY <1>1, <1>3 DEF Running, Consumed
<1>7. Granted(b, stream[i], stored[i] \union archived[i])
  BY DEF Evidence
<1>8. Len(Journal(i)) <= Len(stream[i].journal) /\ Len(stream[i].journal) \in Nat
  BY <1>5 DEF Journal
<1> HIDE DEF i
<1> QED BY <1>1, <1>3, <1>4, <1>5, <1>6, <1>7, <1>8, RowStep DEF i

LEMMA ReapSound ==
  ASSUME Sound, NEW s \in Sessions, Reap(s) \/ Cancel(s)
  PROVE  Sound'
<1>1. row[s].status # "none" /\ row[s].gen # 0 /\ Closed(s)
      /\ UNCHANGED <<exists, stored, archived, stream>>
  BY Begun DEF Reap, Cancel, Open, Untouched
<1>2. Current(s) \in Grants
  BY <1>1, CurrentOf
<1>3. CASE Reap(s)
  <2>1. book' = [book EXCEPT ![Current(s)] = Fenced(s)]
    BY <1>3 DEF Reap
  <2> QED BY <1>1, <2>1, FencedIs, CloseSound
<1>4. CASE Cancel(s)
  <2>1. Untouched(s) /\ book' = [book EXCEPT ![Current(s)] = Settled(book[Current(s)], 0)]
    BY <1>4 DEF Cancel
  <2> QED BY <1>1, <2>1, UntouchedIs, CloseSound
<1> QED BY <1>3, <1>4

LEMMA AgeSound ==
  ASSUME Sound, NEW s \in Sessions, Age(s)
  PROVE  Sound'
<1> DEFINE i == Current(s)
<1>1. row[s].gen # 0 /\ row[s] \in RowT
  BY Begun DEF Age, Open
<1>2. PICK l \in {"late", "expired", "lapsed"} : row' = [row EXCEPT ![s].lease = l]
  BY DEF Age
<1> DEFINE r == [row[s] EXCEPT !.lease = l]
<1>3. r \in RowT /\ r.gen = row[s].gen /\ r.approved = row[s].approved /\ r.seq = row[s].seq
      /\ r.consumed = row[s].consumed /\ r.durable = row[s].durable /\ r.resume = row[s].resume
      /\ r.status = row[s].status
  BY <1>1 DEF RowT
<1>4. row' = [row EXCEPT ![s] = r]
  BY <1>2
<1>5. UNCHANGED <<exists, book, stored, archived, owner, stream>>
  BY DEF Age
<1> HIDE DEF r
<1>6. Typed'
  BY <1>3, <1>4, <1>5 DEF Sound, Typed
<1>7. /\ i \in Grants /\ i[1] = s /\ i[2] = row[s].gen
      /\ Running(row[s], book[i], stream[i]) /\ Granted(book[i], stream[i], Evidence(i))
  BY <1>1, CurrentOf
<1>8. Reigns(row[s], i[2], book[i], owner[i], stream[i])
  BY <1>7 DEF Sound
<1>9. \A t \in Sessions : row'[t] = IF t = s THEN r ELSE row[t]
  BY <1>4 DEF Sound, Typed
<1>10. Running(r, book[i], stream[i])
  BY <1>3, <1>7 DEF Running, Consumed
<1>11. Reigns(r, i[2], book[i], owner[i], stream[i])
  BY <1>3, <1>8, <1>10 DEF Reigns
<1>12. /\ Granted(book'[i], stream'[i], stored'[i] \union archived'[i])
       /\ Reigns(row'[i[1]], i[2], book'[i], owner'[i], stream'[i])
  BY <1>5, <1>7, <1>9, <1>11 DEF Evidence
<1>13. row'[i[1]].gen = row[i[1]].gen /\ \A t \in Sessions : t # i[1] => row'[t] = row[t]
  BY <1>3, <1>7, <1>9
<1> HIDE DEF i
<1> QED BY <1>5, <1>6, <1>7, <1>12, <1>13, OneGrant

\* A renewal: another window is paid, and granted when the answer arrives.
LEMMA RenewSound ==
  ASSUME Sound, NEW s \in Sessions, Renew(s)
  PROVE  Sound'
<1> DEFINE i == Current(s)
           b == book[i]
           n == Count(b)
           w == NextWindow(row[s].approved)
           r == [row[s] EXCEPT !.approved = IF Low(row[s]) THEN @ + Window ELSE @]
           next == IF Low(row[s]) THEN WithWindow(b, w) ELSE b
<1>1. row[s].gen # 0 /\ row[s] \in RowT /\ row[s].status = "connected"
  BY Begun DEF Renew
<1>2. /\ i \in Grants /\ Running(row[s], b, stream[i]) /\ Granted(b, stream[i], Evidence(i))
      /\ b.billed = Unbilled => b.pending = b.keys
  BY <1>1, CurrentOf
<1>3. /\ n \in Nat /\ n > 0 /\ row[s].approved = Window * n /\ b.keys = 1..n
      /\ b.billed = Unbilled /\ Streaming(b, stream[i]) /\ b.keys # {}
  BY <1>1, <1>2, CountOfNone DEF Granted, Running
<1>4. b \in BookT /\ stream[i] \in StreamT /\ Len(Journal(i)) \in Nat
      /\ stored[i] \in SUBSET Nat
  BY <1>2, GrantTyped
<1>5. w = n + 1 /\ w \in Windows /\ Window * n \in Nat /\ Window * n + Window = Window * (n + 1)
  BY <1>3, WindowsHold DEF Renew
<1>6. /\ next \in BookT /\ Count(next) \in {n, n + 1} /\ next.keys = 1..Count(next)
      /\ next.billed = Unbilled /\ next.pending = next.keys /\ Uncharged(next)
      /\ r.approved = Window * Count(next)
  <2>0. Uncharged(b)
    BY <1>2, <1>3 DEF Granted
  <2>1. CASE Low(row[s])
    <3>1. LET x == WithWindow(b, n + 1) IN
          /\ x \in BookT /\ Count(x) = n + 1 /\ x.keys = 1..Count(x)
          /\ x.billed = b.billed /\ x.pending = b.pending \union {n + 1} /\ Uncharged(x)
      BY <1>3, <1>4, <1>5, <2>0, AnotherWindow
    <3>2. r.approved = Window * n + Window
      BY <1>1, <1>3, <2>1 DEF RowT
    <3>3. (1..n) \union {n + 1} = 1..(n + 1)
      <4> HIDE DEF n
      <4> QED BY <1>3
    <3>4. next = WithWindow(b, n + 1)
      BY <1>5, <2>1
    <3> HIDE DEF n, next, r, b
    <3> QED BY <1>2, <1>3, <1>5, <3>1, <3>2, <3>3, <3>4
  <2>2. CASE ~Low(row[s])
    BY <1>1, <1>2, <1>3, <1>4, <2>0, <2>2 DEF RowT
  <2> QED BY <2>1, <2>2
<1>7. /\ r \in RowT /\ r.gen = row[s].gen /\ r.seq = row[s].seq
      /\ r.consumed = row[s].consumed /\ r.durable = row[s].durable /\ r.resume = row[s].resume
      /\ r.status = "connected" /\ row[s].approved <= r.approved
  <2>1. row[s].approved \in Nat /\ row[s].approved + Window \in Nat
    BY <1>1, Bounds DEF RowT
  <2>2. r.approved \in {row[s].approved, row[s].approved + Window}
    BY <1>1 DEF RowT
  <2>3. row[s].approved <= r.approved
    BY <2>1, <2>2, Bounds
  <2> QED BY <1>1, <2>1, <2>3 DEF RowT
<1>8. /\ Write(s, r) /\ UNCHANGED <<exists, stored, archived>> /\ book' = [book EXCEPT ![i] = next]
  <2>1. book = [book EXCEPT ![i] = book[i]]
    BY <1>2, GrantTyped
  <2>2. Low(row[s]) => book' = [book EXCEPT ![i] = WithWindow(b, w)]
    BY DEF Renew
  <2>3. ~Low(row[s]) => book' = book
    BY DEF Renew
  <2>4. book' = [book EXCEPT ![i] = next]
    BY <2>1, <2>2, <2>3
  <2> QED BY <2>4 DEF Renew
<1> DEFINE more == [stream[i] EXCEPT !.granted = r.approved]
<1>9. PICK st \in {stream[i], more} : stream' = [stream EXCEPT ![i] = st]
  <2>1. stream = [stream EXCEPT ![i] = stream[i]]
    BY <1>2, GrantTyped
  <2>2. stream' = [stream EXCEPT ![i].granted = r.approved] \/ stream' = stream
    BY DEF Renew
  <2> QED BY <2>1, <2>2
<1> HIDE DEF n, w, r, next, b
<1>10. Streaming(next, stream[i])
  BY <1>3, <1>4, <1>6, StillStreaming DEF n
<1>11. /\ st \in StreamT /\ st.sent = stream[i].sent /\ st.journal = stream[i].journal
       /\ st.resume = stream[i].resume /\ st.pc = stream[i].pc /\ st.durable = stream[i].durable
       /\ st.granted \in {stream[i].granted, r.approved}
  <2>1. r.approved \in Nat
    BY <1>7 DEF RowT
  <2> QED BY <1>4, <2>1 DEF StreamT
<1>12. Streaming(next, st)
  <2>1. stream[i].sent <= r.approved
    <3>1. stream[i].sent <= stream[i].granted /\ stream[i].granted <= r.approved
      BY <1>6, <1>10 DEF Streaming
    <3>2. stream[i].sent \in Nat /\ stream[i].granted \in Nat /\ r.approved \in Nat
      BY <1>4, <1>7 DEF StreamT, RowT
    <3> QED BY <3>1, <3>2
  <2>2. r.approved <= Window * Count(next)
    <3>1. r.approved \in Nat
      BY <1>7 DEF RowT
    <3> QED BY <1>6, <3>1
  <2> QED BY <1>10, <1>11, <2>1, <2>2 DEF Streaming
<1>13. next.keys # {} /\ Count(next) > 0 /\ Count(next) \in Nat
  <2>1. Count(next) > 0 /\ Count(next) \in Nat
    BY <1>3, <1>6
  <2> QED BY <2>1, CountOfNone
<1>14. Granted(next, st, stored[i] \union archived[i])
  <2>1. Evidence(i) \subseteq 1..Len(stream[i].journal)
    BY <1>2 DEF Granted
  <2> QED BY <1>6, <1>11, <1>12, <1>13, <2>1 DEF Granted, Evidence
<1>15. Running(r, next, st)
  BY <1>1, <1>2, <1>6, <1>7, <1>11, <1>13 DEF Running, Consumed
<1>16. Len(Journal(i)) <= Len(st.journal) /\ Len(st.journal) \in Nat
  BY <1>4, <1>11 DEF Journal
<1> HIDE DEF more
<1> QED BY <1>1, <1>4, <1>6, <1>7, <1>8, <1>9, <1>11, <1>14, <1>15, <1>16, GrantTyped, <1>2, RowStep

-----------------------------------------------------------------------------
(* Steps of a stream                                                       *)

\* An open stream goes on: its journal may only get longer.
LEMMA StreamStep ==
  ASSUME Sound, NEW i \in Grants, stream[i].pc = "open", NEW st \in StreamT,
         UNCHANGED <<exists, row, book, stored, archived, owner>>,
         stream' = [stream EXCEPT ![i] = st],
         st.resume = stream[i].resume, Len(Journal(i)) <= Len(st.journal), Len(st.journal) \in Nat,
         \A k \in 1..Len(Journal(i)) : st.journal[k] = Journal(i)[k],
         Streaming(book[i], st)
  PROVE  Sound'
<1> DEFINE b == book[i]
           r == row[i[1]]
           J == Journal(i)
<1>1. i[1] \in Sessions /\ i[2] \in 1..MaxGen
  BY Parts
<1>2. Granted(b, stream[i], Evidence(i)) /\ Reigns(r, i[2], b, owner[i], stream[i]) /\ r \in RowT
  BY <1>1 DEF Sound, Typed
<1>3. b.keys # {} /\ b.billed = Unbilled
  BY <1>2 DEF Granted, NoStream
<1>4. Len(J) \in Nat /\ owner[i].last \in Nat /\ r.seq \in Nat
  BY <1>2, GrantTyped DEF OwnerT, RowT
<1>5. J = stream[i].journal
  BY DEF Journal
<1>6. Granted(b, st, stored[i] \union archived[i])
  <2>1. 1..Len(J) \subseteq 1..Len(st.journal)
    BY <1>4
  <2> QED BY <1>2, <1>3, <1>5, <2>1 DEF Granted, Evidence
<1>7. Running(r, b, stream[i]) => Running(r, b, st)
  <2> SUFFICES ASSUME Running(r, b, stream[i]) PROVE Running(r, b, st)
    OBVIOUS
  <2>1. r.status # "authorized"
    BY DEF Running, NoStream
  <2>2. st.resume = r.resume
    BY DEF Running
  <2>3. Consumed(r, st.journal)
    <3>1. Consumed(r, J)
      BY <1>5 DEF Running
    <3>2. r.seq <= Len(st.journal)
      BY <1>4, <3>1 DEF Consumed
    <3>3. r.seq # 0 => r.seq \in 1..Len(J)
      BY <1>4, <3>1 DEF Consumed
    <3>4. r.seq # 0 => st.journal[r.seq] = J[r.seq]
      BY <3>3
    <3> QED BY <3>1, <3>2, <3>4 DEF Consumed, Mark
  <2> QED BY <2>1, <2>2, <2>3 DEF Running
<1>8. Reigns(r, i[2], b, owner[i], st)
  <2>1. i[2] <= r.gen => owner[i].last <= Len(st.journal)
    BY <1>2, <1>4, <1>5 DEF Reigns
  <2> QED BY <1>2, <1>7, <2>1 DEF Reigns
<1>9. /\ stream' \in [Grants -> StreamT]
      /\ \A j \in Grants : stream'[j] = IF j = i THEN st ELSE stream[j]
  BY DEF Sound, Typed
<1>10. Typed'
  BY <1>9 DEF Sound, Typed
<1>11. \A j \in Grants : j # i => stream'[j] = stream[j]
  BY <1>9
<1>12. Granted(book'[i], stream'[i], stored'[i] \union archived'[i])
  BY <1>6, <1>9
<1>13. Reigns(row'[i[1]], i[2], book'[i], owner'[i], stream'[i])
  BY <1>8, <1>9
<1> HIDE DEF b, r, J
<1> QED BY <1>10, <1>11, <1>12, <1>13, OneGrant

LEMMA SendSound ==
  ASSUME Sound, NEW i \in Grants, Send(i)
  PROVE  Sound'
<1> DEFINE old == stream[i]
           st == [old EXCEPT !.sent = @ + 1]
<1>1. old \in StreamT /\ Len(Journal(i)) \in Nat /\ old.pc = "open" /\ old.sent < old.granted
  BY GrantTyped DEF Send, Node
<1>2. /\ st \in StreamT /\ st.sent = old.sent + 1 /\ st.journal = old.journal
      /\ st.resume = old.resume /\ st.pc = "open" /\ st.durable = old.durable
      /\ st.granted = old.granted
  BY <1>1 DEF StreamT
<1>3. old.sent \in Nat /\ old.granted \in Nat /\ old.resume \in Nat /\ old.durable \in Nat
      /\ old.journal = Journal(i)
  BY <1>1 DEF StreamT, Journal
<1>4. Streaming(book[i], old)
  BY DEF Sound, Granted
<1>5. stream' = [stream EXCEPT ![i] = st] /\ UNCHANGED <<exists, row, book, stored, archived, owner>>
  BY DEF Send, Node
<1> HIDE DEF old, st
<1>6. Honest(st.journal, st.resume, st.sent)
  <2>1. \A k \in 1..Len(old.journal) : old.journal[k].samples \in Nat
    BY <1>3, GrantTyped DEF EventT
  <2>2. Honest(old.journal, old.resume, old.sent)
    BY <1>4 DEF Streaming
  <2>3. \A k \in 1..Len(old.journal) : old.journal[k].samples <= st.sent
    BY <1>2, <1>3, <2>1, <2>2 DEF Honest
  <2> QED BY <1>2, <2>2, <2>3 DEF Honest
<1>7. Streaming(book[i], st)
  <2>1. st.sent <= st.granted /\ st.granted <= Window * Count(book[i])
    BY <1>1, <1>2, <1>3, <1>4 DEF Streaming
  <2>2. st.durable = Mark(st.journal, st.resume, Len(st.journal)) /\ st.durable <= st.resume + st.sent
    BY <1>1, <1>2, <1>3, <1>4 DEF Streaming
  <2>3. \A k \in 1..Len(st.journal) : st.journal[k].kind # "end"
    BY <1>1, <1>2, <1>4 DEF Streaming
  <2> QED BY <1>6, <2>1, <2>2, <2>3 DEF Streaming
<1>8. /\ Len(Journal(i)) <= Len(st.journal) /\ Len(st.journal) \in Nat
      /\ \A k \in 1..Len(Journal(i)) : st.journal[k] = Journal(i)[k]
      /\ stream[i].pc = "open" /\ st.resume = stream[i].resume
  BY <1>1, <1>2, <1>3 DEF old
<1> QED BY <1>2, <1>5, <1>7, <1>8, StreamStep

\* The journal with an event more.
LEMMA LongerJournal ==
  ASSUME NEW J \in Seq(EventT), NEW e \in EventT
  PROVE  /\ Append(J, e) \in Seq(EventT) /\ Len(J) \in Nat
         /\ Len(Append(J, e)) = Len(J) + 1 /\ Append(J, e)[Len(J) + 1] = e
         /\ \A k \in 1..Len(J) : Append(J, e)[k] = J[k]
BY AppendProperties, LenProperties

\* An event that carries the stream's counters as they are.
LEMMA HonestEvent ==
  ASSUME NEW J \in Seq(EventT), NEW e \in EventT, NEW resume \in Nat, NEW sent \in Nat,
         Honest(J, resume, sent), e.samples = sent,
         Mark(J, resume, Len(J)) <= e.durable, e.durable <= resume + sent,
         e.kind \in {"usage", "end"} => e.durable = Mark(J, resume, Len(J))
  PROVE  Honest(Append(J, e), resume, sent)
<1> DEFINE n == Len(J)
           K == Append(J, e)
<1>1. /\ n \in Nat /\ Len(K) = n + 1 /\ K[n + 1] = e
      /\ \A k \in 1..n : K[k] = J[k]
  BY LongerJournal
<1>2. \A k \in 1..n : J[k] \in EventT
  BY ElementOfSeq
<1> HIDE DEF K, n
<1>3. ASSUME NEW k \in 0..n PROVE Mark(K, resume, k) = Mark(J, resume, k)
  BY <1>1 DEF Mark
<1>4. resume <= Mark(J, resume, n) /\ Mark(J, resume, n) \in Nat
  <2>1. CASE n = 0
    BY <2>1 DEF Mark
  <2>2. CASE n # 0
    <3>1. n \in 1..n
      BY <1>1, <2>2
    <3> QED BY <1>2, <3>1, <2>2 DEF Mark, Honest, n, EventT
  <2> QED BY <2>1, <2>2
<1>5. ASSUME NEW k \in 1..Len(K)
      PROVE  /\ K[k].samples <= sent
             /\ resume <= K[k].durable /\ K[k].durable <= resume + K[k].samples
             /\ K[k].kind \in {"usage", "end"} => K[k].durable = Mark(K, resume, k - 1)
             /\ \A j \in 1..k : K[j].samples <= K[k].samples /\ K[j].durable <= K[k].durable
  <2>1. CASE k \in 1..n
    <3>1. K[k] = J[k] /\ k - 1 \in 0..n /\ \A j \in 1..k : K[j] = J[j]
      BY <1>1, <2>1
    <3>2. Mark(K, resume, k - 1) = Mark(J, resume, k - 1)
      BY <1>3, <3>1
    <3> QED BY <2>1, <3>1, <3>2 DEF Honest, n
  <2>2. CASE k = n + 1
    <3>1. K[k] = e /\ k - 1 = n /\ Mark(K, resume, k - 1) = Mark(J, resume, n)
      BY <1>1, <1>3, <2>2
    <3>2. e.durable \in Nat /\ e.samples = sent
      BY DEF EventT
    <3>3. Mark(J, resume, n) <= e.durable /\ (e.kind \in {"usage", "end"} => e.durable = Mark(J, resume, n))
      BY DEF n
    <3>4. ASSUME NEW j \in 1..k PROVE K[j].samples <= e.samples /\ K[j].durable <= e.durable
      <4>1. CASE j = n + 1
        BY <1>1, <3>2, <4>1
      <4>2. CASE j \in 1..n
        <5>1. K[j] = J[j] /\ J[j].samples \in Nat /\ J[j].durable \in Nat /\ n \in 1..n
          BY <1>1, <1>2, <4>2 DEF EventT
        <5>2. J[j].samples <= sent /\ J[j].durable <= J[n].durable
          BY <1>1, <4>2, <5>1 DEF Honest, n
        <5>3. Mark(J, resume, n) = J[n].durable /\ J[n].durable \in Nat
          <6>1. n # 0 /\ J[n] \in EventT
            BY <1>1, <1>2, <5>1
          <6> QED BY <6>1 DEF Mark, EventT
        <5> QED BY <3>2, <3>3, <5>1, <5>2, <5>3
      <4> QED BY <1>1, <2>2, <4>1, <4>2
    <3>5. resume <= e.durable /\ e.durable <= resume + e.samples
      BY <1>4, <3>2, <3>3
    <3> QED BY <3>1, <3>2, <3>3, <3>4, <3>5
  <2> QED BY <1>1, <2>1, <2>2
<1> QED BY <1>5 DEF Honest, K

\* An open stream journals its counters; only a final moves its watermark, and
\* only the end closes it.
LEMMA JournalStep ==
  ASSUME Sound, NEW i \in Grants, stream[i].pc = "open", NEW kind \in Kinds, NEW d \in Nat,
         NEW st \in StreamT, NEW e \in EventT,
         e = [kind |-> kind, samples |-> stream[i].sent, durable |-> d],
         st.journal = Append(Journal(i), e), st.resume = stream[i].resume,
         st.sent = stream[i].sent, st.granted = stream[i].granted, st.durable = d,
         st.pc = IF kind = "end" THEN "over" ELSE "open",
         stream[i].durable <= d, d <= stream[i].resume + stream[i].sent,
         kind # "final" => d = stream[i].durable,
         UNCHANGED <<exists, row, book, stored, archived, owner>>,
         stream' = [stream EXCEPT ![i] = st]
  PROVE  Sound'
<1> DEFINE old == stream[i]
           J == Journal(i)
           n == Len(J)
<1>1. old \in StreamT /\ J \in Seq(EventT) /\ n \in Nat /\ J = old.journal
  BY GrantTyped DEF Journal
<1>2. Streaming(book[i], old)
  BY DEF Sound, Granted
<1>3. old.durable = Mark(J, old.resume, n) /\ old.resume \in Nat /\ old.sent \in Nat
      /\ Honest(J, old.resume, old.sent)
  BY <1>1, <1>2 DEF Streaming, StreamT
<1>4. e.kind = kind /\ e.samples = old.sent /\ e.durable = d
  OBVIOUS
<1>5. kind \in {"usage", "end"} => d = Mark(J, old.resume, n)
  BY <1>3
<1> HIDE DEF J
<1>6. Honest(st.journal, st.resume, st.sent)
  BY <1>1, <1>3, <1>4, <1>5, HonestEvent DEF J
<1>7. /\ Len(st.journal) = n + 1 /\ st.journal[n + 1] = e
      /\ \A k \in 1..n : st.journal[k] = J[k]
  BY <1>1, LongerJournal DEF J
<1>8. \A k \in 1..n : J[k].kind # "end"
  BY <1>1, <1>2 DEF Streaming
<1>9. \A k \in 1..Len(st.journal) : st.journal[k].kind = "end" =>
        k = Len(st.journal) /\ st.pc = "over" /\ st.journal[k].samples = st.sent
  <2> SUFFICES ASSUME NEW k \in 1..Len(st.journal), st.journal[k].kind = "end"
               PROVE  k = n + 1 /\ st.pc = "over" /\ st.journal[k].samples = st.sent
    BY <1>7
  <2>1. k = n + 1
    <3>1. k \in 1..(n + 1)
      BY <1>7
    <3>2. k \notin 1..n
      BY <1>7, <1>8
    <3> QED BY <1>1, <3>1, <3>2
  <2> QED BY <1>4, <1>7, <2>1
<1>10. Mark(st.journal, st.resume, Len(st.journal)) = d
  <2>1. n + 1 # 0
    BY <1>1
  <2> QED BY <1>4, <1>7, <2>1 DEF Mark
<1>11. Streaming(book[i], st)
  BY <1>2, <1>6, <1>9, <1>10 DEF Streaming
<1>12. Len(Journal(i)) <= Len(st.journal) /\ Len(st.journal) \in Nat
  BY <1>1, <1>7 DEF J
<1> QED BY <1>7, <1>11, <1>12, StreamStep DEF J

LEMMA JournalSound ==
  ASSUME Sound, NEW i \in Grants, Report(i) \/ Final(i) \/ Finish(i)
  PROVE  Sound'
<1> DEFINE old == stream[i]
           E(kind, d) == [kind |-> kind, samples |-> old.sent, durable |-> d]
<1>1. /\ old \in StreamT /\ old.pc = "open" /\ Journal(i) \in Seq(EventT)
      /\ UNCHANGED <<exists, row, book, stored, archived, owner>>
  BY GrantTyped DEF Report, Final, Finish, Node
<1>2. old.sent \in Nat /\ old.durable \in Nat /\ old.resume \in Nat
  BY <1>1 DEF StreamT
<1>3. \A kind \in Kinds, d \in Nat : E(kind, d) \in EventT
                                     /\ Append(Journal(i), E(kind, d)) \in Seq(EventT)
  <2> SUFFICES ASSUME NEW kind \in Kinds, NEW d \in Nat
               PROVE  E(kind, d) \in EventT /\ Append(Journal(i), E(kind, d)) \in Seq(EventT)
    OBVIOUS
  <2>1. E(kind, d) \in EventT
    BY <1>2 DEF EventT
  <2> QED BY <1>1, <2>1, AppendProperties
<1>4. old.durable <= old.resume + old.sent
  BY <1>1 DEF Sound, Granted, Streaming
<1> HIDE DEF old
<1>5. CASE Report(i)
  <2> DEFINE e == E("usage", old.durable)
             st == [old EXCEPT !.journal = Append(Journal(i), e)]
  <2>1. stream' = [stream EXCEPT ![i] = st]
    BY <1>5 DEF Report, Journalled, old
  <2>2. /\ st \in StreamT /\ st.journal = Append(Journal(i), e) /\ st.resume = old.resume
        /\ st.sent = old.sent /\ st.granted = old.granted /\ st.durable = old.durable /\ st.pc = "open"
    BY <1>1, <1>2, <1>3 DEF StreamT, Kinds
  <2>3. e \in EventT /\ old.durable <= old.durable
    BY <1>2, <1>3 DEF Kinds
  <2> HIDE DEF st
  <2> QED BY <1>1, <1>2, <1>4, <2>1, <2>2, <2>3, JournalStep DEF old, Kinds
<1>6. CASE Finish(i)
  <2> DEFINE e == E("end", old.durable)
             st == [old EXCEPT !.journal = Append(Journal(i), e), !.pc = "over"]
  <2>1. stream' = [stream EXCEPT ![i] = st]
    BY <1>6 DEF Finish, Journalled, old
  <2>2. /\ st \in StreamT /\ st.journal = Append(Journal(i), e) /\ st.resume = old.resume
        /\ st.sent = old.sent /\ st.granted = old.granted /\ st.durable = old.durable /\ st.pc = "over"
    BY <1>1, <1>2, <1>3 DEF StreamT, Kinds
  <2>3. e \in EventT /\ old.durable <= old.durable
    BY <1>2, <1>3 DEF Kinds
  <2> HIDE DEF st
  <2> QED BY <1>1, <1>2, <1>4, <2>1, <2>2, <2>3, JournalStep DEF old, Kinds
<1>7. CASE Final(i)
  <2>1. PICK d \in old.durable..(old.resume + old.sent) :
          stream' = [stream EXCEPT ![i].journal = Journalled(i, "final", d), ![i].durable = d]
    BY <1>7 DEF Final, old
  <2>2. d \in Nat /\ old.durable <= d /\ d <= old.resume + old.sent
    BY <1>2, <2>1
  <2> DEFINE e == E("final", d)
             st == [old EXCEPT !.journal = Append(Journal(i), e), !.durable = d]
  <2>3. stream' = [stream EXCEPT ![i] = st]
    BY <2>1 DEF Journalled, old
  <2>4. /\ st \in StreamT /\ st.journal = Append(Journal(i), e) /\ st.resume = old.resume
        /\ st.sent = old.sent /\ st.granted = old.granted /\ st.durable = d /\ st.pc = "open"
    BY <1>1, <1>2, <1>3, <2>2 DEF StreamT, Kinds
  <2>5. e \in EventT
    BY <1>3, <2>2 DEF Kinds
  <2> HIDE DEF st
  <2> QED BY <1>1, <1>2, <1>4, <2>2, <2>3, <2>4, <2>5, JournalStep DEF old, Kinds
<1> QED BY <1>5, <1>6, <1>7

LEMMA BreakSound ==
  ASSUME Sound, NEW i \in Grants, Break(i)
  PROVE  Sound'
<1> DEFINE old == stream[i]
           st == [old EXCEPT !.pc = "over"]
<1>1. old \in StreamT /\ Len(Journal(i)) \in Nat /\ old.pc = "open" /\ Journal(i) = old.journal
  BY GrantTyped DEF Break, Node, Journal
<1>2. /\ st \in StreamT /\ st.sent = old.sent /\ st.journal = old.journal
      /\ st.resume = old.resume /\ st.pc = "over" /\ st.granted = old.granted
  BY <1>1 DEF StreamT
<1>3. stream' = [stream EXCEPT ![i] = st] /\ UNCHANGED <<exists, row, book, stored, archived, owner>>
  BY DEF Break, Node
<1>4. Streaming(book[i], old)
  BY DEF Sound, Granted
<1> HIDE DEF st, old
<1>5. Streaming(book[i], st)
  BY <1>2, <1>4 DEF Streaming
<1>6. /\ Len(Journal(i)) <= Len(st.journal) /\ Len(st.journal) \in Nat
      /\ \A k \in 1..Len(Journal(i)) : st.journal[k] = Journal(i)[k]
      /\ stream[i].pc = "open" /\ st.resume = stream[i].resume
  BY <1>1, <1>2 DEF old
<1> QED BY <1>2, <1>3, <1>5, <1>6, StreamStep

-----------------------------------------------------------------------------
(* Events at the main site                                                 *)

\* Where an event's arrival takes the row: it stays, or goes on to a later
\* event; all between are stored or arriving.
LEMMA ReachedIs ==
  ASSUME Sound, NEW i \in Grants, NEW k \in Events(i)
  PROVE  LET r == row[i[1]]
             to == Reached(r, i, stored[i] \union {k})
         IN \/ to = r.seq
            \/ to \in Events(i) /\ r.seq < to /\ (r.seq + 1)..to \subseteq stored[i] \union {k}
<1> DEFINE r == row[i[1]]
           have == stored[i] \union {k}
           S == {r.seq} \union {n \in have : /\ r.seq < n /\ (r.seq + 1)..n \subseteq have
                    /\ \A j \in (r.seq + 1)..(n - 1) : Journal(i)[j].kind # "end"}
<1>1. r.seq \in Nat /\ Len(Journal(i)) \in Nat /\ Events(i) = 1..Len(Journal(i))
  <2>1. r \in RowT
    BY Parts DEF Sound, Typed
  <2> QED BY <2>1, GrantTyped DEF RowT
<1>2. have \subseteq Events(i)
  BY <1>1 DEF Sound, Granted, Evidence, Journal
<1>3. S \in SUBSET Nat /\ S # {}
      /\ \A y \in S : y = r.seq \/ (y \in Events(i) /\ r.seq < y /\ (r.seq + 1)..y \subseteq have)
  BY <1>1, <1>2
<1>4. r.seq + Len(Journal(i)) \in Nat /\ \A y \in S : y <= r.seq + Len(Journal(i))
  <2>1. r.seq + Len(Journal(i)) \in Nat
    BY <1>1
  <2>2. \A y \in S : y = r.seq \/ y \in 1..Len(Journal(i))
    BY <1>1, <1>3
  <2> QED BY <1>1, <2>1, <2>2
<1>5. Reached(r, i, have) = Max(S)
  BY DEF Reached
<1> HIDE DEF S
<1>6. Max(S) \in S
  BY <1>3, <1>4, LargestNat
<1> QED BY <1>3, <1>5, <1>6

\* What a stream's journal says of two of its events.
LEMMA JournalIs ==
  ASSUME Sound, NEW i \in Grants, NEW k \in Events(i)
  PROVE  LET J == Journal(i)
             st == stream[i]
         IN /\ k \in 1..Len(J) /\ J[k] \in EventT
            /\ J[k].samples <= st.sent /\ st.sent <= Window * Count(book[i])
            /\ st.resume <= J[k].durable /\ J[k].durable <= st.resume + J[k].samples
            /\ J[k].kind \in {"usage", "end"} => J[k].durable = Mark(J, st.resume, k - 1)
            /\ \A j \in 1..k : J[j].samples <= J[k].samples /\ J[j].durable <= J[k].durable
            /\ J[k].kind = "end" => k = Len(J) /\ st.pc = "over" /\ J[k].samples = st.sent
<1>1. /\ stream[i] \in StreamT /\ k \in 1..Len(Journal(i)) /\ Journal(i)[k] \in EventT
  BY GrantTyped
<1>2. Journal(i) = stream[i].journal
  BY DEF Journal
<1>3. Streaming(book[i], stream[i]) /\ Count(book[i]) \in Nat
  BY DEF Sound, Granted
<1>4. Honest(Journal(i), stream[i].resume, stream[i].sent)
  BY <1>2, <1>3 DEF Streaming
<1>5. stream[i].sent <= Window * Count(book[i])
  <2>1. stream[i].sent \in Nat /\ stream[i].granted \in Nat /\ Window * Count(book[i]) \in Nat
    BY <1>1, <1>3, WindowsHold DEF StreamT
  <2> QED BY <1>3, <2>1 DEF Streaming
<1>6. Journal(i)[k].kind = "end" =>
        k = Len(Journal(i)) /\ stream[i].pc = "over" /\ Journal(i)[k].samples = stream[i].sent
  BY <1>1, <1>2, <1>3 DEF Streaming
<1> QED BY <1>1, <1>4, <1>5, <1>6 DEF Honest

\* The row of a generation that applies a later event of its journal.
LEMMA AppliedIs ==
  ASSUME Sound, NEW s \in Sessions, row[s].gen # 0, Open(s), NEW k \in Events(Current(s)),
         row[s].seq < k
  PROVE  LET i == Current(s)
             r == Applied(row[s], i, k)
         IN /\ r \in RowT /\ r.gen = row[s].gen /\ r.approved = row[s].approved /\ r.seq = k
            /\ r.resume = row[s].resume /\ Consumed(r, Journal(i)) /\ row[s].durable <= r.durable
            /\ r.consumed = Journal(i)[k].samples /\ r.durable = Journal(i)[k].durable
            /\ r.status = IF Journal(i)[k].kind = "end" THEN "closed" ELSE row[s].status
<1> DEFINE i == Current(s)
           J == Journal(i)
           r == Applied(row[s], i, k)
<1>1. /\ i \in Grants /\ Running(row[s], book[i], stream[i]) /\ row[s] \in RowT
  BY CurrentOf DEF Sound, Typed
<1>2. /\ k \in 1..Len(J) /\ J[k] \in EventT
      /\ stream[i].resume <= J[k].durable
      /\ \A j \in 1..k : J[j].samples <= J[k].samples /\ J[j].durable <= J[k].durable
  BY <1>1, JournalIs
<1>3. /\ r \in RowT /\ r.gen = row[s].gen /\ r.approved = row[s].approved /\ r.seq = k
      /\ r.resume = row[s].resume /\ r.consumed = J[k].samples /\ r.durable = J[k].durable
      /\ r.status = IF J[k].kind = "end" THEN "closed" ELSE row[s].status
  <2>1. J[k].samples \in Nat /\ J[k].durable \in Nat /\ k \in Nat
    BY <1>2 DEF EventT
  <2> QED BY <1>1, <2>1 DEF Applied, RowT
<1>4. Len(J) \in Nat /\ J = stream[i].journal
  BY <1>1, GrantTyped DEF Journal
<1>5. k # 0 /\ k <= Len(J) /\ Len(J) > 0
  BY <1>2, <1>4
<1> HIDE DEF r
<1>6. Consumed(r, J)
  BY <1>3, <1>5 DEF Consumed, Mark
<1>7. row[s].durable <= r.durable
  <2>1. CASE row[s].seq = 0
    <3>1. row[s].durable = row[s].resume /\ stream[i].resume = row[s].resume
      BY <1>1, <1>4, <1>5, <2>1 DEF Running, Consumed, Mark
    <3> QED BY <1>2, <1>3, <3>1
  <2>2. CASE row[s].seq # 0
    <3>1. row[s].durable = J[row[s].seq].durable
      BY <1>1, <1>4, <2>2 DEF Running, Consumed, Mark
    <3>2. row[s].seq \in 1..k
      BY <1>1, <1>2, <2>2 DEF RowT
    <3> QED BY <1>2, <1>3, <3>1, <3>2
  <2> QED BY <2>1, <2>2
<1> QED BY <1>3, <1>6, <1>7 DEF r

LEMMA EventSound ==
  ASSUME Sound, NEW i \in Grants, NEW k \in Events(i), Event(i, k)
  PROVE  Sound' /\ row'[i[1]].durable >= row[i[1]].durable
<1> DEFINE s == i[1]
           to == Reached(row[s], i, stored[i] \union {k})
           after == After(i, k)
           sto == stored[i] \union {k}
           b == IF after.status = "closed" THEN Settled(book[i], after.consumed) ELSE book[i]
<1>1. s \in Sessions /\ Current(s) = i /\ Open(s) /\ row[s].gen # 0 /\ row[s] \in RowT
  BY Parts, Begun DEF Event, Accepts, Open
<1>2. /\ Running(row[s], book[i], stream[i]) /\ Granted(book[i], stream[i], Evidence(i))
      /\ book[i].billed = Unbilled => book[i].pending = book[i].keys
  BY <1>1, CurrentOf
<1>3. book[i].billed = Unbilled /\ row[s].status \in {"authorized", "connected"}
      /\ book[i].keys # {} /\ book[i].pending = book[i].keys
  BY <1>1, <1>2, CountOfNone DEF Running, Open
<1>4. /\ book[i] \in BookT /\ stream[i] \in StreamT /\ sto \in SUBSET Nat
      /\ Len(Journal(i)) \in Nat /\ Events(i) = 1..Len(Journal(i)) /\ Journal(i) = stream[i].journal
  BY GrantTyped DEF Journal
<1>5. \/ to = row[s].seq /\ after = row[s]
      \/ to \in Events(i) /\ row[s].seq < to /\ after = Applied(row[s], i, to)
  <2>1. to = row[s].seq \/ (to \in Events(i) /\ row[s].seq < to)
    BY ReachedIs
  <2>2. after = RowAt(row[s], i, to)
    BY DEF After
  <2>3. row[s].seq < to => to # row[s].seq
    <3>1. row[s].seq \in Nat
      BY <1>1 DEF RowT
    <3> QED BY <3>1
  <2> HIDE DEF to, after
  <2> QED BY <2>1, <2>2, <2>3 DEF RowAt
<1> HIDE DEF to
<1>6. /\ after \in RowT /\ after.gen = row[s].gen /\ after.approved = row[s].approved
      /\ after.resume = row[s].resume /\ Consumed(after, Journal(i))
      /\ row[s].durable <= after.durable
      /\ \/ after.status = row[s].status
         \/ after.status = "closed" /\ after.consumed = stream[i].sent /\ stream[i].pc = "over"
  <2>1. CASE after = row[s]
    <3>1. Consumed(after, Journal(i))
      BY <1>2, <1>4, <2>1 DEF Running
    <3>2. row[s].durable <= row[s].durable
      BY <1>1 DEF RowT
    <3> HIDE DEF after
    <3> QED BY <1>1, <2>1, <3>1, <3>2
  <2>2. CASE to \in Events(i) /\ row[s].seq < to /\ after = Applied(row[s], i, to)
    <3>1. /\ after \in RowT /\ after.gen = row[s].gen /\ after.approved = row[s].approved
          /\ after.resume = row[s].resume /\ Consumed(after, Journal(i))
          /\ row[s].durable <= after.durable /\ after.consumed = Journal(i)[to].samples
          /\ after.status = IF Journal(i)[to].kind = "end" THEN "closed" ELSE row[s].status
      <4> HIDE DEF after
      <4> QED BY <1>1, <2>2, AppliedIs
    <3>2. Journal(i)[to].kind = "end" =>
            stream[i].pc = "over" /\ Journal(i)[to].samples = stream[i].sent
      BY <2>2, JournalIs
    <3> HIDE DEF after
    <3> QED BY <3>1, <3>2
  <2> QED BY <1>5, <2>1, <2>2
<1>7. Granted(book[i], stream[i], sto \union archived[i])
  <2>1. sto \union archived[i] \subseteq 1..Len(stream[i].journal)
    BY <1>2, <1>4 DEF Granted, Evidence
  <2> QED BY <1>2, <2>1 DEF Granted
<1>8. Write(s, after) /\ UNCHANGED <<exists, archived, stream>>
      /\ stored' = [stored EXCEPT ![i] = sto] /\ book' = [book EXCEPT ![i] = b]
  BY GrantTyped DEF Event
<1> HIDE DEF after, sto
<1>9. /\ b \in BookT /\ Count(b) = Count(book[i])
      /\ Granted(b, stream[i], sto \union archived[i])
      /\ b.billed = Unbilled => b.pending = b.keys
      /\ after.status # "closed" => b.billed = Unbilled
  <2>1. CASE after.status = "closed"
    <3>1. after.consumed \in Nat /\ after.consumed = stream[i].sent /\ stream[i].pc # "open"
      BY <1>3, <1>6, <2>1 DEF RowT
    <3>2. b = Settled(book[i], after.consumed)
      BY <2>1
    <3> HIDE DEF b
    <3>3. /\ b \in BookT /\ Count(b) = Count(book[i]) /\ b.billed = after.consumed
      BY <1>3, <1>4, <3>1, <3>2, SettledIs
    <3>4. Granted(b, stream[i], sto \union archived[i])
      BY <1>3, <1>4, <1>7, <3>1, <3>2, GrantedSettled
    <3>5. b.billed # Unbilled
      BY <3>1, <3>3 DEF Unbilled
    <3> QED BY <2>1, <3>3, <3>4, <3>5
  <2>2. CASE after.status # "closed"
    <3>1. b = book[i]
      BY <2>2
    <3> HIDE DEF b
    <3> QED BY <1>2, <1>3, <1>4, <1>7, <2>2, <3>1
  <2> QED BY <2>1, <2>2
<1> HIDE DEF b
<1>10. Running(after, b, stream[i])
  <2>1. after.status # "none" /\ (after.status = "authorized" => row[s].status = "authorized")
    BY <1>3, <1>6
  <2> QED BY <1>2, <1>3, <1>4, <1>6, <1>9, <2>1 DEF Running
<1>11. /\ Len(Journal(i)) <= Len(stream[i].journal) /\ Len(stream[i].journal) \in Nat
       /\ row[s].approved <= after.approved /\ stream' = [stream EXCEPT ![i] = stream[i]]
       /\ exists' = exists /\ archived' = archived
  <2>1. row[s].approved \in Nat
    BY <1>1 DEF RowT
  <2> QED BY <1>4, <1>6, <1>8, <2>1, GrantTyped
<1>12. sto \in SUBSET Nat /\ stream[i] \in StreamT /\ b \in BookT
  BY <1>4, <1>9
<1>13. row'[s].durable >= row[s].durable
  <2>1. row'[s] = after
    BY <1>1, <1>6, <1>8 DEF Write, Sound, Typed
  <2>2. after.durable \in Nat /\ row[s].durable \in Nat
    BY <1>1, <1>6 DEF RowT
  <2> QED BY <1>6, <2>1, <2>2
<1>14. Sound'
  BY <1>1, <1>6, <1>7, <1>8, <1>9, <1>10, <1>11, <1>12, RowStep
<1> QED BY <1>13, <1>14

\* What is archived is evidence; a late end settles what is left.
LEMMA ArchiveSound ==
  ASSUME Sound, NEW i \in Grants, NEW k \in Events(i), Archive(i, k)
  PROVE  Sound'
<1> DEFINE r == row[i[1]]
           b == IF LateEnd(i, k) THEN Settled(book[i], Journal(i)[k].samples) ELSE book[i]
           arc == archived[i] \union {k}
<1>1. /\ i[1] \in Sessions /\ i[2] \in 1..MaxGen /\ r \in RowT
      /\ Granted(book[i], stream[i], Evidence(i)) /\ Reigns(r, i[2], book[i], owner[i], stream[i])
  BY Parts DEF Sound, Typed
<1>2. /\ book[i] \in BookT /\ stream[i] \in StreamT /\ arc \in SUBSET Nat
      /\ Len(Journal(i)) \in Nat /\ Events(i) = 1..Len(Journal(i)) /\ Journal(i) = stream[i].journal
  BY GrantTyped DEF Journal
<1>3. i[2] <= r.gen /\ (i[2] = r.gen => ~(r.status \in {"authorized", "connected"}))
  <2>1. i[2] \in Nat /\ r.gen \in Nat
    BY <1>1, Bounds DEF RowT
  <2>2. r.gen > i[2] \/ (i[2] = r.gen /\ ~Open(i[1]))
    BY Parts DEF Archive, Archivable, Shut, Current
  <2> QED BY <2>1, <2>2 DEF Open
<1>4. Granted(book[i], stream[i], stored[i] \union arc)
  <2>1. stored[i] \union arc \subseteq 1..Len(stream[i].journal)
    BY <1>1, <1>2 DEF Granted, Evidence
  <2> QED BY <1>1, <2>1 DEF Granted
<1>5. /\ UNCHANGED <<exists, row, stored, owner, stream>>
      /\ archived' = [archived EXCEPT ![i] = arc] /\ book' = [book EXCEPT ![i] = b]
  BY GrantTyped DEF Archive
<1> HIDE DEF r, arc
<1>6. /\ b \in BookT /\ b.keys = book[i].keys /\ Count(b) = Count(book[i])
      /\ Granted(b, stream[i], stored[i] \union arc)
      /\ b = book[i] \/ b.billed # Unbilled
  <2>1. CASE LateEnd(i, k)
    <3>1. b = Settled(book[i], Journal(i)[k].samples)
      BY <2>1
    <3> HIDE DEF b
    <3>2. book[i].billed = Unbilled /\ book[i].pending # {} /\ Journal(i)[k].kind = "end"
      BY <2>1 DEF LateEnd
    <3>3. /\ Journal(i)[k].samples = stream[i].sent /\ stream[i].pc # "open"
          /\ Journal(i)[k].samples \in Nat
      BY <3>2, JournalIs DEF EventT
    <3>4. book[i].keys # {} /\ book[i].pending = book[i].keys
      BY <1>1, <1>3, <3>2 DEF Granted, Reigns
    <3>5. Granted(b, stream[i], stored[i] \union arc)
      BY <1>2, <1>4, <3>1, <3>2, <3>3, <3>4, GrantedSettled
    <3>6. /\ b \in BookT /\ b.keys = book[i].keys /\ Count(b) = Count(book[i])
          /\ b.billed = Journal(i)[k].samples
      BY <1>2, <3>1, <3>2, <3>3, SettledIs
    <3>7. b.billed # Unbilled
      BY <3>3, <3>6 DEF Unbilled
    <3> QED BY <3>5, <3>6, <3>7
  <2>2. CASE ~LateEnd(i, k)
    BY <1>2, <1>4, <2>2
  <2> QED BY <2>1, <2>2
<1> HIDE DEF b
<1>7. Reigns(r, i[2], b, owner[i], stream[i])
  BY <1>1, <1>3, <1>6 DEF Reigns, Running
<1>8. /\ book' \in [Grants -> BookT] /\ archived' \in [Grants -> SUBSET Nat]
      /\ book'[i] = b /\ archived'[i] = arc
      /\ \A j \in Grants : j # i => book'[j] = book[j] /\ archived'[j] = archived[j]
  BY <1>2, <1>5, <1>6 DEF Sound, Typed
<1>9. Typed'
  BY <1>5, <1>8 DEF Sound, Typed
<1>10. /\ Granted(book'[i], stream'[i], stored'[i] \union archived'[i])
       /\ Reigns(row'[i[1]], i[2], book'[i], owner'[i], stream'[i])
       /\ book'[i].keys = book[i].keys
  BY <1>5, <1>6, <1>7, <1>8 DEF r
<1> QED BY <1>5, <1>8, <1>9, <1>10, OneGrant

-----------------------------------------------------------------------------
(* Steps about a whole session                                             *)

\* A step about one session keeps the invariant when it does for that session.
LEMMA SessionStep ==
  ASSUME Sound, Typed', NEW s \in Sessions,
         \A t \in Sessions : t # s => row'[t] = row[t],
         \A j \in Grants : j[1] # s => /\ book'[j] = book[j] /\ owner'[j] = owner[j]
                                       /\ stream'[j] = stream[j]
                                       /\ stored'[j] = stored[j] /\ archived'[j] = archived[j],
         \A g \in 1..MaxGen : LET j == <<s, g>> IN
           /\ Granted(book'[j], stream'[j], stored'[j] \union archived'[j])
           /\ Reigns(row'[s], g, book'[j], owner'[j], stream'[j]),
         row'[s].gen = 0 => row'[s] = NoRow,
         MaxGen > 0 => BeginsOnce(s)'
  PROVE  Sound'
<1>1. ASSUME NEW j \in Grants
      PROVE  /\ Granted(book'[j], stream'[j], stored'[j] \union archived'[j])
             /\ Reigns(row'[j[1]], j[2], book'[j], owner'[j], stream'[j])
  <2>1. j[1] \in Sessions /\ j[2] \in 1..MaxGen /\ j = <<j[1], j[2]>>
    BY Parts
  <2>2. CASE j[1] = s
    BY <2>1, <2>2
  <2>3. CASE j[1] # s
    <3>1. /\ Granted(book[j], stream[j], stored[j] \union archived[j])
          /\ Reigns(row[j[1]], j[2], book[j], owner[j], stream[j])
      BY DEF Sound, Evidence
    <3> QED BY <2>1, <2>3, <3>1
  <2> QED BY <2>2, <2>3
<1>2. ASSUME NEW t \in Sessions
      PROVE  (row'[t].gen = 0 => row'[t] = NoRow) /\ (MaxGen > 0 => BeginsOnce(t)')
  <2>1. CASE t = s
    BY <2>1
  <2>2. CASE t # s
    <3>1. \A g \in 1..MaxGen : <<t, g>> \in Grants /\ book'[<<t, g>>] = book[<<t, g>>]
      BY <2>2 DEF Grants
    <3>2. row'[t] = row[t] /\ (row[t].gen = 0 => row[t] = NoRow) /\ (MaxGen > 0 => BeginsOnce(t))
      BY <2>2 DEF Sound
    <3>3. MaxGen > 0 => 1 \in 1..MaxGen
      BY Bounds
    <3> QED BY <3>1, <3>2, <3>3 DEF BeginsOnce
  <2> QED BY <2>1, <2>2
<1> QED BY <1>1, <1>2 DEF Sound, Evidence

\* A generation that begins with its first window.
LEMMA FreshGrant ==
  ASSUME NEW b \in BookT, NEW st, NEW kept, Granted(b, st, kept), b.keys = {}
  PROVE  LET next == WithWindow(b, 1) IN
         /\ next \in BookT /\ Granted(next, st, kept) /\ Count(next) = 1 /\ next.keys # {}
         /\ next.pending = next.keys
         /\ \A r \in RowT : /\ r.status = "authorized" /\ r.approved = Window
                            /\ r.consumed = 0 /\ r.seq = 0 /\ r.durable = r.resume
                            => Running(r, next, st)
<1> DEFINE next == WithWindow(b, 1)
<1>1. Count(b) = 0 /\ b.keys = 1..Count(b) /\ b.pending = {} /\ b.billed = Unbilled /\ st = NoStream
  BY FS_EmptySet DEF Granted, Count
<1>2. /\ next \in BookT /\ Count(next) = 1 /\ next.keys = 1..1
      /\ next.billed = Unbilled /\ next.pending = {1} /\ Uncharged(next)
  <2>0. Uncharged(b)
    BY <1>1, FS_EmptySet DEF Granted
  <2>1. Count(b) + 1 \in Windows /\ Count(b) + 1 = 1 /\ Count(b) \in Nat
    BY <1>1, Bounds DEF Windows
  <2> QED BY <1>1, <2>0, <2>1, AnotherWindow
<1> HIDE DEF next
<1>3. st \in StreamT /\ st.journal = <<>> /\ Len(st.journal) = 0 /\ st.sent = 0 /\ st.pc = "none"
  BY <1>1, NothingTyped, EmptySeq DEF NoStream
<1>4. Granted(next, st, kept)
  <2>1. Count(b) \in Nat /\ Count(next) \in Nat /\ Count(b) <= Count(next)
    BY <1>1, <1>2
  <2>2. Streaming(b, st)
    BY DEF Granted
  <2>3. Streaming(next, st)
    BY <1>3, <2>1, <2>2, StillStreaming
  <2>4. 1 \in next.keys
    BY <1>2
  <2> QED BY <1>2, <2>1, <2>3, <2>4 DEF Granted
<1>5. ASSUME NEW r \in RowT, r.status = "authorized", r.approved = Window,
             r.consumed = 0, r.seq = 0, r.durable = r.resume
      PROVE  Running(r, next, st)
  <2>1. Consumed(r, st.journal)
    BY <1>3, <1>5 DEF Consumed, Mark
  <2>2. Window * 1 = Window
    BY Bounds
  <2> QED BY <1>1, <1>2, <1>3, <1>5, <2>1, <2>2 DEF Running
<1>6. next.pending = next.keys /\ next.keys # {}
  BY <1>2
<1> QED BY <1>2, <1>4, <1>5, <1>6 DEF next

\* What is known of a session's generations.
LEMMA SessionIs ==
  ASSUME Sound, NEW s \in Sessions, NEW g \in 1..MaxGen
  PROVE  LET j == <<s, g>> IN
         /\ j \in Grants /\ j[1] = s /\ j[2] = g /\ book[j] \in BookT
         /\ Granted(book[j], stream[j], stored[j] \union archived[j])
         /\ Reigns(row[s], g, book[j], owner[j], stream[j])
<1> DEFINE j == <<s, g>>
<1>1. j \in Grants /\ j[1] = s /\ j[2] = g
  BY DEF Grants
<1> HIDE DEF j
<1>2. /\ Granted(book[j], stream[j], Evidence(j)) /\ book[j] \in BookT
      /\ Reigns(row[j[1]], j[2], book[j], owner[j], stream[j])
  BY <1>1 DEF Sound, Typed
<1> QED BY <1>1, <1>2 DEF Evidence, j

\* A session begins.
LEMMA AuthorizeFirstSound ==
  ASSUME Sound, NEW s \in Sessions, AuthorizeFirst(s)
  PROVE  Sound'
<1> DEFINE i == <<s, 1>>
           r == FirstRow
           b == WithWindow(book[i], 1)
<1>1. /\ 1 \in 1..MaxGen /\ MaxGen > 0 /\ row[s] = NoRow /\ 1 \notin book[i].keys
      /\ Write(s, r) /\ UNCHANGED <<exists, stored, archived, stream>>
      /\ book' = [book EXCEPT ![i] = b]
  <2>1. 1 \in 1..MaxGen /\ MaxGen > 0
    BY Bounds DEF AuthorizeFirst, Grants
  <2> QED BY <2>1 DEF AuthorizeFirst, Sound
<1>2. /\ i \in Grants /\ book[i] \in BookT
      /\ Granted(book[i], stream[i], stored[i] \union archived[i])
      /\ Reigns(row[s], 1, book[i], owner[i], stream[i])
  BY <1>1, SessionIs
<1>3. book[i].keys = {}
  <2>1. book[i].keys = 1..Count(book[i]) /\ Count(book[i]) \in Nat
    BY <1>2 DEF Granted
  <2>2. ~(1 <= Count(book[i]))
    BY <1>1, <2>1
  <2> QED BY <2>1, <2>2
<1>4. \A g \in 1..MaxGen : book[<<s, g>>].keys = {}
  BY <1>1, <1>3 DEF Sound, BeginsOnce
<1>5. /\ r \in RowT /\ r.gen = 1 /\ r.status = "authorized" /\ r.approved = Window
      /\ r.consumed = 0 /\ r.seq = 0 /\ r.durable = 0 /\ r.resume = 0
  <2>1. 1 \in 0..MaxGen /\ Window \in Nat
    BY <1>1, Bounds
  <2>2. r \in RowT
    BY <2>1, NothingTyped DEF FirstRow, RowT
  <2> QED BY <2>2 DEF FirstRow, NoRow
<1>6. Typed /\ owner[i] = NoOwner
  BY <1>1, <1>2 DEF Sound, Reigns, NoRow
<1> HIDE DEF r
<1>7. /\ row' \in [Sessions -> RowT] /\ owner' \in [Grants -> OwnerT]
      /\ \A t \in Sessions : row'[t] = IF t = s THEN r ELSE row[t]
      /\ \A j \in Grants : j # i => owner'[j] = owner[j]
      /\ owner'[i].approved = Larger(owner[i].approved, r.approved)
      /\ owner'[i].last = Larger(owner[i].last, r.seq)
  BY <1>1, <1>5, <1>6, Written
<1>8. owner'[i].approved = Window /\ owner'[i].last = 0
  BY <1>5, <1>6, <1>7, Bounds DEF NoOwner, Larger
<1>9. /\ b \in BookT /\ Granted(b, stream[i], stored[i] \union archived[i])
      /\ Count(b) = 1 /\ b.keys # {} /\ b.pending = b.keys /\ Running(r, b, stream[i])
  BY <1>2, <1>3, <1>5, FreshGrant
<1> HIDE DEF b
<1>10. /\ book' \in [Grants -> BookT]
       /\ \A j \in Grants : book'[j] = IF j = i THEN b ELSE book[j]
  BY <1>1, <1>9 DEF Sound, Typed
<1>11. Typed'
  BY <1>1, <1>6, <1>7, <1>10 DEF Typed
<1>12. ASSUME NEW g \in 1..MaxGen
       PROVE  LET j == <<s, g>> IN
              /\ Granted(book'[j], stream'[j], stored'[j] \union archived'[j])
              /\ Reigns(row'[s], g, book'[j], owner'[j], stream'[j])
  <2> DEFINE j == <<s, g>>
  <2>1. /\ j \in Grants /\ Granted(book[j], stream[j], stored[j] \union archived[j])
        /\ Reigns(row[s], g, book[j], owner[j], stream[j])
    BY SessionIs
  <2>2. row'[s] = r /\ g \in Nat /\ g >= 1
    BY <1>7, Bounds
  <2>3. CASE g = 1
    <3>1. stream[i] \in StreamT /\ Len(stream[i].journal) \in Nat
      BY <1>2, GrantTyped DEF Journal
    <3>2. Reigns(r, 1, b, owner'[i], stream[i])
      BY <1>5, <1>8, <1>9, <3>1, Bounds DEF Reigns
    <3> QED BY <1>1, <1>2, <1>9, <1>10, <2>2, <2>3, <3>2
  <2>4. CASE g # 1
    <3>1. j # i
      BY <2>4
    <3>2. owner[j] = NoOwner
      BY <1>1, <2>1, <2>2 DEF Reigns, NoRow
    <3>3. book[j].keys = {}
      BY <1>4
    <3>4. g > r.gen
      BY <1>5, <2>2, <2>4
    <3>5. ~(g <= r.gen) /\ g # r.gen
      BY <1>5, <2>2, <3>4
    <3> HIDE DEF j
    <3>6. Reigns(r, g, book[j], owner[j], stream[j])
      BY <3>2, <3>3, <3>5 DEF Reigns
    <3> QED BY <1>1, <1>7, <1>10, <2>1, <2>2, <3>1, <3>6 DEF j
  <2> QED BY <2>3, <2>4
<1>13. BeginsOnce(s)' /\ row'[s].gen # 0
  BY <1>2, <1>5, <1>7, <1>9, <1>10 DEF BeginsOnce
<1>14. /\ \A t \in Sessions : t # s => row'[t] = row[t]
       /\ \A j \in Grants : j[1] # s => /\ book'[j] = book[j] /\ owner'[j] = owner[j]
                                       /\ stream'[j] = stream[j]
                                       /\ stored'[j] = stored[j] /\ archived'[j] = archived[j]
  BY <1>1, <1>7, <1>10
<1> QED BY <1>11, <1>12, <1>13, <1>14, SessionStep

\* A session goes on with its next generation, the last one fenced.
LEMMA AuthorizeNextSound ==
  ASSUME Sound, NEW s \in Sessions, AuthorizeNext(s)
  PROVE  Sound' /\ row'[s].durable = row[s].durable
<1> DEFINE last == Current(s)
           r == Successor(row[s])
           n == row[s].gen + 1
           i == <<s, n>>
           b == WithWindow(book[i], 1)
<1>1. /\ row[s].gen \in 1..(MaxGen - 1) /\ n \in 1..MaxGen /\ row[s].gen # 0 /\ row[s] \in RowT
      /\ n \in Nat /\ row[s].gen \in 1..MaxGen
  <2>1. row[s] \in RowT /\ row[s].gen \in 1..(MaxGen - 1)
    BY DEF Sound, Typed, AuthorizeNext
  <2> QED BY <2>1, Bounds
<1>2. /\ r \in RowT /\ r.gen = n /\ r.status = "authorized" /\ r.approved = Window
      /\ r.consumed = 0 /\ r.seq = 0 /\ r.durable = row[s].durable /\ r.resume = row[s].durable
  <2>1. n \in 0..MaxGen /\ Window \in Nat /\ row[s].durable \in Nat
    BY <1>1, Bounds DEF RowT
  <2>2. r \in RowT
    BY <1>1, <2>1 DEF Successor, RowT
  <2>3. r.gen = n /\ r.status = "authorized" /\ r.approved = Window
    BY <1>1 DEF Successor, RowT
  <2> QED BY <1>1, <2>2, <2>3 DEF Successor, RowT
<1>3. /\ i \in Grants /\ book[i] \in BookT
      /\ Granted(book[i], stream[i], stored[i] \union archived[i])
      /\ Reigns(row[s], n, book[i], owner[i], stream[i])
  BY <1>1, SessionIs
<1>4. /\ last \in Grants /\ last = <<s, row[s].gen>> /\ last # i
      /\ owner[last].approved = row[s].approved /\ owner[last].last <= Len(Journal(last))
      /\ Running(row[s], book[last], stream[last])
  <2>1. row[s].gen # n
    BY <1>1
  <2> QED BY <1>1, <2>1, CurrentOf
<1>5. /\ Fenced(s) \in BookT /\ Fenced(s).keys = book[last].keys
      /\ Count(Fenced(s)) = Count(book[last])
      /\ Granted(Fenced(s), stream[last], Evidence(last))
      /\ Fenced(s).billed = Unbilled => Fenced(s).pending = Fenced(s).keys
  BY <1>1, FencedIs
<1>6. n > row[s].gen /\ ~(n <= row[s].gen)
  BY <1>1
<1>7. book[i].keys = {} /\ owner[i] = NoOwner
  BY <1>1, <1>3, <1>6 DEF Reigns
<1>8. /\ Write(s, r) /\ UNCHANGED <<exists, stored, archived, stream>>
      /\ book' = [book EXCEPT ![last] = Fenced(s), ![i] = b]
  BY <1>1, <1>2, <1>4 DEF AuthorizeNext
<1>9. Typed
  BY DEF Sound
<1> HIDE DEF r, n, last
<1>10. /\ row' \in [Sessions -> RowT] /\ owner' \in [Grants -> OwnerT]
       /\ \A t \in Sessions : row'[t] = IF t = s THEN r ELSE row[t]
       /\ \A j \in Grants : j # i => owner'[j] = owner[j]
       /\ owner'[i].approved = Larger(owner[i].approved, r.approved)
       /\ owner'[i].last = Larger(owner[i].last, r.seq)
  BY <1>1, <1>2, <1>8, <1>9, Written
<1>11. owner'[i].approved = Window /\ owner'[i].last = 0
  BY <1>2, <1>7, <1>10, Bounds DEF NoOwner, Larger
<1>12. /\ b \in BookT /\ Granted(b, stream[i], stored[i] \union archived[i])
       /\ Count(b) = 1 /\ b.keys # {} /\ b.pending = b.keys /\ Running(r, b, stream[i])
  BY <1>2, <1>3, <1>7, FreshGrant
<1> HIDE DEF b
<1>13. /\ book' \in [Grants -> BookT] /\ book'[last] = Fenced(s) /\ book'[i] = b
       /\ \A j \in Grants : j # i /\ j # last => book'[j] = book[j]
  BY <1>3, <1>4, <1>5, <1>8, <1>9, <1>12 DEF Typed
<1>14. Typed'
  BY <1>8, <1>9, <1>10, <1>13 DEF Typed
<1>15. ASSUME NEW g \in 1..MaxGen
       PROVE  LET j == <<s, g>> IN
              /\ Granted(book'[j], stream'[j], stored'[j] \union archived'[j])
              /\ Reigns(row'[s], g, book'[j], owner'[j], stream'[j])
  <2> DEFINE j == <<s, g>>
  <2>1. /\ j \in Grants /\ Granted(book[j], stream[j], stored[j] \union archived[j])
        /\ Reigns(row[s], g, book[j], owner[j], stream[j])
    BY SessionIs
  <2>2. row'[s] = r /\ g \in Nat
    BY <1>10, Bounds
  <2>3. CASE g = n
    <3>1. Len(stream[i].journal) \in Nat
      BY <1>3, GrantTyped DEF Journal
    <3>2. Reigns(r, n, b, owner'[i], stream[i])
      BY <1>1, <1>2, <1>11, <1>12, <3>1, Bounds DEF Reigns
    <3> QED BY <1>8, <1>12, <1>13, <2>2, <2>3, <3>2
  <2>4. CASE g = row[s].gen
    <3>1. j = last
      BY <1>4, <2>4
    <3>2. ~(g > n) /\ g # n
      BY <1>1, <1>6, <2>4
    <3>3. owner'[last] = owner[last] /\ owner[last].approved = Window * Count(Fenced(s))
      BY <1>4, <1>5, <1>10 DEF Running
    <3>4. Reigns(r, g, Fenced(s), owner[last], stream[last])
      BY <1>2, <1>4, <1>5, <3>2, <3>3 DEF Reigns, Journal
    <3> HIDE DEF j
    <3> QED BY <1>5, <1>8, <1>13, <2>2, <3>1, <3>3, <3>4 DEF Evidence, j
  <2>5. CASE g # n /\ g # row[s].gen
    <3>1. j # i /\ j # last
      BY <1>4, <2>5
    <3>2. g > n => g > row[s].gen
      BY <1>1, <1>6, <2>2
    <3>3. g <= n => g <= row[s].gen
      BY <1>1, <2>2, <2>5 DEF n
    <3> HIDE DEF j
    <3>4. Reigns(r, g, book[j], owner[j], stream[j])
      BY <1>1, <1>2, <2>1, <2>5, <3>2, <3>3 DEF Reigns
    <3> QED BY <1>8, <1>10, <1>13, <2>1, <2>2, <3>1, <3>4 DEF j
  <2> QED BY <2>3, <2>4, <2>5
<1>16. MaxGen > 0 => BeginsOnce(s)'
  <2> SUFFICES ASSUME MaxGen > 0 PROVE book'[<<s, 1>>].keys # {}
    BY DEF BeginsOnce
  <2>1. book[<<s, 1>>].keys # {}
    BY <1>1 DEF Sound, BeginsOnce
  <2>2. <<s, 1>> \in Grants
    BY Bounds DEF Grants
  <2>3. <<s, 1>> # i
    BY <1>1, <1>6
  <2> QED BY <1>5, <1>13, <2>1, <2>2, <2>3
<1>17. /\ \A t \in Sessions : t # s => row'[t] = row[t]
       /\ \A j \in Grants : j[1] # s => /\ book'[j] = book[j] /\ owner'[j] = owner[j]
                                       /\ stream'[j] = stream[j]
                                       /\ stored'[j] = stored[j] /\ archived'[j] = archived[j]
  BY <1>4, <1>8, <1>10, <1>13
<1>18. row'[s].gen # 0 /\ row'[s].durable = row[s].durable
  BY <1>2, <1>6, <1>10, <1>1
<1>19. Sound'
  BY <1>14, <1>15, <1>16, <1>17, <1>18, SessionStep
<1> QED BY <1>18, <1>19

\* A deleted session leaves its keys.
LEMMA DeleteSound ==
  ASSUME Sound, NEW s \in Sessions, Delete(s)
  PROVE  Sound' /\ row'[s].gen = 0
<1> DEFINE B(j) == [book[j] EXCEPT !.billed = Unbilled]
<1>1. \A g \in 1..MaxGen : book[<<s, g>>].pending = {}
  BY DEF Delete
<1>2. /\ row' = [row EXCEPT ![s] = NoRow] /\ exists' = [exists EXCEPT ![s] = FALSE]
      /\ book' = [j \in Grants |-> IF j[1] = s THEN B(j) ELSE book[j]]
      /\ stored' = [j \in Grants |-> IF j[1] = s THEN {} ELSE stored[j]]
      /\ archived' = [j \in Grants |-> IF j[1] = s THEN {} ELSE archived[j]]
      /\ owner' = [j \in Grants |-> IF j[1] = s THEN NoOwner ELSE owner[j]]
      /\ stream' = stream
  BY DEF Delete, Cleared
<1>3. \A j \in Grants : /\ B(j) \in BookT /\ B(j).keys = book[j].keys
                         /\ B(j).pending = book[j].pending /\ B(j).billed = Unbilled
                         /\ B(j).charge = book[j].charge
  BY DEF Sound, Typed, BookT
<1> HIDE DEF B
<1>4. Typed
  BY DEF Sound
<1>5. row'[s] = NoRow /\ \A t \in Sessions : t # s => row'[t] = row[t]
  BY <1>2, <1>4 DEF Typed
<1>6. Typed'
  <2>1. row' \in [Sessions -> RowT] /\ exists' \in [Sessions -> BOOLEAN]
    BY <1>2, <1>4, NothingTyped DEF Typed
  <2>2. book' \in [Grants -> BookT] /\ owner' \in [Grants -> OwnerT]
    BY <1>2, <1>3, <1>4, NothingTyped DEF Typed
  <2>3. stored' \in [Grants -> SUBSET Nat] /\ archived' \in [Grants -> SUBSET Nat]
    BY <1>2, <1>4 DEF Typed
  <2> QED BY <1>2, <1>4, <2>1, <2>2, <2>3 DEF Typed
<1>7. ASSUME NEW g \in 1..MaxGen
      PROVE  LET j == <<s, g>> IN
             /\ Granted(book'[j], stream'[j], stored'[j] \union archived'[j])
             /\ Reigns(row'[s], g, book'[j], owner'[j], stream'[j])
  <2> DEFINE j == <<s, g>>
  <2>1. /\ j \in Grants /\ j[1] = s /\ Granted(book[j], stream[j], stored[j] \union archived[j])
    BY SessionIs
  <2>2. /\ book'[j] = B(j) /\ owner'[j] = NoOwner /\ stored'[j] \union archived'[j] = {}
    BY <1>2, <2>1
  <2>3. B(j).pending = {} /\ B(j).keys = book[j].keys /\ B(j).billed = Unbilled
    BY <1>1, <1>3, <2>1
  <2>4. g > NoRow.gen /\ ~(g <= NoRow.gen) /\ NoRow.gen = 0 /\ g # NoRow.gen
    BY Bounds DEF NoRow
  <2> HIDE DEF j
  <2>5. Count(B(j)) = Count(book[j])
    BY <2>3 DEF Count
  <2>6. Streaming(B(j), stream[j])
    BY <2>1, <2>5 DEF Granted, Streaming
  <2>7. Granted(B(j), stream[j], {})
    <3>1. B(j).charge = book[j].charge /\ (book[j].keys = {} => Uncharged(book[j]))
      BY <1>3, <2>1 DEF Granted
    <3>2. B(j).keys = {} => Uncharged(B(j))
      BY <2>3, <3>1 DEF Uncharged
    <3> QED BY <2>1, <2>3, <2>5, <2>6, <3>2 DEF Granted
  <2>8. Reigns(NoRow, g, B(j), NoOwner, stream[j])
    BY <2>4 DEF Reigns
  <2> QED BY <1>2, <1>5, <2>2, <2>7, <2>8 DEF j
<1>8. MaxGen > 0 => BeginsOnce(s)'
  <2>1. \A g \in 1..MaxGen : <<s, g>> \in Grants /\ book'[<<s, g>>].keys = book[<<s, g>>].keys
    <3> SUFFICES ASSUME NEW g \in 1..MaxGen
                 PROVE  <<s, g>> \in Grants /\ book'[<<s, g>>].keys = book[<<s, g>>].keys
      OBVIOUS
    <3>1. <<s, g>> \in Grants /\ <<s, g>>[1] = s
      BY DEF Grants
    <3> QED BY <1>2, <1>3, <3>1
  <2>2. MaxGen > 0 => 1 \in 1..MaxGen
    BY Bounds
  <2>3. row'[s].gen = 0
    BY <1>5 DEF NoRow
  <2> QED BY <2>1, <2>2, <2>3 DEF Sound, BeginsOnce
<1>9. \A j \in Grants : j[1] # s => /\ book'[j] = book[j] /\ owner'[j] = owner[j]
                                    /\ stream'[j] = stream[j]
                                    /\ stored'[j] = stored[j] /\ archived'[j] = archived[j]
  BY <1>2
<1>10. Sound'
  BY <1>5, <1>6, <1>7, <1>8, <1>9, SessionStep
<1> QED BY <1>5, <1>10 DEF NoRow

LEMMA RecreateSound ==
  ASSUME Sound, NEW s \in Sessions, Recreate(s)
  PROVE  Sound'
BY DEF Recreate, Sound, Typed, Evidence, BeginsOnce

-----------------------------------------------------------------------------
(* Every step                                                              *)

\* What DurableStands says of a step.
Stands == \A s \in Sessions : row'[s].gen # 0 => row'[s].durable >= row[s].durable

LEMMA DurableTyped ==
  ASSUME Sound
  PROVE  \A s \in Sessions : row[s].durable \in Nat /\ row[s].durable >= row[s].durable
<1>1. \A s \in Sessions : row[s].durable \in Nat
  BY DEF Sound, Typed, RowT
<1> QED BY <1>1

\* A step that changes one row, and not its watermark.
LEMMA SameMark ==
  ASSUME Sound, NEW s \in Sessions, NEW r, row' = [row EXCEPT ![s] = r],
         r.gen = 0 \/ r.durable = row[s].durable
  PROVE  Stands
<1>1. row'[s] = r /\ \A t \in Sessions : t # s => row'[t] = row[t]
  BY DEF Sound, Typed
<1> QED BY <1>1, DurableTyped DEF Stands

LEMMA SessionSteps ==
  ASSUME Sound, NEW s \in Sessions,
         \/ AuthorizeFirst(s) \/ AuthorizeNext(s) \/ Connect(s) \/ Renew(s) \/ Age(s)
         \/ Reap(s) \/ Cancel(s) \/ Delete(s) \/ Recreate(s)
  PROVE  Sound' /\ Stands
<1>1. row[s] \in RowT
  BY DEF Sound, Typed
<1>2. CASE AuthorizeFirst(s)
  <2>1. row' = [row EXCEPT ![s] = FirstRow] /\ row[s] = NoRow
    BY <1>2 DEF AuthorizeFirst, Write, Sound
  <2>2. FirstRow.durable = row[s].durable
    BY <2>1 DEF FirstRow, NoRow
  <2> QED BY <1>2, <2>1, <2>2, AuthorizeFirstSound, SameMark
<1>3. CASE AuthorizeNext(s)
  <2>1. row' = [row EXCEPT ![s] = Successor(row[s])]
    BY <1>3 DEF AuthorizeNext, Write
  <2>2. row'[s] = Successor(row[s])
    BY <2>1 DEF Sound, Typed
  <2> QED BY <1>3, <2>1, <2>2, AuthorizeNextSound, SameMark
<1>4. CASE Connect(s)
  <2>1. row' = [row EXCEPT ![s] = [row[s] EXCEPT !.status = "connected"]]
    BY <1>4 DEF Connect, Write
  <2>2. [row[s] EXCEPT !.status = "connected"].durable = row[s].durable
    BY <1>1 DEF RowT
  <2> QED BY <1>4, <2>1, <2>2, ConnectSound, SameMark
<1>5. CASE Renew(s)
  <2> DEFINE r == [row[s] EXCEPT !.approved = IF Low(row[s]) THEN @ + Window ELSE @]
  <2>1. row' = [row EXCEPT ![s] = r]
    BY <1>5 DEF Renew, Write
  <2>2. r.durable = row[s].durable
    BY <1>1 DEF RowT
  <2> HIDE DEF r
  <2> QED BY <1>5, <2>1, <2>2, RenewSound, SameMark
<1>6. CASE Age(s)
  <2>1. PICK l \in {"late", "expired", "lapsed"} : row' = [row EXCEPT ![s] = [row[s] EXCEPT !.lease = l]]
    BY <1>6 DEF Age
  <2>2. [row[s] EXCEPT !.lease = l].durable = row[s].durable
    BY <1>1 DEF RowT
  <2> QED BY <1>6, <2>1, <2>2, AgeSound, SameMark
<1>7. CASE Reap(s) \/ Cancel(s)
  <2>1. row' = [row EXCEPT ![s] = [row[s] EXCEPT !.status = "closed"]]
    BY <1>7 DEF Reap, Cancel, Closed, Write
  <2>2. [row[s] EXCEPT !.status = "closed"].durable = row[s].durable
    BY <1>1 DEF RowT
  <2> QED BY <1>7, <2>1, <2>2, ReapSound, SameMark
<1>8. CASE Delete(s)
  <2>1. row' = [row EXCEPT ![s] = NoRow] /\ NoRow.gen = 0
    BY <1>8 DEF Delete, NoRow
  <2> QED BY <1>8, <2>1, DeleteSound, SameMark
<1>9. CASE Recreate(s)
  <2>1. row' = row
    BY <1>9 DEF Recreate
  <2> QED BY <1>9, <2>1, RecreateSound, DurableTyped DEF Stands
<1> QED BY <1>2, <1>3, <1>4, <1>5, <1>6, <1>7, <1>8, <1>9

LEMMA GrantSteps ==
  ASSUME Sound, NEW i \in Grants,
         \/ Send(i) \/ Report(i) \/ Final(i) \/ Finish(i) \/ Break(i)
         \/ \E k \in Events(i) : Event(i, k) \/ Archive(i, k)
  PROVE  Sound' /\ Stands
<1>1. CASE Send(i) \/ Report(i) \/ Final(i) \/ Finish(i) \/ Break(i)
  <2>1. row' = row
    BY <1>1 DEF Send, Report, Final, Finish, Break, Node
  <2>2. Sound'
    BY <1>1, SendSound, JournalSound, BreakSound
  <2> QED BY <2>1, <2>2, DurableTyped DEF Stands
<1>2. CASE \E k \in Events(i) : Event(i, k)
  <2>1. PICK k \in Events(i) : Event(i, k)
    BY <1>2
  <2>2. Sound' /\ row'[i[1]].durable >= row[i[1]].durable
    BY <2>1, EventSound
  <2>3. \A t \in Sessions : t # i[1] => row'[t] = row[t]
    BY <2>1 DEF Event, Write, Sound, Typed
  <2> QED BY <2>2, <2>3, DurableTyped DEF Stands
<1>3. CASE \E k \in Events(i) : Archive(i, k)
  <2>1. PICK k \in Events(i) : Archive(i, k)
    BY <1>3
  <2>2. Sound' /\ row' = row
    BY <2>1, ArchiveSound DEF Archive
  <2> QED BY <2>2, DurableTyped DEF Stands
<1> QED BY <1>1, <1>2, <1>3

LEMMA NextSound == Sound /\ [Next]_vars => Sound' /\ Stands
<1> SUFFICES ASSUME Sound, [Next]_vars PROVE Sound' /\ Stands
  OBVIOUS
<1>1. CASE Next
  BY <1>1, SessionSteps, GrantSteps DEF Next
<1>2. CASE UNCHANGED vars
  <2>1. Sound' /\ row' = row
    BY <1>2 DEF vars, Sound, Typed, Evidence, BeginsOnce
  <2> QED BY <2>1, DurableTyped DEF Stands
<1> QED BY <1>1, <1>2

\* The invariant holds in every state of every behaviour.
THEOREM SoundAlways == Spec => []Sound
BY InitSound, NextSound, PTL DEF Spec

-----------------------------------------------------------------------------
(* What follows                                                            *)

\* What is sent was granted, and what was granted has a window of its own.
LEMMA PrepaidOfSound == Sound => SentIsPrepaid
<1> SUFFICES ASSUME Sound, NEW i \in Grants
             PROVE  stream[i].sent <= Window * Cardinality(book[i].keys)
  BY DEF SentIsPrepaid
<1>1. stream[i] \in StreamT /\ Granted(book[i], stream[i], Evidence(i))
  BY DEF Sound, Typed
<1>2. /\ stream[i].sent <= stream[i].granted /\ stream[i].granted <= Window * Count(book[i])
      /\ Count(book[i]) \in Nat
  BY <1>1 DEF Granted, Streaming
<1>3. stream[i].sent \in Nat /\ stream[i].granted \in Nat /\ Window * Count(book[i]) \in Nat
  BY <1>1, <1>2, WindowsHold DEF StreamT
<1>4. stream[i].sent <= Window * Count(book[i])
  BY <1>2, <1>3
<1> QED BY <1>4 DEF Count

LEMMA BillOfSound == Sound => BilledIsSent
BY DEF Sound, Granted, BilledIsSent

\* Audio goes to the provider only within windows that were paid for, for any
\* window length and any number of sessions and generations (events.go Renew).
THEOREM AudioIsPaid == Spec => []SentIsPrepaid
BY PrepaidOfSound, SoundAlways, PTL

\* The durable watermark of a session never falls back, through handoffs, lost
\* ends and overtaking reports (service.go Authorize, events.go applyEvent).
THEOREM WatermarkStands == Spec => DurableStands
<1>1. Sound /\ [Next]_vars => [Stands]_vars
  BY NextSound
<1>2. [][Stands]_vars <=> DurableStands
  BY DEF DurableStands, Stands
<1> QED BY <1>1, <1>2, InitSound, NextSound, PTL DEF Spec

\* A reconciled generation was billed for exactly the audio its node sent, keeps
\* no budget pending, and its usage rows add up to the bill (events.go
\* settleGeneration), whatever the order of reports, ends, handoffs and fences.
THEOREM BillIsWhatWasSent == Spec => []BilledIsSent
BY BillOfSound, SoundAlways, PTL

-----------------------------------------------------------------------------
(* A grant is a prepaid stream                                             *)

\* What a step does to the money of a grant: nothing, one window more, audio
\* within the windows, or the bill.
Rests(i) ==
  /\ book'[i].keys = book[i].keys /\ book'[i].pending = book[i].pending
  /\ book'[i].charge = book[i].charge /\ stream'[i].sent = stream[i].sent
  /\ stream'[i].pc = "open" => stream[i].pc = "open" \/ book[i].pending # {}
Pays(i) ==
  /\ book[i].pending = book[i].keys /\ book'[i].pending = book'[i].keys
  /\ Count(book'[i]) = Count(book[i]) + 1
  /\ book'[i].charge = book[i].charge /\ stream'[i].sent = stream[i].sent
Sends(i) ==
  /\ stream[i].pc = "open" /\ book'[i] = book[i]
  /\ stream'[i].sent = stream[i].sent + 1
Bills(i) ==
  /\ book[i].pending # {} /\ book'[i].keys = book[i].keys
  /\ book'[i].pending = {} /\ book'[i].billed # Unbilled
  /\ stream'[i].sent = stream[i].sent
Moves(i) == Rests(i) \/ Pays(i) \/ Sends(i) \/ Bills(i)

LEMMA RestsWhenAlike ==
  ASSUME NEW i, book'[i] = book[i], stream'[i] = stream[i]
  PROVE  Moves(i)
BY DEF Moves, Rests

\* A window more, on books that are all prepaid.
LEMMA PaysWindow ==
  ASSUME NEW i, NEW b \in BookT, b = book[i], b.keys = 1..Count(b), Count(b) \in Nat,
         b.pending = b.keys, NEW w \in Windows, w = Count(b) + 1,
         book'[i] = WithWindow(b, w), stream'[i].sent = stream[i].sent
  PROVE  Moves(i)
<1> DEFINE next == WithWindow(b, w)
<1>1. Count(next) = Count(b) + 1
  BY AnotherWindow
<1>2. next.keys = b.keys \union {w} /\ next.pending = b.pending \union {w} /\ next.charge = b.charge
  BY DEF WithWindow, BookT
<1> HIDE DEF next
<1>3. book'[i] = next
  BY DEF next
<1> QED BY <1>1, <1>2, <1>3 DEF Moves, Pays

\* The first window of a generation.
LEMMA PaysFirst ==
  ASSUME Sound, NEW i \in Grants, book[i].keys = {}, book'[i] = WithWindow(book[i], 1), stream'[i] = stream[i]
  PROVE  Moves(i)
<1>1. book[i] \in BookT /\ Granted(book[i], stream[i], Evidence(i))
  BY GrantTyped DEF Sound
<1>2. Count(book[i]) = 0 /\ book[i].keys = 1..Count(book[i]) /\ book[i].pending = {}
  BY <1>1, FS_EmptySet DEF Granted, Count
<1>3. 1 \in Windows /\ 1 = 0 + 1 /\ 0 \in Nat
  BY Bounds DEF Windows
<1> QED BY <1>1, <1>2, <1>3, PaysWindow

\* The bill of a generation that is all prepaid.
LEMMA BillsOnce ==
  ASSUME NEW i, NEW b \in BookT, b = book[i], b.pending # {}, b.billed = Unbilled, NEW billable \in Nat,
         book'[i] = Settled(b, billable), stream'[i] = stream[i]
  PROVE  Moves(i)
<1> DEFINE end == Settled(b, billable)
<1>1. end.keys = b.keys /\ end.pending = {} /\ end.billed = billable
  BY SettledIs
<1>2. billable # Unbilled
  BY DEF Unbilled
<1> HIDE DEF end
<1>3. book'[i] = end
  BY DEF end
<1> QED BY <1>1, <1>2, <1>3 DEF Moves, Bills

\* The current generation of a session whose row is not closed is all prepaid.
LEMMA OpenIsPrepaid ==
  ASSUME Sound, NEW s \in Sessions, Open(s)
  PROVE  LET i == Current(s) IN
         /\ i \in Grants /\ row[s].gen # 0 /\ book[i] \in BookT /\ book[i].billed = Unbilled
         /\ book[i].keys # {} /\ book[i].pending = book[i].keys
         /\ book[i].keys = 1..Count(book[i]) /\ Count(book[i]) \in Nat
         /\ row[s].approved = Window * Count(book[i])
         /\ row[s].status = "authorized" => stream[i] = NoStream
<1>1. row[s].gen # 0 /\ row[s].status \in {"authorized", "connected"}
  BY Begun DEF Open
<1>2. /\ Current(s) \in Grants /\ Running(row[s], book[Current(s)], stream[Current(s)])
      /\ Granted(book[Current(s)], stream[Current(s)], Evidence(Current(s)))
      /\ book[Current(s)].billed = Unbilled => book[Current(s)].pending = book[Current(s)].keys
  BY <1>1, CurrentOf
<1>3. book[Current(s)] \in BookT
  BY <1>2, GrantTyped
<1> QED BY <1>1, <1>2, <1>3, CountOfNone DEF Running, Granted

\* A fence bills an unused grant and leaves a used one prepaid.
LEMMA FenceMoves ==
  ASSUME Sound, NEW s \in Sessions, row[s].gen # 0,
         book'[Current(s)] = Fenced(s), stream'[Current(s)] = stream[Current(s)]
  PROVE  Moves(Current(s))
<1>1. CASE Untouched(s)
  <2>1. Open(s) /\ book'[Current(s)] = Settled(book[Current(s)], 0)
    BY <1>1 DEF Fenced, Untouched, Open
  <2> QED BY <2>1, OpenIsPrepaid, BillsOnce
<1>2. CASE ~Untouched(s)
  BY <1>2, RestsWhenAlike DEF Fenced
<1> QED BY <1>1, <1>2

\* The steps of the main site.
LEMMA SiteMoves ==
  ASSUME Sound, NEW s \in Sessions, NEW i \in Grants,
         \/ AuthorizeFirst(s) \/ AuthorizeNext(s) \/ Connect(s) \/ Renew(s) \/ Age(s)
         \/ Reap(s) \/ Cancel(s) \/ Delete(s) \/ Recreate(s)
  PROVE  Moves(i)
<1> DEFINE c == Current(s)
<1>0. /\ book \in [Grants -> BookT] /\ stream \in [Grants -> StreamT] /\ row[s] \in RowT
      /\ book[i] \in BookT
  BY DEF Sound, Typed
<1>1. CASE AuthorizeFirst(s)
  <2> DEFINE n == <<s, 1>>
  <2>1. n \in Grants /\ 1 \notin book[n].keys /\ stream' = stream
        /\ book' = [book EXCEPT ![n] = WithWindow(book[n], 1)]
    BY <1>1 DEF AuthorizeFirst
  <2> HIDE DEF n
  <2>2. book[n].keys = 1..Count(book[n]) /\ Count(book[n]) \in Nat
    BY <2>1 DEF Sound, Granted
  <2>3. book[n].keys = {}
    <3>1. ~(1 <= Count(book[n]))
      BY <2>1, <2>2
    <3> QED BY <2>2, <3>1
  <2>4. CASE i = n
    BY <1>0, <2>1, <2>3, <2>4, PaysFirst
  <2>5. CASE i # n
    BY <1>0, <2>1, <2>5, RestsWhenAlike
  <2> QED BY <2>4, <2>5
<1>2. CASE AuthorizeNext(s)
  <2> DEFINE n == <<s, row[s].gen + 1>>
  <2>1. /\ row[s].gen \in 1..(MaxGen - 1) /\ stream' = stream
        /\ book' = [book EXCEPT ![c] = Fenced(s), ![<<s, Successor(row[s]).gen>>] = WithWindow(@, 1)]
    BY <1>2 DEF AuthorizeNext
  <2>2. row[s].gen # 0 /\ Successor(row[s]).gen = row[s].gen + 1 /\ row[s].gen + 1 \in 1..MaxGen
    BY <1>0, <2>1, Bounds DEF Successor, RowT
  <2>3. n \in Grants /\ c \in Grants /\ c # n /\ n[2] = row[s].gen + 1 /\ n[1] = s
    BY <1>0, <2>1, <2>2, CurrentOf DEF Grants, Current
  <2>4. book[n].keys = {}
    <3>1. Reigns(row[s], n[2], book[n], owner[n], stream[n])
      BY <2>3 DEF Sound
    <3>2. n[2] > row[s].gen
      BY <2>1, <2>3
    <3> QED BY <2>2, <3>1, <3>2 DEF Reigns
  <2>5. book'[c] = Fenced(s) /\ book'[n] = WithWindow(book[n], 1)
        /\ \A j \in Grants : j # c /\ j # n => book'[j] = book[j]
    BY <1>0, <2>1, <2>2, <2>3
  <2> HIDE DEF c, n
  <2>6. CASE i = c
    BY <2>1, <2>2, <2>5, <2>6, FenceMoves DEF c
  <2>7. CASE i = n
    BY <2>1, <2>3, <2>4, <2>5, <2>7, PaysFirst
  <2>8. CASE i # c /\ i # n
    BY <2>1, <2>5, <2>8, RestsWhenAlike
  <2> QED BY <2>6, <2>7, <2>8
<1>3. CASE Connect(s)
  <2>1. book' = book /\ row[s].status = "authorized"
    BY <1>3 DEF Connect
  <2>2. Open(s) /\ c \in Grants /\ stream[c] = NoStream /\ book[c].pending # {}
    BY <2>1, OpenIsPrepaid DEF Open
  <2>3. PICK st : stream' = [stream EXCEPT ![c] = st] /\ st.sent = 0
    <3> DEFINE opened == [NoStream EXCEPT !.pc = "open", !.granted = row[s].approved,
                                          !.resume = row[s].resume, !.durable = row[s].durable]
               over == [NoStream EXCEPT !.pc = "over"]
    <3>1. stream' = [stream EXCEPT ![c] = opened] \/ stream' = [stream EXCEPT ![c] = over]
      BY <1>3 DEF Connect
    <3>2. opened.sent = 0 /\ over.sent = 0
      BY DEF NoStream
    <3> HIDE DEF opened, over, c
    <3> QED BY <3>1, <3>2
  <2>4. CASE i = c
    <3>1. stream'[i].sent = 0 /\ stream[i].sent = 0
      BY <1>0, <2>2, <2>3, <2>4 DEF NoStream
    <3> QED BY <2>1, <2>2, <2>4, <3>1 DEF Moves, Rests
  <2>5. CASE i # c
    BY <1>0, <2>1, <2>3, <2>5, RestsWhenAlike
  <2> QED BY <2>4, <2>5
<1>4. CASE Renew(s)
  <2> DEFINE w == NextWindow(row[s].approved)
  <2>1. /\ w \in Windows /\ Open(s)
        /\ book' = IF Low(row[s]) THEN [book EXCEPT ![c] = WithWindow(@, w)] ELSE book
    BY <1>4 DEF Renew, Open
  <2>2. c \in Grants /\ book[c] \in BookT /\ book[c].pending = book[c].keys
        /\ book[c].keys = 1..Count(book[c]) /\ Count(book[c]) \in Nat
        /\ w = Count(book[c]) + 1
    BY <2>1, OpenIsPrepaid, WindowsHold
  <2>3. /\ \A j \in Grants : stream'[j].sent = stream[j].sent /\ stream'[j].pc = stream[j].pc
        /\ \A j \in Grants : j # c => stream'[j] = stream[j]
    <3>1. PICK g : stream' = [stream EXCEPT ![c].granted = g] \/ stream' = stream
      BY <1>4 DEF Renew
    <3> DEFINE st == [stream[c] EXCEPT !.granted = g]
    <3>2. stream[c] \in StreamT
      BY <1>0, <2>2
    <3>3. st.sent = stream[c].sent /\ st.pc = stream[c].pc
      BY <3>2 DEF StreamT
    <3>4. stream' = [stream EXCEPT ![c] = st] \/ stream' = stream
      BY <3>1
    <3> HIDE DEF c, st
    <3> QED BY <1>0, <2>2, <3>3, <3>4
  <2> HIDE DEF c, w
  <2>4. CASE i = c /\ Low(row[s])
    <3>1. book'[i] = WithWindow(book[i], w)
      BY <1>0, <2>1, <2>4
    <3> QED BY <2>1, <2>2, <2>3, <2>4, <3>1, PaysWindow
  <2>5. CASE i # c \/ ~Low(row[s])
    <3>1. book'[i] = book[i]
      BY <1>0, <2>1, <2>5
    <3> QED BY <2>3, <3>1 DEF Moves, Rests
  <2> QED BY <2>4, <2>5
<1>5. CASE Age(s) \/ Recreate(s)
  BY <1>5, RestsWhenAlike DEF Age, Recreate
<1>6. CASE Reap(s)
  <2>1. Open(s) /\ stream' = stream /\ book' = [book EXCEPT ![c] = Fenced(s)]
    BY <1>6 DEF Reap
  <2>2. c \in Grants /\ row[s].gen # 0
    BY <2>1, OpenIsPrepaid
  <2>3. book'[c] = Fenced(s) /\ \A j \in Grants : j # c => book'[j] = book[j]
    BY <1>0, <2>1, <2>2
  <2> HIDE DEF c
  <2>4. CASE i = c
    BY <2>1, <2>2, <2>3, <2>4, FenceMoves DEF c
  <2>5. CASE i # c
    BY <2>1, <2>3, <2>5, RestsWhenAlike
  <2> QED BY <2>4, <2>5
<1>7. CASE Cancel(s)
  <2>1. Open(s) /\ stream' = stream /\ book' = [book EXCEPT ![c] = Settled(book[c], 0)]
    BY <1>7 DEF Cancel, Untouched, Open
  <2>2. c \in Grants /\ book[c] \in BookT /\ book[c].billed = Unbilled /\ book[c].pending # {}
    BY <2>1, OpenIsPrepaid
  <2>3. book'[c] = Settled(book[c], 0) /\ \A j \in Grants : j # c => book'[j] = book[j]
    BY <1>0, <2>1, <2>2
  <2> HIDE DEF c
  <2>4. CASE i = c
    BY <2>1, <2>2, <2>3, <2>4, BillsOnce
  <2>5. CASE i # c
    BY <2>1, <2>3, <2>5, RestsWhenAlike
  <2> QED BY <2>4, <2>5
<1>8. CASE Delete(s)
  <2>1. stream' = stream
        /\ book' = [j \in Grants |-> IF j[1] = s THEN [book[j] EXCEPT !.billed = Unbilled] ELSE book[j]]
    BY <1>8 DEF Delete
  <2>2. book'[i] = book[i] \/ book'[i] = [book[i] EXCEPT !.billed = Unbilled]
    BY <2>1
  <2>3. book'[i].keys = book[i].keys /\ book'[i].pending = book[i].pending /\ book'[i].charge = book[i].charge
    BY <1>0, <2>2 DEF BookT
  <2> QED BY <2>1, <2>3 DEF Moves, Rests
<1> QED BY <1>1, <1>2, <1>3, <1>4, <1>5, <1>6, <1>7, <1>8

\* The steps of a node, and of the main site with its events.
LEMMA NodeMoves ==
  ASSUME Sound, NEW n \in Grants, NEW i \in Grants,
         \/ Send(n) \/ Report(n) \/ Final(n) \/ Finish(n) \/ Break(n)
         \/ \E k \in Events(n) : Event(n, k) \/ Archive(n, k)
  PROVE  Moves(i)
<1>0. /\ book \in [Grants -> BookT] /\ stream \in [Grants -> StreamT]
      /\ book[n] \in BookT /\ stream[n] \in StreamT
  BY DEF Sound, Typed
<1>1. CASE Send(n)
  <2>1. book' = book /\ stream[n].pc = "open" /\ stream' = [stream EXCEPT ![n].sent = @ + 1]
    BY <1>1 DEF Send, Node
  <2>2. CASE i = n
    <3>1. stream'[i].sent = stream[i].sent + 1
      BY <1>0, <2>1, <2>2 DEF StreamT
    <3> QED BY <2>1, <2>2, <3>1 DEF Moves, Sends
  <2>3. CASE i # n
    BY <1>0, <2>1, <2>3, RestsWhenAlike
  <2> QED BY <2>2, <2>3
<1>2. CASE Report(n) \/ Final(n) \/ Finish(n) \/ Break(n)
  <2>1. book' = book /\ stream[n].pc = "open"
    BY <1>2 DEF Report, Final, Finish, Break, Node
  <2>2. stream'[n].sent = stream[n].sent /\ \A j \in Grants : j # n => stream'[j] = stream[j]
    <3>1. CASE Report(n)
      BY <1>0, <3>1 DEF Report, StreamT
    <3>2. CASE Final(n)
      <4>1. PICK d \in stream[n].durable..(stream[n].resume + stream[n].sent) :
              stream' = [stream EXCEPT ![n].journal = Journalled(n, "final", d), ![n].durable = d]
        BY <3>2 DEF Final
      <4> QED BY <1>0, <4>1 DEF StreamT
    <3>3. CASE Finish(n)
      BY <1>0, <3>3 DEF Finish, StreamT
    <3>4. CASE Break(n)
      BY <1>0, <3>4 DEF Break, StreamT
    <3> QED BY <1>2, <3>1, <3>2, <3>3, <3>4
  <2>3. CASE i = n
    BY <2>1, <2>2, <2>3 DEF Moves, Rests
  <2>4. CASE i # n
    BY <2>1, <2>2, <2>4, RestsWhenAlike
  <2> QED BY <2>3, <2>4
<1>3. CASE \E k \in Events(n) : Event(n, k)
  <2> DEFINE s == n[1]
  <2>1. PICK k \in Events(n) : Event(n, k)
    BY <1>3
  <2> DEFINE after == After(n, k)
  <2>2. /\ s \in Sessions /\ Current(s) = n /\ Open(s) /\ stream' = stream
        /\ book' = IF after.status = "closed"
                   THEN [book EXCEPT ![n] = Settled(book[n], after.consumed)] ELSE book
        /\ row' = [row EXCEPT ![s] = after]
    BY <2>1, Parts DEF Event, Accepts, Write
  <2>3. after.consumed \in Nat
    <3>1. Sound'
      BY <2>1, EventSound
    <3>2. row'[s] = after /\ row'[s] \in RowT
      BY <2>2, <3>1 DEF Sound, Typed
    <3> QED BY <3>2 DEF RowT
  <2>4. book[n].billed = Unbilled /\ book[n].pending # {}
    BY <2>2, OpenIsPrepaid
  <2> HIDE DEF s, after
  <2>5. CASE i = n /\ after.status = "closed"
    <3>1. book'[i] = Settled(book[i], after.consumed)
      BY <1>0, <2>2, <2>5
    <3> QED BY <1>0, <2>2, <2>3, <2>4, <2>5, <3>1, BillsOnce
  <2>6. CASE i # n \/ after.status # "closed"
    BY <1>0, <2>2, <2>6, RestsWhenAlike
  <2> QED BY <2>5, <2>6
<1>4. CASE \E k \in Events(n) : Archive(n, k)
  <2>1. PICK k \in Events(n) : Archive(n, k)
    BY <1>4
  <2> DEFINE billable == Journal(n)[k].samples
  <2>2. stream' = stream
        /\ book' = IF LateEnd(n, k) THEN [book EXCEPT ![n] = Settled(book[n], billable)] ELSE book
    BY <2>1 DEF Archive
  <2>3. billable \in Nat
    BY <2>1, JournalIs DEF EventT
  <2> HIDE DEF billable
  <2>4. CASE i = n /\ LateEnd(n, k)
    <3>1. book'[i] = Settled(book[i], billable) /\ book[i].billed = Unbilled /\ book[i].pending # {}
      BY <1>0, <2>2, <2>4 DEF LateEnd
    <3> QED BY <1>0, <2>2, <2>3, <2>4, <3>1, BillsOnce
  <2>5. CASE i # n \/ ~LateEnd(n, k)
    BY <1>0, <2>2, <2>5, RestsWhenAlike
  <2> QED BY <2>4, <2>5
<1> QED BY <1>1, <1>2, <1>3, <1>4

\* A grant is prepaid as a whole or not at all; one that is settled sends no
\* more and its usage rows cost what it sent, also after its session is deleted,
\* which takes the bill but not the usage rows.
Whole(i) ==
  /\ book[i].pending \in {{}, book[i].keys}
  /\ Reconciled(i) => stream[i].pc # "open" /\ SumFunction(book[i].charge) = stream[i].sent

LEMMA WholeMoves ==
  ASSUME NEW i \in Grants, Sound, Sound', Moves(i), Whole(i)
  PROVE  Whole(i)'
<1>1. /\ Granted(book'[i], stream'[i], Evidence(i)') /\ Granted(book[i], stream[i], Evidence(i))
  BY DEF Sound
<1>2. CASE Rests(i)
  BY <1>2 DEF Rests, Whole, Reconciled
<1>3. CASE Pays(i)
  <2>1. book'[i].pending = book'[i].keys
    BY <1>3 DEF Pays
  <2> QED BY <2>1 DEF Whole, Reconciled
<1>4. CASE Sends(i)
  <2>1. ~Reconciled(i)
    BY <1>4 DEF Sends, Whole
  <2> QED BY <1>4, <2>1 DEF Sends, Whole, Reconciled
<1>5. CASE Bills(i)
  BY <1>1, <1>5 DEF Bills, Whole, Granted
<1> QED BY <1>2, <1>3, <1>4, <1>5 DEF Moves

\* What its usage rows cost.
LEMMA CostTyped ==
  ASSUME NEW b \in BookT
  PROVE  /\ SumFunction(b.charge) \in Nat /\ Cardinality(b.pending) \in Nat
         /\ Uncharged(b) => SumFunction(b.charge) = 0
<1>1. IsFiniteSet(Windows) /\ DOMAIN b.charge = Windows /\ b.pending \subseteq Windows
      /\ \A w \in Windows : b.charge[w] \in Nat
  <2>1. IsFiniteSet(1..MaxWindows)
    BY Bounds, FS_Interval
  <2> QED BY <2>1 DEF Windows, BookT
<1>2. SumFunction(b.charge) = SumFunctionOnSet(b.charge, Windows)
  BY <1>1 DEF SumFunction
<1>3. SumFunctionOnSet(b.charge, Windows) \in Nat
  BY <1>1, SumNat
<1>4. Uncharged(b) => SumFunctionOnSet(b.charge, Windows) = 0 * Cardinality(Windows) /\ Cardinality(Windows) \in Nat
  BY <1>1, SumConstant DEF Uncharged
<1>5. Cardinality(b.pending) \in Nat
  BY <1>1, FS_Subset, FS_CardinalityType
<1> QED BY <1>2, <1>3, <1>4, <1>5

LEMMA GenerationStarts ==
  ASSUME NEW i \in Grants, Init
  PROVE  Generation(i)!Init /\ Whole(i)
<1>1. book[i] = NoBook /\ stream[i] = NoStream /\ Sound
  BY InitSound DEF Init
<1>2. /\ book[i].keys = {} /\ book[i].pending = {} /\ stream[i].sent = 0 /\ Uncharged(book[i]) /\ book[i] \in BookT
  BY <1>1, NothingTyped DEF NoBook, NoStream, Uncharged
<1>3. Cost(i) = 0
  <2>1. Cardinality(book[i].pending) = 0 /\ SumFunction(book[i].charge) = 0 /\ Window * 0 + 0 = 0
    BY <1>2, CostTyped, FS_EmptySet, Bounds
  <2> QED BY <2>1 DEF Cost
<1>4. Reconciled(i) = FALSE
  BY <1>2 DEF Reconciled
<1> QED BY <1>2, <1>3, <1>4 DEF Whole, Generation!Init

LEMMA GenerationMoves ==
  ASSUME NEW i \in Grants, Sound, Sound', Whole(i), Moves(i)
  PROVE  [Generation(i)!Next]_<<Cost(i), stream[i].sent, Reconciled(i)>>
<1>1. /\ book[i] \in BookT /\ stream[i] \in StreamT /\ Granted(book[i], stream[i], Evidence(i))
      /\ book'[i] \in BookT /\ stream'[i] \in StreamT /\ Granted(book'[i], stream'[i], Evidence(i)')
  BY DEF Sound, Typed
<1> DEFINE charged == SumFunction(book[i].charge)
           charged2 == SumFunction(book'[i].charge)
<1>2. /\ charged \in Nat /\ charged2 \in Nat /\ Cardinality(book[i].pending) \in Nat
      /\ Count(book[i]) \in Nat /\ Count(book'[i]) \in Nat /\ stream[i].sent \in Nat /\ stream'[i].sent \in Nat
      /\ Cost(i) = Window * Cardinality(book[i].pending) + charged
      /\ Cost(i)' = Window * Cardinality(book'[i].pending) + charged2
  BY <1>1, CostTyped DEF Cost, Granted, StreamT
<1>3. CASE Rests(i)
  <2>1. UNCHANGED <<Cost(i), stream[i].sent, Reconciled(i)>>
    BY <1>3 DEF Rests, Cost, Reconciled
  <2> QED BY <2>1
<1> HIDE DEF charged, charged2
<1>4. CASE Pays(i)
  <2>1. Cost(i) = Window * Count(book[i]) + charged /\ Cost(i)' = Window * (Count(book[i]) + 1) + charged
    BY <1>2, <1>4 DEF Pays, Count, charged, charged2
  <2>2. Cost(i)' \in Nat /\ Cost(i)' > Cost(i)
    BY <1>2, <2>1, WindowsHold, Bounds
  <2>3. Reconciled(i) = FALSE /\ Reconciled(i)' = FALSE
    BY <1>4 DEF Pays, Reconciled
  <2>4. stream'[i].sent = stream[i].sent
    BY <1>4 DEF Pays
  <2>5. Generation(i)!Pay
    BY <2>2, <2>3, <2>4 DEF Generation!Pay
  <2> QED BY <2>5 DEF Generation!Next
<1>5. CASE Sends(i)
  <2>1. ~Reconciled(i) /\ book[i].keys # {}
    BY <1>1, <1>5 DEF Sends, Whole, Granted, NoStream
  <2>2. book[i].pending = book[i].keys
    BY <2>1 DEF Reconciled, Whole
  <2>3. stream'[i].sent <= Window * Count(book[i])
    <3>1. /\ stream'[i].sent <= stream'[i].granted /\ stream'[i].granted <= Window * Count(book[i])
          /\ stream'[i].granted \in Nat /\ Window * Count(book[i]) \in Nat
      BY <1>1, <1>2, <1>5, WindowsHold DEF Granted, Streaming, Sends, StreamT
    <3> QED BY <1>2, <3>1
  <2>4. stream'[i].sent <= Cost(i)
    <3>1. Cost(i) = Window * Count(book[i]) + charged /\ Window * Count(book[i]) \in Nat
      BY <1>2, <2>2, WindowsHold DEF Count
    <3> QED BY <1>2, <2>3, <3>1
  <2>5. stream[i].sent < stream'[i].sent /\ Cost(i)' = Cost(i) /\ Reconciled(i)' = Reconciled(i)
    BY <1>2, <1>5 DEF Sends, Cost, Reconciled
  <2>6. Generation(i)!Send
    BY <1>2, <2>1, <2>4, <2>5 DEF Generation!Send
  <2> QED BY <2>6 DEF Generation!Next
<1>6. CASE Bills(i)
  <2>1. ~Reconciled(i) /\ stream'[i].sent = stream[i].sent
    BY <1>6 DEF Bills, Reconciled
  <2>2. Reconciled(i)' = TRUE
    BY <1>1, <1>6 DEF Bills, Reconciled, Whole
  <2>3. Cost(i)' = stream[i].sent
    <3>1. charged2 = stream[i].sent
      BY <1>1, <1>6 DEF Granted, Bills, charged2
    <3>2. Cardinality(book'[i].pending) = 0 /\ Window * 0 = 0
      BY <1>6, FS_EmptySet, Bounds DEF Bills
    <3> QED BY <1>2, <3>1, <3>2
  <2>4. Generation(i)!Bill
    BY <2>1, <2>2, <2>3 DEF Generation!Bill
  <2> QED BY <2>4 DEF Generation!Next
<1> QED BY <1>3, <1>4, <1>5, <1>6 DEF Moves

LEMMA NextMoves ==
  ASSUME Sound, [Next]_vars, NEW i \in Grants
  PROVE  Sound' /\ Moves(i)
<1>1. CASE Next
  BY <1>1, SiteMoves, NodeMoves, NextSound DEF Next
<1>2. CASE UNCHANGED vars
  BY <1>2, NextSound, RestsWhenAlike DEF vars
<1> QED BY <1>1, <1>2

\* Each generation's grant is a prepaid stream to the account that pays for it
\* (service.go Authorize and fenceIncomplete, events.go Renew and
\* settleGeneration, archive.go): windows are paid before audio is sent within
\* them, one bill for what was sent gives the rest back, and then neither audio
\* nor money moves, through handoffs, lost ends, the reaper and deletions.
THEOREM GrantIsPrepaid ==
  ASSUME NEW i \in Grants PROVE Spec => Generation(i)!Spec
<1> DEFINE I == Sound /\ Whole(i)
<1>1. Init => I /\ Generation(i)!Init
  BY InitSound, GenerationStarts
<1>2. I /\ [Next]_vars => I' /\ [Generation(i)!Next]_<<Cost(i), stream[i].sent, Reconciled(i)>>
  BY NextMoves, WholeMoves, GenerationMoves
<1> HIDE DEF I
<1> QED BY <1>1, <1>2, PTL DEF Spec, Generation!Spec

\* An end and all that is on record of its generation.
LEMMA EndIsLast ==
  ASSUME Sound, NEW i \in Grants, NEW k \in Events(i), Journal(i)[k].kind = "end",
         row[i[1]].gen >= i[2], book[i].pending # {}, NEW last \in Nat, last <= Len(Journal(i))
  PROVE  Terminal(i, k, last) /\ Payable(book[i], Journal(i)[k].samples)
<1> DEFINE r == row[i[1]]
           J == Journal(i)
<1>1. /\ k = Len(J) /\ k \in Nat /\ J[k].samples \in Nat
      /\ J[k].samples <= stream[i].sent /\ stream[i].sent <= Window * Count(book[i])
      /\ \A j \in 1..k : J[j].samples <= J[k].samples
  BY JournalIs, GrantTyped DEF EventT
<1>2. /\ i[1] \in Sessions /\ i[2] \in 1..MaxGen /\ i = <<i[1], i[2]>> /\ r \in RowT
      /\ Granted(book[i], stream[i], Evidence(i)) /\ Reigns(r, i[2], book[i], owner[i], stream[i])
  BY Parts DEF Sound, Typed
<1>3. J = stream[i].journal /\ stream[i].sent \in Nat /\ Window * Count(book[i]) \in Nat
  BY <1>2, GrantTyped, WindowsHold DEF Journal, StreamT, Granted
<1>4. book[i].pending = book[i].keys
  <2>1. i[2] <= r.gen
    BY <1>2, Bounds DEF RowT
  <2>2. book[i].billed = Unbilled
    BY <1>2 DEF Granted
  <2> QED BY <1>2, <2>1, <2>2 DEF Reigns
<1>5. \A j \in Evidence(i) : j <= k /\ J[j].samples <= J[k].samples
  <2>1. Evidence(i) \subseteq 1..k
    BY <1>1, <1>2, <1>3 DEF Granted
  <2> HIDE DEF J
  <2> QED BY <1>1, <2>1
<1>6. ASSUME Current(i[1]) = i PROVE r.seq <= k /\ r.consumed <= J[k].samples
  <2>1. i[2] = r.gen
    BY <1>2, <1>6 DEF Current
  <2>2. Consumed(r, J)
    BY <1>2, <1>3, <2>1 DEF Reigns, Running
  <2>3. r.seq <= k /\ r.seq \in Nat
    BY <1>1, <1>2, <2>2 DEF Consumed, RowT
  <2>4. CASE r.seq = 0
    BY <1>1, <2>2, <2>3, <2>4 DEF Consumed
  <2>5. CASE r.seq # 0
    <3>1. r.seq \in 1..k
      BY <1>1, <2>3, <2>5
    <3> QED BY <1>1, <2>2, <2>3, <2>5, <3>1 DEF Consumed
  <2> QED BY <2>4, <2>5
<1>7. Payable(book[i], J[k].samples)
  <2>1. J[k].samples <= Window * Count(book[i])
    BY <1>1, <1>3
  <2> QED BY <1>4, <2>1 DEF Payable, Count
<1> QED BY <1>1, <1>5, <1>6, <1>7 DEF Terminal

\* The next event in order is not in conflict with the row.
LEMMA NextApplies ==
  ASSUME Sound, NEW s \in Sessions, Open(s), row[s].seq + 1 \in Events(Current(s))
  PROVE  Applicable(row[s], Current(s), row[s].seq + 1)
<1> DEFINE i == Current(s)
           r == row[s]
           J == Journal(i)
           k == r.seq + 1
           e == J[k]
<1>1. r.gen # 0 /\ r \in RowT /\ r.status \in {"authorized", "connected"} /\ r.seq \in Nat
  BY Begun DEF Open, RowT
<1>2. /\ i \in Grants /\ i[1] = s /\ i[2] = r.gen /\ Running(r, book[i], stream[i])
      /\ book[i].billed = Unbilled => book[i].pending = book[i].keys
  BY <1>1, CurrentOf
<1>3. /\ book[i].billed = Unbilled /\ Count(book[i]) > 0 /\ r.approved = Window * Count(book[i])
  BY <1>1, <1>2 DEF Running
<1>4. /\ k \in 1..Len(J) /\ e \in EventT /\ e.samples <= stream[i].sent
      /\ stream[i].sent <= Window * Count(book[i])
      /\ e.durable <= stream[i].resume + e.samples
      /\ e.kind \in {"usage", "end"} => e.durable = Mark(J, stream[i].resume, k - 1)
      /\ \A j \in 1..k : J[j].samples <= e.samples
  BY <1>2, JournalIs
<1>5. J = stream[i].journal /\ Len(J) \in Nat /\ stream[i] \in StreamT
  BY <1>2, GrantTyped DEF Journal
<1>6. stream[i].resume = r.resume /\ Consumed(r, J) /\ k - 1 = r.seq
  <2>1. Len(J) > 0
    BY <1>4, <1>5
  <2> QED BY <1>1, <1>2, <1>5, <2>1 DEF Running
<1>7. r.consumed <= e.samples
  <2>1. e.samples \in Nat
    BY <1>4 DEF EventT
  <2>2. CASE r.seq = 0
    BY <1>6, <2>1, <2>2 DEF Consumed
  <2>3. CASE r.seq # 0
    <3>1. r.seq \in 1..k
      BY <1>1, <2>3
    <3>2. r.consumed = J[r.seq].samples
      BY <1>6, <2>3 DEF Consumed
    <3> HIDE DEF J, e
    <3> QED BY <1>4, <3>1, <3>2
  <2> QED BY <2>2, <2>3
<1>8. e.samples <= r.approved
  <2>1. e.samples \in Nat /\ stream[i].sent \in Nat /\ r.approved \in Nat
    BY <1>1, <1>4, <1>5 DEF EventT, StreamT, RowT
  <2> QED BY <1>3, <1>4, <2>1
<1>9. r.durable <= e.durable
  <2>1. Applied(r, i, k).durable = e.durable /\ r.durable <= Applied(r, i, k).durable
    <3>1. r.seq < k
      BY <1>1
    <3> HIDE DEF k
    <3> QED BY <1>1, <3>1, AppliedIs DEF k
  <2> QED BY <2>1
<1>10. e.kind \in {"usage", "end"} => e.durable = r.durable
  BY <1>4, <1>6 DEF Consumed
<1>11. e.kind = "end" => Terminal(i, k, r.seq) /\ Payable(book[i], e.samples)
  <2> SUFFICES ASSUME e.kind = "end" PROVE Terminal(i, k, r.seq) /\ Payable(book[i], e.samples)
    OBVIOUS
  <2>1. r.seq <= Len(J) /\ r.gen >= i[2]
    BY <1>1, <1>2, <1>6, Bounds DEF Consumed, RowT
  <2>2. book[i].pending # {}
    BY <1>2, <1>3, CountOfNone
  <2>3. k \in Events(i)
    OBVIOUS
  <2> HIDE DEF i, k
  <2> QED BY <1>1, <1>2, <2>1, <2>2, <2>3, EndIsLast
<1>12. e.durable <= r.resume + e.samples
  BY <1>4, <1>6
<1> QED BY <1>7, <1>8, <1>9, <1>10, <1>11, <1>12 DEF Applicable

\* A late end settles what is still prepaid.
LEMMA LateEndApplies ==
  ASSUME Sound, NEW i \in Grants, row[i[1]].gen # 0, Shut(i), book[i].pending # {},
         Len(Journal(i)) > 0, Journal(i)[Len(Journal(i))].kind = "end",
         Len(Journal(i)) <= owner[i].last + Reach
  PROVE  LateEnd(i, Len(Journal(i))) /\ Archivable(i, Len(Journal(i)))
<1> DEFINE k == Len(Journal(i))
           r == row[i[1]]
<1>1. /\ i[1] \in Sessions /\ i[2] \in 1..MaxGen /\ i = <<i[1], i[2]>> /\ r \in RowT
      /\ Granted(book[i], stream[i], Evidence(i)) /\ Reigns(r, i[2], book[i], owner[i], stream[i])
  BY Parts DEF Sound, Typed
<1>2. k \in Events(i) /\ owner[i] \in OwnerT /\ stream[i] \in StreamT
  BY GrantTyped
<1>3. i[2] <= r.gen /\ r.gen >= i[2]
  <2>1. i[2] \in Nat /\ r.gen \in Nat
    BY <1>1, Bounds DEF RowT
  <2>2. r.gen > i[2] \/ i[2] = r.gen
    BY <1>1 DEF Shut, Current
  <2> QED BY <2>1, <2>2
<1>4. /\ owner[i].approved = Window * Count(book[i]) /\ owner[i].last <= k
      /\ owner[i].last \in Nat
  BY <1>1, <1>2, <1>3 DEF Reigns, Journal, OwnerT
<1>5. Journal(i)[k].samples <= owner[i].approved
  <2>1. /\ Journal(i)[k].samples <= stream[i].sent /\ stream[i].sent <= Window * Count(book[i])
        /\ Journal(i)[k] \in EventT
    BY <1>2, JournalIs
  <2>2. Journal(i)[k].samples \in Nat /\ stream[i].sent \in Nat /\ owner[i].approved \in Nat
    BY <1>2, <2>1 DEF EventT, StreamT, OwnerT
  <2> QED BY <1>4, <2>1, <2>2
<1>6. LateEnd(i, k)
  BY <1>1 DEF Granted, LateEnd
<1>7. Terminal(i, k, owner[i].last) /\ Payable(book[i], Journal(i)[k].samples)
  <2> HIDE DEF k
  <2>1. Journal(i)[k].kind = "end" /\ owner[i].last <= Len(Journal(i))
    BY <1>4 DEF k
  <2> QED BY <1>2, <1>3, <1>4, <2>1, EndIsLast
<1> QED BY <1>2, <1>5, <1>6, <1>7 DEF Archivable

\* The main site can use whatever an honest node journals: the next event in
\* order applies, and a late end settles the prepayment (archive.go).
THEOREM JournalsApply == Spec => []JournalApplies
<1>1. ASSUME Sound PROVE JournalApplies
  BY <1>1, NextApplies, LateEndApplies DEF JournalApplies
<1> QED BY <1>1, SoundAlways, PTL

-----------------------------------------------------------------------------
(* Items of a queue                                                        *)

\* "h" picks what is in S from the first m elements of q.
Sifted(h, q, S, n) ==
  IF n = 0 THEN <<>> ELSE IF q[n] \in S THEN Append(h[n - 1], q[n]) ELSE h[n - 1]
Sifts(h, q, S, m) == h = [n \in 0..m |-> Sifted(h, q, S, n)]

LEMMA SiftsExists ==
  ASSUME NEW q, NEW S
  PROVE  \A m \in Nat : \E h : Sifts(h, q, S, m)
<1> DEFINE P == {m \in Nat : \E h : Sifts(h, q, S, m)}
<1>1. 0 \in P
  <2> DEFINE h == [n \in 0..0 |-> <<>>]
  <2>1. Sifts(h, q, S, 0)
    BY DEF Sifts, Sifted
  <2> QED BY <2>1
<1>2. ASSUME NEW m \in Nat, m \in P PROVE m + 1 \in P
  <2>1. PICK h : Sifts(h, q, S, m)
    BY <1>2
  <2> DEFINE g == [n \in 0..(m + 1) |-> IF n = m + 1 THEN Sifted(h, q, S, n) ELSE h[n]]
             f == [n \in 0..(m + 1) |-> Sifted(g, q, S, n)]
  <2>2. ASSUME NEW n \in 0..(m + 1) PROVE g[n] = f[n]
    <3>1. g[n] = Sifted(h, q, S, n)
      <4>1. CASE n = m + 1
        BY <4>1
      <4>2. CASE n # m + 1
        <5>1. n \in 0..m /\ g[n] = h[n]
          BY <4>2
        <5>2. h = [k \in 0..m |-> Sifted(h, q, S, k)]
          BY <2>1 DEF Sifts
        <5> QED BY ONLY <5>1, <5>2
      <4> QED BY <4>1, <4>2
    <3>2. n # 0 => g[n - 1] = h[n - 1]
      <4>1. n # 0 => n - 1 \in 0..(m + 1) /\ n - 1 # m + 1
        OBVIOUS
      <4> QED BY <4>1
    <3>3. f[n] = Sifted(g, q, S, n)
      OBVIOUS
    <3> HIDE DEF g, f
    <3> QED BY <3>1, <3>2, <3>3 DEF Sifted
  <2>3. g = f
    <3>1. DOMAIN g = DOMAIN f /\ g = [n \in DOMAIN g |-> g[n]] /\ f = [n \in DOMAIN f |-> f[n]]
      OBVIOUS
    <3>2. DOMAIN g = 0..(m + 1)
      OBVIOUS
    <3> HIDE DEF g, f
    <3> QED BY <2>2, <3>1, <3>2
  <2>4. Sifts(g, q, S, m + 1)
    <3>1. g = [n \in 0..(m + 1) |-> Sifted(g, q, S, n)]
      BY <2>3
    <3> HIDE DEF g
    <3> QED BY <3>1 DEF Sifts
  <2> HIDE DEF g
  <2> QED BY <2>4
<1> HIDE DEF P
<1>3. \A m \in Nat : m \in P
  BY <1>1, <1>2, NatSteps
<1> QED BY <1>3 DEF P

LEMMA RangeOfAppend ==
  ASSUME NEW T, NEW q \in Seq(T), NEW x \in T
  PROVE  Append(q, x) \in Seq(T) /\ Range(Append(q, x)) = Range(q) \union {x}
<1>1. Append(q, x) = q \o <<x>> /\ <<x>> \in Seq(T) /\ Append(q, x) \in Seq(T)
  BY AppendIsConcat, AppendProperties
<1>2. Range(<<x>>) = {<<x>>[i] : i \in 1..Len(<<x>>)}
  BY <1>1, RangeEquality
<1>3. Range(<<x>>) = {x}
  BY <1>2
<1>4. Range(q \o <<x>>) = Range(q) \union Range(<<x>>)
  BY <1>1, RangeConcatenation
<1> QED BY <1>1, <1>3, <1>4

\* The items of q in S are among q's, in S, and nothing else.
LEMMA AmongIs ==
  ASSUME NEW T, NEW q \in Seq(T), NEW S
  PROVE  Among(q, S) \in Seq(T) /\ Range(Among(q, S)) = Range(q) \intersect S
<1> DEFINE n == Len(q)
<1>1. n \in Nat /\ Range(q) = {q[i] : i \in 1..n} /\ \A i \in 1..n : q[i] \in T
  BY LenProperties, RangeEquality, ElementOfSeq
<1>2. PICK h : Sifts(h, q, S, n) /\ Among(q, S) = h[n]
  <2> DEFINE g == CHOOSE f : Sifts(f, q, S, n)
  <2>1. Sifts(g, q, S, n)
    BY <1>1, SiftsExists
  <2>2. Among(q, S) = g[n]
    BY DEF Among, Sifts, Sifted
  <2> HIDE DEF g
  <2> QED BY <2>1, <2>2
<1> HIDE DEF n
<1>3. \A m \in 0..n : h[m] = Sifted(h, q, S, m)
  BY <1>2 DEF Sifts
<1> DEFINE P == {m \in Nat : m <= n => /\ h[m] \in Seq(T)
                                       /\ Range(h[m]) = {q[i] : i \in 1..m} \intersect S}
<1>4. 0 \in P
  <2>1. h[0] = <<>> /\ <<>> \in Seq(T)
    BY <1>1, <1>3, EmptySeq DEF Sifted
  <2>2. Range(<<>>) = {<<>>[i] : i \in 1..Len(<<>>)}
    BY <2>1, RangeEquality
  <2>3. Range(<<>>) = {} /\ 1..0 = {}
    BY <2>2, EmptySeq
  <2>4. {q[i] : i \in 1..0} \intersect S = {}
    BY <2>3
  <2> QED BY <2>1, <2>3, <2>4
<1>5. ASSUME NEW m \in Nat, m \in P PROVE m + 1 \in P
  <2> SUFFICES ASSUME m + 1 <= n
               PROVE  /\ h[m + 1] \in Seq(T)
                      /\ Range(h[m + 1]) = {q[i] : i \in 1..(m + 1)} \intersect S
    OBVIOUS
  <2>1. m <= n /\ m + 1 \in 0..n /\ m + 1 \in 1..n /\ m + 1 # 0 /\ (m + 1) - 1 = m
    BY <1>1
  <2>2. h[m] \in Seq(T) /\ Range(h[m]) = {q[i] : i \in 1..m} \intersect S
    BY <1>5, <2>1
  <2>3. h[m + 1] = IF q[m + 1] \in S THEN Append(h[m], q[m + 1]) ELSE h[m]
    BY <1>3, <2>1 DEF Sifted
  <2>4. {q[i] : i \in 1..(m + 1)} = {q[i] : i \in 1..m} \union {q[m + 1]}
    <3>1. 1..(m + 1) = (1..m) \union {m + 1}
      OBVIOUS
    <3> QED BY <3>1
  <2>5. q[m + 1] \in T
    BY <1>1, <2>1
  <2>6. Append(h[m], q[m + 1]) \in Seq(T)
        /\ Range(Append(h[m], q[m + 1])) = Range(h[m]) \union {q[m + 1]}
    BY <2>2, <2>5, RangeOfAppend
  <2> QED BY <2>2, <2>3, <2>4, <2>6
<1> HIDE DEF P
<1>6. n \in P
  BY <1>1, <1>4, <1>5, NatSteps
<1> QED BY <1>1, <1>2, <1>6 DEF P

\* What is left when "gone" is taken out.
LEMMA WithoutIs ==
  ASSUME NEW T, NEW q \in Seq(T), NEW gone
  PROVE  Without(q, gone) \in Seq(T) /\ Range(Without(q, gone)) = Range(q) \ gone
<1>1. Without(q, gone) \in Seq(T) /\ Range(Without(q, gone)) = Range(q) \intersect (Range(q) \ gone)
  BY AmongIs DEF Without
<1> QED BY <1>1

\* The head of a queue is one of its items.
LEMMA HeadIn ==
  ASSUME NEW T, NEW q \in Seq(T), q # <<>>
  PROVE  Head(q) \in Range(q)
<1>1. Len(q) \in Nat /\ Len(q) # 0
  BY LenProperties, EmptySeq
<1>2. Head(q) = q[1] /\ 1 \in 1..Len(q)
  BY <1>1
<1> QED BY <1>2, RangeEquality

-----------------------------------------------------------------------------
(* The outbox: what its invariant says                                     *)

\* The applied prefix of a session's current generation is on record.
PrefixStored(s) == row[s].gen # 0 => 1..row[s].seq \subseteq stored[Current(s)]
Prefixes == \A s \in Sessions : PrefixStored(s)

\* The rows of the outbox are events that were journalled.
Queued ==
  /\ queue \in Seq(Grants \X Nat) /\ blocked \in Seq(Grants \X Nat)
  /\ \A item \in Items : item[2] \in Events(item[1])

\* A generation that has not begun was given no number; one that runs goes on
\* after its last event.
Numbered(i) ==
  /\ stream[i].pc = "none" => counter[i] = 1
  /\ stream[i].pc = "open" => counter[i] = Len(Journal(i)) + 1
Numbers == counter \in [Grants -> Nat] /\ \A i \in Grants : Numbered(i)

\* A generation of a session that exists.
Alive(i) == row[i[1]].gen >= i[2]

\* What an answer on its way says is on record while the generation is there.
Recorded ==
  call.kind # "none" =>
    LET i == call.item[1]
        k == call.item[2]
    IN /\ i \in Grants /\ k \in Events(i) /\ call.ack \in Nat
       /\ call.kind = "event" /\ call.answer = "saved" /\ Alive(i) => 1..call.ack \subseteq stored[i]
       /\ call.kind = "archive" /\ call.answer = "saved" /\ Alive(i) => k \in archived[i]

Delivering == Sound /\ Prefixes /\ Queued /\ Numbers /\ Recorded /\ NothingLost

\* A step that journals nothing, lets no stream begin but an empty one, and
\* takes no record from a generation that is there.
QuietStreams ==
  \A i \in Grants :
    /\ Journal(i)' = Journal(i)
    /\ stream'[i].pc = "none" => stream[i].pc = "none"
    /\ stream'[i].pc = "open" => \/ stream[i].pc = "open"
                                 \/ stream[i].pc = "none" /\ Len(Journal(i)) = 0
QuietRecords ==
  \A i \in Grants :
    Alive(i)' => \/ Len(Journal(i)) = 0
                 \/ Alive(i) /\ stored[i] \subseteq stored'[i] /\ archived[i] \subseteq archived'[i]

LEMMA DeliveringStarts == OutboxInit => Delivering
<1> SUFFICES ASSUME OutboxInit PROVE Delivering
  OBVIOUS
<1>1. Sound /\ Init
  BY InitSound DEF OutboxInit
<1>2. \A s \in Sessions : row[s].gen = 0
  BY <1>1 DEF Init, NoRow
<1>3. Prefixes
  BY <1>2 DEF Prefixes, PrefixStored
<1>4. Items = {} /\ queue \in Seq(Grants \X Nat) /\ blocked \in Seq(Grants \X Nat)
  <2>1. <<>> \in Seq(Grants \X Nat) /\ Len(<<>>) = 0
    BY EmptySeq
  <2>2. Range(<<>>) = {<<>>[n] : n \in 1..Len(<<>>)}
    BY <2>1, RangeEquality
  <2>3. Range(<<>>) = {}
    BY <2>1, <2>2
  <2> QED BY <2>1, <2>3 DEF OutboxInit, Items
<1>5. Queued
  BY <1>4 DEF Queued
<1>6. Numbers
  <2>1. \A i \in Grants : stream[i] = NoStream
    BY <1>1 DEF Init
  <2>2. counter \in [Grants -> Nat] /\ \A i \in Grants : counter[i] = 1
    BY DEF OutboxInit
  <2> QED BY <2>1, <2>2 DEF Numbers, Numbered, NoStream
<1>7. Recorded
  BY DEF OutboxInit, Idle, Recorded
<1>8. NothingLost
  <2>1. \A i \in Grants : i[1] \in Sessions /\ i[2] \in 1..MaxGen
    BY Parts
  <2>2. \A i \in Grants : ~(row[i[1]].gen >= i[2])
    BY <1>2, <2>1, Bounds
  <2> QED BY <2>2 DEF NothingLost
<1> QED BY <1>1, <1>3, <1>5, <1>6, <1>7, <1>8 DEF Delivering

\* Such a step keeps the rows of the outbox, its numbers and what is on record.
LEMMA QuietStep ==
  ASSUME Sound, Queued, Numbers, NothingLost, QuietStreams, QuietRecords,
         UNCHANGED <<queue, blocked, counter>>
  PROVE  Queued' /\ Numbers' /\ NothingLost'
<1>1. \A i \in Grants : Events(i)' = Events(i) /\ Len(Journal(i)) \in Nat
  BY GrantTyped DEF QuietStreams, Events
<1>2. \A item \in Items : item[1] \in Grants
  <2>1. Range(queue) \subseteq Grants \X Nat /\ Range(blocked) \subseteq Grants \X Nat
    BY RangeOfSeq DEF Queued
  <2> QED BY <2>1 DEF Items
<1>3. Items' = Items
  BY DEF Items
<1>4. Queued'
  BY <1>1, <1>2, <1>3 DEF Queued
<1>5. Numbers'
  <2> SUFFICES ASSUME NEW i \in Grants PROVE Numbered(i)'
    BY DEF Numbers
  <2>1. /\ Journal(i)' = Journal(i)
        /\ stream'[i].pc = "none" => stream[i].pc = "none"
        /\ stream'[i].pc = "open" => \/ stream[i].pc = "open"
                                     \/ stream[i].pc = "none" /\ Len(Journal(i)) = 0
    BY DEF QuietStreams
  <2>2. Numbered(i) /\ counter' = counter
    BY DEF Numbers
  <2> QED BY <2>1, <2>2 DEF Numbered
<1>6. NothingLost'
  <2> SUFFICES ASSUME NEW i \in Grants, Alive(i)', NEW k \in Events(i)'
               PROVE  <<i, k>> \in Items' \/ k \in Evidence(i)'
    BY DEF NothingLost, Alive
  <2>1. k \in Events(i) /\ Len(Journal(i)) # 0
    BY <1>1 DEF Events
  <2>2. Alive(i) /\ stored[i] \subseteq stored'[i] /\ archived[i] \subseteq archived'[i]
    BY <2>1 DEF QuietRecords
  <2>3. <<i, k>> \in Items \/ k \in Evidence(i)
    BY <2>1, <2>2 DEF NothingLost, Alive
  <2> QED BY <1>3, <2>2, <2>3 DEF Evidence
<1> QED BY <1>4, <1>5, <1>6

LEMMA QuietCall ==
  ASSUME Sound, Recorded, QuietStreams, QuietRecords, call' = call
  PROVE  Recorded'
<1> SUFFICES ASSUME call.kind # "none" PROVE Recorded'
  BY DEF Recorded
<1> DEFINE i == call.item[1]
<1>1. i \in Grants /\ call.item[2] \in Events(i) /\ call.ack \in Nat
  BY DEF Recorded
<1>2. Events(i)' = Events(i) /\ Len(Journal(i)) # 0
  BY <1>1, GrantTyped DEF QuietStreams, Events
<1>3. Alive(i)' => Alive(i) /\ stored[i] \subseteq stored'[i] /\ archived[i] \subseteq archived'[i]
  BY <1>1, <1>2 DEF QuietRecords
<1>4. call.kind = "event" /\ call.answer = "saved" /\ Alive(i)' => 1..call.ack \subseteq stored'[i]
  BY <1>3 DEF Recorded
<1>5. call.kind = "archive" /\ call.answer = "saved" /\ Alive(i)' => call.item[2] \in archived'[i]
  BY <1>3 DEF Recorded
<1> QED BY <1>1, <1>2, <1>4, <1>5 DEF Recorded

-----------------------------------------------------------------------------
(* Quiet steps                                                             *)

\* No row goes to another generation or prefix.
LEMMA SameRows ==
  ASSUME Prefixes,
         \A s \in Sessions : row'[s].gen = row[s].gen /\ row'[s].seq = row[s].seq,
         \A i \in Grants : stored[i] \subseteq stored'[i] /\ archived[i] \subseteq archived'[i],
         Sound
  PROVE  QuietRecords /\ Prefixes'
<1>1. \A i \in Grants : i[1] \in Sessions
  BY Parts
<1>2. QuietRecords
  BY <1>1 DEF QuietRecords, Alive
<1>3. ASSUME NEW s \in Sessions, row'[s].gen # 0 PROVE 1..row'[s].seq \subseteq stored'[Current(s)']
  <2>1. Current(s)' = Current(s) /\ Current(s) \in Grants
    BY <1>3, CurrentOf DEF Current
  <2>2. 1..row[s].seq \subseteq stored[Current(s)]
    BY <1>3 DEF Prefixes, PrefixStored
  <2> QED BY <2>1, <2>2
<1> QED BY <1>2, <1>3 DEF Prefixes, PrefixStored

LEMMA SameStreams ==
  ASSUME stream' = stream
  PROVE  QuietStreams
BY DEF QuietStreams, Journal

\* One stream changes, and journals nothing.
LEMMA OneStream ==
  ASSUME Sound, NEW i \in Grants, NEW st, stream' = [stream EXCEPT ![i] = st],
         st.journal = Journal(i), st.pc = "none" => stream[i].pc = "none",
         st.pc = "open" => stream[i].pc = "open" \/ (stream[i].pc = "none" /\ Len(Journal(i)) = 0)
  PROVE  QuietStreams
<1>1. \A j \in Grants : stream'[j] = IF j = i THEN st ELSE stream[j]
  BY DEF Sound, Typed
<1> QED BY <1>1 DEF QuietStreams, Journal

\* A generation that begins has no events.
LEMMA NotBegun ==
  ASSUME Sound, NEW i \in Grants, book[i].keys = {}
  PROVE  Len(Journal(i)) = 0
<1>1. Journal(i) = <<>>
  BY DEF Sound, Granted, Journal, NoStream
<1> QED BY <1>1, EmptySeq

LEMMA QuietWrite ==
  ASSUME Sound, Prefixes, NEW s \in Sessions, NEW r, row' = [row EXCEPT ![s] = r],
         r.seq = 0, r.gen \in 1..MaxGen, book[<<s, r.gen>>].keys = {},
         UNCHANGED <<stored, archived>>, r.gen = row[s].gen + 1
  PROVE  QuietRecords /\ Prefixes'
<1>1. \A t \in Sessions : row'[t] = IF t = s THEN r ELSE row[t]
  BY DEF Sound, Typed
<1>2. row[s].gen \in Nat /\ r.gen \in Nat /\ <<s, r.gen>> \in Grants
  BY Bounds DEF Sound, Typed, RowT, Grants
<1>3. QuietRecords
  <2> SUFFICES ASSUME NEW i \in Grants, Alive(i)', ~Alive(i) PROVE Len(Journal(i)) = 0
    BY DEF QuietRecords
  <2>1. i[1] = s /\ i[2] \in Nat /\ i = <<i[1], i[2]>> /\ i[1] \in Sessions
    BY <1>1, Parts, Bounds DEF Alive
  <2>2. i[2] = r.gen
    BY <1>1, <1>2, <2>1 DEF Alive
  <2> QED BY <1>2, <2>1, <2>2, NotBegun
<1>4. Prefixes'
  <2> SUFFICES ASSUME NEW t \in Sessions, row'[t].gen # 0
               PROVE  1..row'[t].seq \subseteq stored'[Current(t)']
    BY DEF Prefixes, PrefixStored
  <2>1. CASE t = s
    <3>1. row'[t].seq = 0 /\ 1..0 = {}
      BY <1>1, <2>1
    <3> QED BY <3>1
  <2>2. CASE t # s
    BY <1>1, <2>2 DEF Prefixes, PrefixStored, Current
  <2> QED BY <2>1, <2>2
<1> QED BY <1>3, <1>4

\* Whatever happens to a session at the main site.
LEMMA SessionQuiet ==
  ASSUME Sound, Prefixes, NEW s \in Sessions,
         \/ AuthorizeFirst(s) \/ AuthorizeNext(s) \/ Connect(s) \/ Renew(s) \/ Age(s)
         \/ Reap(s) \/ Cancel(s) \/ Delete(s)
  PROVE  QuietStreams /\ QuietRecords /\ Prefixes'
<1> DEFINE r == row[s]
           i == Current(s)
<1>1. r \in RowT /\ row \in [Sessions -> RowT]
  BY DEF Sound, Typed
<1>2. \A x : row' = [row EXCEPT ![s] = x] =>
        row'[s] = x /\ \A t \in Sessions : t # s => row'[t] = row[t]
  BY <1>1
<1>3. ASSUME NEW x, row' = [row EXCEPT ![s] = x], x.gen = r.gen, x.seq = r.seq,
             UNCHANGED <<stored, archived>>
      PROVE  QuietRecords /\ Prefixes'
  <2>1. \A t \in Sessions : row'[t].gen = row[t].gen /\ row'[t].seq = row[t].seq
    BY <1>2, <1>3
  <2>2. \A j \in Grants : stored[j] \subseteq stored'[j] /\ archived[j] \subseteq archived'[j]
    BY <1>3
  <2> QED BY <2>1, <2>2, SameRows
<1>4. CASE AuthorizeFirst(s)
  <2>1. /\ row' = [row EXCEPT ![s] = FirstRow] /\ r.gen = 0 /\ <<s, 1>> \in Grants
        /\ 1 \notin book[<<s, 1>>].keys /\ UNCHANGED <<stored, archived, stream>>
    BY <1>4 DEF AuthorizeFirst, Write
  <2>2. FirstRow.gen = 1 /\ FirstRow.seq = 0 /\ 1 \in 1..MaxGen
    <3>1. 1 \in 1..MaxGen
      BY <2>1 DEF Grants
    <3> QED BY <3>1 DEF FirstRow, NoRow
  <2>3. book[<<s, 1>>].keys = {}
    <3>1. /\ book[<<s, 1>>].keys = 1..Count(book[<<s, 1>>]) /\ Count(book[<<s, 1>>]) \in Nat
      BY <2>1 DEF Sound, Granted
    <3> QED BY <2>1, <3>1
  <2>4. FirstRow.gen = row[s].gen + 1 /\ book[<<s, FirstRow.gen>>].keys = {}
    BY <2>1, <2>2, <2>3
  <2>5. QuietRecords /\ Prefixes'
    BY <2>1, <2>2, <2>4, QuietWrite
  <2> QED BY <2>1, <2>5, SameStreams
<1>5. CASE AuthorizeNext(s)
  <2> DEFINE next == Successor(r)
  <2>1. /\ row' = [row EXCEPT ![s] = next] /\ r.gen \in 1..(MaxGen - 1)
        /\ UNCHANGED <<stored, archived, stream>>
    BY <1>5 DEF AuthorizeNext, Write
  <2>2. next.gen = r.gen + 1 /\ next.seq = 0
    BY <1>1 DEF Successor, RowT
  <2>3. next.gen \in 1..MaxGen /\ <<s, next.gen>> \in Grants
    BY <2>1, <2>2, Bounds DEF Grants
  <2>4. Reigns(r, next.gen, book[<<s, next.gen>>], owner[<<s, next.gen>>], stream[<<s, next.gen>>])
    BY <2>3 DEF Sound
  <2>5. book[<<s, next.gen>>].keys = {}
    <3>1. r.gen # 0 /\ next.gen > r.gen
      BY <2>1, <2>2, Bounds
    <3> HIDE DEF next
    <3> QED BY <2>4, <3>1 DEF Reigns
  <2> HIDE DEF next
  <2>6. QuietRecords /\ Prefixes'
    BY <2>1, <2>2, <2>3, <2>5, QuietWrite
  <2> QED BY <2>1, <2>6, SameStreams
<1>6. CASE Connect(s)
  <2> DEFINE x == [r EXCEPT !.status = "connected"]
             opened == [NoStream EXCEPT !.pc = "open", !.granted = row[s].approved,
                                        !.resume = row[s].resume, !.durable = row[s].durable]
             lost == [NoStream EXCEPT !.pc = "over"]
  <2>1. row' = [row EXCEPT ![s] = x] /\ UNCHANGED <<stored, archived>> /\ r.status = "authorized"
    BY <1>6 DEF Connect, Write
  <2>2. x.gen = r.gen /\ x.seq = r.seq
    BY <1>1 DEF RowT
  <2>3. r.gen # 0
    BY <2>1, Begun
  <2>4. i \in Grants /\ stream[i] = NoStream
    BY <2>1, <2>3, CurrentOf DEF Running
  <2>5. PICK st \in {opened, lost} : stream' = [stream EXCEPT ![i] = st]
    BY <1>6 DEF Connect
  <2>6. st.journal = Journal(i) /\ st.pc # "none" /\ stream[i].pc = "none" /\ Len(Journal(i)) = 0
    <3>1. NoStream.journal = <<>> /\ NoStream.pc = "none" /\ Len(<<>>) = 0
      BY EmptySeq DEF NoStream
    <3>2. opened.journal = NoStream.journal /\ lost.journal = NoStream.journal
          /\ opened.pc = "open" /\ lost.pc = "over"
      BY DEF NoStream
    <3> HIDE DEF opened, lost
    <3> QED BY <2>4, <3>1, <3>2 DEF Journal
  <2> HIDE DEF x, opened, lost
  <2>7. QuietRecords /\ Prefixes'
    BY <1>3, <2>1, <2>2
  <2> HIDE DEF i
  <2>8. QuietStreams
    BY <2>4, <2>5, <2>6, OneStream
  <2> QED BY <2>7, <2>8
<1>7. CASE Renew(s)
  <2> DEFINE x == [r EXCEPT !.approved = IF Low(r) THEN @ + Window ELSE @]
             st == [stream[i] EXCEPT !.granted = x.approved]
  <2>1. /\ row' = [row EXCEPT ![s] = x] /\ UNCHANGED <<stored, archived>>
        /\ r.status = "connected"
        /\ \/ stream' = [stream EXCEPT ![i] = st]
           \/ stream' = stream
    BY <1>7 DEF Renew, Write
  <2>2. x.gen = r.gen /\ x.seq = r.seq
    BY <1>1 DEF RowT
  <2>3. i \in Grants
    BY <2>1, Begun, CurrentOf
  <2>4. st.journal = Journal(i) /\ st.pc = stream[i].pc
    BY <2>3, GrantTyped DEF StreamT, Journal
  <2> HIDE DEF x, st
  <2>5. QuietRecords /\ Prefixes'
    BY <1>3, <2>1, <2>2
  <2> HIDE DEF i
  <2>6. QuietStreams
    BY <2>1, <2>3, <2>4, OneStream, SameStreams
  <2> QED BY <2>5, <2>6
<1>8. CASE Age(s) \/ Reap(s) \/ Cancel(s)
  <2>1. PICK x : row' = [row EXCEPT ![s] = x] /\ x.gen = r.gen /\ x.seq = r.seq
    <3>1. CASE Age(s)
      <4>1. PICK l \in {"late", "expired", "lapsed"} : row' = [row EXCEPT ![s] = [r EXCEPT !.lease = l]]
        BY <3>1 DEF Age
      <4>2. [r EXCEPT !.lease = l].gen = r.gen /\ [r EXCEPT !.lease = l].seq = r.seq
        BY <1>1 DEF RowT
      <4> QED BY <4>1, <4>2
    <3>2. CASE Reap(s) \/ Cancel(s)
      <4>1. row' = [row EXCEPT ![s] = [r EXCEPT !.status = "closed"]]
        BY <3>2 DEF Reap, Cancel, Closed, Write
      <4>2. [r EXCEPT !.status = "closed"].gen = r.gen /\ [r EXCEPT !.status = "closed"].seq = r.seq
        BY <1>1 DEF RowT
      <4> QED BY <4>1, <4>2
    <3> QED BY <1>8, <3>1, <3>2
  <2>2. UNCHANGED <<stored, archived, stream>>
    BY <1>8 DEF Age, Reap, Cancel
  <2> QED BY <1>3, <2>1, <2>2, SameStreams
<1>9. CASE Delete(s)
  <2>1. /\ row' = [row EXCEPT ![s] = NoRow] /\ stream' = stream
        /\ stored' = Cleared(stored, s, {}) /\ archived' = Cleared(archived, s, {})
    BY <1>9 DEF Delete
  <2>2. \A j \in Grants : j[1] # s => stored'[j] = stored[j] /\ archived'[j] = archived[j]
    BY <2>1 DEF Cleared
  <2>3. NoRow.gen = 0
    BY DEF NoRow
  <2>4. QuietRecords
    <3> SUFFICES ASSUME NEW j \in Grants, Alive(j)'
                 PROVE  Alive(j) /\ stored[j] \subseteq stored'[j] /\ archived[j] \subseteq archived'[j]
      BY DEF QuietRecords
    <3>1. j[1] \in Sessions /\ j[2] \in 1..MaxGen
      BY Parts
    <3>2. j[1] # s
      <4>1. ~(0 >= j[2])
        BY <3>1, Bounds
      <4> QED BY <1>2, <2>1, <2>3, <4>1 DEF Alive
    <3> QED BY <1>2, <2>1, <2>2, <3>1, <3>2 DEF Alive
  <2>5. Prefixes'
    <3> SUFFICES ASSUME NEW t \in Sessions, row'[t].gen # 0
                 PROVE  1..row'[t].seq \subseteq stored'[Current(t)']
      BY DEF Prefixes, PrefixStored
    <3>1. t # s /\ row'[t] = row[t] /\ Current(t)' = Current(t)
      BY <1>2, <2>1, <2>3 DEF Current
    <3>2. Current(t) \in Grants /\ Current(t)[1] = t
      BY <3>1, CurrentOf
    <3>3. stored'[Current(t)] = stored[Current(t)]
      BY <2>2, <3>1, <3>2
    <3> QED BY <3>1, <3>3 DEF Prefixes, PrefixStored
  <2> QED BY <2>1, <2>4, <2>5, SameStreams
<1> HIDE DEF i, r
<1> QED BY <1>4, <1>5, <1>6, <1>7, <1>8, <1>9

\* Frames, and streams that break, one or all of them.
LEMMA StreamQuiet ==
  ASSUME Sound, Prefixes, UNCHANGED <<row, stored, archived>>
  PROVE  /\ QuietRecords /\ Prefixes'
         /\ \A i \in Grants : Send(i) \/ Break(i) => QuietStreams
<1>1. QuietRecords /\ Prefixes'
  BY SameRows
<1>2. ASSUME NEW i \in Grants, Send(i) \/ Break(i) PROVE QuietStreams
  <2>1. stream[i] \in StreamT /\ stream[i].pc = "open"
    BY <1>2, GrantTyped DEF Send, Break, Node
  <2>2. CASE Send(i)
    <3> DEFINE st == [stream[i] EXCEPT !.sent = @ + 1]
    <3>1. stream' = [stream EXCEPT ![i] = st]
      BY <2>2 DEF Send
    <3>2. st.journal = Journal(i) /\ st.pc = "open"
      BY <2>1 DEF StreamT, Journal
    <3> HIDE DEF st
    <3> QED BY <2>1, <3>1, <3>2, OneStream
  <2>3. CASE Break(i)
    <3> DEFINE st == [stream[i] EXCEPT !.pc = "over"]
    <3>1. stream' = [stream EXCEPT ![i] = st]
      BY <2>3 DEF Break
    <3>2. st.journal = Journal(i) /\ st.pc = "over"
      BY <2>1 DEF StreamT, Journal
    <3> HIDE DEF st
    <3> QED BY <2>1, <3>1, <3>2, OneStream
  <2> QED BY <1>2, <2>2, <2>3
<1> QED BY <1>1, <1>2

LEMMA EventQuiet ==
  ASSUME Sound, Prefixes, NEW i \in Grants, NEW k \in Events(i), Event(i, k)
  PROVE  QuietStreams /\ QuietRecords /\ Prefixes'
<1> DEFINE s == i[1]
           after == After(i, k)
           to == Reached(row[s], i, stored[i] \union {k})
           sto == stored[i] \union {k}
<1>1. /\ s \in Sessions /\ Current(s) = i /\ row[s].gen # 0 /\ row[s] \in RowT
      /\ row' = [row EXCEPT ![s] = after] /\ stored' = [stored EXCEPT ![i] = sto]
      /\ UNCHANGED <<archived, stream>>
  BY Parts, Begun DEF Event, Accepts, Open, Write
<1>2. /\ to = row[s].seq \/ (to \in Events(i) /\ row[s].seq < to /\ (row[s].seq + 1)..to \subseteq sto)
  BY ReachedIs
<1>3. row[s].seq \in Nat /\ to \in Nat
  <2>1. row[s].seq \in Nat /\ Events(i) \subseteq Nat
    BY <1>1, GrantTyped DEF RowT
  <2> HIDE DEF to
  <2> QED BY <1>2, <2>1
<1>4. after.gen = row[s].gen /\ after.seq = to
  <2>1. after = RowAt(row[s], i, to)
    BY DEF After
  <2>2. Applied(row[s], i, to).gen = row[s].gen /\ Applied(row[s], i, to).seq = to
    BY <1>1 DEF Applied, RowT
  <2> HIDE DEF after, to
  <2> QED BY <2>1, <2>2 DEF RowAt
<1>5. 1..row[s].seq \subseteq stored[i]
  BY <1>1 DEF Prefixes, PrefixStored
<1>6. 1..to \subseteq sto
  <2>1. to = row[s].seq \/ (row[s].seq + 1)..to \subseteq sto
    BY <1>2
  <2> HIDE DEF to
  <2> QED BY <1>3, <1>5, <2>1
<1>7. \A t \in Sessions : row'[t] = IF t = s THEN after ELSE row[t]
  BY <1>1 DEF Sound, Typed
<1>8. \A j \in Grants : stored'[j] = IF j = i THEN sto ELSE stored[j]
  BY <1>1 DEF Sound, Typed
<1> HIDE DEF after, to, sto
<1>9. \A t \in Sessions : row'[t].gen = row[t].gen
  BY <1>4, <1>7
<1>10. QuietRecords
  <2>1. \A j \in Grants : stored[j] \subseteq stored'[j] /\ archived[j] \subseteq archived'[j]
    BY <1>1, <1>8 DEF sto
  <2> QED BY <1>9, <2>1, Parts DEF QuietRecords, Alive
<1>11. Prefixes'
  <2> SUFFICES ASSUME NEW t \in Sessions, row'[t].gen # 0
               PROVE  1..row'[t].seq \subseteq stored'[Current(t)']
    BY DEF Prefixes, PrefixStored
  <2>1. Current(t)' = Current(t) /\ Current(t) \in Grants /\ Current(t)[1] = t
    BY <1>9, CurrentOf DEF Current
  <2>2. CASE t = s
    BY <1>1, <1>4, <1>6, <1>7, <1>8, <2>1, <2>2
  <2>3. CASE t # s
    <3>1. Current(t) # i /\ row'[t] = row[t]
      BY <1>7, <2>1, <2>3
    <3>2. stored'[Current(t)] = stored[Current(t)]
      BY <1>8, <2>1, <3>1
    <3>3. 1..row[t].seq \subseteq stored[Current(t)]
      BY <1>9 DEF Prefixes, PrefixStored
    <3> QED BY <2>1, <3>1, <3>2, <3>3
  <2> QED BY <2>2, <2>3
<1> QED BY <1>1, <1>10, <1>11, SameStreams

LEMMA ArchiveQuiet ==
  ASSUME Sound, Prefixes, NEW i \in Grants, NEW k \in Events(i), Archive(i, k)
  PROVE  QuietStreams /\ QuietRecords /\ Prefixes' /\ k \in archived'[i]
<1>1. archived' = [archived EXCEPT ![i] = @ \union {k}] /\ UNCHANGED <<row, stored, stream>>
  BY DEF Archive
<1>2. k \in archived'[i] /\ \A j \in Grants : archived[j] \subseteq archived'[j]
  BY <1>1 DEF Sound, Typed
<1> QED BY <1>1, <1>2, SameRows, SameStreams

-----------------------------------------------------------------------------
(* The loop                                                                *)

\* A step of the outbox's own leaves the main site alone.
LEMMA NothingChanges ==
  ASSUME Sound, Prefixes, UNCHANGED vars
  PROVE  Sound' /\ Prefixes' /\ QuietStreams /\ QuietRecords
<1>1. UNCHANGED <<row, stored, archived, stream>>
  BY DEF vars
<1>2. QuietStreams /\ QuietRecords /\ Prefixes'
  BY <1>1, SameStreams, SameRows
<1>3. Sound'
  BY DEF vars, Sound, Typed, Evidence, BeginsOnce
<1> QED BY <1>2, <1>3

LEMMA ItemsAre ==
  ASSUME Sound, Queued, NEW item \in Items
  PROVE  /\ item[1] \in Grants /\ item[2] \in Nat /\ item = <<item[1], item[2]>>
         /\ item[2] \in Events(item[1])
<1>1. Range(queue) \subseteq Grants \X Nat /\ Range(blocked) \subseteq Grants \X Nat
  BY RangeOfSeq DEF Queued
<1>2. item \in Grants \X Nat
  BY <1>1 DEF Items
<1> QED BY <1>2 DEF Queued

LEMMA PostKeeps ==
  ASSUME Delivering, Post
  PROVE  Delivering'
<1>1. Sound /\ Prefixes /\ Queued /\ Numbers /\ NothingLost
  BY DEF Delivering
<1>2. PICK i \in Grants, k \in Nat : Head(queue) = <<i, k>> /\ k \in Events(i)
  <2>1. Head(queue) \in Range(queue)
    BY <1>1, HeadIn DEF Post, Queued
  <2>2. Head(queue) \in Items
    BY <2>1 DEF Items
  <2> QED BY <1>1, <2>2, ItemsAre
<1>3. (Accepts(i, k) /\ Event(i, k)) \/ (UNCHANGED vars /\ ~Accepts(i, k)) \/ (UNCHANGED vars /\ call' = call)
  BY <1>2 DEF Post
<1>4. Sound' /\ Prefixes' /\ QuietStreams /\ QuietRecords
  BY <1>1, <1>2, <1>3, EventSound, EventQuiet, NothingChanges
<1>5. UNCHANGED <<queue, blocked, counter>>
  BY DEF Post
<1>6. Queued' /\ Numbers' /\ NothingLost'
  BY <1>1, <1>4, <1>5, QuietStep
<1>7. Recorded'
  <2>1. CASE call' = call
    BY <1>1, <1>4, <2>1, QuietCall DEF Delivering
  <2>2. CASE call' # call
    <3>1. /\ call' = [kind |-> "event", item |-> Head(queue), answer |-> Answer(i, k),
                      ack |-> row'[i[1]].seq]
          /\ (Accepts(i, k) /\ Event(i, k)) \/ (UNCHANGED vars /\ ~Accepts(i, k))
      BY <1>2, <2>2 DEF Post
    <3>2. i[1] \in Sessions /\ i[2] \in 1..MaxGen /\ row'[i[1]].seq \in Nat
      <4>1. i[1] \in Sessions /\ i[2] \in 1..MaxGen
        BY <1>2, Parts
      <4>2. row'[i[1]] \in RowT
        BY <1>4, <4>1 DEF Sound, Typed
      <4> QED BY <4>1, <4>2 DEF RowT
    <3>3. k \in Events(i)'
      <4>1. Journal(i)' = Journal(i)
        BY <1>2, <1>4 DEF QuietStreams
      <4> QED BY <1>2, <4>1 DEF Events
    <3>4. ASSUME Answer(i, k) = "saved" PROVE 1..row'[i[1]].seq \subseteq stored'[i]
      <4>1. Current(i[1]) = i /\ (k \in stored[i] \/ Accepts(i, k))
        BY <3>4 DEF Answer
      <4>2. row'[i[1]].gen = row[i[1]].gen
        <5>1. CASE UNCHANGED vars
          BY <5>1 DEF vars
        <5>2. CASE Event(i, k)
          <6>1. row'[i[1]] = After(i, k)
            BY <3>2, <5>2, <1>1 DEF Event, Write, Sound, Typed
          <6>2. row[i[1]] \in RowT
            BY <1>1, <3>2 DEF Sound, Typed
          <6> QED BY <6>1, <6>2 DEF After, RowAt, Applied, RowT
        <5> QED BY <3>1, <5>1, <5>2
      <4>3. Current(i[1])' = i /\ row'[i[1]].gen # 0
        <5>1. row[i[1]].gen = i[2] /\ i[2] # 0
          BY <3>2, <4>1, Bounds DEF Current
        <5> QED BY <4>1, <4>2, <5>1 DEF Current
      <4> QED BY <1>4, <3>2, <4>3 DEF Prefixes, PrefixStored
    <3> DEFINE c == [kind |-> "event", item |-> Head(queue), answer |-> Answer(i, k),
                     ack |-> row'[i[1]].seq]
    <3>5. c.kind = "event" /\ c.item = Head(queue) /\ c.answer = Answer(i, k) /\ c.ack = row'[i[1]].seq
      OBVIOUS
    <3>6. call' = c
      BY <3>1
    <3> HIDE DEF c
    <3> QED BY <1>2, <3>2, <3>3, <3>4, <3>5, <3>6 DEF Recorded
  <2> QED BY <2>1, <2>2
<1> QED BY <1>4, <1>6, <1>7 DEF Delivering

LEMMA PostArchiveKeeps ==
  ASSUME Delivering, PostArchive
  PROVE  Delivering'
<1> DEFINE ready == Among(blocked, (Grants \ backoff) \X Nat)
<1>1. Sound /\ Prefixes /\ Queued /\ Numbers /\ NothingLost
  BY DEF Delivering
<1>2. PICK i \in Grants, k \in Nat : Head(ready) = <<i, k>> /\ k \in Events(i)
  <2>1. ready \in Seq(Grants \X Nat) /\ Range(ready) \subseteq Range(blocked)
    BY <1>1, AmongIs DEF Queued
  <2>2. ready # <<>>
    BY DEF PostArchive
  <2> HIDE DEF ready
  <2>3. Head(ready) \in Range(ready)
    BY <2>1, <2>2, HeadIn
  <2>4. Head(ready) \in Items
    BY <2>1, <2>3 DEF Items
  <2> QED BY <1>1, <2>4, ItemsAre
<1>3. /\ \/ Archivable(i, k) /\ Archive(i, k)
         \/ UNCHANGED vars /\ ~Archivable(i, k)
         \/ UNCHANGED vars /\ call' = call
      /\ call' # call =>
           /\ call' = [kind |-> "archive", item |-> Head(ready), ack |-> 0,
                       answer |-> IF Archivable(i, k) THEN "saved" ELSE "conflict"]
           /\ (Archivable(i, k) /\ Archive(i, k)) \/ (UNCHANGED vars /\ ~Archivable(i, k))
  <2>1. Head(ready)[1] = i /\ Head(ready)[2] = k
    <3> HIDE DEF ready
    <3> QED BY <1>2
  <2> DEFINE j == Head(ready)[1]
             n == Head(ready)[2]
  <2>2. /\ \/ Archivable(j, n) /\ Archive(j, n)
           \/ UNCHANGED vars /\ ~Archivable(j, n)
           \/ UNCHANGED vars /\ call' = call
        /\ call' # call =>
             /\ call' = [kind |-> "archive", item |-> Head(ready), ack |-> 0,
                         answer |-> IF Archivable(j, n) THEN "saved" ELSE "conflict"]
             /\ (Archivable(j, n) /\ Archive(j, n)) \/ (UNCHANGED vars /\ ~Archivable(j, n))
    BY Zenon DEF PostArchive
  <2>3. j = i /\ n = k
    BY <2>1
  <2> HIDE DEF j, n, ready
  <2> QED BY <2>2, <2>3
<1>4. Sound' /\ Prefixes' /\ QuietStreams /\ QuietRecords
  <2> QED BY <1>1, <1>2, <1>3, ArchiveSound, ArchiveQuiet, NothingChanges
<1>5. UNCHANGED <<queue, blocked, counter>>
  BY DEF PostArchive
<1>6. Queued' /\ Numbers' /\ NothingLost'
  BY <1>1, <1>4, <1>5, QuietStep
<1>7. Recorded'
  <2>1. CASE call' = call
    BY <1>1, <1>4, <2>1, QuietCall DEF Delivering
  <2>2. CASE call' # call
    <3> DEFINE c == [kind |-> "archive", item |-> Head(ready), ack |-> 0,
                     answer |-> IF Archivable(i, k) THEN "saved" ELSE "conflict"]
    <3>1. call' = c /\ ((Archivable(i, k) /\ Archive(i, k)) \/ (UNCHANGED vars /\ ~Archivable(i, k)))
      BY <1>3, <2>2
    <3>2. c.kind = "archive" /\ c.item = Head(ready) /\ c.ack = 0
          /\ (c.answer = "saved" => Archivable(i, k))
      OBVIOUS
    <3> HIDE DEF c, ready
    <3>3. k \in Events(i)'
      <4>1. Journal(i)' = Journal(i)
        BY <1>2, <1>4 DEF QuietStreams
      <4> QED BY <1>2, <4>1 DEF Events
    <3>4. c.answer = "saved" => k \in archived'[i]
      <4> QED BY <1>1, <1>2, <3>1, <3>2, ArchiveQuiet
    <3> QED BY <1>2, <3>1, <3>2, <3>3, <3>4 DEF Recorded
  <2> QED BY <2>1, <2>2
<1> QED BY <1>4, <1>6, <1>7 DEF Delivering

\* A step of the loop on rows of the outbox: it takes only rows that are on
\* record, and gives back the number of a generation only when none runs.
LEMMA LoopStep ==
  ASSUME Delivering, UNCHANGED vars, call' = Idle,
         queue' \in Seq(Grants \X Nat), blocked' \in Seq(Grants \X Nat), Items' \subseteq Items,
         \A i \in Grants : \A k \in Events(i) :
           <<i, k>> \in Items \ Items' => (Alive(i) => k \in Evidence(i)),
         \/ counter' = counter
         \/ \E i \in Grants : stream[i].pc # "open" /\ counter' = [counter EXCEPT ![i] = 1]
  PROVE  Delivering'
<1>1. Sound /\ Prefixes /\ Queued /\ Numbers /\ NothingLost
  BY DEF Delivering
<1>2. Sound' /\ Prefixes'
  BY <1>1, NothingChanges
<1>3. /\ stream' = stream /\ row' = row /\ stored' = stored /\ archived' = archived
      /\ \A i \in Grants : Events(i)' = Events(i) /\ Journal(i)' = Journal(i)
  BY DEF vars, Events, Journal
<1>4. Queued'
  <2> SUFFICES ASSUME NEW item \in Items' PROVE item[2] \in Events(item[1])'
    BY DEF Queued
  <2>1. item[1] \in Grants /\ item[2] \in Events(item[1])
    BY <1>1, ItemsAre
  <2> QED BY <1>3, <2>1
<1>5. Numbers'
  <2>1. counter \in [Grants -> Nat] /\ \A i \in Grants : Numbered(i)
    BY <1>1 DEF Numbers
  <2>2. CASE counter' = counter
    BY <1>3, <2>1, <2>2 DEF Numbers, Numbered
  <2>3. ASSUME NEW i \in Grants, stream[i].pc # "open", counter' = [counter EXCEPT ![i] = 1]
        PROVE  Numbers'
    <3>1. counter' \in [Grants -> Nat] /\ \A j \in Grants : counter'[j] = IF j = i THEN 1 ELSE counter[j]
      BY <2>1, <2>3
    <3> QED BY <1>3, <2>1, <2>3, <3>1 DEF Numbers, Numbered
  <2> QED BY <2>2, <2>3
<1>6. Recorded'
  BY DEF Recorded, Idle
<1>7. NothingLost'
  <2> SUFFICES ASSUME NEW i \in Grants, Alive(i), NEW k \in Events(i)
               PROVE  <<i, k>> \in Items' \/ k \in Evidence(i)
    BY <1>3 DEF NothingLost, Alive, Evidence
  <2>1. <<i, k>> \in Items \/ k \in Evidence(i)
    BY <1>1 DEF NothingLost, Alive
  <2> QED BY <2>1
<1> QED BY <1>2, <1>4, <1>5, <1>6, <1>7 DEF Delivering

LEMMA TakeKeeps ==
  ASSUME Delivering, Take
  PROVE  Delivering'
<1>1. Sound /\ Queued /\ Recorded
  BY DEF Delivering
<1>2. PICK i \in Grants : i = call.item[1]
  BY <1>1 DEF Take, Recorded
<1> DEFINE acked == {i} \X (1..call.ack)
           ended == \E item \in acked \intersect Items : Journal(i)[item[2]].kind = "end"
<1>3. /\ call.kind = "event" /\ call.answer = "saved" /\ call.ack \in Nat
      /\ Alive(i) => 1..call.ack \subseteq stored[i]
  BY <1>1, <1>2 DEF Take, Recorded
<1>4. UNCHANGED vars /\ call' = Idle
  BY DEF Take
<1>5. CASE call.ack < call.item[2] /\ UNCHANGED <<queue, blocked, counter>>
  <2>1. Items' = Items /\ queue' \in Seq(Grants \X Nat) /\ blocked' \in Seq(Grants \X Nat)
    BY <1>1, <1>5 DEF Items, Queued
  <2> QED BY <1>4, <1>5, <2>1, LoopStep
<1>6. CASE /\ queue' = Without(queue, acked) /\ blocked' = Without(blocked, acked)
           /\ counter' = counter \/ (ended /\ counter' = [counter EXCEPT ![i] = 1])
  <2> HIDE DEF acked
  <2>1. /\ queue' \in Seq(Grants \X Nat) /\ Range(queue)' = Range(queue) \ acked
        /\ blocked' \in Seq(Grants \X Nat) /\ Range(blocked)' = Range(blocked) \ acked
    BY <1>1, <1>6, WithoutIs DEF Queued
  <2>2. Items' = Items \ acked
    BY <2>1 DEF Items
  <2>3. ASSUME NEW j \in Grants, NEW k \in Events(j), <<j, k>> \in Items \ Items', Alive(j)
        PROVE  k \in Evidence(j)
    <3>1. <<j, k>> \in acked
      BY <2>2, <2>3
    <3>2. j = i /\ k \in 1..call.ack
      BY <3>1 DEF acked
    <3> QED BY <1>3, <2>3, <3>2 DEF Evidence
  <2>4. ended => stream[i].pc # "open"
    <3> SUFFICES ASSUME NEW item \in acked \intersect Items, Journal(i)[item[2]].kind = "end"
                 PROVE  stream[i].pc = "over"
      OBVIOUS
    <3>1. item[1] = i
      BY DEF acked
    <3>2. item[2] \in Events(i)
      BY <1>1, <3>1, ItemsAre
    <3> QED BY <1>1, <3>2, JournalIs
  <2> HIDE DEF ended
  <2>5. Items' \subseteq Items
    BY <2>2
  <2> QED BY <1>4, <1>6, <2>1, <2>3, <2>4, <2>5, LoopStep
<1>7. \/ call.ack < call.item[2] /\ UNCHANGED <<queue, blocked, counter>>
      \/ /\ queue' = Without(queue, acked) /\ blocked' = Without(blocked, acked)
         /\ counter' = counter \/ (ended /\ counter' = [counter EXCEPT ![i] = 1])
  <2>1. call.item[2] \in Nat
    BY <1>1, <1>2, <1>3, GrantTyped DEF Recorded
  <2>2. \/ ~(call.ack >= call.item[2]) /\ UNCHANGED <<queue, blocked, counter>>
        \/ /\ queue' = Without(queue, acked) /\ blocked' = Without(blocked, acked)
           /\ counter' = counter \/ (ended /\ counter' = [counter EXCEPT ![i] = 1])
    BY <1>2 DEF Take
  <2> HIDE DEF acked, ended
  <2> QED BY <1>3, <2>1, <2>2
<1> QED BY <1>5, <1>6, <1>7

LEMMA SetAsideKeeps ==
  ASSUME Delivering, SetAside
  PROVE  Delivering'
<1> DEFINE i == call.item[1]
           mine == Among(queue, Its(i))
<1>1. Sound /\ Queued
  BY DEF Delivering
<1>2. /\ queue' = Without(queue, Its(i)) /\ blocked' = blocked \o mine
      /\ UNCHANGED vars /\ call' = Idle /\ counter' = counter
  BY DEF SetAside
<1> HIDE DEF i
<1>3. /\ queue' \in Seq(Grants \X Nat) /\ Range(queue') = Range(queue) \ Its(i)
      /\ mine \in Seq(Grants \X Nat) /\ Range(mine) = Range(queue) \intersect Its(i)
  BY <1>1, <1>2, WithoutIs, AmongIs DEF Queued
<1> HIDE DEF mine
<1>4. blocked' \in Seq(Grants \X Nat) /\ Range(blocked') = Range(blocked) \union Range(mine)
  BY <1>1, <1>2, <1>3, RangeConcatenation, ConcatProperties DEF Queued
<1>5. Items' = Items
  BY <1>3, <1>4 DEF Items
<1> QED BY <1>2, <1>3, <1>4, <1>5, LoopStep

LEMMA TakeArchiveKeeps ==
  ASSUME Delivering, TakeArchive
  PROVE  Delivering'
<1>1. Sound /\ Queued /\ Recorded
  BY DEF Delivering
<1>2. PICK i \in Grants, k \in Nat : i = call.item[1] /\ k = call.item[2]
  <2>1. call.item[1] \in Grants /\ call.item[2] \in Events(call.item[1])
    BY <1>1 DEF TakeArchive, Recorded
  <2>2. \A i \in Grants : Events(i) \subseteq Nat
    BY <1>1, GrantTyped
  <2>3. call.item[2] \in Nat
    BY <2>1, <2>2
  <2> QED BY <2>1, <2>3
<1>3. UNCHANGED vars /\ call' = Idle /\ queue' = queue /\ call.kind = "archive"
  BY DEF TakeArchive
<1>4. CASE call.answer = "saved"
  <2>1. /\ blocked' = Without(blocked, {call.item})
        /\ counter' = counter \/ (MayRetire(i) /\ counter' = [counter EXCEPT ![i] = 1])
    BY <1>2, <1>4 DEF TakeArchive
  <2>2. /\ queue' \in Seq(Grants \X Nat) /\ blocked' \in Seq(Grants \X Nat)
        /\ Range(blocked') = Range(blocked) \ {call.item} /\ Range(queue') = Range(queue)
    BY <1>1, <1>3, <2>1, WithoutIs DEF Queued
  <2>3. Items' \subseteq Items /\ Items \ Items' \subseteq {call.item}
    BY <2>2 DEF Items
  <2>4. ASSUME NEW j \in Grants, NEW n \in Events(j), <<j, n>> \in Items \ Items', Alive(j)
        PROVE  n \in Evidence(j)
    <3>1. <<j, n>> = call.item
      BY <2>3, <2>4
    <3>2. j = call.item[1] /\ n = call.item[2]
      BY <3>1
    <3>3. n \in archived[j]
      BY <1>1, <1>3, <1>4, <2>4, <3>2 DEF Recorded
    <3> QED BY <3>3 DEF Evidence
  <2> QED BY <1>3, <2>1, <2>2, <2>3, <2>4, LoopStep DEF MayRetire
<1>5. CASE call.answer # "saved"
  <2>1. UNCHANGED <<blocked, counter>>
    BY <1>5 DEF TakeArchive
  <2>2. Items' = Items /\ queue' \in Seq(Grants \X Nat) /\ blocked' \in Seq(Grants \X Nat)
    BY <1>1, <1>3, <2>1 DEF Items, Queued
  <2> QED BY <1>3, <2>1, <2>2, LoopStep
<1> QED BY <1>4, <1>5

LEMMA AgainKeeps ==
  ASSUME Delivering, Again
  PROVE  Delivering'
<1>1. /\ UNCHANGED <<queue, blocked, counter>> /\ UNCHANGED vars /\ call' = Idle
  BY DEF Again
<1>2. Items' = Items /\ queue' \in Seq(Grants \X Nat) /\ blocked' \in Seq(Grants \X Nat)
  BY <1>1 DEF Delivering, Items, Queued
<1> QED BY <1>1, <1>2, LoopStep

-----------------------------------------------------------------------------
(* The node: appends and restarts                                          *)

LEMMA AppendsKeeps ==
  ASSUME Delivering, NEW i \in Grants, Appends(i)
  PROVE  Delivering'
<1> DEFINE n == Len(Journal(i))
<1>1. Sound /\ Prefixes /\ Queued /\ Numbers /\ Recorded /\ NothingLost
  BY DEF Delivering
<1>2. /\ Report(i) \/ Final(i) \/ Finish(i)
      /\ queue' = Append(queue, <<i, counter[i]>>)
      /\ counter' = [counter EXCEPT ![i] = @ + 1]
      /\ blocked' = blocked /\ call' = call
  BY DEF Appends
<1>3. Sound' /\ stream[i].pc = "open" /\ UNCHANGED <<exists, row, book, stored, archived, owner>>
  BY <1>1, <1>2, JournalSound DEF Report, Final, Finish, Node
<1>4. counter[i] = n + 1 /\ n \in Nat
  BY <1>1, <1>3, GrantTyped DEF Numbers, Numbered
<1>5. PICK e : /\ Journal(i)' = Append(Journal(i), e)
               /\ stream'[i].pc # "none"
               /\ \A j \in Grants : j # i => stream'[j] = stream[j]
  <2>1. PICK st, e : /\ stream' = [stream EXCEPT ![i] = st]
                     /\ st.journal = Append(Journal(i), e) /\ st.pc # "none"
    <3>1. stream[i] \in StreamT
      BY <1>1, GrantTyped
    <3>2. CASE Report(i)
      <4> DEFINE st == [stream[i] EXCEPT !.journal = Journalled(i, "usage", stream[i].durable)]
      <4>1. stream' = [stream EXCEPT ![i] = st]
        BY <3>2 DEF Report
      <4>2. st.journal = Journalled(i, "usage", stream[i].durable) /\ st.pc # "none"
        BY <1>3, <3>1 DEF StreamT
      <4> QED BY <4>1, <4>2 DEF Journalled
    <3>3. CASE Finish(i)
      <4> DEFINE st == [stream[i] EXCEPT !.journal = Journalled(i, "end", stream[i].durable),
                                         !.pc = "over"]
      <4>1. stream' = [stream EXCEPT ![i] = st]
        BY <3>3 DEF Finish
      <4>2. st.journal = Journalled(i, "end", stream[i].durable) /\ st.pc # "none"
        BY <3>1 DEF StreamT
      <4> QED BY <4>1, <4>2 DEF Journalled
    <3>4. CASE Final(i)
      <4>1. PICK d \in stream[i].durable..(stream[i].resume + stream[i].sent) :
              stream' = [stream EXCEPT ![i].journal = Journalled(i, "final", d), ![i].durable = d]
        BY <3>4 DEF Final
      <4> DEFINE st == [stream[i] EXCEPT !.journal = Journalled(i, "final", d), !.durable = d]
      <4>2. stream' = [stream EXCEPT ![i] = st]
        BY <4>1
      <4>3. st.journal = Journalled(i, "final", d) /\ st.pc # "none"
        BY <1>3, <3>1 DEF StreamT
      <4> QED BY <4>2, <4>3 DEF Journalled
    <3> QED BY <1>2, <3>2, <3>3, <3>4
  <2>2. stream'[i] = st /\ \A j \in Grants : j # i => stream'[j] = stream[j]
    BY <1>1, <2>1 DEF Sound, Typed
  <2> QED BY <2>1, <2>2 DEF Journal
<1>6. /\ Events(i)' = 1..(n + 1) /\ Events(i) = 1..n /\ Len(Journal(i)') = n + 1
      /\ \A j \in Grants : j # i => Journal(j)' = Journal(j) /\ Events(j)' = Events(j)
  <2>1. Journal(i) \in Seq(EventT) /\ Journal(i)' \in Seq(EventT)
    <3>1. stream' \in [Grants -> StreamT]
      BY <1>3 DEF Sound, Typed
    <3> QED BY <1>1, <3>1, GrantTyped DEF Journal, StreamT
  <2>2. Len(Journal(i)') = n + 1
    BY <1>5, <2>1
  <2> QED BY <1>5, <2>2 DEF Events, Journal
<1>7. /\ queue' \in Seq(Grants \X Nat) /\ Range(queue)' = Range(queue) \union {<<i, n + 1>>}
  <2>1. <<i, n + 1>> \in Grants \X Nat /\ queue' = Append(queue, <<i, n + 1>>)
    BY <1>2, <1>4
  <2> QED BY <1>1, <2>1, RangeOfAppend DEF Queued
<1>8. Items' = Items \union {<<i, n + 1>>}
  BY <1>2, <1>7 DEF Items
<1>9. \A j \in Grants : Events(j) \subseteq Events(j)'
  BY <1>4, <1>6
<1> HIDE DEF n
<1>10. Queued'
  <2>1. ASSUME NEW item \in Items' PROVE item[2] \in Events(item[1])'
    <3>1. CASE item \in Items
      BY <1>1, <1>9, <3>1, ItemsAre
    <3>2. CASE item = <<i, n + 1>>
      BY <1>4, <1>6, <3>2
    <3> QED BY <1>8, <3>1, <3>2
  <2> QED BY <1>1, <1>2, <1>7, <2>1 DEF Queued
<1>11. Numbers'
  <2>1. counter \in [Grants -> Nat] /\ \A j \in Grants : Numbered(j)
    BY <1>1 DEF Numbers
  <2>2. counter' \in [Grants -> Nat] /\ \A j \in Grants : counter'[j] = IF j = i THEN n + 2 ELSE counter[j]
    BY <1>2, <1>4, <2>1
  <2>3. ASSUME NEW j \in Grants PROVE Numbered(j)'
    <3>1. CASE j = i
      <4>1. counter'[j] = (n + 1) + 1
        BY <1>4, <2>2, <3>1
      <4> QED BY <1>5, <1>6, <3>1, <4>1 DEF Numbered
    <3>2. CASE j # i
      BY <1>5, <1>6, <2>1, <2>2, <3>2 DEF Numbered
    <3> QED BY <3>1, <3>2
  <2> QED BY <2>2, <2>3 DEF Numbers
<1>12. Recorded'
  <2> SUFFICES ASSUME call.kind # "none" PROVE Recorded'
    BY <1>2 DEF Recorded
  <2>1. call.item[1] \in Grants /\ call.item[2] \in Events(call.item[1])
    BY <1>1 DEF Recorded
  <2>2. call.item[2] \in Events(call.item[1])'
    BY <1>2, <1>9, <2>1 DEF Events, Journal
  <2> QED BY <1>1, <1>2, <1>3, <2>2 DEF Recorded, Alive
<1>13. NothingLost'
  <2> SUFFICES ASSUME NEW j \in Grants, Alive(j), NEW k \in Events(j)'
               PROVE  <<j, k>> \in Items' \/ k \in Evidence(j)
    BY <1>3 DEF NothingLost, Alive, Evidence
  <2>1. CASE k \in Events(j)
    BY <1>1, <1>8, <2>1 DEF NothingLost, Alive
  <2>2. CASE k \notin Events(j)
    <3>1. j = i /\ k = n + 1
      BY <1>4, <1>6, <2>2
    <3> QED BY <1>8, <3>1
  <2> QED BY <2>1, <2>2
<1>14. Prefixes'
  <2>1. \A j \in Grants : stored[j] \subseteq stored'[j] /\ archived[j] \subseteq archived'[j]
    BY <1>3
  <2> QED BY <1>1, <1>3, <2>1, SameRows
<1> QED BY <1>3, <1>10, <1>11, <1>12, <1>13, <1>14 DEF Delivering

\* A stream that breaks keeps what its generation and its row say.
LEMMA BrokenIs ==
  ASSUME NEW st \in StreamT, st.pc = "open"
  PROVE  LET over == [st EXCEPT !.pc = "over"] IN
         /\ over \in StreamT /\ over.journal = st.journal /\ over.pc = "over"
         /\ \A b, kept : Granted(b, st, kept) => Granted(b, over, kept)
         /\ \A r, g, b, o : Reigns(r, g, b, o, st) => Reigns(r, g, b, o, over)
<1> DEFINE over == [st EXCEPT !.pc = "over"]
<1>1. /\ over \in StreamT /\ over.journal = st.journal /\ over.pc = "over" /\ over.sent = st.sent
      /\ over.granted = st.granted /\ over.resume = st.resume /\ st # NoStream
  BY DEF StreamT, NoStream
<1> HIDE DEF over
<1>2. ASSUME NEW b, NEW kept, Granted(b, st, kept) PROVE Granted(b, over, kept)
  <2>1. Streaming(b, over)
    BY <1>1, <1>2 DEF Granted, Streaming
  <2> QED BY <1>1, <1>2, <2>1 DEF Granted
<1>3. ASSUME NEW r, NEW g, NEW b, NEW o, Reigns(r, g, b, o, st) PROVE Reigns(r, g, b, o, over)
  <2>1. Running(r, b, st) => Running(r, b, over)
    BY <1>1 DEF Running
  <2> QED BY <1>1, <1>3, <2>1 DEF Reigns
<1> QED BY <1>1, <1>2, <1>3 DEF over

LEMMA RestartKeeps ==
  ASSUME Delivering, Restart
  PROVE  Delivering'
<1>1. Sound /\ Prefixes /\ Queued /\ Numbers /\ NothingLost
  BY DEF Delivering
<1>2. /\ UNCHANGED <<exists, row, book, stored, archived, owner, queue, blocked, counter>>
      /\ call' = Idle
      /\ stream' = [i \in Grants |-> IF stream[i].pc = "open" THEN [stream[i] EXCEPT !.pc = "over"]
                                                              ELSE stream[i]]
  BY DEF Restart
<1>3. \A i \in Grants : /\ stream'[i] = IF stream[i].pc = "open"
                                        THEN [stream[i] EXCEPT !.pc = "over"] ELSE stream[i]
                        /\ stream[i] \in StreamT
  BY <1>1, <1>2, GrantTyped
<1>4. ASSUME NEW i \in Grants
      PROVE  /\ stream'[i] \in StreamT /\ Journal(i)' = Journal(i)
             /\ stream'[i].pc # "open" /\ (stream'[i].pc = "none" => stream[i].pc = "none")
             /\ Granted(book'[i], stream'[i], Evidence(i)')
             /\ Reigns(row'[i[1]], i[2], book'[i], owner'[i], stream'[i])
  <2>1. /\ Granted(book[i], stream[i], Evidence(i)) /\ Evidence(i)' = Evidence(i)
        /\ Reigns(row[i[1]], i[2], book[i], owner[i], stream[i])
    BY <1>1, <1>2 DEF Sound, Evidence
  <2>2. CASE stream[i].pc = "open"
    BY <1>2, <1>3, <2>1, <2>2, BrokenIs DEF Journal
  <2>3. CASE stream[i].pc # "open"
    BY <1>2, <1>3, <2>1, <2>3 DEF Journal
  <2> QED BY <2>2, <2>3
<1>5. stream' \in [Grants -> StreamT]
  <2>1. DOMAIN stream' = Grants /\ stream' = [i \in Grants |-> stream'[i]]
    BY <1>2
  <2> QED BY <1>4, <2>1
<1>6. Sound'
  <2>1. Typed'
    BY <1>1, <1>2, <1>5 DEF Sound, Typed
  <2>2. \A s \in Sessions : MaxGen > 0 => BeginsOnce(s)'
    BY <1>1, <1>2 DEF Sound, BeginsOnce
  <2> QED BY <1>1, <1>2, <1>4, <2>1, <2>2 DEF Sound
<1>7. QuietStreams /\ QuietRecords /\ Prefixes'
  <2>1. QuietRecords /\ Prefixes'
    BY <1>1, <1>2, StreamQuiet
  <2> QED BY <1>4, <2>1 DEF QuietStreams
<1>8. Queued' /\ Numbers' /\ NothingLost'
  BY <1>1, <1>2, <1>7, QuietStep
<1>9. Recorded'
  BY <1>2 DEF Recorded, Idle
<1> QED BY <1>6, <1>7, <1>8, <1>9 DEF Delivering

-----------------------------------------------------------------------------
(* Every step of the node and the main site                                *)

LEMMA OthersKeep ==
  ASSUME Delivering, Others
  PROVE  Delivering'
<1>1. Sound /\ Prefixes /\ Queued /\ Numbers /\ Recorded /\ NothingLost
  BY DEF Delivering
<1>2. UNCHANGED <<queue, blocked, counter>> /\ call' = call
  BY DEF Others, node
<1>3. Sound' /\ QuietStreams /\ QuietRecords /\ Prefixes'
  <2>1. CASE \E s \in Sessions :
               \/ AuthorizeFirst(s) \/ AuthorizeNext(s) \/ Connect(s) \/ Renew(s) \/ Age(s)
               \/ Reap(s) \/ Cancel(s) \/ Delete(s)
    BY <1>1, <2>1, SessionSteps, SessionQuiet
  <2>2. CASE \E i \in Grants : Send(i) \/ Break(i)
    <3>1. UNCHANGED <<row, stored, archived>>
      BY <2>2 DEF Send, Break, Node
    <3> QED BY <1>1, <2>2, <3>1, GrantSteps, StreamQuiet
  <2> QED BY <2>1, <2>2 DEF Others
<1>4. Queued' /\ Numbers' /\ NothingLost'
  BY <1>1, <1>2, <1>3, QuietStep
<1>5. Recorded'
  BY <1>1, <1>2, <1>3, QuietCall
<1> QED BY <1>3, <1>4, <1>5 DEF Delivering

LEMMA DeliveringKept == Delivering /\ [OutboxNext]_allVars => Delivering'
<1> SUFFICES ASSUME Delivering, [OutboxNext]_allVars PROVE Delivering'
  OBVIOUS
<1>1. ASSUME UNCHANGED vars, UNCHANGED <<queue, blocked, counter, call>> PROVE Delivering'
  <2>1. Sound /\ Prefixes /\ Queued /\ Numbers /\ Recorded /\ NothingLost
    BY DEF Delivering
  <2>2. Sound' /\ Prefixes' /\ QuietStreams /\ QuietRecords
    BY <1>1, <2>1, NothingChanges
  <2>3. Queued' /\ Numbers' /\ NothingLost'
    BY <1>1, <2>1, <2>2, QuietStep
  <2>4. Recorded'
    BY <1>1, <2>1, <2>2, QuietCall
  <2> QED BY <2>2, <2>3, <2>4 DEF Delivering
<1>2. CASE \E i \in Grants : Appends(i)
  BY <1>2, AppendsKeeps
<1>3. CASE Run
  BY <1>3, PostKeeps, TakeKeeps, SetAsideKeeps, AgainKeeps, PostArchiveKeeps, TakeArchiveKeeps DEF Run
<1>4. CASE Elapse
  BY <1>1, <1>4 DEF Elapse
<1>5. CASE UNCHANGED allVars
  BY <1>1, <1>5 DEF allVars, node
<1> QED BY <1>2, <1>3, <1>4, <1>5, OthersKeep, RestartKeeps DEF OutboxNext

\* The invariant holds with the outbox and its loop.
THEOREM DeliveringAlways == OutboxSpec => []Delivering
BY DeliveringStarts, DeliveringKept, PTL DEF OutboxSpec

\* No event that a node journalled is lost on its way: it stays in the outbox
\* until the main site has it in its tables (outbox/queue.go Ack, Block,
\* Archive), whatever is refused, lost, restarted, handed over or deleted.
THEOREM EventsReachTheSite == OutboxSpec => []NothingLost
<1>1. Delivering => NothingLost
  BY DEF Delivering
<1> QED BY <1>1, DeliveringAlways, PTL

\* A stream never gives a number out twice, also when all before it were
\* acknowledged or archived (outbox/queue.go Append, Ack, retireCounter).
THEOREM NumbersStayFresh == OutboxSpec => []NumbersAreFresh
<1>1. Delivering => NumbersAreFresh
  BY DEF Delivering, Numbers, Numbered, NumbersAreFresh
<1> QED BY <1>1, DeliveringAlways, PTL

\* Behind the outbox, with its retries, lost answers and restarts, the main
\* site still bills what was sent, and audio is sent only when it is paid for.
THEOREM BilledBehindTheOutbox == OutboxSpec => [](BilledIsSent /\ SentIsPrepaid)
<1>1. Delivering => BilledIsSent /\ SentIsPrepaid
  BY BillOfSound, PrepaidOfSound DEF Delivering
<1> QED BY <1>1, DeliveringAlways, PTL

\* What the outbox lets happen to the money of a grant.
LEMMA PostMoves ==
  ASSUME Delivering, Post, NEW i \in Grants
  PROVE  Moves(i)
<1>1. Sound /\ Queued
  BY DEF Delivering
<1>2. PICK n \in Grants, k \in Nat : Head(queue) = <<n, k>> /\ k \in Events(n)
  <2>1. Head(queue) \in Range(queue)
    BY <1>1, HeadIn DEF Post, Queued
  <2>2. Head(queue) \in Items
    BY <2>1 DEF Items
  <2> QED BY <1>1, <2>2, ItemsAre
<1>3. Event(n, k) \/ UNCHANGED vars
  BY <1>2 DEF Post
<1>4. CASE Event(n, k)
  BY <1>1, <1>2, <1>4, NodeMoves
<1>5. CASE UNCHANGED vars
  BY <1>5, RestsWhenAlike DEF vars
<1> QED BY <1>3, <1>4, <1>5

LEMMA PostArchiveMoves ==
  ASSUME Delivering, PostArchive, NEW i \in Grants
  PROVE  Moves(i)
<1> DEFINE ready == Among(blocked, (Grants \ backoff) \X Nat)
           n == Head(ready)[1]
           k == Head(ready)[2]
<1>1. Sound /\ Queued
  BY DEF Delivering
<1>2. n \in Grants /\ k \in Events(n)
  <2>1. ready \in Seq(Grants \X Nat) /\ Range(ready) \subseteq Range(blocked)
    BY <1>1, AmongIs DEF Queued
  <2>2. ready # <<>>
    BY DEF PostArchive
  <2> HIDE DEF ready
  <2>3. Head(ready) \in Items
    BY <2>1, <2>2, HeadIn DEF Items
  <2> QED BY <1>1, <2>3, ItemsAre
<1>3. Archive(n, k) \/ UNCHANGED vars
  BY Zenon DEF PostArchive
<1> HIDE DEF n, k, ready
<1>4. CASE Archive(n, k)
  BY <1>1, <1>2, <1>4, NodeMoves
<1>5. CASE UNCHANGED vars
  BY <1>5, RestsWhenAlike DEF vars
<1> QED BY <1>3, <1>4, <1>5

LEMMA OutboxMoves ==
  ASSUME Delivering, [OutboxNext]_allVars, NEW i \in Grants
  PROVE  Moves(i)
<1>1. Sound
  BY DEF Delivering
<1>2. CASE \E n \in Grants : Appends(n)
  BY <1>1, <1>2, NodeMoves DEF Appends
<1>3. CASE Others
  BY <1>1, <1>3, SiteMoves, NodeMoves DEF Others
<1>4. CASE Take \/ SetAside \/ Again \/ TakeArchive \/ Elapse \/ UNCHANGED allVars
  <2>1. UNCHANGED vars
    BY <1>4 DEF Take, SetAside, Again, TakeArchive, Elapse, allVars
  <2> QED BY <2>1, RestsWhenAlike DEF vars
<1>5. CASE Restart
  <2>1. stream[i] \in StreamT
    BY <1>1, GrantTyped
  <2>2. /\ book'[i] = book[i]
        /\ stream'[i] = stream[i] \/ stream'[i] = [stream[i] EXCEPT !.pc = "over"]
    BY <1>5 DEF Restart
  <2>3. stream'[i].sent = stream[i].sent /\ (stream'[i].pc = "open" => stream[i].pc = "open")
    BY <2>1, <2>2 DEF StreamT
  <2> QED BY <2>2, <2>3 DEF Moves, Rests
<1> QED BY <1>2, <1>3, <1>4, <1>5, PostMoves, PostArchiveMoves DEF OutboxNext, Run

\* The same behind the outbox, with its retries, lost answers and restarts.
THEOREM GrantIsPrepaidBehindTheOutbox ==
  ASSUME NEW i \in Grants PROVE OutboxSpec => Generation(i)!Spec
<1> DEFINE I == Delivering /\ Whole(i)
<1>1. OutboxInit => I /\ Generation(i)!Init
  BY DeliveringStarts, GenerationStarts DEF OutboxInit
<1>2. I /\ [OutboxNext]_allVars => I' /\ [Generation(i)!Next]_<<Cost(i), stream[i].sent, Reconciled(i)>>
  BY DeliveringKept, OutboxMoves, WholeMoves, GenerationMoves DEF Delivering
<1> HIDE DEF I
<1> QED BY <1>1, <1>2, PTL DEF OutboxSpec, Generation!Spec
=============================================================================
