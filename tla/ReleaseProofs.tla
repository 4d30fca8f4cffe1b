---------------------------- MODULE ReleaseProofs ----------------------------
(***************************************************************************)
(* Proofs about Release. RouteServes and LeavesDrained are not inductive:  *)
(* they follow from Steady, which says what each step of a command may     *)
(* rely on, so that the command may die after any step and a later one may *)
(* go on from the journal alone.                                           *)
(***************************************************************************)
EXTENDS Release, TLAPS

(* The color the journal does not name.                                     *)
Spare == Other(journal.active)

(* A container, as TypeOK has it.                                           *)
Box == [state : {"absent", "stopped", "running"}, mode : Modes, file : Modes,
        checked : BOOLEAN, busy : BOOLEAN]

(* The steps that make a candidate ready, and those between a cutover's     *)
(* saved intent and its saved outcome.                                      *)
Checking == {"run", "start", "probe", "check", "settle", "excuse"}
Cutover == {"activate", "forward", "reload", "ack", "revert", "reload_back", "demote", "adopt"}

(* What a command is at tells the phase the journal is in and the color it  *)
(* works on, which is never the one that serves, but for the draining of    *)
(* the color before it.                                                     *)
Place ==
  /\ cli.j = journal
  /\ journal.previous \in {None, Spare}
  /\ journal.phase \in {"candidate", "switching"} => journal.target = Spare
  /\ journal.phase = "observing" => journal.previous = Spare
  /\ ~At("idle") => cli.color = Spare \/ cli.pc \in {"retire", "observe", "finish", "drain"}
  /\ cli.pc \in {"clear", "remove", "record"} => journal.phase \in {"ready", "draining", "candidate"}
  /\ cli.pc \in Checking => journal.phase = "candidate"
  /\ cli.pc \in Checking \cup {"clear", "remove", "record"} => cli.then = "observe"
  /\ cli.pc \in {"revive", "intent"} \cup Cutover \cup {"retire"} => cli.then \in {"observe", "finish"}
  /\ At("revive") => journal.phase # "candidate"
  /\ cli.pc \in Cutover => journal.phase = "switching"
  /\ cli.pc \in {"retire", "observe", "finish"} => journal.phase = "observing"
  /\ At("drain") => journal.phase \in {"ready", "observing", "draining"} /\ journal.previous = Spare
  /\ At("stop") => cli.then \in {"retired", "aborted"}
  /\ At("retired") \/ (At("stop") /\ cli.then = "retired") => journal.phase \in {"ready", "observing", "draining"}
  /\ At("dismiss") => cli.then = "aborted"
  /\ cli.pc \in {"dismiss", "aborted"} \/ (At("stop") /\ cli.then = "aborted") => journal.phase = "candidate"

(* A container restarts in the mode it is in, and an active one runs. One   *)
(* that was stopped had been drained, and comes back so.                    *)
Persisted == \A c \in Colors :
  /\ box[c].mode = box[c].file
  /\ ~Running(c) => box[c].mode # "active"
  /\ box[c].state = "stopped" => box[c].mode = "draining"
  /\ box[c].state = "absent" => ~box[c].checked

(* A color passed its checks before anything is forwarded to it, and what   *)
(* was the active one keeps them. What is stopped was draining, and a       *)
(* journal is saved as ready only when its spare color is down.             *)
Vetted ==
  /\ journal.phase = "switching" \/ cli.pc \in {"settle", "intent", "revive"} => box[Spare].checked
  /\ journal.phase \in {"ready", "observing", "draining"} /\ journal.previous = Spare =>
       box[Spare].state = "absent" \/ box[Spare].checked
  /\ cli.pc \in {"start", "probe", "check", "settle", "excuse"} => box[Spare].state # "absent"
  /\ At("stop") => Running(Spare) /\ Drained(Spare)
  /\ cli.pc \in {"retired", "aborted"} => ~Running(Spare)

(* The journal's color serves at all times, and whatever the proxy forwards *)
(* to, or will after its reload, does too: only within a cutover is that    *)
(* another color, and it is back before the other stops to serve.           *)
Routed ==
  /\ Serves(journal.active)
  /\ journal.phase # "switching" => conf = journal.active /\ route = journal.active
  /\ conf = Spare \/ (route = Spare /\ ~reloading) => Serves(Spare)
  /\ cli.pc \in {"forward", "reload", "ack", "adopt", "revert"} => Serves(Spare)
  /\ cli.pc \in {"reload", "ack", "adopt"} => conf = Spare
  /\ cli.pc \in {"reload_back", "demote"} => conf = journal.active
  /\ At("demote") => reloading \/ route = journal.active
  /\ At("adopt") => route = Spare

(* The other color neither admits work nor has any.                         *)
Alone == ~Running(Spare) \/ Drained(Spare)

(* The inductive invariant.                                                 *)
Steady ==
  /\ TypeOK /\ Place /\ Persisted /\ Vetted /\ Routed
  /\ journal.phase = "ready" => Alone

USE DEF At, Goto, Halt, Running, Drained, Colors, None, Other, Spare, proxy

-----------------------------------------------------------------------------
(* Types                                                                    *)

(* Each way a step writes keeps the types.                                  *)
LEMMA SaveTyped ==
  ASSUME TypeOK, NEW j \in Journals, NEW pc \in Steps, Save(j, pc)
  PROVE  TypeOK'
BY DEF TypeOK, Save

LEMMA ChangeTyped ==
  ASSUME TypeOK, NEW c \in Colors, NEW b \in Box, NEW pc \in Steps, Change(c, b, pc)
  PROVE  TypeOK'
BY DEF TypeOK, Change, Box

LEMMA BoxesTyped ==
  ASSUME TypeOK, NEW c \in Colors
  PROVE  /\ box[c] \in Box /\ Absent \in Box /\ Boot(box[c]) \in Box /\ Boot(Absent) \in Box
         /\ \A mode \in Modes : WithMode(box[c], mode) \in Box
         /\ [box[c] EXCEPT !.checked = TRUE] \in Box /\ [box[c] EXCEPT !.state = "stopped"] \in Box
BY DEF TypeOK, Box, Absent, Boot, WithMode, Modes

LEMMA JournalsTyped ==
  ASSUME NEW j \in Journals, NEW c \in Colors, NEW p \in Colors \cup {None}, NEW phase \in Phases
  PROVE  /\ [j EXCEPT !.phase = phase] \in Journals /\ [j EXCEPT !.phase = phase, !.target = c] \in Journals
         /\ [j EXCEPT !.active = c, !.previous = j.active, !.phase = phase] \in Journals
         /\ [j EXCEPT !.phase = phase, !.target = None, !.previous = p] \in Journals
BY DEF Journals

LEMMA CliTyped ==
  ASSUME TypeOK
  PROVE  /\ cli.j \in Journals /\ cli.color \in Colors \cup {None} /\ cli.pc \in Steps /\ cli.then \in Steps
         /\ cli.j.active \in Colors /\ cli.j.previous \in Colors \cup {None}
BY DEF TypeOK, Journals

LEMMA MoveTyped ==
  ASSUME TypeOK, NEW pc \in Steps, Goto(pc), UNCHANGED <<journal, box, before, quiet>>,
         conf' \in Colors, route' \in Colors, reloading' \in BOOLEAN
  PROVE  TypeOK'
BY DEF TypeOK

-----------------------------------------------------------------------------
(* Steps that replace a container or set its mode.                          *)

LEMMA ClearSteady == ASSUME Steady, Clear PROVE Steady'
<1>1. TypeOK /\ Place /\ Persisted /\ Vetted /\ Routed
  BY DEF Steady
<1>2. TypeOK'
  BY <1>1, ChangeTyped, BoxesTyped, CliTyped DEF Clear, Place, Steps
<1>3. Place'
  BY <1>1 DEF Change, Clear, TypeOK, Cutover, Checking, Place
<1>4. Persisted'
  BY <1>1 DEF Change, Drained, Clear, TypeOK, Persisted
<1>5. Vetted'
  BY <1>1 DEF Change, Clear, TypeOK, Vetted, Routed
<1>6. Routed'
  BY <1>1 DEF Change, Clear, TypeOK, Serves, Place, Vetted, Routed
<1>7. journal'.phase = "ready" => Alone'
  BY <1>1 DEF Change, Clear, TypeOK, Alone, Steady
<1> QED BY <1>2, <1>3, <1>4, <1>5, <1>6, <1>7 DEF Steady

LEMMA RemoveSteady == ASSUME Steady, Remove PROVE Steady'
<1>1. TypeOK /\ Place /\ Persisted /\ Vetted /\ Routed
  BY DEF Steady
<1>2. TypeOK'
  BY <1>1, ChangeTyped, BoxesTyped, CliTyped DEF Remove, Place, Steps
<1>3. Place'
  BY <1>1 DEF Change, Remove, Cutover, Checking, Place
<1>4. Persisted'
  BY <1>1 DEF Absent, Change, Remove, Persisted
<1>5. Vetted'
  BY <1>1 DEF Absent, Change, Remove, Place, Vetted, Routed
<1>6. Routed'
  BY <1>1 DEF Change, Remove, Serves, Place, Vetted, Routed
<1>7. journal'.phase = "ready" => Alone'
  BY <1>1 DEF Absent, Change, Remove, Alone, Steady
<1> QED BY <1>2, <1>3, <1>4, <1>5, <1>6, <1>7 DEF Steady

LEMMA RunSteady == ASSUME Steady, Run PROVE Steady'
<1>1. TypeOK /\ Place /\ Persisted /\ Vetted /\ Routed
  BY DEF Steady
<1>2. TypeOK'
  BY <1>1, ChangeTyped, BoxesTyped, CliTyped DEF Run, Place, Steps
<1>3. Place'
  BY <1>1 DEF Change, Run, Cutover, Checking, Place
<1>4. Persisted'
  BY <1>1 DEF Change, Boot, Run, Persisted, Vetted
<1>5. Vetted'
  BY <1>1 DEF Change, Run, Boot, Absent, Checking, TypeOK, Place, Vetted, Routed
<1>6. Routed'
  BY <1>1 DEF Change, Run, Serves, Checking, Place, Persisted, Vetted, Routed
<1>7. journal'.phase = "ready" => Alone'
  BY <1>1 DEF Change, Run, Checking, Place, Vetted, Alone, Steady
<1> QED BY <1>2, <1>3, <1>4, <1>5, <1>6, <1>7 DEF Steady

LEMMA StartSteady == ASSUME Steady, Start PROVE Steady'
<1>1. TypeOK /\ Place /\ Persisted /\ Vetted /\ Routed
  BY DEF Steady
<1>2. TypeOK'
  BY <1>1, ChangeTyped, BoxesTyped, CliTyped DEF Start, Place, Steps
<1>3. Place'
  BY <1>1 DEF Change, Start, Cutover, Checking, Place
<1>4. Persisted'
  BY <1>1 DEF Change, Boot, Start, Persisted
<1>5. Vetted'
  BY <1>1 DEF Change, Start, Boot, Checking, TypeOK, Place, Vetted, Routed
<1>6. Routed'
  BY <1>1 DEF Change, Start, Serves, Vetted, Routed
<1>7. journal'.phase = "ready" => Alone'
  BY <1>1 DEF Change, Start, Checking, Place, Alone, Steady
<1> QED BY <1>2, <1>3, <1>4, <1>5, <1>6, <1>7 DEF Steady

LEMMA ProbeSteady == ASSUME Steady, Probe PROVE Steady'
<1>1. TypeOK /\ Place /\ Persisted /\ Vetted /\ Routed
  BY DEF Steady
<1>2. TypeOK'
  BY <1>1, ChangeTyped, BoxesTyped, CliTyped DEF Control, Probe, Place, Modes, Steps
<1>3. Place'
  BY <1>1 DEF Change, Control, Probe, Cutover, Checking, Place
<1>4. Persisted'
  BY <1>1 DEF Change, WithMode, Control, Probe, Persisted, Vetted
<1>5. Vetted'
  BY <1>1 DEF Change, Control, WithMode, Probe, Checking, TypeOK, Place, Vetted, Routed
<1>6. Routed'
  BY <1>1 DEF Change, Control, Probe, Serves, Checking, Place, Persisted, Vetted, Routed
<1>7. journal'.phase = "ready" => Alone'
  BY <1>1 DEF Change, Control, Probe, Checking, Place, Vetted, Alone, Steady
<1> QED BY <1>2, <1>3, <1>4, <1>5, <1>6, <1>7 DEF Steady

LEMMA CheckSteady == ASSUME Steady, Check PROVE Steady'
<1>1. TypeOK /\ Place /\ Persisted /\ Vetted /\ Routed
  BY DEF Steady
<1>2. TypeOK'
  BY <1>1, ChangeTyped, BoxesTyped, CliTyped DEF Check, Place, Steps
<1>3. Place'
  BY <1>1 DEF Change, Check, TypeOK, Cutover, Checking, Place
<1>4. Persisted'
  BY <1>1 DEF Change, Check, Place, Vetted, TypeOK, Persisted
<1>5. Vetted'
  BY <1>1 DEF Change, Check, TypeOK, Place, Vetted
<1>6. Routed'
  BY <1>1 DEF Change, Check, TypeOK, Serves, Checking, Place, Routed
<1>7. journal'.phase = "ready" => Alone'
  BY <1>1 DEF Change, Check, Checking, Place, Steady
<1> QED BY <1>2, <1>3, <1>4, <1>5, <1>6, <1>7 DEF Steady

LEMMA SettleSteady == ASSUME Steady, Settle PROVE Steady'
<1>1. TypeOK /\ Place /\ Persisted /\ Vetted /\ Routed
  BY DEF Steady
<1>2. TypeOK'
  BY <1>1, ChangeTyped, BoxesTyped, CliTyped DEF Control, Settle, Place, Modes, Steps
<1>3. Place'
  BY <1>1 DEF Change, Control, Settle, Cutover, Checking, Place
<1>4. Persisted'
  BY <1>1 DEF Change, WithMode, Control, Settle, Persisted, Vetted
<1>5. Vetted'
  BY <1>1 DEF Change, WithMode, Control, Settle, Vetted, Routed
<1>6. Routed'
  BY <1>1 DEF Change, Control, Settle, Serves, Checking, Place, Persisted, Vetted, Routed
<1>7. journal'.phase = "ready" => Alone'
  BY <1>1 DEF Change, Control, Settle, Checking, Place, Vetted, Alone, Steady
<1> QED BY <1>2, <1>3, <1>4, <1>5, <1>6, <1>7 DEF Steady

LEMMA ExcuseSteady == ASSUME Steady, Excuse PROVE Steady'
<1>1. TypeOK /\ Place /\ Persisted /\ Vetted /\ Routed
  BY DEF Steady
<1>2. TypeOK'
  BY <1>1, ChangeTyped, BoxesTyped, CliTyped DEF Control, Excuse, Place, Modes, Steps
<1>3. Place'
  BY <1>1 DEF Change, Control, Excuse, Cutover, Checking, Place
<1>4. Persisted'
  BY <1>1 DEF Change, WithMode, Control, Excuse, Persisted, Vetted
<1>5. Vetted'
  BY <1>1 DEF Change, Control, Excuse, Checking, Place, Vetted, Routed
<1>6. Routed'
  BY <1>1 DEF Change, Control, Excuse, Serves, Checking, Place, Persisted, Vetted, Routed
<1>7. journal'.phase = "ready" => Alone'
  BY <1>1 DEF Change, Control, Excuse, Checking, Place, Vetted, Alone, Steady
<1> QED BY <1>2, <1>3, <1>4, <1>5, <1>6, <1>7 DEF Steady

LEMMA ActivateSteady == ASSUME Steady, Activate PROVE Steady'
<1>1. TypeOK /\ Place /\ Persisted /\ Vetted /\ Routed
  BY DEF Steady
<1>2. TypeOK'
  BY <1>1, ChangeTyped, BoxesTyped, CliTyped DEF Control, Activate, Place, Modes, Steps
<1>3. Place'
  BY <1>1 DEF Change, Control, Activate, Cutover, Checking, Place
<1>4. Persisted'
  BY <1>1 DEF Change, WithMode, Control, Activate, Persisted, Vetted
<1>5. Vetted'
  BY <1>1 DEF Change, WithMode, Control, Activate, Vetted, Routed
<1>6. Routed'
  BY <1>1
  DEF Change, WithMode, Control, Activate, TypeOK, Serves, Cutover, Place, Persisted, Vetted, Routed
<1>7. journal'.phase = "ready" => Alone'
  BY <1>1 DEF Change, Control, Activate, Cutover, Place, Vetted, Alone, Steady
<1> QED BY <1>2, <1>3, <1>4, <1>5, <1>6, <1>7 DEF Steady

LEMMA DemoteSteady == ASSUME Steady, Demote PROVE Steady'
<1>1. TypeOK /\ Place /\ Persisted /\ Vetted /\ Routed
  BY DEF Steady
<1>2. TypeOK'
  BY <1>1, ChangeTyped, BoxesTyped, CliTyped DEF Control, Demote, Place, Modes, Steps
<1>3. Place'
  BY <1>1 DEF Change, Control, Demote, Cutover, Checking, Place
<1>4. Persisted'
  BY <1>1 DEF Change, WithMode, Control, Demote, Persisted, Vetted
<1>5. Vetted'
  BY <1>1 DEF Change, WithMode, Control, Demote, Vetted, Routed
<1>6. Routed'
  BY <1>1 DEF Change, Control, Demote, Serves, Place, Persisted, Vetted, Routed
<1>7. journal'.phase = "ready" => Alone'
  BY <1>1 DEF Change, Control, Demote, Cutover, Place, Vetted, Alone, Steady
<1> QED BY <1>2, <1>3, <1>4, <1>5, <1>6, <1>7 DEF Steady

LEMMA RetireSteady == ASSUME Steady, Retire PROVE Steady'
<1>1. TypeOK /\ Place /\ Persisted /\ Vetted /\ Routed
  BY DEF Steady
<1>2. TypeOK'
  BY <1>1, ChangeTyped, BoxesTyped, CliTyped DEF Control, Retire, Place, Modes
<1>3. Place'
  BY <1>1 DEF Change, Control, Retire, Cutover, Checking, Place
<1>4. Persisted'
  BY <1>1 DEF Change, WithMode, Control, Retire, Persisted, Vetted
<1>5. Vetted'
  BY <1>1 DEF Change, WithMode, Control, Retire, Place, Vetted, Routed
<1>6. Routed'
  BY <1>1 DEF Change, Control, Retire, Serves, Place, Persisted, Vetted, Routed
<1>7. journal'.phase = "ready" => Alone'
  BY <1>1 DEF Change, Control, Retire, Place, Vetted, Alone, Steady
<1> QED BY <1>2, <1>3, <1>4, <1>5, <1>6, <1>7 DEF Steady

LEMMA ReviveSteady == ASSUME Steady, Revive PROVE Steady'
<1>1. TypeOK /\ Place /\ Persisted /\ Vetted /\ Routed
  BY DEF Steady
<1>2. TypeOK'
  BY <1>1, ChangeTyped, BoxesTyped, CliTyped DEF Revive, Place, Steps
<1>3. Place'
  BY <1>1 DEF Change, Revive, Cutover, Checking, Place
<1>4. Persisted'
  BY <1>1 DEF Change, Boot, Revive, Persisted
<1>5. Vetted'
  BY <1>1 DEF Change, Boot, Revive, Vetted, Routed
<1>6. Routed'
  BY <1>1 DEF Change, Revive, Serves, Vetted, Routed
<1>7. journal'.phase = "ready" => Alone'
  BY <1>1 DEF Change, Boot, Revive, TypeOK, Place, Persisted, Vetted, Alone, Steady
<1> QED BY <1>2, <1>3, <1>4, <1>5, <1>6, <1>7 DEF Steady

-----------------------------------------------------------------------------
(* Steps that save the journal.                                             *)

LEMMA RecordSteady == ASSUME Steady, Record PROVE Steady'
<1>1. TypeOK /\ Place /\ Persisted /\ Vetted /\ Routed
  BY DEF Steady
<1>2. TypeOK'
  BY <1>1, SaveTyped, JournalsTyped, CliTyped DEF Record, Place, Phases, Steps
<1>3. Place'
  BY <1>1 DEF Save, Record, Cutover, Place
<1>4. Persisted'
  BY <1>1 DEF Save, Record, Persisted
<1>5. Vetted'
  BY <1>1 DEF Save, Record, Vetted
<1>6. Routed'
  BY <1>1 DEF Save, Record, Serves, Place, Routed
<1>7. journal'.phase = "ready" => Alone'
  BY <1>1 DEF Save, Record, Steady
<1> QED BY <1>2, <1>3, <1>4, <1>5, <1>6, <1>7 DEF Steady

LEMMA IntentSteady == ASSUME Steady, Intent PROVE Steady'
<1>1. TypeOK /\ Place /\ Persisted /\ Vetted /\ Routed
  BY DEF Steady
<1>2. TypeOK'
  BY <1>1, SaveTyped, JournalsTyped, CliTyped DEF Intent, Place, Phases, Steps
<1>3. Place'
  BY <1>1 DEF Save, Intent, Checking, Place
<1>4. Persisted'
  BY <1>1 DEF Save, Intent, Persisted
<1>5. Vetted'
  BY <1>1 DEF Save, Intent, Place, Vetted
<1>6. Routed'
  BY <1>1 DEF Save, Intent, Serves, Place, Routed
<1>7. journal'.phase = "ready" => Alone'
  BY <1>1 DEF Save, Intent, Steady
<1> QED BY <1>2, <1>3, <1>4, <1>5, <1>6, <1>7 DEF Steady

LEMMA AdoptSteady == ASSUME Steady, Adopt PROVE Steady'
<1>1. TypeOK /\ Place /\ Persisted /\ Vetted /\ Routed
  BY DEF Steady
<1>2. TypeOK'
  BY <1>1, SaveTyped, JournalsTyped, CliTyped DEF Adopt, Place, Phases, Steps
<1>3. Place'
  BY <1>1 DEF Journals, Save, Adopt, TypeOK, Cutover, Checking, Place
<1>4. Persisted'
  BY <1>1 DEF Save, Adopt, Persisted
<1>5. Vetted'
  BY <1>1 DEF Save, Adopt, Serves, Place, Vetted, Routed
<1>6. Routed'
  BY <1>1 DEF Save, Adopt, Serves, Place, Routed
<1>7. journal'.phase = "ready" => Alone'
  BY <1>1 DEF Save, Adopt, Steady
<1> QED BY <1>2, <1>3, <1>4, <1>5, <1>6, <1>7 DEF Steady

LEMMA ObserveSteady == ASSUME Steady, Observe PROVE Steady'
<1>1. TypeOK /\ Place /\ Persisted /\ Vetted /\ Routed
  BY DEF Steady
<1>2. TypeOK'
  BY <1>1, SaveTyped, JournalsTyped, CliTyped DEF Observe, Phases, Steps
<1>3. Place'
  BY <1>1 DEF Save, Observe, Cutover, Checking, Place
<1>4. Persisted'
  BY <1>1 DEF Save, Observe, Persisted
<1>5. Vetted'
  BY <1>1 DEF Save, Observe, Place, Vetted
<1>6. Routed'
  BY <1>1 DEF Save, Observe, Serves, Place, Routed
<1>7. journal'.phase = "ready" => Alone'
  BY <1>1 DEF Save, Observe, Steady
<1> QED BY <1>2, <1>3, <1>4, <1>5, <1>6, <1>7 DEF Steady

LEMMA FinishSteady == ASSUME Steady, Finish PROVE Steady'
<1>1. TypeOK /\ Place /\ Persisted /\ Vetted /\ Routed
  BY DEF Steady
<1>2. TypeOK'
  BY <1>1, SaveTyped, JournalsTyped, CliTyped DEF Finish, Phases, Steps
<1>3. Place'
  BY <1>1 DEF Save, Finish, Cutover, Checking, Place
<1>4. Persisted'
  BY <1>1 DEF Save, Finish, Persisted
<1>5. Vetted'
  BY <1>1 DEF Save, Finish, Place, Vetted
<1>6. Routed'
  BY <1>1 DEF Save, Finish, Serves, Place, Routed
<1>7. journal'.phase = "ready" => Alone'
  BY <1>1 DEF Save, Finish, Steady
<1> QED BY <1>2, <1>3, <1>4, <1>5, <1>6, <1>7 DEF Steady

LEMMA RetiredSteady == ASSUME Steady, Retired PROVE Steady'
<1>1. TypeOK /\ Place /\ Persisted /\ Vetted /\ Routed
  BY DEF Steady
<1>2. TypeOK'
  BY <1>1, SaveTyped, JournalsTyped, CliTyped DEF Retired, Phases, Steps
<1>3. Place'
  BY <1>1 DEF Save, Retired, Cutover, Checking, Place
<1>4. Persisted'
  BY <1>1 DEF Save, Retired, Persisted
<1>5. Vetted'
  BY <1>1 DEF Save, Retired, Place, Vetted
<1>6. Routed'
  BY <1>1 DEF Save, Retired, Serves, Place, Routed
<1>7. journal'.phase = "ready" => Alone'
  BY <1>1 DEF Save, Retired, Place, Vetted, Alone, Steady
<1> QED BY <1>2, <1>3, <1>4, <1>5, <1>6, <1>7 DEF Steady

LEMMA AbortedSteady == ASSUME Steady, Aborted PROVE Steady'
<1>1. TypeOK /\ Place /\ Persisted /\ Vetted /\ Routed
  BY DEF Steady
<1>2. TypeOK'
  BY <1>1, SaveTyped, JournalsTyped, CliTyped DEF Aborted, Phases, Steps
<1>3. Place'
  BY <1>1 DEF Save, Aborted, Cutover, Checking, Place
<1>4. Persisted'
  BY <1>1 DEF Save, Aborted, Persisted
<1>5. Vetted'
  BY <1>1 DEF Save, Aborted, Place, Vetted
<1>6. Routed'
  BY <1>1 DEF Save, Aborted, Serves, Place, Routed
<1>7. journal'.phase = "ready" => Alone'
  BY <1>1 DEF Save, Aborted, Place, Vetted, Alone, Steady
<1> QED BY <1>2, <1>3, <1>4, <1>5, <1>6, <1>7 DEF Steady

-----------------------------------------------------------------------------
(* Steps that point the proxy, and the ones that only give up.              *)

LEMMA ForwardSteady == ASSUME Steady, Forward PROVE Steady'
<1>1. TypeOK /\ Place /\ Persisted /\ Vetted /\ Routed
  BY DEF Steady
<1>2. TypeOK'
  BY <1>1, MoveTyped, CliTyped DEF Point, Forward, Place, TypeOK, Steps
<1>3. Place'
  BY <1>1 DEF Point, Forward, Cutover, Checking, Place
<1>4. Persisted'
  BY <1>1 DEF Point, Forward, Persisted
<1>5. Vetted'
  BY <1>1 DEF Point, Forward, Vetted
<1>6. Routed'
  BY <1>1 DEF Point, Forward, Serves, Cutover, Place, Routed
<1>7. journal'.phase = "ready" => Alone'
  BY <1>1 DEF Point, Forward, Alone, Steady
<1> QED BY <1>2, <1>3, <1>4, <1>5, <1>6, <1>7 DEF Steady

LEMMA ReloadSteady == ASSUME Steady, Reload PROVE Steady'
<1>1. TypeOK /\ Place /\ Persisted /\ Vetted /\ Routed
  BY DEF Steady
<1>2. TypeOK'
  BY <1>1, MoveTyped, CliTyped DEF Signal, Reload, TypeOK, Steps
<1>3. Place'
  BY <1>1 DEF Signal, Reload, Cutover, Checking, Place
<1>4. Persisted'
  BY <1>1 DEF Signal, Reload, Persisted
<1>5. Vetted'
  BY <1>1 DEF Signal, Reload, Vetted
<1>6. Routed'
  BY <1>1 DEF Signal, Reload, Serves, Routed
<1>7. journal'.phase = "ready" => Alone'
  BY <1>1 DEF Signal, Reload, Alone, Steady
<1> QED BY <1>2, <1>3, <1>4, <1>5, <1>6, <1>7 DEF Steady

LEMMA AckSteady == ASSUME Steady, Ack PROVE Steady'
<1>1. TypeOK /\ Place /\ Persisted /\ Vetted /\ Routed
  BY DEF Steady
<1>2. TypeOK'
  BY <1>1, MoveTyped, CliTyped DEF Ack, TypeOK, Steps
<1>3. Place'
  BY <1>1 DEF Ack, Cutover, Checking, Place
<1>4. Persisted'
  BY <1>1 DEF Ack, Persisted
<1>5. Vetted'
  BY <1>1 DEF Ack, Vetted
<1>6. Routed'
  BY <1>1 DEF Ack, Serves, Place, Routed
<1>7. journal'.phase = "ready" => Alone'
  BY <1>1 DEF Ack, Alone, Steady
<1> QED BY <1>2, <1>3, <1>4, <1>5, <1>6, <1>7 DEF Steady

LEMMA GiveUpSteady == ASSUME Steady, GiveUp PROVE Steady'
<1>1. TypeOK /\ Place /\ Persisted /\ Vetted /\ Routed
  BY DEF Steady
<1>2. TypeOK'
  BY <1>1, MoveTyped, CliTyped DEF GiveUp, TypeOK, Steps
<1>3. Place'
  BY <1>1 DEF GiveUp, Cutover, Checking, Place
<1>4. Persisted'
  BY <1>1 DEF GiveUp, Persisted
<1>5. Vetted'
  BY <1>1 DEF GiveUp, Vetted
<1>6. Routed'
  BY <1>1 DEF GiveUp, Serves, Routed
<1>7. journal'.phase = "ready" => Alone'
  BY <1>1 DEF GiveUp, Alone, Steady
<1> QED BY <1>2, <1>3, <1>4, <1>5, <1>6, <1>7 DEF Steady

LEMMA RevertSteady == ASSUME Steady, Revert PROVE Steady'
<1>1. TypeOK /\ Place /\ Persisted /\ Vetted /\ Routed
  BY DEF Steady
<1>2. TypeOK'
  BY <1>1, MoveTyped, CliTyped DEF Point, Revert, TypeOK, Steps
<1>3. Place'
  BY <1>1 DEF Point, Revert, Cutover, Checking, Place
<1>4. Persisted'
  BY <1>1 DEF Point, Revert, Persisted
<1>5. Vetted'
  BY <1>1 DEF Point, Revert, Vetted
<1>6. Routed'
  BY <1>1 DEF Point, Revert, Serves, Place, Routed
<1>7. journal'.phase = "ready" => Alone'
  BY <1>1 DEF Point, Revert, Alone, Steady
<1> QED BY <1>2, <1>3, <1>4, <1>5, <1>6, <1>7 DEF Steady

LEMMA ReloadBackSteady == ASSUME Steady, ReloadBack PROVE Steady'
<1>1. TypeOK /\ Place /\ Persisted /\ Vetted /\ Routed
  BY DEF Steady
<1>2. TypeOK'
  BY <1>1, MoveTyped, CliTyped DEF Signal, ReloadBack, TypeOK, Steps
<1>3. Place'
  BY <1>1 DEF Signal, ReloadBack, Cutover, Checking, Place
<1>4. Persisted'
  BY <1>1 DEF Signal, ReloadBack, Persisted
<1>5. Vetted'
  BY <1>1 DEF Signal, ReloadBack, Vetted
<1>6. Routed'
  BY <1>1 DEF Signal, ReloadBack, Serves, Routed
<1>7. journal'.phase = "ready" => Alone'
  BY <1>1 DEF Signal, ReloadBack, Alone, Steady
<1> QED BY <1>2, <1>3, <1>4, <1>5, <1>6, <1>7 DEF Steady

LEMMA DieSteady == ASSUME Steady, Die PROVE Steady'
<1>1. TypeOK /\ Place /\ Persisted /\ Vetted /\ Routed
  BY DEF Steady
<1>2. TypeOK'
  BY <1>1, MoveTyped, CliTyped DEF Die, TypeOK, Steps
<1>3. Place'
  BY <1>1 DEF Die, Cutover, Checking, Place
<1>4. Persisted'
  BY <1>1 DEF Die, Persisted
<1>5. Vetted'
  BY <1>1 DEF Die, Vetted
<1>6. Routed'
  BY <1>1 DEF Die, Serves, Routed
<1>7. journal'.phase = "ready" => Alone'
  BY <1>1 DEF Die, Alone, Steady
<1> QED BY <1>2, <1>3, <1>4, <1>5, <1>6, <1>7 DEF Steady

-----------------------------------------------------------------------------
(* Stopping a color, and the branches of drain, abort and a failed watch.   *)

LEMMA StopSteady == ASSUME Steady, Stop PROVE Steady'
<1>1. TypeOK /\ Place /\ Persisted /\ Vetted /\ Routed
  BY DEF Steady
<1>2. /\ cli.color = Spare /\ cli.then \in {"retired", "aborted"} /\ cli.pc = "stop" /\ journal.active \in Colors
      /\ box[Spare].mode = "draining" /\ Running(Spare) /\ box[Spare] \in Box /\ Spare \in Colors /\ Spare # journal.active
  BY <1>1 DEF Place, Vetted, Stop, TypeOK, Journals, Box
<1> DEFINE b == [box[Spare] EXCEPT !.state = "stopped"]
<1>3. Change(Spare, b, cli.then)
  BY <1>2 DEF Stop, StopBox
<1>4. /\ b \in Box /\ b.state = "stopped" /\ b.mode = "draining" /\ b.file = box[Spare].file /\ b.checked = box[Spare].checked
  BY <1>2 DEF Box
<1> HIDE DEF b
<1>5. /\ box' \in [Colors -> Box] /\ box'[Spare] = b /\ box'[journal.active] = box[journal.active]
      /\ cli' = [cli EXCEPT !.pc = cli.then] /\ UNCHANGED <<journal, conf, route, reloading, before, quiet>>
  BY <1>1, <1>2, <1>3, <1>4 DEF Change, TypeOK, Box
<1>6. TypeOK'
  BY <1>1, <1>2, <1>3, <1>4, ChangeTyped DEF Steps
<1>7. Place'
  BY <1>1, <1>2, <1>5 DEF Place, Checking, Cutover
<1>8. Persisted'
  BY <1>1, <1>2, <1>4, <1>5 DEF Persisted
<1>9. Vetted'
  BY <1>1, <1>2, <1>4, <1>5 DEF Vetted, TypeOK
<1>10. Routed'
  BY <1>1, <1>2, <1>4, <1>5 DEF Routed, Serves
<1>11. Alone'
  BY <1>4, <1>5 DEF Alone
<1> QED BY <1>6, <1>7, <1>8, <1>9, <1>10, <1>11 DEF Steady

LEMMA DismissSteady == ASSUME Steady, Dismiss PROVE Steady'
<1>1. TypeOK /\ Place /\ Persisted /\ Vetted /\ Routed
  BY DEF Steady
<1>2. /\ cli.color = Spare /\ cli.then = "aborted" /\ cli.pc = "dismiss" /\ journal.phase = "candidate" /\ journal.active \in Colors
      /\ box[Spare] \in Box /\ Spare \in Colors /\ Spare # journal.active /\ conf = journal.active /\ route = journal.active
  BY <1>1 DEF Place, Routed, Dismiss, TypeOK, Box
<1>3. PICK b \in Box, pc \in {"aborted", "idle", "stop"} :
        /\ Change(Spare, b, pc) /\ b.mode = b.file /\ b.state = box[Spare].state
        /\ b.state # "running" => b = box[Spare] /\ pc = "aborted"
        /\ b.state = "running" => b.mode = "draining" /\ pc # "aborted" /\ (b.busy => pc = "idle")
  <2>1. CASE ~Running(Spare)
    BY <1>1, <1>2, <2>1 DEF Dismiss, Persisted
  <2>2. CASE Running(Spare)
    <3>1. WithMode(box[Spare], "draining") \in Box
      BY <1>1, <1>2, BoxesTyped DEF Modes
    <3> DEFINE b == WithMode(box[Spare], "draining")
               pc == IF box[Spare].busy THEN "idle" ELSE "stop"
    <3>2. b.mode = "draining" /\ b.file = "draining" /\ b.state = "running" /\ (b.busy => pc = "idle")
      BY <1>2, <2>2 DEF WithMode, Box
    <3>3. Change(Spare, b, pc)
      BY <1>2, <2>2 DEF Dismiss
    <3>4. pc \in {"idle", "stop"} /\ box[Spare].state = "running"
      BY <2>2
    <3>5. b \in Box
      BY <3>1
    <3> HIDE DEF b, pc
    <3> QED BY <3>2, <3>3, <3>4, <3>5
  <2> QED BY <2>1, <2>2
<1>4. /\ box' \in [Colors -> Box] /\ box'[Spare] = b /\ box'[journal.active] = box[journal.active]
      /\ cli' = [cli EXCEPT !.pc = pc] /\ UNCHANGED <<journal, conf, route, reloading, before, quiet>>
  BY <1>1, <1>2, <1>3 DEF Change, TypeOK, Box
<1>5. TypeOK'
  BY <1>1, <1>2, <1>3, ChangeTyped DEF Steps
<1>6. Place'
  BY <1>1, <1>2, <1>3, <1>4 DEF Place, Checking, Cutover
<1>7. Persisted'
  BY <1>1, <1>2, <1>3, <1>4 DEF Persisted
<1>8. Vetted'
  BY <1>1, <1>2, <1>3, <1>4 DEF Vetted, TypeOK
<1>9. Routed'
  BY <1>1, <1>2, <1>3, <1>4 DEF Routed, Serves
<1> QED BY <1>2, <1>4, <1>5, <1>6, <1>7, <1>8, <1>9 DEF Steady

LEMMA DrainSteady == ASSUME Steady, Drain PROVE Steady'
<1>1. TypeOK /\ Place /\ Persisted /\ Vetted /\ Routed
  BY DEF Steady
<1>2. /\ cli.j = journal /\ cli.j.previous = Spare /\ cli.pc = "drain" /\ journal.phase \in {"ready", "observing", "draining"}
      /\ journal.active \in Colors /\ box[Spare] \in Box /\ Spare \in Colors /\ Spare # journal.active
      /\ conf = journal.active /\ route = journal.active /\ journal \in Journals /\ journal.previous = Spare
  BY <1>1 DEF Place, Routed, Drain, TypeOK, Box
<1>3. CASE box[Spare].state = "stopped" /\ Save([cli.j EXCEPT !.phase = "ready"], "idle")
  <2>1. TypeOK'
    BY <1>1, <1>2, <1>3, SaveTyped, JournalsTyped DEF Phases, Steps
  <2>2. /\ journal' = [journal EXCEPT !.phase = "ready"] /\ cli' = [cli EXCEPT !.j = journal', !.pc = "idle"]
        /\ UNCHANGED <<box, conf, route, reloading, before, quiet>>
    BY <1>2, <1>3 DEF Save
  <2>3. /\ journal'.phase = "ready" /\ journal'.active = journal.active /\ journal'.previous = Spare
        /\ cli'.pc = "idle" /\ cli'.j = journal'
    BY <1>1, <1>2, <2>2 DEF Journals, TypeOK
  <2>4. Place'
    BY <2>3 DEF Place, Checking, Cutover
  <2>5. Persisted' /\ Alone'
    BY <1>1, <1>3, <2>2, <2>3 DEF Persisted, Alone
  <2>6. Vetted'
    BY <1>1, <1>2, <2>2, <2>3 DEF Vetted
  <2>7. Routed'
    BY <1>1, <1>2, <2>2, <2>3 DEF Routed, Serves
  <2> QED BY <2>1, <2>4, <2>5, <2>6, <2>7 DEF Steady
<1>4. CASE Running(Spare) /\ box' = [box EXCEPT ![Spare] = WithMode(@, "draining")]
  <2> DEFINE b == WithMode(box[Spare], "draining")
  <2>1. b \in Box
    BY <1>1, <1>2, BoxesTyped DEF Modes
  <2>2. /\ b.mode = "draining" /\ b.file = "draining" /\ b.state = "running" /\ b.checked = box[Spare].checked
        /\ b.busy = box[Spare].busy
    BY <1>2, <1>4 DEF WithMode, Box
  <2>3. /\ box' \in [Colors -> Box] /\ box'[Spare] = b /\ box'[journal.active] = box[journal.active]
        /\ box[Spare].checked
    BY <1>1, <1>2, <1>4, <2>1 DEF TypeOK, Box, Vetted
  <2> HIDE DEF b
  <2>4. Persisted'
    BY <1>1, <1>2, <2>2, <2>3 DEF Persisted, Drain
  <2>5. CASE ~box[Spare].busy
    <3>1. /\ cli' = [cli EXCEPT !.pc = "stop", !.color = Spare, !.then = "retired"]
          /\ UNCHANGED <<journal, conf, route, reloading, before, quiet>>
      BY <1>2, <1>4, <2>5 DEF Drain
    <3>2. TypeOK'
      <4>1. cli' \in [pc : Steps, color : Colors \cup {None}, then : Steps, j : Journals]
        BY <1>1, <1>2, <3>1 DEF TypeOK, Steps
      <4> QED BY <1>1, <2>3, <3>1, <4>1 DEF TypeOK, Box
    <3>3. cli'.pc = "stop" /\ cli'.color = Spare /\ cli'.then = "retired" /\ cli'.j = journal
      BY <1>1, <1>2, <3>1 DEF TypeOK
    <3>4. Place'
      BY <1>2, <3>1, <3>3 DEF Place, Checking, Cutover
    <3>5. Vetted'
      BY <1>2, <2>2, <2>3, <2>5, <3>1, <3>3 DEF Vetted
    <3>6. Routed'
      BY <1>1, <1>2, <2>2, <2>3, <3>1, <3>3 DEF Routed, Serves
    <3>7. Alone'
      BY <2>2, <2>3, <2>5, <3>1 DEF Alone
    <3> QED BY <2>4, <3>2, <3>4, <3>5, <3>6, <3>7 DEF Steady
  <2>6. CASE box[Spare].busy
    <3>1. /\ journal' = [journal EXCEPT !.phase = "draining"] /\ cli' = [cli EXCEPT !.j = journal', !.pc = "idle"]
          /\ UNCHANGED <<conf, route, reloading, before, quiet>>
      BY <1>2, <1>4, <2>6 DEF Drain
    <3>2. /\ journal'.phase = "draining" /\ journal'.active = journal.active /\ journal'.previous = Spare
          /\ cli'.pc = "idle" /\ cli'.j = journal' /\ journal' \in Journals
      BY <1>1, <1>2, <3>1 DEF Journals, TypeOK, Phases
    <3>3. TypeOK'
      BY <1>1, <2>3, <3>1, <3>2 DEF TypeOK, Box, Steps
    <3>4. Place'
      BY <3>2 DEF Place, Checking, Cutover
    <3>5. Vetted'
      BY <1>2, <2>2, <2>3, <3>2 DEF Vetted
    <3>6. Routed'
      BY <1>1, <1>2, <2>2, <2>3, <3>1, <3>2 DEF Routed, Serves
    <3> QED BY <2>4, <3>2, <3>3, <3>4, <3>5, <3>6 DEF Steady
  <2> QED BY <2>5, <2>6, <1>1, <1>2 DEF Box
<1> QED BY <1>2, <1>3, <1>4 DEF Drain

LEMMA ObserveFailsSteady == ASSUME Steady, ObserveFails PROVE Steady'
<1>1. TypeOK /\ Place /\ Persisted /\ Vetted /\ Routed
  BY DEF Steady
<1>2. /\ cli.j = journal /\ journal.previous = Spare /\ Spare \in Colors /\ journal.phase = "observing"
      /\ box[Spare].checked
  BY <1>1 DEF ObserveFails, Place, Vetted, CanRevive
<1>3. /\ cli' = [cli EXCEPT !.pc = "revive", !.color = Spare, !.then = "finish"]
      /\ UNCHANGED <<journal, box, conf, route, reloading, before, quiet>>
  BY <1>2 DEF ObserveFails
<1>4. cli'.pc = "revive" /\ cli'.color = Spare /\ cli'.then = "finish" /\ cli'.j = journal
  BY <1>1, <1>2, <1>3 DEF TypeOK
<1>5. TypeOK'
  BY <1>1, <1>2, <1>3 DEF TypeOK, Steps
<1>6. Place' /\ Vetted'
  BY <1>1, <1>2, <1>3, <1>4 DEF Place, Vetted, Checking, Cutover
<1>7. Persisted' /\ Routed' /\ journal'.phase # "ready"
  BY <1>1, <1>2, <1>3, <1>4 DEF Persisted, Routed, Serves
<1> QED BY <1>5, <1>6, <1>7 DEF Steady

-----------------------------------------------------------------------------
(* Commands: each starts from the journal as it is, which is Timely.        *)

LEMMA BeginSteady ==
  ASSUME Timely, Steady, NEW pc \in {"clear", "start", "intent", "observe", "revive", "dismiss", "drain"},
         NEW color \in Colors \cup {None}, NEW then \in Steps, Begin(journal, pc, color, then)
  PROVE  /\ TypeOK' /\ Persisted' /\ Routed' /\ (journal'.phase = "ready" => Alone')
         /\ UNCHANGED <<journal, box>>
         /\ cli'.pc = pc /\ cli'.color = color /\ cli'.then = then /\ cli'.j = journal'
<1>1. /\ cli' = [pc |-> pc, color |-> color, then |-> then, j |-> journal]
      /\ UNCHANGED <<journal, box, conf, route, reloading, before, quiet>> /\ cli.pc = "idle"
  BY DEF Begin
<1>2. TypeOK'
  BY <1>1 DEF TypeOK, Steady, Steps
<1>3. cli'.pc = pc /\ cli'.color = color /\ cli'.then = then /\ cli'.j = journal
  BY <1>1
<1>4. Persisted' /\ (journal'.phase = "ready" => Alone')
  BY <1>1 DEF Steady, Persisted, Alone
<1>5. Routed'
  BY <1>1, <1>3 DEF Steady, Routed, Serves
<1> QED BY <1>1, <1>2, <1>3, <1>4, <1>5

LEMMA DeploySteady == ASSUME Timely, Steady, Deploy(journal) PROVE Steady'
<1>1. /\ TypeOK /\ Place /\ Vetted /\ journal.active \in Colors /\ Spare \in Colors
      /\ journal.phase \in {"ready", "draining"} /\ Begin(journal, "clear", Spare, "observe")
  BY DEF Steady, Deploy, TypeOK, Journals
<1>2. /\ TypeOK' /\ Persisted' /\ Routed' /\ (journal'.phase = "ready" => Alone') /\ UNCHANGED <<journal, box>>
      /\ cli'.pc = "clear" /\ cli'.color = Spare /\ cli'.then = "observe" /\ cli'.j = journal'
  BY <1>1, BeginSteady DEF Steps
<1>3. Place' /\ Vetted'
  BY <1>1, <1>2 DEF Place, Vetted, Checking, Cutover
<1> QED BY <1>2, <1>3 DEF Steady

LEMMA ResumeSteady == ASSUME Timely, Steady, Resume(journal) PROVE Steady'
<1>1. /\ TypeOK /\ Place /\ Vetted /\ journal.active \in Colors /\ Spare \in Colors
      /\ journal.phase \in {"candidate", "switching"} => journal.target = Spare
  BY DEF Steady, Place, TypeOK, Journals
<1>2. CASE journal.phase = "candidate"
  <2>1. PICK pc \in {"clear", "start"} :
          Begin(journal, pc, Spare, "observe") /\ (pc = "start" => box[Spare].state # "absent")
    BY <1>1, <1>2 DEF Resume
  <2>2. /\ TypeOK' /\ Persisted' /\ Routed' /\ (journal'.phase = "ready" => Alone') /\ UNCHANGED <<journal, box>>
        /\ cli'.pc = pc /\ cli'.color = Spare /\ cli'.then = "observe" /\ cli'.j = journal'
    BY <1>1, <2>1, BeginSteady DEF Steps
  <2>3. Place' /\ Vetted'
    BY <1>1, <1>2, <2>1, <2>2 DEF Place, Vetted, Checking, Cutover
  <2> QED BY <2>2, <2>3 DEF Steady
<1>3. CASE journal.phase = "switching"
  <2>1. Begin(journal, "intent", Spare, "observe")
    BY <1>1, <1>3 DEF Resume
  <2>2. /\ TypeOK' /\ Persisted' /\ Routed' /\ (journal'.phase = "ready" => Alone') /\ UNCHANGED <<journal, box>>
        /\ cli'.pc = "intent" /\ cli'.color = Spare /\ cli'.then = "observe" /\ cli'.j = journal'
    BY <1>1, <2>1, BeginSteady DEF Steps
  <2>3. Place' /\ Vetted'
    BY <1>1, <1>3, <2>2 DEF Place, Vetted, Checking, Cutover
  <2> QED BY <2>2, <2>3 DEF Steady
<1>4. CASE journal.phase = "observing"
  <2>1. Begin(journal, "observe", None, "idle")
    BY <1>1, <1>4 DEF Resume
  <2>2. /\ TypeOK' /\ Persisted' /\ Routed' /\ (journal'.phase = "ready" => Alone') /\ UNCHANGED <<journal, box>>
        /\ cli'.pc = "observe" /\ cli'.color = None /\ cli'.then = "idle" /\ cli'.j = journal'
    BY <2>1, BeginSteady DEF Steps
  <2>3. Place' /\ Vetted'
    BY <1>1, <1>4, <2>2 DEF Place, Vetted, Checking, Cutover
  <2> QED BY <2>2, <2>3 DEF Steady
<1> QED BY <1>2, <1>3, <1>4 DEF Resume

LEMMA RollbackSteady == ASSUME Timely, ~Careless, Steady, Rollback(journal) PROVE Steady'
<1>1. /\ TypeOK /\ Place /\ Vetted /\ journal.active \in Colors /\ Spare \in Colors
      /\ journal.previous = Spare /\ box[Spare].state # "absent" /\ journal.phase \in Phases \ {"candidate"}
      /\ Begin(journal, "revive", Spare, "finish")
  BY DEF Steady, Place, Rollback, CanRevive, TypeOK, Journals
<1>2. box[Spare].checked
  BY <1>1 DEF Vetted, Phases
<1>3. /\ TypeOK' /\ Persisted' /\ Routed' /\ (journal'.phase = "ready" => Alone') /\ UNCHANGED <<journal, box>>
      /\ cli'.pc = "revive" /\ cli'.color = Spare /\ cli'.then = "finish" /\ cli'.j = journal'
  BY <1>1, BeginSteady DEF Steps
<1>4. Place' /\ Vetted'
  BY <1>1, <1>2, <1>3 DEF Place, Vetted, Checking, Cutover
<1> QED BY <1>3, <1>4 DEF Steady

LEMMA AbortSteady == ASSUME Timely, Steady, Abort(journal) PROVE Steady'
<1>1. /\ TypeOK /\ Place /\ Vetted /\ journal.active \in Colors /\ Spare \in Colors
      /\ journal.phase = "candidate" /\ Begin(journal, "dismiss", Spare, "aborted")
  BY DEF Steady, Place, Abort, TypeOK, Journals
<1>2. /\ TypeOK' /\ Persisted' /\ Routed' /\ (journal'.phase = "ready" => Alone') /\ UNCHANGED <<journal, box>>
      /\ cli'.pc = "dismiss" /\ cli'.color = Spare /\ cli'.then = "aborted" /\ cli'.j = journal'
  BY <1>1, BeginSteady DEF Steps
<1>3. Place' /\ Vetted'
  BY <1>1, <1>2 DEF Place, Vetted, Checking, Cutover
<1> QED BY <1>2, <1>3 DEF Steady

LEMMA BeginDrainSteady ==
  ASSUME Timely, Steady, CanDrain(journal), journal.phase \in {"ready", "observing", "draining"},
         Begin(journal, "drain", None, "idle")
  PROVE  Steady'
<1>1. TypeOK /\ Place /\ Vetted /\ journal.previous = Spare
  BY DEF Steady, Place, CanDrain, CanRevive
<1>2. /\ TypeOK' /\ Persisted' /\ Routed' /\ (journal'.phase = "ready" => Alone') /\ UNCHANGED <<journal, box>>
      /\ cli'.pc = "drain" /\ cli'.color = None /\ cli'.then = "idle" /\ cli'.j = journal'
  BY BeginSteady DEF Steps
<1>3. Place' /\ Vetted'
  BY <1>1, <1>2 DEF Place, Vetted, Checking, Cutover
<1> QED BY <1>2, <1>3 DEF Steady

LEMMA DrainCommandSteady == ASSUME Timely, ~Careless, Steady, DrainCommand(journal) PROVE Steady'
<1>1. journal.phase \in {"ready", "observing", "draining"}
  BY DEF Steady, TypeOK, Journals, Phases, DrainCommand
<1> QED BY <1>1, BeginDrainSteady DEF DrainCommand

LEMMA DrainTickSteady == ASSUME Timely, Steady, DrainTick(journal) PROVE Steady'
BY BeginDrainSteady DEF DrainTick

-----------------------------------------------------------------------------
(* Containers, the proxy and the host                                       *)

(* Work that comes and goes, and a restart, which forgets it: no container  *)
(* changes but in whether it is busy, and the spare one of a finished       *)
(* release does not become so.                                              *)
LEMMA WorkSteady ==
  ASSUME Steady, box' \in [Colors -> Box], UNCHANGED <<journal, conf, route, reloading, cli, before, quiet>>,
         \A c \in Colors : /\ box'[c].state = box[c].state /\ box'[c].mode = box[c].mode
                           /\ box'[c].file = box[c].file /\ box'[c].checked = box[c].checked
                           /\ box'[c].busy => box[c].busy \/ box[c].mode = "active" \/ route = c
  PROVE  Steady'
<1>1. /\ TypeOK /\ Place /\ Persisted /\ Vetted /\ Routed /\ (journal.phase = "ready" => Alone)
      /\ journal.active \in Colors /\ Spare \in Colors /\ Spare # journal.active
  BY DEF Steady, TypeOK, Journals
<1>2. TypeOK'
  BY <1>1 DEF TypeOK, Box
<1>3. Place'
  BY <1>1 DEF Place
<1>4. Persisted'
  BY <1>1 DEF Persisted
<1>5. Vetted'
  BY <1>1 DEF Place, Vetted, Routed
<1>6. Routed'
  BY <1>1 DEF Routed, Serves
<1>7. journal'.phase = "ready" => Alone'
  BY <1>1 DEF Alone, Routed
<1> QED BY <1>2, <1>3, <1>4, <1>5, <1>6, <1>7 DEF Steady

LEMMA BusyTyped ==
  ASSUME TypeOK, NEW c \in Colors, NEW busy \in BOOLEAN, box' = [box EXCEPT ![c].busy = busy]
  PROVE  /\ box' \in [Colors -> Box] /\ box'[c].busy = busy
         /\ \A d \in Colors : /\ box'[d].state = box[d].state /\ box'[d].mode = box[d].mode
                              /\ box'[d].file = box[d].file /\ box'[d].checked = box[d].checked
                              /\ d # c => box'[d] = box[d]
<1>1. box[c] \in Box /\ box \in [Colors -> Box]
  BY DEF TypeOK, Box
<1>2. [box[c] EXCEPT !.busy = busy] \in Box
  BY <1>1 DEF Box
<1> QED BY <1>1, <1>2 DEF Box

LEMMA AdmitSteady == ASSUME Steady, NEW c \in Colors, Admit(c) PROVE Steady'
BY WorkSteady, BusyTyped DEF Admit, Steady

LEMMA WorkEndsSteady == ASSUME Steady, NEW c \in Colors, WorkEnds(c) PROVE Steady'
BY WorkSteady, BusyTyped DEF WorkEnds, Steady

(* A container that saved its mode comes back in it.                        *)
LEMMA BootKeeps ==
  ASSUME NEW b \in Box, b.mode = b.file, b.state = "running"
  PROVE  /\ Boot(b) \in Box /\ Boot(b).state = "running" /\ Boot(b).mode = b.mode /\ Boot(b).file = b.file
         /\ Boot(b).checked = b.checked /\ ~Boot(b).busy
BY DEF Boot, Box

LEMMA RestartSteady == ASSUME Steady, NEW c \in Colors, Restart(c) PROVE Steady'
<1>1. /\ box \in [Colors -> Box] /\ box[c] \in Box /\ box[c].mode = box[c].file /\ box[c].state = "running"
      /\ UNCHANGED <<journal, conf, route, reloading, cli, before, quiet>> /\ box' = [box EXCEPT ![c] = Boot(box[c])]
  BY DEF Steady, TypeOK, Persisted, Restart, Box
<1>2. box' \in [Colors -> Box] /\ box'[c] = Boot(box[c]) /\ \A d \in Colors \ {c} : box'[d] = box[d]
  BY <1>1, BootKeeps
<1> QED BY <1>1, <1>2, BootKeeps, WorkSteady

LEMMA LoadSteady == ASSUME Steady, Load PROVE Steady'
<1>1. /\ TypeOK /\ Place /\ Persisted /\ Vetted /\ Routed /\ route' = conf /\ reloading' = FALSE
      /\ (journal.phase = "ready" => Alone) /\ UNCHANGED <<journal, box, conf, cli, before, quiet>> /\ reloading
  BY DEF Steady, Load
<1>2. TypeOK'
  BY <1>1 DEF TypeOK
<1>3. Place' /\ Vetted'
  BY <1>1 DEF Place, Vetted
<1>4. Persisted' /\ (journal'.phase = "ready" => Alone')
  BY <1>1 DEF Persisted, Alone
<1>5. Routed'
  BY <1>1 DEF Routed, Serves
<1> QED BY <1>2, <1>3, <1>4, <1>5 DEF Steady

LEMMA RebootSteady == ASSUME Steady, Reboot PROVE Steady'
<1>1. /\ TypeOK /\ Place /\ Persisted /\ Vetted /\ Routed /\ (journal.phase = "ready" => Alone)
      /\ box \in [Colors -> Box] /\ journal.active \in Colors /\ Spare \in Colors /\ Spare # journal.active
  BY DEF Steady, TypeOK, Journals, Box
<1>2. /\ cli' = [cli EXCEPT !.pc = "idle"] /\ UNCHANGED <<journal, conf, before, quiet>> /\ route' = conf
      /\ reloading' = FALSE /\ box' = [c \in Colors |-> IF Running(c) THEN Boot(box[c]) ELSE box[c]]
  BY DEF Reboot
<1>3. ASSUME NEW c \in Colors
      PROVE  /\ box'[c] \in Box /\ box'[c].state = box[c].state /\ box'[c].mode = box[c].mode
             /\ box'[c].file = box[c].file /\ box'[c].checked = box[c].checked /\ (box'[c].busy => box[c].busy)
  <2>1. CASE Running(c)
    BY <1>1, <1>2, <2>1, BootKeeps DEF Persisted
  <2>2. CASE ~Running(c)
    BY <1>1, <1>2, <2>2
  <2> QED BY <2>1, <2>2
<1>4. box' \in [Colors -> Box] /\ cli'.pc = "idle" /\ cli'.j = journal
  BY <1>1, <1>2, <1>3 DEF Place, TypeOK
<1>5. TypeOK'
  BY <1>1, <1>2, <1>4 DEF TypeOK, Box, Steps
<1>6. Place' /\ Persisted'
  BY <1>1, <1>2, <1>3, <1>4 DEF Place, Persisted, Checking, Cutover
<1>7. Vetted' /\ (journal'.phase = "ready" => Alone')
  BY <1>1, <1>2, <1>3, <1>4 DEF Vetted, Alone
<1>8. Routed'
  BY <1>1, <1>2, <1>3, <1>4 DEF Routed, Serves
<1> QED BY <1>5, <1>6, <1>7, <1>8 DEF Steady

-----------------------------------------------------------------------------
(* The theorems                                                             *)

LEMMA InitSteady == Init => Steady
<1> SUFFICES ASSUME Init PROVE Steady
  OBVIOUS
<1> USE DEF Init, Started, Absent, Idle
<1>1. TypeOK
  BY DEF TypeOK, Journals, Phases, Modes, Steps
<1>2. Place
  BY DEF Place, Checking, Cutover
<1>3. Persisted /\ Vetted /\ Alone
  BY DEF Persisted, Vetted, Alone
<1>4. Routed
  BY DEF Routed, Serves
<1> QED BY <1>1, <1>2, <1>3, <1>4 DEF Steady

LEMMA NextSteady ==
  ASSUME Timely, ~Careless, Steady, [Next]_vars
  PROVE  Steady'
<1>1. CASE Progress
  BY <1>1, ClearSteady, RemoveSteady, RecordSteady, RunSteady, StartSteady, ProbeSteady, CheckSteady, SettleSteady,
     ExcuseSteady, IntentSteady, ActivateSteady, ForwardSteady, ReloadSteady, AckSteady, GiveUpSteady, RevertSteady,
     ReloadBackSteady, DemoteSteady, AdoptSteady, RetireSteady, ObserveSteady, ObserveFailsSteady, ReviveSteady,
     FinishSteady, DrainSteady, StopSteady, RetiredSteady, DismissSteady, AbortedSteady DEF Progress
<1>2. CASE Command
  BY <1>2, DeploySteady, ResumeSteady, RollbackSteady, AbortSteady, DrainCommandSteady, DrainTickSteady
  DEF Command, Readable
<1>3. CASE \E c \in Colors : Admit(c) \/ WorkEnds(c) \/ Restart(c)
  BY <1>3, AdmitSteady, WorkEndsSteady, RestartSteady
<1>4. CASE Settled
  BY <1>4 DEF Settled, Steady, TypeOK, Place, Persisted, Vetted, Routed, Alone, Serves
<1>5. CASE UNCHANGED vars
  BY <1>5 DEF vars, Steady, TypeOK, Place, Persisted, Vetted, Routed, Alone, Serves
<1> QED BY <1>1, <1>2, <1>3, <1>4, <1>5, DieSteady, LoadSteady, RebootSteady DEF Next

(* Whatever step of deploy, resume, rollback, abort or drain fails, is      *)
(* killed or races a restart or a reboot, the journal, the two containers   *)
(* and the proxy agree: a later command can go on from the journal. Given   *)
(* that commands read the journal as it is and that rollback and drain are  *)
(* not called within a cutover.                                             *)
THEOREM StaysSteady == ASSUME Timely, ~Careless PROVE Spec => []Steady
<1>1. Init => Steady
  BY InitSteady
<1>2. Steady /\ [Next]_vars => Steady'
  BY NextSteady
<1> QED BY <1>1, <1>2, PTL DEF Spec

(* switchColor, rollback and drain: at every step the color the proxy       *)
(* forwards to runs, admits work and has passed the smoke checks, and so    *)
(* does the one it will forward to when it has reloaded; but for the target *)
(* of a failed cutover until the reload that leads back takes effect.       *)
THEOREM UsersAreServed == ASSUME Timely, ~Careless PROVE Spec => []RouteServes
<1>1. Steady => RouteServes
  BY DEF Steady, Routed, RouteServes, LeadsBack, TypeOK, Journals
<1> QED BY <1>1, StaysSteady, PTL

(* drain, abort, BeginTask and Middleware: docker stop meets only containers *)
(* that turn work away and have none left, and while state.json says ready   *)
(* the proxy forwards to the color it names and the other color's container  *)
(* is down or drained.                                                       *)
THEOREM OldColorLeavesDrained == ASSUME Timely, ~Careless PROVE Spec => []LeavesDrained
<1>1. Steady => LeavesDrained
  BY DEF Steady, Place, Vetted, Routed, Alone, LeavesDrained, TypeOK, Journals
<1> QED BY <1>1, StaysSteady, PTL
=============================================================================
