------------------------------- MODULE Release -------------------------------
(***************************************************************************)
(* Blue/green releases of the main site: dreamtransctl on the host, the    *)
(* two application containers with their admission mode, and the proxy in  *)
(* front of them. One command runs at a time (flock); it may fail or be    *)
(* killed between any two steps, and a later command goes on from the      *)
(* journal, state.json. The host may reboot.                               *)
(***************************************************************************)
EXTENDS Naturals

CONSTANTS
  Timely,     \* TRUE: the journal a command has read is current when it gets the lock
  Careless    \* TRUE: rollback and drain are also called before the cutover is complete

ASSUME ReleaseAssumption == Timely \in BOOLEAN /\ Careless \in BOOLEAN

Colors == {"blue", "green"}
None == "none"
Other(c) == IF c = "blue" THEN "green" ELSE "blue"
Modes == {"standby", "canary", "active", "draining"}
Phases == {"candidate", "switching", "observing", "draining", "ready"}
Unfinished == Phases \ {"ready"}

VARIABLES
  journal,    \* .bluegreen/state.json
  box,        \* per color its container, and the mode file in its mounted directory
  conf,       \* color named by the proxy's configuration file
  route,      \* color the running proxy forwards to
  reloading,  \* the proxy was told to reload and has not yet
  cli,        \* the command that holds the lock
  before,     \* the journal as the command before it found it
  quiet       \* from now on nothing fails and the operator only resumes

vars == <<journal, box, conf, route, reloading, cli, before, quiet>>
proxy == <<conf, route, reloading>>

Journals == [phase : Phases, active : Colors,
             previous : Colors \union {None}, target : Colors \union {None}]
Steps == {"idle", "clear", "remove", "record", "run", "start", "probe", "check", "settle", "excuse",
          "intent", "activate", "forward", "reload", "ack", "revert", "reload_back", "demote",
          "adopt", "retire", "observe", "drain", "revive", "finish", "dismiss", "stop",
          "retired", "aborted"}

Absent == [state |-> "absent", mode |-> "standby", file |-> "standby", checked |-> FALSE, busy |-> FALSE]
Started == [state |-> "running", mode |-> "active", file |-> "active", checked |-> TRUE, busy |-> FALSE]
Idle(j) == [pc |-> "idle", color |-> None, then |-> "idle", j |-> j]

(* An installation after its conversion: resumeInitial.                     *)
Init ==
  /\ journal = [phase |-> "ready", active |-> "blue", previous |-> None, target |-> None]
  /\ box = [c \in Colors |-> IF c = "blue" THEN Started ELSE Absent]
  /\ conf = "blue" /\ route = "blue" /\ reloading = FALSE
  /\ cli = Idle(journal)
  /\ before = journal
  /\ quiet = FALSE

-----------------------------------------------------------------------------
(* Steps of a command.                                                      *)

At(pc) == cli.pc = pc
Goto(pc) == cli' = [cli EXCEPT !.pc = pc]
Halt == Goto("idle")
Running(c) == box[c].state = "running"

(* persist: the journal is replaced as a whole. *)
Save(j, pc) ==
  /\ journal' = j
  /\ cli' = [cli EXCEPT !.j = j, !.pc = pc]
  /\ UNCHANGED <<box, proxy, before, quiet>>

Change(c, b, pc) ==
  /\ box' = [box EXCEPT ![c] = b]
  /\ Goto(pc)
  /\ UNCHANGED <<journal, proxy, before, quiet>>

(* Mutant: SetMode changes admission without saving the mode. *)
WithModeInMemory(b, mode) == [b EXCEPT !.mode = mode]

(* SetMode: saved in the container's mode file first, so that a restart keeps it. *)
WithMode(b, mode) == [b EXCEPT !.mode = mode, !.file = mode]

(* Configure: a container that starts takes its mode from the file. *)
Boot(b) == [b EXCEPT !.state = "running", !.mode = b.file, !.busy = FALSE]

(* control: on a container that does not run it fails, which is Die. *)
Control(c, mode, pc) == Running(c) /\ Change(c, WithMode(box[c], mode), pc)

(* Status: Drained needs the draining mode. *)
Drained(c) == box[c].mode = "draining" /\ ~box[c].busy

(* docker stop without a time limit: the process turns work away and leaves *)
(* when it has none, looking every 250 ms. A command cut off meanwhile is   *)
(* one that dies before this step or after it.                              *)
StopBox(c, pc) == ~box[c].busy /\ Change(c, [box[c] EXCEPT !.state = "stopped"], pc)

(* startColor: the color's old container goes, if it holds no work. *)
Clear ==
  /\ At("clear")
  /\ LET c == cli.color IN
     \/ /\ box[c].state = "absent"
        /\ Change(c, box[c], "record")
     \/ /\ box[c].state = "stopped" \/ (Running(c) /\ Drained(c))
        /\ Change(c, [box[c] EXCEPT !.state = "stopped"], "remove")
     \/ /\ Running(c) /\ ~Drained(c)
        /\ Change(c, box[c], "idle")

Remove == At("remove") /\ Change(cli.color, Absent, "record")

Record == At("record") /\ Save([cli.j EXCEPT !.phase = "candidate", !.target = cli.color], "run")

(* docker run; the directory's mode file was set to standby before. *)
Run == At("run") /\ Change(cli.color, Boot(Absent), "probe")

(* recoverCandidate: a candidate that exists is started if need be. *)
Start ==
  /\ At("start")
  /\ Change(cli.color, IF Running(cli.color) THEN box[cli.color] ELSE Boot(box[cli.color]), "probe")

(* smoke: opened for the checks, back on standby before the result is used. *)
Probe == At("probe") /\ Control(cli.color, "canary", "check")
Check ==
  /\ At("check")
  /\ \/ Change(cli.color, [box[cli.color] EXCEPT !.checked = TRUE], "settle")
     \/ ~quiet /\ Change(cli.color, box[cli.color], "excuse")
Settle == At("settle") /\ Control(cli.color, "standby", "intent")
Excuse == At("excuse") /\ Control(cli.color, "standby", "idle")

(* switchColor: the target admits work before the proxy forwards to it, and *)
(* the old color stops to admit work after the journal names the new one.   *)
Intent == At("intent") /\ Save([cli.j EXCEPT !.phase = "switching", !.target = cli.color], "activate")

Activate == At("activate") /\ Control(cli.color, "active", "forward")

(* writeRoute *)
Point(c, pc) ==
  /\ conf' = c
  /\ Goto(pc)
  /\ UNCHANGED <<journal, box, route, reloading, before, quiet>>

(* reloadProxy: nginx is signalled and loads its configuration on its own. *)
Signal(pc) ==
  /\ reloading' = TRUE
  /\ Goto(pc)
  /\ UNCHANGED <<journal, box, conf, route, before, quiet>>

Forward == At("forward") /\ Point(cli.color, "reload")
Reload == At("reload") /\ Signal("ack")
Ack ==
  /\ At("ack") /\ route = cli.color
  /\ Goto("adopt")
  /\ UNCHANGED <<journal, box, proxy, before, quiet>>

(* The reload fails, with or without effect, or is not acknowledged in 10 s. *)
GiveUp ==
  /\ ~quiet
  /\ At("reload") \/ At("ack")
  /\ reloading' \in (IF At("reload") THEN {reloading, TRUE} ELSE {reloading})
  /\ Goto("revert")
  /\ UNCHANGED <<journal, box, conf, route, before, quiet>>

Revert == At("revert") /\ Point(cli.j.active, "reload_back")
ReloadBack == At("reload_back") /\ Signal("demote")
Demote == At("demote") /\ Control(cli.color, "draining", "idle")

Adopt ==
  /\ At("adopt")
  /\ Save([cli.j EXCEPT !.active = cli.color, !.previous = cli.j.active, !.phase = "observing"], "retire")
Retire == At("retire") /\ Control(cli.j.previous, "draining", cli.then)

CanRevive(j) == j.previous # None /\ box[j.previous].state # "absent"

(* observe: the new color is probed for a while; on failure, rollback. *)
Observe ==
  /\ At("observe")
  /\ Save([cli.j EXCEPT !.phase = "draining"], "drain")
ObserveFails ==
  /\ ~quiet
  /\ At("observe")
  /\ CanRevive(cli.j)
  /\ cli' = [cli EXCEPT !.pc = "revive", !.color = cli.j.previous, !.then = "finish"]
  /\ UNCHANGED <<journal, box, proxy, before, quiet>>

(* rollback: the previous color is started, and switched to like a target.  *)
Revive ==
  /\ At("revive")
  /\ Change(cli.color, IF Running(cli.color) THEN box[cli.color] ELSE Boot(box[cli.color]), "intent")

Finish == At("finish") /\ Save([cli.j EXCEPT !.phase = "draining"], "idle")

(* drain, once round its loop: later rounds are later commands. *)
Drain ==
  /\ At("drain")
  /\ LET c == cli.j.previous IN
     \/ /\ box[c].state = "stopped"
        /\ Save([cli.j EXCEPT !.phase = "ready"], "idle")
     \/ /\ Running(c) /\ ~box[c].busy
        /\ box' = [box EXCEPT ![c] = WithMode(@, "draining")]
        /\ cli' = [cli EXCEPT !.pc = "stop", !.color = c, !.then = "retired"]
        /\ UNCHANGED <<journal, proxy, before, quiet>>
     \/ /\ Running(c) /\ box[c].busy
        /\ box' = [box EXCEPT ![c] = WithMode(@, "draining")]
        /\ journal' = [cli.j EXCEPT !.phase = "draining"]
        /\ cli' = [cli EXCEPT !.j = journal', !.pc = "idle"]
        /\ UNCHANGED <<proxy, before, quiet>>
Stop == At("stop") /\ StopBox(cli.color, cli.then)
Retired == At("retired") /\ Save([cli.j EXCEPT !.phase = "ready"], "idle")

(* abort: a candidate that holds no work is stopped. *)
Dismiss ==
  /\ At("dismiss")
  /\ LET c == cli.color IN
     \/ ~Running(c) /\ Change(c, box[c], "aborted")
     \/ Running(c) /\ Change(c, WithMode(box[c], "draining"), IF box[c].busy THEN "idle" ELSE "stop")

Aborted ==
  /\ At("aborted")
  /\ Save([cli.j EXCEPT !.phase = "ready", !.target = None,
                        !.previous = IF @ = cli.color THEN None ELSE @], "idle")

(* A step fails or the process is killed; also deploy --pause. *)
Die ==
  /\ ~quiet
  /\ ~At("idle")
  /\ Halt
  /\ UNCHANGED <<journal, box, proxy, before, quiet>>

Progress ==
  \/ Clear \/ Remove \/ Record \/ Run \/ Start \/ Probe \/ Check \/ Settle \/ Excuse
  \/ Intent \/ Activate \/ Forward \/ Reload \/ Ack \/ GiveUp \/ Revert \/ ReloadBack \/ Demote
  \/ Adopt \/ Retire \/ Observe \/ ObserveFails \/ Revive \/ Finish
  \/ Drain \/ Stop \/ Retired \/ Dismiss \/ Aborted

-----------------------------------------------------------------------------
(* Commands. Run reads the journal, then takes the lock.                    *)

Begin(j, pc, color, then) ==
  /\ At("idle")
  /\ cli' = [pc |-> pc, color |-> color, then |-> then, j |-> j]
  /\ before' = IF Timely THEN before ELSE journal
  /\ UNCHANGED <<journal, box, proxy, quiet>>

Deploy(j) ==
  /\ ~quiet
  /\ j.phase \in {"ready", "draining"}
  /\ Begin(j, "clear", Other(j.active), "observe")

(* recoverCandidate builds a candidate anew or starts it; switchColor goes  *)
(* through all its steps again.                                             *)
(* Mutant: resume leaves an interrupted cutover alone. *)
ResumeLess(j) ==
  \/ /\ j.phase = "candidate" /\ j.target # j.active
     /\ Begin(j, IF box[j.target].state = "absent" THEN "clear" ELSE "start", j.target, "observe")
  \/ /\ j.phase = "observing"
     /\ Begin(j, "observe", None, "idle")

Resume(j) ==
  \/ /\ j.phase = "candidate" /\ j.target # j.active
     /\ Begin(j, IF box[j.target].state = "absent" THEN "clear" ELSE "start", j.target, "observe")
  \/ /\ j.phase = "switching"
     /\ Begin(j, "intent", j.target, "observe")
  \/ /\ j.phase = "observing"
     /\ Begin(j, "observe", None, "idle")

Rollback(j) ==
  /\ ~quiet
  /\ CanRevive(j)
  /\ Careless \/ j.phase # "candidate"
  /\ Begin(j, "revive", j.previous, "finish")

Abort(j) ==
  /\ ~quiet
  /\ j.phase = "candidate" /\ j.target # j.active
  /\ Begin(j, "dismiss", j.target, "aborted")

CanDrain(j) == CanRevive(j) /\ j.previous # j.active

DrainCommand(j) ==
  /\ ~quiet
  /\ Careless \/ j.phase \notin {"candidate", "switching"}
  /\ CanDrain(j)
  /\ Begin(j, "drain", None, "idle")

(* The timer's drain-tick, and a resume or a deploy of the running version  *)
(* while the old color drains.                                              *)
DrainTick(j) ==
  /\ j.phase = "draining"
  /\ CanDrain(j)
  /\ Begin(j, "drain", None, "idle")

Readable == IF Timely THEN {journal} ELSE {journal, before}

Command ==
  \E j \in Readable :
    Deploy(j) \/ Resume(j) \/ Rollback(j) \/ Abort(j) \/ DrainCommand(j) \/ DrainTick(j)

-----------------------------------------------------------------------------
(* Containers, the proxy and the host.                                      *)

(* Mutant: a draining container still begins background work. *)
AdmitDraining(c) ==
  /\ Running(c) /\ ~box[c].busy
  /\ box[c].mode \in {"active", "draining"} \/ (box[c].mode = "canary" /\ route = c)
  /\ box' = [box EXCEPT ![c].busy = TRUE]
  /\ UNCHANGED <<journal, proxy, cli, before, quiet>>

(* Middleware and BeginTask: what comes through the proxy is admitted by an *)
(* active or canary container, background work by an active one.            *)
Admit(c) ==
  /\ Running(c) /\ ~box[c].busy
  /\ box[c].mode = "active" \/ (box[c].mode = "canary" /\ route = c)
  /\ box' = [box EXCEPT ![c].busy = TRUE]
  /\ UNCHANGED <<journal, proxy, cli, before, quiet>>

WorkEnds(c) ==
  /\ box[c].busy
  /\ box' = [box EXCEPT ![c].busy = FALSE]
  /\ UNCHANGED <<journal, proxy, cli, before, quiet>>

Load ==
  /\ reloading
  /\ route' = conf /\ reloading' = FALSE
  /\ UNCHANGED <<journal, box, conf, cli, before, quiet>>

(* restart: unless-stopped *)
Restart(c) ==
  /\ ~quiet
  /\ Running(c)
  /\ box' = [box EXCEPT ![c] = Boot(@)]
  /\ UNCHANGED <<journal, proxy, cli, before, quiet>>

Reboot ==
  /\ ~quiet
  /\ box' = [c \in Colors |-> IF Running(c) THEN Boot(box[c]) ELSE box[c]]
  /\ route' = conf /\ reloading' = FALSE
  /\ Halt
  /\ UNCHANGED <<journal, conf, before, quiet>>

Settled == ~quiet /\ quiet' = TRUE /\ UNCHANGED <<journal, box, proxy, cli, before>>

Next ==
  \/ Progress \/ Die \/ Command
  \/ \E c \in Colors : Admit(c) \/ WorkEnds(c) \/ Restart(c)
  \/ Load \/ Reboot \/ Settled

Spec ==
  /\ Init /\ [][Next]_vars
  /\ WF_vars(Progress) /\ WF_vars(Command) /\ WF_vars(Load)
  /\ \A c \in Colors : WF_vars(WorkEnds(c))

-----------------------------------------------------------------------------
TypeOK ==
  /\ journal \in Journals
  /\ box \in [Colors -> [state : {"absent", "stopped", "running"}, mode : Modes, file : Modes,
                         checked : BOOLEAN, busy : BOOLEAN]]
  /\ conf \in Colors /\ route \in Colors /\ reloading \in BOOLEAN
  /\ cli \in [pc : Steps, color : Colors \union {None}, then : Steps, j : Journals]
  /\ before \in Journals /\ quiet \in BOOLEAN

(* What the proxy forwards to runs, admits work and has passed its checks,  *)
(* whatever failed, crashed or restarted, and so does what it will forward  *)
(* to once it has reloaded. The one gap: a cutover that failed closes its   *)
(* target without waiting for the reload that leads back (release.go:185).  *)
Serves(c) == Running(c) /\ box[c].mode = "active" /\ box[c].checked
LeadsBack == reloading /\ journal.phase = "switching" /\ conf = journal.active
RouteServes ==
  /\ reloading => Serves(conf)
  /\ Serves(route) \/ LeadsBack

(* The color that goes leaves in order. A container is told to stop only    *)
(* while it turns work away and has finished all it had admitted, however   *)
(* admissions, restarts and commands that die interleave with the drain;    *)
(* and while no release is under way, the proxy forwards to the color the   *)
(* journal names, and the other is down or at most up again and drained.    *)
LeavesDrained ==
  /\ At("stop") => Running(cli.color) /\ Drained(cli.color)
  /\ journal.phase = "ready" =>
       /\ route = journal.active
       /\ LET o == Other(journal.active) IN ~Running(o) \/ Drained(o)

(* Once failures end, resuming and the drain timer finish any release. Left *)
(* out: a deploy that was cut off between removing the old container and    *)
(* saving its intent.                                                       *)
Orphaned == journal.phase = "draining" /\ box[journal.previous].state = "absent"
ReleaseEnds == quiet /\ journal.phase \in Unfinished ~> journal.phase = "ready" \/ Orphaned
=============================================================================
