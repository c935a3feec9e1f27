--------------------------- MODULE SchedulerService ---------------------------
(***************************************************************************)
(* The scheduler of one device as a service: what its configuration lets a *)
(* tick do, the loops that run ticks, and the commands that install,       *)
(* remove, start, stop and restart a loop under systemd or under tmux with *)
(* a crontab line.  Any step of a command may fail and the command may be  *)
(* killed between two steps; a loop may die; the device may be restarted.  *)
(* What a tick does with the work it finds is in InboxTasks and CronJobs.  *)
(* Signals other than a stop, and a second gateway or chat service, which  *)
(* is installed the same way, are not modelled.                            *)
(***************************************************************************)
EXTENDS Naturals, Sequences, FiniteSets

CONSTANTS
    Runners,        \* the agents enabled on this device
    Classes,        \* the automation classes; "inbox" is one of them
    Absent,         \* a key that is not there
    Null,           \* a key without a value
    Table,          \* a mapping, whose keys are parts of their own
    Malformed,      \* anything else that has no meaning there
    MaxServiceActs  \* bound: edits, commands, signals, restarts of the device

Managers == {"systemd", "tmux"}

Lists == {"allow", "exclude"}

Parts == {<<"scheduler">>, <<"enabled">>, <<"automation">>, <<"agent_scope">>}
         \cup ({"automation", "agent_scope"} \X Classes) \cup ({"agent_scope"} \X Classes \X Lists)

ASSUME ServiceAssumption ==
    /\ IsFiniteSet(Runners) /\ "inbox" \in Classes /\ MaxServiceActs \in Nat
    /\ Cardinality({Absent, Null, Table, Malformed}) = 4
    /\ \A v \in {Absent, Null, Table, Malformed} : v \notin BOOLEAN /\ \A s \in SUBSET Runners : v # s

VARIABLES
    config,         \* the scheduler block, part by part
    loop,           \* the loop of each manager, and one run by hand
    files,          \* the generated files and the installed unit
    enabled,        \* systemd starts the unit at boot
    boot,           \* the crontab starts the script at boot
    svc,            \* the service command
    promised,       \* history: managers whose last finished change was a successful install
    gone,           \* history: managers whose last finished change was a successful removal
    serviceActs

serviceVars == <<config, loop, files, enabled, boot, svc, promised, gone, serviceActs>>

hostVars == <<loop, files, enabled, boot>>

(* What the configuration lets a tick do *)

\* A key of a block that is not a mapping is not there.
Value(part) == IF config[<<"scheduler">>] = Table THEN config[part] ELSE Absent

Gated == Value(<<"enabled">>) \notin {Absent, TRUE}

ClassOn(k) == Value(<<"automation">>) = Table /\ Value(<<"automation", k>>) = TRUE

\* Mutant: a malformed list is read as no list.
ListedLeniently(k, l) ==
    LET names == Value(<<"agent_scope", k, l>>) IN IF names = Malformed THEN Absent ELSE names

Listed(k, l) == Value(<<"agent_scope", k, l>>)

ScopeOf(k) ==
    LET keep == IF Listed(k, "allow") = Absent THEN Runners ELSE Listed(k, "allow") \cap Runners
        drop == IF Listed(k, "exclude") = Absent THEN {} ELSE Listed(k, "exclude")
    IN  CASE Value(<<"agent_scope">>) = Malformed -> {}
          [] Value(<<"agent_scope">>) = Absent -> Runners
          [] OTHER ->
                CASE Value(<<"agent_scope", k>>) = Malformed -> {}
                  [] Value(<<"agent_scope", k>>) = Absent -> Runners
                  [] OTHER -> IF \E l \in Lists : Listed(k, l) = Malformed THEN {} ELSE keep \ drop

Resolved(force) ==
    {w \in Classes \X Runners : /\ ~Gated
                                /\ ClassOn(w[1]) \/ (force /\ w[1] = "inbox")
                                /\ w[2] \in ScopeOf(w[1])}

\* No class is on: the tick ends before it refreshes a heartbeat.
Inert(force) == Gated \/ \A k \in Classes : ~ClassOn(k) /\ ~(force /\ k = "inbox")

(* The loop *)

Off == [at |-> "off", shut |-> FALSE, again |-> FALSE, once |-> FALSE, force |-> FALSE]

FreshLoop == [Off EXCEPT !.at = "ready"]

Hosts == Managers \cup {"hand"}

Put(h, r) == loop' = [loop EXCEPT ![h] = r]

To(h, at) == Put(h, [loop[h] EXCEPT !.at = at])

\* Where a loop goes when it ends: systemd may have been asked to start it again.
Exit(h) == Put(h, IF loop[h].again THEN FreshLoop ELSE Off)

KeepRest == UNCHANGED <<config, files, enabled, boot, svc, promised, gone, serviceActs>>

MayTick(h) == ~loop[h].shut

BeginTick(h) ==
    /\ loop[h].at = "ready" /\ MayTick(h)
    /\ To(h, IF Inert(loop[h].force) THEN "ended" ELSE "tick")
    /\ KeepRest

\* The tick executed something, found nothing or failed.
EndTick(h) == loop[h].at = "tick" /\ To(h, "ended") /\ KeepRest

Sleep(h) ==
    /\ loop[h].at = "ended"
    /\ IF loop[h].once \/ loop[h].shut THEN Exit(h) ELSE To(h, "sleep")
    /\ KeepRest

\* The interval is over, or a stop was requested.
Wake(h) == loop[h].at = "sleep" /\ To(h, "ready") /\ KeepRest

EndLoop(h) == loop[h].at = "ready" /\ ~MayTick(h) /\ Exit(h) /\ KeepRest

Signalled(r) == IF r.once THEN Off ELSE [r EXCEPT !.shut = TRUE]

ServiceAct == serviceActs < MaxServiceActs /\ serviceActs' = serviceActs + 1

Signal(h) ==
    /\ ServiceAct /\ loop[h].at # "off"
    /\ Put(h, Signalled(loop[h]))
    /\ UNCHANGED <<config, files, enabled, boot, svc, promised, gone>>

\* systemd starts a loop that failed again.
Dies(h) ==
    /\ ServiceAct /\ loop[h].at # "off"
    /\ Put(h, IF h = "systemd" /\ (~loop[h].shut \/ loop[h].again) THEN FreshLoop ELSE Off)
    /\ UNCHANGED <<config, files, enabled, boot, svc, promised, gone>>

RunByHand(once, force) ==
    /\ ServiceAct /\ loop["hand"].at = "off" /\ (force => once)
    /\ Put("hand", [FreshLoop EXCEPT !.once = once, !.force = force])
    /\ UNCHANGED <<config, files, enabled, boot, svc, promised, gone>>

(* The service command *)

InstallPlan(m) ==
    IF m = "systemd" THEN <<"write_unit", "copy", "reload", "enable", "start">>
    ELSE <<"write_script", "write_fragment", "chmod", "launch", "merge">>

RemovePlan(m) ==
    IF m = "systemd" THEN <<"stop", "disable", "rm", "reload", "delete_unit">>
    ELSE <<"kill", "filter", "delete_script", "delete_fragment">>

ControlPlan(action, m) ==
    CASE m = "systemd" -> <<action>>
      [] m = "tmux" /\ action = "start" -> <<"launch">>
      [] m = "tmux" /\ action = "stop" -> <<"kill">>
      [] m = "tmux" /\ action = "restart" -> <<"kill", "launch">>

PlanOf(action, m) ==
    CASE action = "install" -> InstallPlan(m)
      [] action = "remove" -> RemovePlan(m)
      [] OTHER -> ControlPlan(action, m)

NoService == [action |-> "none", manager |-> "systemd", todo |-> <<>>, errors |-> FALSE]

\* The manager is asked for, or detected each time: either can be found.
BeginService(action, m) ==
    /\ ServiceAct /\ svc = NoService
    /\ svc' = [action |-> action, manager |-> m, todo |-> PlanOf(action, m), errors |-> FALSE]
    /\ IF action \in {"install", "remove"}
       THEN promised' = promised \ {m} /\ gone' = gone \ {m}
       ELSE UNCHANGED <<promised, gone>>
    /\ UNCHANGED <<config, hostVars>>

Doing(step) == svc # NoService /\ svc.todo # <<>> /\ Head(svc.todo) = step

NextStep == svc' = [svc EXCEPT !.todo = Tail(@)] /\ UNCHANGED <<config, promised, gone, serviceActs>>

Writes == {<<"write_unit", "unit">>, <<"write_script", "script">>, <<"write_fragment", "fragment">>}

Deletes == {<<"delete_unit", "unit">>, <<"delete_script", "script">>, <<"delete_fragment", "fragment">>, <<"rm", "link">>}

WriteFile ==
    \E w \in Writes : Doing(w[1]) /\ files' = files \cup {w[2]} /\ NextStep /\ UNCHANGED <<loop, enabled, boot>>

DeleteFile ==
    \E d \in Deletes : Doing(d[1]) /\ files' = files \ {d[2]} /\ NextStep /\ UNCHANGED <<loop, enabled, boot>>

CopyUnit == Doing("copy") /\ "unit" \in files /\ files' = files \cup {"link"} /\ NextStep /\ UNCHANGED <<loop, enabled, boot>>

Harmless == (Doing("reload") \/ (Doing("chmod") /\ "script" \in files)) /\ NextStep /\ UNCHANGED hostVars

Enable == Doing("enable") /\ "link" \in files /\ enabled' = TRUE /\ NextStep /\ UNCHANGED <<loop, files, boot>>

Disable == Doing("disable") /\ enabled' = FALSE /\ NextStep /\ UNCHANGED <<loop, files, boot>>

Start ==
    /\ Doing("start") /\ "link" \in files
    /\ IF loop["systemd"].at = "off" THEN Put("systemd", FreshLoop) ELSE UNCHANGED loop
    /\ NextStep /\ UNCHANGED <<files, enabled, boot>>

\* systemctl waits for the loop; the command waits half a minute for systemctl.
Stop ==
    /\ Doing("stop") \/ (Doing("restart") /\ "link" \in files)
    /\ Put("systemd", IF loop["systemd"].at = "off"
                      THEN IF Doing("restart") THEN FreshLoop ELSE Off
                      ELSE [loop["systemd"] EXCEPT !.shut = TRUE, !.again = Doing("restart")])
    /\ svc' = [svc EXCEPT !.todo = <<"await">> \o Tail(@)]
    /\ UNCHANGED <<config, files, enabled, boot, promised, gone, serviceActs>>

Stopped == Doing("await") /\ ~loop["systemd"].shut /\ NextStep /\ UNCHANGED hostVars

\* The script ends the session it finds; a hangup ends the loop where it is.
Launch ==
    /\ Doing("launch") /\ "script" \in files
    /\ Put("tmux", FreshLoop)
    /\ NextStep /\ UNCHANGED <<files, enabled, boot>>

KillSession == Doing("kill") /\ Put("tmux", Off) /\ NextStep /\ UNCHANGED <<files, enabled, boot>>

\* A fragment that could not be written is passed over by the pipe.
MergeCrontab == Doing("merge") /\ boot' = (boot \/ "fragment" \in files) /\ NextStep /\ UNCHANGED <<loop, files, enabled>>

FilterCrontab == Doing("filter") /\ boot' = FALSE /\ NextStep /\ UNCHANGED <<loop, files, enabled>>

\* Mutant: the exit code of a command is not looked at, as start and stop do.
NoErrors(step) == TRUE

\* "|| true" at the end of the command.
Tolerated(step) ==
    \/ svc.action \notin {"install", "remove"}
    \/ svc.action = "remove" /\ step \in {"stop", "await", "disable", "kill", "filter"}

StepFails ==
    /\ svc # NoService /\ svc.todo # <<>>
    /\ svc' = [svc EXCEPT !.todo = Tail(@), !.errors = @ \/ ~Tolerated(Head(svc.todo))]
    /\ UNCHANGED <<config, hostVars, promised, gone, serviceActs>>

\* The status is recorded only when there was no error.
Report ==
    LET ok == ~svc.errors IN
    /\ svc # NoService /\ svc.todo = <<>>
    /\ promised' = IF ok /\ svc.action = "install" THEN promised \cup {svc.manager} ELSE promised
    /\ gone' = IF ok /\ svc.action = "remove" THEN gone \cup {svc.manager} ELSE gone
    /\ svc' = NoService
    /\ UNCHANGED <<config, hostVars, serviceActs>>

CommandKilled ==
    /\ ServiceAct /\ svc # NoService /\ svc' = NoService
    /\ UNCHANGED <<config, hostVars, promised, gone>>

(* The device and its steward *)

StartsAtBoot(m) ==
    IF m = "systemd" THEN enabled /\ "link" \in files ELSE boot /\ "script" \in files

\* User units start at boot where lingering is enabled, otherwise at login.
Reboot ==
    /\ ServiceAct /\ svc' = NoService
    /\ loop' = [h \in Hosts |-> IF h \in Managers /\ StartsAtBoot(h) THEN FreshLoop ELSE Off]
    /\ UNCHANGED <<config, files, enabled, boot, promised, gone>>

Good(part) ==
    CASE part \in {<<"scheduler">>, <<"automation">>, <<"agent_scope">>} \cup ({"agent_scope"} \X Classes) -> {Absent, Table}
      [] part = <<"enabled">> -> {Absent, TRUE, FALSE}
      [] part \in {"automation"} \X Classes -> {Absent, TRUE, FALSE}
      [] OTHER -> {Absent} \cup SUBSET Runners

EditConfig(part) ==
    /\ ServiceAct
    /\ \E v \in Good(part) \cup {Malformed} \cup (IF part = <<"enabled">> THEN {Null} ELSE {}) :
          config' = [config EXCEPT ![part] = v]
    /\ config' # config
    /\ UNCHANGED <<hostVars, svc, promised, gone>>

ArtifactExists(m) == IF m = "systemd" THEN "link" \in files ELSE "script" \in files

\* What the inventory of the Workbench shows where this manager is found.
Observed(m) ==
    CASE ~ArtifactExists(m) -> "not-installed"
      [] OTHER -> IF loop[m].at = "off" THEN "inactive" ELSE "active"

FullConfig ==
    [p \in Parts |-> CASE p = <<"enabled">> -> Absent
                       [] p \in {"automation"} \X Classes -> TRUE
                       [] p \in {"agent_scope"} \X Classes \X {"allow"} -> Runners
                       [] p \in {"agent_scope"} \X Classes \X {"exclude"} -> {CHOOSE r \in Runners : TRUE}
                       [] OTHER -> Table]

ServiceInit ==
    /\ config = FullConfig
    /\ loop = [h \in Hosts |-> Off]
    /\ files = {} /\ enabled = FALSE /\ boot = FALSE
    /\ svc = NoService
    /\ promised = {} /\ gone = {} /\ serviceActs = 0

ServiceNext ==
    \/ \E h \in Hosts : BeginTick(h) \/ EndTick(h) \/ Sleep(h) \/ Wake(h) \/ EndLoop(h) \/ Signal(h) \/ Dies(h)
    \/ \E once, force \in BOOLEAN : RunByHand(once, force)
    \/ \E action \in {"install", "remove", "start", "stop", "restart"}, m \in Managers : BeginService(action, m)
    \/ WriteFile \/ DeleteFile \/ CopyUnit \/ Harmless \/ Enable \/ Disable \/ Start \/ Stop \/ Stopped
    \/ Launch \/ KillSession \/ MergeCrontab \/ FilterCrontab \/ StepFails \/ Report
    \/ CommandKilled \/ Reboot
    \/ \E part \in Parts : EditConfig(part)

ServiceSpec == ServiceInit /\ [][ServiceNext]_serviceVars

(* Properties *)

ServiceTypeOK ==
    /\ loop \in [Hosts -> [at : {"off", "ready", "tick", "ended", "sleep"},
                           shut : BOOLEAN, again : BOOLEAN, once : BOOLEAN, force : BOOLEAN]]
    /\ \A h \in Hosts : loop[h].at = "off" => loop[h] = Off
    /\ files \subseteq {"unit", "script", "fragment", "link"}
    /\ enabled \in BOOLEAN /\ boot \in BOOLEAN
    /\ promised \subseteq Managers /\ gone \subseteq Managers /\ promised \cap gone = {}

\* What a finished command reported stays true whatever else fails: after an
\* install without errors the service starts with the device, after a removal
\* without errors it does not, and the inventory shows one as installed and
\* the other as not (docs/service-management.md:131-138, cli.ts:573-577).
ReportedIsSo ==
    /\ \A m \in promised : StartsAtBoot(m) /\ Observed(m) # "not-installed"
    /\ \A m \in gone : ~StartsAtBoot(m) /\ Observed(m) = "not-installed"

NarrowsIfMalformed ==
    \A part \in Parts, force \in BOOLEAN :
        (config[part] # Malformed /\ config'[part] = Malformed /\ (part = <<"scheduler">> => ~force))
            => Resolved(force)' \subseteq Resolved(force)

\* Content that has no meaning never lets a tick do more than before it was
\* there, forced or not (docs/scheduler.md:20 and 25, scheduler-loop.ts:188-204);
\* only a block that is no mapping at all loses its scopes for a forced tick.
FailClosed == [][NarrowsIfMalformed]_serviceVars
=============================================================================
