------------------------------ MODULE CronFiles -----------------------------
(***************************************************************************)
(* piren cron: the commands that write, switch and check cron job files,   *)
(* next to the device that claims the same files, runs the jobs and puts   *)
(* the files back.  CronJobs has the claims of several devices; here one   *)
(* device meets the authors of the files.                                  *)
(*                                                                         *)
(* Of a job file the model keeps what the loader, the validation and the   *)
(* commands tell apart, and how many last_claimed_by lines it has.         *)
(*                                                                         *)
(* Sources: cron-cli.ts, cron.ts, cli.ts (runCronCommand),                 *)
(* scheduler-cron-executor.ts, scheduler-once.ts.                          *)
(***************************************************************************)
EXTENDS Naturals, FiniteSets

CONSTANTS
    Authors,     \* processes that run a cron command
    Bots,        \* agents with a directory of jobs
    JobIds,      \* names of job files, without the extension
    Handwritten, \* the files somebody has put into the vault without a command
    NoJobFile,   \* a name without a file
    MaxCronActs, \* bound on the commands begun
    MaxTicks     \* bound on the ticks of the device

Homes == {"shared"} \cup Bots

JobFiles == Homes \X JobIds

\* form: the one thing that is wrong with the file, if any.
JobTexts == [form : {"whole", "torn", "no_id", "no_agent", "no_schedule", "bad_mode", "no_prompt"},
             mode : {"agent", "script"}, script : {"none", "inside", "outside"},
             enabled : {"true", "false", "unsaid"}, stamps : 0..2]

ASSUME CronFilesAssumption ==
    /\ "shared" \notin Bots
    /\ Handwritten \subseteq JobTexts
    /\ NoJobFile \notin JobTexts
    /\ MaxCronActs \in Nat /\ MaxTicks \in Nat

VARIABLES
    jobs,      \* the unclaimed file of each name
    claimed,   \* the claimed file of each name
    author,    \* what each command is doing
    runner,    \* what the device is doing
    runs,      \* run records: the job and how its run ended
    cronActs,  \* commands begun
    ticks      \* ticks begun

\* History: what a command has reported of a file that nobody else had in hand
\* while it ran, until the next command takes the file.
VARIABLE told

cronVars == <<jobs, claimed, author, runner, runs, cronActs, ticks, told>>

NoAuthor == [at |-> "none"]

Resting == [at |-> "idle", ready |-> {}]

Torn == [form |-> "torn", mode |-> "agent", script |-> "none", enabled |-> "unsaid", stamps |-> 0]

CronFilesInit ==
    /\ \E f \in JobFiles, t \in Handwritten \cup {NoJobFile} :
           jobs = [g \in JobFiles |-> IF g = f THEN t ELSE NoJobFile]
    /\ claimed = [f \in JobFiles |-> NoJobFile]
    /\ author = [a \in Authors |-> NoAuthor]
    /\ runner = Resting
    /\ runs = {}
    /\ cronActs = 0 /\ ticks = 0
    /\ told = [f \in JobFiles |-> "nothing"]

-----------------------------------------------------------------------------
\* What the loader takes: a YAML mapping with each key once, the required
\* fields, a known mode, and a script or a prompt.
Parsed(t) == t.form # "torn" /\ t.stamps <= 1

Loads(t) ==
    /\ Parsed(t)
    /\ t.form \notin {"no_id", "no_agent", "no_schedule", "bad_mode"}
    /\ IF t.mode = "script" THEN t.script # "none" ELSE t.form # "no_prompt"

\* The errors of piren cron validate.  A mode it does not know is that of an
\* agent; ids, prompts and device policies are not looked at.
Faulty(t) ==
    \/ t.form # "torn" /\ ~Parsed(t)
    \/ t.form \in {"torn", "no_schedule"}
    \/ t.mode = "agent" /\ t.form = "no_agent"
    \/ t.mode = "script" /\ t.form # "bad_mode" /\ t.script # "inside"

\* A claim adds a line, also to a file that has one already.
WithClaimLine(t) == IF t.form = "torn" THEN t ELSE [t EXCEPT !.stamps = IF @ = 2 THEN 2 ELSE @ + 1]

Fresh(mode) == [form |-> "whole", mode |-> mode, enabled |-> "true", stamps |-> 1,
                script |-> IF mode = "script" THEN "inside" ELSE "none"]

-----------------------------------------------------------------------------
Held == IF runner.at \in {"idle", "listed", "looking"} THEN {} ELSE {runner.file}

\* What the device may still claim from what it has read before.
Planned == IF runner.at = "listed" THEN {r.file : r \in runner.ready}
           ELSE IF runner.at = "looking" THEN {runner.file} \cup {r.file : r \in runner.ready} ELSE {}

\* Whether only command a has file f in hand.
Alone(a, f) ==
    /\ f \notin Held
    /\ \A b \in Authors \ {a} : author[b].at = "none" \/ author[b].file # f

Begins(a, how) ==
    /\ author[a].at = "none"
    /\ cronActs < MaxCronActs /\ cronActs' = cronActs + 1
    /\ author' = [author EXCEPT ![a] = how]

Now(a, how) == author' = [author EXCEPT ![a] = how]

\* A command that is through, having said s of its file.
Reports(a, s) ==
    /\ Now(a, NoAuthor)
    /\ LET f == author[a].file
       IN  told' = [told EXCEPT ![f] = IF author[a].alone /\ Alone(a, f) THEN s ELSE "nothing"]

Quits(a) == Now(a, NoAuthor) /\ UNCHANGED told

\* piren cron create and create-script.
BeginCreate(a, f, mode, force) ==
    /\ f[1] \in Bots
    /\ Begins(a, [at |-> "creating", verb |-> "create", file |-> f, force |-> force, text |-> Fresh(mode),
                  alone |-> Alone(a, f), lost |-> FALSE])
    /\ UNCHANGED <<jobs, claimed, runner, runs, ticks, told>>

\* An existing file is refused without --force, a body that cannot be read ever.
ProbeJob(a) ==
    /\ author[a].at = "creating"
    /\ LET c == author[a]
       IN  IF jobs[c.file] # NoJobFile /\ ~c.force THEN Quits(a)
           ELSE \/ Now(a, [c EXCEPT !.at = "opening"]) /\ UNCHANGED told
                \/ c.text.mode = "agent" /\ Quits(a)
    /\ UNCHANGED <<jobs, claimed, runner, runs, cronActs, ticks>>

\* piren cron enable, disable and show: shared jobs come first.
LookUp(a, verb, f) ==
    /\ jobs[f] # NoJobFile
    /\ f[1] # "shared" => jobs[<<"shared", f[2]>>] = NoJobFile
    /\ Begins(a, [at |-> "reading", verb |-> verb, file |-> f, text |-> NoJobFile,
                  alone |-> Alone(a, f), lost |-> FALSE])
    /\ UNCHANGED <<jobs, claimed, runner, runs, ticks, told>>

Wanted(verb) == IF verb = "enable" THEN "true" ELSE "false"

\* The first "enabled: ..." of the other value is replaced; a file without one is
\* left as it is, and the command reports all the same.
ReadJob(a) ==
    /\ author[a].at = "reading"
    /\ LET c == author[a]
           t == jobs[c.file]
       IN  IF t = NoJobFile \/ c.verb = "show" THEN Quits(a)
           ELSE IF t.enabled = Wanted(c.verb) THEN Reports(a, IF c.verb = "enable" THEN "on" ELSE "off")
           ELSE IF t.enabled = "unsaid" THEN Quits(a)
           ELSE /\ Now(a, [c EXCEPT !.at = "opening", !.text = [t EXCEPT !.enabled = Wanted(c.verb)]])
                /\ UNCHANGED told
    /\ UNCHANGED <<jobs, claimed, runner, runs, cronActs, ticks>>

\* writeFile empties the file it opens, or makes one, before it writes.
EmptyFile(a) ==
    /\ author[a].at = "opening"
    /\ jobs' = [jobs EXCEPT ![author[a].file] = Torn]
    /\ Now(a, [author[a] EXCEPT !.at = "writing", !.alone = @ /\ Alone(a, author[a].file)])
    /\ told' = [told EXCEPT ![author[a].file] = "nothing"]
    /\ UNCHANGED <<claimed, runner, runs, cronActs, ticks>>

\* The text goes into the file that was opened, which may have no name any more.
WriteText(a) ==
    /\ author[a].at = "writing"
    /\ LET c == author[a]
       IN  /\ jobs' = IF c.lost THEN jobs ELSE [jobs EXCEPT ![c.file] = c.text]
           /\ Reports(a, IF c.verb = "disable" THEN "off" ELSE "on")
    /\ UNCHANGED <<claimed, runner, runs, cronActs, ticks>>

\* piren cron validate reads the unclaimed files of all homes; here at one time.
Validate(a) ==
    /\ Begins(a, NoAuthor)
    /\ told' = [f \in JobFiles |->
                   IF jobs[f] # NoJobFile /\ Faulty(jobs[f]) /\ Alone(a, f)
                           /\ f \notin Planned /\ claimed[f] = NoJobFile THEN "faulty" ELSE told[f]]
    /\ UNCHANGED <<jobs, claimed, runner, runs, ticks>>

-----------------------------------------------------------------------------
\* The device lists the jobs of its agents that load and are enabled.
ListJobs ==
    /\ runner.at = "idle" /\ ticks < MaxTicks /\ ticks' = ticks + 1
    /\ runner' = [at |-> "listed", ready |->
                     {[file |-> f, mode |-> jobs[f].mode] :
                         f \in {g \in JobFiles : /\ jobs[g] # NoJobFile /\ Loads(jobs[g])
                                                 /\ jobs[g].enabled # "false"}}]
    /\ UNCHANGED <<jobs, claimed, author, runs, cronActs, told>>

NothingDue == runner.at = "listed" /\ runner' = Resting
              /\ UNCHANGED <<jobs, claimed, author, runs, cronActs, ticks, told>>

\* A script is looked up in the vault before its job is claimed; an agent's job
\* is claimed at once.
TakeUp(r) ==
    /\ runner.at = "listed" /\ r \in runner.ready
    /\ LET left == runner.ready \ {r}
           t == jobs[r.file]
       IN  runner' = IF \/ t = NoJobFile
                        \/ r.mode = "script" /\ ~(Loads(t) /\ t.mode = "script" /\ t.script = "inside")
                     THEN [at |-> "listed", ready |-> left]
                     ELSE [at |-> "looking", ready |-> left, file |-> r.file, mode |-> r.mode]
    /\ UNCHANGED <<jobs, claimed, author, runs, cronActs, ticks, told>>

\* claimCronJob: the file is read, a claimed copy with a line more is put beside
\* it, and the file goes.
ReadForClaim ==
    /\ runner.at = "looking"
    /\ runner' = IF jobs[runner.file] = NoJobFile THEN [at |-> "listed", ready |-> runner.ready]
                 ELSE [at |-> "stamping", file |-> runner.file, mode |-> runner.mode,
                       text |-> WithClaimLine(jobs[runner.file])]
    /\ UNCHANGED <<jobs, claimed, author, runs, cronActs, ticks, told>>

PutClaim ==
    /\ runner.at = "stamping"
    /\ claimed' = [claimed EXCEPT ![runner.file] = runner.text]
    /\ runner' = [runner EXCEPT !.at = "removing"]
    /\ UNCHANGED <<jobs, author, runs, cronActs, ticks, told>>

\* Commands that have file f in hand are not alone, and those that have it open
\* write to a file without a name.
Detached(f) == [a \in Authors |->
    IF author[a].at = "none" \/ author[a].file # f THEN author[a]
    ELSE [author[a] EXCEPT !.alone = FALSE, !.lost = @ \/ author[a].at = "writing"]]

RemoveUnclaimed ==
    /\ runner.at = "removing"
    /\ jobs' = [jobs EXCEPT ![runner.file] = NoJobFile]
    /\ author' = Detached(runner.file)
    /\ runner' = [at |-> IF runner.mode = "script" THEN "running" ELSE "opening", file |-> runner.file,
                  mode |-> runner.mode, signal |-> "none"]
    /\ UNCHANGED <<claimed, runs, cronActs, ticks, told>>

\* The executor reads the claimed file; if it does not load, the tick ends and
\* the claim stays.
OpenClaimed ==
    /\ runner.at = "opening"
    /\ LET t == claimed[runner.file]
       IN  runner' = IF Loads(t) /\ t.mode = "agent" THEN [runner EXCEPT !.at = "running"] ELSE Resting
    /\ UNCHANGED <<jobs, claimed, author, runs, cronActs, ticks, told>>

\* A script that takes too long is asked to end, then made to.
TimeOut ==
    /\ runner.at = "running" /\ runner.mode = "script" /\ runner.signal # "kill"
    /\ runner' = [runner EXCEPT !.signal = IF @ = "none" THEN "term" ELSE "kill"]
    /\ UNCHANGED <<jobs, claimed, author, runs, cronActs, ticks, told>>

\* The run ends by itself or by a signal, or the script cannot be started.
RunEnds(ok) ==
    /\ runner.at = "running" /\ (ok => runner.signal # "kill")
    /\ runner' = [at |-> "recording", file |-> runner.file, mode |-> runner.mode,
                  status |-> IF ok /\ runner.signal = "none" THEN "completed" ELSE "failed"]
    /\ UNCHANGED <<jobs, claimed, author, runs, cronActs, ticks, told>>

\* recordCronRun: the run record, the file without its first claim line, and the
\* claimed one goes.
RecordRun ==
    /\ runner.at = "recording"
    /\ runs' = runs \cup {[file |-> runner.file, status |-> runner.status]}
    /\ runner' = [at |-> "restoring", file |-> runner.file,
                  text |-> [claimed[runner.file] EXCEPT !.stamps = IF @ = 0 THEN 0 ELSE @ - 1]]
    /\ UNCHANGED <<jobs, claimed, author, cronActs, ticks, told>>

\* Mutant: the file is put back as the commands write a new one.
PutBackEnabled ==
    /\ runner.at = "restoring"
    /\ jobs' = [jobs EXCEPT ![runner.file] = [runner.text EXCEPT !.enabled = "true"]]
    /\ author' = Detached(runner.file)
    /\ runner' = [runner EXCEPT !.at = "clearing"]
    /\ UNCHANGED <<claimed, runs, cronActs, ticks, told>>

PutBack ==
    /\ runner.at = "restoring"
    /\ jobs' = [jobs EXCEPT ![runner.file] = runner.text]
    /\ author' = Detached(runner.file)
    /\ runner' = [runner EXCEPT !.at = "clearing"]
    /\ UNCHANGED <<claimed, runs, cronActs, ticks, told>>

ClearClaim ==
    /\ runner.at = "clearing"
    /\ claimed' = [claimed EXCEPT ![runner.file] = NoJobFile]
    /\ runner' = Resting
    /\ UNCHANGED <<jobs, author, runs, cronActs, ticks, told>>

-----------------------------------------------------------------------------
CronFilesNext ==
    \/ \E a \in Authors :
        \/ \E f \in JobFiles, mode \in {"agent", "script"}, force \in BOOLEAN : BeginCreate(a, f, mode, force)
        \/ \E f \in JobFiles, verb \in {"enable", "disable", "show"} : LookUp(a, verb, f)
        \/ ProbeJob(a) \/ ReadJob(a) \/ EmptyFile(a) \/ WriteText(a) \/ Validate(a)
    \/ ListJobs \/ NothingDue \/ ReadForClaim \/ PutClaim \/ RemoveUnclaimed \/ OpenClaimed \/ TimeOut
    \/ RecordRun \/ PutBack \/ ClearClaim
    \/ runner.at = "listed" /\ \E r \in runner.ready : TakeUp(r)
    \/ \E ok \in BOOLEAN : RunEnds(ok)

JobFilesSpec == CronFilesInit /\ [][CronFilesNext]_cronVars

\* The file of a name, claimed or not.
Text(f) == IF jobs[f] # NoJobFile THEN jobs[f] ELSE claimed[f]

\* What a command has reported of a job that no run and no other command had in
\* hand is so through all runs that follow, until the next command: a created or
\* enabled job is there and enabled, a disabled one disabled, and one that the
\* validation calls faulty is not claimed (setEnabled, createCronJob,
\* validateCronJobs against claimCronJob and recordCronRun).
CronReportHolds ==
    \A f \in JobFiles :
        /\ told[f] \in {"on", "off"} => Text(f) # NoJobFile
        /\ told[f] = "on" => Text(f).enabled # "false"
        /\ told[f] = "off" => Text(f).enabled = "false"
        /\ told[f] = "faulty" => claimed[f] = NoJobFile

\* A job that was claimed is run, recorded and put back (doc of
\* executeClaimedAgentCronJob, scheduler-cron-executor.ts:270-274).
ClaimedIsRun == \A f \in JobFiles : claimed[f] # NoJobFile => f \in Held
=============================================================================
