------------------------------- MODULE CronJobs -------------------------------
(***************************************************************************)
(* The cron jobs of one agent, run by the schedulers of several devices    *)
(* and by interactive sessions.                                            *)
(*                                                                         *)
(* A job is a Markdown file that lives for ever.  A process that runs it   *)
(* claims it, which moves the file from <job>.md to                        *)
(* <job>.claimed.<device>.md, then writes a run record and moves it back   *)
(* with a new last_run.  Unlike the inbox, neither move is a rename: the   *)
(* code reads the source, writes the target over whatever is there, and    *)
(* then removes the source, so three steps of another process may come in  *)
(* between.  Which device may run a job is decided from heartbeats.        *)
(*                                                                         *)
(* Sources: cron.ts, scheduler-cron-executor.ts, and the cron halves of    *)
(* scheduler-once.ts and scheduler.ts.                                     *)
(***************************************************************************)
EXTENDS Naturals, FiniteSets

CONSTANTS
    Jobs,           \* job ids
    ScriptJobs,     \* the jobs with mode: script; the others are for an agent
    Allowed,        \* [Jobs -> SUBSET Devices], device_policy.allowed_devices
    Devices,        \* device ids
    Schedulers,     \* scheduler processes
    Sessions,       \* interactive sessions, which use cron_claim and cron_record_run
    IdOf,           \* [Schedulers \cup Sessions -> Devices], the id a process claims under
    Rank,           \* [Devices -> Nat], the order by priority and then by id
    Schedules,      \* the schedules a job may be written with
    MayCrash,       \* processes that may die, once each
    MaxCycle,       \* bound on the clock
    Ordinary,       \* the unclaimed name <job>.md
    NoFile,         \* the content of a name that does not exist
    NoJob           \* a process that works on nothing

Processes == Schedulers \cup Sessions

\* CronSchedule: an interval, in cycles, or the cycles that a cron string matches.
Intervals == [every : Nat \ {0}]
CronStrings == [minutes : SUBSET Nat]

\* What the model keeps of a job file: its schedule, the cycle of last_run (0
\* for none) and how many last_claimed_by lines the frontmatter has.
Content == [schedule : Schedules, lastRun : Nat, claims : Nat]

\* The names a job may be visible under.
Names == {Ordinary} \cup Devices

ASSUME CronAssumption ==
    /\ ScriptJobs \subseteq Jobs
    /\ Allowed \in [Jobs -> SUBSET Devices]
    /\ Schedulers \cap Sessions = {}
    /\ IdOf \in [Schedulers \cup Sessions -> Devices]
    /\ Rank \in [Devices -> Nat]
    /\ \A d, e \in Devices : Rank[d] = Rank[e] => d = e
    /\ MayCrash \subseteq Schedulers \cup Sessions
    /\ MaxCycle \in Nat \ {0}
    /\ Schedules \subseteq Intervals \cup CronStrings
    /\ Ordinary \notin Devices
    /\ NoFile \notin Content
    /\ NoJob \notin Jobs

VARIABLES
    file,       \* file[j][n]: the content of job j's file named n
    clock,      \* the minute it is: a job runs at most once in each
    stale,      \* device ids without a fresh heartbeat
    stage,      \* where each process is
    due,        \* jobs a scheduler's tick read as due
    planned,    \* jobs it proposes to run and has not tried
    job,        \* the job a process works on
    source,     \* the name it claims that job from
    copy        \* the content it is about to write

\* History: read by the properties only, never by a guard, except that a
\* process dies once and a session makes one claim.
VARIABLES
    crashed,    \* processes that have died
    spent,      \* sessions that have made their claim
    recovered,  \* jobs whose claim was recovered as stale
    contested,  \* jobs that two processes had in hand, or on their lists, at once
    lastDone    \* the cycle in which j's latest recorded run ended

tickVars == <<due, planned>>
jobVars  == <<job, source, copy>>
procVars == <<stage, tickVars, jobVars>>

bounds   == <<crashed, spent>>
history  == <<recovered, contested, lastDone>>

vars == <<file, clock, stale, procVars, bounds, history>>

-----------------------------------------------------------------------------

Stages == {"idle", "listing", "planning", "walking", "stamping", "removing",
           "opening", "running", "restoring", "clearing", "down"}

\* From the write of the claimed file to the write that gives the job back.
HoldingStages == {"removing", "opening", "running", "restoring"}

Exists(j, n) == file[j][n] # NoFile

\* Processes that hold the claim of j.
Holders(j) == {p \in Processes : job[p] = j /\ stage[p] \in HoldingStages}

\* Jobs a process has planned, is claiming, runs or gives back.
InHand(p) == planned[p] \cup ({job[p]} \ {NoJob})

WriteFile(j, n, c) == file' = [file EXCEPT ![j] = [@ EXCEPT ![n] = c]]

Enter(p, s) == stage' = [stage EXCEPT ![p] = s]

\* yaml rejects a frontmatter that has one key twice.
Parses(c) == c.claims <= 1

\* cronMatchesAt, which an interval need not pass.
Matches(s) == s \in CronStrings => clock \in s.minutes

\* isScheduleDue: an interval stays due until the job has run, a cron string is
\* due in a matching minute and no longer than that minute.
IsDue(c) ==
    /\ Matches(c.schedule)
    /\ \/ c.lastRun = 0
       \/ c.schedule \in CronStrings /\ c.lastRun < clock
       \/ c.schedule \in Intervals /\ clock - c.lastRun >= c.schedule.every

\* selectOwningDevice over listActiveDevices.
Owns(d, j) ==
    LET eligible == {e \in Devices \ stale : Allowed[j] = {} \/ e \in Allowed[j]}
    IN  d \in eligible /\ \A e \in eligible : Rank[d] <= Rank[e]

\* A process forgets what it was doing.
Leave(p, s) ==
    /\ Enter(p, s)
    /\ due'     = [due EXCEPT ![p] = {}]
    /\ planned' = [planned EXCEPT ![p] = {}]
    /\ job'     = [job EXCEPT ![p] = NoJob]
    /\ source'  = [source EXCEPT ![p] = Ordinary]
    /\ copy'    = [copy EXCEPT ![p] = NoFile]

-----------------------------------------------------------------------------

Init ==
    /\ \E s \in [Jobs -> Schedules] :
          file = [j \in Jobs |-> [n \in Names |->
                     IF n = Ordinary THEN [schedule |-> s[j], lastRun |-> 0, claims |-> 0]
                                     ELSE NoFile]]
    /\ clock = 1
    /\ stale = Devices
    /\ stage = [p \in Processes |-> "idle"]
    /\ due = [p \in Processes |-> {}]
    /\ planned = [p \in Processes |-> {}]
    /\ job = [p \in Processes |-> NoJob]
    /\ source = [p \in Processes |-> Ordinary]
    /\ copy = [p \in Processes |-> NoFile]
    /\ crashed = {}
    /\ spent = {}
    /\ recovered = {}
    /\ contested = {}
    /\ lastDone = [j \in Jobs |-> 0]

\* The next minute, or the end of an interval.
Tick ==
    /\ clock < MaxCycle
    /\ clock' = clock + 1
    /\ UNCHANGED <<file, stale, procVars, bounds, history>>

\* The stale threshold is long: a tick that has written its heartbeat reaches
\* its plan before that heartbeat is old.
GrowStale(d) ==
    /\ d \notin stale
    /\ \A p \in Schedulers : IdOf[p] = d => stage[p] \notin {"listing", "planning"}
    /\ stale' = stale \cup {d}
    /\ UNCHANGED <<file, clock, procVars, bounds, history>>

-----------------------------------------------------------------------------
(* The scheduler's tick, cron half of schedulerOnce.                       *)

\* Refresh this device's heartbeat.
BeginTick(p) ==
    /\ stage[p] = "idle"
    /\ Enter(p, "listing")
    /\ stale' = stale \ {IdOf[p]}
    /\ UNCHANGED <<file, clock, tickVars, jobVars, bounds, history>>

\* listCronJobs: claimed files and files that do not parse are skipped.
List(p) ==
    /\ stage[p] = "listing"
    /\ Enter(p, "planning")
    /\ due' = [due EXCEPT ![p] =
          {j \in Jobs : /\ Exists(j, Ordinary)
                        /\ Parses(file[j][Ordinary])
                        /\ IsDue(file[j][Ordinary])}]
    /\ UNCHANGED <<file, clock, stale, planned, jobVars,
                   bounds, history>>

\* Variant: ownership ignores whether the better device is alive.
PlanForLiveOrDead(p) ==
    /\ stage[p] = "planning"
    /\ Enter(p, "walking")
    /\ planned' = [planned EXCEPT ![p] =
          {j \in due[p] : \A d \in Devices : Rank[IdOf[p]] <= Rank[d]}]
    /\ due' = [due EXCEPT ![p] = {}]
    /\ contested' = contested
          \cup {j \in planned'[p] : \E q \in Processes \ {p} : j \in InHand(q)}
    /\ UNCHANGED <<file, clock, stale, jobVars, bounds, recovered, lastDone>>

\* listActiveDevices and planSchedulerTick: the due jobs this device owns.
Plan(p) ==
    /\ stage[p] = "planning"
    /\ Enter(p, "walking")
    /\ planned' = [planned EXCEPT ![p] = {j \in due[p] : Owns(IdOf[p], j)}]
    /\ due' = [due EXCEPT ![p] = {}]
    /\ contested' = contested
          \cup {j \in planned'[p] : \E q \in Processes \ {p} : j \in InHand(q)}
    /\ UNCHANGED <<file, clock, stale, jobVars, bounds, recovered, lastDone>>

NoWork(p) ==
    /\ stage[p] = "walking"
    /\ planned[p] = {}
    /\ Leave(p, "idle")
    /\ UNCHANGED <<file, clock, stale, bounds, history>>

-----------------------------------------------------------------------------
(* claimCronJob: read the source, write the target, remove the source.     *)

\* executeScriptCronJob parses the job before it claims it.
CanClaim(j) == Exists(j, Ordinary) /\ (j \in ScriptJobs => Parses(file[j][Ordinary]))

\* What a claim will write: one more last_claimed_by line.
Stamped(c) == [c EXCEPT !.claims = @ + 1]

\* Variant: the source is moved out of the way before the target is written.
BeginClaimMoves(p, j) ==
    /\ stage[p] = "walking"
    /\ j \in planned[p]
    /\ CanClaim(j)
    /\ planned' = [planned EXCEPT ![p] = @ \ {j}]
    /\ job' = [job EXCEPT ![p] = j]
    /\ copy' = [copy EXCEPT ![p] = Stamped(file[j][Ordinary])]
    /\ WriteFile(j, Ordinary, NoFile)
    /\ Enter(p, "stamping")
    /\ UNCHANGED <<clock, stale, due, source, bounds, history>>

\* The walk reaches a planned job.  Nothing but the file's presence is checked
\* again: the plan may be old.
BeginClaim(p, j) ==
    /\ stage[p] = "walking"
    /\ j \in planned[p]
    /\ CanClaim(j)
    /\ planned' = [planned EXCEPT ![p] = @ \ {j}]
    /\ job' = [job EXCEPT ![p] = j]
    /\ copy' = [copy EXCEPT ![p] = Stamped(file[j][Ordinary])]
    /\ Enter(p, "stamping")
    /\ UNCHANGED <<file, clock, stale, due, source, bounds, history>>

\* The job is gone or broken: claim_failed, try the next planned job.
ClaimFails(p, j) ==
    /\ stage[p] = "walking"
    /\ j \in planned[p]
    /\ ~CanClaim(j)
    /\ planned' = [planned EXCEPT ![p] = @ \ {j}]
    /\ UNCHANGED <<file, clock, stale, stage, due, jobVars, bounds, history>>

\* The rename of the temporary file replaces whatever has the claimed name.
Stamp(p) ==
    /\ stage[p] = "stamping"
    /\ WriteFile(job[p], IdOf[p], copy[p])
    /\ Enter(p, "removing")
    /\ recovered' = IF source[p] = Ordinary THEN recovered ELSE recovered \cup {job[p]}
    /\ UNCHANGED <<clock, stale, tickVars, jobVars, bounds, contested, lastDone>>

\* rm -f of the source, which may be gone, back again, or the claimed name.
RemoveSource(p) ==
    /\ stage[p] = "removing"
    /\ WriteFile(job[p], source[p], NoFile)
    /\ Enter(p, IF p \in Schedulers /\ job[p] \notin ScriptJobs THEN "opening" ELSE "running")
    /\ UNCHANGED <<clock, stale, tickVars, jobVars, bounds, history>>

-----------------------------------------------------------------------------
(* Execution and recordCronRun.                                            *)

CanOpen(p) == Exists(job[p], IdOf[p]) /\ Parses(file[job[p]][IdOf[p]])

\* executeClaimedAgentCronJob reads the claimed job and starts the agent.
Open(p) ==
    /\ stage[p] = "opening"
    /\ CanOpen(p)
    /\ Enter(p, "running")
    /\ UNCHANGED <<file, clock, stale, tickVars, jobVars, bounds, history>>

\* It cannot be read: execution_failed, the claim stays and the tick is over.
OpenFails(p) ==
    /\ stage[p] = "opening"
    /\ ~CanOpen(p)
    /\ Leave(p, "idle")
    /\ UNCHANGED <<file, clock, stale, bounds, history>>

\* The first last_claimed_by line goes, any other stays.
OneLess(k) == IF k = 0 THEN 0 ELSE k - 1

\* Variant: last_run is left as it was.
RecordKeepsLastRun(p) ==
    /\ stage[p] = "running"
    /\ Exists(job[p], IdOf[p])
    /\ copy' = [copy EXCEPT ![p] = [file[job[p]][IdOf[p]] EXCEPT !.claims = OneLess(@)]]
    /\ lastDone' = [lastDone EXCEPT ![job[p]] = clock]
    /\ contested' = contested \cup {j \in {job[p]} : \E q \in Processes \ {p} : j \in due[q]}
    /\ Enter(p, "restoring")
    /\ UNCHANGED <<file, clock, stale, tickVars, job, source, bounds, recovered>>

\* The agent or the script ends, well or badly, and recordCronRun reads the
\* claimed file, writes the run record, and prepares the restored content: the
\* first last_claimed_by line goes, last_run becomes finishedAt.
Record(p) ==
    /\ stage[p] = "running"
    /\ Exists(job[p], IdOf[p])
    /\ copy' = [copy EXCEPT ![p] =
                   [schedule |-> file[job[p]][IdOf[p]].schedule, lastRun |-> clock,
                    claims |-> OneLess(file[job[p]][IdOf[p]].claims)]]
    /\ lastDone' = [lastDone EXCEPT ![job[p]] = clock]
    /\ contested' = contested \cup {j \in {job[p]} : \E q \in Processes \ {p} : j \in due[q]}
    /\ Enter(p, "restoring")
    /\ UNCHANGED <<file, clock, stale, tickVars, job, source, bounds, recovered>>

\* The claimed file is gone.  An agent's tick is over, but a script's throw is
\* taken for a failed claim and the walk goes on.
RecordFails(p) ==
    /\ stage[p] = "running"
    /\ ~Exists(job[p], IdOf[p])
    /\ IF p \in Schedulers /\ job[p] \in ScriptJobs
       THEN /\ Enter(p, "walking")
            /\ job' = [job EXCEPT ![p] = NoJob]
            /\ copy' = [copy EXCEPT ![p] = NoFile]
            /\ UNCHANGED <<tickVars, source>>
       ELSE Leave(p, "idle")
    /\ UNCHANGED <<file, clock, stale, bounds, history>>

\* atomicWriteFile replaces whatever has the ordinary name.
Restore(p) ==
    /\ stage[p] = "restoring"
    /\ WriteFile(job[p], Ordinary, copy[p])
    /\ Enter(p, "clearing")
    /\ UNCHANGED <<clock, stale, tickVars, jobVars, bounds, history>>

\* rm -f of the claimed file; a scheduler's tick is over.
Clear(p) ==
    /\ stage[p] = "clearing"
    /\ WriteFile(job[p], IdOf[p], NoFile)
    /\ Leave(p, "idle")
    /\ UNCHANGED <<clock, stale, bounds, history>>

-----------------------------------------------------------------------------
(* Interactive sessions, and processes that die.                           *)

\* cron_claim, of a job that is ordinary or whose claimant's heartbeat is stale.
\* Whether the job is due is not checked.
SessionClaims(s, j, n) ==
    /\ stage[s] = "idle"
    /\ s \notin spent
    /\ spent' = spent \cup {s}
    /\ Exists(j, n)
    /\ n = Ordinary \/ n \in stale
    /\ job' = [job EXCEPT ![s] = j]
    /\ source' = [source EXCEPT ![s] = n]
    /\ copy' = [copy EXCEPT ![s] = Stamped(file[j][n])]
    /\ Enter(s, "stamping")
    /\ contested' = contested \cup {k \in {j} : \E q \in Processes \ {s} : k \in InHand(q)}
    /\ UNCHANGED <<file, clock, stale, tickVars, crashed, recovered, lastDone>>

\* The process dies: the files stay as they are.
Crash(p) ==
    /\ p \in MayCrash \ crashed
    /\ stage[p] # "idle"
    /\ Leave(p, "down")
    /\ crashed' = crashed \cup {p}
    /\ UNCHANGED <<file, clock, stale, spent, history>>

\* A service manager may start it again.
Restart(p) ==
    /\ stage[p] = "down"
    /\ Enter(p, "idle")
    /\ UNCHANGED <<file, clock, stale, tickVars, jobVars,
                   bounds, history>>

-----------------------------------------------------------------------------

\* Claiming, running and giving back, the same for schedulers and sessions.
Work(p) ==
    \/ Stamp(p) \/ RemoveSource(p)
    \/ Record(p) \/ RecordFails(p) \/ Restore(p) \/ Clear(p)

\* What a scheduler does by itself.
Step(p) ==
    \/ BeginTick(p) \/ List(p) \/ Plan(p) \/ NoWork(p)
    \/ \E j \in Jobs : BeginClaim(p, j) \/ ClaimFails(p, j)
    \/ Open(p) \/ OpenFails(p)
    \/ Work(p)

Next ==
    \/ Tick
    \/ \E d \in Devices : GrowStale(d)
    \/ \E p \in Schedulers : Step(p) \/ Restart(p)
    \/ \E s \in Sessions : Work(s) \/ \E j \in Jobs, n \in Names : SessionClaims(s, j, n)
    \/ \E p \in Processes : Crash(p)

Spec == Init /\ [][Next]_vars

\* Schedulers keep ticking and their runs end; old heartbeats become stale.
Fairness ==
    /\ \A p \in Schedulers : WF_vars(Step(p))
    /\ \A s \in Sessions : WF_vars(Work(s))
    /\ \A d \in Devices : WF_vars(GrowStale(d))

FairSpec == Spec /\ Fairness

-----------------------------------------------------------------------------
(* Properties.                                                             *)

TypeOK ==
    /\ file \in [Jobs -> [Names -> Content \cup {NoFile}]]
    /\ clock \in 1..MaxCycle
    /\ stale \subseteq Devices
    /\ stage \in [Processes -> Stages]
    /\ due \in [Processes -> SUBSET Jobs]
    /\ planned \in [Processes -> SUBSET Jobs]
    /\ job \in [Processes -> Jobs \cup {NoJob}]
    /\ source \in [Processes -> Names]
    /\ copy \in [Processes -> Content \cup {NoFile}]
    /\ crashed \subseteq Processes /\ spent \subseteq Sessions
    /\ recovered \subseteq Jobs /\ contested \subseteq Jobs
    /\ lastDone \in [Jobs -> Nat]

\* Every run can be recorded: from the write of the claimed file until the job
\* is given back that file is there, and an agent's job can be read from it,
\* unless the claim was recovered as stale ("records exactly one visible run",
\* executeClaimedAgentCronJob).  No other claim may come in between, although
\* claims are neither atomic nor exclusive.
ClaimKept ==
    \A p \in Processes :
        stage[p] \in HoldingStages /\ job[p] \notin recovered =>
            Exists(job[p], IdOf[p]) /\ Parses(file[job[p]][IdOf[p]])

\* The removals that processes are about to make.
Removes(p, j, n) ==
    /\ job[p] = j
    /\ \/ stage[p] = "removing" /\ source[p] = n
       \/ stage[p] = "clearing" /\ IdOf[p] = n

\* No job is lost: while each device id is used by one process, every job whose
\* claim was not recovered has a file that nobody is about to remove, through
\* overlapping claims, and crashes between any two file operations.
NoJobLost ==
    \A j \in Jobs \ recovered : \E n \in Names :
        Exists(j, n) /\ \A p \in Processes : ~Removes(p, j, n)

\* "A job that already ran in the current minute is not re-triggered"
\* (isScheduleDue): across crashes, restarts and failed claims, a scheduler
\* starts a job in the cycle in which a run of it ended only if two processes
\* had the job in hand at once or a stale claim was recovered.
OncePerCycle ==
    [][\A p \in Schedulers :
          (stage[p] # "running" /\ stage'[p] = "running"
             /\ job[p] \notin contested \cup recovered) => lastDone[job[p]] < clock]_vars

Awaits(j) ==
    /\ Exists(j, Ordinary)
    /\ Parses(file[j][Ordinary])
    /\ IsDue(file[j][Ordinary])

\* The job is written with a cron string, and not for the present minute.
NotThisMinute(j) == \E n \in Names : Exists(j, n) /\ ~Matches(file[j][n].schedule)

\* A job that is due is claimed by some process, even if the device that should
\* own it is dead: its heartbeat becomes stale and the next device takes over.
\* Only a cron string may go unserved, when its minute is over before a claim:
\* isScheduleDue looks for a match with the present minute, and a minute that
\* passed while the owner was dead or busy is not made up.
JobServed == \A j \in Jobs : Awaits(j) ~> (Holders(j) # {} \/ NotThisMinute(j))
=============================================================================
