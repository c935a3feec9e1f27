# Piren in TLA+

Piren runs personal agents over a shared vault of Markdown files. Several devices (laptops, servers) mount the
same vault, through a file-sync service or a network file system, and coordinate through nothing but file names
in it. On each device a gateway process serves a web workbench, chat transports talk to Telegram and Discord, a
scheduler runs tasks and jobs, and a command line writes the same files as all of them. This directory specifies
that program, checks it with TLC and proves its central properties with TLAPS. Sources are named relative to
`src/src/`, the workbench's to `src/web/src/`.

Contents: 1 inventory, 2 modules, 3 runs, 4 bounds and symmetry, 5 fairness and assumptions, 6 what is proved,
7 what is only model-checked, 8 where the code departs from its documentation or from what one might expect,
9 what is not modelled, 10 plan.

## 1. Inventory

| Component (source) | State | Operations | Interacts with | What is hard | What makes it correct |
|---|---|---|---|---|---|
| Inbox files (`inbox.ts`) | one file per task; its name says who has it, its frontmatter its status and retry state | create, list, claim, recover a stale claim, edit status | everything below | rename, link, unlink and replace interleave between devices; edits are read-then-replace | one claimant, no lost task |
| Heartbeats (`devices.ts`) | `devices/<id>.json` with `last_seen`, `priority` | register | stale recovery, cron ownership | a busy device looks dead | a live claim is not recovered |
| Planner (`scheduler.ts`, `scheduler-dependencies.ts`) | none (a function of a snapshot) | plan a tick | inbox, cron | the snapshot is old when used | dependencies, duplicates, cycles and backoff block |
| One tick (`scheduler-once.ts`) | a snapshot, the claim walk, one executed item | load, plan, claim, execute, release or retry | inbox, executor, cron | every await is a chance for other devices | one item at a time, no rerun after a failure |
| Retry and release (`scheduler-retry.ts`, `scheduler-release.ts`) | the claimed file | requeue, exhaust, release, hold | inbox | two-step restore, a crash in the middle | nothing lost, bounded attempts |
| Executors, bounded run (`scheduler-executor.ts`, `ask.ts`) | one agent process | run a prompt, classify the outcome | tick, model fallback | where the point of no return is | launch failures are told from ambiguous ones; nothing is repeated after an effect |
| Loop and configuration (`scheduler-loop.ts`, `scheduler-cli.ts`) | stop flag, gate, classes, scopes | tick, sleep, stop | one tick, service | malformed configuration | fails closed |
| Cron (`cron.ts`, `scheduler-cron-executor.ts`, `cron-cli.ts`) | job files, run records | claim, run, record, recover; create, switch, check | heartbeats, tick | a claim is copy then remove; record and restore | no job lost, run once a cycle |
| Task commands (`task-cli.ts`, `task-archive*.ts`) | two previews | send, show, claim, complete, cancel, archive | inbox | files change between the previews and the moves | what live tasks need is not archived |
| Model fallback (`model-fallback-*.ts`, `interactive-model-fallback.ts`) | attempts, incidents | classify, plan, continue | ask, broker, gateway, transports, sessions | replay after visible work | each candidate once, no replay after effects |
| Conversation broker (`conversation-broker.ts`) | runs, gates, deferred handoffs, approvals | reserve, settle, hand off, approve, abort, close | RPC client, store | guards read before an await, a lock held across one | one run per agent, settle once, an accepted edge is followed |
| Conversation store (`conversations.ts`, `conversation-budget.ts`) | manifest, numbered events, lock file | create, append, join, rename, archive, hand off, raise a budget | broker, gateway routes | appends without the lock, several processes | history only grows, budgets hold |
| HTTP gateway (`gateway-http.ts`) | one agent process, streams, requests | chat, streams, abort, model, switch; conversation, settings and group routes | everything on a device | all requests share one process; every await lets another in | a message works once, an answer is what happened |
| RPC client (`gateway-rpc.ts`) | a process, pending requests, listeners | start, send, prompt, stop | whatever runs an agent | exit with requests pending | every request ends |
| Chat transports (`telegram-transport.ts`, `discord-transport.ts`, `transport-session-manager.ts`) | offset or socket, clients by chat | poll, connect, handle, abort, close | RPC client, model fallback | two starts at once, close during a start | nothing left behind, nothing skipped |
| Steward alerts, sessions, vault tools, knowledge (`alerts.ts`, `alert-mirror.ts`, `vault-tools.ts`, `knowledge.ts`, `session.ts`) | documents, outbox, mirror state | write, append, patch, flag, close, mirror, queue | extension, gateway | the vault may go away; read-modify-write | what was reported as saved is there |
| Skills (`skills.ts`, `skill-cli.ts`, `starter-skills.ts`) | skill files of several scopes, staged copies | create, move, import, promote, seed, explain | extension | commands that fail or die between renames | no skill lost; explain tells what is loaded |
| Agent extension (`pi-extension.ts`, `self-improvement.ts`) | session, incident, pending continuation, review flag | context injection, fallback, review | Pi | events and callbacks of one session | an effect is never repeated |
| Settings and groups (`settings-foundation.ts`, `group-settings.ts`, `*-configure.ts`, `agent-groups.ts`) | config files | checked writes of forms, unchecked ones of commands | gateway, CLI, workbench | what is saved was read long before | a save changes what was asked |
| Service (`service-lifecycle.ts`, `service-observability.ts`, `cli.ts`) | unit, scripts, crontab | install, remove, start, stop, status | loop | steps that fail half way | what was reported stays so |
| Provisioning (`init.ts`, `setup.ts`, `wizard.ts`, `agent-manage.ts`) | vault, agent directories, local config | init, add, clone, remove, set up | everything | commands at once, killed between writes | an agent's identity is not replaced |
| Web workbench (`ConversationNavigator.tsx`, `ConversationTimeline.tsx`, `ConversationComposer.tsx`, ...) | what is shown, drafts, reads under way | open, send, archive, stream, approve | gateway | every answer may be late | shows what was opened last, loses no text |

The hazards this code is exposed to are listed in `PROJECT.json`, each at its line and with the properties that
would catch it. Four have no property: two schedulers with one device id (`scheduler-once.ts:293`), an agent that
never ends (`ask.ts:134`), the worker's cron poll that overlaps itself (`pi-extension.ts:1547`), and a save that
was confirmed on one reading of a file and written to another (`gateway-http.ts:2185`); each has a note.

## 2. Modules

| Module | What it specifies | Explored by | Proved in |
|---|---|---|---|
| `InboxTasks` | the inbox of one agent: tasks, schedulers, interactive sessions and editors, at the grain of single file operations | `MCInboxTasks`, `MCVault` | `Tasks_proofs` |
| `TaskLease`, `InboxLease` | the abstract promise about who works on a task, and the mapping of the inbox to it | `MCVault` | `Tasks_proofs` |
| `TaskCommands` | `piren task`, above all the archive, over the inboxes of all agents | `MCVault` | `Tasks_proofs` |
| `CronJobs` | the cron jobs of one agent: schedulers of several devices, sessions, ownership by heartbeat | `MCCronJobs` | `Cron_proofs` |
| `CronFiles` | `piren cron` next to the device that claims the same files | `MCVault` | `Cron_proofs` |
| `ConversationStore` | the files of one conversation: manifest, events, lock; workflow and budget derived from the log | `MCVault` | `Agent_proofs` |
| `ConversationRecord` | the abstract promise of those files | `MCVault` | `Agent_proofs` |
| `ConversationBroker` | agent runs of one conversation in one gateway | `MCConversationBroker` | `ConversationBroker_proofs` |
| `ConversationRoutes` | the gateway's routes that open conversations and bring messages to agents | `MCWorkbench` | `Workbench_proofs` |
| `GatewayChat` | the chat routes of the gateway over one agent process | `MCChat` | `Chat_proofs` |
| `ChatTransport` | the processes `piren telegram` and `piren discord` | `MCChat` | `Chat_proofs` |
| `RunOutcome` | what a run's events tell, and the plan of the next attempt (no state) | `MCAgent` | `Agent_proofs` |
| `AgentSession` | an interactive session: context injection, fallback, review | `MCAgent` | `Agent_proofs` |
| `BoundedRun` | one request put to an agent by a program | `MCAgent` | `Agent_proofs` |
| `VaultRecords` | documents, logs and alerts written by tools; the outbox; the alert mirror | `MCAgent` | `Agent_proofs` |
| `Skills` | the skills of one name, and the commands on them | `MCSetup` | `Setup_proofs` |
| `SchedulerService` | the scheduler's configuration, its loops, and the service commands | `MCSetup` | `Setup_proofs` |
| `Settings` | the settings forms, the gateway's checked writes, the configure commands | `MCSetup` | `Setup_proofs` |
| `AgentGroups` | one agent group, its panels and commands | `MCSetup` | `Setup_proofs` |
| `Provisioning` | init, agent add, clone and remove, setup and the wizard | `MCSetup` | `Setup_proofs` |
| `WorkbenchSelection` | which conversation the page shows, and its facts | `MCWorkbench` | `Workbench_proofs` |
| `WorkbenchTimeline` | timeline, stream, activity cards, composer and their interlock | `MCWorkbench`, `MCWorkbenchTimeline` | `Workbench_proofs` |
| `FoldInduction` | what a fold over a sequence computes, by induction | | itself |

Every module begins with a comment that says what it is about, what it abstracts and which sources it translates;
`map` in `PROJECT.json` gives for each definition the lines it stands for. Three conventions hold throughout.
History variables (named as such where they are declared) are read by properties and never by guards. What a
handler does between two awaits is one action. Where the code may fail at a file operation, failing is an action.

Composition. The processes meet at files and at agent processes. `InboxTasks`/`TaskCommands`,
`CronJobs`/`CronFiles` and `ConversationStore`/`ConversationBroker`/`ConversationRoutes` are the same files seen
at two grains: the finer module has the file operations and one client, the coarser one takes an operation as a
step and has the rest of the program. What the coarser one relies on is what the finer one promises (a lock that
refuses, an append that adds one entry, a claim that is exclusive). `AgentSession`, `BoundedRun`, `GatewayChat`,
`ChatTransport` and `ConversationBroker` each have the model fallback as their callers use it; the first two use
the classification of `RunOutcome`, the others take its result as an input of the run. The modules `MCVault`,
`MCAgent`, `MCSetup`, `MCChat` and `MCWorkbench` each hold several systems that share no variable, and explore
them one at a time: the initial state picks a `part` (a `way` in `MCChat`) and only its actions are taken. This
is not a product; it serves to ask related questions in one run.

### The inbox: InboxTasks, TaskLease, InboxLease

`inbox[t][n]` is the content of task `t`'s file under name `n`: `Ordinary` for `<task>.md`, a device id for
`<task>.claimed.<device>.md`. Of the content it keeps `status` and `retry_state.attempts`.

| Action | Code |
|---|---|
| `Create` | `createInboxTask` (ids are fresh) |
| `BeginTick`, `List`, `Read`, `ReadVanished`, `Plan` | `schedulerOnce` steps 1 to 3: heartbeat, `loadSchedulerInboxState` file by file, `planSchedulerTick` |
| `Probe`, `Claim`, `ClaimFails`, `NoWork` | the walk of planned claims; `claimInboxTask` is two steps, the existence test and the rename |
| `LaunchFails`, `HandOff`, `RunSettles`, `RunAmbiguous` | `executeClaimedInboxTask` over `createAskRunner`: failures before the prompt handoff, and after it |
| `FailureHeld`, `CountFailure`, `Exhaust`, `Requeue` | `applySchedulerFailureTransition` |
| `ReleaseHeld`, `ReadCompleted`, `Restore` | `releaseCompletedClaimedTask` |
| `LinkCollides`, `Unlink` | the end both transitions share |
| `Crash` | the process dies, or an I/O error ends the transition as "held"; the files stay as they are |
| `SessionProbe`, `SessionClaim`, `SessionClaimFails`, `SessionEnds` | the `task_claim` tool, with stale recovery |
| `BeginEdit`, `WriteEdit` | `updateInboxTaskStatus`: read, then replace; by the steward's CLI, a session, or the scheduled agent itself |
| `GrowStale`, `EndBackoff` | the passage of time, as far as the code compares it |

`born`, `raced`, `takenOver`, `held`, `started`, `failures` and `completedOnce` are history. `raced` and
`takenOver` collect the two disturbances under which the code promises nothing (an in-place edit that raced, the
recovery of a claim that looked stale); most properties are about tasks outside them. `TaskLease` says that a task
is free, owned by one worker, or kept for a person; a worker owns at most one task; only an owner gives back or
keeps. `InboxLease` reads the owner off file names and program counters: the holder if there is one; otherwise
kept when there is no ordinary file; otherwise free; and `Lost` once disturbed.

`TaskCommands` has the inbox files of several owners and lets clients send, claim, edit and archive at once. The
archive lists and reads every inbox file by file (`ListInbox`, `ReadListed`, `ListedVanished`), twice (`Preview`),
and then moves one task at a time (`ProbeShelf`, `MoveItem`), with clients in between everywhere.

### Cron: CronJobs, CronFiles

`file[j][n]` is job `j`'s file under name `n`, as in the inbox. Of the content it keeps the cycle of `last_run`
and the number of `last_claimed_by` lines, because a claim adds one, a record removes one, and YAML refuses two.
Time is a `clock`. A schedule is an interval, due once so much time has passed since the last run, or a cron string,
reduced to the minutes it names: due in one of these if the job has not run in it yet. `isScheduleDue` looks at the
present minute only, so a named minute that passes while no owner is free is not made up, where an interval waits.

| Action | Code |
|---|---|
| `BeginTick`, `List`, `Plan`, `NoWork` | the cron half of `schedulerOnce` steps 1 to 3: heartbeat, `listCronJobs` and `isScheduleDue`, then `listActiveDevices` and `selectOwningDevice` in `planSchedulerTick` |
| `BeginClaim`, `ClaimFails`, `Stamp`, `RemoveSource` | `claimCronJob`: read the source, replace the claimed name, remove the source; for a script job after `readCronJob` |
| `Open`, `OpenFails` | `executeClaimedAgentCronJob` reads the claimed job and starts the agent |
| `Record`, `RecordFails`, `Restore`, `Clear` | `recordCronRun`: read the claimed file, write the run record, replace the ordinary name, remove the claimed one; what follows a throw differs between scripts and agents |
| `SessionClaims` | the `cron_claim` tool, with stale recovery; the session then records with `cron_record_run` |
| `Crash`, `Restart` | the process dies between two file operations; a service manager starts it again |
| `Tick`, `GrowStale` | the passage of time |

`recovered`, `contested`, `lastDone` and `ran` are history. `recovered` holds the jobs whose claim somebody took
over as stale; `contested` those that two processes had in hand, or planned, at the same time, which the code
allows because heartbeats, unlike locks, let two devices believe they own a job. `CronFiles` has one device and
the authors of job files; a file is reduced to what the loader, the validation and the commands tell apart.

### Conversations: ConversationStore, ConversationRecord, ConversationBroker, ConversationRoutes

`ConversationStore` has one caller per kind of call, each walking its file operations: take the lock (or be
refused), read, plan, write or link, give the lock back, die at any point if it may. `events` maps numbers to
event files; an append lists, links under the next number, and lists again if somebody was faster.
`EffectiveLimits`, `Depths` and `MayHandOff` are operators over the log, as `conversation-budget.ts` derives limits,
depths and the plan of an edge from it. `ConversationRecord` promises that members stay, that a change of one field takes back no other,
that history grows by one entry at a time, and that work is entered only while the conversation is open.

`ConversationBroker` walks a run through reserved, session, prompt, turn, settled, reported, over, and a handoff
from the gate (or the deferred request of a handed-on run) over the lock to the edge, the launch of the child, or
its rejection. Settling takes the first cause (`settle once`); aborts, timers, exits, answers to approvals, other
callers of the lock, failing appends and `close()` come in at every await.

`ConversationRoutes` has the requests that open conversations and bring messages: each reads, checks, records,
dispatches one run after another and answers; an append that throws outside a `try` ends the process.

### Chat: GatewayChat, ChatTransport

`GatewayChat` follows messages (`turns`) over the gateway's one agent process: policy read, prompt, the listener
for the next settlement, fallback, abort, the change of the model, a new conversation, the switch of the agent,
streams and their readers, exits. `ChatTransport` has the Telegram poll with its offset and the Discord socket
with its reconnection, the queue of messages, the session manager that starts one client per chat, and shutdown.
Pi and the two chat services are external: the process may answer late, exit at any time, and settle after a timer.

### An agent's process: RunOutcome, AgentSession, BoundedRun, VaultRecords

`RunOutcome` is the classification of `model-fallback-outcome.ts` over the kinds of events seen, the records of
the last `agent_end` and the last record of a message, and the plan of the next attempt. `AgentSession` and
`BoundedRun` are its two users in an agent's or a program's process; a session that is resumed has the model it was
left with, which counts as no choice of the steward. In `VaultRecords` a document is the set of
pieces written into it; a tool call reads, writes a temporary file and renames; the vault may be swapped for an
empty directory below its mount point; the mirror of alerts has its duplicates, its rate limit and its failures.

### A device: Settings, AgentGroups, Skills, SchedulerService, Provisioning

`Settings` gives each form its load, its edits, its confirmation and its save, and each save in the gateway its
read, judgement, second read, temporary file and rename; the configure commands overwrite. `AgentGroups` does the
same for one group and the revision a panel sends along. `Skills` takes each file operation of each command as a
step that may fail, and lets the command die before it; the loader sorts an agent's groups, `skill explain` takes
them as their directory lists them. `SchedulerService` has the configuration key by key
(absent, null, a table, malformed, or a value), the loop, and the commands as lists of steps. `Provisioning` has
two shells whose commands write vault, agents and local config one file at a time.

### The workbench: WorkbenchSelection, WorkbenchTimeline

`WorkbenchSelection` has every kind of answer the page waits for, each with the guard the code gives it, over
conversations that other clients change. `WorkbenchTimeline` has the log of the gateway, the history read, the
stream, what is on the wire, the items shown, the cards of runs and approvals, and the composer with its two
drafts (the field and the one held back by the interlock). What the composer does on an interlock is an effect that
runs after the commit: `Commit` is the render in which the interlock has begun or cleared (`locked`), `ApplyInterlock`
the effect that follows it (`was`), and anything that is not a user's event, a failing send above all, may come between.

## 3. Runs

| Run | What is explored | What it shows |
|---|---|---|
| `inbox_live` | two fair devices, a chain of two tasks whose head is retryable | one holder, prerequisites first, no second run after a failure, and every task ends completed or visibly held |
| `vault` | by parts: one task with a device that may crash anywhere, a session and an editor; the files of a conversation with a call of each kind in flight; three tasks of two owners with two archiving, sending, claiming and editing clients; cron commands of two authors and one device | no task lost, and the inbox implements `TaskLease`; the files implement `ConversationRecord` and handoffs stay within their budget; what live tasks need is not archived; what a cron command reported holds |
| `cron` | two fair schedulers, of which the preferred one may die and not come back, a session, one job with an interval or a cron string, two cycles | no job is lost, one run a cycle, and a due job is run: ownership fails over, and only a cron string whose minute passes meanwhile goes unserved |
| `conversation_broker` | a mention whose run hands on, with fallback, approvals, aborts, timers, failing appends, other callers of the lock and `close()` | one run per agent; every end told as what settled it first; recorded edges followed; the broker comes to rest |
| `chat` | two ways: a transport (Telegram or Discord) with prompts, an abort and changes of the agent; the gateway's chat with two messages | nothing left behind, no update skipped, a message works once, an abort is final, every reader of a stream is told an end, transport and gateway come to rest |
| `workbench` | by parts: the selection over two conversations that another client changes; the timeline over a stream that breaks; the routes with two requests, locks held elsewhere, archives and failures | the newest opened is shown with its own facts, own changes are shown, events are shown once, no text is lost; an answer is what happened, a message is given once and to members only |
| `agent` | by parts: three tool calls over a vault that goes away, with mirrored alerts; an interactive session; a bounded request | what was reported as saved is there, alerts keep their rate limit, nothing is repeated after an effect |
| `setup` | by parts: settings, groups, skills, service, provisioning | saves change what was asked, actions what was seen, no skill is lost and `explain` tells what is loaded, a service is what was reported, malformed configuration allows nothing new, identities are kept |
| `broker_edge_lost` | as `conversation_broker`, no fairness | violated: two handoffs of one run pass the guard before either holds the lock, and the second overwrites the first deferred edge |
| `chat_continues` | as `chat`, no fairness | violated: of two messages on one process, the end of the first is taken for the second's, which goes to the next model though its own prompt has only begun |
| `workbench_interlock` | the timeline alone | violated: a run that ends with an approval unanswered leaves its card, and the composer stays read-only |
| `cron_created` | as the cron part of `vault` | violated: a job made by `piren cron create` has a `last_claimed_by` line, its claim adds a second, and the claimed file does not parse any more |

Each property of a passing run has a mutant in `PROJECT.json`: an operator defined next to the one it replaces
that changes it as a plausible bug would, and with which TLC finds the property violated. The operators marked as
mutants in the modules are there for that and are used nowhere else.

## 4. Bounds and symmetry

A bound is named by a constant and stands in the guard of the action it limits.

| Bound | Value | Why it is enough |
|---|---|---|
| devices, sessions, editors (`InboxTasks`) | 2 devices in `inbox_live`; 1 of each in `vault` | devices interact only through one task's names: every race is a pair |
| `MaxAttempts` | 2 | one requeue and one exhaustion |
| `MaxCycle`, `Schedules` | 2; every 2 minutes, minute 1, minute 2 | an interval that a run does not let elapse again; a minute that may pass before the claim; the last minute, which stays, also for a job that a session ran in the first |
| `Slots`, `Start`, `Task` (`ConversationStore`) | 7 slots, one call of each kind | two handoffs compete for the last edge, a raise, an archive, a rename, a join and a message without the lock |
| `MaxTaskActs`, `MaxCronActs`, `MaxTicks` | 2 | one command between any two steps of another; one claim before and one after |
| `MaxRuns`, `MaxHandoffs`, `EdgeLimit`, `MaxFaults`, `MaxOthers` | 2 handoffs, runs enough for all | a root run and two handed-on ones; one failure and one other caller at any place |
| `MaxClients`, `MaxExits`, `MaxDrops`, `MaxCrashes`, `Fallbacks` (`ChatTransport`) | 5 clients, one of each trouble, 2 fallbacks | each trouble meets each step once; clients are enough for every prompt and fallback |
| `MaxProcs`, `MaxRequests`, `MaxTrouble` (`GatewayChat`) | 3, 3, 1 | a message on the process before a switch, during it, and after |
| `MaxSteward`, `MaxGroupActs`, `MaxServiceActs` | 3 | two forms, panels or commands at once, and one act between them |
| `MaxProvActs`, `SomethingToLose` (`MCSetup`) | 3 | a command in each shell and one act between them; a third command only where a paper is not fresh, because the property is about those |
| `MaxSkillActs`, `ListedGroups` | 4; the two groups the other way round than sorted | create, stage, promote, and a command after a failure; listing and sorting differ |
| `MaxInstant`, `MaxSwaps`, `MaxCalls` (`VaultRecords`) | 1, 1, 3 | two overlapping writes or alerts and one after, with a `RateLimit` of 1: within the limit, beyond it, and a send that lasts as long |
| `MaxEvents`, `MaxSessions`, `MaxReviews` | 2, 1, 1 | a run with an effect and a run without; a session that is resumed; one review beside the runs |
| `MaxOpens`, `MaxReads`, `MaxActs`, `MaxOthers` (`WorkbenchSelection`) | 3, 1, 1, 1 | an answer for the conversation left, the one shown, and the one being opened |
| `MaxRuns`, `MaxTexts`, `MaxKept`, `MaxFaults`, `MaxMounts`, `MaxWire` (`WorkbenchTimeline`) | 1, 1, 1, 1, 1, 2 (2 mounts in `workbench_interlock`) | one interlock, one text, kept once, one break, one mount at any moment: what is mounted again starts from the log alone, as a late first mount does |
| `MaxItems`, `MaxChars`, `MaxTroubles`, `Candidates` (`ConversationRoutes`) | 1, 6, 1, 2 | limits of the code scaled down; one lock of others or one failure, at any place. There are two requests; a message may address both agents, the message that makes a conversation one, for the theorems are about any |

Symmetry is used in `setup`, `vault`, `agent` and `workbench`, over sets of clients, authors, agents, shells,
requests or conversations of which no constant singles out a member; these runs check invariants, action properties and
refinements, and no liveness.

## 5. Fairness and assumptions

| Specification | Weakly fair | Why the code justifies it |
|---|---|---|
| `LiveSpec` (`MCInboxTasks`) | each scheduler's `Step`; an edit once begun; the end of a backoff | the loop polls for ever and every file operation returns; a file operation is not left half way; time passes. Crashes, sessions and new edits are not fair |
| `FairSpec` (`CronJobs`) | each scheduler's `Step`; a session that has claimed goes on to record; a heartbeat that is not renewed becomes stale | as above. `Restart` is not fair: failover must not depend on the dead device. `GrowStale` does not fall between a tick's heartbeat and its plan, which are milliseconds apart against a threshold of minutes |
| `FairSpec` (`ConversationBroker`) | the event loop while a continuation is ready; the timers; other callers give the lock back | awaited operations return and timers fire. The agent and the steward owe nothing: a run that never settles and an approval nobody answers are ended by timers |
| `ChatSpec` (`MCChat`) | the handler, its timers, the connection, the poll, and that Pi reads what it is sent; in the gateway `ChatStep`, some step of the chat | timers fire, requests are answered or fail |

Assumed of the outside, where no timer of the code ends it: a run of Pi ends, with a settlement or with the process
(`ask.ts` and the scheduler have no timeout: an agent that hangs stops its device's tick, and `inbox_live` and
`cron` assume that it does not); steering
an idle agent begins a run; Pi delivers the events of a session one after another; a service manager restarts the
gateway. File operations are atomic one by one: rename replaces, link does not clobber, unlink removes.

## 6. What is proved

The theorems hold for every value of the constants, from the assumption named in each module: the constants have
their types, special values are distinct, names of scopes differ (`SkillsAssumption`, they are directories), a request
asks for something a route accepts as well-formed (`RoutesAssumption`), and the base limits of handoffs are positive and
within their caps (`StoreAssumption`; `conversation-handoff.ts:41,44` has 8 and 2, `conversation-budget.ts:32,35` 24 and
6). A run's property checked by TLC on a small instance is, where a
theorem states it, proved for all. Each proof names an inductive invariant, shows that the initial states have it
and that every action keeps it, one lemma or step per action, and derives the property.

**Tasks** (`Tasks_proofs`)

| Theorem | Statement | Inductive invariant, beyond the types |
|---|---|---|
| `TypeCorrect` | `Spec => [](TypeOK /\ Coherent)` | `Shape`, which is both: a scheduler past its probe has a task, one about to write has a content, an active session has a task |
| `ClaimsAreExclusive`, `HeldIsFinal` | `[]OneHolder`, `[]HeldStaysHeld` | `LeaseInv` |
| `TasksAreKept` | `[]NoTaskLost` | `LeaseInv` and `MovesAway`: a session claims a file away from another name than its own |
| `RetriesAreBounded` | `[]RetryBounded` | `Counted`: the attempts in the file an undisturbed task can be claimed or counted from are its launch failures so far, and a copy about to be written has counted the one at hand |
| `PrerequisitesFirst` | `[]DependenciesFirst` | `Ready`: a prerequisite seen ordinary and completed stays so in the past: of the files, of what was read, planned, claimed and started |
| `NoSecondRun` | `NoRerunAfterFailure` | `Rests`: an undisturbed task that was started and never released has no ordinary file, and nobody is launching or requeueing it |
| `InboxIsALease` | `Spec => LeaseSpec` | `LeaseInv`; each action is a step of `TaskLease` or leaves its variables alone |
| `DependentsSpared` | `TasksSpec => []DependentsKept` | `CommandInv`: `ArchiveFits` says of each client what its previews have established (`Loaded`, `Spared`) about the files as they were or as they are |

`LeaseInv` is `Shape`, `BornFirst` (what exists, is worked on or is edited has been created) and `Exclusive`:
while somebody holds an undisturbed task it has no ordinary file and is not in `held`. `OneHolder` alone is not
inductive, because a second holder appears by renaming an ordinary file that `OneHolder` does not exclude. Frame
lemmas say what each kind of step does to names, holders and history, so that few proofs open an action.

**Cron** (`Cron_proofs`)

| Theorem | Statement | Inductive invariant |
|---|---|---|
| `CronTypes` | `Spec => [](TypeOK /\ Coherent)` | `Shape`, which is both: a process in a claim has a job, one about to write a content, and schedulers claim from the ordinary name |
| `ClaimsAreKept`, `JobsAreKept` | `UniqueIds => (Spec => []ClaimKept)`, `... []NoJobLost` | `Kept` |
| `RunsOncePerCycle` | `Spec => OncePerCycle`, also if ids are shared | `OnceInv`: `Hands` for each process and, for each job that was neither contested nor recovered, `Single`: one hand has it (`OneHand`), its file is dated by what was run (`Dated`), is away while it is run (`Away`), and a plan for it is timely (`Timely`) |
| `ReportsHold` | `JobFilesSpec => []CronReportHolds` | `JobInv`: what the runner, each author and each file are in the middle of fits the files (`RunnerFits`, `AuthorFits`, `SwitchFits`, `FaultyFits`, `NoneWrites`) |

`UniqueIds` says that no two processes share a device id. It is a hypothesis of these two theorems and not an
assumption of the module, because the code does not enforce it: a process that recovers its own stale claim
removes the file it has just written. `Kept` says of each job whose claim was never recovered that every holder has
its claimed file, claimed from the ordinary name; that an ordinary file has no `last_claimed_by` line and a claimed
one at most one; and that some file is there that nobody is about to remove. Claims do overlap, so the proof cannot
rest on exclusion: a claimant removes the ordinary name, which its own claimed file makes dispensable, or its own
claimed name, after which the file that was safe before is still safe.

**Conversations** (`Agent_proofs`, `ConversationBroker_proofs`)

| Theorem | Statement | Inductive invariant |
|---|---|---|
| `FilesKeepRecord` | `StoreSpec => RecordSpec` | `StoreInv`: the lock's holder is the one under way (`LockHeld`), stages, drafts and what was read fit (`StagesFit`, `DraftsFit`, `SeenIsCurrent`), work is recorded only while open (`WorkIsOpen`), numbers have no gap (`NoGaps`) |
| `HandoffsStayWithinBudget` | `StoreSpec => []WithinBudget` | `StoreInv` and `PlanInv`: what was planned (`Planned`) is still so, because the messages that arrive without the lock change no plan (`SamePlan`), and drafts tell it (`DraftsTold`) |
| `StoreIsTyped` | `StoreSpec => []StoreTypeOK` | `StoreInv` and `Recordable`: what is recorded, or about to be, is an event the append agrees to. What the append asserts (`assertValidHandoffBudgetMetadata`) is thereby shown to hold of every budget update the plan agrees to: it names a dimension, from what is in force, to more than that, within the cap |
| `LimitsStayWithinCap` | for any log, well-formed or not: base limits `<=` `EffectiveLimits` `<=` caps | induction along the fold |
| `RunsAreExclusive`, `AnswersReachTheRun`, `EndsAreTold`, `EdgesAreFollowed` | `[]OneRunPerAgent`, `[]ApprovalsAreLive`, `[]EveryEndTold`, `[]EdgeFollowed` | `BrokerInv`: these four, `Types`, `Begun` (what each phase has behind it), `Telling` (a settled run on its way to its report) and `Waiting` (a deferred edge on its way to its child) |
| `BrokerIsTyped` | `Spec => []TypeOK` | `BrokerInv` and `TurnTypes`: a run has tried no more models than are configured for its agent, and fewer while it is about to try the next (`Attempts`) |

**Chat** (`Chat_proofs`): `TransportTypes`, `TransportsEndClean` (`[]NothingLeftBehind`) and `UpdatesAreHandled`
(`[]NoUpdateSkipped`) from `TransportInv`, which adds what the handler (`Handling`), the connection (`Connecting`) and
the feed of updates (`Queued`, `Feeding`) are in the middle of. `WorksOnce` (`[]OncePerMessage`) and `AbortsAreFinal`
(`AbortFinal`) from `GatewayInv`: types, where each prompt is placed (`Placed`), what an abort has marked (`Marked`),
and what a message that is alone on its process can rely on (`Alones`).

**An agent's process** (`Agent_proofs`)

| Theorem | Statement | Inductive invariant |
|---|---|---|
| `SavedStays` | `RecordsSpec => []SavedIsKept` | `SavedInv`: what a call knows of the document it amends (`Knows`) |
| `MirrorKeepsTheLimit` | `RecordsSpec => []MirrorLimited`: between messages, less what slow sends took | `MirrorInv`: what a delivery under way has yet to send (`SendsOnce`), who mirrors beside whom (`Marks`), and that stamps are not earlier than what was sent (`Stamps`) |
| `SessionsRepeatNothing` | `SessionSpec => []SessionRepeatsOnlyUntouched` | `SessionInv`: the incident, the handling and the pending continuation fit the run (`IncidentFits`, `HandlingFits`, `PendingFits`) |
| `AsksRepeatNothing` | `BoundedSpec => []AskRepeatsOnlyUntouched` | `BoundedInv`: what the events have witnessed, what the decision was handed, what the program is answered (`Witnessed`, `HandedFits`, `AnswerFits`) |
| `NothingIsRepeated` | `AgentSpec => []RepeatsOnlyUntouched` | both |

**A device** (`Setup_proofs`)

| Theorem | Statement | Inductive invariant |
|---|---|---|
| `MalformedNarrows` | `ServiceSpec => FailClosed` | the configuration has all its parts |
| `ReportsStayTrue` | `ServiceSpec => []ReportedIsSo` | `ServiceInv`: the steps ahead of a command belong to its manager and action (`Fits`), and what it will promise is there, ahead, or given up with an error (`Told`, `Untold`, `Installing`, `Removing`) |
| `SkillsSurvive` | `SkillsSpec => []NoSkillLost` | `SkillsInv`: a text to be kept stands in a file that is not temporary (`KeptStands`), and each command has behind it what its next removal relies on (`CommandFits`) |
| `ExplainedIsTrue` | `SkillsSpec => []ExplainAgrees` | none: it holds in every state, whatever the order of `ListedGroups`: scopes have distinct names, so where at most one of an agent's groups has the skill, or the agent has its own, the place found last lies in the scope that `explain` takes |
| `SavesChangeOnlyWhatIsAsked` | `SettingsSpec => OnlyAskedChanges` | `SettingsInv`: a write that no other overlapped has read what is there (`WritesFit`, `OverlapsKnown`) |
| `ActionsChangeWhatWasShown` | `GroupsSpec => ActionOnWhatWasShown` | `GroupsInv`: what the gateway works on is what the panel showed (`SourcesFit`), and crossings are known |
| `IdentitiesAreKept` | `ProvisioningSpec => IdentityKept` | `ProvisioningInv`: what a command has yet to do fits how it was begun (`TodoFits`) |
| `ServiceIsTyped`, `SkillsAreTyped`, `SettingsAreTyped`, `GroupsAreTyped`, `ProvisioningIsTyped` | `[]` of the module's type invariant; of provisioning also `CommandTypes`: a command with a step ahead is about an agent, and the config it holds is a whole one | the invariant above with the types of everything a loop, a command, a request or a panel holds (`LoopTypes`, `StagedIsText`, `SettingTypes`, `GroupTypes`, `ProvisioningTypes`); of the settings: what is on its way into a config file has passed the gateway's checks, also where two writers share a temporary file |
| `CleanGroupsNameTheSame` | `GroupsSpec => []CleanGroupsAgree` | none: it follows from what the validation looks at |

**The workbench** (`Workbench_proofs`): `TypesCorrect`, `NewestShown` (`NewestInv`: a flow with the newest number is
the one for what was opened last), `FactsOwn` (`FactsInv`: a read of the current generation is for what is shown),
`OwnShown` (`OwnInv`: an own change not yet shown has an answer on its way), `TimelineTypes`, `EventsShownOnce`
(`ShownInv`: with a subscription, every event is shown, on the wire, unpublished or missed before it) and
`TextIsKept` (`TextInv`: what the composer's field and its held draft hold, that numbers are fresh, and that every
written text is somewhere safe; `dropped` has the texts whose send failed between the commit that clears an interlock
and its effect, which the code loses and the property leaves out).

**The gateway's routes** (`Workbench_proofs`, whose last part is about `ConversationRoutes`)

| Theorem | Statement | Inductive invariant |
|---|---|---|
| `AnswersAreSo` | `RoutesSpec => []AnsweredIsSo` | `RoutesInv` |
| `EachIsGivenOnce` | `RoutesSpec => []GivenOnceToMembers` | `RoutesInv` |

`RoutesInv` says of each request, by where it is: how often its event is recorded (`Recorded`: never before the step
that records it, exactly once and in its own conversation after it), which conversation it made and that all it
addresses are members there (`Made`), to whom it was given (`Passed`), to whom it still has to be given (`Leftover`:
nobody twice, and nobody who has it), what it has read and is going to say (`Knows`), and where it may be at all
(`Placed`); of raises of a budget, that one about to be recorded expects the number of raises there are (`RaisesFit`) and
that two granted ones expected different numbers (`RaisesDiffer`). Neither property is inductive: both speak of the end
of a request, and what keeps another request, a break of a run or a death of the gateway from spoiling it is what the
request has and has not done on the way. Times and raises are counted by `Cardinality`, and recipients come from a fold
over names (`FoldInduction`), which is why a message is dispatched to each name once.

**Folds** (`FoldInduction`, a lemma the proofs rest on): `FoldOfPrefixes` says for any operator that a fold from the left takes the values of the
prefixes, each from the one before. The provers cannot use the library's induction theorems, which take an operator
as a parameter; here induction over the naturals is stated for sets and proved from the well-foundedness of `<`, and
the module is instantiated with the operator of each fold (`FoldInduction WITH Op <- RaiseBy`).

## 7. Only model-checked

Liveness (`TaskServed`, `JobServed`, the two `ComesToRest`, `ReadersEnd`) is out of the prover's reach: it needs
fairness and `ENABLED`. Every other property of a passing run is stated by a theorem. The four violations are
counterexamples, which only TLC can give. What the scanner of mentions and the classification of a run's events compute
is explored by TLC over bounded texts and events; the proofs use of them only the facts that hold of any result.

## 8. Where the code departs from its documentation, or from what one might expect

The violation runs and `findings` in `PROJECT.json` have four of these with a counterexample. The others were met
while modelling; the models have the behaviour, and the properties are stated around it.

Tasks and cron. A status edit that races with a claim recreates the ordinary file, and a second device takes the task
(`docs/tasks.md:52`); a tick claims what was cancelled after its load (`docs/scheduler.md:171`). The archive omits an
agent's whole inbox when one listed file vanishes (`docs/tasks.md:54`); an edit in flight recreates an archived file; a
task edited between the recheck and the rename is archived as edited. Two claims of one job may overlap
(`docs/cron.md:120`); a cron string's minute that passes while its owner is dead or busy is not made up (`cron.ts:103`);
a recovered job may be restored with a stale `last_claimed_by` (`cron.ts:692`); recovering one's own
stale claim removes the job (`docs/recovery.md:37`). `cron disable` on a job without an `enabled` line reports
"Disabled" and changes nothing; `cron create` for a claimed job is overwritten by the restore; `cron validate` accepts
files the loader rejects; the path of `--body` is joined with the vault root twice. `piren scheduler --dry-run` uses the
raw host name and ignores the configured `device_id` and cron due times (`scheduler-cli.ts:67`, `:103`).

Conversations. A second handoff accepted in one run overwrites the first deferred edge. A `value` answer at a handoff
gate consumes the gate without answering the agent (`conversation-broker.ts:1735`). A failing append of a message, or an
unreadable transcript, is an unhandled rejection in the routes that create, start and send (`gateway-http.ts:434`) and ends
the gateway with every run. A failed cleanup of links leaves a conversation although 500 is answered. A message may be
recorded in a conversation archived between the check and the append (`docs/api.md:160`, `:173`). A message to several
agents is dispatched one run after another, so a later message can reach the second agent first, whose prior context
lacks the earlier one. A budget update whose append fails is answered 400 "rejected", not 500 (`docs/api.md:183`), and may
have been recorded. A steer into a run that is settling is answered "steered". `lifecycle_transition` is never published
over SSE (`docs/gateway.md:112`).

Gateway chat and fallback. The end of one message's run may be taken for another's. An abort while the policy is read
marks no incident; a second concurrent turn overwrites the first one's; a message whose policy is read during a switch
goes to the new agent with the old agent's primary; a model the steward selects while a run fails is overridden by the
fallback (`docs/gateway.md:40`). A concurrent switch and new conversation leak a process and may leave `currentAgent`
naming another agent. Streaming responses of the OpenAI route do not end when the process exits after accepting, or is
replaced; `handleStream` has no close listener, the map of streams is not pruned, and `close()` closes no chat stream.
The handoff prompt is given the next model as the failed one (`model-fallback-rotation.ts:99`, `gateway-http.ts:943`,
`ask.ts:347`). In a session, an explicit selection during `await setModel` is not rechecked before the continuation, and a
prompt of the steward between the pending set and the continuation takes over the older request. A bounded run without
policy reports any settled run as ok, also one that ended in a provider error; an exit while a model is set is reported
later as "exhausted" or "ambiguous"; a primary listed as a fallback is tried again.

Vault and alerts. `append`, `patch` and the alert tools write without the availability check of `vault_write`; concurrent
appends lose entries; two writes of one path queued in one millisecond overwrite each other. The mirror's
window counts from the time before the sends and not from a successful one (`docs/configuration.md:273`): a message held
up by slow sends may be followed by the next at once; two overlapping flags exceed its limit, and two closers of one alert
both succeed. Two overlapping ends of turns start two reviews, of which the first to end clears the other's flag; with
`recent_messages: 1` no review ever begins.

Settings, skills, service and setup. Forms do not read the projection again after a save
(`SchedulerSettingsForm.tsx:177`); `AgentPreferencesForm.loadAgent` has no guard against a late answer; two writes in one
millisecond share a temporary name, so a failing write may still be installed (`settings-foundation.ts:865`, `:898`); the
configure and agent commands write back what they read at their start; group commands write unchecked and truncating; a
fallback patch that only sets auto-switching is always rejected; a save may be confirmed on one reading and applied to
another. `skill explain` reports the first of `x/SKILL.md` and `x.md` in one scope while the loader takes the last, and
`listConflicts` ignores these (`skill-cli.ts:842`); of two groups that have the skill it takes the last its directory
lists (`skill-cli.ts:589`), the loader the last by name (`agent-groups.ts:83`); a forced move of a skill to its own scope deletes it
(`skill-cli.ts:734`). Removing and stopping report ok though `systemctl stop` failed (`docs/service-management.md:137`);
removing under another detected manager leaves the installed service running; `--method tmux-cron` beside systemd gives
two loops; `sort -u` reorders the user's crontab; a failing read of `config.yml` while the service's status is recorded
overwrites the whole file (`cli.ts:577`). A `scheduler:` block that is no mapping loses its gate and scopes for
`--once --force`, which `FailClosed` excludes; an empty `allowed_agents` means "all" to `assertRunnable` and "none" to the
scheduler. The wizard replaces the local config; an unreadable `auth.json` loses its credentials; an init that dies after
the marker leaves a vault the wizard accepts though the agent has no `SOUL.md`.

Workbench. A run that ends with an approval unanswered leaves the composer read-only. A send that fails after the commit
that clears an interlock and before its effect takes the branch for a held field, and the effect then restores an old
draft: the text is lost (`ConversationComposer.tsx:172`, `:274`). Of settled runs the page remembers 32
(`conversation-activity.ts:43`), and it clears every run when a frame names another agent for a run it shows (`:242`);
the model forgets none and has no such frames.

## 9. Not modelled, and why

Sequential string processing (frontmatter and YAML syntax, formatting, path containment, parsing of requests and
arguments), rendering and layout of the workbench, authentication, static files and read-only routes: unit tests reach
them, and a state machine adds nothing. Doctor, update, clean install and packages are checks and installers without
concurrent state. The archives of sessions and of alerts are not called by the program. The knowledge graph and the
search tools only read. Chat platforms, Pi and the service managers are outside the repository and appear only through
what the code does with their answers. `PROJECT.json` lists for every component what of it is left out.

## 10. Plan

The safety properties of all runs are proved. What could be added: a refinement of `ConversationBroker` to an abstract
run (reserved, settled once, told once), of which `RunsAreExclusive` and `EndsAreTold` are the substance; a model of the
doctor's repairs next to the commands whose leftovers they mend; the worker's overlapping cron polls
(`pi-extension.ts:1547`).
