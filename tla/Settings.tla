------------------------------ MODULE Settings ------------------------------
(***************************************************************************)
(* The settings forms of the Workbench, the gateway routes that write the  *)
(* local config and the agents' configs for them, and the configure        *)
(* commands of the CLI that write the same files.                          *)
(*                                                                         *)
(* A config file is a function from the keys it may hold; its text, and    *)
(* with it the source a write expects, is the function itself.  A write of *)
(* the gateway reads the file, checks it against what it read, writes a    *)
(* temporary file and renames it; these are steps of their own, and two    *)
(* writes begun in one millisecond share the temporary file's name.        *)
(***************************************************************************)
EXTENDS Naturals, FiniteSets

CONSTANTS
    Agents,         \* agents with a config of their own
    Forms,          \* forms open in browsers
    FormKeys,       \* the keys each form shows
    Local,          \* the local config file
    NoFile,         \* no such file
    Missing,        \* a key that is not set
    Same,           \* a key a patch does not mention
    MaxSteward      \* bound: what the steward does, over all forms

Files == {Local} \cup Agents

KeysOf(f) == IF f = Local THEN {"device_id", "bot_token"}
                          ELSE {"auto_switch", "models"}
AllKeys == {"device_id", "bot_token", "auto_switch", "models"}

\* Valid values; "bad" is a text the form lets pass and the gateway refuses.
Valid(k)  == IF k = "auto_switch" THEN {"on", "off"} ELSE {"one", "two"}
Typed(k)  == IF k = "auto_switch" THEN {"on", "off"} ELSE {"one", "two", "bad", Missing}

Documents(f) == [KeysOf(f) -> {"one", "two", "on", "off", Missing}]

ASSUME SettingsAssumption ==
    /\ IsFiniteSet(Agents) /\ IsFiniteSet(Forms) /\ Local \notin Agents
    /\ \A m \in Forms : FormKeys[m] \in {{"device_id"}, {"bot_token"}, {"auto_switch", "models"}}
    /\ MaxSteward \in Nat

VARIABLES
    doc,        \* the config files
    temporary,  \* their temporary files, by writer or, if shared, by another's name
    target,     \* the file a form was opened for
    read,       \* idle, loading or ready, and in the last case what was read
    field,      \* what the form shows
    loads,      \* reads under way, late ones too
    confirming, \* the save that waits for a confirmation
    request,    \* a form's save: where it is and what it asks
    copy,       \* what the route read before it applies the patch
    name,       \* whose temporary name a write uses
    overlapped, \* history: another write was between its check and its rename at once
    command,    \* the configure command: what it read, or NoFile
    acts        \* what the steward has done so far

settingsVars == <<doc, temporary, target, read, field, loads, confirming, request,
                  copy, name, overlapped, command, acts>>

Idle == [at |-> "none", file |-> NoFile, patch |-> [k \in AllKeys |-> Same], confirm |-> FALSE]

SettingsInit ==
    /\ \E switch \in {"off", Missing} :
           doc = [f \in Files |-> [k \in KeysOf(f) |->
                     IF k = "models" THEN "one" ELSE IF k = "auto_switch" THEN switch ELSE Missing]]
    /\ temporary = [m \in Forms |-> NoFile]
    /\ target = [m \in Forms |-> NoFile]
    /\ read = [m \in Forms |-> NoFile]
    /\ field = [m \in Forms |-> [k \in FormKeys[m] |-> Missing]]
    /\ loads = [m \in Forms |-> {}]
    /\ confirming = [m \in Forms |-> Idle]
    /\ request = [m \in Forms |-> Idle]
    /\ copy = [m \in Forms |-> NoFile]
    /\ name = [m \in Forms |-> m]
    /\ overlapped = [m \in Forms |-> FALSE]
    /\ command = NoFile
    /\ acts = 0

FormFor(m, f) == FormKeys[m] \subseteq KeysOf(f)

\* The part of a file a form is shown: of the local config without the secrets,
\* of an agent's config the preferences.  Switching that is not declared is on.
LocalProjection(m) == [k \in FormKeys[m] |-> IF k = "bot_token" THEN Missing ELSE doc[Local][k]]
AgentProjection(a, m) ==
    [k \in FormKeys[m] |-> IF k = "auto_switch" /\ doc[a][k] = Missing THEN "on" ELSE doc[a][k]]

Projection(f, m) == IF f = Local THEN LocalProjection(m) ELSE AgentProjection(f, m)

\* A field that is as it was read, or blank; a blank device name counts.
Left(m, k) == field[m][k] = read[m][k] \/ (field[m][k] = Missing /\ k # "device_id")

\* What a form asks to change: a fallback is always sent with its models.
Patch(m) ==
    [k \in AllKeys |-> IF k \in FormKeys[m] /\ (k = "models" \/ ~Left(m, k)) THEN field[m][k] ELSE Same]

Changes(p) == {k \in AllKeys : p[k] # Same}

\* The closed inventory of the route: something changes, and to valid values; a
\* fallback is declared with its models.
Accepted(p) ==
    /\ Changes(p) # {}
    /\ \A k \in Changes(p) : p[k] \in Valid(k) \/ (k = "device_id" /\ p[k] = Missing)
    /\ "auto_switch" \in Changes(p) => "models" \in Changes(p)

Merged(d, p) == [k \in DOMAIN d |-> IF p[k] = Same THEN d[k] ELSE p[k]]

Other == UNCHANGED <<doc, temporary, copy, name, overlapped, command>>

---------------------------------------------------------------------------
(* The forms.                                                              *)

Act == acts < MaxSteward /\ acts' = acts + 1

\* A form is opened, or another agent is chosen in it; a confirmation under way
\* is dropped, a read under way is not.
Load(m, f) ==
    /\ Act /\ FormFor(m, f)
    /\ f # Local \/ target[m] = NoFile
    /\ target' = [target EXCEPT ![m] = f]
    /\ read' = [read EXCEPT ![m] = NoFile]
    /\ confirming' = [confirming EXCEPT ![m] = Idle]
    /\ loads' = [loads EXCEPT ![m] = @ \cup {[file |-> f, seen |-> NoFile]}]
    /\ UNCHANGED <<field, request>> /\ Other

\* The gateway reads the file for it.
ServeLoad(m, l) ==
    /\ l \in loads[m] /\ l.seen = NoFile
    /\ loads' = [loads EXCEPT ![m] = (@ \ {l}) \cup {[l EXCEPT !.seen = Projection(l.file, m)]}]
    /\ UNCHANGED <<target, read, field, confirming, request, acts>> /\ Other

\* The answer fills the form, whichever agent is chosen by then.
Fill(m, l) ==
    /\ l \in loads[m] /\ l.seen # NoFile
    /\ loads' = [loads EXCEPT ![m] = @ \ {l}]
    /\ read' = [read EXCEPT ![m] = l.seen]
    /\ field' = [field EXCEPT ![m] = l.seen]
    /\ UNCHANGED <<target, confirming, request, acts>> /\ Other

LoadFails(m, l) ==
    /\ l \in loads[m]
    /\ loads' = [loads EXCEPT ![m] = @ \ {l}]
    /\ read' = [read EXCEPT ![m] = NoFile]
    /\ UNCHANGED <<target, field, confirming, request, acts>> /\ Other

\* The confirmation is modal.
Usable(m) == read[m] # NoFile /\ confirming[m] = Idle

Edit(m, k, v) ==
    /\ Act /\ Usable(m) /\ v # field[m][k]
    /\ field' = [field EXCEPT ![m][k] = v]
    /\ UNCHANGED <<target, read, loads, confirming, request>> /\ Other

Asking(m) == [at |-> "posted", file |-> target[m], patch |-> Patch(m),
              confirm |-> "auto_switch" \in FormKeys[m] /\ field[m]["auto_switch"] = "on"]

\* Save, with something to send (else the form only says that it is saved); a
\* fallback that switches by itself is confirmed first, with what the form showed
\* then.
Save(m) ==
    /\ Usable(m) /\ request[m].at = "none" /\ Changes(Patch(m)) # {}
    /\ IF Asking(m).confirm
       THEN confirming' = [confirming EXCEPT ![m] = Asking(m)] /\ UNCHANGED request
       ELSE request' = [request EXCEPT ![m] = Asking(m)] /\ UNCHANGED confirming
    /\ UNCHANGED <<target, read, field, loads, acts>> /\ Other

Confirm(m) ==
    /\ confirming[m] # Idle
    /\ confirming' = [confirming EXCEPT ![m] = Idle]
    /\ request' = [request EXCEPT ![m] = confirming[m]]
    /\ UNCHANGED <<target, read, field, loads, acts>> /\ Other

Cancel(m) ==
    /\ confirming[m] # Idle
    /\ confirming' = [confirming EXCEPT ![m] = Idle]
    /\ UNCHANGED <<target, read, field, loads, request, acts>> /\ Other

\* The save ends, or its answer is lost; what was read stays what it was.
Answer(m) ==
    /\ request[m].at \in {"wrote", "refused"}
    /\ request' = [request EXCEPT ![m] = Idle]
    /\ UNCHANGED <<target, read, field, loads, confirming, acts>> /\ Other

---------------------------------------------------------------------------
(* The gateway's write routes.                                             *)

Client == UNCHANGED <<target, read, field, loads, confirming, acts>>

RouteTo(m, s) == request' = [request EXCEPT ![m].at = s]

\* A route of the local config checks the intent.
JudgeLocal(m) ==
    /\ request[m].at = "posted" /\ request[m].file = Local
    /\ RouteTo(m, IF Accepted(request[m].patch) THEN "judged" ELSE "refused")
    /\ Client /\ UNCHANGED <<doc, temporary, copy, name, overlapped, command>>

\* Whether a fallback switches by itself once it is stored: as the patch says,
\* else as the file has it.
Switches(d, p) == (IF "auto_switch" \in Changes(p) THEN p["auto_switch"] ELSE d["auto_switch"]) # "off"

\* The route of an agent's preferences reads the file to learn that.
JudgeAgent(m) ==
    /\ request[m].at = "posted" /\ request[m].file # Local
    /\ LET r == request[m]
       IN  RouteTo(m, IF /\ Accepted(r.patch)
                         /\ "models" \in Changes(r.patch) /\ Switches(doc[r.file], r.patch) => r.confirm
                      THEN "judged" ELSE "refused")
    /\ Client /\ UNCHANGED <<doc, temporary, copy, name, overlapped, command>>

\* Applying it begins with a read of its own.
ReadSource(m) ==
    /\ request[m].at = "judged"
    /\ copy' = [copy EXCEPT ![m] = doc[request[m].file]]
    /\ RouteTo(m, "read")
    /\ Client /\ UNCHANGED <<doc, temporary, name, overlapped, command>>

Between == {"checked", "written"}

Others(m) == {o \in Forms \ {m} : request[o].at \in Between /\ request[o].file = request[m].file}

\* The temporary names a write may get: its own, or that of a write of the same
\* file begun in the same millisecond.
Names(m) == {name[o] : o \in Others(m)}
            \cup {o \in Forms : \A u \in Forms : request[u].at \in Between => name[u] # o}

Begin(m) ==
    /\ request[m].at = "read"
    /\ RouteTo(m, "checked")
    /\ overlapped' = [o \in Forms |-> IF o = m THEN Others(m) # {}
                                      ELSE overlapped[o] \/ o \in Others(m)]
    /\ \E n \in Names(m) : name' = [name EXCEPT ![m] = n]
    /\ Client /\ UNCHANGED <<doc, temporary, copy, command>>

\* Mutant: the write does not compare the file with what it read.
CheckSourceUnchecked(m) == Begin(m)

\* The file must still be what was read.  From here to the rename nothing is
\* checked again.
CheckSource(m) == Begin(m) /\ doc[request[m].file] = copy[m]

WriteTemporary(m) ==
    /\ request[m].at = "checked"
    /\ temporary' = [temporary EXCEPT ![name[m]] = Merged(copy[m], request[m].patch)]
    /\ RouteTo(m, "written")
    /\ Client /\ UNCHANGED <<doc, copy, name, overlapped, command>>

Done(m) ==
    /\ name' = [name EXCEPT ![m] = m]
    /\ copy' = [copy EXCEPT ![m] = NoFile]
    /\ overlapped' = [overlapped EXCEPT ![m] = FALSE]
    /\ UNCHANGED command

\* The rename puts in place whatever the temporary file holds by now.
Rename(m) ==
    /\ request[m].at = "written" /\ temporary[name[m]] # NoFile
    /\ doc' = [doc EXCEPT ![request[m].file] = temporary[name[m]]]
    /\ temporary' = [temporary EXCEPT ![name[m]] = NoFile]
    /\ RouteTo(m, "wrote")
    /\ Client /\ Done(m)

\* The file cannot be read, is not a document, or has changed since it was read;
\* nothing has been written yet.
ReadFails(m) ==
    /\ request[m].at \in {"judged", "read"}
    /\ RouteTo(m, "refused")
    /\ Client /\ UNCHANGED <<doc, temporary>> /\ Done(m)

\* A write, a sync or a rename fails; the temporary file is removed.
WriteFails(m) ==
    /\ request[m].at \in Between
    /\ temporary' = [temporary EXCEPT ![name[m]] = NoFile]
    /\ RouteTo(m, "refused")
    /\ Client /\ UNCHANGED doc /\ Done(m)

---------------------------------------------------------------------------
(* The configure commands.                                                 *)

\* A command reads the local config and asks its questions ...
Configure(k) ==
    /\ command = NoFile /\ Act
    /\ command' = [key |-> k, doc |-> doc[Local]]
    /\ UNCHANGED <<doc, temporary, target, read, field, loads, confirming, request,
                   copy, name, overlapped>>

ConfigureTransport == Configure("bot_token")
ConfigureScheduler == Configure("device_id")

\* What it may be answered: a blank keeps what there is, and a token must be given.
Answers == Valid(command.key) \cup {v \in {command.doc[command.key]} :
                                       v # Missing \/ command.key = "device_id"}

MergedBlock(d, k, v) == [d EXCEPT ![k] = v]

\* ... and writes what it read with its own block replaced, unless cancelled; it
\* does not look again.  It renames a temporary file of its own process.
WriteConfig ==
    /\ command # NoFile
    /\ \E v \in Answers : doc' = [doc EXCEPT ![Local] = MergedBlock(command.doc, command.key, v)]
    /\ command' = NoFile
    /\ overlapped' = [m \in Forms |-> overlapped[m] \/
                          (request[m].at \in Between /\ request[m].file = Local)]
    /\ UNCHANGED <<temporary, target, read, field, loads, confirming, request,
                   copy, name, acts>>

CancelConfigure ==
    /\ command # NoFile
    /\ command' = NoFile
    /\ UNCHANGED <<doc, temporary, target, read, field, loads, confirming, request,
                   copy, name, overlapped, acts>>

SettingsNext ==
    \/ \E m \in Forms, f \in Files : Load(m, f)
    \/ \E m \in Forms : \E l \in loads[m] : ServeLoad(m, l) \/ Fill(m, l) \/ LoadFails(m, l)
    \/ \E m \in Forms : \E k \in FormKeys[m] : \E v \in Typed(k) : Edit(m, k, v)
    \/ \E m \in Forms : Save(m) \/ Confirm(m) \/ Cancel(m) \/ Answer(m)
    \/ \E m \in Forms : JudgeLocal(m) \/ JudgeAgent(m) \/ ReadSource(m) \/ ReadFails(m) \/ CheckSource(m)
                        \/ WriteTemporary(m) \/ Rename(m) \/ WriteFails(m)
    \/ ConfigureTransport \/ ConfigureScheduler \/ WriteConfig \/ CancelConfigure

SettingsSpec == SettingsInit /\ [][SettingsNext]_settingsVars

---------------------------------------------------------------------------
SettingsTypeOK ==
    /\ \A f \in Files : doc[f] \in Documents(f)
    /\ \A m \in Forms :
           /\ target[m] \in Files \cup {NoFile}
           /\ request[m].at \in {"none", "posted", "judged", "read", "checked", "written",
                                 "wrote", "refused"}
           /\ request[m].file \in Files \cup {NoFile}
    /\ command = NoFile \/ command \in [key : KeysOf(Local), doc : Documents(Local)]

\* A save changes what its form asked for and nothing else: whatever another
\* form, another browser or a command has stored meanwhile stays, unless that
\* write too fell between this one's check and its rename
\* (writeFileAtomicChecked, applyLocalSettingsIntent, applyAgentSettingsIntent).
OnlyAskedChanges ==
    [][\A m \in Forms :
          request[m].at = "written" /\ request'[m].at = "wrote" /\ ~overlapped[m]
            => doc'[request[m].file] = Merged(doc[request[m].file], request[m].patch)]_settingsVars
=============================================================================
