----------------------------- MODULE Setup_proofs -----------------------------
(***************************************************************************)
(* What a steward sets up on a device: the scheduler it runs and the       *)
(* policy a tick reads (SchedulerService), the files of the skill commands *)
(* (Skills), the settings (Settings), the agent groups (AgentGroups), and  *)
(* the vaults and agents themselves (Provisioning); whoever else works on  *)
(* the same files meanwhile, and whatever fails or is killed.              *)
(***************************************************************************)
EXTENDS Skills, SchedulerService, Settings, AgentGroups, Provisioning,
        FiniteSetTheorems, SequenceTheorems, WellFoundedInduction, TLAPS

(* What a tick may do.  A key that loses its meaning never adds to it.       *)

LEMMA ThreeAreAtMostThree == \A a, b, c : Cardinality({a, b, c}) <= 3
<1>. SUFFICES ASSUME NEW a, NEW b, NEW c PROVE Cardinality({a, b, c}) <= 3
  OBVIOUS
<1>1. IsFiniteSet({a}) /\ Cardinality({a}) = 1
  BY FS_Singleton
<1>2. /\ IsFiniteSet({a} \cup {b})
      /\ Cardinality({a} \cup {b}) = 1 \/ Cardinality({a} \cup {b}) = 2
  BY <1>1, FS_AddElement
<1>3. Cardinality(({a} \cup {b}) \cup {c}) <= 3
  BY <1>2, FS_AddElement
<1>4. {a, b, c} = ({a} \cup {b}) \cup {c}
  OBVIOUS
<1>. QED BY <1>3, <1>4

LEMMA FourValues ==
    /\ Absent # Table /\ Absent # Malformed /\ Malformed # Table /\ Absent # Null /\ Null # Malformed
    /\ \A v \in {Absent, Table, Malformed, Null} : v # TRUE
    /\ Malformed \notin SUBSET Runners
<1>1. Cardinality({Absent, Null, Table, Malformed}) = 4
  BY ServiceAssumption
<1>2. \A a, b, c : {Absent, Null, Table, Malformed} # {a, b, c}
  <2>1. SUFFICES ASSUME NEW a, NEW b, NEW c, {Absent, Null, Table, Malformed} = {a, b, c} PROVE FALSE
    OBVIOUS
  <2>2. Cardinality({a, b, c}) = 4
    BY <1>1, <2>1
  <2>3. Cardinality({a, b, c}) <= 3
    BY ThreeAreAtMostThree
  <2>. QED BY <2>2, <2>3
<1>3. {Absent, Null, Table, Malformed} # {Absent, Null, Malformed}
  BY <1>2
<1>4. {Absent, Null, Table, Malformed} # {Absent, Null, Table}
  BY <1>2
<1>5. {Absent, Null, Table, Malformed} # {Absent, Table, Malformed}
  BY <1>2
<1>6. \A v \in {Absent, Null, Table, Malformed} : v # TRUE /\ v \notin SUBSET Runners
  BY ServiceAssumption
<1>7. Absent # Table /\ Absent # Malformed /\ Malformed # Table
  BY <1>3, <1>4, <1>2
<1>8. Absent # Null /\ Null # Malformed
  BY <1>5, <1>4, <1>2
<1>. QED BY <1>6, <1>7, <1>8

\* Which key each part is.
LEMMA PartKinds ==
    ASSUME NEW q \in Parts
    PROVE  \/ q = <<"scheduler">> \/ q = <<"enabled">> \/ q = <<"automation">> \/ q = <<"agent_scope">>
           \/ \E k \in Classes : q = <<"automation", k>>
           \/ \E k \in Classes : q = <<"agent_scope", k>>
           \/ \E k \in Classes, l \in Lists : q = <<"agent_scope", k, l>>
BY DEF Parts

\* A part with another value leaves the others alone.
LEMMA ConfigAt ==
    ASSUME config \in [Parts -> UNION {{config[r]} : r \in Parts}], NEW q \in Parts, NEW v, config' = [config EXCEPT ![q] = v]
    PROVE  \A r \in Parts : config'[r] = IF r = q THEN v ELSE config[r]
OBVIOUS


\* What a tick may do, in one piece.
MayDo(c, a, force) ==
    /\ ~Gated
    /\ ClassOn(c) \/ (force /\ c = "inbox")
    /\ a \in ScopeOf(c)

LEMMA ResolvedIs == \A force \in BOOLEAN : Resolved(force) = {w \in Classes \X Runners : MayDo(w[1], w[2], force)}
BY DEF Resolved, MayDo

ConfigHasParts == config = [q \in Parts |-> config[q]]

\* Malformed content is read as content that allows nothing.
LEMMA OneEditNarrows ==
    ASSUME ConfigHasParts, NEW q \in Parts, config[q] # Malformed,
           config' = [config EXCEPT ![q] = Malformed],
           NEW force \in BOOLEAN, q = <<"scheduler">> => ~force,
           NEW c \in Classes, NEW a \in Runners, MayDo(c, a, force)'
    PROVE  MayDo(c, a, force)
<1>1. \A r \in Parts : config'[r] = IF r = q THEN Malformed ELSE config[r]
  BY DEF ConfigHasParts
<1>2. /\ <<"scheduler">> \in Parts /\ <<"enabled">> \in Parts /\ <<"automation">> \in Parts
      /\ <<"agent_scope">> \in Parts
      /\ <<"automation", c>> \in Parts /\ <<"agent_scope", c>> \in Parts
      /\ \A l \in Lists : <<"agent_scope", c, l>> \in Parts
  BY DEF Parts
<1>3. q # <<"scheduler">>
  BY <1>1, <1>2, FourValues DEF MayDo, Gated, ClassOn, Value
<1>4. \A r \in Parts : (q = r /\ config[<<"scheduler">>] = Table => Value(r)' = Malformed)
                       /\ (q # r \/ config[<<"scheduler">>] # Table => Value(r)' = Value(r))
  BY <1>1, <1>2, <1>3 DEF Value
<1>5. q # <<"enabled">> \/ config[<<"scheduler">>] # Table
  BY <1>4, <1>2, FourValues DEF MayDo, Gated
<1>6. ~Gated
  BY <1>4, <1>5, <1>2 DEF MayDo, Gated
<1>7. ClassOn(c) \/ (force /\ c = "inbox")
  BY <1>4, <1>2, FourValues DEF MayDo, ClassOn
<1>8. a \in ScopeOf(c)
  <2>1. /\ Value(<<"agent_scope">>)' # Malformed
        /\ Value(<<"agent_scope">>)' # Absent => /\ Value(<<"agent_scope", c>>)' # Malformed
                                                 /\ Value(<<"agent_scope", c>>)' # Absent =>
                                                       \A l \in Lists : Listed(c, l)' # Malformed
    <3>1. a \in ScopeOf(c)'
      BY DEF MayDo
    <3>2. Value(<<"agent_scope">>)' # Malformed
      BY <3>1, FourValues DEF ScopeOf
    <3>3. ASSUME Value(<<"agent_scope">>)' # Absent
          PROVE  Value(<<"agent_scope", c>>)' # Malformed
      BY <3>1, <3>2, <3>3, FourValues DEF ScopeOf
    <3>4. ASSUME Value(<<"agent_scope">>)' # Absent, Value(<<"agent_scope", c>>)' # Absent, NEW l \in Lists
          PROVE  Listed(c, l)' # Malformed
      BY <3>1, <3>2, <3>3, <3>4, FourValues DEF ScopeOf
    <3>. QED BY <3>2, <3>3, <3>4
  <2>2. /\ Value(<<"agent_scope">>)' = Value(<<"agent_scope">>)
        /\ Value(<<"agent_scope">>) # Absent => /\ Value(<<"agent_scope", c>>)' = Value(<<"agent_scope", c>>)
                                                /\ Value(<<"agent_scope", c>>) # Absent =>
                                                      \A l \in Lists : Listed(c, l)' = Listed(c, l)
    <3>1. Value(<<"agent_scope">>)' = Value(<<"agent_scope">>)
      BY <2>1, <1>4, <1>2
    <3>2. ASSUME Value(<<"agent_scope">>) # Absent
          PROVE  Value(<<"agent_scope", c>>)' = Value(<<"agent_scope", c>>)
      BY <2>1, <3>1, <3>2, <1>4, <1>2
    <3>3. ASSUME Value(<<"agent_scope">>) # Absent, Value(<<"agent_scope", c>>) # Absent, NEW l \in Lists
          PROVE  Listed(c, l)' = Listed(c, l)
      <4>1. Listed(c, l)' # Malformed
        BY <2>1, <3>1, <3>2, <3>3
      <4>2. <<"agent_scope", c, l>> \in Parts
        BY <1>2
      <4>. QED BY <4>1, <4>2, <1>4 DEF Listed
    <3>. QED BY <3>1, <3>2, <3>3
  <2>3. a \in ScopeOf(c)'
    BY DEF MayDo
  <2>4. CASE Value(<<"agent_scope">>) = Absent
    BY <2>4, FourValues DEF ScopeOf
  <2>5. CASE Value(<<"agent_scope">>) # Absent /\ Value(<<"agent_scope", c>>) = Absent
    BY <2>5, <2>1, <2>2, FourValues DEF ScopeOf
  <2>6. CASE Value(<<"agent_scope">>) # Absent /\ Value(<<"agent_scope", c>>) # Absent
    <3>1. /\ Listed(c, "allow")' = Listed(c, "allow") /\ Listed(c, "exclude")' = Listed(c, "exclude")
          /\ \A l \in Lists : Listed(c, l)' # Malformed /\ Listed(c, l) # Malformed
      BY <2>6, <2>1, <2>2 DEF Lists
    <3>. QED BY <3>1, <2>6, <2>1, <2>2, <2>3 DEF ScopeOf
  <2>. QED BY <2>4, <2>5, <2>6
<1>. QED BY <1>6, <1>7, <1>8 DEF MayDo


LEMMA OneEditFailsClosed ==
    ASSUME ConfigHasParts, NEW q \in Parts, NEW v, config' = [config EXCEPT ![q] = v]
    PROVE  /\ ConfigHasParts'
           /\ \A part \in Parts, force \in BOOLEAN :
                 (config[part] # Malformed /\ config'[part] = Malformed /\ (part = <<"scheduler">> => ~force))
                     => Resolved(force)' \subseteq Resolved(force)
<1>1. ConfigHasParts'
  BY DEF ConfigHasParts
<1>2. ASSUME NEW part \in Parts, NEW force \in BOOLEAN,
             config[part] # Malformed, config'[part] = Malformed, part = <<"scheduler">> => ~force
      PROVE  Resolved(force)' \subseteq Resolved(force)
  <2>1. part = q /\ v = Malformed
    BY <1>2 DEF ConfigHasParts
  <2>2. \A c \in Classes, a \in Runners : MayDo(c, a, force)' => MayDo(c, a, force)
    BY <1>2, <2>1, OneEditNarrows
  <2>3. ASSUME NEW w \in Resolved(force)' PROVE w \in Resolved(force)
    <3>1. w \in Classes \X Runners /\ MayDo(w[1], w[2], force)'
      BY <2>3 DEF Resolved, MayDo
    <3>2. w[1] \in Classes /\ w[2] \in Runners
      BY <3>1
    <3>3. MayDo(w[1], w[2], force)
      BY <2>2, <3>1, <3>2
    <3>. QED BY <3>1, <3>3, ResolvedIs
  <2>. QED BY <2>3
<1>. QED BY <1>1, <1>2

LEMMA OthersKeepConfig == ASSUME ServiceNext PROVE UNCHANGED config \/ \E part \in Parts : EditConfig(part)
BY Zenon DEF ServiceNext, BeginTick, EndTick, Sleep, Wake, EndLoop, Signal, Dies, RunByHand, BeginService, WriteFile, DeleteFile,
   CopyUnit, Harmless, Enable, Disable, Start, Stop, Stopped, Launch, KillSession, MergeCrontab, FilterCrontab,
   StepFails, Report, CommandKilled, Reboot, KeepRest, NextStep

\* Content that has no meaning never lets a tick do more than before it was
\* there (resolveSchedulerPolicy and what reads the scheduler block), whatever
\* agents and classes there are.
THEOREM MalformedNarrows == ServiceSpec => FailClosed
<1>1. ServiceInit => ConfigHasParts
  BY DEF ServiceInit, FullConfig, ConfigHasParts
<1>2. ConfigHasParts /\ [ServiceNext]_serviceVars => ConfigHasParts'
  <2>1. ASSUME ConfigHasParts, NEW part \in Parts, EditConfig(part) PROVE ConfigHasParts'
    BY <2>1, OneEditFailsClosed DEF EditConfig
  <2>2. ASSUME ConfigHasParts, UNCHANGED config PROVE ConfigHasParts'
    BY <2>2 DEF ConfigHasParts
  <2>. QED BY <2>1, <2>2, OthersKeepConfig DEF serviceVars
<1>3. ConfigHasParts /\ [ServiceNext]_serviceVars => [NarrowsIfMalformed]_serviceVars
  <2>1. ASSUME ConfigHasParts, NEW q \in Parts, EditConfig(q) PROVE NarrowsIfMalformed
    BY <2>1, OneEditFailsClosed DEF EditConfig, NarrowsIfMalformed
  <2>2. ASSUME UNCHANGED config PROVE NarrowsIfMalformed
    BY <2>2 DEF NarrowsIfMalformed
  <2>. QED BY <2>1, <2>2, OthersKeepConfig DEF serviceVars
<1>. QED BY <1>1, <1>2, <1>3, PTL DEF ServiceSpec, FailClosed

-----------------------------------------------------------------------------
(* What a finished service command reported.  The steps ahead of a command   *)
(* belong to its own manager, and each result an install or a removal        *)
(* promises is there, ahead, or given up with an error.                      *)

ServiceActions == {"install", "remove", "start", "stop", "restart"}

Steps == {"write_unit", "copy", "reload", "enable", "start", "write_script", "write_fragment", "chmod", "launch",
          "merge", "stop", "disable", "rm", "delete_unit", "kill", "filter", "delete_script", "delete_fragment",
          "restart", "await"}

Commands == [action : ServiceActions \cup {"none"}, manager : Managers, todo : Seq(Steps), errors : BOOLEAN]

ServiceTypes ==
    /\ svc \in Commands
    /\ promised \subseteq Managers /\ gone \subseteq Managers
    /\ enabled \in BOOLEAN /\ boot \in BOOLEAN
    /\ svc = NoService \/ svc.action \in ServiceActions

Ahead(todo, step) == \E i \in 1..Len(todo) : todo[i] = step

Fits(todo, action, m) ==
    /\ \A step \in {"rm", "disable", "delete_unit"} : Ahead(todo, step) => action = "remove" /\ m = "systemd"
    /\ \A step \in {"filter", "delete_script", "delete_fragment"} : Ahead(todo, step) => action = "remove" /\ m = "tmux"
    /\ \A step \in {"write_unit", "copy", "enable"} : Ahead(todo, step) => action = "install" /\ m = "systemd"
    /\ \A step \in {"write_script", "write_fragment", "merge"} : Ahead(todo, step) => action = "install" /\ m = "tmux"
    /\ \A i, j \in 1..Len(todo) : todo[i] = "merge" /\ todo[j] = "write_fragment" => j < i

Told ==
    /\ "systemd" \in promised => enabled /\ "link" \in files
    /\ "tmux" \in promised => boot /\ "script" \in files
    /\ "systemd" \in gone => "link" \notin files
    /\ "tmux" \in gone => "script" \notin files

Untold == svc.action \in {"install", "remove"} => svc.manager \notin promised \cup gone

Installing ==
    svc.action = "install" /\ ~svc.errors =>
        /\ svc.manager = "systemd" => /\ "link" \in files \/ Ahead(svc.todo, "copy")
                                      /\ enabled \/ Ahead(svc.todo, "enable")
        /\ svc.manager = "tmux" => /\ "script" \in files \/ Ahead(svc.todo, "write_script")
                                   /\ "fragment" \in files \/ Ahead(svc.todo, "write_fragment")
                                   /\ boot \/ Ahead(svc.todo, "merge")

Removing ==
    svc.action = "remove" /\ ~svc.errors =>
        /\ svc.manager = "systemd" => "link" \notin files \/ Ahead(svc.todo, "rm")
        /\ svc.manager = "tmux" => "script" \notin files \/ Ahead(svc.todo, "delete_script")

ServiceInv == ServiceTypes /\ Fits(svc.todo, svc.action, svc.manager) /\ Told /\ Untold /\ Installing /\ Removing

LEMMA ShortSequences ==
    ASSUME NEW S, NEW a \in S, NEW b \in S, NEW c \in S, NEW d \in S, NEW e \in S
    PROVE  /\ <<a>> \in Seq(S) /\ <<a, b>> \in Seq(S)
           /\ <<a, b, c, d>> \in Seq(S) /\ <<a, b, c, d, e>> \in Seq(S)
OBVIOUS

LEMMA AheadOfFive ==
    \A a, b, c, d, e, step : Ahead(<<a, b, c, d, e>>, step) <=> step \in {a, b, c, d, e}
BY DEF Ahead

LEMMA AheadOfFour == \A a, b, c, d, step : Ahead(<<a, b, c, d>>, step) <=> step \in {a, b, c, d}
BY DEF Ahead

LEMMA AheadOfTwo ==
    /\ \A a, b, step : Ahead(<<a, b>>, step) <=> step \in {a, b}
    /\ \A a, step : Ahead(<<a>>, step) <=> step = a
BY DEF Ahead

LEMMA PlansFit ==
    ASSUME NEW action \in ServiceActions, NEW m \in Managers
    PROVE  /\ PlanOf(action, m) \in Seq(Steps)
           /\ Fits(PlanOf(action, m), action, m)
           /\ action = "install" /\ m = "systemd" => Ahead(PlanOf(action, m), "copy") /\ Ahead(PlanOf(action, m), "enable")
           /\ action = "install" /\ m = "tmux" =>
                 \A step \in {"write_script", "write_fragment", "merge"} : Ahead(PlanOf(action, m), step)
           /\ action = "remove" /\ m = "systemd" => Ahead(PlanOf(action, m), "rm")
           /\ action = "remove" /\ m = "tmux" => Ahead(PlanOf(action, m), "delete_script")
<1>1. CASE action = "install" /\ m = "systemd"
  <2>1. PlanOf(action, m) = <<"write_unit", "copy", "reload", "enable", "start">>
    BY <1>1 DEF PlanOf, InstallPlan
  <2>2. \A i, j \in 1..Len(PlanOf(action, m)) :
           PlanOf(action, m)[i] = "merge" /\ PlanOf(action, m)[j] = "write_fragment" => j < i
    BY <2>1
  <2>3. PlanOf(action, m) \in Seq(Steps)
    BY <2>1, ShortSequences DEF Steps
  <2>4. \A step : Ahead(PlanOf(action, m), step) <=> step \in {"write_unit", "copy", "reload", "enable", "start"}
    BY <2>1, AheadOfFive
  <2>. QED BY <1>1, <2>2, <2>3, <2>4 DEF Fits
<1>2. CASE action = "install" /\ m = "tmux"
  <2>1. PlanOf(action, m) = <<"write_script", "write_fragment", "chmod", "launch", "merge">>
    BY <1>2 DEF PlanOf, InstallPlan
  <2>2. \A i, j \in 1..Len(PlanOf(action, m)) :
           PlanOf(action, m)[i] = "merge" /\ PlanOf(action, m)[j] = "write_fragment" => j < i
    BY <2>1
  <2>3. PlanOf(action, m) \in Seq(Steps)
    BY <2>1, ShortSequences DEF Steps
  <2>4. \A step : Ahead(PlanOf(action, m), step) <=> step \in {"write_script", "write_fragment", "chmod", "launch", "merge"}
    BY <2>1, AheadOfFive
  <2>. QED BY <1>2, <2>2, <2>3, <2>4 DEF Fits
<1>3. CASE action = "remove" /\ m = "systemd"
  <2>1. PlanOf(action, m) = <<"stop", "disable", "rm", "reload", "delete_unit">>
    BY <1>3 DEF PlanOf, RemovePlan
  <2>2. \A i, j \in 1..Len(PlanOf(action, m)) :
           PlanOf(action, m)[i] = "merge" /\ PlanOf(action, m)[j] = "write_fragment" => j < i
    BY <2>1
  <2>3. PlanOf(action, m) \in Seq(Steps)
    BY <2>1, ShortSequences DEF Steps
  <2>4. \A step : Ahead(PlanOf(action, m), step) <=> step \in {"stop", "disable", "rm", "reload", "delete_unit"}
    BY <2>1, AheadOfFive
  <2>. QED BY <1>3, <2>2, <2>3, <2>4 DEF Fits
<1>4. CASE action = "remove" /\ m = "tmux"
  <2>1. PlanOf(action, m) = <<"kill", "filter", "delete_script", "delete_fragment">>
    BY <1>4 DEF PlanOf, RemovePlan
  <2>2. \A i, j \in 1..Len(PlanOf(action, m)) :
           PlanOf(action, m)[i] = "merge" /\ PlanOf(action, m)[j] = "write_fragment" => j < i
    BY <2>1
  <2>3. PlanOf(action, m) \in Seq(Steps)
    BY <2>1, ShortSequences DEF Steps
  <2>4. \A step : Ahead(PlanOf(action, m), step) <=> step \in {"kill", "filter", "delete_script", "delete_fragment"}
    BY <2>1, AheadOfFour
  <2>. QED BY <1>4, <2>2, <2>3, <2>4 DEF Fits
<1>5. CASE action \notin {"install", "remove"}
  <2>1. \/ PlanOf(action, m) = <<"start">> \/ PlanOf(action, m) = <<"stop">> \/ PlanOf(action, m) = <<"restart">>
        \/ PlanOf(action, m) = <<"launch">> \/ PlanOf(action, m) = <<"kill">>
        \/ PlanOf(action, m) = <<"kill", "launch">>
    BY <1>5 DEF PlanOf, ControlPlan, ServiceActions, Managers
  <2>2. \A i, j \in 1..Len(PlanOf(action, m)) :
           PlanOf(action, m)[i] = "merge" /\ PlanOf(action, m)[j] = "write_fragment" => j < i
    BY <2>1
  <2>3. PlanOf(action, m) \in Seq(Steps)
    <3>1. \A a \in Steps, b \in Steps : <<a>> \in Seq(Steps) /\ <<a, b>> \in Seq(Steps)
      BY ShortSequences
    <3>2. {"start", "stop", "restart", "launch", "kill"} \subseteq Steps
      BY DEF Steps
    <3>. QED BY <2>1, <3>1, <3>2
  <2>4. \A step : Ahead(PlanOf(action, m), step) => step \in {"start", "stop", "restart", "launch", "kill"}
    BY <2>1, AheadOfTwo
  <2>. QED BY <1>5, <2>2, <2>3, <2>4 DEF Fits
<1>. QED BY <1>1, <1>2, <1>3, <1>4, <1>5 DEF Managers

\* What is ahead of a command after its next step.
LEMMA OneLess ==
    ASSUME NEW todo \in Seq(Steps), todo # <<>>
    PROVE  /\ Tail(todo) \in Seq(Steps)
           /\ Head(todo) \in Steps
           /\ Ahead(todo, Head(todo))
           /\ \A step : Ahead(Tail(todo), step) => Ahead(todo, step)
           /\ \A step : Ahead(todo, step) => step = Head(todo) \/ Ahead(Tail(todo), step)
           /\ \A action, m : Fits(todo, action, m) => Fits(Tail(todo), action, m)
           /\ \A action, m : Fits(todo, action, m) /\ Head(todo) = "merge" => ~Ahead(todo, "write_fragment")
<1>1. /\ Tail(todo) \in Seq(Steps) /\ Len(Tail(todo)) = Len(todo) - 1 /\ Len(todo) \in Nat \ {0}
      /\ \A i \in 1..Len(Tail(todo)) : Tail(todo)[i] = todo[i + 1]
      /\ Head(todo) = todo[1] /\ todo[1] \in Steps
  OBVIOUS
<1>2. \A step : Ahead(Tail(todo), step) => Ahead(todo, step)
  BY <1>1 DEF Ahead
<1>3. ASSUME NEW step, Ahead(todo, step) PROVE step = Head(todo) \/ Ahead(Tail(todo), step)
  <2>1. PICK i \in 1..Len(todo) : todo[i] = step
    BY <1>3 DEF Ahead
  <2>2. CASE i = 1
    BY <2>1, <2>2, <1>1
  <2>3. CASE i # 1
    <3>1. i - 1 \in 1..Len(Tail(todo)) /\ Tail(todo)[i - 1] = todo[i]
      BY <2>3, <1>1
    <3>. QED BY <3>1, <2>1 DEF Ahead
  <2>. QED BY <2>2, <2>3
<1>4. Ahead(todo, Head(todo))
  BY <1>1 DEF Ahead
<1>5. ASSUME NEW action, NEW m, Fits(todo, action, m) PROVE Fits(Tail(todo), action, m)
  <2>1. ASSUME NEW i \in 1..Len(Tail(todo)), NEW j \in 1..Len(Tail(todo)),
               Tail(todo)[i] = "merge", Tail(todo)[j] = "write_fragment"
        PROVE  j < i
    <3>1. /\ i + 1 \in 1..Len(todo) /\ todo[i + 1] = "merge"
          /\ j + 1 \in 1..Len(todo) /\ todo[j + 1] = "write_fragment"
      BY <1>1, <2>1
    <3>2. j + 1 < i + 1
      BY <3>1, <1>5 DEF Fits
    <3>. QED BY <3>2
  <2>. QED BY <2>1, <1>2, <1>5 DEF Fits
<1>6. ASSUME NEW action, NEW m, Fits(todo, action, m), Head(todo) = "merge" PROVE ~Ahead(todo, "write_fragment")
  <2>1. SUFFICES ASSUME NEW j \in 1..Len(todo), todo[j] = "write_fragment" PROVE FALSE
    BY DEF Ahead
  <2>2. 1 \in 1..Len(todo) /\ todo[1] = "merge"
    BY <1>1, <1>6
  <2>3. j < 1
    BY <2>1, <2>2, <1>6 DEF Fits
  <2>. QED BY <2>3
<1>. QED BY <1>1, <1>2, <1>3, <1>4, <1>5, <1>6

\* Waiting for systemctl takes the place of the step that asked it.
LEMMA OneWaits ==
    ASSUME NEW todo \in Seq(Steps), todo # <<>>
    PROVE  /\ <<"await">> \o Tail(todo) \in Seq(Steps)
           /\ \A step : Ahead(todo, step) => step = Head(todo) \/ Ahead(<<"await">> \o Tail(todo), step)
           /\ \A action, m : Fits(todo, action, m) => Fits(<<"await">> \o Tail(todo), action, m)
<1>. DEFINE new == <<"await">> \o Tail(todo)
<1>1. /\ new \in Seq(Steps) /\ Len(new) = Len(todo) /\ Len(todo) \in Nat \ {0}
      /\ new[1] = "await" /\ \A i \in 2..Len(todo) : new[i] = todo[i]
      /\ Head(todo) = todo[1]
  <2>1. /\ Tail(todo) \in Seq(Steps) /\ Len(Tail(todo)) = Len(todo) - 1 /\ Len(todo) \in Nat \ {0}
        /\ \A i \in 1..Len(Tail(todo)) : Tail(todo)[i] = todo[i + 1]
        /\ Head(todo) = todo[1]
    OBVIOUS
  <2>2. <<"await">> \in Seq(Steps) /\ Len(<<"await">>) = 1 /\ <<"await">>[1] = "await"
    BY ShortSequences DEF Steps
  <2>3. /\ new \in Seq(Steps) /\ Len(new) = 1 + Len(Tail(todo))
        /\ new[1] = "await"
        /\ \A i \in 2..(1 + Len(Tail(todo))) : new[i] = Tail(todo)[i - 1]
    <3>1. ASSUME NEW t \in Seq(Steps), NEW a \in Seq(Steps), Len(a) = 1
          PROVE  /\ a \o t \in Seq(Steps) /\ Len(a \o t) = 1 + Len(t)
                 /\ (a \o t)[1] = a[1]
                 /\ \A i \in 2..(1 + Len(t)) : (a \o t)[i] = t[i - 1]
      <4>1. Len(t) \in Nat
        BY <3>1
      <4>2. /\ a \o t \in Seq(Steps) /\ Len(a \o t) = Len(a) + Len(t)
            /\ \A i \in 1..(Len(a) + Len(t)) : (a \o t)[i] = IF i <= Len(a) THEN a[i] ELSE t[i - Len(a)]
        BY ConcatProperties
      <4>. QED BY <3>1, <4>1, <4>2
    <3>. QED BY <3>1, <2>1, <2>2
  <2>4. ASSUME NEW i \in 2..Len(todo) PROVE new[i] = todo[i]
    <3>1. i - 1 \in 1..Len(Tail(todo)) /\ (i - 1) + 1 = i /\ i \in 2..(1 + Len(Tail(todo)))
      BY <2>1
    <3>. QED BY <3>1, <2>1, <2>3
  <2>. HIDE DEF new
  <2>. QED BY <2>1, <2>3, <2>4
<1>2. ASSUME NEW step, step # "await", Ahead(new, step) PROVE Ahead(todo, step)
  <2>1. PICK i \in 1..Len(new) : new[i] = step
    BY <1>2 DEF Ahead
  <2>. HIDE DEF new
  <2>2. i \in 2..Len(todo) /\ todo[i] = step
    BY <2>1, <1>1, <1>2
  <2>. QED BY <2>2 DEF Ahead
<1>3. ASSUME NEW step, Ahead(todo, step) PROVE step = Head(todo) \/ Ahead(new, step)
  <2>1. PICK i \in 1..Len(todo) : todo[i] = step
    BY <1>3 DEF Ahead
  <2>. HIDE DEF new
  <2>2. i = 1 \/ (i \in 2..Len(todo) /\ i \in 1..Len(new))
    BY <2>1, <1>1
  <2>. QED BY <2>1, <2>2, <1>1 DEF Ahead
<1>4. ASSUME NEW action, NEW m, Fits(todo, action, m) PROVE Fits(new, action, m)
  <2>. HIDE DEF new
  <2>1. ASSUME NEW i \in 1..Len(new), NEW j \in 1..Len(new), new[i] = "merge", new[j] = "write_fragment"
        PROVE  j < i
    <3>1. /\ i \in 1..Len(todo) /\ todo[i] = "merge"
          /\ j \in 1..Len(todo) /\ todo[j] = "write_fragment"
      BY <1>1, <2>1
    <3>. QED BY <3>1, <1>4 DEF Fits
  <2>. QED BY <2>1, <1>2, <1>4 DEF Fits
<1>. QED BY <1>1, <1>3, <1>4

\* A step is taken: what it leaves of the command.
LEMMA StepTaken ==
    ASSUME ServiceInv, NEW step, Doing(step), svc' = [svc EXCEPT !.todo = Tail(@)]
    PROVE  /\ svc' \in Commands /\ svc'.action = svc.action /\ svc.action \in ServiceActions
           /\ svc'.manager = svc.manager /\ svc'.errors = svc.errors
           /\ Fits(svc'.todo, svc'.action, svc'.manager)
           /\ Ahead(svc.todo, step)
           /\ \A other : other # step /\ Ahead(svc.todo, other) => Ahead(svc'.todo, other)
           /\ step = "merge" => ~Ahead(svc.todo, "write_fragment")
<1>1. /\ svc \in Commands /\ svc.todo \in Seq(Steps) /\ svc.todo # <<>> /\ Head(svc.todo) = step
      /\ svc.action \in ServiceActions /\ Fits(svc.todo, svc.action, svc.manager)
  BY DEF ServiceInv, ServiceTypes, Doing, Commands
<1>2. /\ svc'.todo = Tail(svc.todo) /\ svc'.action = svc.action /\ svc'.manager = svc.manager
      /\ svc'.errors = svc.errors
  BY <1>1 DEF Commands
<1>3. Tail(svc.todo) \in Seq(Steps)
  BY <1>1, OneLess
<1>4. svc' \in Commands
  BY <1>1, <1>3 DEF Commands
<1>. QED BY <1>1, <1>2, <1>4, OneLess

\* What is left of a command that gave up a step, or ended.
LEMMA ServiceInvInit == ServiceInit => ServiceInv
<1>. SUFFICES ASSUME ServiceInit PROVE ServiceInv
  OBVIOUS
<1>1. <<>> \in Seq(Steps)
  OBVIOUS
<1>2. svc \in Commands /\ svc.todo = <<>> /\ svc.action = "none"
  BY <1>1 DEF ServiceInit, NoService, Commands, Managers
<1>3. Fits(<<>>, "none", svc.manager)
  BY DEF Fits, Ahead
<1>. QED BY <1>2, <1>3 DEF ServiceInit, ServiceInv, ServiceTypes, Told, Untold, Installing, Removing, Managers

LEMMA NoCommandFits ==
    /\ NoService \in Commands /\ NoService.action = "none"
    /\ Fits(NoService.todo, NoService.action, NoService.manager)
<1>1. <<>> \in Seq(Steps)
  OBVIOUS
<1>2. Fits(<<>>, "none", "systemd")
  BY DEF Fits, Ahead
<1>. QED BY <1>1, <1>2 DEF NoService, Commands, Managers

\* An action that leaves the files and the command alone.
LEMMA HostOnlyKeeps ==
    ASSUME ServiceInv, UNCHANGED <<files, enabled, boot, svc, promised, gone>>
    PROVE  ServiceInv'
BY DEF ServiceInv, ServiceTypes, Fits, Ahead, Told, Untold, Installing, Removing

LEMMA EndingKeeps ==
    ASSUME ServiceInv, UNCHANGED <<files, enabled, boot, promised, gone>>, svc' = NoService
    PROVE  ServiceInv'
BY NoCommandFits DEF ServiceInv, ServiceTypes, Told, Untold, Installing, Removing

\* A step that only changes the loops.
LEMMA LoopStepKeeps ==
    ASSUME ServiceInv, NEW step \in {"reload", "chmod", "start", "launch", "kill", "await"}, Doing(step),
           NextStep, UNCHANGED <<files, enabled, boot>>
    PROVE  ServiceInv'
<1>1. svc' = [svc EXCEPT !.todo = Tail(@)] /\ UNCHANGED <<promised, gone>>
  BY DEF NextStep
<1>2. /\ svc' \in Commands /\ svc'.action = svc.action /\ svc.action \in ServiceActions
      /\ svc'.manager = svc.manager /\ svc'.errors = svc.errors
      /\ Fits(svc'.todo, svc'.action, svc'.manager)
      /\ \A other : other # step /\ Ahead(svc.todo, other) => Ahead(svc'.todo, other)
  BY <1>1, StepTaken
<1>. QED BY <1>1, <1>2 DEF ServiceInv, ServiceTypes, Told, Untold, Installing, Removing

LEMMA StopKeeps == ASSUME ServiceInv, Stop PROVE ServiceInv'
<1>. DEFINE new == <<"await">> \o Tail(svc.todo)
<1>1. svc' = [svc EXCEPT !.todo = new] /\ UNCHANGED <<files, enabled, boot, promised, gone>>
  BY DEF Stop
<1>2. /\ svc \in Commands /\ svc.todo \in Seq(Steps) /\ svc.todo # <<>> /\ Head(svc.todo) \in {"stop", "restart"}
      /\ svc.action \in ServiceActions /\ Fits(svc.todo, svc.action, svc.manager)
  BY DEF ServiceInv, ServiceTypes, Stop, Doing, Commands
<1>3. /\ new \in Seq(Steps)
      /\ \A step : Ahead(svc.todo, step) => step = Head(svc.todo) \/ Ahead(new, step)
      /\ Fits(new, svc.action, svc.manager)
  BY <1>2, OneWaits
<1>. HIDE DEF new
<1>4. /\ svc' \in Commands /\ svc'.todo = new /\ svc'.action = svc.action /\ svc'.manager = svc.manager
      /\ svc'.errors = svc.errors
  BY <1>1, <1>2, <1>3 DEF Commands
<1>5. \A step \in {"copy", "enable", "write_script", "write_fragment", "merge", "rm", "delete_script"} :
         Ahead(svc.todo, step) => Ahead(svc'.todo, step)
  BY <1>2, <1>3, <1>4
<1>. QED BY <1>1, <1>2, <1>3, <1>4, <1>5 DEF ServiceInv, ServiceTypes, Told, Untold, Installing, Removing

\* A step that changes what is on the disk.
LEMMA DiskStepKeeps ==
    ASSUME ServiceInv, NEW step, Doing(step), NextStep,
           \/ \E w \in Writes : step = w[1] /\ files' = files \cup {w[2]} /\ UNCHANGED <<enabled, boot>>
           \/ \E d \in Deletes : step = d[1] /\ files' = files \ {d[2]} /\ UNCHANGED <<enabled, boot>>
           \/ step = "copy" /\ files' = files \cup {"link"} /\ UNCHANGED <<enabled, boot>>
           \/ step = "enable" /\ enabled' = TRUE /\ UNCHANGED <<files, boot>>
           \/ step = "disable" /\ enabled' = FALSE /\ UNCHANGED <<files, boot>>
           \/ step = "merge" /\ boot' = (boot \/ "fragment" \in files) /\ UNCHANGED <<files, enabled>>
           \/ step = "filter" /\ boot' = FALSE /\ UNCHANGED <<files, enabled>>
    PROVE  ServiceInv'
<1>1. svc' = [svc EXCEPT !.todo = Tail(@)] /\ UNCHANGED <<promised, gone>>
  BY DEF NextStep
<1>2. /\ svc' \in Commands /\ svc'.action = svc.action /\ svc.action \in ServiceActions
      /\ svc'.manager = svc.manager /\ svc'.errors = svc.errors
      /\ Fits(svc'.todo, svc'.action, svc'.manager)
      /\ Ahead(svc.todo, step)
      /\ \A other : other # step /\ Ahead(svc.todo, other) => Ahead(svc'.todo, other)
      /\ step = "merge" => ~Ahead(svc.todo, "write_fragment")
  BY <1>1, StepTaken
<1>3. /\ step \in {"rm", "disable", "delete_unit"} => svc.action = "remove" /\ svc.manager = "systemd"
      /\ step \in {"filter", "delete_script", "delete_fragment"} => svc.action = "remove" /\ svc.manager = "tmux"
      /\ step \in {"write_unit", "copy", "enable"} => svc.action = "install" /\ svc.manager = "systemd"
      /\ step \in {"write_script", "write_fragment", "merge"} => svc.action = "install" /\ svc.manager = "tmux"
  BY <1>2 DEF ServiceInv, Fits
<1>4. ServiceTypes'
  BY <1>1, <1>2 DEF ServiceInv, ServiceTypes
<1>5. Untold'
  BY <1>1, <1>2 DEF ServiceInv, Untold
<1>6. Told'
  BY <1>1, <1>2, <1>3 DEF ServiceInv, ServiceTypes, Told, Untold, Writes, Deletes
<1>7. Installing'
  <2>. SUFFICES ASSUME svc.action = "install", ~svc.errors
                PROVE  /\ svc.manager = "systemd" => /\ "link" \in files' \/ Ahead(svc'.todo, "copy")
                                                     /\ enabled' \/ Ahead(svc'.todo, "enable")
                       /\ svc.manager = "tmux" => /\ "script" \in files' \/ Ahead(svc'.todo, "write_script")
                                                  /\ "fragment" \in files' \/ Ahead(svc'.todo, "write_fragment")
                                                  /\ boot' \/ Ahead(svc'.todo, "merge")
    BY <1>2 DEF Installing
  <2>1. step \notin {"rm", "disable", "delete_unit", "filter", "delete_script", "delete_fragment"}
    BY <1>3
  <2>2. /\ files \subseteq files'
        /\ enabled => enabled'
        /\ boot => boot'
        /\ step = "copy" => "link" \in files'
        /\ step = "enable" => enabled'
        /\ step = "write_script" => "script" \in files'
        /\ step = "write_fragment" => "fragment" \in files'
        /\ step = "merge" /\ "fragment" \in files => boot'
    <3>1. enabled \in BOOLEAN /\ boot \in BOOLEAN
      BY DEF ServiceInv, ServiceTypes
    <3>2. \A d \in Deletes : step # d[1]
      BY <2>1 DEF Deletes
    <3>3. CASE \E w \in Writes : step = w[1] /\ files' = files \cup {w[2]} /\ UNCHANGED <<enabled, boot>>
      BY <3>3 DEF Writes
    <3>4. CASE step = "copy" /\ files' = files \cup {"link"} /\ UNCHANGED <<enabled, boot>>
      BY <3>4
    <3>5. CASE step = "enable" /\ enabled' = TRUE /\ UNCHANGED <<files, boot>>
      BY <3>5
    <3>6. CASE step = "merge" /\ boot' = (boot \/ "fragment" \in files) /\ UNCHANGED <<files, enabled>>
      BY <3>6, <3>1
    <3>. QED BY <2>1, <3>2, <3>3, <3>4, <3>5, <3>6
  <2>3. /\ svc.manager = "systemd" => /\ "link" \in files \/ Ahead(svc.todo, "copy")
                                      /\ enabled \/ Ahead(svc.todo, "enable")
        /\ svc.manager = "tmux" => /\ "script" \in files \/ Ahead(svc.todo, "write_script")
                                   /\ "fragment" \in files \/ Ahead(svc.todo, "write_fragment")
                                   /\ boot \/ Ahead(svc.todo, "merge")
    BY DEF ServiceInv, Installing
  <2>. QED BY <2>2, <2>3, <1>2
<1>8. Removing'
  BY <1>1, <1>2, <1>3 DEF ServiceInv, ServiceTypes, Removing, Writes, Deletes
<1>. QED BY <1>2, <1>4, <1>5, <1>6, <1>7, <1>8 DEF ServiceInv

LEMMA BeginServiceKeeps ==
    ASSUME ServiceInv, NEW action \in ServiceActions, NEW m \in Managers, BeginService(action, m) PROVE ServiceInv'
<1>1. /\ svc' = [action |-> action, manager |-> m, todo |-> PlanOf(action, m), errors |-> FALSE]
      /\ UNCHANGED <<files, enabled, boot>>
      /\ IF action \in {"install", "remove"}
         THEN promised' = promised \ {m} /\ gone' = gone \ {m}
         ELSE UNCHANGED <<promised, gone>>
  BY DEF BeginService, hostVars
<1>2. svc' \in Commands
  BY <1>1, PlansFit DEF Commands
<1>3. Fits(svc'.todo, svc'.action, svc'.manager)
  BY <1>1, PlansFit
<1>4. Installing' /\ Removing'
  BY <1>1, PlansFit DEF Installing, Removing
<1>. QED BY <1>1, <1>2, <1>3, <1>4 DEF ServiceInv, ServiceTypes, Told, Untold

LEMMA StepFailsKeeps == ASSUME ServiceInv, StepFails PROVE ServiceInv'
<1>1. /\ svc' = [svc EXCEPT !.todo = Tail(@), !.errors = @ \/ ~Tolerated(Head(svc.todo))]
      /\ UNCHANGED <<files, enabled, boot, promised, gone>>
  BY DEF StepFails, hostVars
<1>2. /\ svc \in Commands /\ svc.todo \in Seq(Steps) /\ svc.todo # <<>>
      /\ svc.action \in ServiceActions /\ Fits(svc.todo, svc.action, svc.manager)
  BY DEF ServiceInv, ServiceTypes, StepFails, Commands
<1>3. /\ Tail(svc.todo) \in Seq(Steps)
      /\ \A step : Ahead(svc.todo, step) => step = Head(svc.todo) \/ Ahead(Tail(svc.todo), step)
      /\ Fits(Tail(svc.todo), svc.action, svc.manager)
  BY <1>2, OneLess
<1>4. /\ svc'.todo = Tail(svc.todo) /\ svc'.action = svc.action /\ svc'.manager = svc.manager
      /\ svc'.errors = (svc.errors \/ ~Tolerated(Head(svc.todo)))
  BY <1>1, <1>2 DEF Commands
<1>5. svc' \in Commands
  BY <1>1, <1>2, <1>3 DEF Commands
<1>6. Installing'
  BY <1>1, <1>3, <1>4 DEF ServiceInv, Installing, Tolerated
<1>7. Removing'
  BY <1>1, <1>3, <1>4 DEF ServiceInv, Removing, Tolerated
<1>. QED BY <1>1, <1>2, <1>3, <1>4, <1>5, <1>6, <1>7 DEF ServiceInv, ServiceTypes, Told, Untold

LEMMA ReportKeeps == ASSUME ServiceInv, Report PROVE ServiceInv'
<1>1. /\ svc \in Commands /\ svc.todo = <<>> /\ svc.action \in ServiceActions
      /\ UNCHANGED <<files, enabled, boot>> /\ svc' = NoService
  BY DEF ServiceInv, ServiceTypes, Report, hostVars
<1>2. \A step : ~Ahead(svc.todo, step)
  BY <1>1 DEF Ahead
<1>3. Told'
  BY <1>1, <1>2 DEF Report, ServiceInv, Told, Installing, Removing
<1>4. promised' \subseteq Managers /\ gone' \subseteq Managers
  BY <1>1 DEF Report, ServiceInv, ServiceTypes, Commands
<1>. QED BY <1>1, <1>3, <1>4, NoCommandFits DEF ServiceInv, ServiceTypes, Untold, Installing, Removing

LEMMA ServiceInvStep == ASSUME ServiceInv, [ServiceNext]_serviceVars PROVE ServiceInv'
<1>1. CASE UNCHANGED serviceVars
  BY <1>1, HostOnlyKeeps DEF serviceVars
<1>2. CASE \/ \E h \in Hosts : BeginTick(h) \/ EndTick(h) \/ Sleep(h) \/ Wake(h) \/ EndLoop(h) \/ Signal(h) \/ Dies(h)
           \/ \E once, force \in BOOLEAN : RunByHand(once, force)
           \/ \E share \in Parts : EditConfig(share)
  <2>1. UNCHANGED <<files, enabled, boot, svc, promised, gone>>
    BY <1>2, Zenon DEF BeginTick, EndTick, Sleep, Wake, EndLoop, Signal, Dies, RunByHand, EditConfig, KeepRest, hostVars
  <2>. QED BY <2>1, HostOnlyKeeps
<1>3. CASE \E action \in {"install", "remove", "start", "stop", "restart"}, m \in Managers : BeginService(action, m)
  BY <1>3, BeginServiceKeeps DEF ServiceActions
<1>4. CASE WriteFile \/ DeleteFile \/ CopyUnit \/ Enable \/ Disable \/ MergeCrontab \/ FilterCrontab
  <2>1. ASSUME WriteFile \/ DeleteFile PROVE ServiceInv'
    BY <2>1, DiskStepKeeps DEF WriteFile, DeleteFile
  <2>2. ASSUME CopyUnit PROVE ServiceInv'
    BY <2>2, DiskStepKeeps DEF CopyUnit
  <2>3. ASSUME Enable \/ Disable PROVE ServiceInv'
    BY <2>3, DiskStepKeeps DEF Enable, Disable
  <2>4. ASSUME MergeCrontab \/ FilterCrontab PROVE ServiceInv'
    BY <2>4, DiskStepKeeps DEF MergeCrontab, FilterCrontab
  <2>. QED BY <1>4, <2>1, <2>2, <2>3, <2>4
<1>5. CASE Harmless \/ Start \/ Stopped \/ Launch \/ KillSession
  BY <1>5, LoopStepKeeps DEF Harmless, Start, Stopped, Launch, KillSession, hostVars
<1>6. CASE Stop
  BY <1>6, StopKeeps
<1>7. CASE StepFails
  BY <1>7, StepFailsKeeps
<1>8. CASE Report
  BY <1>8, ReportKeeps
<1>9. CASE CommandKilled \/ Reboot
  BY <1>9, EndingKeeps DEF CommandKilled, Reboot, hostVars
<1>. QED BY <1>1, <1>2, <1>3, <1>4, <1>5, <1>6, <1>7, <1>8, <1>9, Zenon DEF ServiceNext

\* What an install or a removal without errors reported stays true, whatever
\* commands follow, fail or are killed, and however often the device is
\* restarted.
THEOREM ReportsStayTrue == ServiceSpec => []ReportedIsSo
<1>1. ServiceInv => ReportedIsSo
  BY DEF ServiceInv, ServiceTypes, Told, ReportedIsSo, StartsAtBoot, Observed, ArtifactExists, Managers
<1>. QED BY <1>1, ServiceInvInit, ServiceInvStep, PTL DEF ServiceSpec

-----------------------------------------------------------------------------

LoopRecords ==
    [at : {"off", "ready", "tick", "ended", "sleep"}, shut : BOOLEAN, again : BOOLEAN, once : BOOLEAN, force : BOOLEAN]

\* One that is off remembers nothing.
Loops == {r \in LoopRecords : r.at = "off" => r = Off}

LoopTypes ==
    /\ loop \in [Hosts -> Loops]
    /\ files \subseteq {"unit", "script", "fragment", "link"}

LEMMA LoopTypesKept == LoopTypes /\ [ServiceNext]_serviceVars => LoopTypes'
<1>. SUFFICES ASSUME LoopTypes, [ServiceNext]_serviceVars PROVE LoopTypes'
  OBVIOUS
<1>1. Off \in Loops /\ FreshLoop \in Loops /\ "systemd" \in Hosts /\ "tmux" \in Hosts /\ "hand" \in Hosts
  BY DEF Off, FreshLoop, Loops, LoopRecords, Hosts, Managers
<1>2. ASSUME NEW h \in Hosts, NEW r \in Loops, Put(h, r) PROVE loop' \in [Hosts -> Loops]
  BY <1>2 DEF LoopTypes, Put
<1>3. \A h \in Hosts : loop[h] \in Loops
  BY DEF LoopTypes
<1>4. ASSUME NEW h \in Hosts, NEW at \in {"ready", "tick", "ended", "sleep"}, To(h, at)
      PROVE loop' \in [Hosts -> Loops]
  <2>1. [loop[h] EXCEPT !.at = at] \in Loops
    BY <1>3 DEF Loops, LoopRecords
  <2>. QED BY <2>1, <1>2, <1>4 DEF To
<1>5. ASSUME NEW h \in Hosts, Exit(h) PROVE loop' \in [Hosts -> Loops]
  <2>1. (IF loop[h].again THEN FreshLoop ELSE Off) \in Loops
    BY <1>1
  <2>. QED BY <2>1, <1>2, <1>5 DEF Exit
<1>6. CASE \E h \in Hosts : BeginTick(h) \/ EndTick(h) \/ Sleep(h) \/ Wake(h) \/ EndLoop(h)
  <2>1. PICK h \in Hosts : BeginTick(h) \/ EndTick(h) \/ Sleep(h) \/ Wake(h) \/ EndLoop(h)
    BY <1>6
  <2>2. files' = files
    BY <2>1 DEF BeginTick, EndTick, Sleep, Wake, EndLoop, KeepRest
  <2>3. \/ To(h, "ended") \/ To(h, "tick") \/ To(h, "sleep") \/ To(h, "ready") \/ Exit(h)
    BY <2>1 DEF BeginTick, EndTick, Sleep, Wake, EndLoop
  <2>. QED BY <2>2, <2>3, <1>4, <1>5 DEF LoopTypes
<1>7. CASE \E h \in Hosts : Signal(h) \/ Dies(h)
  <2>1. PICK h \in Hosts : Signal(h) \/ Dies(h)
    BY <1>7
  <2>2. files' = files
    BY <2>1 DEF Signal, Dies
  <2>3. loop[h].at # "off" => Signalled(loop[h]) \in Loops
    BY <1>1, <1>3 DEF Signalled, Loops, LoopRecords
  <2>4. (IF h = "systemd" /\ (~loop[h].shut \/ loop[h].again) THEN FreshLoop ELSE Off) \in Loops
    BY <1>1
  <2>. QED BY <2>1, <2>2, <2>3, <2>4, <1>2 DEF LoopTypes, Signal, Dies
<1>8. CASE \E once, force \in BOOLEAN : RunByHand(once, force)
  <2>1. PICK once \in BOOLEAN, force \in BOOLEAN : RunByHand(once, force)
    BY <1>8
  <2>2. [FreshLoop EXCEPT !.once = once, !.force = force] \in Loops
    BY DEF Loops, LoopRecords, FreshLoop, Off
  <2>. QED BY <2>1, <2>2, <1>1, <1>2 DEF RunByHand, LoopTypes
<1>9. CASE Start \/ Stop \/ Launch \/ KillSession
  <2>1. files' = files
    BY <1>9 DEF Start, Stop, Launch, KillSession
  <2>2. loop["systemd"].at # "off" => [loop["systemd"] EXCEPT !.shut = TRUE, !.again = Doing("restart")] \in Loops
    BY <1>1, <1>3 DEF Loops, LoopRecords, Doing
  <2>3. (IF loop["systemd"].at = "off" THEN IF Doing("restart") THEN FreshLoop ELSE Off
         ELSE [loop["systemd"] EXCEPT !.shut = TRUE, !.again = Doing("restart")]) \in Loops
    BY <2>2, <1>1
  <2>4. loop' \in [Hosts -> Loops]
    <3>1. CASE Start
      BY <3>1, <1>1, <1>2 DEF Start, LoopTypes
    <3>2. CASE Stop
      BY <3>2, <2>3, <1>1, <1>2 DEF Stop
    <3>3. CASE Launch \/ KillSession
      BY <3>3, <1>1, <1>2 DEF Launch, KillSession
    <3>. QED BY <1>9, <3>1, <3>2, <3>3
  <2>. QED BY <2>1, <2>4 DEF LoopTypes
<1>10. CASE Reboot
  BY <1>10, <1>1 DEF Reboot, LoopTypes
<1>11. CASE WriteFile \/ DeleteFile \/ CopyUnit
  <2>1. loop' = loop
    BY <1>11 DEF WriteFile, DeleteFile, CopyUnit
  <2>2. files' \subseteq {"unit", "script", "fragment", "link"}
    <3>1. CASE WriteFile
      <4>1. PICK w \in Writes : files' = files \cup {w[2]}
        BY <3>1 DEF WriteFile
      <4>2. w[2] \in {"unit", "script", "fragment", "link"}
        BY DEF Writes
      <4>. QED BY <4>1, <4>2 DEF LoopTypes
    <3>2. CASE DeleteFile
      BY <3>2 DEF DeleteFile, LoopTypes
    <3>3. CASE CopyUnit
      BY <3>3 DEF CopyUnit, LoopTypes
    <3>. QED BY <1>11, <3>1, <3>2, <3>3
  <2>. QED BY <2>1, <2>2 DEF LoopTypes
<1>12. CASE UNCHANGED <<loop, files>>
  BY <1>12 DEF LoopTypes
<1>13. CASE \E action \in {"install", "remove", "start", "stop", "restart"}, m \in Managers : BeginService(action, m)
  BY <1>12, <1>13 DEF BeginService, hostVars
<1>14. CASE Harmless \/ Enable \/ Disable \/ Stopped \/ MergeCrontab \/ FilterCrontab
  BY <1>12, <1>14 DEF Harmless, Enable, Disable, Stopped, MergeCrontab, FilterCrontab, hostVars
<1>15. CASE StepFails \/ Report \/ CommandKilled
  BY <1>12, <1>15 DEF StepFails, Report, CommandKilled, hostVars
<1>16. CASE \E part \in Parts : EditConfig(part)
  BY <1>12, <1>16 DEF EditConfig, hostVars
<1>17. CASE UNCHANGED serviceVars
  BY <1>12, <1>17 DEF serviceVars
<1>. QED BY <1>6, <1>7, <1>8, <1>9, <1>10, <1>11, <1>13, <1>14, <1>15, <1>16, <1>17 DEF ServiceNext

\* The variables of the service keep their types; the loop of a host that is off
\* holds nothing, and no manager is reported both as installed and as gone.
THEOREM ServiceIsTyped == ServiceSpec => []ServiceTypeOK
<1>1. ServiceInit => LoopTypes
  BY DEF ServiceInit, LoopTypes, Off, Loops, LoopRecords
<1>2. ServiceInv /\ ReportedIsSo /\ LoopTypes => ServiceTypeOK
  BY DEF ServiceInv, ServiceTypes, ReportedIsSo, LoopTypes, Loops, LoopRecords, ServiceTypeOK
<1>. QED BY <1>1, <1>2, LoopTypesKept, ServiceInvInit, ServiceInvStep, ReportsStayTrue, PTL DEF ServiceSpec

-----------------------------------------------------------------------------
(* The skills.  A text that nobody asked to replace is never only in a       *)
(* temporary file: what a promotion has under way says where it is instead.  *)

AnyText == Texts \cup {Skeleton, Template, NoText}

SkillRuns ==
    [kind : {"none", "create", "move", "import", "promote", "seed"}, from : Scopes, to : Scopes,
     form : {"flat", "dir"}, force : BOOLEAN, hit : BOOLEAN, text : AnyText, was : AnyText,
     at : Ended \cup {"write", "clear", "place", "remove", "backup", "commit", "undo", "unstage", "rollback", "tidy"}]

SkillTypes ==
    /\ active \in [Places -> AnyText] /\ staged \in AnyText
    /\ temp \in [Scopes -> AnyText] /\ bak \in [Scopes -> AnyText]
    /\ skillRun \in SkillRuns
    /\ kept \subseteq Texts

\* Somewhere that is not a temporary file.
Stands(t) == (\E p \in Places : active[p] = t) \/ (\E s \in Scopes : bak[s] = t) \/ staged = t

KeptStands == \A t \in kept : Stands(t)

Target == active[<<skillRun.to, "flat">>]

\* Only what was written outside is imported.
ImportFits == skillRun.kind = "import" => skillRun.text \in Texts

MoveFits ==
    skillRun.kind = "move" =>
        /\ skillRun.at \in {"clear", "place"} => active[<<skillRun.from, skillRun.form>>] \in {skillRun.text, NoText}
        /\ skillRun.at = "remove" => /\ active[<<skillRun.from, "dir">>] = skillRun.text
                                     /\ active[<<skillRun.to, "dir">>] = skillRun.text

PromotionFits ==
    skillRun.kind = "promote" =>
        /\ skillRun.at \in {"backup", "commit", "place", "undo", "unstage", "rollback"} => staged = skillRun.text
        /\ skillRun.at = "backup" => Target = skillRun.was /\ bak[skillRun.to] = NoText
        /\ skillRun.at \in {"commit", "place", "undo"} => Target = NoText
        /\ skillRun.at = "place" => temp[skillRun.to] = skillRun.text
        /\ skillRun.at \in {"unstage", "rollback"} => Target = skillRun.text
        /\ skillRun.at \in {"commit", "place", "undo", "unstage", "rollback"} /\ skillRun.hit =>
              bak[skillRun.to] = skillRun.was
        /\ skillRun.at = "tidy" => bak[skillRun.to] = skillRun.was /\ skillRun.was \notin kept

CommandFits == ImportFits /\ MoveFits /\ PromotionFits

SkillsInv == SkillTypes /\ KeptStands /\ CommandFits

LEMMA ScopesAre ==
    /\ Shared \in Scopes
    /\ \A s \in Scopes, form \in {"flat", "dir"} : <<s, form>> \in Places
    /\ \A p \in Places : \E s \in Scopes, form \in {"flat", "dir"} : p = <<s, form>>
    /\ NoText \notin Texts /\ Skeleton \notin Texts /\ Template \notin Texts
<1>1. Shared \in Scopes
  <2>1. PICK S : GroupScopes \in Seq(S) /\ AgentScopes \in Seq(S)
    <3>. DEFINE S == Elements(GroupScopes) \cup Elements(AgentScopes)
    <3>1. GroupScopes \in Seq(S) /\ AgentScopes \in Seq(S)
      BY SkillsAssumption, SeqMonotonic
    <3>. QED BY <3>1
  <2>2. GroupScopes \o AgentScopes \in Seq(S)
    BY <2>1, ConcatProperties
  <2>. QED BY <2>1 DEF Scopes, ScopeOrder, Elements
<1>. QED BY <1>1, SkillsAssumption DEF Places

LEMMA NoRunIs == /\ NoSkillRun \in SkillRuns /\ NoSkillRun.kind = "none"
                 /\ \A how \in Ended : /\ [NoSkillRun EXCEPT !.at = how] \in SkillRuns
                                       /\ [NoSkillRun EXCEPT !.at = how].kind = "none"
BY ScopesAre DEF NoSkillRun, SkillRuns, AnyText, Ended

\* A command that is over leaves nothing to fit.
LEMMA OverFits ==
    ASSUME NEW how \in Ended, End(how)
    PROVE  skillRun' \in SkillRuns /\ CommandFits'
BY NoRunIs DEF End, CommandFits, ImportFits, MoveFits, PromotionFits

LEMMA GoneOn ==
    ASSUME SkillTypes, NEW at \in {"place", "remove", "commit", "undo", "unstage", "rollback", "tidy"}, Go(at)
    PROVE  /\ skillRun' \in SkillRuns /\ skillRun'.at = at
           /\ skillRun'.kind = skillRun.kind /\ skillRun'.from = skillRun.from /\ skillRun'.to = skillRun.to
           /\ skillRun'.form = skillRun.form /\ skillRun'.hit = skillRun.hit
           /\ skillRun'.text = skillRun.text /\ skillRun'.was = skillRun.was
BY DEF SkillTypes, Go, SkillRuns

LEMMA RunIs ==
    ASSUME SkillTypes
    PROVE  /\ skillRun.from \in Scopes /\ skillRun.to \in Scopes /\ skillRun.form \in {"flat", "dir"}
           /\ <<skillRun.to, "flat">> \in Places /\ <<skillRun.to, "dir">> \in Places
           /\ <<skillRun.from, "flat">> \in Places /\ <<skillRun.from, "dir">> \in Places
           /\ skillRun.text \in AnyText /\ skillRun.was \in AnyText /\ NoText \in AnyText
           /\ Target \in AnyText
BY ScopesAre DEF SkillTypes, SkillRuns, AnyText, Target

\* One file written or removed.
LEMMA OneFile ==
    ASSUME SkillTypes, NEW p \in Places, NEW text \in AnyText, active' = [active EXCEPT ![p] = text]
    PROVE  /\ active' \in [Places -> AnyText]
           /\ \A q \in Places : active'[q] = IF q = p THEN text ELSE active[q]
BY DEF SkillTypes

LEMMA OneBackup ==
    ASSUME SkillTypes, NEW s \in Scopes, NEW text \in AnyText, bak' = [bak EXCEPT ![s] = text]
    PROVE  /\ bak' \in [Scopes -> AnyText]
           /\ \A r \in Scopes : bak'[r] = IF r = s THEN text ELSE bak[r]
BY DEF SkillTypes

LEMMA OneTemp ==
    ASSUME SkillTypes, NEW s \in Scopes, NEW text \in AnyText, temp' = [temp EXCEPT ![s] = text]
    PROVE  /\ temp' \in [Scopes -> AnyText]
           /\ \A r \in Scopes : temp'[r] = IF r = s THEN text ELSE temp[r]
BY DEF SkillTypes

LEMMA KeptIs == ASSUME SkillsInv, NEW t \in kept PROVE t # NoText /\ t \in Texts /\ Stands(t)
BY ScopesAre DEF SkillsInv, SkillTypes, KeptStands

LEMMA SkillsInvInit == SkillsInit => SkillsInv
<1>. SUFFICES ASSUME SkillsInit PROVE SkillsInv
  OBVIOUS
<1>1. SkillTypes
  BY NoRunIs, ScopesAre DEF SkillsInit, SkillTypes, AnyText
<1>2. KeptStands
  BY DEF SkillsInit, KeptStands
<1>3. CommandFits
  BY NoRunIs DEF SkillsInit, CommandFits, ImportFits, MoveFits, PromotionFits
<1>. QED BY <1>1, <1>2, <1>3 DEF SkillsInv

LEMMA FilesAloneKeeps ==
    ASSUME SkillsInv, UNCHANGED <<active, staged, temp, bak, kept>>,
           \/ \E how \in Ended : End(how)
           \/ UNCHANGED skillRun
           \/ skillRun' \in SkillRuns /\ CommandFits'
    PROVE  SkillsInv'
<1>1. KeptStands'
  BY DEF SkillsInv, KeptStands, Stands
<1>2. skillRun' \in SkillRuns /\ CommandFits'
  <2>1. ASSUME UNCHANGED skillRun PROVE skillRun' \in SkillRuns /\ CommandFits'
    BY <2>1 DEF SkillsInv, SkillTypes, CommandFits, ImportFits, MoveFits, PromotionFits, Target
  <2>. QED BY <2>1, OverFits
<1>. QED BY <1>1, <1>2 DEF SkillsInv, SkillTypes

LEMMA CommandsBegin ==
    ASSUME SkillsInv,
           \/ \E s \in Scopes, force \in BOOLEAN : CreateSkill(s, force) \/ PromoteStaged(s, force)
           \/ \E from, to \in Scopes, force \in BOOLEAN : MoveSkill(from, to, force)
           \/ \E force \in BOOLEAN : ImportStaged(force)
           \/ SeedSkill
    PROVE  SkillsInv'
<1>0. SkillTypes /\ staged \in AnyText /\ \A p \in Places : active[p] \in AnyText
  BY DEF SkillsInv, SkillTypes
<1>1. UNCHANGED <<active, staged, temp, bak, kept>>
  BY DEF CreateSkill, PromoteStaged, MoveSkill, ImportStaged, SeedSkill, BeginCommand
<1>2. ASSUME NEW s \in Scopes, NEW force \in BOOLEAN, CreateSkill(s, force)
      PROVE  skillRun' \in SkillRuns /\ CommandFits'
  <2>1. /\ skillRun' = [NoSkillRun EXCEPT !.kind = "create", !.to = s, !.force = force, !.at = "write"]
        /\ skillRun'.kind = "create"
    BY <1>2 DEF CreateSkill, BeginCommand, NoSkillRun
  <2>2. skillRun' \in SkillRuns
    BY <2>1, NoRunIs DEF SkillRuns
  <2>. QED BY <2>1, <2>2 DEF CommandFits, ImportFits, MoveFits, PromotionFits
<1>3. ASSUME NEW s \in Scopes, NEW force \in BOOLEAN, PromoteStaged(s, force)
      PROVE  skillRun' \in SkillRuns /\ CommandFits'
  <2>. DEFINE dest == active[<<s, "flat">>]
              new == [NoSkillRun EXCEPT !.kind = "promote", !.to = s, !.force = force, !.hit = dest # NoText,
                           !.text = staged, !.was = dest,
                           !.at = IF dest # NoText THEN "backup" ELSE "commit"]
  <2>1. skillRun' = new /\ NoArtifacts(s) /\ dest \in AnyText
    BY <1>0, <1>3, ScopesAre DEF PromoteStaged, BeginCommand
  <2>2. /\ new.kind = "promote" /\ new.to = s /\ new.hit = (dest # NoText) /\ new.text = staged
        /\ new.was = dest /\ new.at = IF dest # NoText THEN "backup" ELSE "commit"
    BY DEF NoSkillRun
  <2>3. new \in SkillRuns
    <3>1. (dest # NoText) \in BOOLEAN
      OBVIOUS
    <3>2. (IF dest # NoText THEN "backup" ELSE "commit") \in {"backup", "commit"}
      OBVIOUS
    <3>3. \A hit \in BOOLEAN, was \in AnyText, at \in {"backup", "commit"} :
             [NoSkillRun EXCEPT !.kind = "promote", !.to = s, !.force = force, !.hit = hit, !.text = staged, !.was = was,
                           !.at = at] \in SkillRuns
      BY <1>0, NoRunIs DEF SkillRuns
    <3>. QED BY <2>1, <3>1, <3>2, <3>3
  <2>4. MoveFits'
    <3>. HIDE DEF new
    <3>. QED BY <2>1, <2>2 DEF MoveFits
  <2>5. Target' = dest /\ UNCHANGED <<staged, bak>>
    BY <1>1, <2>1, <2>2 DEF Target
  <2>6. PromotionFits'
    <3>. HIDE DEF new
    <3>. QED BY <2>1, <2>2, <2>5 DEF PromotionFits, NoArtifacts
  <2>7. ImportFits'
    <3>. HIDE DEF new
    <3>. QED BY <2>1, <2>2 DEF ImportFits
  <2>. QED BY <2>1, <2>3, <2>4, <2>6, <2>7 DEF CommandFits
<1>4. ASSUME NEW from \in Scopes, NEW to \in Scopes, NEW force \in BOOLEAN, MoveSkill(from, to, force)
      PROVE  skillRun' \in SkillRuns /\ CommandFits'
  <2>. DEFINE hit == \E form \in {"flat", "dir"} : active[<<to, form>>] # NoText
              New(form) == [NoSkillRun EXCEPT !.kind = "move", !.from = from, !.to = to, !.form = form, !.force = force,
                               !.hit = hit, !.text = active[<<from, form>>],
                               !.at = IF hit THEN "clear" ELSE "place"]
  <2>1. PICK form \in {"flat", "dir"} : skillRun' = New(form)
    BY <1>4 DEF MoveSkill, BeginCommand
  <2>2. active[<<from, form>>] \in AnyText
    BY <1>0, ScopesAre
  <2>3. /\ New(form).kind = "move" /\ New(form).from = from /\ New(form).form = form
        /\ New(form).text = active[<<from, form>>] /\ New(form).at \in {"clear", "place"}
    BY DEF NoSkillRun
  <2>4. New(form) \in SkillRuns
    <3>1. hit \in BOOLEAN
      OBVIOUS
    <3>. HIDE DEF hit
    <3>. QED BY <2>2, <3>1, NoRunIs, ZenonT(60) DEF SkillRuns
  <2>5. CommandFits'
    <3>. HIDE DEF New
    <3>. QED BY <2>1, <2>3, <1>1 DEF CommandFits, ImportFits, MoveFits, PromotionFits
  <2>. QED BY <2>1, <2>4, <2>5
<1>5. ASSUME NEW force \in BOOLEAN, ImportStaged(force)
      PROVE  skillRun' \in SkillRuns /\ CommandFits'
  <2>1. PICK t \in NewTexts : skillRun' = [NoSkillRun EXCEPT !.kind = "import", !.force = force, !.text = t, !.at = "write"]
    BY <1>5 DEF ImportStaged, BeginCommand
  <2>2. t \in AnyText /\ t \in Texts
    BY DEF NewTexts, AnyText
  <2>3. skillRun'.kind = "import" /\ skillRun'.text = t
    BY <2>1 DEF NoSkillRun
  <2>4. skillRun' \in SkillRuns
    BY <2>1, <2>2, NoRunIs DEF SkillRuns
  <2>. QED BY <2>2, <2>3, <2>4 DEF CommandFits, ImportFits, MoveFits, PromotionFits
<1>6. ASSUME SeedSkill PROVE skillRun' \in SkillRuns /\ CommandFits'
  <2>1. skillRun' = [NoSkillRun EXCEPT !.kind = "seed", !.at = "write"]
    BY <1>6 DEF SeedSkill, BeginCommand
  <2>2. skillRun' \in SkillRuns /\ skillRun'.kind = "seed"
    BY <2>1, NoRunIs DEF SkillRuns, NoSkillRun
  <2>. QED BY <2>2 DEF CommandFits, ImportFits, MoveFits, PromotionFits
<1>. QED BY <1>1, <1>2, <1>3, <1>4, <1>5, <1>6, FilesAloneKeeps

LEMMA WriteSkeletonKeeps == ASSUME SkillsInv, WriteSkeleton PROVE SkillsInv'
<1>. DEFINE p == <<skillRun.to, "flat">>
<1>1. SkillTypes /\ p \in Places /\ Skeleton \in AnyText
  BY RunIs DEF SkillsInv, AnyText
<1>2. /\ active' = [active EXCEPT ![p] = Skeleton] /\ kept' = kept \ {active[p]} /\ End("done")
      /\ UNCHANGED <<staged, temp, bak>>
  BY DEF WriteSkeleton
<1>. HIDE DEF p
<1>3. /\ active' \in [Places -> AnyText]
      /\ \A q \in Places : active'[q] = IF q = p THEN Skeleton ELSE active[q]
  BY <1>1, <1>2, OneFile
<1>4. ASSUME NEW t \in kept' PROVE Stands(t)'
  BY <1>1, <1>2, <1>3, KeptIs DEF Stands
<1>5. skillRun' \in SkillRuns /\ CommandFits'
  BY <1>2, OverFits DEF Ended
<1>. QED BY <1>2, <1>3, <1>4, <1>5 DEF SkillsInv, SkillTypes, KeptStands

LEMMA ClearTargetKeeps == ASSUME SkillsInv, ClearTarget PROVE SkillsInv'
<1>1. SkillTypes /\ NoText \in AnyText
  BY RunIs DEF SkillsInv
<1>2. Go("place") /\ UNCHANGED <<staged, temp, bak>> /\ skillRun.kind = "move" /\ skillRun.at = "clear"
  BY DEF ClearTarget, CommandAt
<1>3. /\ active' \in [Places -> AnyText] /\ kept' \subseteq kept
      /\ \A q \in Places : active'[q] = active[q] \/ (active'[q] = NoText /\ active[q] \notin kept')
  <2>1. ASSUME NEW form \in {"flat", "dir"}, active' = [active EXCEPT ![<<skillRun.to, form>>] = NoText],
               kept' = kept \ {active[<<skillRun.to, form>>]}
        PROVE  /\ active' \in [Places -> AnyText] /\ kept' \subseteq kept
               /\ \A q \in Places : active'[q] = active[q] \/ (active'[q] = NoText /\ active[q] \notin kept')
    <3>1. <<skillRun.to, form>> \in Places
      BY <1>1, RunIs, ScopesAre
    <3>2. /\ active' \in [Places -> AnyText]
          /\ \A q \in Places : active'[q] = IF q = <<skillRun.to, form>> THEN NoText ELSE active[q]
      BY <1>1, <2>1, <3>1, OneFile
    <3>. QED BY <2>1, <3>2
  <2>2. ASSUME UNCHANGED <<active, kept>>
        PROVE  /\ active' \in [Places -> AnyText] /\ kept' \subseteq kept
               /\ \A q \in Places : active'[q] = active[q] \/ (active'[q] = NoText /\ active[q] \notin kept')
    BY <1>1, <2>2 DEF SkillTypes
  <2>. QED BY <2>1, <2>2 DEF ClearTarget
<1>4. ASSUME NEW t \in kept' PROVE Stands(t)'
  BY <1>2, <1>3, KeptIs DEF Stands
<1>5. /\ skillRun' \in SkillRuns /\ skillRun'.at = "place" /\ skillRun'.kind = "move"
      /\ skillRun'.from = skillRun.from /\ skillRun'.form = skillRun.form /\ skillRun'.text = skillRun.text
  BY <1>1, <1>2, GoneOn
<1>6. <<skillRun.from, skillRun.form>> \in Places
  BY <1>1, RunIs, ScopesAre
<1>7. CommandFits'
  BY <1>2, <1>3, <1>5, <1>6 DEF SkillsInv, CommandFits, ImportFits, MoveFits, PromotionFits
<1>8. kept' \subseteq Texts
  BY <1>1, <1>3 DEF SkillTypes
<1>. QED BY <1>1, <1>2, <1>3, <1>4, <1>5, <1>7, <1>8 DEF SkillsInv, SkillTypes, KeptStands

\* Within one scope or between two, the file moves whole.
LEMMA MoveFileKeeps == ASSUME SkillsInv, MoveFile PROVE SkillsInv'
<1>. DEFINE from == <<skillRun.from, "flat">>
            to == <<skillRun.to, "flat">>
<1>1. SkillTypes /\ from \in Places /\ to \in Places
  BY RunIs DEF SkillsInv
<1>2. /\ active' = IF from = to THEN active ELSE [active EXCEPT ![to] = active[from], ![from] = NoText]
      /\ kept' = IF from = to THEN kept ELSE kept \ {active[to]}
      /\ End("done") /\ UNCHANGED <<staged, temp, bak>>
  BY DEF MoveFile
<1>. HIDE DEF from, to
<1>3. /\ active' \in [Places -> AnyText]
      /\ from # to => \A q \in Places : active'[q] = IF q = from THEN NoText ELSE IF q = to THEN active[from] ELSE active[q]
      /\ from = to => active' = active
  BY <1>1, <1>2, RunIs DEF SkillTypes
<1>4. ASSUME NEW t \in kept' PROVE Stands(t)'
  BY <1>1, <1>2, <1>3, KeptIs DEF Stands
<1>5. skillRun' \in SkillRuns /\ CommandFits'
  BY <1>2, OverFits DEF Ended
<1>6. kept' \subseteq Texts
  BY <1>1, <1>2 DEF SkillTypes
<1>. QED BY <1>1, <1>2, <1>3, <1>4, <1>5, <1>6 DEF SkillsInv, SkillTypes, KeptStands

LEMMA CopyDirectoryKeeps == ASSUME SkillsInv, CopyDirectory PROVE SkillsInv'
<1>. DEFINE from == <<skillRun.from, "dir">>
            to == <<skillRun.to, "dir">>
<1>1. SkillTypes /\ from \in Places /\ to \in Places
  BY RunIs DEF SkillsInv
<1>2. /\ active' = [active EXCEPT ![to] = active[from]]
      /\ kept' = kept \ ({active[to]} \ {active[from]})
      /\ Go("remove") /\ UNCHANGED <<staged, temp, bak>>
      /\ active[from] # NoText /\ skillRun.kind = "move" /\ skillRun.at = "place" /\ skillRun.form = "dir"
  BY DEF CopyDirectory, CommandAt
<1>3. active[from] = skillRun.text /\ active[from] \in AnyText
  BY <1>1, <1>2 DEF SkillsInv, SkillTypes, CommandFits, ImportFits, MoveFits
<1>4. /\ skillRun' \in SkillRuns /\ skillRun'.at = "remove" /\ skillRun'.kind = "move"
      /\ skillRun'.from = skillRun.from /\ skillRun'.to = skillRun.to /\ skillRun'.text = skillRun.text
  BY <1>1, <1>2, GoneOn
<1>5. <<skillRun'.from, "dir">> = from /\ <<skillRun'.to, "dir">> = to
  BY <1>4
<1>. HIDE DEF from, to
<1>6. /\ active' \in [Places -> AnyText]
      /\ \A q \in Places : active'[q] = IF q = to THEN active[from] ELSE active[q]
  BY <1>1, <1>2, <1>3, OneFile
<1>7. ASSUME NEW t \in kept' PROVE Stands(t)'
  BY <1>1, <1>2, <1>6, KeptIs DEF Stands
<1>8. CommandFits'
  BY <1>1, <1>3, <1>4, <1>5, <1>6 DEF CommandFits, ImportFits, MoveFits, PromotionFits
<1>9. kept' \subseteq Texts
  BY <1>1, <1>2 DEF SkillTypes
<1>. QED BY <1>1, <1>2, <1>4, <1>6, <1>7, <1>8, <1>9 DEF SkillsInv, SkillTypes, KeptStands

LEMMA RemoveSourceKeeps == ASSUME SkillsInv, RemoveSource PROVE SkillsInv'
<1>. DEFINE from == <<skillRun.from, "dir">>
            to == <<skillRun.to, "dir">>
<1>1. SkillTypes /\ from \in Places /\ to \in Places /\ NoText \in AnyText
  BY RunIs DEF SkillsInv
<1>2. /\ active' = [active EXCEPT ![from] = NoText]
      /\ kept' = IF skillRun.from = skillRun.to THEN kept \ {skillRun.text} ELSE kept
      /\ End("done") /\ UNCHANGED <<staged, temp, bak>>
      /\ skillRun.kind = "move" /\ skillRun.at = "remove"
  BY DEF RemoveSource, CommandAt
<1>3. active[from] = skillRun.text /\ active[to] = skillRun.text
  BY <1>2 DEF SkillsInv, CommandFits, MoveFits
<1>4. from = to => skillRun.from = skillRun.to
  OBVIOUS
<1>. HIDE DEF from, to
<1>5. /\ active' \in [Places -> AnyText]
      /\ \A q \in Places : active'[q] = IF q = from THEN NoText ELSE active[q]
  BY <1>1, <1>2, OneFile
<1>6. ASSUME NEW t \in kept' PROVE Stands(t)'
  BY <1>1, <1>2, <1>3, <1>4, <1>5, KeptIs DEF Stands
<1>7. skillRun' \in SkillRuns /\ CommandFits'
  BY <1>2, OverFits DEF Ended
<1>8. kept' \subseteq Texts
  BY <1>1, <1>2 DEF SkillTypes
<1>. QED BY <1>1, <1>2, <1>5, <1>6, <1>7, <1>8 DEF SkillsInv, SkillTypes, KeptStands

LEMMA StageImportKeeps == ASSUME SkillsInv, StageImport PROVE SkillsInv'
<1>1. /\ SkillTypes /\ staged' = skillRun.text /\ kept' = (kept \ {staged}) \cup {skillRun.text}
      /\ End("done") /\ UNCHANGED <<active, temp, bak>> /\ skillRun.text \in AnyText
      /\ skillRun.kind = "import"
  BY RunIs DEF SkillsInv, StageImport, CommandAt
<1>2. ASSUME NEW t \in kept' PROVE Stands(t)'
  <2>1. CASE t = skillRun.text
    BY <2>1, <1>1 DEF Stands
  <2>2. CASE t # skillRun.text
    BY <2>2, <1>1, KeptIs DEF Stands
  <2>. QED BY <2>1, <2>2
<1>3. skillRun' \in SkillRuns /\ CommandFits'
  BY <1>1, OverFits DEF Ended
<1>4. kept' \subseteq Texts
  BY <1>1 DEF SkillsInv, SkillTypes, CommandFits, ImportFits
<1>. QED BY <1>1, <1>2, <1>3, <1>4 DEF SkillsInv, SkillTypes, KeptStands

LEMMA SetTargetAsideKeeps == ASSUME SkillsInv, SetTargetAside PROVE SkillsInv'
<1>. DEFINE s == skillRun.to
            p == <<skillRun.to, "flat">>
<1>1. /\ SkillTypes /\ s \in Scopes /\ p \in Places /\ NoText \in AnyText /\ active[p] \in AnyText
  BY RunIs DEF SkillsInv, Target
<1>2. /\ bak' = [bak EXCEPT ![s] = active[p]] /\ active' = [active EXCEPT ![p] = NoText]
      /\ Go("commit") /\ UNCHANGED <<staged, temp, kept>>
      /\ skillRun.kind = "promote" /\ skillRun.at = "backup"
  BY DEF SetTargetAside, CommandAt
<1>3. active[p] = skillRun.was /\ bak[s] = NoText /\ staged = skillRun.text
  BY <1>2 DEF SkillsInv, CommandFits, PromotionFits, Target
<1>4. /\ skillRun' \in SkillRuns /\ skillRun'.at = "commit" /\ skillRun'.kind = "promote"
      /\ skillRun'.to = s /\ skillRun'.text = skillRun.text /\ skillRun'.was = skillRun.was
  BY <1>1, <1>2, GoneOn
<1>5. Target' = active'[p]
  BY <1>4 DEF Target
<1>. HIDE DEF s, p
<1>6. /\ active' \in [Places -> AnyText] /\ bak' \in [Scopes -> AnyText]
      /\ \A q \in Places : active'[q] = IF q = p THEN NoText ELSE active[q]
      /\ \A r \in Scopes : bak'[r] = IF r = s THEN active[p] ELSE bak[r]
  BY <1>1, <1>2, OneFile, OneBackup
<1>7. ASSUME NEW t \in kept' PROVE Stands(t)'
  BY <1>1, <1>2, <1>3, <1>6, KeptIs DEF Stands
<1>8. CommandFits'
  BY <1>1, <1>2, <1>3, <1>4, <1>5, <1>6 DEF CommandFits, ImportFits, MoveFits, PromotionFits
<1>. QED BY <1>1, <1>2, <1>4, <1>6, <1>7, <1>8 DEF SkillsInv, SkillTypes, KeptStands

LEMMA WriteTempKeeps == ASSUME SkillsInv, WriteTemp PROVE SkillsInv'
<1>. DEFINE s == skillRun.to
<1>1. /\ SkillTypes /\ s \in Scopes /\ skillRun.text \in AnyText
  BY RunIs DEF SkillsInv
<1>2. /\ temp' = [temp EXCEPT ![s] = skillRun.text]
      /\ Go("place") /\ UNCHANGED <<active, staged, bak, kept>>
      /\ skillRun.kind = "promote" /\ skillRun.at = "commit"
  BY DEF WriteTemp, CommandAt
<1>3. /\ skillRun' \in SkillRuns /\ skillRun'.at = "place" /\ skillRun'.kind = "promote"
      /\ skillRun'.to = s /\ skillRun'.text = skillRun.text /\ skillRun'.was = skillRun.was /\ skillRun'.hit = skillRun.hit
  BY <1>1, <1>2, GoneOn
<1>4. Target' = Target
  BY <1>2, <1>3 DEF Target
<1>. HIDE DEF s
<1>5. temp' \in [Scopes -> AnyText] /\ temp'[s] = skillRun.text
  BY <1>1, <1>2, OneTemp
<1>6. MoveFits'
  BY <1>3 DEF MoveFits
<1>7. PromotionFits'
  BY <1>2, <1>3, <1>4, <1>5 DEF SkillsInv, CommandFits, PromotionFits, s
<1>8. KeptStands'
  BY <1>2 DEF SkillsInv, KeptStands, Stands
<1>9. ImportFits'
  BY <1>3 DEF ImportFits
<1>. QED BY <1>1, <1>2, <1>3, <1>5, <1>6, <1>7, <1>8, <1>9 DEF SkillsInv, SkillTypes, CommandFits

LEMMA PlaceTempKeeps == ASSUME SkillsInv, PlaceTemp PROVE SkillsInv'
<1>. DEFINE s == skillRun.to
            p == <<skillRun.to, "flat">>
<1>1. /\ SkillTypes /\ s \in Scopes /\ p \in Places /\ NoText \in AnyText /\ temp[s] \in AnyText
  BY RunIs DEF SkillsInv, SkillTypes
<1>2. /\ active' = [active EXCEPT ![p] = temp[s]] /\ temp' = [temp EXCEPT ![s] = NoText]
      /\ Go("unstage") /\ UNCHANGED <<staged, bak, kept>>
      /\ skillRun.kind = "promote" /\ skillRun.at = "place"
  BY DEF PlaceTemp, CommandAt
<1>3. /\ active[p] = NoText /\ temp[s] = skillRun.text /\ staged = skillRun.text
      /\ skillRun.hit => bak[s] = skillRun.was
  BY <1>2 DEF SkillsInv, CommandFits, PromotionFits, Target
<1>4. /\ skillRun' \in SkillRuns /\ skillRun'.at = "unstage" /\ skillRun'.kind = "promote" /\ skillRun'.hit = skillRun.hit
      /\ skillRun'.to = s /\ skillRun'.text = skillRun.text /\ skillRun'.was = skillRun.was
  BY <1>1, <1>2, GoneOn
<1>5. Target' = active'[p]
  BY <1>4 DEF Target
<1>. HIDE DEF s, p
<1>6. /\ active' \in [Places -> AnyText] /\ temp' \in [Scopes -> AnyText]
      /\ \A q \in Places : active'[q] = IF q = p THEN temp[s] ELSE active[q]
  BY <1>1, <1>2, OneFile, OneTemp
<1>7. ASSUME NEW t \in kept' PROVE Stands(t)'
  BY <1>1, <1>2, <1>3, <1>6, KeptIs DEF Stands
<1>8. CommandFits'
  BY <1>1, <1>2, <1>3, <1>4, <1>5, <1>6 DEF CommandFits, ImportFits, MoveFits, PromotionFits
<1>. QED BY <1>1, <1>2, <1>4, <1>6, <1>7, <1>8 DEF SkillsInv, SkillTypes, KeptStands

LEMMA FailuresKeep == ASSUME SkillsInv, CommitFails \/ UnstageFails PROVE SkillsInv'
<1>1. PICK at \in {"undo", "rollback"} :
         /\ Go(at) /\ UNCHANGED <<active, staged, temp, bak, kept>>
         /\ skillRun.kind = "promote"
         /\ at = "undo" => skillRun.at \in {"commit", "place"}
         /\ at = "rollback" => skillRun.at = "unstage"
  BY DEF CommitFails, UnstageFails, CommandAt
<1>2. /\ skillRun' \in SkillRuns /\ skillRun'.at = at /\ skillRun'.kind = "promote" /\ skillRun'.hit = skillRun.hit
      /\ skillRun'.to = skillRun.to /\ skillRun'.text = skillRun.text /\ skillRun'.was = skillRun.was
  BY <1>1, GoneOn DEF SkillsInv
<1>3. Target' = Target
  BY <1>1, <1>2 DEF Target
<1>4. CommandFits'
  BY <1>1, <1>2, <1>3 DEF SkillsInv, CommandFits, ImportFits, MoveFits, PromotionFits
<1>. QED BY <1>1, <1>2, <1>4, FilesAloneKeeps

LEMMA UndoKeeps == ASSUME SkillsInv, Undo PROVE SkillsInv'
<1>. DEFINE s == skillRun.to
            p == <<skillRun.to, "flat">>
<1>1. /\ SkillTypes /\ s \in Scopes /\ p \in Places /\ NoText \in AnyText /\ bak[s] \in AnyText
  BY RunIs DEF SkillsInv, SkillTypes
<1>2. /\ temp' \in {temp, [temp EXCEPT ![s] = NoText]}
      /\ UNCHANGED <<staged, kept>>
      /\ \/ active' = [active EXCEPT ![p] = bak[s]] /\ bak' = [bak EXCEPT ![s] = NoText]
         \/ UNCHANGED <<active, bak>>
      /\ \E how \in Ended : End(how)
      /\ active[p] = NoText
  BY DEF Undo, PutBack, CommandAt, SkillsInv, CommandFits, PromotionFits, Target, Ended
<1>. HIDE DEF s, p
<1>3. temp' \in [Scopes -> AnyText]
  BY <1>1, <1>2, OneTemp DEF SkillTypes
<1>4. skillRun' \in SkillRuns /\ CommandFits'
  BY <1>2, OverFits
<1>5. CASE UNCHANGED <<active, bak>>
  <2>1. KeptStands'
    BY <1>2, <1>5 DEF SkillsInv, KeptStands, Stands
  <2>. QED BY <1>1, <1>2, <1>3, <1>4, <1>5, <2>1 DEF SkillsInv, SkillTypes
<1>6. CASE active' = [active EXCEPT ![p] = bak[s]] /\ bak' = [bak EXCEPT ![s] = NoText]
  <2>1. /\ active' \in [Places -> AnyText] /\ bak' \in [Scopes -> AnyText]
        /\ \A q \in Places : active'[q] = IF q = p THEN bak[s] ELSE active[q]
        /\ \A r \in Scopes : bak'[r] = IF r = s THEN NoText ELSE bak[r]
    BY <1>1, <1>6, OneFile, OneBackup
  <2>2. ASSUME NEW t \in kept' PROVE Stands(t)'
    BY <1>1, <1>2, <2>1, KeptIs DEF Stands
  <2>. QED BY <1>1, <1>2, <1>3, <1>4, <2>1, <2>2 DEF SkillsInv, SkillTypes, KeptStands
<1>. QED BY <1>2, <1>5, <1>6

LEMMA RollbackKeeps == ASSUME SkillsInv, Rollback PROVE SkillsInv'
<1>. DEFINE s == skillRun.to
            p == <<skillRun.to, "flat">>
<1>1. /\ SkillTypes /\ s \in Scopes /\ p \in Places /\ NoText \in AnyText /\ bak[s] \in AnyText
  BY RunIs DEF SkillsInv, SkillTypes
<1>2. /\ UNCHANGED <<staged, temp, kept>>
      /\ \/ active' = [active EXCEPT ![p] = bak[s]] /\ bak' = [bak EXCEPT ![s] = NoText]
         \/ active' = [active EXCEPT ![p] = NoText] /\ UNCHANGED bak
         \/ UNCHANGED <<active, bak>>
      /\ \E how \in Ended : End(how)
      /\ active[p] = staged
  BY DEF Rollback, RollsBack, PutBack, CommandAt, SkillsInv, CommandFits, PromotionFits, Target, Ended
<1>. HIDE DEF s, p
<1>4. skillRun' \in SkillRuns /\ CommandFits'
  BY <1>2, OverFits
<1>5. CASE UNCHANGED <<active, bak>>
  BY <1>2, <1>5, FilesAloneKeeps
<1>6. CASE active' = [active EXCEPT ![p] = bak[s]] /\ bak' = [bak EXCEPT ![s] = NoText]
  <2>1. /\ active' \in [Places -> AnyText] /\ bak' \in [Scopes -> AnyText]
        /\ \A q \in Places : active'[q] = IF q = p THEN bak[s] ELSE active[q]
        /\ \A r \in Scopes : bak'[r] = IF r = s THEN NoText ELSE bak[r]
    BY <1>1, <1>6, OneFile, OneBackup
  <2>2. ASSUME NEW t \in kept' PROVE Stands(t)'
    BY <1>1, <1>2, <2>1, KeptIs DEF Stands
  <2>. QED BY <1>1, <1>2, <1>4, <2>1, <2>2 DEF SkillsInv, SkillTypes, KeptStands
<1>7. CASE active' = [active EXCEPT ![p] = NoText] /\ UNCHANGED bak
  <2>1. /\ active' \in [Places -> AnyText]
        /\ \A q \in Places : active'[q] = IF q = p THEN NoText ELSE active[q]
    BY <1>1, <1>7, OneFile
  <2>2. ASSUME NEW t \in kept' PROVE Stands(t)'
    BY <1>1, <1>2, <1>7, <2>1, KeptIs DEF Stands
  <2>. QED BY <1>1, <1>2, <1>4, <1>7, <2>1, <2>2 DEF SkillsInv, SkillTypes, KeptStands
<1>. QED BY <1>2, <1>5, <1>6, <1>7

LEMMA UnstageKeeps == ASSUME SkillsInv, Unstage PROVE SkillsInv'
<1>1. /\ SkillTypes /\ <<skillRun.to, "flat">> \in Places /\ NoText \in AnyText
      /\ staged' = NoText /\ kept' = kept \ {skillRun.was} /\ UNCHANGED <<active, temp, bak>>
      /\ skillRun.kind = "promote" /\ skillRun.at = "unstage"
  BY RunIs DEF SkillsInv, Unstage, CommandAt
<1>2. /\ active[<<skillRun.to, "flat">>] = staged
      /\ skillRun.hit => bak[skillRun.to] = skillRun.was
  BY <1>1 DEF SkillsInv, CommandFits, PromotionFits, Target
<1>3. ASSUME NEW t \in kept' PROVE Stands(t)'
  BY <1>1, <1>2, KeptIs DEF Stands
<1>4. CASE skillRun.hit
  <2>1. /\ skillRun' \in SkillRuns /\ skillRun'.at = "tidy" /\ skillRun'.kind = "promote"
        /\ skillRun'.to = skillRun.to /\ skillRun'.was = skillRun.was
    BY <1>1, <1>4, GoneOn DEF Unstage
  <2>2. CommandFits'
    BY <1>1, <1>2, <1>4, <2>1 DEF CommandFits, ImportFits, MoveFits, PromotionFits
  <2>. QED BY <1>1, <1>3, <2>1, <2>2 DEF SkillsInv, SkillTypes, KeptStands
<1>5. CASE ~skillRun.hit
  <2>1. skillRun' \in SkillRuns /\ CommandFits'
    BY <1>5, OverFits DEF Unstage, Ended
  <2>. QED BY <1>1, <1>3, <2>1 DEF SkillsInv, SkillTypes, KeptStands
<1>. QED BY <1>4, <1>5

LEMMA TidyKeeps == ASSUME SkillsInv, Tidy PROVE SkillsInv'
<1>1. /\ SkillTypes /\ skillRun.to \in Scopes /\ NoText \in AnyText
      /\ bak' \in {bak, [bak EXCEPT ![skillRun.to] = NoText]}
      /\ End("done") /\ UNCHANGED <<active, staged, temp, kept>>
      /\ bak[skillRun.to] = skillRun.was /\ skillRun.was \notin kept
  BY RunIs DEF SkillsInv, Tidy, CommandAt, CommandFits, PromotionFits
<1>2. /\ bak' \in [Scopes -> AnyText]
      /\ \A r \in Scopes : bak'[r] = bak[r] \/ bak[r] \notin kept
  BY <1>1, OneBackup DEF SkillTypes
<1>3. ASSUME NEW t \in kept' PROVE Stands(t)'
  BY <1>1, <1>2, KeptIs DEF Stands
<1>4. skillRun' \in SkillRuns /\ CommandFits'
  BY <1>1, OverFits DEF Ended
<1>. QED BY <1>1, <1>2, <1>3, <1>4 DEF SkillsInv, SkillTypes, KeptStands

LEMMA WriteSeedKeeps == ASSUME SkillsInv, WriteSeed PROVE SkillsInv'
<1>1. /\ SkillTypes /\ SeedTarget \in Places /\ Template \in AnyText
      /\ active[SeedTarget] = NoText /\ active' = [active EXCEPT ![SeedTarget] = Template]
      /\ End("done") /\ UNCHANGED <<staged, temp, bak, kept>>
  BY ScopesAre DEF SkillsInv, WriteSeed, SeedTargetFree, SeedTarget, AnyText
<1>2. /\ active' \in [Places -> AnyText]
      /\ \A q \in Places : active'[q] = IF q = SeedTarget THEN Template ELSE active[q]
  BY <1>1, OneFile
<1>3. ASSUME NEW t \in kept' PROVE Stands(t)'
  BY <1>1, <1>2, KeptIs DEF Stands
<1>4. skillRun' \in SkillRuns /\ CommandFits'
  BY <1>1, OverFits DEF Ended
<1>. QED BY <1>1, <1>2, <1>3, <1>4 DEF SkillsInv, SkillTypes, KeptStands

LEMMA EditsKeep == ASSUME SkillsInv, Edits PROVE SkillsInv'
<1>1. PICK p \in Places, u \in NewTexts :
         active[p] = NoText /\ active' = [active EXCEPT ![p] = u] /\ kept' = kept \cup {u}
  BY DEF Edits
<1>2. /\ SkillTypes /\ u \in Texts /\ u \in AnyText /\ UNCHANGED <<staged, temp, bak, skillRun>>
      /\ skillRun.at \in Ended \/ skillRun.kind = "seed"
  BY DEF SkillsInv, Edits, NewTexts, AnyText
<1>3. /\ active' \in [Places -> AnyText]
      /\ \A q \in Places : active'[q] = IF q = p THEN u ELSE active[q]
  BY <1>1, <1>2, OneFile
<1>4. ASSUME NEW t \in kept' PROVE Stands(t)'
  <2>1. CASE t = u
    BY <2>1, <1>3 DEF Stands
  <2>2. CASE t # u
    BY <2>2, <1>1, <1>2, <1>3, KeptIs DEF Stands
  <2>. QED BY <2>1, <2>2
<1>5. CommandFits'
  BY <1>2 DEF SkillsInv, CommandFits, ImportFits, MoveFits, PromotionFits, Ended
<1>6. kept' \subseteq Texts
  BY <1>1, <1>2 DEF SkillTypes
<1>. QED BY <1>1, <1>2, <1>3, <1>4, <1>5, <1>6 DEF SkillsInv, SkillTypes, KeptStands

LEMMA ClearsUpKeeps == ASSUME SkillsInv, NEW s \in Scopes, ClearsUp(s) PROVE SkillsInv'
<1>. DEFINE p == <<s, "flat">>
<1>1. /\ SkillTypes /\ p \in Places /\ NoText \in AnyText /\ bak[s] \in AnyText
      /\ temp' = [temp EXCEPT ![s] = NoText] /\ UNCHANGED <<staged, skillRun>> /\ skillRun.at \in Ended
  BY ScopesAre DEF SkillsInv, SkillTypes, ClearsUp, AnyText
<1>2. \/ /\ active[p] \in {NoText, staged} /\ UNCHANGED kept
         /\ active' = [active EXCEPT ![p] = bak[s]] /\ bak' = [bak EXCEPT ![s] = NoText]
      \/ bak' = [bak EXCEPT ![s] = NoText] /\ kept' = kept \ {bak[s]} /\ UNCHANGED active
      \/ UNCHANGED <<active, bak, kept>>
  BY DEF ClearsUp, PutBack
<1>. HIDE DEF p
<1>3. temp' \in [Scopes -> AnyText]
  BY <1>1, OneTemp
<1>4. CommandFits'
  BY <1>1 DEF SkillsInv, CommandFits, ImportFits, MoveFits, PromotionFits, Ended
<1>5. CASE /\ active[p] \in {NoText, staged} /\ UNCHANGED kept
           /\ active' = [active EXCEPT ![p] = bak[s]] /\ bak' = [bak EXCEPT ![s] = NoText]
  <2>1. /\ active' \in [Places -> AnyText] /\ bak' \in [Scopes -> AnyText]
        /\ \A q \in Places : active'[q] = IF q = p THEN bak[s] ELSE active[q]
        /\ \A r \in Scopes : bak'[r] = IF r = s THEN NoText ELSE bak[r]
    BY <1>1, <1>5, OneFile, OneBackup
  <2>2. ASSUME NEW t \in kept' PROVE Stands(t)'
    BY <1>1, <1>5, <2>1, KeptIs DEF Stands
  <2>. QED BY <1>1, <1>3, <1>4, <1>5, <2>1, <2>2 DEF SkillsInv, SkillTypes, KeptStands
<1>6. CASE bak' = [bak EXCEPT ![s] = NoText] /\ kept' = kept \ {bak[s]} /\ UNCHANGED active
  <2>1. /\ bak' \in [Scopes -> AnyText]
        /\ \A r \in Scopes : bak'[r] = IF r = s THEN NoText ELSE bak[r]
    BY <1>1, <1>6, OneBackup
  <2>2. ASSUME NEW t \in kept' PROVE Stands(t)'
    BY <1>1, <1>6, <2>1, KeptIs DEF Stands
  <2>3. kept' \subseteq Texts
    BY <1>1, <1>6 DEF SkillTypes
  <2>. QED BY <1>1, <1>3, <1>4, <1>6, <2>1, <2>2, <2>3 DEF SkillsInv, SkillTypes, KeptStands
<1>7. CASE UNCHANGED <<active, bak, kept>>
  <2>1. KeptStands'
    BY <1>1, <1>7 DEF SkillsInv, KeptStands, Stands
  <2>. QED BY <1>1, <1>3, <1>4, <1>7, <2>1 DEF SkillsInv, SkillTypes
<1>. QED BY <1>2, <1>5, <1>6, <1>7

LEMMA SkillsInvStep == ASSUME SkillsInv, [SkillsNext]_skillVars PROVE SkillsInv'
<1>1. CASE UNCHANGED skillVars
  BY <1>1, FilesAloneKeeps DEF skillVars
<1>2. CASE \/ \E s \in Scopes, force \in BOOLEAN : CreateSkill(s, force) \/ PromoteStaged(s, force)
           \/ \E from, to \in Scopes, force \in BOOLEAN : MoveSkill(from, to, force)
           \/ \E force \in BOOLEAN : ImportStaged(force)
           \/ SeedSkill
  BY <1>2, CommandsBegin
<1>3. CASE CommandFails \/ CommandDiesAt
  BY <1>3, FilesAloneKeeps DEF CommandFails, CommandDiesAt, FileFails, Ended
<1>4. CASE \/ WriteSkeleton \/ ClearTarget \/ MoveFile \/ CopyDirectory \/ RemoveSource \/ StageImport
           \/ SetTargetAside \/ WriteTemp \/ PlaceTemp \/ CommitFails \/ Undo \/ Unstage \/ UnstageFails
           \/ Rollback \/ Tidy \/ WriteSeed
  BY <1>4, WriteSkeletonKeeps, ClearTargetKeeps, MoveFileKeeps, CopyDirectoryKeeps, RemoveSourceKeeps,
     StageImportKeeps, SetTargetAsideKeeps, WriteTempKeeps, PlaceTempKeeps, FailuresKeep, UndoKeeps, UnstageKeeps,
     RollbackKeeps, TidyKeeps, WriteSeedKeeps
<1>5. CASE Edits \/ \E s \in Scopes : ClearsUp(s)
  BY <1>5, EditsKeep, ClearsUpKeeps
<1>. QED BY <1>1, <1>2, <1>3, <1>4, <1>5, Zenon DEF SkillsNext

\* A skill that nobody asked to replace is at every moment in a skill's place,
\* staged, or in the file a promotion set aside, and never in a temporary one
\* only, whichever step of whichever command fails or is the last, for any
\* number of scopes and texts.
THEOREM SkillsSurvive == SkillsSpec => []NoSkillLost
<1>1. SkillsInv => NoSkillLost
  BY DEF SkillsInv, KeptStands, Stands, NoSkillLost
<1>. QED BY <1>1, SkillsInvInit, SkillsInvStep, PTL DEF SkillsSpec

-----------------------------------------------------------------------------
(* Which skill is explained.  The place found last among the scopes of an    *)
(* agent is in the scope that the explanation comes to first.                *)

LEMMA LeastIs ==
    ASSUME NEW T \in SUBSET Nat, T # {}
    PROVE  \E m \in T : \A y \in T : m <= y
<1>1. PICK m \in T : \A y \in T : ~ (<<y, m>> \in OpToRel(<, Nat))
  BY NatLessThanWellFounded, WFMin
<1>2. ASSUME NEW y \in T PROVE m <= y
  <2>1. SUFFICES ASSUME y < m PROVE FALSE
    OBVIOUS
  <2>2. <<y, m>> \in {ss \in Nat \X Nat : ss[1] < ss[2]}
    BY <2>1
  <2>3. <<y, m>> \in OpToRel(<, Nat)
    BY <2>2 DEF OpToRel
  <2>. QED BY <1>1, <2>3
<1>. QED BY <1>2

LEMMA MinIs ==
    ASSUME NEW T \in SUBSET Nat, T # {}
    PROVE  Min(T) \in T /\ \A y \in T : Min(T) <= y
BY LeastIs, Zenon DEF Min

LEMMA MaxIs ==
    ASSUME NEW T \in SUBSET Nat, T # {}, NEW b \in Nat, \A x \in T : x <= b
    PROVE  Max(T) \in T /\ \A y \in T : Max(T) >= y
<1>. DEFINE D == {b - x : x \in T}
<1>1. D \in SUBSET Nat /\ D # {}
  <2>1. \A x \in T : x \in Nat /\ b - x \in Nat
    OBVIOUS
  <2>. QED BY <2>1
<1>2. PICK d \in D : \A y \in D : d <= y
  BY <1>1, LeastIs
<1>3. PICK m \in T : d = b - m
  BY <1>2
<1>4. ASSUME NEW y \in T PROVE m >= y
  <2>1. b - y \in D
    OBVIOUS
  <2>. QED BY <1>2, <1>3, <2>1, SMTT(30)
<1>5. \E x \in T : \A y \in T : x >= y
  BY <1>4
<1>. QED BY <1>5, Zenon DEF Max

Half(i) == (i + 1) \div 2

LEMMA HalfIs ==
    ASSUME NEW n \in Nat, NEW i \in 1..(2 * n)
    PROVE  /\ Half(i) \in 1..n
           /\ \/ i = 2 * Half(i) - 1 /\ i % 2 = 1
              \/ i = 2 * Half(i) /\ i % 2 = 0
BY DEF Half

LEMMA AppendedAt ==
    ASSUME NEW V, NEW p \in Seq(V), NEW q \in Seq(V)
    PROVE  /\ Len(p \o q) = Len(p) + Len(q) /\ Len(q) \in Nat /\ DOMAIN (p \o q) = 1..Len(p \o q)
           /\ \A i \in 1..Len(p) : (p \o q)[i] = p[i]
           /\ \A k \in 1..Len(q) : (p \o q)[Len(p) + k] = q[k]
OBVIOUS

\* Where each scope stands.
LEMMA OrderIs ==
    /\ Len(GroupScopes) \in Nat /\ Len(AgentScopes) \in Nat
    /\ Len(ScopeOrder) = 1 + Len(GroupScopes) + Len(AgentScopes)
    /\ DOMAIN ScopeOrder = 1..Len(ScopeOrder)
    /\ DOMAIN GroupScopes = 1..Len(GroupScopes) /\ DOMAIN AgentScopes = 1..Len(AgentScopes)
    /\ ScopeOrder[1] = Shared
    /\ \A g \in 1..Len(GroupScopes) : ScopeOrder[1 + g] = GroupScopes[g]
    /\ \A k \in 1..Len(AgentScopes) : ScopeOrder[1 + Len(GroupScopes) + k] = AgentScopes[k]
<1>1. PICK S : GroupScopes \in Seq(S) /\ AgentScopes \in Seq(S)
  <2>. DEFINE S == Elements(GroupScopes) \cup Elements(AgentScopes)
  <2>1. GroupScopes \in Seq(S) /\ AgentScopes \in Seq(S)
    BY SkillsAssumption, SeqMonotonic
  <2>. QED BY <2>1
<1>2. <<Shared>> \in Seq({Shared} \cup S) /\ GroupScopes \in Seq({Shared} \cup S) /\ AgentScopes \in Seq({Shared} \cup S)
  BY <1>1, SeqMonotonic
<1>. DEFINE T == {Shared} \cup S
            first == <<Shared>> \o GroupScopes
<1>3. <<Shared>> \in Seq(T) /\ GroupScopes \in Seq(T) /\ AgentScopes \in Seq(T)
  BY <1>2
<1>. HIDE DEF T
<1>4. /\ first \in Seq(T) /\ Len(first) = 1 + Len(GroupScopes) /\ Len(GroupScopes) \in Nat
      /\ first[1] = Shared /\ \A g \in 1..Len(GroupScopes) : first[1 + g] = GroupScopes[g]
  BY <1>3
<1>. HIDE DEF first
<1>5. ScopeOrder = first \o AgentScopes
  <2>1. <<Shared>> \o GroupScopes \o AgentScopes = (<<Shared>> \o GroupScopes) \o AgentScopes
    OBVIOUS
  <2>. QED BY <2>1 DEF ScopeOrder, first
<1>6. /\ Len(ScopeOrder) = Len(first) + Len(AgentScopes) /\ Len(AgentScopes) \in Nat
      /\ DOMAIN ScopeOrder = 1..Len(ScopeOrder)
      /\ \A i \in 1..Len(first) : ScopeOrder[i] = first[i]
      /\ \A k \in 1..Len(AgentScopes) : ScopeOrder[Len(first) + k] = AgentScopes[k]
  <2>1. first \in Seq(T) /\ AgentScopes \in Seq(T)
    BY <1>3, <1>4
  <2>. QED BY ONLY <2>1, <1>5, AppendedAt
<1>. QED BY <1>3, <1>4, <1>6

\* A scope stands at one place of the order.
LEMMA OneScopeAt ==
    ASSUME NEW i \in 1..Len(ScopeOrder), NEW j \in 1..Len(ScopeOrder), ScopeOrder[i] = ScopeOrder[j]
    PROVE  i = j
<1>1. i \in DOMAIN ScopeOrder /\ j \in DOMAIN ScopeOrder
  BY OrderIs
<1>. QED BY <1>1, SkillsAssumption

\* The shared scope stands first.
LEMMA SharedIsFirst == 1 \in 1..Len(ScopeOrder) /\ ScopeOrder[1] = Shared
BY OrderIs

\* Where each place stands.
LEMMA PlaceAt ==
    ASSUME NEW i \in Found
    PROVE  /\ i \in 1..(2 * Len(ScopeOrder)) /\ Half(i) \in 1..Len(ScopeOrder) /\ i \in Nat
           /\ i = 2 * Half(i) - 1 \/ i = 2 * Half(i)
           /\ PlaceOrder[i][1] = ScopeOrder[Half(i)]
           /\ i = 2 * Half(i) - 1 => PlaceOrder[i] = <<ScopeOrder[Half(i)], "dir">>
           /\ i = 2 * Half(i) => PlaceOrder[i] = <<ScopeOrder[Half(i)], "flat">>
           /\ active[PlaceOrder[i]] # NoText
<1>1. Len(ScopeOrder) \in Nat
  BY OrderIs
<1>2. i \in 1..(2 * Len(ScopeOrder)) /\ active[PlaceOrder[i]] # NoText
  BY DEF Found, PlaceOrder
<1>3. /\ Half(i) \in 1..Len(ScopeOrder)
      /\ \/ i = 2 * Half(i) - 1 /\ i % 2 = 1
         \/ i = 2 * Half(i) /\ i % 2 = 0
  BY <1>1, <1>2, HalfIs
<1>4. PlaceOrder[i] = <<ScopeOrder[Half(i)], IF i % 2 = 1 THEN "dir" ELSE "flat">>
  BY <1>2 DEF PlaceOrder, Half
<1>5. i = 2 * Half(i) - 1 => i % 2 = 1
  BY <1>3
<1>6. i = 2 * Half(i) => i % 2 # 1
  BY <1>3
<1>. QED BY <1>1, <1>2, <1>3, <1>4, <1>5, <1>6

Alone(s) == active[<<s, "dir">>] = NoText \/ active[<<s, "flat">>] = NoText

LEMMA OneFound ==
    ASSUME NEW s, Alone(s), NEW i \in FoundIn({s})
    PROVE  FirstIn({s}) = PlaceOrder[i]
<1>1. i \in Found /\ PlaceOrder[i][1] = s
  BY DEF FoundIn
<1>2. ASSUME NEW j \in FoundIn({s}) PROVE j = i
  <2>1. j \in Found /\ PlaceOrder[j][1] = s
    BY <1>2 DEF FoundIn
  <2>2. /\ Half(i) \in 1..Len(ScopeOrder) /\ (i = 2 * Half(i) - 1 \/ i = 2 * Half(i)) /\ s = ScopeOrder[Half(i)]
        /\ i = 2 * Half(i) - 1 => active[<<s, "dir">>] # NoText
        /\ i = 2 * Half(i) => active[<<s, "flat">>] # NoText
    BY <1>1, PlaceAt
  <2>3. /\ Half(j) \in 1..Len(ScopeOrder) /\ (j = 2 * Half(j) - 1 \/ j = 2 * Half(j)) /\ s = ScopeOrder[Half(j)]
        /\ j = 2 * Half(j) - 1 => active[<<s, "dir">>] # NoText
        /\ j = 2 * Half(j) => active[<<s, "flat">>] # NoText
    BY <2>1, PlaceAt
  <2>4. Half(i) = Half(j)
    BY <2>2, <2>3, OneScopeAt
  <2>. QED BY <2>2, <2>3, <2>4 DEF Alone
<1>3. FoundIn({s}) = {i}
  BY <1>2
<1>4. i \in Nat
  BY <1>1, PlaceAt
<1>5. Min({i}) = i
  <2>1. {i} \in SUBSET Nat /\ {i} # {}
    BY <1>4
  <2>2. Min({i}) \in {i}
    BY <2>1, MinIs
  <2>. QED BY <2>2
<1>. QED BY <1>3, <1>5 DEF FirstIn

\* Of two places the one in the later scope stands later.
LEMMA LaterScope ==
    ASSUME NEW i \in Found, NEW j \in Found, Half(i) < Half(j)
    PROVE  i < j
<1>1. Half(i) \in Nat /\ Half(j) \in Nat /\ i \in Nat /\ j \in Nat
  BY PlaceAt, OrderIs
<1>. QED BY <1>1, PlaceAt

LEMMA ExplainedIsLoaded ==
    ASSUME NEW a \in Elements(AgentScopes), Effective(a) # <<>>, \A s \in Scopes : Alone(s),
           FoundIn({a}) # {} \/ \A i, j \in GroupsThatHaveIt(a) : i = j
    PROVE  Explained(a) = Effective(a)
<1>. DEFINE seen == FoundIn({Shared, a} \cup GroupsOf[a])
            G == Len(GroupScopes)
<1>1. seen # {} /\ Effective(a) = PlaceOrder[Max(seen)]
  BY DEF Effective
<1>2. seen \in SUBSET Nat /\ \A i \in seen : i \in Found /\ i <= 2 * Len(ScopeOrder)
  BY PlaceAt, OrderIs DEF FoundIn
<1>. DEFINE m == Max(seen)
            b == 2 * Len(ScopeOrder)
<1>3. m \in seen /\ \A y \in seen : m >= y
  <2>1. b \in Nat
    BY OrderIs
  <2>2. seen # {}
    BY <1>1
  <2>3. seen \in SUBSET Nat
    BY <1>2
  <2>4. \A i \in seen : i <= b
    BY <1>2
  <2>. HIDE DEF seen, b
  <2>. QED BY <2>1, <2>2, <2>3, <2>4, MaxIs
<1>4. seen = {i \in Found : PlaceOrder[i][1] \in {Shared, a} \cup GroupsOf[a]}
  BY DEF FoundIn
<1>. HIDE DEF seen, m
<1>5. m \in Found /\ m \in Nat
  BY <1>2, <1>3
<1>6. PICK k \in 1..Len(AgentScopes) : a = AgentScopes[k]
  BY OrderIs DEF Elements
<1>7. GroupsOf[a] \subseteq Elements(GroupScopes)
  BY SkillsAssumption
<1>8. PICK s : s = PlaceOrder[m][1]
  OBVIOUS
<1>9. s = ScopeOrder[Half(m)] /\ Half(m) \in 1..Len(ScopeOrder) /\ s \in {Shared, a} \cup GroupsOf[a]
  BY <1>3, <1>4, <1>5, <1>8, PlaceAt
<1>10. Alone(s) /\ m \in FoundIn({s})
  BY <1>5, <1>8, <1>9, OrderIs DEF Scopes, Elements, FoundIn
<1>11. FirstIn({s}) = PlaceOrder[m]
  BY <1>10, OneFound
<1>12. CASE s = a
  BY <1>1, <1>10, <1>11, <1>12 DEF Explained, m
<1>13. CASE s # a
  <2>1. s = Shared \/ \E g \in 1..G : s = GroupScopes[g]
    BY <1>7, <1>9, <1>13, OrderIs DEF Elements
  <2>2. Half(m) <= 1 + G
    <3>1. CASE s = Shared
      <4>1. Half(m) = 1
        BY <3>1, <1>9, SharedIsFirst, OneScopeAt
      <4>. QED BY <4>1, OrderIs
    <3>2. ASSUME NEW g \in 1..G, s = GroupScopes[g] PROVE Half(m) = 1 + g
      <4>1. s = ScopeOrder[1 + g] /\ 1 + g \in 1..Len(ScopeOrder)
        BY <3>2, OrderIs
      <4>. QED BY <4>1, <1>9, OneScopeAt
    <3>. QED BY <2>1, <3>1, <3>2, OrderIs
  <2>3. ASSUME NEW j \in FoundIn({a}) PROVE FALSE
    <3>1. j \in Found /\ PlaceOrder[j][1] = a /\ j \in seen
      BY <2>3, <1>4 DEF FoundIn
    <3>2. a = ScopeOrder[1 + G + k] /\ 1 + G + k \in 1..Len(ScopeOrder)
      BY <1>6, OrderIs
    <3>3. Half(j) = 1 + G + k
      <4>1. Half(j) \in 1..Len(ScopeOrder) /\ ScopeOrder[Half(j)] = a
        BY <3>1, PlaceAt
      <4>. QED BY <3>2, <4>1, OneScopeAt
    <3>4. Half(m) < Half(j)
      BY <2>2, <3>3, <1>9, OrderIs
    <3>5. m < j
      BY <3>1, <3>4, <1>5, LaterScope
    <3>. QED BY <3>1, <3>5, <1>2, <1>3, <1>5
  <2>4. FoundIn({a}) = {}
    BY <2>3
  <2>5. ASSUME NEW h \in GroupsThatHaveIt(a)
        PROVE  h \in Nat /\ 2 <= Half(m)
    <3>1. h \in DOMAIN ListedGroups /\ h \in Nat /\ ListedGroups[h] \in GroupsOf[a]
      BY <2>5, SkillsAssumption DEF GroupsThatHaveIt
    <3>2. PICK g \in 1..G : ListedGroups[h] = GroupScopes[g]
      BY <3>1, <1>7, OrderIs DEF Elements
    <3>3. PICK j : j \in FoundIn({GroupScopes[g]})
      BY <2>5, <3>2 DEF GroupsThatHaveIt
    <3>4. j \in Found /\ PlaceOrder[j][1] = GroupScopes[g] /\ j \in seen
      BY <3>1, <3>2, <3>3, <1>4 DEF FoundIn
    <3>5. GroupScopes[g] = ScopeOrder[1 + g] /\ 1 + g \in 1..Len(ScopeOrder)
      BY OrderIs
    <3>6. Half(j) = 1 + g
      <4>1. Half(j) \in 1..Len(ScopeOrder) /\ ScopeOrder[Half(j)] = GroupScopes[g]
        BY <3>4, PlaceAt
      <4>. QED BY <3>5, <4>1, OneScopeAt
    <3>7. ~(Half(m) < Half(j))
      BY <3>4, <1>2, <1>3, <1>5, LaterScope
    <3>. QED BY <3>1, <3>6, <3>7, <1>9, OrderIs
  <2>6. CASE s = Shared
    <3>1. Half(m) = 1
      BY <2>6, <1>9, SharedIsFirst, OneScopeAt
    <3>2. GroupsThatHaveIt(a) = {}
      BY <2>5, <3>1
    <3>. QED BY <2>4, <2>6, <3>2, <1>1, <1>10, <1>11 DEF Explained, m
  <2>7. CASE s # Shared
    <3>1. s \in GroupsOf[a]
      BY <1>9, <1>13, <2>7
    <3>2. PICK g \in DOMAIN ListedGroups : s = ListedGroups[g]
      <4>1. s \in Elements(ListedGroups)
        BY <3>1, <1>7, SkillsAssumption
      <4>. QED BY <4>1 DEF Elements
    <3>3. g \in GroupsThatHaveIt(a)
      BY <3>1, <3>2, <1>10 DEF GroupsThatHaveIt
    <3>4. GroupsThatHaveIt(a) \in SUBSET Nat /\ \A h \in GroupsThatHaveIt(a) : h = g
      BY <2>4, <2>5, <3>3
    <3>5. Max(GroupsThatHaveIt(a)) = g
      <4>1. g \in Nat /\ \A h \in GroupsThatHaveIt(a) : h <= g
        BY <3>3, <3>4
      <4>2. Max(GroupsThatHaveIt(a)) \in GroupsThatHaveIt(a)
        BY <4>1, <3>3, <3>4, MaxIs
      <4>. QED BY <3>4, <4>2
    <3>. QED BY <2>4, <3>2, <3>3, <3>5, <1>1, <1>11 DEF Explained, m
  <2>. QED BY <2>6, <2>7
<1>. QED BY <1>12, <1>13

\* "skill explain" names the file the agent loads, in every state, for any
\* scopes and any order of their listing, unless two groups of an agent that
\* has none of its own hold the skill, or a scope holds it in both forms
\* (explainSkill, resolveEffectiveSkills, loadVaultSkills).
THEOREM ExplainedIsTrue == SkillsSpec => []ExplainAgrees
<1>1. ExplainAgrees
  BY ExplainedIsLoaded DEF ExplainAgrees, Alone
<1>. QED BY <1>1, PTL

(* The settings.  A write that shares its moment with no other finds its     *)
(* file as it was read, and its temporary file as it wrote it.               *)

IsRequest(r) == r = [at |-> r.at, file |-> r.file, patch |-> r.patch, confirm |-> r.confirm]

SettingsShape ==
    /\ doc = [f \in Files |-> doc[f]] /\ temporary = [m \in Forms |-> temporary[m]]
    /\ request = [m \in Forms |-> request[m]] /\ confirming = [m \in Forms |-> confirming[m]]
    /\ copy = [m \in Forms |-> copy[m]] /\ target = [m \in Forms |-> target[m]]
    /\ read = [m \in Forms |-> read[m]] /\ loads = [m \in Forms |-> loads[m]]
    /\ name \in [Forms -> Forms] /\ overlapped \in [Forms -> BOOLEAN]

TargetsFit == \A m \in Forms : (read[m] # NoFile \/ loads[m] # {}) => target[m] \in Files

RequestsFit ==
    \A m \in Forms : /\ IsRequest(request[m]) /\ IsRequest(confirming[m])
                     /\ request[m].at # "none" => request[m].file \in Files
                     /\ confirming[m] # Idle => confirming[m].at = "posted" /\ confirming[m].file \in Files

Writing(m) == request[m].at \in Between

\* Two writes of one file at once, and two that share a temporary name, are known.
OverlapsKnown ==
    \A m, o \in Forms : m # o /\ Writing(m) /\ Writing(o) =>
        /\ request[m].file = request[o].file => overlapped[m]
        /\ name[m] = name[o] => request[m].file = request[o].file

\* What nobody else wrote meanwhile is as it was left.
WritesFit ==
    \A m \in Forms : Writing(m) /\ ~overlapped[m] =>
        /\ copy[m] = doc[request[m].file]
        /\ request[m].at = "written" => temporary[name[m]] = Merged(copy[m], request[m].patch)

SettingsInv == SettingsShape /\ TargetsFit /\ RequestsFit /\ OverlapsKnown /\ WritesFit

LEMMA SettingsInvInit == SettingsInit => SettingsInv
<1>. SUFFICES ASSUME SettingsInit PROVE SettingsInv
  OBVIOUS
<1>1. SettingsShape
  BY DEF SettingsInit, SettingsShape
<1>2. IsRequest(Idle) /\ Idle.at = "none"
  BY DEF IsRequest, Idle
<1>3. \A m \in Forms : request[m] = Idle /\ confirming[m] = Idle /\ read[m] = NoFile /\ loads[m] = {}
  BY DEF SettingsInit
<1>. QED BY <1>1, <1>2, <1>3 DEF SettingsInv, TargetsFit, RequestsFit, OverlapsKnown, WritesFit, Writing, Between

LEMMA MovedRequest ==
    ASSUME NEW r, IsRequest(r), NEW s, NEW t, t = [r EXCEPT !.at = s]
    PROVE  IsRequest(t) /\ t.at = s /\ t.file = r.file /\ t.patch = r.patch
BY DEF IsRequest

\* A request moves on.
LEMMA RequestMoves ==
    ASSUME SettingsInv, NEW m \in Forms, NEW s, RouteTo(m, s)
    PROVE  /\ request' = [o \in Forms |-> request'[o]]
           /\ IsRequest(request'[m]) /\ request'[m].at = s
           /\ request'[m].file = request[m].file /\ request'[m].patch = request[m].patch
           /\ \A o \in Forms \ {m} : request'[o] = request[o]
<1>1. request = [o \in Forms |-> request[o]] /\ IsRequest(request[m])
  BY DEF SettingsInv, SettingsShape, RequestsFit
<1>2. PICK t : t = [request[m] EXCEPT !.at = s]
  OBVIOUS
<1>3. request' = [request EXCEPT ![m] = t]
  BY <1>2 DEF RouteTo
<1>4. request'[m] = t /\ request' = [o \in Forms |-> request'[o]] /\ \A o \in Forms \ {m} : request'[o] = request[o]
  BY <1>1, <1>3
<1>. QED BY <1>1, <1>2, <1>4, MovedRequest

\* A step that writes nothing, and after which every write under way is as before.
LEMMA QuietKeepsWrites ==
    ASSUME SettingsInv, UNCHANGED <<doc, temporary>>,
           \A m \in Forms : Writing(m)' => /\ request'[m] = request[m] /\ name'[m] = name[m]
                                           /\ copy'[m] = copy[m] /\ overlapped'[m] = overlapped[m]
    PROVE  OverlapsKnown' /\ WritesFit'
<1>1. \A m \in Forms : Writing(m)' => Writing(m)
  BY DEF Writing
<1>2. OverlapsKnown'
  BY <1>1 DEF SettingsInv, OverlapsKnown
<1>3. WritesFit'
  BY <1>1 DEF SettingsInv, WritesFit
<1>. QED BY <1>2, <1>3

\* A form's step, of which only its own request may be a new one.
LEMMA FormStepKeeps ==
    ASSUME SettingsInv, NEW m \in Forms, Other,
           /\ request' = [o \in Forms |-> request'[o]] /\ confirming' = [o \in Forms |-> confirming'[o]]
           /\ target' = [o \in Forms |-> target'[o]]
           /\ read' = [o \in Forms |-> read'[o]] /\ loads' = [o \in Forms |-> loads'[o]],
           \A o \in Forms \ {m} : /\ request'[o] = request[o] /\ confirming'[o] = confirming[o]
                                  /\ target'[o] = target[o] /\ read'[o] = read[o] /\ loads'[o] = loads[o],
           (read'[m] # NoFile \/ loads'[m] # {}) => target'[m] \in Files,
           IsRequest(request'[m]), IsRequest(confirming'[m]),
           request'[m] # request[m] => /\ request'[m].at \in {"none", "posted"}
                                       /\ request'[m].at = "posted" => request'[m].file \in Files,
           confirming'[m] # Idle => confirming'[m].at = "posted" /\ confirming'[m].file \in Files
    PROVE  SettingsInv'
<1>1. SettingsShape'
  BY DEF SettingsInv, SettingsShape, Other
<1>2. TargetsFit'
  <2>1. SUFFICES ASSUME NEW o \in Forms PROVE (read'[o] # NoFile \/ loads'[o] # {}) => target'[o] \in Files
    BY DEF TargetsFit
  <2>. QED BY <2>1 DEF SettingsInv, TargetsFit
<1>3. RequestsFit'
  <2>1. SUFFICES ASSUME NEW o \in Forms
                 PROVE /\ IsRequest(request'[o]) /\ IsRequest(confirming'[o])
                       /\ request'[o].at # "none" => request'[o].file \in Files
                       /\ confirming'[o] # Idle => confirming'[o].at = "posted" /\ confirming'[o].file \in Files
    BY Zenon DEF RequestsFit
  <2>2. CASE o = m
    BY <2>2 DEF SettingsInv, RequestsFit
  <2>3. CASE o # m
    BY <2>3 DEF SettingsInv, RequestsFit
  <2>. QED BY <2>2, <2>3
<1>4. \A o \in Forms : Writing(o)' => request'[o] = request[o]
  BY DEF Writing, Between
<1>5. OverlapsKnown' /\ WritesFit'
  BY <1>4, QuietKeepsWrites DEF Other
<1>. QED BY <1>1, <1>2, <1>3, <1>5 DEF SettingsInv

LEMMA AskingIs ==
    ASSUME NEW m \in Forms, target[m] \in Files
    PROVE  IsRequest(Asking(m)) /\ Asking(m).at = "posted" /\ Asking(m).file \in Files
BY DEF Asking, IsRequest

\* The forms.
LEMMA FormsKeep ==
    ASSUME SettingsInv, NEW m \in Forms,
           \/ \E f \in Files : Load(m, f)
           \/ \E l \in loads[m] : ServeLoad(m, l) \/ Fill(m, l) \/ LoadFails(m, l)
           \/ \E k \in FormKeys[m] : \E v \in Typed(k) : Edit(m, k, v)
           \/ Save(m) \/ Confirm(m) \/ Cancel(m) \/ Answer(m)
    PROVE  SettingsInv'
<1>0. IsRequest(Idle) /\ Idle.at = "none"
  BY DEF IsRequest, Idle
<1>a. /\ request = [o \in Forms |-> request[o]] /\ confirming = [o \in Forms |-> confirming[o]]
      /\ target = [o \in Forms |-> target[o]]
      /\ read = [o \in Forms |-> read[o]] /\ loads = [o \in Forms |-> loads[o]]
  BY DEF SettingsInv, SettingsShape
<1>b. (read[m] # NoFile \/ loads[m] # {}) => target[m] \in Files
  BY DEF SettingsInv, TargetsFit
<1>c. /\ IsRequest(request[m]) /\ IsRequest(confirming[m])
      /\ confirming[m] # Idle => confirming[m].at = "posted" /\ confirming[m].file \in Files
  BY DEF SettingsInv, RequestsFit
<1>1. CASE \E f \in Files : Load(m, f)
  <2>1. PICK f \in Files : Load(m, f)
    BY <1>1
  <2>2. UNCHANGED request /\ Other /\ target' = [target EXCEPT ![m] = f] /\ confirming' = [confirming EXCEPT ![m] = Idle]
    BY <2>1 DEF Load
  <2>3. /\ read' = [read EXCEPT ![m] = NoFile]
        /\ loads' = [loads EXCEPT ![m] = @ \cup {[file |-> f, seen |-> NoFile]}]
    BY <2>1 DEF Load
  <2>. QED BY <1>0, <1>a, <1>c, <2>2, <2>3, FormStepKeeps
<1>2. CASE \E l \in loads[m] : ServeLoad(m, l) \/ Fill(m, l) \/ LoadFails(m, l)
  <2>1. UNCHANGED <<request, confirming, target>> /\ Other
    BY <1>2 DEF ServeLoad, Fill, LoadFails
  <2>2. target[m] \in Files
    BY <1>2, <1>b
  <2>3. /\ read' = [o \in Forms |-> read'[o]] /\ loads' = [o \in Forms |-> loads'[o]]
        /\ \A o \in Forms \ {m} : read'[o] = read[o] /\ loads'[o] = loads[o]
    BY <1>2, <1>a DEF ServeLoad, Fill, LoadFails
  <2>. QED BY <1>a, <1>c, <2>1, <2>2, <2>3, FormStepKeeps
<1>3. CASE \E k \in FormKeys[m] : \E v \in Typed(k) : Edit(m, k, v)
  <2>1. UNCHANGED <<request, confirming, target, read, loads>> /\ Other
    BY <1>3 DEF Edit
  <2>. QED BY <1>a, <1>b, <1>c, <2>1, FormStepKeeps
<1>4. CASE Save(m)
  <2>1. UNCHANGED <<target, read, loads>> /\ Other
    BY <1>4 DEF Save
  <2>2. IsRequest(Asking(m)) /\ Asking(m).at = "posted" /\ Asking(m).file \in Files
    BY <1>4, <1>b, AskingIs DEF Save, Usable
  <2>3. \/ confirming' = [confirming EXCEPT ![m] = Asking(m)] /\ UNCHANGED request
        \/ request' = [request EXCEPT ![m] = Asking(m)] /\ UNCHANGED confirming
    BY <1>4 DEF Save
  <2>. QED BY <1>a, <1>b, <1>c, <2>1, <2>2, <2>3, FormStepKeeps
<1>5. CASE Confirm(m)
  <2>1. /\ UNCHANGED <<target, read, loads>> /\ Other /\ confirming[m] # Idle
        /\ confirming' = [confirming EXCEPT ![m] = Idle] /\ request' = [request EXCEPT ![m] = confirming[m]]
    BY <1>5 DEF Confirm
  <2>. QED BY <1>0, <1>a, <1>b, <1>c, <2>1, FormStepKeeps
<1>6. CASE Cancel(m)
  <2>1. UNCHANGED <<target, read, loads, request>> /\ Other /\ confirming' = [confirming EXCEPT ![m] = Idle]
    BY <1>6 DEF Cancel
  <2>. QED BY <1>0, <1>a, <1>b, <1>c, <2>1, FormStepKeeps
<1>7. CASE Answer(m)
  <2>1. UNCHANGED <<target, read, loads, confirming>> /\ Other /\ request' = [request EXCEPT ![m] = Idle]
    BY <1>7 DEF Answer
  <2>. QED BY <1>0, <1>a, <1>b, <1>c, <2>1, FormStepKeeps
<1>. QED BY <1>1, <1>2, <1>3, <1>4, <1>5, <1>6, <1>7

\* A step of a route that moves a request and leaves the forms alone.
LEMMA RouteKeepsShape ==
    ASSUME SettingsInv, NEW m \in Forms, NEW s, RouteTo(m, s), Client, request[m].at # "none",
           /\ doc' = [f \in Files |-> doc'[f]] /\ temporary' = [o \in Forms |-> temporary'[o]]
           /\ copy' = [o \in Forms |-> copy'[o]] /\ name' \in [Forms -> Forms] /\ overlapped' \in [Forms -> BOOLEAN]
    PROVE  SettingsShape' /\ TargetsFit' /\ RequestsFit'
<1>1. SettingsShape'
  BY RequestMoves DEF SettingsInv, SettingsShape, Client
<1>2. TargetsFit'
  BY DEF SettingsInv, TargetsFit, Client
<1>3. RequestsFit'
  <2>1. SUFFICES ASSUME NEW o \in Forms
                 PROVE /\ IsRequest(request'[o]) /\ IsRequest(confirming'[o])
                       /\ request'[o].at # "none" => request'[o].file \in Files
                       /\ confirming'[o] # Idle => confirming'[o].at = "posted" /\ confirming'[o].file \in Files
    BY Zenon DEF RequestsFit
  <2>2. UNCHANGED confirming
    BY DEF Client
  <2>3. CASE o = m
    BY <2>2, <2>3, RequestMoves DEF SettingsInv, RequestsFit
  <2>4. CASE o # m
    BY <2>2, <2>4, RequestMoves DEF SettingsInv, RequestsFit
  <2>. QED BY <2>3, <2>4
<1>. QED BY <1>1, <1>2, <1>3

LEMMA ShapeNow ==
    ASSUME SettingsInv
    PROVE  /\ doc = [f \in Files |-> doc[f]] /\ temporary = [m \in Forms |-> temporary[m]]
           /\ copy = [m \in Forms |-> copy[m]] /\ name \in [Forms -> Forms] /\ overlapped \in [Forms -> BOOLEAN]
BY DEF SettingsInv, SettingsShape

\* The routes, as long as nothing is written.
LEMMA QuietRoutesKeep ==
    ASSUME SettingsInv, NEW m \in Forms,
           JudgeLocal(m) \/ JudgeAgent(m) \/ ReadSource(m) \/ ReadFails(m)
    PROVE  SettingsInv'
<1>. DEFINE Rest(s) == /\ RouteTo(m, s) /\ s \notin Between /\ Client /\ request[m].at # "none"
                       /\ UNCHANGED <<doc, temporary>>
                       /\ copy' = [o \in Forms |-> copy'[o]] /\ name' \in [Forms -> Forms]
                       /\ overlapped' \in [Forms -> BOOLEAN]
                       /\ \A o \in Forms \ {m} : name'[o] = name[o] /\ copy'[o] = copy[o] /\ overlapped'[o] = overlapped[o]
<1>1. ASSUME NEW s, Rest(s) PROVE SettingsInv'
  <2>1. SettingsShape' /\ TargetsFit' /\ RequestsFit'
    BY <1>1, ShapeNow, RouteKeepsShape
  <2>2. request'[m].at \notin Between /\ \A o \in Forms \ {m} : request'[o] = request[o]
    BY <1>1, RequestMoves
  <2>3. OverlapsKnown' /\ WritesFit'
    BY <1>1, <2>2, QuietKeepsWrites DEF Writing
  <2>. QED BY <2>1, <2>3 DEF SettingsInv
<1>2. CASE JudgeLocal(m)
  <2>1. Rest(IF Accepted(request[m].patch) THEN "judged" ELSE "refused")
    BY <1>2, ShapeNow DEF JudgeLocal, Between
  <2>. QED BY <1>1, <2>1
<1>3. CASE JudgeAgent(m)
  <2>1. PICK s : RouteTo(m, s) /\ s \in {"judged", "refused"}
    BY <1>3 DEF JudgeAgent
  <2>2. Rest(s)
    BY <1>3, <2>1, ShapeNow DEF JudgeAgent, Between
  <2>. QED BY <1>1, <2>2
<1>4. CASE ReadSource(m)
  <2>1. Rest("read")
    BY <1>4, ShapeNow DEF ReadSource, Between
  <2>. QED BY <1>1, <2>1
<1>5. CASE ReadFails(m)
  <2>1. Rest("refused")
    BY <1>5, ShapeNow DEF ReadFails, Between, Done
  <2>. QED BY <1>1, <2>1
<1>. QED BY <1>2, <1>3, <1>4, <1>5

\* A write begins: from here on those of the same file know of each other.
LEMMA BeginKeeps ==
    ASSUME SettingsInv, NEW m \in Forms, CheckSource(m)
    PROVE  SettingsInv'
<1>0. /\ RouteTo(m, "checked") /\ Client /\ UNCHANGED <<doc, temporary, copy, command>>
      /\ request[m].at = "read" /\ doc[request[m].file] = copy[m]
      /\ overlapped' = [o \in Forms |-> IF o = m THEN Others(m) # {} ELSE overlapped[o] \/ o \in Others(m)]
      /\ \E n \in Names(m) : name' = [name EXCEPT ![m] = n]
  BY DEF CheckSource, Begin
<1>1. PICK n \in Names(m) : name' = [name EXCEPT ![m] = n]
  BY <1>0
<1>2. name \in [Forms -> Forms] /\ Names(m) \subseteq Forms
  BY ShapeNow DEF Names, Others
<1>3. name'[m] = n /\ name' \in [Forms -> Forms] /\ \A o \in Forms \ {m} : name'[o] = name[o]
  BY <1>1, <1>2
<1>4. overlapped' \in [Forms -> BOOLEAN]
  <2>1. \A o \in Forms : overlapped[o] \in BOOLEAN
    BY ShapeNow
  <2>2. \A o \in Forms : (IF o = m THEN Others(m) # {} ELSE overlapped[o] \/ o \in Others(m)) \in BOOLEAN
    BY Zenon
  <2>. QED BY <1>0, <2>2
<1>5. SettingsShape' /\ TargetsFit' /\ RequestsFit'
  BY <1>0, <1>3, <1>4, ShapeNow, RouteKeepsShape
<1>6. /\ request'[m].at = "checked" /\ request'[m].file = request[m].file
      /\ \A o \in Forms \ {m} : request'[o] = request[o]
  BY <1>0, RequestMoves
<1>7. /\ overlapped'[m] = (Others(m) # {})
      /\ \A o \in Forms \ {m} : overlapped'[o] = (overlapped[o] \/ o \in Others(m))
  BY <1>0
<1>8. \A o \in Forms \ {m} : Writing(o)' <=> Writing(o)
  BY <1>6 DEF Writing
<1>9. \A o \in Forms \ {m} : Writing(o) /\ request[o].file = request[m].file => o \in Others(m)
  BY DEF Others, Writing
<1>10. \A o \in Forms \ {m} : Writing(o) /\ n = name[o] => request[o].file = request[m].file
  <2>1. SUFFICES ASSUME NEW o \in Forms \ {m}, Writing(o), n = name[o] PROVE request[o].file = request[m].file
    OBVIOUS
  <2>2. PICK u \in Others(m) : n = name[u]
    BY <2>1 DEF Names, Writing
  <2>3. u \in Forms /\ Writing(u) /\ request[u].file = request[m].file
    BY <2>2 DEF Others, Writing
  <2>. QED BY <2>1, <2>2, <2>3 DEF SettingsInv, OverlapsKnown
<1>11. OverlapsKnown'
  <2>1. SUFFICES ASSUME NEW u \in Forms, NEW o \in Forms, u # o, Writing(u)', Writing(o)'
                 PROVE  /\ request'[u].file = request'[o].file => overlapped'[u]
                        /\ name'[u] = name'[o] => request'[u].file = request'[o].file
    BY DEF OverlapsKnown
  <2>2. CASE u = m
    BY <2>1, <2>2, <1>3, <1>6, <1>7, <1>8, <1>9, <1>10
  <2>3. CASE o = m
    BY <2>1, <2>3, <1>3, <1>6, <1>7, <1>8, <1>9, <1>10
  <2>4. CASE u # m /\ o # m
    <3>1. /\ request'[u] = request[u] /\ request'[o] = request[o] /\ Writing(u) /\ Writing(o)
          /\ name'[u] = name[u] /\ name'[o] = name[o]
      BY <2>1, <2>4, <1>3, <1>6, <1>8
    <3>2. overlapped[u] => overlapped'[u]
      BY <2>4, <1>7
    <3>. QED BY <2>1, <3>1, <3>2 DEF SettingsInv, OverlapsKnown
  <2>. QED BY <2>2, <2>3, <2>4
<1>12. WritesFit'
  <2>1. SUFFICES ASSUME NEW o \in Forms, Writing(o)', ~overlapped'[o]
                 PROVE  /\ copy'[o] = doc'[request'[o].file]
                        /\ request'[o].at = "written" => temporary'[name'[o]] = Merged(copy'[o], request'[o].patch)
    BY DEF WritesFit
  <2>a. UNCHANGED <<doc, copy, temporary>> /\ doc[request[m].file] = copy[m]
    BY <1>0
  <2>2. CASE o = m
    BY <2>2, <2>a, <1>6
  <2>3. CASE o # m
    BY <2>1, <2>3, <2>a, <1>3, <1>6, <1>7, <1>8 DEF SettingsInv, WritesFit
  <2>. QED BY <2>2, <2>3
<1>. QED BY <1>5, <1>11, <1>12 DEF SettingsInv

\* The temporary file is written.
LEMMA WriteTemporaryKeeps ==
    ASSUME SettingsInv, NEW m \in Forms, WriteTemporary(m)
    PROVE  SettingsInv'
<1>0. /\ RouteTo(m, "written") /\ Client /\ UNCHANGED <<doc, copy, name, overlapped, command>>
      /\ request[m].at = "checked"
      /\ temporary' = [temporary EXCEPT ![name[m]] = Merged(copy[m], request[m].patch)]
  BY DEF WriteTemporary
<1>1. name[m] \in Forms
  BY ShapeNow
<1>2. /\ temporary' = [o \in Forms |-> temporary'[o]] /\ temporary'[name[m]] = Merged(copy[m], request[m].patch)
      /\ \A n \in Forms \ {name[m]} : temporary'[n] = temporary[n]
  BY <1>0, <1>1, ShapeNow
<1>3. SettingsShape' /\ TargetsFit' /\ RequestsFit'
  <2>1. doc' = [f \in Files |-> doc'[f]]
    BY <1>0, ShapeNow
  <2>2. copy' = [o \in Forms |-> copy'[o]] /\ name' \in [Forms -> Forms] /\ overlapped' \in [Forms -> BOOLEAN]
    BY <1>0, ShapeNow
  <2>3. RouteTo(m, "written") /\ Client /\ request[m].at # "none"
    BY <1>0
  <2>. QED BY <1>2, <2>1, <2>2, <2>3, RouteKeepsShape
<1>4. /\ request'[m].at = "written" /\ request'[m].file = request[m].file /\ request'[m].patch = request[m].patch
      /\ \A o \in Forms \ {m} : request'[o] = request[o]
  BY <1>0, RequestMoves
<1>5. \A o \in Forms : (Writing(o)' <=> Writing(o)) /\ request'[o].file = request[o].file
  BY <1>0, <1>4 DEF Writing, Between
<1>6. OverlapsKnown'
  <2>1. UNCHANGED <<name, overlapped>>
    BY <1>0
  <2>2. SUFFICES ASSUME NEW u \in Forms, NEW o \in Forms, u # o, Writing(u), Writing(o)
                 PROVE  /\ request[u].file = request[o].file => overlapped[u]
                        /\ name[u] = name[o] => request[u].file = request[o].file
    BY <1>5, <2>1 DEF OverlapsKnown
  <2>. QED BY <2>2 DEF SettingsInv, OverlapsKnown
<1>7. WritesFit'
  <2>1. SUFFICES ASSUME NEW o \in Forms, Writing(o), ~overlapped[o]
                 PROVE  /\ copy[o] = doc[request[o].file]
                        /\ request'[o].at = "written" => temporary'[name[o]] = Merged(copy[o], request'[o].patch)
    BY <1>0, <1>5 DEF WritesFit
  <2>2. copy[o] = doc[request[o].file]
    BY <2>1 DEF SettingsInv, WritesFit
  <2>3. CASE o = m
    BY <2>2, <2>3, <1>2, <1>4
  <2>4. CASE o # m
    <3>1. Writing(m)
      BY <1>0 DEF Writing, Between
    <3>2. name[o] # name[m] /\ name[o] \in Forms
      BY <2>1, <2>4, <3>1, ShapeNow DEF SettingsInv, OverlapsKnown
    <3>. QED BY <2>1, <2>2, <2>4, <3>2, <1>2, <1>4 DEF SettingsInv, WritesFit
  <2>. QED BY <2>3, <2>4
<1>. QED BY <1>3, <1>6, <1>7 DEF SettingsInv

\* A write ends, with the temporary file in place or removed.
LEMMA EndOfWriteKeeps ==
    ASSUME SettingsInv, NEW m \in Forms, Writing(m), NEW s, s \in {"wrote", "refused"}, RouteTo(m, s), Client, Done(m),
           temporary' = [temporary EXCEPT ![name[m]] = NoFile],
           doc' = [f \in Files |-> doc'[f]], \A f \in Files \ {request[m].file} : doc'[f] = doc[f]
    PROVE  SettingsInv'
<1>1. name[m] \in Forms
  BY ShapeNow
<1>2. temporary' = [o \in Forms |-> temporary'[o]] /\ \A n \in Forms \ {name[m]} : temporary'[n] = temporary[n]
  BY <1>1, ShapeNow
<1>3. /\ name' = [name EXCEPT ![m] = m] /\ copy' = [copy EXCEPT ![m] = NoFile]
      /\ overlapped' = [overlapped EXCEPT ![m] = FALSE]
  BY DEF Done
<1>4. /\ name' \in [Forms -> Forms] /\ copy' = [o \in Forms |-> copy'[o]] /\ overlapped' \in [Forms -> BOOLEAN]
      /\ \A o \in Forms \ {m} : name'[o] = name[o] /\ copy'[o] = copy[o] /\ overlapped'[o] = overlapped[o]
  BY <1>3, ShapeNow
<1>5. SettingsShape' /\ TargetsFit' /\ RequestsFit'
  <2>1. request[m].at # "none"
    BY DEF Writing, Between
  <2>. QED BY <1>2, <1>4, <2>1, RouteKeepsShape
<1>6. /\ request'[m].at = s /\ \A o \in Forms \ {m} : request'[o] = request[o]
  BY RequestMoves
<1>7. ~Writing(m)' /\ \A o \in Forms \ {m} : Writing(o)' <=> Writing(o)
  BY <1>6 DEF Writing, Between
<1>8. OverlapsKnown'
  BY <1>4, <1>6, <1>7 DEF SettingsInv, OverlapsKnown
<1>9. WritesFit'
  <2>1. SUFFICES ASSUME NEW o \in Forms \ {m}, Writing(o), ~overlapped[o]
                 PROVE  /\ copy[o] = doc'[request[o].file]
                        /\ request[o].at = "written" => temporary'[name[o]] = Merged(copy[o], request[o].patch)
    BY <1>4, <1>6, <1>7 DEF WritesFit
  <2>2. request[o].file # request[m].file /\ name[o] # name[m] /\ name[o] \in Forms
    BY <2>1, ShapeNow DEF SettingsInv, OverlapsKnown
  <2>3. request[o].file \in Files
    BY <2>1 DEF SettingsInv, RequestsFit, Writing, Between
  <2>. QED BY <2>1, <2>2, <2>3, <1>2 DEF SettingsInv, WritesFit
<1>. QED BY <1>5, <1>8, <1>9 DEF SettingsInv

LEMMA WritesEndKeep ==
    ASSUME SettingsInv, NEW m \in Forms, Rename(m) \/ WriteFails(m)
    PROVE  SettingsInv'
<1>1. CASE Rename(m)
  <2>1. /\ Writing(m) /\ RouteTo(m, "wrote") /\ Client /\ Done(m) /\ temporary' = [temporary EXCEPT ![name[m]] = NoFile]
        /\ doc' = [doc EXCEPT ![request[m].file] = temporary[name[m]]]
    BY <1>1 DEF Rename, Writing, Between
  <2>2. doc' = [f \in Files |-> doc'[f]] /\ \A f \in Files \ {request[m].file} : doc'[f] = doc[f]
    BY <2>1, ShapeNow
  <2>. QED BY <2>1, <2>2, EndOfWriteKeeps
<1>2. CASE WriteFails(m)
  <2>1. /\ Writing(m) /\ RouteTo(m, "refused") /\ Client /\ Done(m) /\ temporary' = [temporary EXCEPT ![name[m]] = NoFile]
        /\ UNCHANGED doc
    BY <1>2 DEF WriteFails, Writing
  <2>2. doc' = [f \in Files |-> doc'[f]]
    BY <2>1, ShapeNow
  <2>. QED BY <2>1, <2>2, EndOfWriteKeeps
<1>. QED BY <1>1, <1>2

\* The configure commands.
LEMMA ConfigureKeeps ==
    ASSUME SettingsInv, ConfigureTransport \/ ConfigureScheduler \/ CancelConfigure \/ WriteConfig \/ UNCHANGED settingsVars
    PROVE  SettingsInv'
<1>0. UNCHANGED <<temporary, target, read, field, loads, confirming, request, copy, name>>
  BY DEF ConfigureTransport, ConfigureScheduler, Configure, CancelConfigure, WriteConfig, settingsVars
<1>1. TargetsFit' /\ RequestsFit'
  BY <1>0 DEF SettingsInv, TargetsFit, RequestsFit
<1>2. \A m \in Forms : Writing(m)' <=> Writing(m)
  BY <1>0 DEF Writing
<1>3. CASE ConfigureTransport \/ ConfigureScheduler \/ CancelConfigure \/ UNCHANGED settingsVars
  <2>1. UNCHANGED <<doc, overlapped>>
    BY <1>3 DEF ConfigureTransport, ConfigureScheduler, Configure, CancelConfigure, settingsVars
  <2>2. SettingsShape'
    BY <1>0, <2>1 DEF SettingsInv, SettingsShape
  <2>3. OverlapsKnown' /\ WritesFit'
    BY <1>0, <2>1, QuietKeepsWrites
  <2>. QED BY <1>1, <2>2, <2>3 DEF SettingsInv
<1>4. CASE WriteConfig
  <2>1. PICK d : doc' = [doc EXCEPT ![Local] = d]
    BY <1>4 DEF WriteConfig
  <2>2. overlapped' = [m \in Forms |-> overlapped[m] \/ (request[m].at \in Between /\ request[m].file = Local)]
    BY <1>4 DEF WriteConfig
  <2>3. \A m \in Forms : overlapped'[m] = (overlapped[m] \/ (Writing(m) /\ request[m].file = Local))
    BY <2>2 DEF Writing
  <2>4. \A f \in Files \ {Local} : doc'[f] = doc[f]
    BY <2>1, ShapeNow
  <2>5. overlapped' \in [Forms -> BOOLEAN]
    <3>1. \A m \in Forms : (overlapped[m] \/ (request[m].at \in Between /\ request[m].file = Local)) \in BOOLEAN
      BY Zenon
    <3>. QED BY <2>2, <3>1
  <2>6. SettingsShape'
    BY <1>0, <2>1, <2>5 DEF SettingsInv, SettingsShape
  <2>7. OverlapsKnown'
    BY <1>0, <1>2, <2>3 DEF SettingsInv, OverlapsKnown
  <2>8. WritesFit'
    <3>1. SUFFICES ASSUME NEW m \in Forms, Writing(m), ~overlapped[m], request[m].file # Local
                   PROVE  /\ copy[m] = doc'[request[m].file]
                          /\ request[m].at = "written" => temporary[name[m]] = Merged(copy[m], request[m].patch)
      BY <1>0, <1>2, <2>3 DEF WritesFit
    <3>2. request[m].file \in Files
      BY <3>1 DEF SettingsInv, RequestsFit, Writing, Between
    <3>. QED BY <3>1, <3>2, <2>4 DEF SettingsInv, WritesFit
  <2>. QED BY <1>1, <2>6, <2>7, <2>8 DEF SettingsInv
<1>. QED BY <1>3, <1>4

LEMMA SettingsInvStep == SettingsInv /\ [SettingsNext]_settingsVars => SettingsInv'
<1>. SUFFICES ASSUME SettingsInv, [SettingsNext]_settingsVars PROVE SettingsInv'
  OBVIOUS
<1>1. CASE \E m \in Forms : \/ \E f \in Files : Load(m, f)
                            \/ \E l \in loads[m] : ServeLoad(m, l) \/ Fill(m, l) \/ LoadFails(m, l)
                            \/ \E k \in FormKeys[m] : \E v \in Typed(k) : Edit(m, k, v)
                            \/ Save(m) \/ Confirm(m) \/ Cancel(m) \/ Answer(m)
  BY <1>1, FormsKeep
<1>2. CASE \E m \in Forms : JudgeLocal(m) \/ JudgeAgent(m) \/ ReadSource(m) \/ ReadFails(m)
  BY <1>2, QuietRoutesKeep
<1>3. CASE \E m \in Forms : CheckSource(m)
  BY <1>3, BeginKeeps
<1>4. CASE \E m \in Forms : WriteTemporary(m)
  BY <1>4, WriteTemporaryKeeps
<1>5. CASE \E m \in Forms : Rename(m) \/ WriteFails(m)
  BY <1>5, WritesEndKeep
<1>6. CASE ConfigureTransport \/ ConfigureScheduler \/ CancelConfigure \/ WriteConfig \/ UNCHANGED settingsVars
  BY <1>6, ConfigureKeeps
<1>. QED BY <1>1, <1>2, <1>3, <1>4, <1>5, <1>6, Zenon DEF SettingsNext

\* Only a rename makes a write that was on its way one that is done.
LEMMA WroteByRename ==
    ASSUME SettingsInv, SettingsNext, NEW m \in Forms, request[m].at = "written", request'[m].at = "wrote"
    PROVE  Rename(m)
<1>1. request = [o \in Forms |-> request[o]] /\ IsRequest(request[m])
  BY DEF SettingsInv, SettingsShape, RequestsFit
<1>2. ASSUME NEW o \in Forms, NEW s, RouteTo(o, s), s # "wrote" PROVE FALSE
  BY <1>2, RequestMoves
<1>3. ~UNCHANGED request
  OBVIOUS
<1>4. Idle.at # "wrote" /\ Asking(m).at # "wrote" /\ (confirming[m] # Idle => confirming[m].at # "wrote")
  BY DEF Idle, Asking, SettingsInv, RequestsFit
<1>5. ASSUME NEW o \in Forms,
             \/ \E f \in Files : Load(o, f)
             \/ \E l \in loads[o] : ServeLoad(o, l) \/ Fill(o, l) \/ LoadFails(o, l)
             \/ \E k \in FormKeys[o] : \E v \in Typed(k) : Edit(o, k, v)
             \/ Save(o) \/ Confirm(o) \/ Cancel(o) \/ Answer(o)
      PROVE FALSE
  <2>1. \/ UNCHANGED request
        \/ request' = [request EXCEPT ![o] = Asking(o)]
        \/ confirming[o] # Idle /\ request' = [request EXCEPT ![o] = confirming[o]]
        \/ request' = [request EXCEPT ![o] = Idle]
    BY <1>5 DEF Load, ServeLoad, Fill, LoadFails, Edit, Save, Confirm, Cancel, Answer
  <2>. QED BY <1>1, <1>3, <1>4, <2>1
<1>6. ASSUME NEW o \in Forms, JudgeLocal(o) \/ JudgeAgent(o) PROVE FALSE
  <2>1. PICK s : RouteTo(o, s) /\ s \in {"judged", "refused"}
    BY <1>6 DEF JudgeLocal, JudgeAgent
  <2>. QED BY <1>2, <2>1
<1>7. ASSUME NEW o \in Forms, ReadSource(o) \/ ReadFails(o) \/ CheckSource(o) \/ WriteTemporary(o) \/ WriteFails(o) PROVE FALSE
  <2>1. \E s \in {"read", "refused", "checked", "written"} : RouteTo(o, s)
    BY <1>7 DEF ReadSource, ReadFails, CheckSource, Begin, WriteTemporary, WriteFails
  <2>. QED BY <1>2, <2>1
<1>8. ASSUME NEW o \in Forms, Rename(o) PROVE o = m
  <2>1. RouteTo(o, "wrote")
    BY <1>8 DEF Rename
  <2>. QED BY <2>1, RequestMoves
<1>9. ~(ConfigureTransport \/ ConfigureScheduler \/ WriteConfig \/ CancelConfigure)
  BY <1>3 DEF ConfigureTransport, ConfigureScheduler, Configure, WriteConfig, CancelConfigure
<1>. QED BY <1>5, <1>6, <1>7, <1>8, <1>9, Zenon DEF SettingsNext

\* A save changes what its form asked for and nothing else, whatever other
\* forms and commands have stored meanwhile, unless that write too fell between
\* its check and its rename: for any agents and forms (applyLocalSettingsIntent,
\* applyAgentSettingsIntent, writeFileAtomicChecked).
THEOREM SavesChangeOnlyWhatIsAsked == SettingsSpec => OnlyAskedChanges
<1>1. SettingsInv /\ [SettingsNext]_settingsVars =>
        [\A m \in Forms :
            request[m].at = "written" /\ request'[m].at = "wrote" /\ ~overlapped[m]
              => doc'[request[m].file] = Merged(doc[request[m].file], request[m].patch)]_settingsVars
  <2>1. SUFFICES ASSUME SettingsInv, SettingsNext, NEW m \in Forms,
                        request[m].at = "written", request'[m].at = "wrote", ~overlapped[m]
                 PROVE  doc'[request[m].file] = Merged(doc[request[m].file], request[m].patch)
    OBVIOUS
  <2>2. doc' = [doc EXCEPT ![request[m].file] = temporary[name[m]]]
    BY <2>1, WroteByRename DEF Rename
  <2>3. request[m].file \in Files
    BY <2>1 DEF SettingsInv, RequestsFit
  <2>4. doc'[request[m].file] = temporary[name[m]]
    BY <2>1, <2>2, <2>3, ShapeNow
  <2>. QED BY <2>1, <2>4 DEF SettingsInv, WritesFit, Writing, Between
<1>. QED BY <1>1, SettingsInvInit, SettingsInvStep, PTL DEF SettingsSpec, OnlyAskedChanges

-----------------------------------------------------------------------------

RouteStages == {"none", "posted", "judged", "read", "checked", "written", "wrote", "refused"}

\* A request in the gateway is one it agrees to, with what it read.
RequestTypes(m) ==
    /\ request[m].at \in RouteStages
    /\ request[m].at = "none" => request[m].file = NoFile
    /\ request[m].at \in {"judged", "read", "checked", "written"} => Accepted(request[m].patch)
    /\ request[m].at \in {"read", "checked", "written"} => copy[m] \in Documents(request[m].file)
    /\ confirming[m] # Idle => request[m].at = "none"

\* A temporary file has a writer, and what is in it is for that one's file.
TemporariesFit ==
    /\ \A n \in Forms : temporary[n] # NoFile => \E m \in Forms : Writing(m) /\ name[m] = n
    /\ \A m \in Forms : Writing(m) => temporary[name[m]] \in Documents(request[m].file) \cup {NoFile}

SettingTypes ==
    /\ SettingsInv /\ TemporariesFit
    /\ \A f \in Files : doc[f] \in Documents(f)
    /\ \A m \in Forms : RequestTypes(m) /\ target[m] \in Files \cup {NoFile}
    /\ command = NoFile \/ command \in [key : KeysOf(Local), doc : Documents(Local)]

\* What the gateway agrees to makes a config of a config.
LEMMA MergedIsDocument ==
    ASSUME NEW f \in Files, NEW d \in Documents(f), NEW p, Accepted(p)
    PROVE  Merged(d, p) \in Documents(f)
<1>1. DOMAIN d = KeysOf(f) /\ KeysOf(f) \subseteq AllKeys
  BY DEF Documents, KeysOf, AllKeys
<1>2. ASSUME NEW k \in KeysOf(f)
      PROVE  (IF p[k] = Same THEN d[k] ELSE p[k]) \in {"one", "two", "on", "off", Missing}
  <2>1. CASE p[k] = Same
    BY <2>1 DEF Documents
  <2>2. CASE p[k] # Same
    <3>1. k \in Changes(p)
      BY <1>1, <2>2 DEF Changes
    <3>. QED BY <2>2, <3>1 DEF Accepted, Valid
  <2>. QED BY <2>1, <2>2
<1>. QED BY <1>1, <1>2 DEF Merged, Documents

LEMMA SettingTypesInit == SettingsInit => SettingTypes
<1>. SUFFICES ASSUME SettingsInit PROVE SettingTypes
  OBVIOUS
<1>1. \A f \in Files : doc[f] \in Documents(f)
  BY DEF SettingsInit, Documents
<1>2. \A m \in Forms : request[m] = Idle /\ confirming[m] = Idle /\ temporary[m] = NoFile /\ target[m] = NoFile
  BY DEF SettingsInit
<1>3. Idle.at = "none" /\ Idle.file = NoFile
  BY DEF Idle
<1>4. \A m \in Forms : RequestTypes(m) /\ ~Writing(m)
  BY <1>2, <1>3 DEF RequestTypes, RouteStages, Writing, Between
<1>5. command = NoFile
  BY DEF SettingsInit
<1>. QED BY <1>1, <1>2, <1>4, <1>5, SettingsInvInit DEF SettingTypes, TemporariesFit

\* A step that writes no temporary file and after which the same writes go on.
LEMMA TemporariesKept ==
    ASSUME TemporariesFit, UNCHANGED temporary,
           \A m \in Forms : Writing(m)' <=> Writing(m),
           \A m \in Forms : Writing(m) => name'[m] = name[m] /\ request'[m].file = request[m].file
    PROVE  TemporariesFit'
BY DEF TemporariesFit

LEMMA FormsStayTyped ==
    ASSUME SettingTypes, SettingsInv', NEW m \in Forms,
           \/ \E f \in Files : Load(m, f)
           \/ \E l \in loads[m] : ServeLoad(m, l) \/ Fill(m, l) \/ LoadFails(m, l)
           \/ \E k \in FormKeys[m] : \E v \in Typed(k) : Edit(m, k, v)
           \/ Save(m) \/ Confirm(m) \/ Cancel(m) \/ Answer(m)
    PROVE  SettingTypes'
<1>1. /\ request = [o \in Forms |-> request[o]] /\ confirming = [o \in Forms |-> confirming[o]]
      /\ target = [o \in Forms |-> target[o]]
      /\ \A o \in Forms : RequestTypes(o) /\ target[o] \in Files \cup {NoFile}
  BY DEF SettingTypes, SettingsInv, SettingsShape
<1>2. Idle.at = "none" /\ Idle.file = NoFile
  BY DEF Idle
<1>3. Asking(m).at = "posted"
  BY DEF Asking
<1>4. confirming[m] # Idle => confirming[m].at = "posted"
  BY DEF SettingTypes, SettingsInv, RequestsFit
<1>5. Other
  BY DEF Load, ServeLoad, Fill, LoadFails, Edit, Save, Confirm, Cancel, Answer
<1>6. \A o \in Forms : target'[o] \in Files \cup {NoFile}
  <2>1. (\E f \in Files : target' = [target EXCEPT ![m] = f]) \/ target' = target
    BY DEF Load, ServeLoad, Fill, LoadFails, Edit, Save, Confirm, Cancel, Answer
  <2>. QED BY <1>1, <2>1
<1>7. \/ UNCHANGED request /\ \E c \in {Idle, confirming[m]} : confirming' = [confirming EXCEPT ![m] = c]
      \/ UNCHANGED request /\ request[m].at = "none" /\ confirming' = [confirming EXCEPT ![m] = Asking(m)]
      \/ /\ request[m].at = "none" /\ UNCHANGED confirming /\ confirming[m] = Idle
         /\ request' = [request EXCEPT ![m] = Asking(m)]
      \/ /\ confirming[m] # Idle /\ confirming' = [confirming EXCEPT ![m] = Idle]
         /\ request' = [request EXCEPT ![m] = confirming[m]]
      \/ /\ request[m].at \in {"wrote", "refused"} /\ UNCHANGED confirming
         /\ request' = [request EXCEPT ![m] = Idle]
  <2>1. UNCHANGED confirming => confirming' = [confirming EXCEPT ![m] = confirming[m]]
    BY <1>1
  <2>2. CASE \E f \in Files : Load(m, f)
    BY <2>2 DEF Load
  <2>3. CASE \/ \E l \in loads[m] : ServeLoad(m, l) \/ Fill(m, l) \/ LoadFails(m, l)
             \/ \E k \in FormKeys[m] : \E v \in Typed(k) : Edit(m, k, v)
    <3>1. UNCHANGED <<request, confirming>>
      BY <2>3 DEF ServeLoad, Fill, LoadFails, Edit
    <3>. QED BY <3>1, <2>1
  <2>4. CASE Save(m)
    BY <2>4 DEF Save, Usable
  <2>5. CASE Confirm(m) \/ Cancel(m) \/ Answer(m)
    BY <2>5 DEF Confirm, Cancel, Answer
  <2>. QED BY <2>2, <2>3, <2>4, <2>5
<1>8. \A o \in Forms \ {m} : request'[o] = request[o] /\ confirming'[o] = confirming[o]
  BY <1>1, <1>7
<1>9. /\ request'[m] = request[m] \/ (request[m].at \notin Between /\ request'[m].at \in {"none", "posted"})
      /\ request'[m].at = "none" => request'[m].file = NoFile
      /\ confirming'[m] # Idle => request'[m].at = "none"
  <2>1. request[m].at = "none" => request[m].file = NoFile
    BY <1>1 DEF RequestTypes
  <2>2. confirming[m] # Idle => request[m].at = "none"
    BY <1>1 DEF RequestTypes
  <2>. QED BY <1>1, <1>2, <1>3, <1>4, <1>7, <2>1, <2>2 DEF Between
<1>10. \A o \in Forms : RequestTypes(o)'
  <2>1. \A o \in Forms \ {m} : RequestTypes(o)'
    BY <1>1, <1>5, <1>8 DEF RequestTypes, Other
  <2>2. RequestTypes(m)'
    BY <1>1, <1>5, <1>9 DEF RequestTypes, Other, RouteStages
  <2>. QED BY <2>1, <2>2
<1>11. TemporariesFit'
  <2>1. \A o \in Forms : /\ Writing(o)' <=> Writing(o)
                         /\ Writing(o) => request'[o] = request[o]
    BY <1>8, <1>9 DEF Writing, Between
  <2>. QED BY <1>5, <2>1, TemporariesKept DEF Other, SettingTypes
<1>. QED BY <1>5, <1>6, <1>10, <1>11 DEF SettingTypes, Other

\* A step of a route, of which only the write itself can put in place what is no
\* config.
LEMMA RouteStaysTyped ==
    ASSUME SettingTypes, SettingsInv', NEW m \in Forms, NEW s \in RouteStages \ {"none"}, RouteTo(m, s),
           Client, UNCHANGED command, request[m].at # "none",
           s \in {"judged", "read", "checked", "written"} => Accepted(request[m].patch),
           s \in {"read", "checked", "written"} => copy'[m] \in Documents(request[m].file),
           \A o \in Forms \ {m} : copy'[o] = copy[o],
           TemporariesFit', \A f \in Files : doc'[f] \in Documents(f)
    PROVE  SettingTypes'
<1>1. /\ request'[m].at = s /\ request'[m].file = request[m].file /\ request'[m].patch = request[m].patch
      /\ \A o \in Forms \ {m} : request'[o] = request[o]
  BY RequestMoves DEF SettingTypes
<1>2. /\ target' = target /\ confirming' = confirming
      /\ \A o \in Forms : RequestTypes(o) /\ target[o] \in Files \cup {NoFile}
  BY DEF Client, SettingTypes
<1>3. RequestTypes(m)'
  <2>1. confirming[m] = Idle
    BY <1>2 DEF RequestTypes
  <2>. QED BY <1>1, <1>2, <2>1 DEF RequestTypes
<1>4. \A o \in Forms \ {m} : RequestTypes(o)'
  BY <1>1, <1>2 DEF RequestTypes
<1>. QED BY <1>2, <1>3, <1>4 DEF SettingTypes

LEMMA RouteTypesNow ==
    ASSUME SettingTypes, NEW m \in Forms
    PROVE  /\ RequestTypes(m) /\ (request[m].at # "none" => request[m].file \in Files)
           /\ temporary = [n \in Forms |-> temporary[n]] /\ name \in [Forms -> Forms]
           /\ copy = [o \in Forms |-> copy[o]] /\ doc = [f \in Files |-> doc[f]]
BY DEF SettingTypes, SettingsInv, RequestsFit, SettingsShape

\* The routes, as long as nothing is written.
LEMMA QuietRoutesStayTyped ==
    ASSUME SettingTypes, SettingsInv', NEW m \in Forms,
           JudgeLocal(m) \/ JudgeAgent(m) \/ ReadSource(m) \/ ReadFails(m)
    PROVE  SettingTypes'
<1>1. /\ RequestTypes(m) /\ request[m].at \in {"posted", "judged", "read"} /\ request[m].file \in Files
      /\ \A f \in Files : doc[f] \in Documents(f)
      /\ copy = [o \in Forms |-> copy[o]]
  BY RouteTypesNow DEF SettingTypes, JudgeLocal, JudgeAgent, ReadSource, ReadFails
<1>2. Client /\ UNCHANGED <<doc, temporary, command>> /\ ~Writing(m) /\ \A o \in Forms \ {m} : name'[o] = name[o]
  BY <1>1, RouteTypesNow DEF JudgeLocal, JudgeAgent, ReadSource, ReadFails, Done, Writing, Between
<1>3. ASSUME NEW s, s \notin Between, RouteTo(m, s) PROVE TemporariesFit'
  <2>1. /\ request'[m].at = s /\ \A o \in Forms \ {m} : request'[o] = request[o]
    BY <1>3, RequestMoves DEF SettingTypes
  <2>2. /\ \A o \in Forms : Writing(o)' <=> Writing(o)
        /\ \A o \in Forms : Writing(o) => name'[o] = name[o] /\ request'[o].file = request[o].file
    BY <1>2, <1>3, <2>1 DEF Writing
  <2>. QED BY <1>2, <2>2, TemporariesKept DEF SettingTypes
<1>4. CASE JudgeLocal(m) \/ JudgeAgent(m)
  <2>1. PICK s \in {"judged", "refused"} : RouteTo(m, s) /\ (s = "judged" => Accepted(request[m].patch))
    BY <1>4 DEF JudgeLocal, JudgeAgent
  <2>2. copy' = copy /\ s \notin Between /\ s \in RouteStages \ {"none"}
    BY <1>4, <2>1 DEF JudgeLocal, JudgeAgent, Between, RouteStages
  <2>. QED BY <1>1, <1>2, <1>3, <2>1, <2>2, RouteStaysTyped
<1>5. CASE ReadSource(m)
  <2>1. RouteTo(m, "read") /\ request[m].at = "judged" /\ copy' = [copy EXCEPT ![m] = doc[request[m].file]]
    BY <1>5 DEF ReadSource
  <2>2. /\ copy'[m] \in Documents(request[m].file) /\ (\A o \in Forms \ {m} : copy'[o] = copy[o])
        /\ Accepted(request[m].patch)
    BY <1>1, <2>1 DEF RequestTypes
  <2>3. "read" \notin Between /\ "read" \in RouteStages \ {"none"}
    BY DEF Between, RouteStages
  <2>. QED BY <1>1, <1>2, <1>3, <2>1, <2>2, <2>3, RouteStaysTyped
<1>6. CASE ReadFails(m)
  <2>1. RouteTo(m, "refused") /\ \A o \in Forms \ {m} : copy'[o] = copy[o]
    BY <1>1, <1>6 DEF ReadFails, Done
  <2>2. "refused" \notin Between /\ "refused" \in RouteStages \ {"none"}
    BY DEF Between, RouteStages
  <2>. QED BY <1>1, <1>2, <1>3, <2>1, <2>2, RouteStaysTyped
<1>. QED BY <1>4, <1>5, <1>6

\* A write begins with a temporary name that is free, or that of a write of the
\* same file.
LEMMA CheckStaysTyped ==
    ASSUME SettingTypes, SettingsInv', NEW m \in Forms, CheckSource(m)
    PROVE  SettingTypes'
<1>1. /\ RouteTo(m, "checked") /\ Client /\ UNCHANGED <<doc, temporary, copy, command>> /\ request[m].at = "read"
      /\ \E n \in Names(m) : name' = [name EXCEPT ![m] = n]
  BY DEF CheckSource, Begin
<1>2. PICK n \in Names(m) : name' = [name EXCEPT ![m] = n]
  BY <1>1
<1>3. /\ RequestTypes(m) /\ request[m].file \in Files /\ name \in [Forms -> Forms]
      /\ \A f \in Files : doc[f] \in Documents(f)
  BY <1>1, RouteTypesNow DEF SettingTypes
<1>4. name'[m] = n /\ \A o \in Forms \ {m} : name'[o] = name[o]
  BY <1>2, <1>3
<1>5. /\ request'[m].at = "checked" /\ request'[m].file = request[m].file
      /\ \A o \in Forms \ {m} : request'[o] = request[o]
  BY <1>1, RequestMoves DEF SettingTypes
<1>6. Writing(m)' /\ ~Writing(m) /\ \A o \in Forms \ {m} : Writing(o)' <=> Writing(o)
  BY <1>1, <1>5 DEF Writing, Between
<1>7. temporary[n] \in Documents(request[m].file) \cup {NoFile}
  <2>1. CASE \E o \in Others(m) : n = name[o]
    <3>1. PICK o \in Forms : Writing(o) /\ request[o].file = request[m].file /\ n = name[o]
      BY <2>1 DEF Others, Writing
    <3>2. temporary[name[o]] \in Documents(request[o].file) \cup {NoFile}
      BY <3>1 DEF SettingTypes, TemporariesFit
    <3>. QED BY <3>1, <3>2
  <2>2. CASE n \in Forms /\ \A u \in Forms : Writing(u) => name[u] # n
    BY <2>2 DEF SettingTypes, TemporariesFit
  <2>. QED BY <2>1, <2>2 DEF Names, Writing
<1>8. TemporariesFit'
  <2>1. ASSUME NEW k \in Forms, temporary'[k] # NoFile PROVE \E o \in Forms : Writing(o)' /\ name'[o] = k
    <3>1. PICK o \in Forms : Writing(o) /\ name[o] = k
      BY <1>1, <2>1 DEF SettingTypes, TemporariesFit
    <3>. QED BY <3>1, <1>4, <1>6
  <2>2. ASSUME NEW o \in Forms, Writing(o)'
        PROVE  temporary'[name'[o]] \in Documents(request'[o].file) \cup {NoFile}
    <3>1. CASE o = m
      BY <3>1, <1>1, <1>4, <1>5, <1>7
    <3>2. CASE o # m
      <4>1. temporary[name[o]] \in Documents(request[o].file) \cup {NoFile}
        BY <2>2, <3>2, <1>6 DEF SettingTypes, TemporariesFit
      <4>. QED BY <3>2, <4>1, <1>1, <1>4, <1>5
    <3>. QED BY <3>1, <3>2
  <2>. QED BY <2>1, <2>2 DEF TemporariesFit
<1>9. Accepted(request[m].patch) /\ copy'[m] \in Documents(request[m].file)
  BY <1>1, <1>3 DEF RequestTypes
<1>10. "checked" \in RouteStages \ {"none"} /\ doc' = doc
  BY <1>1 DEF RouteStages
<1>. QED BY <1>1, <1>3, <1>8, <1>9, <1>10, RouteStaysTyped

LEMMA WriteStaysTyped ==
    ASSUME SettingTypes, SettingsInv', NEW m \in Forms, WriteTemporary(m)
    PROVE  SettingTypes'
<1>. DEFINE d == Merged(copy[m], request[m].patch)
<1>1. /\ RouteTo(m, "written") /\ Client /\ UNCHANGED <<doc, copy, name, overlapped, command>>
      /\ request[m].at = "checked" /\ temporary' = [temporary EXCEPT ![name[m]] = d]
  BY DEF WriteTemporary
<1>2. /\ RequestTypes(m) /\ request[m].file \in Files /\ name \in [Forms -> Forms]
      /\ temporary = [n \in Forms |-> temporary[n]]
      /\ \A f \in Files : doc[f] \in Documents(f)
  BY <1>1, RouteTypesNow DEF SettingTypes
<1>3. Accepted(request[m].patch) /\ copy[m] \in Documents(request[m].file)
  BY <1>1, <1>2 DEF RequestTypes
<1>4. d \in Documents(request[m].file)
  BY <1>2, <1>3, MergedIsDocument
<1>. HIDE DEF d
<1>5. /\ request'[m].at = "written" /\ request'[m].file = request[m].file
      /\ \A o \in Forms \ {m} : request'[o] = request[o]
  BY <1>1, RequestMoves DEF SettingTypes
<1>6. Writing(m) /\ \A o \in Forms : Writing(o)' <=> Writing(o)
  BY <1>1, <1>5 DEF Writing, Between
<1>7. temporary'[name[m]] = d /\ \A n \in Forms \ {name[m]} : temporary'[n] = temporary[n]
  BY <1>1, <1>2
<1>8. TemporariesFit'
  <2>1. ASSUME NEW k \in Forms, temporary'[k] # NoFile PROVE \E o \in Forms : Writing(o)' /\ name'[o] = k
    <3>1. CASE k = name[m]
      BY <3>1, <1>1, <1>6
    <3>2. CASE k # name[m]
      <4>1. PICK o \in Forms : Writing(o) /\ name[o] = k
        BY <2>1, <3>2, <1>7 DEF SettingTypes, TemporariesFit
      <4>. QED BY <4>1, <1>1, <1>6
    <3>. QED BY <3>1, <3>2
  <2>2. ASSUME NEW o \in Forms, Writing(o)'
        PROVE  temporary'[name'[o]] \in Documents(request'[o].file) \cup {NoFile}
    <3>1. request'[o].file = request[o].file /\ name'[o] = name[o] /\ name[o] \in Forms /\ Writing(o)
      BY <2>2, <1>1, <1>2, <1>5, <1>6
    <3>2. CASE name[o] = name[m]
      <4>1. request[o].file = request[m].file
        BY <3>1, <3>2, <1>6 DEF SettingTypes, SettingsInv, OverlapsKnown
      <4>. QED BY <3>1, <3>2, <4>1, <1>4, <1>7
    <3>3. CASE name[o] # name[m]
      <4>1. temporary[name[o]] \in Documents(request[o].file) \cup {NoFile}
        BY <3>1 DEF SettingTypes, TemporariesFit
      <4>. QED BY <3>1, <3>3, <4>1, <1>7
    <3>. QED BY <3>2, <3>3
  <2>. QED BY <2>1, <2>2 DEF TemporariesFit
<1>9. "written" \in RouteStages \ {"none"} /\ doc' = doc /\ copy' = copy
  BY <1>1 DEF RouteStages
<1>. QED BY <1>1, <1>2, <1>3, <1>8, <1>9, RouteStaysTyped

\* However a write ends, its temporary file is gone.
LEMMA WritesEndTyped ==
    ASSUME SettingTypes, SettingsInv', NEW m \in Forms, Rename(m) \/ WriteFails(m)
    PROVE  SettingTypes'
<1>1. PICK s \in {"wrote", "refused"} : RouteTo(m, s)
  BY DEF Rename, WriteFails
<1>2. /\ Client /\ Done(m) /\ Writing(m) /\ temporary' = [temporary EXCEPT ![name[m]] = NoFile]
      /\ UNCHANGED doc \/ (temporary[name[m]] # NoFile /\ doc' = [doc EXCEPT ![request[m].file] = temporary[name[m]]])
  BY DEF Rename, WriteFails, Writing, Between
<1>3. /\ request[m].at # "none" /\ request[m].file \in Files /\ name \in [Forms -> Forms]
      /\ temporary = [n \in Forms |-> temporary[n]] /\ copy = [o \in Forms |-> copy[o]]
      /\ doc = [f \in Files |-> doc[f]] /\ \A f \in Files : doc[f] \in Documents(f)
  BY <1>2, RouteTypesNow DEF SettingTypes, Writing, Between
<1>4. /\ request'[m].at = s /\ request'[m].file = request[m].file
      /\ \A o \in Forms \ {m} : request'[o] = request[o]
  BY <1>1, RequestMoves DEF SettingTypes
<1>5. ~Writing(m)' /\ \A o \in Forms \ {m} : Writing(o)' <=> Writing(o)
  BY <1>1, <1>4 DEF Writing, Between
<1>6. /\ UNCHANGED command /\ \A o \in Forms \ {m} : name'[o] = name[o] /\ copy'[o] = copy[o]
  BY <1>2, <1>3 DEF Done
<1>7. \A f \in Files : doc'[f] \in Documents(f)
  <2>1. temporary[name[m]] # NoFile => temporary[name[m]] \in Documents(request[m].file)
    BY <1>2 DEF SettingTypes, TemporariesFit
  <2>. QED BY <1>2, <1>3, <2>1
<1>8. temporary'[name[m]] = NoFile /\ \A n \in Forms \ {name[m]} : temporary'[n] = temporary[n]
  BY <1>2, <1>3
<1>9. TemporariesFit'
  <2>1. ASSUME NEW k \in Forms, temporary'[k] # NoFile PROVE \E o \in Forms : Writing(o)' /\ name'[o] = k
    <3>1. k # name[m] /\ temporary[k] # NoFile
      BY <2>1, <1>8
    <3>2. PICK o \in Forms : Writing(o) /\ name[o] = k
      BY <3>1 DEF SettingTypes, TemporariesFit
    <3>. QED BY <3>1, <3>2, <1>5, <1>6
  <2>2. ASSUME NEW o \in Forms, Writing(o)'
        PROVE  temporary'[name'[o]] \in Documents(request'[o].file) \cup {NoFile}
    <3>1. o # m /\ Writing(o) /\ name'[o] = name[o] /\ name[o] \in Forms /\ request'[o] = request[o]
      BY <2>2, <1>3, <1>4, <1>5, <1>6
    <3>2. temporary[name[o]] \in Documents(request[o].file) \cup {NoFile}
      BY <3>1 DEF SettingTypes, TemporariesFit
    <3>. QED BY <3>1, <3>2, <1>8
  <2>. QED BY <2>1, <2>2 DEF TemporariesFit
<1>10. s \in RouteStages \ {"none"} /\ s \notin {"judged", "read", "checked", "written"}
  BY <1>1 DEF RouteStages
<1>. QED BY <1>1, <1>2, <1>3, <1>6, <1>7, <1>9, <1>10, RouteStaysTyped

\* The configure commands write a config with one key of it replaced.
LEMMA ConfigureStaysTyped ==
    ASSUME SettingTypes, SettingsInv',
           ConfigureTransport \/ ConfigureScheduler \/ WriteConfig \/ CancelConfigure \/ UNCHANGED settingsVars
    PROVE  SettingTypes'
<1>1. UNCHANGED <<temporary, target, confirming, request, copy, name>>
  BY DEF ConfigureTransport, ConfigureScheduler, Configure, WriteConfig, CancelConfigure, settingsVars
<1>2. (\A m \in Forms : RequestTypes(m) /\ target[m] \in Files \cup {NoFile})'
  BY <1>1 DEF SettingTypes, RequestTypes
<1>3. TemporariesFit'
  BY <1>1 DEF SettingTypes, TemporariesFit, Writing
<1>4. /\ Local \in Files /\ doc = [f \in Files |-> doc[f]] /\ \A f \in Files : doc[f] \in Documents(f)
      /\ command = NoFile \/ command \in [key : KeysOf(Local), doc : Documents(Local)]
  BY ShapeNow DEF SettingTypes, Files
<1>5. CASE ConfigureTransport \/ ConfigureScheduler
  <2>1. PICK k \in KeysOf(Local) : doc' = doc /\ command' = [key |-> k, doc |-> doc[Local]]
    BY <1>5 DEF ConfigureTransport, ConfigureScheduler, Configure, KeysOf
  <2>. QED BY <1>2, <1>3, <1>4, <2>1 DEF SettingTypes
<1>6. CASE WriteConfig
  <2>1. PICK v \in Answers : doc' = [doc EXCEPT ![Local] = MergedBlock(command.doc, command.key, v)]
    BY <1>6 DEF WriteConfig
  <2>2. command.key \in KeysOf(Local) /\ command.doc \in Documents(Local) /\ command' = NoFile
    BY <1>4, <1>6 DEF WriteConfig
  <2>3. v \in {"one", "two", "on", "off", Missing}
    BY <2>1, <2>2 DEF Answers, Valid, Documents
  <2>4. MergedBlock(command.doc, command.key, v) \in Documents(Local)
    BY <2>2, <2>3 DEF MergedBlock, Documents
  <2>. QED BY <1>2, <1>3, <1>4, <2>1, <2>2, <2>4 DEF SettingTypes
<1>7. CASE CancelConfigure \/ UNCHANGED settingsVars
  <2>1. doc' = doc /\ command' \in {command, NoFile}
    BY <1>7 DEF CancelConfigure, settingsVars
  <2>. QED BY <1>2, <1>3, <1>4, <2>1 DEF SettingTypes
<1>. QED BY <1>5, <1>6, <1>7

LEMMA SettingTypesStep == SettingTypes /\ [SettingsNext]_settingsVars => SettingTypes'
<1>. SUFFICES ASSUME SettingTypes, [SettingsNext]_settingsVars PROVE SettingTypes'
  OBVIOUS
<1>1. SettingsInv'
  BY SettingsInvStep DEF SettingTypes
<1>2. CASE \E m \in Forms : \/ \E f \in Files : Load(m, f)
                            \/ \E l \in loads[m] : ServeLoad(m, l) \/ Fill(m, l) \/ LoadFails(m, l)
                            \/ \E k \in FormKeys[m] : \E v \in Typed(k) : Edit(m, k, v)
                            \/ Save(m) \/ Confirm(m) \/ Cancel(m) \/ Answer(m)
  BY <1>1, <1>2, FormsStayTyped
<1>3. CASE \E m \in Forms : JudgeLocal(m) \/ JudgeAgent(m) \/ ReadSource(m) \/ ReadFails(m)
  BY <1>1, <1>3, QuietRoutesStayTyped
<1>4. CASE \E m \in Forms : CheckSource(m) \/ WriteTemporary(m) \/ Rename(m) \/ WriteFails(m)
  BY <1>1, <1>4, CheckStaysTyped, WriteStaysTyped, WritesEndTyped
<1>5. CASE ConfigureTransport \/ ConfigureScheduler \/ WriteConfig \/ CancelConfigure \/ UNCHANGED settingsVars
  BY <1>1, <1>5, ConfigureStaysTyped
<1>. QED BY <1>2, <1>3, <1>4, <1>5, Zenon DEF SettingsNext

\* The config files hold valid values only, for any agents and forms: what a form
\* lets pass and the gateway refuses never gets into one, and of two writes that
\* share a temporary file neither puts another file's text in place.
THEOREM SettingsAreTyped == SettingsSpec => []SettingsTypeOK
<1>1. SettingTypes => SettingsTypeOK
  BY DEF SettingTypes, SettingsInv, RequestsFit, RequestTypes, RouteStages, SettingsTypeOK
<1>. QED BY <1>1, SettingTypesInit, SettingTypesStep, PTL DEF SettingsSpec

-----------------------------------------------------------------------------

StagedIsText == staged \in Texts \cup {NoText}

\* Only an import stages anything, and a promotion only takes it away.
LEMMA StagedStep ==
    ASSUME SkillsInv, StagedIsText, [SkillsNext]_skillVars
    PROVE  StagedIsText'
<1>1. CASE StageImport
  BY <1>1 DEF StageImport, CommandAt, SkillsInv, CommandFits, ImportFits, StagedIsText
<1>2. CASE Unstage
  BY <1>2 DEF Unstage, StagedIsText
<1>3. CASE ~StageImport /\ ~Unstage
  <2>1. staged' = staged
    BY <1>3 DEF SkillsNext, skillVars, CreateSkill, PromoteStaged, MoveSkill, ImportStaged, SeedSkill, BeginCommand,
       CommandFails, CommandDiesAt, FileFails, WriteSkeleton, ClearTarget, MoveFile, CopyDirectory, RemoveSource,
       SetTargetAside, WriteTemp, PlaceTemp, CommitFails, Undo, UnstageFails, Rollback, Tidy, WriteSeed, Edits, ClearsUp
  <2>. QED BY <2>1 DEF StagedIsText
<1>. QED BY <1>1, <1>2, <1>3

\* The places and files of skills hold texts, whatever commands and stewards do,
\* and what is staged was written outside: never a skeleton or the template.
THEOREM SkillsAreTyped == SkillsSpec => []SkillsTypeOK
<1>1. SkillsInit => StagedIsText
  BY DEF SkillsInit, StagedIsText
<1>2. SkillsInv /\ StagedIsText => SkillsTypeOK
  BY DEF SkillsInv, SkillTypes, StagedIsText, SkillsTypeOK, AnyText, SkillRuns
<1>. QED BY <1>1, <1>2, StagedStep, SkillsInvInit, SkillsInvStep, PTL DEF SkillsSpec

-----------------------------------------------------------------------------
(* The agent groups.  An action that shares its moment with no other write   *)
(* finds the group as its panel showed it.                                   *)

IsChange(c) == c = [at |-> c.at, action |-> c.action, revision |-> c.revision]

GroupsShape ==
    /\ change = [p \in Panels |-> change[p]] /\ dialog = [p \in Panels |-> dialog[p]]
    /\ source = [p \in Panels |-> source[p]] /\ crossed \in [Panels -> BOOLEAN]
    /\ \A p \in Panels : /\ IsChange(change[p]) /\ IsChange(dialog[p])
                         /\ dialog[p].at \in {"none", "posted"}

\* What the gateway works on is what the panel showed.
SourcesFit == \A p \in Panels : change[p].at \in {"read", "checked"} => source[p] = change[p].revision

\* Two that write at once are known, and what only one writes is as it was checked.
CrossingsKnown ==
    \A p \in Panels : change[p].at = "checked" =>
        /\ \A q \in Panels : change[q].at = "checked" /\ q # p => crossed[p]
        /\ ~crossed[p] => group = source[p]

GroupsInv == GroupsShape /\ SourcesFit /\ CrossingsKnown

LEMMA GroupsInvInit == GroupsInit => GroupsInv
<1>. SUFFICES ASSUME GroupsInit PROVE GroupsInv
  OBVIOUS
<1>1. IsChange(NoChange) /\ NoChange.at = "none"
  BY DEF IsChange, NoChange
<1>. QED BY <1>1 DEF GroupsInit, GroupsInv, GroupsShape, SourcesFit, CrossingsKnown

LEMMA MovedChange ==
    ASSUME NEW c, IsChange(c), NEW s, NEW t, t = [c EXCEPT !.at = s]
    PROVE  IsChange(t) /\ t.at = s /\ t.action = c.action /\ t.revision = c.revision
BY DEF IsChange

LEMMA ChangeMoves ==
    ASSUME GroupsInv, NEW p \in Panels, NEW s, Reaches(p, s)
    PROVE  /\ change' = [o \in Panels |-> change'[o]]
           /\ IsChange(change'[p]) /\ change'[p].at = s
           /\ change'[p].action = change[p].action /\ change'[p].revision = change[p].revision
           /\ \A o \in Panels \ {p} : change'[o] = change[o]
<1>1. change = [o \in Panels |-> change[o]] /\ IsChange(change[p])
  BY DEF GroupsInv, GroupsShape
<1>2. PICK t : t = [change[p] EXCEPT !.at = s]
  OBVIOUS
<1>3. change' = [change EXCEPT ![p] = t]
  BY <1>2 DEF Reaches
<1>4. change'[p] = t /\ change' = [o \in Panels |-> change'[o]] /\ \A o \in Panels \ {p} : change'[o] = change[o]
  BY <1>1, <1>3
<1>. QED BY <1>1, <1>2, <1>4, MovedChange

LEMMA GroupsNow ==
    ASSUME GroupsInv
    PROVE  /\ change = [p \in Panels |-> change[p]] /\ dialog = [p \in Panels |-> dialog[p]]
           /\ source = [p \in Panels |-> source[p]] /\ crossed \in [Panels -> BOOLEAN]
           /\ \A p \in Panels : /\ IsChange(change[p]) /\ IsChange(dialog[p])
                                /\ dialog[p].at \in {"none", "posted"}
BY DEF GroupsInv, GroupsShape

\* A step of a panel, whose own action it may replace by one that is not in the
\* gateway.
LEMMA PanelStepKeeps ==
    ASSUME GroupsInv, Gateway, NEW p \in Panels,
           change' = [o \in Panels |-> change'[o]], dialog' = [o \in Panels |-> dialog'[o]],
           \A o \in Panels \ {p} : change'[o] = change[o] /\ dialog'[o] = dialog[o],
           change'[p] # change[p] => IsChange(change'[p]) /\ change'[p].at \in {"none", "posted"},
           dialog'[p] # dialog[p] => IsChange(dialog'[p]) /\ dialog'[p].at \in {"none", "posted"}
    PROVE  GroupsInv'
<1>1. \A o \in Panels : /\ change'[o].at \in {"read", "checked"} => change'[o] = change[o]
                        /\ IsChange(change'[o]) /\ IsChange(dialog'[o]) /\ dialog'[o].at \in {"none", "posted"}
  BY GroupsNow
<1>2. GroupsShape'
  BY <1>1, GroupsNow DEF GroupsShape, Gateway
<1>3. SourcesFit'
  BY <1>1 DEF GroupsInv, SourcesFit, Gateway
<1>4. CrossingsKnown'
  BY <1>1 DEF GroupsInv, CrossingsKnown, Gateway
<1>. QED BY <1>2, <1>3, <1>4 DEF GroupsInv

LEMMA PanelsKeep ==
    ASSUME GroupsInv, NEW p \in Panels,
           \/ OpenGroup(p) \/ ShowGroup(p) \/ ConfirmAction(p) \/ CloseDialog(p) \/ ActionEnds(p)
           \/ \E x \in Actions : ChooseAction(p, x)
    PROVE  GroupsInv'
<1>0. IsChange(NoChange) /\ NoChange.at = "none"
  BY DEF IsChange, NoChange
<1>1. CASE OpenGroup(p) \/ ShowGroup(p)
  <2>1. UNCHANGED <<change, dialog>> /\ Gateway
    BY <1>1 DEF OpenGroup, ShowGroup
  <2>. QED BY <2>1, GroupsNow, PanelStepKeeps
<1>2. CASE ConfirmAction(p)
  <2>1. Gateway /\ change' = [change EXCEPT ![p] = dialog[p]] /\ dialog' = [dialog EXCEPT ![p] = NoChange]
    BY <1>2 DEF ConfirmAction
  <2>. QED BY <1>0, <2>1, GroupsNow, PanelStepKeeps
<1>3. CASE CloseDialog(p)
  <2>1. Gateway /\ UNCHANGED change /\ dialog' = [dialog EXCEPT ![p] = NoChange]
    BY <1>3 DEF CloseDialog
  <2>. QED BY <1>0, <2>1, GroupsNow, PanelStepKeeps
<1>4. CASE ActionEnds(p)
  <2>1. Gateway /\ UNCHANGED dialog /\ change' = [change EXCEPT ![p] = NoChange]
    BY <1>4 DEF ActionEnds
  <2>. QED BY <1>0, <2>1, GroupsNow, PanelStepKeeps
<1>5. CASE \E x \in Actions : ChooseAction(p, x)
  <2>1. PICK c : /\ IsChange(c) /\ c.at = "posted"
                 /\ \/ change' = [change EXCEPT ![p] = c] /\ UNCHANGED dialog
                    \/ dialog' = [dialog EXCEPT ![p] = c] /\ UNCHANGED change
    <3>1. PICK x \in Actions : ChooseAction(p, x)
      BY <1>5
    <3>2. PICK c : c = [at |-> "posted", action |-> x, revision |-> shown[p]]
      OBVIOUS
    <3>3. IsChange(c) /\ c.at = "posted"
      BY <3>2 DEF IsChange
    <3>. QED BY <3>1, <3>2, <3>3 DEF ChooseAction
  <2>2. Gateway
    BY <1>5 DEF ChooseAction
  <2>. QED BY <2>1, <2>2, GroupsNow, PanelStepKeeps
<1>. QED BY <1>1, <1>2, <1>3, <1>4, <1>5

\* The gateway takes an action on, checks it and rejects it.
LEMMA GatewayKeepsShape ==
    ASSUME GroupsInv, Browser, change' = [o \in Panels |-> change'[o]], source' = [o \in Panels |-> source'[o]],
           crossed' \in [Panels -> BOOLEAN], \A o \in Panels : IsChange(change'[o])
    PROVE  GroupsShape'
BY GroupsNow DEF GroupsShape, Browser

LEMMA GatewayKeeps ==
    ASSUME GroupsInv, NEW p \in Panels, ReadGroup(p) \/ CheckGroup(p) \/ RejectChange(p)
    PROVE  GroupsInv'
<1>1. CASE ReadGroup(p)
  <2>1. /\ Reaches(p, "read") /\ Browser /\ UNCHANGED <<group, crossed>> /\ group = change[p].revision
        /\ source' = [source EXCEPT ![p] = group]
    BY <1>1 DEF ReadGroup, Take
  <2>2. /\ change'[p].at = "read" /\ change'[p].revision = change[p].revision
        /\ \A o \in Panels \ {p} : change'[o] = change[o]
    BY <2>1, ChangeMoves
  <2>3. source'[p] = group /\ \A o \in Panels \ {p} : source'[o] = source[o]
    BY <2>1, GroupsNow
  <2>4. GroupsShape'
    BY <2>1, <2>2, GroupsNow, ChangeMoves, GatewayKeepsShape
  <2>5. SourcesFit'
    BY <2>1, <2>2, <2>3 DEF GroupsInv, SourcesFit
  <2>6. CrossingsKnown'
    BY <2>1, <2>2, <2>3 DEF GroupsInv, CrossingsKnown
  <2>. QED BY <2>4, <2>5, <2>6 DEF GroupsInv
<1>2. CASE CheckGroup(p)
  <2>1. /\ Reaches(p, "checked") /\ Browser /\ UNCHANGED <<group, source>> /\ change[p].at = "read" /\ group = source[p]
        /\ crossed' = [q \in Panels |-> IF q = p THEN Crossing # {} ELSE crossed[q] \/ q \in Crossing]
    BY <1>2 DEF CheckGroup
  <2>2. /\ change'[p].at = "checked" /\ change'[p].revision = change[p].revision
        /\ \A o \in Panels \ {p} : change'[o] = change[o]
    BY <2>1, ChangeMoves
  <2>3. /\ crossed'[p] = (Crossing # {})
        /\ \A o \in Panels \ {p} : crossed'[o] = (crossed[o] \/ o \in Crossing)
    BY <2>1
  <2>4. crossed' \in [Panels -> BOOLEAN]
    <3>1. \A q \in Panels : (IF q = p THEN Crossing # {} ELSE crossed[q] \/ q \in Crossing) \in BOOLEAN
      BY GroupsNow, Zenon
    <3>. QED BY <2>1, <3>1
  <2>5. GroupsShape'
    BY <2>1, <2>2, <2>4, GroupsNow, ChangeMoves, GatewayKeepsShape
  <2>6. SourcesFit'
    BY <2>1, <2>2 DEF GroupsInv, SourcesFit
  <2>7. \A o \in Panels : change[o].at = "checked" <=> o \in Crossing
    BY DEF Crossing
  <2>8. CrossingsKnown'
    <3>1. SUFFICES ASSUME NEW u \in Panels, change'[u].at = "checked"
                   PROVE  /\ \A q \in Panels : change'[q].at = "checked" /\ q # u => crossed'[u]
                          /\ ~crossed'[u] => group' = source'[u]
      BY DEF CrossingsKnown
    <3>2. CASE u = p
      BY <3>2, <2>1, <2>2, <2>3, <2>7
    <3>3. CASE u # p
      BY <3>1, <3>3, <2>2, <2>3, <2>7
    <3>. QED BY <3>2, <3>3
  <2>. QED BY <2>5, <2>6, <2>8 DEF GroupsInv
<1>3. CASE RejectChange(p)
  <2>1. /\ Reaches(p, "rejected") /\ Browser /\ UNCHANGED group
        /\ source' = [source EXCEPT ![p] = NoGroup] /\ crossed' = [crossed EXCEPT ![p] = FALSE]
    BY <1>3 DEF RejectChange
  <2>2. change'[p].at = "rejected" /\ \A o \in Panels \ {p} : change'[o] = change[o]
    BY <2>1, ChangeMoves
  <2>3. \A o \in Panels \ {p} : source'[o] = source[o] /\ crossed'[o] = crossed[o]
    BY <2>1, GroupsNow
  <2>4. GroupsShape'
    BY <2>1, <2>2, GroupsNow, ChangeMoves, GatewayKeepsShape
  <2>5. SourcesFit'
    BY <2>2, <2>3 DEF GroupsInv, SourcesFit
  <2>6. CrossingsKnown'
    BY <2>1, <2>2, <2>3 DEF GroupsInv, CrossingsKnown
  <2>. QED BY <2>4, <2>5, <2>6 DEF GroupsInv
<1>. QED BY <1>1, <1>2, <1>3

\* Where a rename leaves the two whose temporary file it was.
LEMMA PlacedAre ==
    ASSUME GroupsInv, NEW p \in Panels, NEW q \in Panels, PlaceGroup(p, q)
    PROVE  /\ change' = [o \in Panels |-> change'[o]] /\ \A o \in Panels : IsChange(change'[o])
           /\ change'[p].at = "changed" /\ (q # p => change'[q].at = "rejected")
           /\ \A o \in Panels \ {p, q} : change'[o] = change[o]
<1>1. PICK t : t = [change[q] EXCEPT !.at = "rejected"]
  OBVIOUS
<1>2. PICK c : c = [change EXCEPT ![q] = t]
  OBVIOUS
<1>3. PICK u : u = [c[p] EXCEPT !.at = "changed"]
  OBVIOUS
<1>4. change' = [c EXCEPT ![p] = u]
  BY <1>1, <1>2, <1>3 DEF PlaceGroup
<1>5. IsChange(t) /\ t.at = "rejected"
  <2>1. IsChange(change[q])
    BY GroupsNow
  <2>. QED BY <1>1, <2>1, MovedChange
<1>6. c = [o \in Panels |-> c[o]] /\ c[q] = t /\ (\A o \in Panels \ {q} : c[o] = change[o])
  BY <1>2, GroupsNow
<1>7. IsChange(c[p])
  BY <1>5, <1>6, GroupsNow
<1>8. IsChange(u) /\ u.at = "changed"
  BY <1>3, <1>7, MovedChange
<1>9. change' = [o \in Panels |-> change'[o]] /\ change'[p] = u /\ (\A o \in Panels \ {p} : change'[o] = c[o])
  BY <1>4, <1>6
<1>10. \A o \in Panels : IsChange(change'[o])
  BY <1>5, <1>6, <1>8, <1>9, GroupsNow
<1>11. q # p => change'[q].at = "rejected"
  BY <1>5, <1>6, <1>9
<1>12. \A o \in Panels \ {p, q} : change'[o] = change[o]
  BY <1>6, <1>9
<1>. QED BY <1>8, <1>9, <1>10, <1>11, <1>12

LEMMA PlaceGroupKeeps ==
    ASSUME GroupsInv, NEW p \in Panels, NEW q \in Panels, PlaceGroup(p, q)
    PROVE  GroupsInv'
<1>1. /\ change[p].at = "checked" /\ change[q].at = "checked" /\ Browser
      /\ source' = [source EXCEPT ![p] = NoGroup, ![q] = NoGroup]
      /\ crossed' = [crossed EXCEPT ![p] = FALSE, ![q] = FALSE]
  BY DEF PlaceGroup
<1>2. /\ source' = [o \in Panels |-> source'[o]] /\ crossed' \in [Panels -> BOOLEAN]
      /\ \A o \in Panels \ {p, q} : source'[o] = source[o] /\ crossed'[o] = crossed[o]
  BY <1>1, GroupsNow
<1>3. GroupsShape'
  BY <1>1, <1>2, PlacedAre, GatewayKeepsShape
<1>4. \A o \in Panels : change'[o].at \in {"read", "checked"} => o \notin {p, q} /\ change'[o] = change[o]
  BY PlacedAre
<1>5. SourcesFit'
  BY <1>2, <1>4 DEF GroupsInv, SourcesFit
<1>6. CrossingsKnown'
  <2>1. SUFFICES ASSUME NEW u \in Panels, change'[u].at = "checked" PROVE crossed'[u]
    BY DEF CrossingsKnown
  <2>2. change[u].at = "checked" /\ u # p /\ crossed'[u] = crossed[u]
    BY <2>1, <1>2, <1>4
  <2>. QED BY <2>2, <1>1 DEF GroupsInv, CrossingsKnown
<1>. QED BY <1>3, <1>5, <1>6 DEF GroupsInv

\* The commands.
LEMMA CommandsKeep ==
    ASSUME GroupsInv,
           (\E x \in Actions : CommandReads(x)) \/ CommandTruncates \/ CommandWrites \/ CommandDies \/ UNCHANGED groupVars
    PROVE  GroupsInv'
<1>1. UNCHANGED <<dialog, change, source>>
  BY DEF CommandReads, CommandTruncates, CommandWrites, CommandDies, Web, groupVars
<1>2. \/ UNCHANGED <<group, crossed>>
      \/ crossed' = [p \in Panels |-> crossed[p] \/ p \in Crossing]
  BY DEF CommandReads, CommandTruncates, CommandWrites, CommandDies, groupVars
<1>3. CASE UNCHANGED <<group, crossed>>
  BY <1>1, <1>3 DEF GroupsInv, GroupsShape, SourcesFit, CrossingsKnown
<1>4. CASE crossed' = [p \in Panels |-> crossed[p] \/ p \in Crossing]
  <2>1. \A p \in Panels : (crossed[p] \/ p \in Crossing) \in BOOLEAN
    BY Zenon
  <2>2. crossed' \in [Panels -> BOOLEAN]
    BY <1>4, <2>1
  <2>3. \A p \in Panels : change[p].at = "checked" => crossed'[p]
    BY <1>4 DEF Crossing
  <2>. QED BY <1>1, <2>2, <2>3 DEF GroupsInv, GroupsShape, SourcesFit, CrossingsKnown
<1>. QED BY <1>2, <1>3, <1>4

LEMMA GroupsInvStep == GroupsInv /\ [GroupsNext]_groupVars => GroupsInv'
<1>. SUFFICES ASSUME GroupsInv, [GroupsNext]_groupVars PROVE GroupsInv'
  OBVIOUS
<1>1. CASE \E p \in Panels : \/ OpenGroup(p) \/ ShowGroup(p) \/ ConfirmAction(p) \/ CloseDialog(p) \/ ActionEnds(p)
                             \/ \E x \in Actions : ChooseAction(p, x)
  BY <1>1, PanelsKeep
<1>2. CASE \E p \in Panels : ReadGroup(p) \/ CheckGroup(p) \/ RejectChange(p)
  BY <1>2, GatewayKeeps
<1>3. CASE \E p, q \in Panels : PlaceGroup(p, q)
  BY <1>3, PlaceGroupKeeps
<1>4. CASE (\E x \in Actions : CommandReads(x)) \/ CommandTruncates \/ CommandWrites \/ CommandDies \/ UNCHANGED groupVars
  BY <1>4, CommandsKeep
<1>. QED BY <1>1, <1>2, <1>3, <1>4, Zenon DEF GroupsNext

\* Only its own rename, or that of another action's text in its name, makes an
\* action one that changed the group.
LEMMA ChangedByPlacing ==
    ASSUME GroupsInv, GroupsNext, NEW p \in Panels, change[p].at = "checked", change'[p].at = "changed"
    PROVE  \E q \in Panels : PlaceGroup(p, q)
<1>0. NoChange.at = "none"
  BY DEF NoChange
<1>1. ~UNCHANGED change
  OBVIOUS
<1>2. ASSUME NEW o \in Panels, NEW c, change' = [change EXCEPT ![o] = c], change[o].at # "checked" PROVE FALSE
  BY <1>2, GroupsNow
<1>3. ASSUME NEW o \in Panels,
             \/ OpenGroup(o) \/ ShowGroup(o) \/ ConfirmAction(o) \/ CloseDialog(o) \/ ActionEnds(o)
             \/ \E x \in Actions : ChooseAction(o, x)
      PROVE FALSE
  <2>1. (\E c : change' = [change EXCEPT ![o] = c]) /\ change[o].at # "checked"
    BY <1>0, <1>1, <1>3, Zenon DEF OpenGroup, ShowGroup, ConfirmAction, CloseDialog, ActionEnds, ChooseAction
  <2>. QED BY <1>2, <2>1
<1>4. ASSUME NEW o \in Panels, ReadGroup(o) \/ CheckGroup(o) \/ RejectChange(o) PROVE FALSE
  <2>1. \E s \in {"read", "checked", "rejected"} : Reaches(o, s)
    BY <1>4 DEF ReadGroup, Take, CheckGroup, RejectChange
  <2>. QED BY <2>1, ChangeMoves
<1>5. ASSUME NEW o \in Panels, NEW q \in Panels, PlaceGroup(o, q) PROVE o = p
  BY <1>5, PlacedAre
<1>6. ~((\E x \in Actions : CommandReads(x)) \/ CommandTruncates \/ CommandWrites \/ CommandDies)
  BY <1>1 DEF CommandReads, CommandTruncates, CommandWrites, CommandDies, Web
<1>. QED BY <1>3, <1>4, <1>5, <1>6, Zenon DEF GroupsNext

\* An action of a panel changes the group the steward saw when choosing it, and
\* as it says, unless another write came between its check and its rename: for
\* any members, panels and fallback orders (mutateGroup, writeFileAtomic).
THEOREM ActionsChangeWhatWasShown == GroupsSpec => ActionOnWhatWasShown
<1>1. GroupsInv /\ [GroupsNext]_groupVars =>
        [\A p \in Panels :
            change[p].at = "checked" /\ change'[p].at = "changed" /\ ~crossed[p]
              => /\ group = change[p].revision
                 /\ group' = Changed(group, change[p].action)]_groupVars
  <2>1. SUFFICES ASSUME GroupsInv, GroupsNext, NEW p \in Panels,
                        change[p].at = "checked", change'[p].at = "changed", ~crossed[p]
                 PROVE  group = change[p].revision /\ group' = Changed(group, change[p].action)
    BY Zenon
  <2>2. PICK q \in Panels : PlaceGroup(p, q)
    BY <2>1, ChangedByPlacing
  <2>3. q = p
    BY <2>1, <2>2 DEF PlaceGroup, GroupsInv, CrossingsKnown
  <2>4. group' = Changed(source[p], change[p].action)
    BY <2>2, <2>3 DEF PlaceGroup
  <2>5. group = source[p] /\ source[p] = change[p].revision
    BY <2>1 DEF GroupsInv, CrossingsKnown, SourcesFit
  <2>. QED BY <2>4, <2>5
<1>. QED BY <1>1, GroupsInvInit, GroupsInvStep, PTL DEF GroupsSpec, ActionOnWhatWasShown

-----------------------------------------------------------------------------

GroupTexts == Groups \cup {NoGroup, Blank}

IsCommandOf(c) == c = [at |-> c.at, action |-> c.action, read |-> c.read]

\* What a panel, the gateway and a command hold of a group is a text of it, and
\* what they are asked for is an action.
GroupTypes ==
    /\ GroupsInv
    /\ group \in GroupTexts
    /\ shown \in [Panels -> GroupTexts] /\ opening \in [Panels -> GroupTexts \cup {Unset}]
    /\ source \in [Panels -> GroupTexts]
    /\ \A p \in Panels : /\ change[p] = NoChange \/ change[p].action \in Actions
                         /\ dialog[p] = NoChange \/ dialog[p].action \in Actions
    /\ cli = NoCommand \/ (IsCommandOf(cli) /\ cli.action \in Actions /\ cli.read \in GroupTexts)

LEMMA ActionsAre ==
    ASSUME NEW x \in Actions
    PROVE  /\ x.agent \in Members /\ x.list \subseteq Members
           /\ x.kind \in {"create", "add-agent", "remove-agent", "fallback-set"}
BY DEF Actions

\* Whatever is done to a group of members, it stays one.
LEMMA ChangedIsGroup ==
    ASSUME NEW g \in GroupTexts, NEW x \in Actions
    PROVE  Changed(g, x) \in Groups
<1>1. NoMembers \in Groups
  BY DEF NoMembers, Groups
<1>2. Data(g) \in Groups
  BY <1>1 DEF Data, GroupTexts
<1>3. WithAgent(Data(g), x.agent) \in Groups
  BY <1>2, ActionsAre DEF WithAgent, Groups
<1>4. WithFallback(Data(g), x.agent, x.list) \in Groups
  BY <1>2, ActionsAre DEF WithFallback, Groups
<1>5. WithoutAgent(Data(g), x.agent) \in Groups
  <2>1. \A b \in Members :
           (IF b = x.agent \/ Data(g).order[b] = Unset THEN Unset ELSE Data(g).order[b] \ {x.agent})
             \in (SUBSET Members) \cup {Unset}
    BY <1>2 DEF Groups
  <2>2. Data(g).agents \ {x.agent} \subseteq Members
    BY <1>2 DEF Groups
  <2>. QED BY <2>1, <2>2 DEF WithoutAgent, Groups
<1>. QED BY <1>1, <1>3, <1>4, <1>5, ActionsAre DEF Changed

LEMMA CommandMoves ==
    ASSUME NEW c, IsCommandOf(c), NEW s, NEW d, d = [c EXCEPT !.at = s]
    PROVE  IsCommandOf(d) /\ d.action = c.action /\ d.read = c.read
BY DEF IsCommandOf

\* What a rename leaves of the actions: none is asked for anything else.
LEMMA PlacedKeepActions ==
    ASSUME GroupsInv, NEW p \in Panels, NEW q \in Panels, PlaceGroup(p, q)
    PROVE  \A o \in Panels : change'[o] = change[o] \/ (change[o] # NoChange /\ change'[o].action = change[o].action)
<1>1. PICK t : t = [change[q] EXCEPT !.at = "rejected"]
  OBVIOUS
<1>2. PICK c : c = [change EXCEPT ![q] = t]
  OBVIOUS
<1>3. PICK u : u = [c[p] EXCEPT !.at = "changed"]
  OBVIOUS
<1>4. change' = [c EXCEPT ![p] = u]
  BY <1>1, <1>2, <1>3 DEF PlaceGroup
<1>5. IsChange(change[q]) /\ IsChange(change[p]) /\ change = [o \in Panels |-> change[o]]
  BY GroupsNow
<1>6. IsChange(t) /\ t.action = change[q].action
  BY <1>1, <1>5, MovedChange
<1>7. c = [o \in Panels |-> c[o]] /\ c[q] = t /\ \A o \in Panels \ {q} : c[o] = change[o]
  BY <1>2, <1>5
<1>8. IsChange(c[p]) /\ c[p].action = change[p].action
  BY <1>5, <1>6, <1>7
<1>9. u.action = change[p].action
  BY <1>3, <1>8, MovedChange
<1>10. change'[p] = u /\ \A o \in Panels \ {p} : change'[o] = c[o]
  BY <1>4, <1>7
<1>11. change[p] # NoChange /\ change[q] # NoChange
  BY DEF PlaceGroup, NoChange
<1>. QED BY <1>6, <1>7, <1>9, <1>10, <1>11

LEMMA GroupTypesInit == GroupsInit => GroupTypes
<1>. SUFFICES ASSUME GroupsInit PROVE GroupTypes
  OBVIOUS
<1>1. group \in GroupTexts
  BY DEF GroupsInit, GroupTexts, Groups
<1>2. /\ shown \in [Panels -> GroupTexts] /\ opening \in [Panels -> GroupTexts \cup {Unset}]
      /\ source \in [Panels -> GroupTexts]
  BY DEF GroupsInit, GroupTexts
<1>3. \A p \in Panels : change[p] = NoChange /\ dialog[p] = NoChange
  BY DEF GroupsInit
<1>4. cli = NoCommand
  BY DEF GroupsInit
<1>. QED BY <1>1, <1>2, <1>3, <1>4, GroupsInvInit DEF GroupTypes

LEMMA GroupTypesStep == GroupTypes /\ [GroupsNext]_groupVars => GroupTypes'
<1>. SUFFICES ASSUME GroupTypes, [GroupsNext]_groupVars PROVE GroupTypes'
  OBVIOUS
<1>0. GroupsInv'
  BY GroupsInvStep DEF GroupTypes
<1>1. /\ group \in GroupTexts /\ NoGroup \in GroupTexts /\ Blank \in GroupTexts
      /\ shown \in [Panels -> GroupTexts] /\ opening \in [Panels -> GroupTexts \cup {Unset}]
      /\ source \in [Panels -> GroupTexts]
      /\ \A p \in Panels : /\ change[p] = NoChange \/ change[p].action \in Actions
                           /\ dialog[p] = NoChange \/ dialog[p].action \in Actions
      /\ cli = NoCommand \/ (IsCommandOf(cli) /\ cli.action \in Actions /\ cli.read \in GroupTexts)
      /\ change = [p \in Panels |-> change[p]] /\ dialog = [p \in Panels |-> dialog[p]]
  BY GroupsNow DEF GroupTypes, GroupTexts
<1>2. NoChange.at = "none" /\ NoCommand.at = "none"
  BY DEF NoChange, NoCommand
\* A panel's step.
<1>3. ASSUME NEW p \in Panels, Gateway,
             shown' \in [Panels -> GroupTexts], opening' \in [Panels -> GroupTexts \cup {Unset}],
             \A o \in Panels : /\ change'[o] \in {change[o], dialog[o], NoChange} \/ change'[o].action \in Actions
                               /\ dialog'[o] \in {dialog[o], NoChange} \/ dialog'[o].action \in Actions
      PROVE  GroupTypes'
  <2>1. \A o \in Panels : /\ change'[o] = NoChange \/ change'[o].action \in Actions
                          /\ dialog'[o] = NoChange \/ dialog'[o].action \in Actions
    BY <1>1, <1>3
  <2>. QED BY <1>0, <1>1, <1>3, <2>1 DEF GroupTypes, Gateway
<1>4. CASE \E p \in Panels : OpenGroup(p) \/ ShowGroup(p) \/ ConfirmAction(p) \/ CloseDialog(p) \/ ActionEnds(p)
  <2>1. PICK p \in Panels : OpenGroup(p) \/ ShowGroup(p) \/ ConfirmAction(p) \/ CloseDialog(p) \/ ActionEnds(p)
    BY <1>4
  <2>2. Gateway
    BY <2>1 DEF OpenGroup, ShowGroup, ConfirmAction, CloseDialog, ActionEnds
  <2>3. shown' \in [Panels -> GroupTexts]
    <3>1. CASE ShowGroup(p)
      BY <3>1, <1>1 DEF ShowGroup
    <3>. QED BY <2>1, <3>1, <1>1 DEF OpenGroup, ConfirmAction, CloseDialog, ActionEnds
  <2>4. opening' \in [Panels -> GroupTexts \cup {Unset}]
    BY <2>1, <1>1 DEF OpenGroup, ShowGroup, ConfirmAction, CloseDialog, ActionEnds
  <2>5. \A o \in Panels : /\ change'[o] \in {change[o], dialog[o], NoChange}
                          /\ dialog'[o] \in {dialog[o], NoChange}
    BY <2>1, <1>1 DEF OpenGroup, ShowGroup, ConfirmAction, CloseDialog, ActionEnds
  <2>. QED BY <2>2, <2>3, <2>4, <2>5, <1>3
<1>5. CASE \E p \in Panels, x \in Actions : ChooseAction(p, x)
  <2>1. PICK p \in Panels, x \in Actions : ChooseAction(p, x)
    BY <1>5
  <2>2. PICK c : c = [at |-> "posted", action |-> x, revision |-> shown[p]]
    OBVIOUS
  <2>3. \/ change' = [change EXCEPT ![p] = c] /\ UNCHANGED dialog
        \/ dialog' = [dialog EXCEPT ![p] = c] /\ UNCHANGED change
    BY <2>1, <2>2 DEF ChooseAction
  <2>4. c.action \in Actions
    BY <2>2
  <2>5. \A o \in Panels : /\ change'[o] = change[o] \/ change'[o].action \in Actions
                          /\ dialog'[o] = dialog[o] \/ dialog'[o].action \in Actions
    BY <2>3, <2>4, <1>1
  <2>6. Gateway /\ UNCHANGED <<shown, opening>>
    BY <2>1 DEF ChooseAction
  <2>. QED BY <2>5, <2>6, <1>1, <1>3
\* A step of the gateway.
<1>6. ASSUME Browser, group' \in GroupTexts, source' \in [Panels -> GroupTexts],
             \A o \in Panels : change'[o] = change[o] \/ (change[o] # NoChange /\ change'[o].action = change[o].action)
      PROVE  GroupTypes'
  <2>1. \A o \in Panels : change'[o] = NoChange \/ change'[o].action \in Actions
    BY <1>1, <1>6
  <2>. QED BY <1>0, <1>1, <1>6, <2>1 DEF GroupTypes, Browser
<1>7. CASE \E p \in Panels : ReadGroup(p) \/ CheckGroup(p) \/ RejectChange(p)
  <2>1. PICK p \in Panels : ReadGroup(p) \/ CheckGroup(p) \/ RejectChange(p)
    BY <1>7
  <2>2. Browser /\ UNCHANGED group /\ change[p].at # "none"
    BY <2>1 DEF ReadGroup, Take, CheckGroup, RejectChange
  <2>3. source' \in [Panels -> GroupTexts]
    BY <2>1, <1>1 DEF ReadGroup, Take, CheckGroup, RejectChange
  <2>4. PICK s : Reaches(p, s)
    BY <2>1 DEF ReadGroup, Take, CheckGroup, RejectChange
  <2>5. change'[p].action = change[p].action /\ \A o \in Panels \ {p} : change'[o] = change[o]
    BY <2>4, ChangeMoves DEF GroupTypes
  <2>. QED BY <2>2, <2>3, <2>5, <1>1, <1>2, <1>6
<1>8. CASE \E p, q \in Panels : PlaceGroup(p, q)
  <2>1. PICK p \in Panels, q \in Panels : PlaceGroup(p, q)
    BY <1>8
  <2>2. /\ Browser /\ change[p] # NoChange /\ change[q] # NoChange
        /\ group' = Changed(source[q], change[q].action)
    BY <2>1, <1>2 DEF PlaceGroup
  <2>3. source' \in [Panels -> GroupTexts]
    BY <2>1, <1>1 DEF PlaceGroup
  <2>4. group' \in GroupTexts
    BY <2>2, <1>1, ChangedIsGroup DEF GroupTexts
  <2>5. \A o \in Panels : change'[o] = change[o] \/ (change[o] # NoChange /\ change'[o].action = change[o].action)
    BY <2>1, <2>2, PlacedKeepActions DEF GroupTypes
  <2>. QED BY <2>2, <2>3, <2>4, <2>5, <1>6
\* A command.
<1>9. CASE (\E x \in Actions : CommandReads(x)) \/ CommandTruncates \/ CommandWrites \/ CommandDies
  <2>1. UNCHANGED <<shown, opening, dialog, change, source>>
    BY <1>9 DEF CommandReads, CommandTruncates, CommandWrites, CommandDies, Web
  <2>2. (cli' = NoCommand \/ (IsCommandOf(cli') /\ cli'.action \in Actions /\ cli'.read \in GroupTexts)) /\ group' \in GroupTexts
    <3>1. CASE \E x \in Actions : CommandReads(x)
      <4>1. PICK x \in Actions : CommandReads(x)
        BY <3>1
      <4>2. cli' = [at |-> "read", action |-> x, read |-> group] /\ group' = group
        BY <4>1 DEF CommandReads
      <4>. QED BY <4>2, <1>1 DEF IsCommandOf
    <3>2. CASE CommandTruncates
      <4>1. IsCommandOf(cli) /\ cli.action \in Actions /\ cli.read \in GroupTexts
        BY <3>2, <1>1, <1>2 DEF CommandTruncates
      <4>2. cli' = [cli EXCEPT !.at = "writing"]
        BY <3>2 DEF CommandTruncates
      <4>3. IsCommandOf(cli') /\ cli'.action = cli.action /\ cli'.read = cli.read
        BY <4>1, <4>2, CommandMoves
      <4>. QED BY <3>2, <4>1, <4>3, <1>1 DEF CommandTruncates
    <3>3. CASE CommandWrites
      <4>1. cli.action \in Actions /\ cli.read \in GroupTexts
        BY <3>3, <1>1, <1>2 DEF CommandWrites
      <4>. QED BY <3>3, <4>1, ChangedIsGroup DEF CommandWrites, GroupTexts
    <3>4. CASE CommandDies
      BY <3>4, <1>1 DEF CommandDies
    <3>. QED BY <1>9, <3>1, <3>2, <3>3, <3>4
  <2>. QED BY <1>0, <1>1, <2>1, <2>2 DEF GroupTypes
<1>10. CASE UNCHANGED groupVars
  BY <1>0, <1>1, <1>10 DEF GroupTypes, groupVars
<1>. QED BY <1>4, <1>5, <1>7, <1>8, <1>9, <1>10 DEF GroupsNext

\* A group's file, and what panels show of it, is always a group of the members,
\* an empty file or none, for any members and panels: no action puts in place what
\* is no group.
THEOREM GroupsAreTyped == GroupsSpec => []GroupsTypeOK
<1>1. GroupTypes => GroupsTypeOK
  BY DEF GroupTypes, GroupsTypeOK, GroupTexts, GroupsInv, GroupsShape
<1>. QED BY <1>1, GroupTypesInit, GroupTypesStep, PTL DEF GroupsSpec

\* Where the validation of a group finds nothing, the runtime and the advice to the
\* steward name the same agents, whatever is excluded, although the runtime does not
\* ask whether a candidate is a member (resolveFallbackCandidates, recommendFallback).
THEOREM CleanGroupsNameTheSame == GroupsSpec => []CleanGroupsAgree
<1>1. CleanGroupsAgree
  <2>. DEFINE d == Data(group)
  <2>. SUFFICES ASSUME Dangling(d) = {}, NEW a \in Members, NEW excluded \in SUBSET Members
               PROVE  Candidates(d, a, excluded) = Recommended(d, a, excluded)
    BY DEF CleanGroupsAgree
  <2>. HIDE DEF d
  <2>1. d.order[a] # Unset => d.order[a] \subseteq d.agents
    BY DEF Dangling
  <2>. QED BY <2>1 DEF Candidates, Recommended
<1>. QED BY <1>1, PTL

-----------------------------------------------------------------------------
(* The commands that make vaults and agents.  What an agent is, is lost only *)
(* to the commands that say so.                                              *)

IsCommand(c) ==
    c = [kind |-> c.kind, agent |-> c.agent, from |-> c.from, force |-> c.force, todo |-> c.todo,
         found |-> c.found, conf |-> c.conf, pick |-> c.pick, mandate |-> c.mandate]

ProvisionSteps == {"probe", "vacant", "dirs", "soul", "memory", "prefs", "permit", "confirm", "forbid", "scaffold",
          "prefer", "look", "skill", "marker", "directives", "wiki", "delete", "default_model", "agree"}

\* Only a clone copies, into a directory it has not found.
TodoFits(c) ==
    \/ c.todo \in Seq(ProvisionSteps)
    \/ c.kind = "clone" /\ c.todo = <<"vacant", "copy", "permit">>
    \/ c.agent \notin c.found /\ c.todo = <<"copy", "permit">>

ProvisioningInv ==
    /\ papers = [a \in Crew |-> papers[a]] /\ \A a \in Crew : papers[a] = [p \in Papers |-> papers[a][p]]
    /\ shell = [s \in Shells |-> shell[s]] /\ \A s \in Shells : IsCommand(shell[s]) /\ TodoFits(shell[s])

LEMMA AtPromptFits == IsCommand(AtPrompt) /\ TodoFits(AtPrompt) /\ AtPrompt.todo = <<>>
BY DEF AtPrompt, IsCommand, TodoFits

LEMMA ProvisioningInvInit == ProvisioningInit => ProvisioningInv
<1>. SUFFICES ASSUME ProvisioningInit PROVE ProvisioningInv
  OBVIOUS
<1>1. papers = [a \in Crew |-> papers[a]] /\ \A a \in Crew : papers[a] = [p \in Papers |-> papers[a][p]]
  BY DEF ProvisioningInit, NoPapers
<1>2. shell = [s \in Shells |-> shell[s]] /\ \A s \in Shells : shell[s] = AtPrompt
  BY DEF ProvisioningInit
<1>. QED BY <1>1, <1>2, AtPromptFits DEF ProvisioningInv

LEMMA ShellsNow ==
    ASSUME ProvisioningInv
    PROVE  shell = [s \in Shells |-> shell[s]] /\ \A s \in Shells : IsCommand(shell[s]) /\ TodoFits(shell[s])
BY DEF ProvisioningInv

LEMMA PapersNow ==
    ASSUME ProvisioningInv
    PROVE  papers = [a \in Crew |-> papers[a]] /\ \A a \in Crew : papers[a] = [p \in Papers |-> papers[a][p]]
BY DEF ProvisioningInv

\* A command goes on with what is left of its steps, or with others before them.
LEMMA NewTodo ==
    ASSUME NEW c, IsCommand(c), NEW todo, NEW d, d = [c EXCEPT !.todo = todo]
    PROVE  IsCommand(d) /\ d.todo = todo /\ d.agent = c.agent /\ d.found = c.found /\ d.kind = c.kind
BY DEF IsCommand

LEMMA TuplesOf ==
    ASSUME NEW S, NEW a \in S, NEW b \in S, NEW c \in S, NEW d \in S, NEW e \in S, NEW f \in S
    PROVE  /\ <<>> \in Seq(S) /\ <<a>> \in Seq(S) /\ <<a, b>> \in Seq(S)
           /\ <<a, b, c, d, e, f>> \in Seq(S)
OBVIOUS

\* The rest of a command that is not at its own check.
LEMMA RestFits ==
    ASSUME NEW c, IsCommand(c), TodoFits(c), c.todo # <<>>, Head(c.todo) # "vacant"
    PROVE  Tail(c.todo) \in Seq(ProvisionSteps)
<1>1. CASE c.todo \in Seq(ProvisionSteps)
  BY <1>1
<1>2. CASE c.todo = <<"vacant", "copy", "permit">>
  BY <1>2
<1>3. CASE c.todo = <<"copy", "permit">>
  <2>1. Tail(c.todo) = <<"permit">>
    BY <1>3
  <2>2. "permit" \in ProvisionSteps
    BY DEF ProvisionSteps
  <2>. QED BY <2>1, <2>2, TuplesOf
<1>. QED BY <1>1, <1>2, <1>3 DEF TodoFits

\* A shell's command is replaced by one that fits.
LEMMA ShellStep ==
    ASSUME ProvisioningInv, NEW s \in Shells, NEW d, IsCommand(d), TodoFits(d), shell' = [shell EXCEPT ![s] = d],
           papers' = [a \in Crew |-> papers'[a]], \A a \in Crew : papers'[a] = [p \in Papers |-> papers'[a][p]]
    PROVE  ProvisioningInv'
<1>1. shell' = [t \in Shells |-> shell'[t]] /\ \A t \in Shells : shell'[t] = d \/ shell'[t] = shell[t]
  BY ShellsNow
<1>. QED BY <1>1, ShellsNow DEF ProvisioningInv

LEMMA EndsFits ==
    ASSUME NEW s \in Shells, Ends(s)
    PROVE  \E d : IsCommand(d) /\ TodoFits(d) /\ shell' = [shell EXCEPT ![s] = d]
BY AtPromptFits DEF Ends

LEMMA OnwardFits ==
    ASSUME ProvisioningInv, NEW s \in Shells, Onward(s), shell[s].todo # <<>>, Head(shell[s].todo) # "vacant"
    PROVE  \E d : IsCommand(d) /\ TodoFits(d) /\ shell' = [shell EXCEPT ![s] = d]
<1>1. CASE Len(shell[s].todo) = 1
  BY <1>1, EndsFits DEF Onward
<1>2. CASE Len(shell[s].todo) # 1
  <2>1. shell' = [shell EXCEPT ![s] = [shell[s] EXCEPT !.todo = Tail(shell[s].todo)]]
    BY <1>2 DEF Onward
  <2>2. IsCommand(shell[s]) /\ TodoFits(shell[s])
    BY ShellsNow
  <2>3. PICK d : d = [shell[s] EXCEPT !.todo = Tail(shell[s].todo)]
    OBVIOUS
  <2>4. IsCommand(d) /\ d.todo = Tail(shell[s].todo)
    BY <2>2, <2>3, NewTodo
  <2>5. TodoFits(d)
    BY <2>2, <2>4, RestFits DEF TodoFits
  <2>. QED BY <2>1, <2>3, <2>4, <2>5
<1>. QED BY <1>1, <1>2

LEMMA InsteadFits ==
    ASSUME ProvisioningInv, NEW s \in Shells, NEW steps \in Seq(ProvisionSteps), NEW mandate, Instead(s, steps, mandate),
           shell[s].todo # <<>>, Head(shell[s].todo) # "vacant"
    PROVE  \E d : IsCommand(d) /\ TodoFits(d) /\ shell' = [shell EXCEPT ![s] = d]
<1>0. IsCommand(shell[s])
  BY ShellsNow
<1>1. TodoFits(shell[s])
  BY ShellsNow
<1>2. PICK todo : todo = steps \o Tail(shell[s].todo)
  OBVIOUS
<1>3. PICK e : e = [shell[s] EXCEPT !.todo = todo]
  OBVIOUS
<1>4. PICK d : d = [e EXCEPT !.mandate = mandate]
  OBVIOUS
<1>5. shell' = [shell EXCEPT ![s] = d]
  <2>1. shell' = [[shell EXCEPT ![s] = e] EXCEPT ![s] = [[shell EXCEPT ![s] = e][s] EXCEPT !.mandate = mandate]]
    BY <1>2, <1>3 DEF Instead
  <2>2. [shell EXCEPT ![s] = e][s] = e
    BY ShellsNow
  <2>. QED BY <1>4, <2>1, <2>2
<1>6. IsCommand(e) /\ e.todo = todo
  BY <1>0, <1>3, NewTodo DEF IsCommand
<1>7. IsCommand(d) /\ d.todo = todo
  BY <1>4, <1>6 DEF IsCommand
<1>8. todo \in Seq(ProvisionSteps)
  BY <1>0, <1>1, <1>2, RestFits, ConcatProperties
<1>. QED BY <1>5, <1>7, <1>8 DEF TodoFits

\* Papers change one by one, or all of one agent.
LEMMA PapersStay ==
    ASSUME ProvisioningInv, NEW a, NEW q,
           \/ UNCHANGED papers
           \/ \E v : papers' = [papers EXCEPT ![a][q] = v]
           \/ \E f : papers' = [papers EXCEPT ![a] = [p \in Papers |-> f[p]]]
    PROVE  papers' = [b \in Crew |-> papers'[b]] /\ \A b \in Crew : papers'[b] = [p \in Papers |-> papers'[b][p]]
<1>1. CASE UNCHANGED papers
  BY <1>1, PapersNow
<1>2. CASE \E v : papers' = [papers EXCEPT ![a][q] = v]
  <2>1. PICK v : papers' = [papers EXCEPT ![a][q] = v]
    BY <1>2
  <2>2. PICK g : g = [papers[a] EXCEPT ![q] = v]
    OBVIOUS
  <2>3. papers' = [papers EXCEPT ![a] = g]
    BY <2>1, <2>2
  <2>4. a \in Crew => g = [p \in Papers |-> g[p]]
    BY <2>2, PapersNow
  <2>. QED BY <2>3, <2>4, PapersNow
<1>3. CASE \E f : papers' = [papers EXCEPT ![a] = [p \in Papers |-> f[p]]]
  <2>1. PICK f : papers' = [papers EXCEPT ![a] = [p \in Papers |-> f[p]]]
    BY <1>3
  <2>2. PICK g : g = [p \in Papers |-> f[p]]
    OBVIOUS
  <2>3. g = [p \in Papers |-> g[p]] /\ papers' = [papers EXCEPT ![a] = g]
    BY <2>1, <2>2
  <2>. QED BY <2>3, PapersNow
<1>. QED BY <1>1, <1>2, <1>3

LEMMA PlanIsKnown ==
    /\ \A kind \in {"init", "add", "remove", "setup", "wizard"} : Plan(kind) \in Seq(ProvisionSteps)
    /\ Plan("clone") = <<"vacant", "copy", "permit">>
<1>1. Plan("init") = <<"probe">> /\ Plan("remove") = <<"confirm", "forbid">>
  BY DEF Plan
<1>2. Plan("setup") = <<"scaffold", "prefer">> /\ Plan("wizard") = <<"look">>
  BY DEF Plan
<1>3. Plan("add") = <<"vacant", "dirs", "soul", "memory", "prefs", "permit">> /\ Plan("clone") = <<"vacant", "copy", "permit">>
  BY DEF Plan
<1>4. /\ {"vacant", "dirs", "soul", "memory", "prefs", "permit"} \subseteq ProvisionSteps
      /\ {"probe", "look", "confirm", "forbid", "scaffold", "prefer"} \subseteq ProvisionSteps
  BY DEF ProvisionSteps
<1>5. <<"vacant", "dirs", "soul", "memory", "prefs", "permit">> \in Seq(ProvisionSteps)
  BY <1>4, TuplesOf
<1>6. <<"probe">> \in Seq(ProvisionSteps) /\ <<"look">> \in Seq(ProvisionSteps)
  BY <1>4, TuplesOf
<1>7. <<"confirm", "forbid">> \in Seq(ProvisionSteps) /\ <<"scaffold", "prefer">> \in Seq(ProvisionSteps)
  BY <1>4, TuplesOf
<1>8. Plan("add") \in Seq(ProvisionSteps)
  BY <1>3, <1>5
<1>9. Plan("init") \in Seq(ProvisionSteps) /\ Plan("wizard") \in Seq(ProvisionSteps)
  BY <1>1, <1>2, <1>6
<1>10. Plan("remove") \in Seq(ProvisionSteps) /\ Plan("setup") \in Seq(ProvisionSteps)
  BY <1>1, <1>2, <1>7
<1>. QED BY <1>3, <1>8, <1>9, <1>10

LEMMA BeginKeepsProvisioning ==
    ASSUME ProvisioningInv, NEW s \in Shells, BeginProvision(s)
    PROVE  ProvisioningInv'
<1>0. PICK kind \in {"init", "add", "clone", "remove", "setup", "wizard"}, a, from \in Crew, force \in BOOLEAN :
          /\ shell[s] = AtPrompt
          /\ force => kind \in {"init", "add"}
          /\ (kind = "clone") = (a # from)
          /\ ProvAct
          /\ \E conf \in {local, EmptyConfig} :
                /\ kind \in {"init", "wizard"} => conf = EmptyConfig
                /\ shell' = [shell EXCEPT ![s] = Commanded(kind, a, from, force, conf)]
          /\ UNCHANGED <<vault, homes, papers, local>>
  BY Zenon DEF BeginProvision
<1>1. PICK conf : shell' = [shell EXCEPT ![s] = Commanded(kind, a, from, force, conf)]
  BY <1>0, Zenon
<1>2. PICK todo : todo = Plan(kind)
  OBVIOUS
<1>3. PICK d : d = [AtPrompt EXCEPT !.kind = kind, !.agent = a, !.from = from, !.force = force,
                                    !.todo = todo, !.found = homes, !.conf = conf]
  OBVIOUS
<1>4. IsCommand(d) /\ d.kind = kind /\ d.todo = todo
  BY <1>3 DEF IsCommand, AtPrompt
<1>5. TodoFits(d)
  BY <1>2, <1>4, PlanIsKnown DEF TodoFits
<1>6. UNCHANGED papers
  BY DEF BeginProvision
<1>7. shell' = [shell EXCEPT ![s] = d]
  BY <1>1, <1>2, <1>3 DEF Commanded
<1>. QED BY <1>4, <1>5, <1>6, <1>7, PapersNow, ShellStep

LEMMA UponIs == ASSUME NEW s, NEW what, Upon(s, what) PROVE shell[s].todo # <<>> /\ Head(shell[s].todo) = what
BY DEF Upon

\* The commands of a vault.
LEMMA VaultStepsKeep ==
    ASSUME ProvisioningInv, NEW s \in Shells,
           \/ ProvisionDies(s) \/ Probe(s) \/ MakeDirs(s) \/ CreateBaseline(s) \/ MarkVault(s) \/ WriteDirectives(s)
           \/ WriteWiki(s) \/ Permit(s) \/ ConfirmRemoval(s) \/ Forbid(s) \/ ScaffoldLocal(s) \/ Agree(s)
    PROVE  ProvisioningInv'
<1>0. UNCHANGED papers
  BY DEF ProvisionDies, Probe, MakeDirs, CreateBaseline, MarkVault, WriteDirectives, WriteWiki, Permit,
         ConfirmRemoval, Forbid, ScaffoldLocal, Agree
<1>1. <<"dirs">> \o VaultFiles \in Seq(ProvisionSteps) /\ <<"dirs", "skill">> \o VaultFiles \in Seq(ProvisionSteps)
  <2>1. {"marker", "directives", "soul", "memory", "prefs", "wiki", "dirs", "skill"} \subseteq ProvisionSteps
    BY DEF ProvisionSteps
  <2>2. VaultFiles \in Seq(ProvisionSteps)
    BY <2>1, TuplesOf DEF VaultFiles
  <2>3. <<"dirs">> \in Seq(ProvisionSteps) /\ <<"dirs", "skill">> \in Seq(ProvisionSteps)
    BY <2>1, TuplesOf
  <2>. QED BY <2>2, <2>3, ConcatProperties
<1>2. <<>> \in Seq(ProvisionSteps) /\ <<"delete">> \in Seq(ProvisionSteps)
  <2>1. "delete" \in ProvisionSteps
    BY DEF ProvisionSteps
  <2>. QED BY <2>1, TuplesOf
<1>3. CASE ProvisionDies(s) \/ Ends(s)
  <2>1. Ends(s)
    BY <1>3 DEF ProvisionDies
  <2>. QED BY <1>0, <2>1, EndsFits, PapersNow, ShellStep
<1>4. CASE Onward(s) /\ shell[s].todo # <<>> /\ Head(shell[s].todo) # "vacant"
  BY <1>0, <1>4, OnwardFits, PapersNow, ShellStep
<1>5. ASSUME NEW steps \in Seq(ProvisionSteps), NEW mandate, Instead(s, steps, mandate),
             shell[s].todo # <<>>, Head(shell[s].todo) # "vacant"
      PROVE  ProvisioningInv'
  BY <1>0, <1>5, InsteadFits, PapersNow, ShellStep
<1>6. CASE Probe(s)
  <2>1. Upon(s, "probe") /\ \E steps \in Seq(ProvisionSteps) : Instead(s, steps, FALSE)
    BY <1>1, <1>6 DEF Probe
  <2>2. shell[s].todo # <<>> /\ Head(shell[s].todo) = "probe"
    BY <2>1, UponIs
  <2>. QED BY <1>5, <2>1, <2>2
<1>7. CASE CreateBaseline(s)
  <2>1. Upon(s, "skill") /\ \E mandate : Instead(s, <<>>, mandate)
    BY <1>7 DEF CreateBaseline
  <2>2. shell[s].todo # <<>> /\ Head(shell[s].todo) = "skill"
    BY <2>1, UponIs
  <2>. QED BY <1>2, <1>5, <2>1, <2>2
<1>8. CASE ConfirmRemoval(s)
  <2>1. Upon(s, "confirm") /\ (Instead(s, <<"delete">>, FALSE) \/ Onward(s))
    BY <1>8 DEF ConfirmRemoval
  <2>2. shell[s].todo # <<>> /\ Head(shell[s].todo) = "confirm"
    BY <2>1, UponIs
  <2>. QED BY <1>2, <1>4, <1>5, <2>1, <2>2
<1>9. CASE MakeDirs(s) \/ MarkVault(s) \/ WriteDirectives(s) \/ WriteWiki(s)
  <2>1. \E what \in {"dirs", "marker", "directives", "wiki"} : Upon(s, what)
    BY <1>9 DEF MakeDirs, MarkVault, WriteDirectives, WriteWiki
  <2>2. Ends(s) \/ Onward(s)
    BY <1>9 DEF MakeDirs, MarkVault, WriteDirectives, WriteWiki
  <2>. QED BY <1>3, <1>4, <2>1, <2>2, UponIs
<1>10. CASE Permit(s) \/ Forbid(s) \/ ScaffoldLocal(s) \/ Agree(s)
  <2>1. \E what \in {"permit", "forbid", "scaffold", "agree"} : Upon(s, what)
    BY <1>10 DEF Permit, Forbid, ScaffoldLocal, Agree
  <2>2. Onward(s)
    BY <1>10 DEF Permit, Forbid, ScaffoldLocal, Agree
  <2>. QED BY <1>4, <2>1, <2>2, UponIs
<1>. QED BY <1>3, <1>6, <1>7, <1>8, <1>9, <1>10

\* Those that write into an agent's directory.
LEMMA AgentStepsKeep ==
    ASSUME ProvisioningInv, NEW s \in Shells,
           WriteIdentity(s) \/ CopyAgent(s) \/ DeleteAgent(s) \/ Prefer(s) \/ DefaultModel(s)
    PROVE  ProvisioningInv'
<1>1. \E d : IsCommand(d) /\ TodoFits(d) /\ shell' = [shell EXCEPT ![s] = d]
  <2>1. \E what \in {"soul", "memory", "prefs", "copy", "delete", "prefer", "default_model"} : Upon(s, what)
    BY DEF WriteIdentity, CopyAgent, DeleteAgent, Prefer, DefaultModel, Papers
  <2>2. Ends(s) \/ Onward(s)
    BY DEF WriteIdentity, WritePaper, CopyAgent, DeleteAgent, Prefer, DefaultModel
  <2>. QED BY <2>1, <2>2, UponIs, EndsFits, OnwardFits
<1>2. papers' = [b \in Crew |-> papers'[b]] /\ \A b \in Crew : papers'[b] = [p \in Papers |-> papers'[b][p]]
  <2>1. CASE WriteIdentity(s)
    BY <2>1, PapersStay DEF WriteIdentity, WritePaper
  <2>2. CASE CopyAgent(s)
    <3>1. CASE UNCHANGED papers
      BY <3>1, PapersNow
    <3>2. CASE ~UNCHANGED papers
      <4>1. PICK f : f = [p \in Papers |-> IF papers[shell[s].from][p] # "none" THEN papers[shell[s].from][p]
                                           ELSE papers[shell[s].agent][p]]
        OBVIOUS
      <4>2. papers' = [papers EXCEPT ![shell[s].agent] = f] /\ f = [p \in Papers |-> f[p]]
        BY <2>2, <3>2, <4>1 DEF CopyAgent
      <4>. QED BY <4>2, PapersStay
    <3>. QED BY <3>1, <3>2
  <2>3. CASE DeleteAgent(s)
    <3>1. papers' = [papers EXCEPT ![shell[s].agent] = NoPapers] /\ NoPapers = [p \in Papers |-> NoPapers[p]]
      BY <2>3 DEF DeleteAgent, NoPapers
    <3>. QED BY <3>1, PapersStay
  <2>4. CASE Prefer(s)
    <3>1. UNCHANGED papers \/ papers' = [papers EXCEPT ![shell[s].agent]["prefs"] = "fresh"]
      BY <2>4 DEF Prefer
    <3>. QED BY <3>1, PapersStay
  <2>5. CASE DefaultModel(s)
    <3>1. UNCHANGED papers \/ \E v : papers' = [papers EXCEPT ![shell[s].agent]["prefs"] = v]
      BY <2>5 DEF DefaultModel
    <3>. QED BY <3>1, PapersStay
  <2>. QED BY <2>1, <2>2, <2>3, <2>4, <2>5
<1>. QED BY <1>1, <1>2, ShellStep

LEMMA CheckVacantKeeps ==
    ASSUME ProvisioningInv, NEW s \in Shells, CheckVacant(s)
    PROVE  ProvisioningInv'
<1>0. UNCHANGED papers /\ Upon(s, "vacant")
  BY DEF CheckVacant
<1>1. CASE Ends(s)
  BY <1>0, <1>1, EndsFits, PapersNow, ShellStep
<1>2. CASE Vacant(s) /\ shell' = [shell EXCEPT ![s].todo = Tail(@), ![s].found = homes]
  <2>1. IsCommand(shell[s]) /\ TodoFits(shell[s])
    BY ShellsNow
  <2>2. PICK todo : todo = Tail(shell[s].todo)
    OBVIOUS
  <2>3. PICK e : e = [shell[s] EXCEPT !.todo = todo]
    OBVIOUS
  <2>4. PICK d : d = [e EXCEPT !.found = homes]
    OBVIOUS
  <2>5. shell' = [shell EXCEPT ![s] = d]
    <3>1. shell' = [[shell EXCEPT ![s] = e] EXCEPT ![s] = [[shell EXCEPT ![s] = e][s] EXCEPT !.found = homes]]
      BY <1>2, <2>2, <2>3
    <3>2. [shell EXCEPT ![s] = e][s] = e
      BY ShellsNow
    <3>. QED BY <2>4, <3>1, <3>2
  <2>6. IsCommand(e) /\ e.todo = todo /\ e.agent = shell[s].agent
    BY <2>1, <2>3, NewTodo
  <2>7. IsCommand(d) /\ d.todo = todo /\ d.agent = shell[s].agent /\ d.found = homes
    BY <2>4, <2>6 DEF IsCommand
  <2>8. TodoFits(d)
    <3>1. CASE shell[s].todo \in Seq(ProvisionSteps)
      BY <1>0, <2>2, <2>7, <3>1, UponIs DEF TodoFits
    <3>2. CASE shell[s].kind = "clone" /\ shell[s].todo = <<"vacant", "copy", "permit">>
      <4>1. shell[s].agent \notin homes
        BY <1>2, <3>2 DEF Vacant
      <4>2. todo = <<"copy", "permit">>
        BY <2>2, <3>2
      <4>. QED BY <2>7, <4>1, <4>2 DEF TodoFits
    <3>3. CASE shell[s].todo = <<"copy", "permit">>
      BY <1>0, <3>3, UponIs
    <3>. QED BY <2>1, <3>1, <3>2, <3>3 DEF TodoFits
  <2>. QED BY <1>0, <2>5, <2>7, <2>8, PapersNow, ShellStep
<1>. QED BY <1>1, <1>2 DEF CheckVacant

LEMMA LookKeeps ==
    ASSUME ProvisioningInv, NEW s \in Shells, Look(s)
    PROVE  ProvisioningInv'
<1>1. PICK allowed, excluded :
          shell' = [shell EXCEPT
                ![s].todo = (IF homes = {} \/ ~VaultThere THEN <<"probe">> ELSE <<>>)
                               \o (IF VaultThere THEN <<>> ELSE <<"default_model">>)
                               \o <<"agree">>,
                ![s].pick = [allowed |-> allowed, excluded |-> excluded]]
  BY DEF Look
<1>2. PICK todo : todo = (IF homes = {} \/ ~VaultThere THEN <<"probe">> ELSE <<>>)
                            \o (IF VaultThere THEN <<>> ELSE <<"default_model">>) \o <<"agree">>
  OBVIOUS
<1>3. todo \in Seq(ProvisionSteps)
  <2>0. {"probe", "default_model", "agree"} \subseteq ProvisionSteps
    BY DEF ProvisionSteps
  <2>a. /\ <<>> \in Seq(ProvisionSteps) /\ <<"probe">> \in Seq(ProvisionSteps)
        /\ <<"default_model">> \in Seq(ProvisionSteps) /\ <<"agree">> \in Seq(ProvisionSteps)
    BY <2>0, TuplesOf
  <2>1. (IF homes = {} \/ ~VaultThere THEN <<"probe">> ELSE <<>>) \in Seq(ProvisionSteps)
    BY <2>a
  <2>2. (IF VaultThere THEN <<>> ELSE <<"default_model">>) \in Seq(ProvisionSteps)
    BY <2>a
  <2>3. <<"agree">> \in Seq(ProvisionSteps)
    BY <2>a
  <2>. QED BY <1>2, <2>1, <2>2, <2>3, ConcatProperties
<1>4. IsCommand(shell[s])
  BY ShellsNow
<1>5. PICK pick : pick = [allowed |-> allowed, excluded |-> excluded]
  OBVIOUS
<1>6. PICK e : e = [shell[s] EXCEPT !.todo = todo]
  OBVIOUS
<1>7. PICK d : d = [e EXCEPT !.pick = pick]
  OBVIOUS
<1>8. shell' = [shell EXCEPT ![s] = d]
  <2>1. shell' = [[shell EXCEPT ![s] = e] EXCEPT ![s] = [[shell EXCEPT ![s] = e][s] EXCEPT !.pick = pick]]
    BY <1>1, <1>2, <1>5, <1>6
  <2>2. [shell EXCEPT ![s] = e][s] = e
    BY ShellsNow
  <2>. QED BY <1>7, <2>1, <2>2
<1>9. IsCommand(e) /\ e.todo = todo
  BY <1>4, <1>6, NewTodo
<1>10. IsCommand(d) /\ d.todo = todo
  BY <1>7, <1>9 DEF IsCommand
<1>11. TodoFits(d)
  BY <1>3, <1>10 DEF TodoFits
<1>12. UNCHANGED papers
  BY DEF Look
<1>. QED BY <1>8, <1>10, <1>11, <1>12, PapersNow, ShellStep

LEMMA ProvisioningInvStep == ProvisioningInv /\ [ProvisioningNext]_provVars => ProvisioningInv'
<1>. SUFFICES ASSUME ProvisioningInv, [ProvisioningNext]_provVars PROVE ProvisioningInv'
  OBVIOUS
<1>1. CASE \E s \in Shells : BeginProvision(s)
  BY <1>1, BeginKeepsProvisioning
<1>2. CASE \E s \in Shells :
              \/ ProvisionDies(s) \/ Probe(s) \/ MakeDirs(s) \/ CreateBaseline(s) \/ MarkVault(s) \/ WriteDirectives(s)
              \/ WriteWiki(s) \/ Permit(s) \/ ConfirmRemoval(s) \/ Forbid(s) \/ ScaffoldLocal(s) \/ Agree(s)
  BY <1>2, VaultStepsKeep
<1>3. CASE \E s \in Shells : WriteIdentity(s) \/ CopyAgent(s) \/ DeleteAgent(s) \/ Prefer(s) \/ DefaultModel(s)
  BY <1>3, AgentStepsKeep
<1>4. CASE \E s \in Shells : CheckVacant(s)
  BY <1>4, CheckVacantKeeps
<1>5. CASE \E s \in Shells : Look(s)
  BY <1>5, LookKeeps
<1>6. CASE Grow \/ Remember \/ UNCHANGED provVars
  <2>1. UNCHANGED shell
    BY <1>6 DEF Grow, Remember, provVars
  <2>2. papers' = [b \in Crew |-> papers'[b]] /\ \A b \in Crew : papers'[b] = [p \in Papers |-> papers'[b][p]]
    BY <1>6, PapersNow, PapersStay DEF Grow, Remember, provVars
  <2>. QED BY <2>1, <2>2, ShellsNow DEF ProvisioningInv
<1>. QED BY <1>1, <1>2, <1>3, <1>4, <1>5, <1>6, Zenon DEF ProvisioningNext

\* What an agent is and remembers, in a directory that was there when a command
\* began or looked, is lost to that command only if it was forced or if the
\* steward confirmed its removal: for any agents, shells and commands at once,
\* whatever is killed in between (init.ts, agent-manage.ts, setup.ts).
THEOREM IdentitiesAreKept == ProvisioningSpec => IdentityKept
<1>. DEFINE Lost(a, p) == papers[a][p] = "grown" /\ papers'[a][p] # "grown"
            Meant(a) == \E s \in Shells : /\ shell[s].agent = a
                                          /\ shell[s].force \/ Upon(s, "delete") \/ a \notin shell[s].found
<1>1. ASSUME ProvisioningInv, ProvisioningNext, NEW a \in Crew, NEW p \in {"soul", "memory"}, Lost(a, p)
      PROVE  Meant(a)
  <2>0. p \in Papers /\ p # "prefs" /\ ~UNCHANGED papers
    BY <1>1 DEF Papers
  <2>1. CASE \E s \in Shells : WriteIdentity(s)
    <3>1. PICK s \in Shells : WriteIdentity(s)
      BY <2>1
    <3>2. PICK q \in Papers : WritePaper(s, q)
      BY <2>0, <3>1 DEF WriteIdentity
    <3>3. /\ papers[shell[s].agent][q] = "none" \/ shell[s].force
          /\ papers' = [papers EXCEPT ![shell[s].agent][q] = "fresh"]
      BY <2>0, <3>2 DEF WritePaper
    <3>4. shell[s].agent = a /\ q = p
      BY <1>1, <2>0, <3>3, PapersNow
    <3>. QED BY <1>1, <3>3, <3>4
  <2>2. CASE \E s \in Shells : CopyAgent(s)
    <3>1. PICK s \in Shells : CopyAgent(s)
      BY <2>2
    <3>2. papers' = [papers EXCEPT ![shell[s].agent] = papers'[shell[s].agent]] \/ shell[s].agent \notin Crew
      BY <2>0, <3>1, PapersNow DEF CopyAgent
    <3>3. shell[s].agent = a
      BY <1>1, <2>0, <3>1, PapersNow DEF CopyAgent
    <3>4. TodoFits(shell[s]) /\ Head(shell[s].todo) = "copy" /\ shell[s].todo # <<>>
      BY <1>1, <3>1, ShellsNow, UponIs DEF CopyAgent
    <3>5. shell[s].agent \notin shell[s].found
      <4>1. CASE shell[s].todo \in Seq(ProvisionSteps)
        <5>1. Head(shell[s].todo) \in ProvisionSteps
          BY <3>4, <4>1
        <5>. QED BY <3>4, <5>1 DEF ProvisionSteps
      <4>2. CASE shell[s].todo = <<"vacant", "copy", "permit">>
        BY <3>4, <4>2
      <4>. QED BY <3>4, <4>1, <4>2 DEF TodoFits
    <3>. QED BY <3>3, <3>5
  <2>3. CASE \E s \in Shells : DeleteAgent(s)
    <3>1. PICK s \in Shells : DeleteAgent(s)
      BY <2>3
    <3>2. shell[s].agent = a
      BY <1>1, <3>1, PapersNow DEF DeleteAgent
    <3>. QED BY <3>1, <3>2 DEF DeleteAgent
  <2>4. ASSUME NEW b, NEW v, papers' = [papers EXCEPT ![b]["prefs"] = v] PROVE FALSE
    <3>1. PICK g : g = [papers[b] EXCEPT !["prefs"] = v]
      OBVIOUS
    <3>2. papers' = [papers EXCEPT ![b] = g]
      BY <2>4, <3>1
    <3>3. b \in Crew => g[p] = papers[b][p]
      BY <2>0, <3>1, <1>1, PapersNow
    <3>. QED BY <1>1, <3>2, <3>3, PapersNow
  <2>5. CASE \E s \in Shells : Prefer(s) \/ DefaultModel(s)
    <3>1. UNCHANGED papers \/ \E b, v : papers' = [papers EXCEPT ![b]["prefs"] = v]
      BY <2>5 DEF Prefer, DefaultModel
    <3>. QED BY <2>0, <2>4, <3>1
  <2>6. ASSUME NEW b, NEW q, papers' = [papers EXCEPT ![b][q] = "grown"] PROVE FALSE
    <3>1. PICK g : g = [papers[b] EXCEPT ![q] = "grown"]
      OBVIOUS
    <3>2. papers' = [papers EXCEPT ![b] = g]
      BY <2>6, <3>1
    <3>3. b \in Crew => g[p] = papers[b][p] \/ g[p] = "grown"
      BY <2>0, <3>1, <1>1, PapersNow
    <3>. QED BY <1>1, <3>2, <3>3, PapersNow
  <2>7. CASE Grow \/ Remember
    <3>1. \E b, q : papers' = [papers EXCEPT ![b][q] = "grown"]
      BY <2>7 DEF Grow, Remember
    <3>. QED BY <2>6, <3>1
  <2>8. ASSUME NEW s \in Shells,
               \/ BeginProvision(s) \/ ProvisionDies(s) \/ Probe(s) \/ MakeDirs(s) \/ CreateBaseline(s) \/ MarkVault(s)
               \/ WriteDirectives(s) \/ WriteWiki(s) \/ CheckVacant(s) \/ Permit(s) \/ ConfirmRemoval(s)
               \/ Forbid(s) \/ ScaffoldLocal(s) \/ Look(s) \/ Agree(s)
        PROVE  FALSE
    BY <2>0, <2>8 DEF BeginProvision, ProvisionDies, Probe, MakeDirs, CreateBaseline, MarkVault, WriteDirectives,
       WriteWiki, CheckVacant, Permit, ConfirmRemoval, Forbid, ScaffoldLocal, Look, Agree
  <2>. QED BY <1>1, <2>1, <2>2, <2>3, <2>5, <2>7, <2>8, Zenon DEF ProvisioningNext
<1>2. ProvisioningInv /\ [ProvisioningNext]_provVars =>
        [\A a \in Crew, p \in {"soul", "memory"} :
            papers[a][p] = "grown" /\ papers'[a][p] # "grown" =>
                \E s \in Shells :
                    /\ shell[s].agent = a
                    /\ shell[s].force \/ Upon(s, "delete") \/ a \notin shell[s].found]_provVars
  BY <1>1, Zenon
<1>. QED BY <1>2, ProvisioningInvInit, ProvisioningInvStep, PTL DEF ProvisioningSpec, IdentityKept

-----------------------------------------------------------------------------

Configs == [root : BOOLEAN, allowed : SUBSET Crew, excluded : SUBSET Crew]

Picks == [allowed : SUBSET Crew, excluded : SUBSET Crew]

\* What a command has read, been asked and been told; one that has a step ahead is
\* about an agent.
CommandTypes(c) ==
    /\ c.todo # <<>> => c.agent \in Crew /\ c.from \in Crew
    /\ c.conf \in Configs /\ c.pick \in Picks

ProvisioningTypes == ProvisioningInv /\ ProvisioningTypeOK /\ \A s \in Shells : CommandTypes(shell[s])

LEMMA AtPromptTypes == CommandTypes(AtPrompt) /\ EmptyConfig \in Configs
BY DEF AtPrompt, CommandTypes, EmptyConfig, NoPick, Configs, Picks

\* A step of one shell leaves its command typed.
LEMMA CommandStaysTyped ==
    ASSUME ProvisioningTypes, NEW s \in Shells, Ends(s) \/ Onward(s) \/ (\E steps, mandate : Instead(s, steps, mandate)),
           shell[s].todo # <<>>
    PROVE  DOMAIN shell' = Shells /\ \A o \in Shells : CommandTypes(shell'[o])
<1>1. /\ shell = [o \in Shells |-> shell[o]] /\ IsCommand(shell[s]) /\ CommandTypes(shell[s])
      /\ \A o \in Shells : CommandTypes(shell[o])
  BY DEF ProvisioningTypes, ProvisioningInv
<1>2. CASE Ends(s)
  BY <1>1, <1>2, AtPromptTypes DEF Ends
<1>3. ASSUME NEW c, shell' = [shell EXCEPT ![s] = c], c.agent = shell[s].agent, c.from = shell[s].from,
             c.conf = shell[s].conf, c.pick = shell[s].pick
      PROVE  DOMAIN shell' = Shells /\ \A o \in Shells : CommandTypes(shell'[o])
  <2>1. CommandTypes(c)
    BY <1>1, <1>3 DEF CommandTypes
  <2>. QED BY <2>1, <1>1, <1>3
<1>4. CASE shell' = [shell EXCEPT ![s].todo = Tail(@)]
  <2>1. shell' = [shell EXCEPT ![s] = [shell[s] EXCEPT !.todo = Tail(@)]]
    BY <1>4
  <2>. QED BY <2>1, <1>1, <1>3 DEF IsCommand
<1>5. CASE \E steps, mandate : Instead(s, steps, mandate)
  <2>1. PICK steps, mandate : Instead(s, steps, mandate)
    BY <1>5
  <2>2. shell' = [shell EXCEPT ![s] = [shell[s] EXCEPT !.todo = steps \o Tail(@), !.mandate = mandate]]
    BY <2>1 DEF Instead
  <2>. QED BY <2>2, <1>1, <1>3 DEF IsCommand
<1>. QED BY <1>2, <1>4, <1>5 DEF Onward

\* What stands in the vault, the directories and the local config keeps its type.
HomeTypes ==
    /\ vault \in [marker : BOOLEAN, directives : {"none", "plain", "mandated"}, skill : BOOLEAN, wiki : BOOLEAN]
    /\ homes \subseteq Crew
    /\ papers \in [Crew -> [Papers -> {"none", "fresh", "grown"}]]
    /\ local \in Configs

LEMMA HomesStayTyped ==
    ASSUME ProvisioningTypes, NEW s \in Shells,
           \/ ProvisionDies(s) \/ Probe(s) \/ MakeDirs(s) \/ CreateBaseline(s) \/ MarkVault(s) \/ WriteDirectives(s)
           \/ WriteIdentity(s) \/ WriteWiki(s) \/ CopyAgent(s) \/ Permit(s) \/ ConfirmRemoval(s) \/ DeleteAgent(s)
           \/ Forbid(s) \/ ScaffoldLocal(s) \/ Prefer(s) \/ DefaultModel(s) \/ Agree(s)
    PROVE  HomeTypes'
<1>1. /\ vault \in [marker : BOOLEAN, directives : {"none", "plain", "mandated"}, skill : BOOLEAN, wiki : BOOLEAN]
      /\ homes \subseteq Crew
      /\ papers \in [Crew -> [Papers -> {"none", "fresh", "grown"}]]
      /\ local \in Configs
      /\ CommandTypes(shell[s])
  BY DEF ProvisioningTypes, ProvisioningTypeOK, Configs
<1>2. CASE UNCHANGED <<vault, homes, papers, local>>
  BY <1>1, <1>2 DEF HomeTypes
<1>3. CASE ProvisionDies(s) \/ Probe(s) \/ ConfirmRemoval(s)
  BY <1>2, <1>3 DEF ProvisionDies, Probe, ConfirmRemoval
<1>4. shell[s].conf \in Configs /\ shell[s].pick \in Picks
  BY <1>1 DEF CommandTypes
<1>5. \A what : Upon(s, what) => shell[s].agent \in Crew /\ shell[s].from \in Crew
  BY <1>1 DEF Upon, CommandTypes
<1>6. CASE MakeDirs(s)
  BY <1>1, <1>5, <1>6 DEF MakeDirs, HomeTypes
<1>7. CASE CreateBaseline(s)
  BY <1>1, <1>7 DEF CreateBaseline, HomeTypes
<1>8. CASE MarkVault(s)
  BY <1>1, <1>8 DEF MarkVault, HomeTypes
<1>9. CASE WriteDirectives(s)
  BY <1>1, <1>9 DEF WriteDirectives, HomeTypes
<1>10. CASE WriteWiki(s)
  BY <1>1, <1>10 DEF WriteWiki, HomeTypes
<1>11. CASE WriteIdentity(s)
  <2>1. PICK p \in Papers : Upon(s, p) /\ (WritePaper(s, p) \/ UNCHANGED papers)
    BY <1>11 DEF WriteIdentity
  <2>2. papers' \in [Crew -> [Papers -> {"none", "fresh", "grown"}]]
    BY <2>1, <1>1, <1>5, SMTT(30) DEF WritePaper
  <2>. QED BY <1>1, <1>11, <2>2 DEF WriteIdentity, HomeTypes
<1>12. CASE CopyAgent(s)
  <2>1. papers' \in [Crew -> [Papers -> {"none", "fresh", "grown"}]] /\ homes' \subseteq Crew
    <3>1. shell[s].agent \in Crew /\ shell[s].from \in Crew
      BY <1>5, <1>12 DEF CopyAgent
    <3>2. CASE shell[s].from \in homes
      <4>. DEFINE copied == [p \in Papers |-> IF papers[shell[s].from][p] # "none" THEN papers[shell[s].from][p]
                                               ELSE papers[shell[s].agent][p]]
      <4>1. papers' = [papers EXCEPT ![shell[s].agent] = copied]
        BY <3>2, <1>12 DEF CopyAgent
      <4>2. copied \in [Papers -> {"none", "fresh", "grown"}]
        BY <1>1, <3>1
      <4>3. homes' \subseteq Crew
        BY <3>1, <3>2, <1>1, <1>12 DEF CopyAgent
      <4>. HIDE DEF copied
      <4>. QED BY <4>1, <4>2, <4>3, <1>1, <3>1
    <3>3. CASE shell[s].from \notin homes
      BY <3>3, <1>1, <1>12 DEF CopyAgent
    <3>. QED BY <3>2, <3>3
  <2>. QED BY <1>1, <1>12, <2>1 DEF CopyAgent, HomeTypes
<1>13. CASE Permit(s) \/ Forbid(s)
  <2>1. [shell[s].conf EXCEPT !.allowed = @ \ {shell[s].agent}] \in Configs
    BY <1>4 DEF Configs
  <2>2. CASE Permit(s)
    <3>1. shell[s].agent \in Crew
      BY <1>5, <2>2 DEF Permit
    <3>2. [shell[s].conf EXCEPT !.allowed = @ \cup {shell[s].agent}] \in Configs
      BY <1>4, <3>1 DEF Configs
    <3>. QED BY <1>1, <2>2, <3>2 DEF Permit, HomeTypes
  <2>. QED BY <1>1, <1>13, <2>1, <2>2 DEF Forbid, HomeTypes
<1>14. CASE DeleteAgent(s)
  <2>1. NoPapers \in [Papers -> {"none", "fresh", "grown"}]
    BY DEF NoPapers
  <2>. QED BY <1>1, <1>14, <2>1 DEF DeleteAgent, HomeTypes
<1>15. CASE ScaffoldLocal(s)
  <2>1. shell[s].agent \in Crew
    BY <1>5, <1>15 DEF ScaffoldLocal
  <2>2. [EmptyConfig EXCEPT !.root = TRUE, !.allowed = {shell[s].agent}] \in Configs
    BY <2>1, AtPromptTypes DEF Configs
  <2>. QED BY <1>1, <1>15, <2>2 DEF ScaffoldLocal, HomeTypes
<1>16. CASE Prefer(s)
  <2>1. shell[s].agent \in Crew
    BY <1>5, <1>16 DEF Prefer
  <2>2. [papers EXCEPT ![shell[s].agent]["prefs"] = "fresh"] \in [Crew -> [Papers -> {"none", "fresh", "grown"}]]
    BY <1>1, <2>1
  <2>. QED BY <1>1, <1>16, <2>1, <2>2 DEF Prefer, HomeTypes
<1>17. CASE DefaultModel(s)
  <2>1. papers' \in [Crew -> [Papers -> {"none", "fresh", "grown"}]]
    BY <1>1, <1>17 DEF DefaultModel, Papers
  <2>. QED BY <1>1, <1>17, <2>1 DEF DefaultModel, HomeTypes
<1>18. CASE Agree(s)
  <2>1. Offer(s) \in Configs
    BY <1>4 DEF Offer, Picks, Configs
  <2>. QED BY <1>1, <1>18, <2>1 DEF Agree, HomeTypes
<1>. QED BY <1>3, <1>6, <1>7, <1>8, <1>9, <1>10, <1>11, <1>12, <1>13, <1>14, <1>15, <1>16, <1>17, <1>18

LEMMA ProvisioningTypesInit == ProvisioningInit => ProvisioningTypes
<1>. SUFFICES ASSUME ProvisioningInit PROVE ProvisioningTypes
  OBVIOUS
<1>1. papers \in [Crew -> [Papers -> {"none", "fresh", "grown"}]]
  BY DEF ProvisioningInit, NoPapers
<1>2. ProvisioningTypeOK
  BY <1>1, ProvisioningAssumption DEF ProvisioningInit, ProvisioningTypeOK, EmptyConfig
<1>3. \A s \in Shells : CommandTypes(shell[s])
  BY AtPromptTypes DEF ProvisioningInit
<1>. QED BY <1>2, <1>3, ProvisioningInvInit DEF ProvisioningTypes

LEMMA ProvisioningTypesStep == ProvisioningTypes /\ [ProvisioningNext]_provVars => ProvisioningTypes'
<1>. SUFFICES ASSUME ProvisioningTypes, [ProvisioningNext]_provVars PROVE ProvisioningTypes'
  OBVIOUS
<1>1. ProvisioningInv'
  BY ProvisioningInvStep DEF ProvisioningTypes
<1>2. /\ shell = [o \in Shells |-> shell[o]]
      /\ \A o \in Shells : IsCommand(shell[o]) /\ CommandTypes(shell[o])
      /\ provActs \in 0..MaxProvActs /\ HomeTypes
  BY DEF ProvisioningTypes, ProvisioningInv, ProvisioningTypeOK, HomeTypes, Configs
<1>3. ASSUME HomeTypes', provActs' \in 0..MaxProvActs, \A o \in Shells : CommandTypes(shell'[o])
      PROVE  ProvisioningTypes'
  <2>1. DOMAIN shell' = Shells
    BY <1>1 DEF ProvisioningInv
  <2>2. ProvisioningTypeOK'
    BY <1>3, <2>1 DEF HomeTypes, ProvisioningTypeOK, Configs
  <2>. QED BY <1>1, <1>3, <2>2 DEF ProvisioningTypes
<1>4. CASE \E s \in Shells :
              \/ ProvisionDies(s) \/ Probe(s) \/ MakeDirs(s) \/ CreateBaseline(s) \/ MarkVault(s) \/ WriteDirectives(s)
              \/ WriteIdentity(s) \/ WriteWiki(s) \/ CopyAgent(s) \/ Permit(s) \/ ConfirmRemoval(s) \/ DeleteAgent(s)
              \/ Forbid(s) \/ ScaffoldLocal(s) \/ Prefer(s) \/ DefaultModel(s) \/ Agree(s)
  <2>1. PICK s \in Shells :
              \/ ProvisionDies(s) \/ Probe(s) \/ MakeDirs(s) \/ CreateBaseline(s) \/ MarkVault(s) \/ WriteDirectives(s)
              \/ WriteIdentity(s) \/ WriteWiki(s) \/ CopyAgent(s) \/ Permit(s) \/ ConfirmRemoval(s) \/ DeleteAgent(s)
              \/ Forbid(s) \/ ScaffoldLocal(s) \/ Prefer(s) \/ DefaultModel(s) \/ Agree(s)
    BY <1>4
  <2>2. HomeTypes'
    BY <2>1, HomesStayTyped
  <2>3. shell[s].todo # <<>> /\ provActs' = provActs
    BY <2>1 DEF ProvisionDies, Probe, MakeDirs, CreateBaseline, MarkVault, WriteDirectives, WriteIdentity, WriteWiki,
                CopyAgent, Permit, ConfirmRemoval, DeleteAgent, Forbid, ScaffoldLocal, Prefer, DefaultModel, Agree, Upon
  <2>4. Ends(s) \/ Onward(s) \/ \E steps, mandate : Instead(s, steps, mandate)
    BY <2>1 DEF ProvisionDies, Probe, MakeDirs, CreateBaseline, MarkVault, WriteDirectives, WriteIdentity, WriteWiki,
                WritePaper, CopyAgent, Permit, ConfirmRemoval, DeleteAgent, Forbid, ScaffoldLocal, Prefer, DefaultModel,
                Agree
  <2>5. \A o \in Shells : CommandTypes(shell'[o])
    BY <2>3, <2>4, CommandStaysTyped
  <2>. QED BY <2>2, <2>3, <2>5, <1>2, <1>3
<1>5. ASSUME NEW s \in Shells, NEW c, shell' = [shell EXCEPT ![s] = c], CommandTypes(c)
      PROVE  \A o \in Shells : CommandTypes(shell'[o])
  BY <1>2, <1>5
<1>6. CASE \E s \in Shells : BeginProvision(s)
  <2>1. PICK s \in Shells : BeginProvision(s)
    BY <1>6
  <2>0. PICK kind \in {"init", "add", "clone", "remove", "setup", "wizard"}, a \in Crew, from \in Crew, force \in BOOLEAN :
        /\ shell[s] = AtPrompt
        /\ force => kind \in {"init", "add"}
        /\ (kind = "clone") = (a # from)
        /\ ProvAct
        /\ \E conf \in {local, EmptyConfig} :
              /\ kind \in {"init", "wizard"} => conf = EmptyConfig
              /\ shell' = [shell EXCEPT ![s] = Commanded(kind, a, from, force, conf)]
        /\ UNCHANGED <<vault, homes, papers, local>>
    BY <2>1 DEF BeginProvision
  <2>2. PICK conf \in {local, EmptyConfig} :
                shell' = [shell EXCEPT ![s] = Commanded(kind, a, from, force, conf)]
    BY <2>0
  <2>3. CommandTypes(Commanded(kind, a, from, force, conf))
    <3>1. conf \in Configs
      BY <1>2, AtPromptTypes DEF HomeTypes
    <3>. QED BY <3>1, AtPromptTypes DEF Commanded, AtPrompt, CommandTypes
  <2>4. \A o \in Shells : CommandTypes(shell'[o])
    BY <2>2, <2>3, <1>5
  <2>5. HomeTypes' /\ provActs' \in 0..MaxProvActs
    BY <2>1, <1>2, ProvisioningAssumption DEF BeginProvision, ProvAct, HomeTypes
  <2>. QED BY <2>4, <2>5, <1>3
<1>7. CASE \E s \in Shells : CheckVacant(s)
  <2>1. PICK s \in Shells : CheckVacant(s)
    BY <1>7
  <2>2. HomeTypes' /\ provActs' = provActs
    BY <2>1, <1>2 DEF CheckVacant, HomeTypes
  <2>3. \A o \in Shells : CommandTypes(shell'[o])
    <3>. DEFINE c == [shell[s] EXCEPT !.todo = Tail(@), !.found = homes]
    <3>1. CommandTypes(c)
      BY <2>1, <1>2 DEF CheckVacant, Upon, CommandTypes, IsCommand
    <3>2. shell' = [shell EXCEPT ![s] = c] \/ shell' = [shell EXCEPT ![s] = AtPrompt]
      BY <2>1 DEF CheckVacant, Ends
    <3>. QED BY <3>1, <3>2, <1>5, AtPromptTypes
  <2>. QED BY <2>2, <2>3, <1>2, <1>3
<1>8. CASE \E s \in Shells : Look(s)
  <2>1. PICK s \in Shells : Look(s)
    BY <1>8
  <2>2. HomeTypes' /\ provActs' = provActs
    BY <2>1, <1>2 DEF Look, HomeTypes
  <2>3. \A o \in Shells : CommandTypes(shell'[o])
    <3>0. PICK allowed \in (SUBSET Crew) \ {{}}, excluded \in SUBSET Crew :
             \E todo : shell' = [shell EXCEPT ![s].todo = todo, ![s].pick = [allowed |-> allowed, excluded |-> excluded]]
      BY <2>1 DEF Look
    <3>1. PICK todo :
             shell' = [shell EXCEPT ![s].todo = todo, ![s].pick = [allowed |-> allowed, excluded |-> excluded]]
      BY <3>0
    <3>. DEFINE c == [shell[s] EXCEPT !.todo = todo, !.pick = [allowed |-> allowed, excluded |-> excluded]]
    <3>2. shell' = [shell EXCEPT ![s] = c]
      BY <3>1, <1>2
    <3>3. CommandTypes(c)
      <4>1. shell[s].agent \in Crew /\ shell[s].from \in Crew /\ shell[s].conf \in Configs
        BY <2>1, <1>2 DEF Look, Upon, CommandTypes
      <4>. QED BY <4>1, <1>2 DEF CommandTypes, IsCommand, Picks
    <3>. QED BY <3>2, <3>3, <1>5
  <2>. QED BY <2>2, <2>3, <1>2, <1>3
<1>9. CASE Grow \/ Remember
  <2>1. shell' = shell /\ provActs' \in 0..MaxProvActs /\ UNCHANGED <<vault, homes, local>>
    BY <1>9, <1>2, ProvisioningAssumption DEF Grow, Remember, ProvAct
  <2>2. papers' \in [Crew -> [Papers -> {"none", "fresh", "grown"}]]
    <3>1. PICK a \in Crew, p \in Papers : papers' = [papers EXCEPT ![a][p] = "grown"]
      BY <1>9 DEF Grow, Remember, Papers
    <3>. QED BY <3>1, <1>2 DEF HomeTypes
  <2>. QED BY <2>1, <2>2, <1>2, <1>3 DEF HomeTypes
<1>10. CASE UNCHANGED provVars
  BY <1>10, <1>2, <1>3 DEF provVars, HomeTypes
<1>. QED BY <1>4, <1>6, <1>7, <1>8, <1>9, <1>10 DEF ProvisioningNext

\* The variables of provisioning keep their types, for any agents and shells: a
\* command that has a step ahead is about an agent, and the config it holds to be
\* written is a whole one.
THEOREM ProvisioningIsTyped ==
    ProvisioningSpec => [](ProvisioningTypeOK /\ \A s \in Shells : CommandTypes(shell[s]))
<1>1. ProvisioningTypes => ProvisioningTypeOK /\ \A s \in Shells : CommandTypes(shell[s])
  BY DEF ProvisioningTypes
<1>. QED BY <1>1, ProvisioningTypesInit, ProvisioningTypesStep, PTL DEF ProvisioningSpec
=============================================================================
