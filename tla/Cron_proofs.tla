------------------------------ MODULE Cron_proofs ------------------------------
(***************************************************************************)
(* Proofs about the cron files: the claims of several devices (CronJobs),  *)
(* while every process has a device id of its own, which each theorem      *)
(* assumes by name, and the commands next to one device (CronFiles).       *)
(***************************************************************************)
EXTENDS CronJobs, CronFiles, TLAPS

UniqueIds == \A p, q \in Processes : IdOf[p] = IdOf[q] => p = q

Files == [Jobs -> [Names -> Content \cup {NoFile}]]

\* What a write does to each name.
LEMMA WriteFileAt ==
    ASSUME file \in Files, NEW j \in Jobs, NEW n \in Names,
           NEW c \in Content \cup {NoFile}, WriteFile(j, n, c)
    PROVE  /\ file' \in Files
           /\ \A k \in Jobs, m \in Names :
                 file'[k][m] = IF k = j /\ m = n THEN c ELSE file[k][m]
BY DEF WriteFile, Files

LEMMA NamesAre == /\ Ordinary \in Names /\ NoFile \notin Content /\ NoJob \notin Jobs
                  /\ \A p \in Processes : IdOf[p] \in Names /\ IdOf[p] # Ordinary
BY CronAssumption DEF Names, Processes

-----------------------------------------------------------------------------
(* Types.  A process that is past the start of a claim has a job, and one    *)
(* that is about to write has a content.                                     *)

Busy == {"stamping", "removing", "opening", "running", "restoring", "clearing"}

Coherent ==
    /\ \A p \in Processes : stage[p] \in Busy => job[p] \in Jobs
    /\ \A p \in Processes : stage[p] \in {"stamping", "restoring"} => copy[p] \in Content
    /\ \A p \in Schedulers : source[p] = Ordinary

Shape == TypeOK /\ Coherent

\* The content that gives a job back is a content.
LEMMA GivenBack ==
    ASSUME NEW c \in Content, clock \in 1..MaxCycle
    PROVE  [schedule |-> c.schedule, lastRun |-> clock, claims |-> OneLess(c.claims)] \in Content
<1>1. c.schedule \in Schedules /\ c.claims \in Nat
    BY DEF Content
<1>2. clock \in Nat /\ OneLess(c.claims) \in Nat
    BY <1>1, CronAssumption DEF OneLess
<1>. QED BY <1>1, <1>2 DEF Content

LEMMA ShapeInit == Init => Shape
BY CronAssumption DEF Init, Shape, TypeOK, Coherent, Content, Names, Stages, Busy, Processes

LEMMA LeaveShape ==
    ASSUME Shape, NEW p \in Processes, NEW s \in {"idle", "down"}, Leave(p, s)
    PROVE  /\ stage' \in [Processes -> Stages]
           /\ due' \in [Processes -> SUBSET Jobs]
           /\ planned' \in [Processes -> SUBSET Jobs]
           /\ job' \in [Processes -> Jobs \cup {NoJob}]
           /\ source' \in [Processes -> Names]
           /\ copy' \in [Processes -> Content \cup {NoFile}]
           /\ Coherent'
BY NamesAre DEF Leave, Enter, Shape, TypeOK, Coherent, Stages, Busy, Processes

LEMMA ShapeStep == Shape /\ [Next]_vars => Shape'
<1> SUFFICES ASSUME Shape, [Next]_vars PROVE Shape'
  OBVIOUS
<1> USE CronAssumption, NamesAre
<1> USE DEF Shape, TypeOK, Coherent, Busy, Stages, tickVars, jobVars, procVars, bounds, history, Enter
<1>files. file \in Files
  BY DEF Files
<1>contents. \A c \in Content : Stamped(c) \in Content
  BY DEF Stamped, Content
<1>1. ASSUME NEW p \in Schedulers,
             BeginTick(p) \/ List(p) \/ Plan(p) \/ Restart(p)
             \/ \E j \in Jobs : ClaimFails(p, j)
      PROVE  Shape'
  <2>1. CASE BeginTick(p) \/ Restart(p)
    BY <2>1 DEF BeginTick, Restart, Processes
  <2>4. CASE List(p)
    <3>1. TypeOK'
      BY <2>4 DEF List, Processes
    <3>2. Coherent'
      BY <2>4 DEF List, Processes
    <3> QED
      BY <3>1, <3>2
  <2>2. CASE Plan(p)
    <3>1. TypeOK'
      BY <2>2 DEF Plan, Processes
    <3>2. Coherent'
      BY <2>2 DEF Plan, Processes
    <3> QED
      BY <3>1, <3>2
  <2>3. CASE \E j \in Jobs : ClaimFails(p, j)
    BY <2>3 DEF ClaimFails, Processes
  <2> QED
    BY <1>1, <2>1, <2>2, <2>3, <2>4
<1>2. ASSUME NEW p \in Schedulers, NEW j \in Jobs, BeginClaim(p, j) PROVE Shape'
  <2>1. Stamped(file[j][Ordinary]) \in Content
    BY <1>2, <1>contents DEF BeginClaim, CanClaim, Exists
  <2>2. p \in Processes
    BY DEF Processes
  <2>3. TypeOK'
    BY <1>2, <2>1, <2>2 DEF BeginClaim
  <2>4. Coherent'
    BY <1>2, <2>1, <2>2 DEF BeginClaim
  <2> QED
    BY <2>3, <2>4
<1>3. ASSUME NEW s \in Sessions, NEW j \in Jobs, NEW n \in Names, SessionClaims(s, j, n)
      PROVE  Shape'
  <2>1. Stamped(file[j][n]) \in Content
    BY <1>3, <1>contents DEF SessionClaims, Exists
  <2> QED
    BY <1>3, <2>1 DEF SessionClaims, Processes
<1>4. ASSUME NEW p \in Processes, Stamp(p) PROVE Shape'
  <2>1. file' \in Files
    BY <1>4, <1>files, WriteFileAt DEF Stamp
  <2> QED
    BY <1>4, <2>1 DEF Stamp, Files
<1>5. ASSUME NEW p \in Processes, RemoveSource(p) PROVE Shape'
  <2>1. file' \in Files
    BY <1>5, <1>files, WriteFileAt DEF RemoveSource
  <2> QED
    BY <1>5, <2>1 DEF RemoveSource, Files
<1>6. ASSUME NEW p \in Schedulers, Open(p) PROVE Shape'
  BY <1>6 DEF Open, Processes
<1>7. ASSUME NEW p \in Processes, Record(p) PROVE Shape'
  <2>1. file[job[p]][IdOf[p]] \in Content
    BY <1>7 DEF Record, Exists
  <2>2. [schedule |-> file[job[p]][IdOf[p]].schedule, lastRun |-> clock,
         claims |-> OneLess(file[job[p]][IdOf[p]].claims)] \in Content
    BY <2>1, GivenBack
  <2> QED
    BY <1>7, <2>2 DEF Record
<1>8. ASSUME NEW p \in Processes, Restore(p) PROVE Shape'
  <2>1. file' \in Files
    BY <1>8, <1>files, WriteFileAt DEF Restore
  <2> QED
    BY <1>8, <2>1 DEF Restore, Files
<1>9. ASSUME NEW p \in Processes, Clear(p) PROVE Shape'
  <2>1. file' \in Files
    BY <1>9, <1>files, WriteFileAt DEF Clear
  <2> QED
    BY <1>9, <2>1, LeaveShape DEF Clear, Files
<1>10. ASSUME NEW p \in Schedulers, NoWork(p) \/ OpenFails(p) PROVE Shape'
  BY <1>10, LeaveShape DEF NoWork, OpenFails, Processes
<1>11. ASSUME NEW p \in Processes, Crash(p) PROVE Shape'
  BY <1>11, LeaveShape DEF Crash
<1>12. ASSUME NEW p \in Processes, RecordFails(p) PROVE Shape'
  <2>1. CASE ~(p \in Schedulers /\ job[p] \in ScriptJobs)
    BY <1>12, <2>1, LeaveShape DEF RecordFails
  <2>2. CASE p \in Schedulers /\ job[p] \in ScriptJobs
    <3>a. /\ stage' = [stage EXCEPT ![p] = "walking"] /\ job' = [job EXCEPT ![p] = NoJob]
          /\ copy' = [copy EXCEPT ![p] = NoFile]
          /\ UNCHANGED <<file, clock, stale, tickVars, source, bounds, history>>
      BY <1>12, <2>2 DEF RecordFails
    <3>b. /\ stage' \in [Processes -> Stages] /\ job' \in [Processes -> Jobs \cup {NoJob}]
          /\ copy' \in [Processes -> Content \cup {NoFile}]
      BY <3>a
    <3>1. TypeOK'
      BY <3>a, <3>b
    <3>2. Coherent'
      BY <3>a
    <3> QED
      BY <3>1, <3>2
  <2> QED
    BY <2>1, <2>2
<1>13. CASE Tick \/ (\E d \in Devices : GrowStale(d)) \/ UNCHANGED vars
  BY <1>13 DEF Tick, GrowStale, vars
<1> QED
  BY <1>1, <1>2, <1>3, <1>4, <1>5, <1>6, <1>7, <1>8, <1>9, <1>10, <1>11, <1>12, <1>13
     DEF Next, Step, Work, Processes

\* Every variable keeps its type, a process that is past the start of a claim
\* has a job, one about to write a file has its content, and schedulers claim
\* from the ordinary name only.
THEOREM CronTypes == Spec => [](TypeOK /\ Coherent)
<1> QED
  BY ShapeInit, ShapeStep, PTL DEF Spec, Shape

-----------------------------------------------------------------------------
(* What holds of a job whose claim was never recovered as stale.             *)

\* Whoever holds it has its claimed file.
HeldByOne(j) == \A p \in Processes :
    job[p] = j /\ stage[p] \in HoldingStages => Exists(j, IdOf[p])

\* It was claimed from its ordinary name.
FromOrdinary(j) == \A p \in Processes :
    job[p] = j /\ stage[p] \in HoldingStages \cup {"clearing"} => source[p] = Ordinary

\* Its ordinary file has no last_claimed_by and its claimed files one at most,
\* and so have the contents about to become them.
Clean(j) ==
    /\ \A n \in Names : Exists(j, n) => file[j][n].claims <= (IF n = Ordinary THEN 0 ELSE 1)
    /\ \A p \in Processes : job[p] = j =>
          /\ stage[p] = "stamping" /\ source[p] = Ordinary => copy[p].claims <= 1
          /\ stage[p] = "restoring" => copy[p].claims <= 0

\* It has a file that nobody is about to remove.
Visible(j) == \E n \in Names :
    Exists(j, n) /\ \A p \in Processes : ~Removes(p, j, n)

Safe(j) == HeldByOne(j) /\ FromOrdinary(j) /\ Clean(j) /\ Visible(j)

Kept == \A j \in Jobs \ recovered : Safe(j)

LEMMA KeptInit == Init => Kept
<1> SUFFICES ASSUME Init, NEW j \in Jobs PROVE Safe(j)
  BY DEF Kept
<1>1. HeldByOne(j) /\ FromOrdinary(j)
  BY DEF Init, HeldByOne, FromOrdinary, HoldingStages
<1>2. Clean(j)
  BY NamesAre DEF Init, Clean, Exists
<1>3. Exists(j, Ordinary) /\ \A p \in Processes : ~Removes(p, j, Ordinary)
  BY NamesAre DEF Init, Exists, Removes, Content
<1> QED
  BY <1>1, <1>2, <1>3, NamesAre DEF Safe, Visible

\* A step that leaves a job's files alone, and moves no process that works on
\* it, except by making it drop the job.
LEMMA Untouched ==
    ASSUME NEW k \in Jobs, Safe(k), file'[k] = file[k],
           \A q \in Processes : job'[q] = k /\ stage'[q] \in Busy =>
               /\ job[q] = k /\ stage'[q] = stage[q]
               /\ source'[q] = source[q] /\ copy'[q] = copy[q]
    PROVE  Safe(k)'
<1> USE DEF Busy, HoldingStages, Exists, Safe
<1>1. HeldByOne(k)' /\ FromOrdinary(k)'
  BY DEF HeldByOne, FromOrdinary
<1>2. Clean(k)'
  BY DEF Clean
<1>3. Visible(k)'
  <2>1. PICK n \in Names : Exists(k, n) /\ \A p \in Processes : ~Removes(p, k, n)
    BY DEF Visible
  <2>2. \A p \in Processes : ~Removes(p, k, n)'
    BY <2>1 DEF Removes
  <2> QED
    BY <2>1, <2>2 DEF Visible
<1> QED
  BY <1>1, <1>2, <1>3

\* Starting a claim: what will be written is one line more than what is there.
LEMMA ClaimStarts ==
    ASSUME Shape, NEW k \in Jobs, Safe(k), NEW p \in Processes, NEW n \in Names,
           stage[p] \notin Busy, Exists(k, n), file' = file,
           job' = [job EXCEPT ![p] = k], source' = [source EXCEPT ![p] = n],
           copy' = [copy EXCEPT ![p] = Stamped(file[k][n])], Enter(p, "stamping")
    PROVE  Safe(k)'
<1> USE DEF Shape, TypeOK, Busy, HoldingStages, Exists, Safe, Enter
<1>1. HeldByOne(k)' /\ FromOrdinary(k)'
  BY DEF HeldByOne, FromOrdinary
<1>2. Clean(k)'
  <2>1. n = Ordinary => Stamped(file[k][n]).claims <= 1
    <3>1. n = Ordinary => file[k][n].claims <= 0
      BY DEF Clean
    <3>2. file[k][n] \in Content
      OBVIOUS
    <3> QED
      BY <3>1, <3>2 DEF Stamped, Content
  <2>2. \A m \in Names : Exists(k, m)' =>
            file'[k][m].claims <= (IF m = Ordinary THEN 0 ELSE 1)
    BY DEF Clean
  <2>3. \A q \in Processes \ {p} : job'[q] = k =>
            /\ stage'[q] = "stamping" /\ source'[q] = Ordinary => copy'[q].claims <= 1
            /\ stage'[q] = "restoring" => copy'[q].claims <= 0
    BY DEF Clean
  <2> QED
    BY <2>1, <2>2, <2>3 DEF Clean
<1>3. Visible(k)'
  <2>1. PICK m \in Names : Exists(k, m) /\ \A q \in Processes : ~Removes(q, k, m)
    BY DEF Visible
  <2>2. \A q \in Processes : ~Removes(q, k, m)'
    BY <2>1 DEF Removes
  <2> QED
    BY <2>1, <2>2 DEF Visible
<1> QED
  BY <1>1, <1>2, <1>3

\* The four writes, of the job that p works on.
LEMMA StampKeeps ==
    ASSUME UniqueIds, Shape, NEW p \in Processes, Stamp(p),
           NEW k \in Jobs \ recovered', k = job[p], Safe(k)
    PROVE  Safe(k)'
<1> USE NamesAre DEF Shape, TypeOK, Coherent, Busy, HoldingStages, Exists, Safe, Enter, jobVars
<1>1. /\ source[p] = Ordinary /\ copy[p] \in Content /\ copy[p].claims <= 1
      /\ stage' = [stage EXCEPT ![p] = "removing"]
      /\ UNCHANGED <<job, source, copy>>
  BY DEF Stamp, Clean
<1>2. \A m \in Names : file'[k][m] = IF m = IdOf[p] THEN copy[p] ELSE file[k][m]
  BY <1>1, WriteFileAt DEF Stamp, Files
<1>3. HeldByOne(k)'
  BY <1>1, <1>2 DEF HeldByOne
<1>4. FromOrdinary(k)'
  BY <1>1 DEF FromOrdinary
<1>5. Clean(k)'
  BY <1>1, <1>2 DEF Clean
<1>6. Visible(k)'
  <2>1. \A q \in Processes : ~Removes(q, k, IdOf[p])'
    BY <1>1, <1>4 DEF Removes, FromOrdinary, UniqueIds
  <2>2. file'[k][IdOf[p]] # NoFile
    BY <1>1, <1>2
  <2> QED
    BY <2>1, <2>2 DEF Visible
<1> QED
  BY <1>3, <1>4, <1>5, <1>6

LEMMA RemoveSourceKeeps ==
    ASSUME UniqueIds, Shape, NEW p \in Processes, RemoveSource(p),
           NEW k \in Jobs \ recovered, k = job[p], Safe(k)
    PROVE  Safe(k)'
<1> USE NamesAre DEF Shape, TypeOK, Coherent, Busy, HoldingStages, Exists, Safe, Enter, jobVars
<1>1. /\ source[p] = Ordinary /\ stage[p] = "removing"
      /\ stage' \in {[stage EXCEPT ![p] = "opening"], [stage EXCEPT ![p] = "running"]}
      /\ UNCHANGED <<job, source, copy>>
  BY DEF RemoveSource, FromOrdinary
<1>2. \A m \in Names : file'[k][m] = IF m = Ordinary THEN NoFile ELSE file[k][m]
  BY <1>1, WriteFileAt DEF RemoveSource, Files
<1>3. HeldByOne(k)'
  BY <1>1, <1>2 DEF HeldByOne
<1>4. FromOrdinary(k)'
  BY <1>1 DEF FromOrdinary
<1>5. Clean(k)'
  BY <1>1, <1>2 DEF Clean
<1>6. Visible(k)'
  <2>1. \A q \in Processes : ~Removes(q, k, IdOf[p])'
    BY <1>1, <1>4 DEF Removes, FromOrdinary, UniqueIds
  <2>2. file'[k][IdOf[p]] # NoFile
    BY <1>1, <1>2 DEF HeldByOne
  <2> QED
    BY <2>1, <2>2 DEF Visible
<1> QED
  BY <1>3, <1>4, <1>5, <1>6

\* If another claimant is about to remove the ordinary file that has just been
\* written, that claimant has a claimed file of its own.
LEMMA RestoreKeeps ==
    ASSUME UniqueIds, Shape, NEW p \in Processes, Restore(p),
           NEW k \in Jobs \ recovered, k = job[p], Safe(k)
    PROVE  Safe(k)'
<1> USE NamesAre DEF Shape, TypeOK, Coherent, Busy, HoldingStages, Exists, Safe, Enter, jobVars
<1>1. /\ copy[p] \in Content /\ copy[p].claims <= 0 /\ source[p] = Ordinary
      /\ stage[p] = "restoring" /\ stage' = [stage EXCEPT ![p] = "clearing"]
      /\ UNCHANGED <<job, source, copy>>
  BY DEF Restore, Clean, FromOrdinary
<1>2. \A m \in Names : file'[k][m] = IF m = Ordinary THEN copy[p] ELSE file[k][m]
  BY <1>1, WriteFileAt DEF Restore, Files
<1>3. HeldByOne(k)'
  BY <1>1, <1>2 DEF HeldByOne
<1>4. FromOrdinary(k)'
  BY <1>1 DEF FromOrdinary
<1>5. Clean(k)'
  BY <1>1, <1>2 DEF Clean
<1>6. CASE \E q \in Processes : job[q] = k /\ stage[q] = "removing"
  <2>1. PICK q \in Processes : job[q] = k /\ stage[q] = "removing"
    BY <1>6
  <2>2. file'[k][IdOf[q]] # NoFile
    BY <1>2, <2>1 DEF HeldByOne
  <2>3. \A r \in Processes : ~Removes(r, k, IdOf[q])'
    BY <1>1, <1>4, <2>1 DEF Removes, FromOrdinary, UniqueIds
  <2> QED
    BY <1>3, <1>4, <1>5, <2>2, <2>3 DEF Visible
<1>7. CASE ~\E q \in Processes : job[q] = k /\ stage[q] = "removing"
  <2>1. \A r \in Processes : ~Removes(r, k, Ordinary)'
    BY <1>1, <1>7 DEF Removes
  <2>2. file'[k][Ordinary] # NoFile
    BY <1>1, <1>2
  <2> QED
    BY <1>3, <1>4, <1>5, <2>1, <2>2 DEF Visible
<1> QED
  BY <1>6, <1>7

LEMMA ClearKeeps ==
    ASSUME UniqueIds, Shape, NEW p \in Processes, Clear(p),
           NEW k \in Jobs \ recovered, k = job[p], Safe(k)
    PROVE  Safe(k)'
<1> USE NamesAre DEF Shape, TypeOK, Coherent, Busy, HoldingStages, Exists, Safe, Enter, Leave
<1>1. /\ stage[p] = "clearing" /\ stage' = [stage EXCEPT ![p] = "idle"]
      /\ job' = [job EXCEPT ![p] = NoJob]
      /\ \A q \in Processes \ {p} : source'[q] = source[q] /\ copy'[q] = copy[q]
  BY DEF Clear
<1>2. \A m \in Names : file'[k][m] = IF m = IdOf[p] THEN NoFile ELSE file[k][m]
  BY <1>1, WriteFileAt DEF Clear, Files
<1>3. HeldByOne(k)'
  BY <1>1, <1>2, ZenonT(60) DEF HeldByOne, UniqueIds
<1>4. FromOrdinary(k)'
  BY <1>1 DEF FromOrdinary
<1>5. Clean(k)'
  BY <1>1, <1>2 DEF Clean
<1>6. Visible(k)'
  <2>1. PICK n \in Names : Exists(k, n) /\ \A q \in Processes : ~Removes(q, k, n)
    BY DEF Visible
  <2>2. n # IdOf[p]
    BY <1>1, <2>1 DEF Removes
  <2>3. \A q \in Processes : ~Removes(q, k, n)'
    BY <1>1, <2>1 DEF Removes
  <2> QED
    BY <1>2, <2>1, <2>2, <2>3 DEF Visible
<1> QED
  BY <1>3, <1>4, <1>5, <1>6

LEMMA RecordKeeps ==
    ASSUME Shape, NEW p \in Processes, Record(p),
           NEW k \in Jobs \ recovered, k = job[p], Safe(k)
    PROVE  Safe(k)'
<1> USE NamesAre DEF Shape, TypeOK, Coherent, Busy, HoldingStages, Exists, Safe, Enter
<1>1. /\ stage[p] = "running" /\ stage' = [stage EXCEPT ![p] = "restoring"]
      /\ copy' = [copy EXCEPT ![p] = [schedule |-> file[k][IdOf[p]].schedule, lastRun |-> clock,
                                      claims |-> OneLess(file[k][IdOf[p]].claims)]]
      /\ UNCHANGED <<file, job, source>>
  BY DEF Record
<1>2. OneLess(file[k][IdOf[p]].claims) <= 0
  <2>1. file[k][IdOf[p]] \in Content /\ file[k][IdOf[p]].claims <= 1
    BY DEF Record, Clean
  <2> QED
    BY <2>1 DEF OneLess, Content
<1>3. HeldByOne(k)' /\ FromOrdinary(k)'
  BY <1>1 DEF HeldByOne, FromOrdinary
<1>4. Clean(k)'
  BY <1>1, <1>2 DEF Clean
<1>5. Visible(k)'
  <2>1. PICK n \in Names : Exists(k, n) /\ \A q \in Processes : ~Removes(q, k, n)
    BY DEF Visible
  <2>2. \A q \in Processes : ~Removes(q, k, n)'
    BY <1>1, <2>1 DEF Removes
  <2> QED
    BY <1>1, <2>1, <2>2 DEF Visible
<1> QED
  BY <1>3, <1>4, <1>5

LEMMA OpenKeeps ==
    ASSUME Shape, NEW p \in Processes, Open(p),
           NEW k \in Jobs \ recovered, k = job[p], Safe(k)
    PROVE  Safe(k)'
<1> USE DEF Shape, TypeOK, Coherent, Busy, HoldingStages, Exists, Safe, Enter, jobVars
<1>1. /\ stage[p] = "opening" /\ stage' = [stage EXCEPT ![p] = "running"]
      /\ UNCHANGED <<file, job, source, copy>>
  BY DEF Open
<1>2. HeldByOne(k)' /\ FromOrdinary(k)' /\ Clean(k)'
  BY <1>1 DEF HeldByOne, FromOrdinary, Clean
<1>3. Visible(k)'
  <2>1. PICK n \in Names : Exists(k, n) /\ \A q \in Processes : ~Removes(q, k, n)
    BY DEF Visible
  <2>2. \A q \in Processes : ~Removes(q, k, n)'
    BY <1>1, <2>1 DEF Removes
  <2> QED
    BY <1>1, <2>1, <2>2 DEF Visible
<1> QED
  BY <1>2, <1>3

LEMMA LeaveKeeps ==
    ASSUME Shape, NEW p \in Processes, NEW s \in {"idle", "down"}, Leave(p, s), file' = file,
           NEW k \in Jobs, Safe(k)
    PROVE  Safe(k)'
BY Untouched DEF Leave, Enter, Shape, TypeOK, Busy

\* The same for a job that p does not work on.
LEMMA OthersKept ==
    ASSUME Shape, NEW p \in Processes, NEW k \in Jobs, k # job[p], Safe(k),
           Stamp(p) \/ RemoveSource(p) \/ Restore(p) \/ Clear(p) \/ Record(p) \/ Open(p)
    PROVE  Safe(k)'
<1>1. file'[k] = file[k]
  BY DEF Stamp, RemoveSource, Restore, Clear, Record, Open, WriteFile, Shape, TypeOK
<1>2. \A q \in Processes : job'[q] = k => q # p
  <2>1. CASE Clear(p)
    BY <2>1, NamesAre DEF Clear, Leave, Shape, TypeOK
  <2>2. CASE ~Clear(p)
    BY <2>2 DEF Stamp, RemoveSource, Restore, Record, Open, jobVars
  <2> QED
    BY <2>1, <2>2
<1>3. \A q \in Processes \ {p} :
         /\ job'[q] = job[q] /\ stage'[q] = stage[q]
         /\ source'[q] = source[q] /\ copy'[q] = copy[q]
  <2>1. CASE Clear(p)
    BY <2>1 DEF Clear, Leave, Enter, Shape, TypeOK
  <2>2. CASE ~Clear(p)
    BY <2>2 DEF Stamp, RemoveSource, Restore, Record, Open, Enter, jobVars, Shape, TypeOK
  <2> QED
    BY <2>1, <2>2
<1> QED
  BY <1>1, <1>2, <1>3, Untouched

LEMMA KeptStep == UniqueIds /\ Shape /\ Kept /\ [Next]_vars => Kept'
<1> SUFFICES ASSUME UniqueIds, Shape, Kept, [Next]_vars, NEW k \in Jobs \ recovered'
             PROVE  Safe(k)'
  BY DEF Kept
<1>rec. recovered \subseteq recovered'
  <2>1. CASE \E p \in Processes : Stamp(p)
    BY <2>1 DEF Stamp
  <2>2. CASE ~\E p \in Processes : Stamp(p)
    BY <2>2 DEF Next, Step, Work, vars, history, Processes, Tick, GrowStale, BeginTick, List,
           Plan, NoWork, BeginClaim, ClaimFails, Open, OpenFails, Restart, RemoveSource,
           Record, RecordFails, Restore, Clear, SessionClaims, Crash
  <2> QED
    BY <2>1, <2>2
<1>safe. k \in Jobs \ recovered /\ Safe(k)
  BY <1>rec DEF Kept
<1>1. ASSUME NEW p \in Processes,
             Stamp(p) \/ RemoveSource(p) \/ Restore(p) \/ Clear(p) \/ Record(p) \/ Open(p)
      PROVE  Safe(k)'
  <2>1. CASE k # job[p]
    BY <1>1, <1>safe, <2>1, OthersKept
  <2>2. CASE k = job[p]
    BY <1>1, <1>safe, <2>2, StampKeeps, RemoveSourceKeeps, RestoreKeeps, ClearKeeps,
       RecordKeeps, OpenKeeps
  <2> QED
    BY <2>1, <2>2
<1>2. ASSUME NEW p \in Processes, RecordFails(p) PROVE Safe(k)'
  <2>1. CASE ~(p \in Schedulers /\ job[p] \in ScriptJobs)
    BY <1>2, <1>safe, <2>1, LeaveKeeps DEF RecordFails
  <2>2. CASE p \in Schedulers /\ job[p] \in ScriptJobs
    BY <1>2, <1>safe, <2>2, Untouched, NamesAre
       DEF RecordFails, Enter, Busy, Shape, TypeOK, tickVars
  <2> QED
    BY <2>1, <2>2
<1>3. ASSUME NEW p \in Processes, NoWork(p) \/ OpenFails(p) \/ Crash(p) PROVE Safe(k)'
  BY <1>3, <1>safe, LeaveKeeps DEF NoWork, OpenFails, Crash
<1>4. ASSUME NEW p \in Processes, NEW j \in Jobs, BeginClaim(p, j), p \in Schedulers
      PROVE  Safe(k)'
  <2>1. /\ stage[p] \notin Busy /\ Exists(j, Ordinary) /\ file' = file
        /\ source' = [source EXCEPT ![p] = Ordinary] /\ Enter(p, "stamping")
        /\ job' = [job EXCEPT ![p] = j]
        /\ copy' = [copy EXCEPT ![p] = Stamped(file[j][Ordinary])]
    BY <1>4 DEF BeginClaim, CanClaim, Busy, Shape, TypeOK, Coherent
  <2>2. CASE k = j
    BY <1>safe, <2>1, <2>2, ClaimStarts, NamesAre
  <2>3. CASE k # j
    BY <1>safe, <2>1, <2>3, Untouched DEF Enter, Shape, TypeOK
  <2> QED
    BY <2>2, <2>3
<1>5. ASSUME NEW p \in Processes, NEW j \in Jobs, NEW n \in Names, SessionClaims(p, j, n)
      PROVE  Safe(k)'
  <2>1. /\ stage[p] \notin Busy /\ Exists(j, n) /\ file' = file
        /\ source' = [source EXCEPT ![p] = n] /\ Enter(p, "stamping")
        /\ job' = [job EXCEPT ![p] = j]
        /\ copy' = [copy EXCEPT ![p] = Stamped(file[j][n])]
    BY <1>5 DEF SessionClaims, Busy
  <2>2. CASE k = j
    BY <1>safe, <2>1, <2>2, ClaimStarts
  <2>3. CASE k # j
    BY <1>safe, <2>1, <2>3, Untouched DEF Enter, Shape, TypeOK
  <2> QED
    BY <2>2, <2>3
<1>6. ASSUME NEW p \in Processes,
             BeginTick(p) \/ List(p) \/ Plan(p) \/ Restart(p) \/ \E j \in Jobs : ClaimFails(p, j)
      PROVE  Safe(k)'
  <2>1. /\ UNCHANGED <<file, job, source, copy>>
        /\ \A q \in Processes : stage'[q] \in Busy => stage'[q] = stage[q]
    BY <1>6 DEF BeginTick, List, Plan, Restart, ClaimFails, Enter, Busy, jobVars, Shape, TypeOK
  <2> QED
    BY <1>safe, <2>1, Untouched
<1>7. CASE Tick \/ (\E d \in Devices : GrowStale(d)) \/ UNCHANGED vars
  <2>1. UNCHANGED <<file, stage, job, source, copy>>
    BY <1>7 DEF Tick, GrowStale, vars, procVars, jobVars
  <2> QED
    BY <1>safe, <2>1, Untouched
<1> QED
  BY <1>1, <1>2, <1>3, <1>4, <1>5, <1>6, <1>7 DEF Next, Step, Work, Processes

\* Whatever the interleaving of claims, records and deaths, a run that holds a
\* claim nobody recovered as stale can be recorded: its claimed file is there
\* and has at most one last_claimed_by.
THEOREM ClaimsAreKept == UniqueIds => (Spec => []ClaimKept)
<1> SUFFICES ASSUME UniqueIds PROVE Spec => []ClaimKept
  OBVIOUS
<1>1. Init => Shape /\ Kept
  BY ShapeInit, KeptInit
<1>2. Shape /\ Kept /\ [Next]_vars => (Shape /\ Kept)'
  BY ShapeStep, KeptStep
<1>3. Shape /\ Kept => ClaimKept
  <2> SUFFICES ASSUME Shape, Kept, NEW p \in Processes,
                      stage[p] \in HoldingStages, job[p] \notin recovered
               PROVE  Exists(job[p], IdOf[p]) /\ Parses(file[job[p]][IdOf[p]])
    BY DEF ClaimKept
  <2>1. job[p] \in Jobs /\ Safe(job[p])
    BY DEF Kept, Shape, Coherent, Busy, HoldingStages
  <2>2. Exists(job[p], IdOf[p])
    BY <2>1 DEF Safe, HeldByOne
  <2> QED
    BY <2>1, <2>2, NamesAre DEF Safe, Clean, Parses
<1> QED
  BY <1>1, <1>2, <1>3, PTL DEF Spec

\* No interleaving of claims and restores, and no death between two file
\* operations, removes the last file of a job that was not recovered as stale.
THEOREM JobsAreKept == UniqueIds => (Spec => []NoJobLost)
<1> SUFFICES ASSUME UniqueIds PROVE Spec => []NoJobLost
  OBVIOUS
<1>1. Init => Shape /\ Kept
  BY ShapeInit, KeptInit
<1>2. Shape /\ Kept /\ [Next]_vars => (Shape /\ Kept)'
  BY ShapeStep, KeptStep
<1>3. Kept => NoJobLost
  BY DEF Kept, Safe, Visible, NoJobLost
<1> QED
  BY <1>1, <1>2, <1>3, PTL DEF Spec

-----------------------------------------------------------------------------
(***************************************************************************)
(* One run in a cycle.  This does not rest on device ids being unique: a   *)
(* job that nobody contested or recovered is in one process's hand, its    *)
(* ordinary file is away while it runs, and comes back with the run's date.*)
(***************************************************************************)

\* A process works on nothing between two jobs, on no job it still has planned, has
\* a list of what is due only until it has planned, and recovers what it takes
\* under another name than the ordinary one.
Hands(p) ==
    /\ stage[p] \notin Busy => job[p] = NoJob
    /\ stage[p] # "planning" => due[p] = {}
    /\ p \in Schedulers => job[p] \notin planned[p]
    /\ stage[p] \in HoldingStages \cup {"clearing"} /\ source[p] # Ordinary => job[p] \in recovered

\* One process has the job in hand.
OneHand(j) == \A p, q \in Processes : j \in InHand(p) /\ j \in InHand(q) => p = q

\* Its ordinary file knows of its last run, and is away while it runs.
Dated(j) == Exists(j, Ordinary) => lastDone[j] <= file[j][Ordinary].lastRun

Away(j) ==
    \A p \in Processes : job[p] = j =>
        /\ stage[p] \in {"opening", "running", "restoring"} => ~Exists(j, Ordinary)
        /\ stage[p] = "restoring" => lastDone[j] <= copy[p].lastRun

\* Who means to run it has not seen it run in this cycle.
Timely(j) ==
    \A p \in Schedulers :
        \/ j \in due[p] \cup planned[p]
        \/ job[p] = j /\ stage[p] \in {"stamping", "removing", "opening"}
        => lastDone[j] < clock

Single(j) == OneHand(j) /\ Dated(j) /\ Away(j) /\ Timely(j)

OnceInv ==
    /\ \A p \in Processes : Hands(p)
    /\ \A j \in Jobs \ (contested \cup recovered) : Single(j)

LEMMA OnceInit == Init => OnceInv
BY NamesAre, CronAssumption DEF Init, OnceInv, Hands, Single, OneHand, Dated, Away, Timely, InHand, Busy, HoldingStages,
   Exists, Content

LEMMA HandIs == \A p \in Processes, j \in Jobs : j \in InHand(p) <=> j \in planned[p] \/ job[p] = j
BY NamesAre DEF InHand

\* What each process means to do, or is doing, with a job.
Means(p, j) ==
    \/ j \in due[p] \cup planned[p]
    \/ job[p] = j /\ stage[p] \in {"stamping", "removing", "opening"}

LEMMA TimelyIs == \A j : Timely(j) <=> \A p \in Schedulers : Means(p, j) => lastDone[j] < clock
BY DEF Timely, Means

(* A step that nobody takes the job up in, and that leaves its ordinary    *)
(* file and its last run alone.                                            *)
LEMMA SingleSame ==
    ASSUME Shape, NEW k \in Jobs, Single(k),
           Exists(k, Ordinary)' => file'[k][Ordinary] = file[k][Ordinary],
           lastDone'[k] = lastDone[k], clock' \in Nat, clock <= clock',
           \A q \in Processes : (k \in InHand(q))' => k \in InHand(q),
           \A q \in Processes : job'[q] = k /\ stage'[q] \in {"opening", "running", "restoring"} =>
               /\ job[q] = k /\ stage[q] \in {"opening", "running", "restoring"}
               /\ stage'[q] = "restoring" => stage[q] = "restoring" /\ copy'[q] = copy[q],
           \A p \in Schedulers : Means(p, k)' => Means(p, k)
    PROVE  Single(k)'
<1>1. OneHand(k)'
    BY DEF Single, OneHand
<1>2. Dated(k)'
    BY DEF Single, Dated, Exists
<1>3. Away(k)'
    BY DEF Single, Away, Exists
<1>4. Timely(k)'
    <2>1. clock \in Nat /\ lastDone[k] \in Nat
        BY DEF Shape, TypeOK
    <2>2. \A p \in Schedulers : Means(p, k)' => lastDone'[k] < clock'
        BY <2>1, TimelyIs DEF Single
    <2>. QED BY <2>2 DEF Timely, Means
<1>. QED BY <1>1, <1>2, <1>3, <1>4 DEF Single

(* The same when no process but p has changed.                             *)
LEMMA SingleOne ==
    ASSUME Shape, NEW k \in Jobs, Single(k), NEW p \in Processes,
           Exists(k, Ordinary)' => file'[k][Ordinary] = file[k][Ordinary],
           lastDone'[k] = lastDone[k], clock' = clock,
           \A q \in Processes \ {p} : /\ stage'[q] = stage[q] /\ job'[q] = job[q] /\ copy'[q] = copy[q]
                                      /\ due'[q] = due[q] /\ planned'[q] = planned[q],
           k \in planned'[p] \/ job'[p] = k => k \in planned[p] \/ job[p] = k,
           job'[p] = k /\ stage'[p] \in {"opening", "running", "restoring"} =>
               /\ job[p] = k /\ stage[p] \in {"opening", "running", "restoring"}
               /\ stage'[p] = "restoring" => stage[p] = "restoring" /\ copy'[p] = copy[p],
           p \in Schedulers /\ Means(p, k)' => Means(p, k)
    PROVE  Single(k)'
<1>1. \A q \in Processes : (k \in InHand(q))' => k \in InHand(q)
    BY NamesAre DEF InHand
<1>2. \A q \in Schedulers : Means(q, k)' => Means(q, k)
    <2>1. \A q \in Schedulers \ {p} : Means(q, k)' => Means(q, k)
        BY DEF Means, Processes
    <2>. QED BY <2>1
<1>3. clock' \in Nat /\ clock <= clock'
    BY DEF Shape, TypeOK
<1>. QED BY <1>1, <1>2, <1>3, SingleSame

LEMMA LeaveIs ==
    ASSUME Shape, NEW p \in Processes, NEW s, Leave(p, s)
    PROVE  /\ stage'[p] = s /\ job'[p] = NoJob /\ copy'[p] = NoFile /\ due'[p] = {} /\ planned'[p] = {}
           /\ source'[p] = Ordinary
           /\ \A q \in Processes \ {p} : /\ stage'[q] = stage[q] /\ job'[q] = job[q] /\ copy'[q] = copy[q]
                                         /\ due'[q] = due[q] /\ planned'[q] = planned[q] /\ source'[q] = source[q]
BY DEF Leave, Enter, Shape, TypeOK

LEMMA SingleLeaves ==
    ASSUME Shape, NEW k \in Jobs, Single(k), NEW p \in Processes, NEW s, Leave(p, s),
           Exists(k, Ordinary)' => file'[k][Ordinary] = file[k][Ordinary],
           lastDone'[k] = lastDone[k], clock' = clock
    PROVE  Single(k)'
<1>1. /\ stage'[p] = s /\ job'[p] = NoJob /\ due'[p] = {} /\ planned'[p] = {}
      /\ \A q \in Processes \ {p} : /\ stage'[q] = stage[q] /\ job'[q] = job[q] /\ copy'[q] = copy[q]
                                    /\ due'[q] = due[q] /\ planned'[q] = planned[q]
    BY LeaveIs
<1>2. job'[p] # k
    BY <1>1, NamesAre
<1>3. p \in Schedulers /\ Means(p, k)' => Means(p, k)
    BY <1>1, <1>2 DEF Means
<1>. QED BY <1>1, <1>2, <1>3, SingleOne

(* Writes to the names of one job.                                         *)
LEMMA OrdinaryAfter ==
    ASSUME Shape, NEW p \in Processes, job[p] \in Jobs, NEW k \in Jobs, NEW n \in Names,
           NEW c \in Content \cup {NoFile}, WriteFile(job[p], n, c)
    PROVE  /\ k = job[p] /\ n = Ordinary => file'[k][Ordinary] = c
           /\ k # job[p] \/ n # Ordinary => file'[k][Ordinary] = file[k][Ordinary]
<1>1. file \in Files
    BY DEF Shape, TypeOK, Files
<1>. QED BY <1>1, WriteFileAt, NamesAre

LEMMA BusyHasJob == ASSUME Shape, NEW p \in Processes, stage[p] \in Busy PROVE job[p] \in Jobs
BY DEF Shape, Coherent

LEMMA StampSingle ==
    ASSUME Shape, NEW p \in Processes, Stamp(p), NEW k \in Jobs, Single(k)
    PROVE  Single(k)'
<1>1. /\ stage[p] = "stamping" /\ stage' = [stage EXCEPT ![p] = "removing"]
      /\ UNCHANGED <<clock, due, planned, job, copy, lastDone>> /\ WriteFile(job[p], IdOf[p], copy[p])
    BY DEF Stamp, Enter, tickVars, jobVars
<1>2. job[p] \in Jobs /\ copy[p] \in Content
    BY <1>1 DEF Shape, Coherent, Busy
<1>3. file'[k][Ordinary] = file[k][Ordinary]
    BY <1>1, <1>2, NamesAre, OrdinaryAfter
<1>4. stage'[p] = "removing" /\ \A q \in Processes \ {p} : stage'[q] = stage[q]
    BY <1>1 DEF Shape, TypeOK
<1>5. Means(p, k)' => Means(p, k)
    BY <1>1, <1>4 DEF Means
<1>. QED BY <1>1, <1>3, <1>4, <1>5, SingleOne

LEMMA RemoveSourceSingle ==
    ASSUME Shape, NEW p \in Processes, RemoveSource(p), NEW k \in Jobs, Single(k),
           k = job[p] => source[p] = Ordinary
    PROVE  Single(k)'
<1>1. /\ stage[p] = "removing" /\ UNCHANGED <<clock, due, planned, job, copy, lastDone>>
      /\ WriteFile(job[p], source[p], NoFile)
      /\ stage' = [stage EXCEPT ![p] = IF p \in Schedulers /\ job[p] \notin ScriptJobs THEN "opening" ELSE "running"]
    BY DEF RemoveSource, Enter, tickVars, jobVars, history
<1>2. job[p] \in Jobs /\ source[p] \in Names
    BY <1>1 DEF Shape, TypeOK, Coherent, Busy
<1>3. /\ k = job[p] => file'[k][Ordinary] = NoFile
      /\ k # job[p] => file'[k][Ordinary] = file[k][Ordinary]
    BY <1>1, <1>2, OrdinaryAfter
<1>4. stage'[p] \in {"opening", "running"} /\ \A q \in Processes \ {p} : stage'[q] = stage[q]
    BY <1>1 DEF Shape, TypeOK
<1>5. Means(p, k)' => Means(p, k)
    BY <1>1, <1>4 DEF Means
<1>6. CASE k # job[p]
    BY <1>1, <1>3, <1>4, <1>5, <1>6, SingleOne
<1>7. CASE k = job[p]
    <2>1. OneHand(k)' /\ Dated(k)'
        BY <1>1, <1>3, <1>7 DEF Single, OneHand, Dated, InHand, Exists
    <2>2. Away(k)'
        BY <1>1, <1>3, <1>4, <1>7 DEF Single, Away, Exists
    <2>3. \A q \in Schedulers : Means(q, k)' => Means(q, k)
        BY <1>1, <1>4, <1>5 DEF Means, Processes
    <2>4. Timely(k)'
        BY <1>1, <2>3, TimelyIs DEF Single, Timely, Means
    <2>. QED BY <2>1, <2>2, <2>4 DEF Single
<1>. QED BY <1>6, <1>7

LEMMA RestoreSingle ==
    ASSUME Shape, NEW p \in Processes, Restore(p), NEW k \in Jobs, Single(k)
    PROVE  Single(k)'
<1>1. /\ stage[p] = "restoring" /\ stage' = [stage EXCEPT ![p] = "clearing"]
      /\ UNCHANGED <<clock, due, planned, job, copy, lastDone>> /\ WriteFile(job[p], Ordinary, copy[p])
    BY DEF Restore, Enter, tickVars, jobVars, history
<1>2. job[p] \in Jobs /\ copy[p] \in Content
    BY <1>1 DEF Shape, Coherent, Busy
<1>3. /\ k = job[p] => file'[k][Ordinary] = copy[p]
      /\ k # job[p] => file'[k][Ordinary] = file[k][Ordinary]
    BY <1>1, <1>2, NamesAre, OrdinaryAfter
<1>4. stage'[p] = "clearing" /\ \A q \in Processes \ {p} : stage'[q] = stage[q]
    BY <1>1 DEF Shape, TypeOK
<1>5. Means(p, k)' => Means(p, k)
    BY <1>1, <1>4 DEF Means
<1>6. CASE k # job[p]
    BY <1>1, <1>3, <1>4, <1>5, <1>6, SingleOne
<1>7. CASE k = job[p]
    <2>1. OneHand(k)'
        BY <1>1 DEF Single, OneHand, InHand
    <2>2. Dated(k)'
        BY <1>1, <1>3, <1>7 DEF Single, Away, Dated
    <2>3. \A q \in Processes \ {p} : job[q] # k
        BY <1>7, HandIs DEF Single, OneHand
    <2>4. Away(k)'
        BY <1>1, <1>4, <2>3 DEF Away
    <2>5. \A q \in Schedulers : Means(q, k)' => Means(q, k)
        BY <1>1, <1>4, <1>5 DEF Means, Processes
    <2>6. Timely(k)'
        BY <1>1, <2>5, TimelyIs DEF Single, Timely, Means
    <2>. QED BY <2>1, <2>2, <2>4, <2>6 DEF Single
<1>. QED BY <1>6, <1>7

LEMMA ClearSingle ==
    ASSUME Shape, NEW p \in Processes, Clear(p), NEW k \in Jobs, Single(k)
    PROVE  Single(k)'
<1>1. /\ stage[p] = "clearing" /\ UNCHANGED <<clock, lastDone>> /\ Leave(p, "idle") /\ WriteFile(job[p], IdOf[p], NoFile)
    BY DEF Clear, history
<1>2. job[p] \in Jobs
    BY <1>1 DEF Shape, Coherent, Busy
<1>3. file'[k][Ordinary] = file[k][Ordinary]
    BY <1>1, <1>2, NamesAre, OrdinaryAfter
<1>. QED BY <1>1, <1>3, SingleLeaves

(* The run's end is a date for its job, which nobody else means to run.    *)
LEMMA RecordSingle ==
    ASSUME Shape, NEW p \in Processes, Record(p), Hands(p), NEW k \in Jobs, Single(k), k \notin contested'
    PROVE  Single(k)'
<1>1. /\ stage[p] = "running" /\ stage' = [stage EXCEPT ![p] = "restoring"]
      /\ UNCHANGED <<file, clock, due, planned, job>>
      /\ lastDone' = [lastDone EXCEPT ![job[p]] = clock]
      /\ contested' = contested \cup {j \in {job[p]} : \E q \in Processes \ {p} : j \in due[q]}
    BY DEF Record, Enter, tickVars
<1>2. job[p] \in Jobs /\ clock \in Nat
    BY <1>1 DEF Shape, TypeOK, Coherent, Busy
<1>3. /\ stage'[p] = "restoring" /\ \A q \in Processes \ {p} : stage'[q] = stage[q]
      /\ copy'[p].lastRun = clock /\ \A q \in Processes \ {p} : copy'[q] = copy[q]
    BY <1>1 DEF Record, Shape, TypeOK
<1>4. lastDone'[job[p]] = clock /\ (k # job[p] => lastDone'[k] = lastDone[k])
    BY <1>2, <1>1 DEF Shape, TypeOK
<1>5. Means(p, k)' => Means(p, k)
    BY <1>1, <1>3 DEF Means
<1>6. CASE k # job[p]
    BY <1>1, <1>3, <1>4, <1>5, <1>6, SingleOne
<1>7. CASE k = job[p]
    <2>1. OneHand(k)'
        BY <1>1 DEF Single, OneHand, InHand
    <2>2. ~Exists(k, Ordinary)
        BY <1>1, <1>7 DEF Single, Away
    <2>3. \A q \in Processes \ {p} : job[q] # k /\ k \notin planned[q] /\ k \notin due[q]
        BY <1>1, <1>7, HandIs DEF Single, OneHand
    <2>4. Dated(k)'
        BY <1>1, <2>2 DEF Dated, Exists
    <2>5. Away(k)'
        BY <1>1, <1>2, <1>3, <1>4, <1>7, <2>2, <2>3 DEF Away, Exists
    <2>6. \A q \in Schedulers : ~Means(q, k)'
        <3>1. \A q \in Schedulers \ {p} : ~Means(q, k)'
            BY <1>1, <2>3 DEF Means, Processes
        <3>2. p \in Schedulers => ~Means(p, k)'
            BY <1>1, <1>3, <1>7 DEF Means, Hands
        <3>. QED BY <3>1, <3>2
    <2>7. Timely(k)'
        BY <2>6 DEF Timely, Means
    <2>. QED BY <2>1, <2>4, <2>5, <2>7 DEF Single
<1>. QED BY <1>6, <1>7

(* Taking a job up.                                                        *)

\* Whatever its schedule, a job is not due in the minute of its last run.
LEMMA DueIsLate ==
    ASSUME clock \in 1..MaxCycle, NEW c \in Content, IsDue(c)
    PROVE  c.lastRun < clock
<1>1. /\ c.schedule \in Schedules /\ c.lastRun \in Nat /\ clock \in Nat /\ 0 < clock
    BY CronAssumption DEF Content
<1>2. CASE c.lastRun = 0
    BY <1>1, <1>2
<1>3. CASE c.schedule \in Intervals /\ clock - c.lastRun >= c.schedule.every
    <2>1. c.schedule.every \in Nat \ {0}
        BY <1>3 DEF Intervals
    <2>. QED BY <1>1, <1>3, <2>1
<1>. QED BY <1>2, <1>3 DEF IsDue

LEMMA ListSingle ==
    ASSUME Shape, NEW p \in Schedulers, List(p), NEW k \in Jobs, Single(k)
    PROVE  Single(k)'
<1>1. /\ UNCHANGED <<file, clock, planned, job, copy, lastDone>>
      /\ stage[p] = "listing" /\ stage' = [stage EXCEPT ![p] = "planning"]
      /\ due' = [due EXCEPT ![p] = {j \in Jobs : /\ Exists(j, Ordinary) /\ Parses(file[j][Ordinary])
                                                 /\ IsDue(file[j][Ordinary])}]
    BY DEF List, Enter, jobVars, history
<1>2. /\ stage'[p] = "planning" /\ \A q \in Processes \ {p} : stage'[q] = stage[q] /\ due'[q] = due[q]
      /\ k \in due'[p] => Exists(k, Ordinary) /\ IsDue(file[k][Ordinary])
    BY <1>1 DEF Shape, TypeOK, Processes
<1>3. OneHand(k)' /\ Dated(k)'
    BY <1>1 DEF Single, OneHand, InHand, Dated, Exists
<1>4. Away(k)'
    BY <1>1, <1>2 DEF Single, Away, Exists
<1>5. k \in due'[p] => lastDone[k] < clock
    <2>1. clock \in Nat /\ lastDone[k] \in Nat
        BY DEF Shape, TypeOK
    <2>2. Exists(k, Ordinary) => file[k][Ordinary].lastRun \in Nat
        BY NamesAre DEF Shape, TypeOK, Exists, Content
    <2>3. Exists(k, Ordinary) /\ IsDue(file[k][Ordinary]) => file[k][Ordinary].lastRun < clock
        BY <2>1, <2>2, DueIsLate, NamesAre DEF Shape, TypeOK, Exists
    <2>. QED BY <1>2, <2>1, <2>2, <2>3 DEF Single, Dated
<1>6. \A q \in Schedulers : Means(q, k)' => Means(q, k) \/ lastDone[k] < clock
    <2>1. \A q \in Schedulers \ {p} : Means(q, k)' => Means(q, k)
        BY <1>1, <1>2 DEF Means, Processes
    <2>2. Means(p, k)' => Means(p, k) \/ lastDone[k] < clock
        BY <1>1, <1>2, <1>5 DEF Means
    <2>. QED BY <2>1, <2>2
<1>7. Timely(k)'
    BY <1>1, <1>6, TimelyIs DEF Single, Timely, Means
<1>. QED BY <1>3, <1>4, <1>7 DEF Single

LEMMA PlanSingle ==
    ASSUME Shape, NEW p \in Schedulers, Plan(p), NEW k \in Jobs, Single(k), k \notin contested'
    PROVE  Single(k)'
<1>1. /\ UNCHANGED <<file, clock, job, copy, lastDone>>
      /\ stage[p] = "planning" /\ stage' = [stage EXCEPT ![p] = "walking"]
      /\ due' = [due EXCEPT ![p] = {}]
      /\ planned' = [planned EXCEPT ![p] = {j \in due[p] : Owns(IdOf[p], j)}]
    BY DEF Plan, Enter, jobVars
<1>2. /\ stage'[p] = "walking" /\ due'[p] = {} /\ planned'[p] \subseteq due[p]
      /\ \A q \in Processes \ {p} : stage'[q] = stage[q] /\ due'[q] = due[q] /\ planned'[q] = planned[q]
    BY <1>1 DEF Shape, TypeOK, Processes
<1>3. k \in planned'[p] => \A q \in Processes \ {p} : k \notin InHand(q)
    BY DEF Plan
<1>4. OneHand(k)'
    <2>1. \A q \in Processes \ {p} : (k \in InHand(q))' <=> k \in InHand(q)
        BY <1>1, <1>2 DEF InHand
    <2>2. (k \in InHand(p))' => k \in planned'[p] \/ k \in InHand(p)
        BY <1>1 DEF InHand
    <2>3. p \in Processes
        BY DEF Processes
    <2>. QED BY <1>3, <2>1, <2>2, <2>3 DEF Single, OneHand
<1>5. Dated(k)' /\ Away(k)'
    BY <1>1, <1>2 DEF Single, Dated, Away, Exists
<1>6. \A q \in Schedulers : Means(q, k)' => Means(q, k)
    <2>1. \A q \in Schedulers \ {p} : Means(q, k)' => Means(q, k)
        BY <1>1, <1>2 DEF Means, Processes
    <2>2. Means(p, k)' => Means(p, k)
        BY <1>1, <1>2 DEF Means
    <2>. QED BY <2>1, <2>2
<1>7. Timely(k)'
    BY <1>1, <1>6, TimelyIs DEF Single, Timely, Means
<1>. QED BY <1>4, <1>5, <1>7 DEF Single

LEMMA BeginClaimSingle ==
    ASSUME Shape, NEW p \in Schedulers, NEW j \in Jobs, BeginClaim(p, j), NEW k \in Jobs, Single(k)
    PROVE  Single(k)'
<1>0. p \in Processes
    BY DEF Processes
<1>1. /\ UNCHANGED <<file, clock, due, lastDone>> /\ j \in planned[p]
      /\ stage'[p] = "stamping" /\ job'[p] = j /\ planned'[p] = planned[p] \ {j}
      /\ \A q \in Processes \ {p} : /\ stage'[q] = stage[q] /\ job'[q] = job[q] /\ copy'[q] = copy[q]
                                    /\ planned'[q] = planned[q]
    BY <1>0 DEF BeginClaim, Enter, history, Shape, TypeOK
<1>2. Means(p, k)' => Means(p, k)
    BY <1>1 DEF Means
<1>. QED BY <1>0, <1>1, <1>2, SingleOne

LEMMA SessionClaimsSingle ==
    ASSUME Shape, NEW s \in Sessions, NEW j \in Jobs, NEW n \in Names, SessionClaims(s, j, n), NEW k \in Jobs,
           Single(k), k \notin contested'
    PROVE  Single(k)'
<1>0. s \in Processes /\ s \notin Schedulers
    BY CronAssumption DEF Processes
<1>1. /\ UNCHANGED <<file, clock, due, planned, lastDone>>
      /\ stage'[s] = "stamping" /\ job'[s] = j
      /\ \A q \in Processes \ {s} : stage'[q] = stage[q] /\ job'[q] = job[q] /\ copy'[q] = copy[q]
    BY <1>0 DEF SessionClaims, Enter, tickVars, Shape, TypeOK
<1>2. CASE k # j
    BY <1>0, <1>1, <1>2, SingleOne
<1>3. CASE k = j
    <2>1. \A q \in Processes \ {s} : k \notin InHand(q)
        BY <1>3 DEF SessionClaims
    <2>2. OneHand(k)'
        BY <1>1, <2>1 DEF OneHand, InHand
    <2>3. Dated(k)' /\ Away(k)'
        BY <1>1 DEF Single, Dated, Away, Exists
    <2>4. \A q \in Schedulers : Means(q, k)' => Means(q, k)
        BY <1>0, <1>1 DEF Means, Processes
    <2>5. Timely(k)'
        BY <1>1, <2>4, TimelyIs DEF Single, Timely, Means
    <2>. QED BY <2>2, <2>3, <2>5 DEF Single
<1>. QED BY <1>2, <1>3

-----------------------------------------------------------------------------
\* A process that takes a step, and all others.
LEMMA HandsOne ==
    ASSUME Shape, \A q \in Processes : Hands(q), NEW p \in Processes, Hands(p)', recovered \subseteq recovered',
           \A q \in Processes \ {p} : /\ stage'[q] = stage[q] /\ job'[q] = job[q]
                                      /\ due'[q] = due[q] /\ planned'[q] = planned[q] /\ source'[q] = source[q]
    PROVE  \A q \in Processes : Hands(q)'
BY DEF Hands

LEMMA HandsLeave ==
    ASSUME Shape, \A q \in Processes : Hands(q), NEW p \in Processes, NEW s \in {"idle", "down"}, Leave(p, s),
           recovered \subseteq recovered'
    PROVE  \A q \in Processes : Hands(q)'
<1>1. Hands(p)'
    BY LeaveIs DEF Hands, Busy, HoldingStages
<1>. QED BY <1>1, LeaveIs, HandsOne

LEMMA NothingForgotten == [Next]_vars => contested \subseteq contested' /\ recovered \subseteq recovered'
BY DEF Next, Step, Work, vars, history, Processes, Tick, GrowStale, BeginTick, List, Stamp,
   Plan, NoWork, BeginClaim, ClaimFails, Open, OpenFails, Restart, RemoveSource,
   Record, RecordFails, Restore, Clear, SessionClaims, Crash

(* What a process has in hand, action by action.                           *)
LEMMA HandsSteps ==
    ASSUME Shape, \A q \in Processes : Hands(q), recovered \subseteq recovered', NEW p \in Processes,
           \/ BeginTick(p) \/ List(p) \/ Plan(p) \/ Restart(p) \/ (\E j \in Jobs : ClaimFails(p, j)) \/ Open(p)
           \/ (\E j \in Jobs : p \in Schedulers /\ BeginClaim(p, j))
           \/ Stamp(p) \/ RemoveSource(p) \/ Record(p) \/ Restore(p)
    PROVE  \A q \in Processes : Hands(q)'
<1>1. \A q \in Processes \ {p} : /\ stage'[q] = stage[q] /\ job'[q] = job[q]
                                 /\ due'[q] = due[q] /\ planned'[q] = planned[q] /\ source'[q] = source[q]
    <2>1. CASE BeginTick(p) \/ Restart(p) \/ Open(p)
        BY <2>1 DEF BeginTick, Restart, Open, Enter, tickVars, jobVars, Shape, TypeOK
    <2>2. CASE List(p) \/ Plan(p) \/ (\E j \in Jobs : ClaimFails(p, j))
        BY <2>2 DEF List, Plan, ClaimFails, Enter, jobVars, Shape, TypeOK
    <2>3. CASE \E j \in Jobs : BeginClaim(p, j)
        BY <2>3 DEF BeginClaim, Enter, Shape, TypeOK
    <2>4. CASE Stamp(p) \/ RemoveSource(p) \/ Record(p) \/ Restore(p)
        BY <2>4 DEF Stamp, RemoveSource, Record, Restore, Enter, tickVars, jobVars, Shape, TypeOK
    <2>. QED BY <2>1, <2>2, <2>3, <2>4
<1>2. Hands(p)'
    <2>. USE DEF Hands, Busy, HoldingStages
    <2>1. CASE BeginTick(p) \/ Restart(p)
        BY <2>1 DEF BeginTick, Restart, Enter, tickVars, jobVars, Shape, TypeOK
    <2>2. CASE List(p)
        BY <2>2 DEF List, Enter, jobVars, Shape, TypeOK
    <2>3. CASE Plan(p)
        BY <2>3, NamesAre DEF Plan, Enter, jobVars, Shape, TypeOK
    <2>4. CASE \E j \in Jobs : ClaimFails(p, j)
        BY <2>4 DEF ClaimFails, jobVars, Shape, TypeOK
    <2>5. CASE \E j \in Jobs : p \in Schedulers /\ BeginClaim(p, j)
        <3>1. PICK j \in Jobs : BeginClaim(p, j)
            BY <2>5
        <3>2. stage'[p] = "stamping" /\ job'[p] = j /\ planned'[p] = planned[p] \ {j} /\ due'[p] = due[p]
              /\ stage[p] = "walking"
            BY <3>1 DEF BeginClaim, Enter, Shape, TypeOK
        <3>. QED BY <3>2
    <2>6. CASE Open(p)
        BY <2>6 DEF Open, Enter, tickVars, jobVars, Shape, TypeOK
    <2>7. CASE Stamp(p)
        <3>1. stage'[p] = "removing" /\ stage[p] = "stamping" /\ UNCHANGED <<job, planned, due, source>>
            BY <2>7 DEF Stamp, Enter, tickVars, jobVars, Shape, TypeOK
        <3>2. source[p] # Ordinary => job[p] \in recovered'
            BY <2>7 DEF Stamp
        <3>. QED BY <3>1, <3>2
    <2>8. CASE RemoveSource(p) \/ Record(p) \/ Restore(p)
        <3>1. /\ stage'[p] \in Busy \ {"stamping"} /\ stage[p] \in HoldingStages
              /\ UNCHANGED <<job, planned, due, source>>
            BY <2>8 DEF RemoveSource, Record, Restore, Enter, tickVars, jobVars, Shape, TypeOK
        <3>. QED BY <3>1
    <2>. QED BY <2>1, <2>2, <2>3, <2>4, <2>5, <2>6, <2>7, <2>8
<1>. QED BY <1>1, <1>2, HandsOne

LEMMA OnceStep == Shape /\ OnceInv /\ [Next]_vars => OnceInv'
<1>. SUFFICES ASSUME Shape, OnceInv, [Next]_vars PROVE OnceInv'
    OBVIOUS
<1>m. contested \subseteq contested' /\ recovered \subseteq recovered'
    BY NothingForgotten
<1>h. \A q \in Processes : Hands(q)
    BY DEF OnceInv
<1>k. \A k \in Jobs \ (contested' \cup recovered') : Single(k)
    BY <1>m DEF OnceInv
<1>1. ASSUME NEW p \in Processes, Stamp(p) \/ RemoveSource(p) \/ Record(p) \/ Restore(p) PROVE OnceInv'
    <2>1. ASSUME NEW k \in Jobs \ (contested' \cup recovered') PROVE Single(k)'
        <3>1. stage[p] = "removing" /\ k = job[p] => source[p] = Ordinary
            BY <1>h, <1>m, <2>1 DEF Hands, HoldingStages
        <3>2. RemoveSource(p) => stage[p] = "removing"
            BY DEF RemoveSource
        <3>. QED BY <1>1, <1>h, <1>k, <2>1, <3>1, <3>2, StampSingle, RemoveSourceSingle, RecordSingle, RestoreSingle
    <2>. QED BY <1>1, <1>h, <1>m, <2>1, HandsSteps DEF OnceInv
<1>2. ASSUME NEW p \in Processes, Clear(p) PROVE OnceInv'
    <2>1. \A k \in Jobs \ (contested' \cup recovered') : Single(k)'
        BY <1>2, <1>k, ClearSingle
    <2>2. Leave(p, "idle")
        BY <1>2 DEF Clear
    <2>. QED BY <1>h, <1>m, <2>1, <2>2, HandsLeave DEF OnceInv
<1>3. ASSUME NEW p \in Processes, NEW s \in {"idle", "down"}, Leave(p, s), UNCHANGED <<file, clock, lastDone>>
      PROVE  OnceInv'
    <2>1. \A k \in Jobs \ (contested' \cup recovered') : Single(k)'
        BY <1>3, <1>k, SingleLeaves
    <2>. QED BY <1>3, <1>h, <1>m, <2>1, HandsLeave DEF OnceInv
<1>4. ASSUME NEW p \in Processes, RecordFails(p) PROVE OnceInv'
    <2>1. CASE ~(p \in Schedulers /\ job[p] \in ScriptJobs)
        BY <1>3, <1>4, <2>1 DEF RecordFails, history
    <2>2. CASE p \in Schedulers /\ job[p] \in ScriptJobs
        <3>1. /\ stage'[p] = "walking" /\ job'[p] = NoJob /\ UNCHANGED <<due, planned, source, file, clock, lastDone>>
              /\ \A q \in Processes \ {p} : stage'[q] = stage[q] /\ job'[q] = job[q] /\ copy'[q] = copy[q]
              /\ stage[p] = "running"
            BY <1>4, <2>2 DEF RecordFails, Enter, tickVars, history, Shape, TypeOK
        <3>2. Hands(p)'
            BY <1>h, <3>1, NamesAre DEF Hands, Busy, HoldingStages, Shape, TypeOK
        <3>3. \A q \in Processes : Hands(q)'
            BY <1>h, <1>m, <3>1, <3>2, HandsOne
        <3>4. ASSUME NEW k \in Jobs \ (contested' \cup recovered') PROVE Single(k)'
            <4>1. job'[p] # k
                BY <3>1, NamesAre
            <4>2. p \in Schedulers /\ Means(p, k)' => Means(p, k)
                BY <3>1, <4>1 DEF Means
            <4>. QED BY <1>k, <3>1, <3>4, <4>1, <4>2, SingleOne
        <3>. QED BY <3>3, <3>4 DEF OnceInv
    <2>. QED BY <2>1, <2>2
<1>5. ASSUME NEW p \in Schedulers, List(p) \/ Plan(p) PROVE OnceInv'
    <2>1. \A k \in Jobs \ (contested' \cup recovered') : Single(k)'
        BY <1>5, <1>k, ListSingle, PlanSingle
    <2>. QED BY <1>5, <1>h, <1>m, <2>1, HandsSteps DEF OnceInv, Processes
<1>6. ASSUME NEW p \in Schedulers, BeginTick(p) \/ Restart(p) \/ Open(p) \/ (\E j \in Jobs : ClaimFails(p, j))
      PROVE  OnceInv'
    <2>0. p \in Processes
        BY DEF Processes
    <2>1. /\ UNCHANGED <<file, clock, due, job, copy, lastDone>> /\ planned'[p] \subseteq planned[p]
          /\ \A q \in Processes \ {p} : stage'[q] = stage[q] /\ planned'[q] = planned[q]
          /\ stage'[p] \notin {"opening", "restoring", "stamping", "removing"}
          /\ stage'[p] = "running" => stage[p] = "opening"
        <3>1. CASE BeginTick(p) \/ Restart(p) \/ Open(p)
            BY <2>0, <3>1 DEF BeginTick, Restart, Open, Enter, tickVars, jobVars, history, Shape, TypeOK
        <3>2. CASE \E j \in Jobs : ClaimFails(p, j)
            BY <2>0, <3>2 DEF ClaimFails, Enter, jobVars, history, Shape, TypeOK
        <3>. QED BY <1>6, <3>1, <3>2
    <2>2. ASSUME NEW k \in Jobs \ (contested' \cup recovered') PROVE Single(k)'
        <3>1. Means(p, k)' => Means(p, k)
            BY <2>1 DEF Means
        <3>. QED BY <1>k, <2>0, <2>1, <2>2, <3>1, SingleOne
    <2>. QED BY <1>6, <1>h, <1>m, <2>0, <2>2, HandsSteps DEF OnceInv
<1>7. ASSUME NEW p \in Schedulers, NEW j \in Jobs, BeginClaim(p, j) PROVE OnceInv'
    <2>1. \A k \in Jobs \ (contested' \cup recovered') : Single(k)'
        BY <1>7, <1>k, BeginClaimSingle
    <2>. QED BY <1>7, <1>h, <1>m, <2>1, HandsSteps DEF OnceInv, Processes
<1>8. ASSUME NEW s \in Sessions, NEW j \in Jobs, NEW n \in Names, SessionClaims(s, j, n) PROVE OnceInv'
    <2>1. \A k \in Jobs \ (contested' \cup recovered') : Single(k)'
        BY <1>8, <1>k, SessionClaimsSingle
    <2>2. s \in Processes /\ s \notin Schedulers
        BY CronAssumption DEF Processes
    <2>3. /\ stage[s] = "idle" /\ stage'[s] = "stamping" /\ UNCHANGED <<due, planned>>
          /\ \A q \in Processes \ {s} : stage'[q] = stage[q] /\ job'[q] = job[q] /\ source'[q] = source[q]
        BY <1>8, <2>2 DEF SessionClaims, Enter, tickVars, Shape, TypeOK
    <2>4. Hands(s)'
        BY <1>h, <2>2, <2>3 DEF Hands, Busy, HoldingStages
    <2>. QED BY <1>h, <1>m, <2>1, <2>2, <2>3, <2>4, HandsOne DEF OnceInv
<1>9. CASE Tick \/ (\E d \in Devices : GrowStale(d)) \/ UNCHANGED vars
    <2>1. UNCHANGED <<file, stage, due, planned, job, source, copy, lastDone>>
        BY <1>9 DEF Tick, GrowStale, vars, procVars, tickVars, jobVars, history
    <2>2. clock' \in Nat /\ clock <= clock'
        BY <1>9 DEF Tick, GrowStale, vars, Shape, TypeOK
    <2>3. \A q \in Processes : Hands(q)'
        BY <1>h, <1>m, <2>1 DEF Hands
    <2>4. ASSUME NEW k \in Jobs \ (contested' \cup recovered') PROVE Single(k)'
        <3>1. \A q \in Processes : (k \in InHand(q))' => k \in InHand(q)
            BY <2>1 DEF InHand
        <3>2. \A q \in Schedulers : Means(q, k)' => Means(q, k)
            BY <2>1 DEF Means
        <3>. QED BY <1>k, <2>1, <2>2, <2>4, <3>1, <3>2, SingleSame
    <2>. QED BY <2>3, <2>4 DEF OnceInv
<1>10. ASSUME NEW p \in Processes, NoWork(p) \/ OpenFails(p) \/ Crash(p) PROVE OnceInv'
    BY <1>3, <1>10 DEF NoWork, OpenFails, Crash, history
<1>. QED BY <1>1, <1>2, <1>4, <1>5, <1>6, <1>7, <1>8, <1>9, <1>10 DEF Next, Step, Work, Processes

\* Across crashes, restarts and failed claims, a scheduler starts a job a second
\* time in the cycle of its last run only if two processes had it in hand at once
\* or its claim was recovered as stale (isScheduleDue and recordCronRun), for any
\* devices, also if two processes have one id.
THEOREM RunsOncePerCycle == Spec => OncePerCycle
<1>1. Init => Shape /\ OnceInv
    BY ShapeInit, OnceInit
<1>2. Shape /\ OnceInv /\ [Next]_vars => (Shape /\ OnceInv)'
    BY ShapeStep, OnceStep
<1>3. Shape /\ OnceInv /\ [Next]_vars =>
        [\A p \in Schedulers :
            (stage[p] # "running" /\ stage'[p] = "running"
               /\ job[p] \notin contested \cup recovered) => lastDone[job[p]] < clock]_vars
    <2>. SUFFICES ASSUME Shape, OnceInv, Next, NEW p \in Schedulers, stage[p] # "running", stage'[p] = "running",
                         job[p] \notin contested \cup recovered
                  PROVE  lastDone[job[p]] < clock
        OBVIOUS
    <2>1. stage[p] \in {"removing", "opening"}
        <3>1. ASSUME NEW q \in Processes, Leave(q, "idle") \/ Leave(q, "down") PROVE FALSE
            BY <3>1, LeaveIs DEF Processes
        <3>2. ASSUME NEW q \in Processes, NEW s \in Stages, Enter(q, s), stage[p] \notin {"removing", "opening"},
                     s # "running" \/ q # p
              PROVE  FALSE
            BY <3>2 DEF Enter, Shape, TypeOK, Processes
        <3>3. ASSUME NEW q \in Processes,
                     \/ BeginTick(q) \/ List(q) \/ Plan(q) \/ Restart(q) \/ (\E j \in Jobs : BeginClaim(q, j))
                     \/ Stamp(q) \/ Record(q) \/ Restore(q) \/ (\E j \in Jobs, n \in Names : SessionClaims(q, j, n))
              PROVE  stage[p] \in {"removing", "opening"}
            BY <3>2, <3>3 DEF BeginTick, List, Plan, Restart, BeginClaim, Stamp, Record, Restore, SessionClaims, Stages
        <3>4. ASSUME NEW q \in Processes, RemoveSource(q) \/ Open(q) PROVE stage[p] \in {"removing", "opening"}
            BY <3>4 DEF RemoveSource, Open, Enter, Shape, TypeOK, Processes
        <3>5. ASSUME NEW q \in Processes, NoWork(q) \/ OpenFails(q) \/ Clear(q) \/ Crash(q) PROVE FALSE
            BY <3>1, <3>5 DEF NoWork, OpenFails, Clear, Crash
        <3>6. ASSUME NEW q \in Processes, RecordFails(q) PROVE stage[p] \in {"removing", "opening"}
            BY <3>1, <3>2, <3>6 DEF RecordFails, Stages
        <3>7. ASSUME Tick \/ (\E d \in Devices : GrowStale(d)) \/ (\E q \in Processes, j \in Jobs : ClaimFails(q, j))
              PROVE  FALSE
            BY <3>7 DEF Tick, GrowStale, ClaimFails, procVars
        <3>. QED BY <3>3, <3>4, <3>5, <3>6, <3>7 DEF Next, Step, Work, Processes
    <2>2. job[p] \in Jobs
        BY <2>1 DEF Shape, Coherent, Busy, Processes
    <2>3. Timely(job[p])
        BY <2>2 DEF OnceInv, Single
    <2>. QED BY <2>1, <2>3 DEF Timely
<1>. QED BY <1>1, <1>2, <1>3, PTL DEF Spec, OncePerCycle

-----------------------------------------------------------------------------
(***************************************************************************)
(* The cron commands and the device.  What was reported of a file is in it *)
(* and in each copy the device has of it, whatever step of claiming,       *)
(* running and putting back it is at.                                      *)
(***************************************************************************)

ReadyJob == [file : JobFiles, mode : {"agent", "script"}]

\* What a command has in hand.
CreateTool ==
    [at : {"creating", "opening", "writing"}, verb : {"create"}, file : JobFiles, force : BOOLEAN,
     text : JobTexts, alone : BOOLEAN, lost : BOOLEAN]
SwitchTool ==
    [at : {"reading", "opening", "writing"}, verb : {"enable", "disable", "show"}, file : JobFiles,
     text : JobTexts \cup {NoJobFile}, alone : BOOLEAN, lost : BOOLEAN]

\* A command that writes has a text that says what the command reports; one that
\* has lost the file it writes to is not alone.
AuthorOk(w) ==
    w.at # "none" =>
        /\ w \in CreateTool \cup SwitchTool
        /\ w.lost => ~w.alone
        /\ w.verb = "create" => w.text.enabled = "true"
        /\ w.at \in {"opening", "writing"} =>
             /\ w.text \in JobTexts
             /\ w.verb \in {"create", "enable", "disable"}
             /\ w.text.enabled = IF w.verb = "disable" THEN "false" ELSE "true"

AuthorFits(a) == AuthorOk(author[a])

RunnerTypes ==
    {Resting} \cup [at : {"listed"}, ready : SUBSET ReadyJob]
    \cup [at : {"looking"}, ready : SUBSET ReadyJob, file : JobFiles, mode : {"agent", "script"}]
    \cup [at : {"stamping", "removing"}, file : JobFiles, mode : {"agent", "script"}, text : JobTexts]
    \cup [at : {"opening", "running"}, file : JobFiles, mode : {"agent", "script"}, signal : {"none", "term", "kill"}]
    \cup [at : {"recording"}, file : JobFiles, mode : {"agent", "script"}, status : {"completed", "failed"}]
    \cup [at : {"restoring", "clearing"}, file : JobFiles, text : JobTexts]

RunnerFits ==
    /\ runner \in RunnerTypes
    /\ runner.at \in {"removing", "opening", "running", "recording", "restoring", "clearing"} =>
         claimed[runner.file] \in JobTexts

JobTypes ==
    /\ jobs \in [JobFiles -> JobTexts \cup {NoJobFile}]
    /\ claimed \in [JobFiles -> JobTexts \cup {NoJobFile}]
    /\ told \in [JobFiles -> {"nothing", "on", "off", "faulty"}]
    /\ DOMAIN author = Authors

\* Text t is as a command has said of its file.
Says(s, t) == t \in JobTexts /\ IF s = "on" THEN t.enabled # "false" ELSE t.enabled = "false"

\* What is reported of f is in the file, and in every copy the device has of it.
SwitchFits(f) ==
    told[f] \in {"on", "off"} =>
        /\ jobs[f] # NoJobFile => Says(told[f], jobs[f])
        /\ jobs[f] = NoJobFile => Says(told[f], claimed[f])
        /\ f \in Held =>
             /\ runner.at \in {"stamping", "restoring"} => Says(told[f], runner.text)
             /\ runner.at \notin {"stamping", "clearing"} => Says(told[f], claimed[f])
             /\ runner.at = "clearing" => jobs[f] # NoJobFile

\* A file that is reported faulty is not claimed, nor will be: the loader refuses
\* it, or it is a script's that is looked up first.
FaultyFits(f) ==
    told[f] = "faulty" =>
        /\ jobs[f] \in JobTexts /\ Faulty(jobs[f]) /\ claimed[f] = NoJobFile
        /\ f \notin Held
        /\ runner.at = "looking" => runner.file # f
        /\ runner.at \in {"listed", "looking"} => \A r \in runner.ready : r.file = f => r.mode = "script"

NoneWrites(f) == told[f] # "nothing" => \A a \in Authors : author[a].at = "writing" => author[a].file # f

JobInv ==
    /\ JobTypes /\ RunnerFits
    /\ \A a \in Authors : AuthorFits(a)
    /\ \A f \in JobFiles : SwitchFits(f) /\ FaultyFits(f) /\ NoneWrites(f)

(* What a step has to show of one file.                                    *)
LEMMA SameFile ==
    ASSUME NEW f, SwitchFits(f), FaultyFits(f), jobs'[f] = jobs[f], claimed'[f] = claimed[f],
           told'[f] \in {told[f], "nothing"}, runner' = runner
    PROVE  SwitchFits(f)' /\ FaultyFits(f)'
BY DEF SwitchFits, FaultyFits, Says, Faulty, Parsed, Held

LEMMA NothingTold ==
    ASSUME NEW f, told'[f] = "nothing"
    PROVE  SwitchFits(f)' /\ FaultyFits(f)' /\ NoneWrites(f)'
BY DEF SwitchFits, FaultyFits, NoneWrites

LEMMA NowIs ==
    ASSUME JobTypes, NEW a \in Authors, NEW new, Now(a, new)
    PROVE  author'[a] = new /\ DOMAIN author' = Authors /\ \A b \in Authors \ {a} : author'[b] = author[b]
BY DEF JobTypes, Now

(* A step of one command.                                                  *)
LEMMA CommandSteps ==
    ASSUME JobInv, NEW a \in Authors, NEW new, Now(a, new), AuthorOk(new), UNCHANGED <<claimed, runner>>,
           jobs' \in [JobFiles -> JobTexts \cup {NoJobFile}],
           told' \in [JobFiles -> {"nothing", "on", "off", "faulty"}],
           \A f \in JobFiles : SwitchFits(f)' /\ FaultyFits(f)',
           \A f \in JobFiles : \/ told'[f] = told[f] /\ (new.at = "writing" => new.file # f)
                               \/ told'[f] # "nothing" =>
                                    \A b \in Authors : author'[b].at = "writing" => author'[b].file # f
    PROVE  JobInv'
<1>1. author'[a] = new /\ DOMAIN author' = Authors /\ \A b \in Authors \ {a} : author'[b] = author[b]
    BY NowIs DEF JobInv
<1>2. \A b \in Authors : AuthorFits(b)'
    BY <1>1 DEF JobInv, AuthorFits, AuthorOk
<1>3. JobTypes'
    BY <1>1 DEF JobInv, JobTypes
<1>4. RunnerFits'
    BY DEF JobInv, RunnerFits
<1>5. \A f \in JobFiles : NoneWrites(f)'
    BY <1>1 DEF JobInv, NoneWrites
<1>. QED BY <1>2, <1>3, <1>4, <1>5 DEF JobInv

(* A step that changes only what a command has in hand.                    *)
LEMMA HandSteps ==
    ASSUME JobInv, NEW a \in Authors, NEW new, Now(a, new), AuthorOk(new), new.at # "writing",
           UNCHANGED <<jobs, claimed, runner, told>>
    PROVE  JobInv'
<1>1. \A f \in JobFiles : SwitchFits(f)' /\ FaultyFits(f)'
    BY SameFile DEF JobInv
<1>2. /\ jobs' \in [JobFiles -> JobTexts \cup {NoJobFile}]
      /\ told' \in [JobFiles -> {"nothing", "on", "off", "faulty"}]
    BY DEF JobInv, JobTypes
<1>. QED BY <1>1, <1>2, CommandSteps

LEMMA NoAuthorOk == AuthorOk(NoAuthor) /\ NoAuthor.at # "writing"
BY DEF AuthorOk, NoAuthor

LEMMA AloneBool == \A a, f : Alone(a, f) \in BOOLEAN
BY DEF Alone

LEMMA FreshIs ==
    ASSUME NEW mode \in {"agent", "script"}
    PROVE  Fresh(mode) \in JobTexts /\ Fresh(mode).enabled = "true"
BY DEF Fresh, JobTexts

LEMMA BeginCreateFits ==
    ASSUME JobInv, NEW a \in Authors, NEW f \in JobFiles, NEW mode \in {"agent", "script"}, NEW force \in BOOLEAN,
           BeginCreate(a, f, mode, force)
    PROVE  JobInv'
<1>. DEFINE new == [at |-> "creating", verb |-> "create", file |-> f, force |-> force, text |-> Fresh(mode),
                    alone |-> Alone(a, f), lost |-> FALSE]
<1>1. Now(a, new) /\ UNCHANGED <<jobs, claimed, runner, told>>
    BY DEF BeginCreate, Begins, Now
<1>2. Alone(a, f) \in BOOLEAN /\ Fresh(mode) \in JobTexts /\ Fresh(mode).enabled = "true"
    BY AloneBool, FreshIs
<1>3. new \in CreateTool
    BY <1>2 DEF CreateTool
<1>4. new.at = "creating" /\ new.verb = "create" /\ new.text = Fresh(mode) /\ new.lost = FALSE
    OBVIOUS
<1>. HIDE DEF new
<1>5. AuthorOk(new) /\ new.at # "writing"
    BY <1>2, <1>3, <1>4 DEF AuthorOk
<1>. QED BY <1>1, <1>5, HandSteps

LEMMA LookUpFits ==
    ASSUME JobInv, NEW a \in Authors, NEW f \in JobFiles, NEW verb \in {"enable", "disable", "show"},
           LookUp(a, verb, f)
    PROVE  JobInv'
<1>. DEFINE new == [at |-> "reading", verb |-> verb, file |-> f, text |-> NoJobFile,
                    alone |-> Alone(a, f), lost |-> FALSE]
<1>1. Now(a, new) /\ UNCHANGED <<jobs, claimed, runner, told>>
    BY DEF LookUp, Begins, Now
<1>2. Alone(a, f) \in BOOLEAN
    BY AloneBool
<1>3. new \in SwitchTool
    BY <1>2 DEF SwitchTool
<1>4. new.at = "reading" /\ new.verb # "create" /\ new.lost = FALSE
    OBVIOUS
<1>. HIDE DEF new
<1>5. AuthorOk(new) /\ new.at # "writing"
    BY <1>3, <1>4 DEF AuthorOk
<1>. QED BY <1>1, <1>5, HandSteps

LEMMA QuitsFits ==
    ASSUME JobInv, NEW a \in Authors, Quits(a), UNCHANGED <<jobs, claimed, runner>>
    PROVE  JobInv'
BY NoAuthorOk, HandSteps DEF Quits

LEMMA ProbeJobFits ==
    ASSUME JobInv, NEW a \in Authors, ProbeJob(a)
    PROVE  JobInv'
<1>. DEFINE new == [author[a] EXCEPT !.at = "opening"]
<1>1. author[a].at = "creating" /\ AuthorOk(author[a]) /\ UNCHANGED <<jobs, claimed, runner>>
    BY DEF ProbeJob, JobInv, AuthorFits
<1>2. Quits(a) \/ (Now(a, new) /\ UNCHANGED told)
    BY DEF ProbeJob
<1>3. author[a] \in CreateTool
    BY <1>1 DEF AuthorOk, SwitchTool
<1>4. /\ new \in CreateTool /\ new.at = "opening" /\ new.lost = author[a].lost /\ new.alone = author[a].alone
      /\ new.verb = "create" /\ new.text = author[a].text /\ author[a].verb = "create" /\ author[a].text \in JobTexts
    BY <1>3 DEF CreateTool
<1>. HIDE DEF new
<1>5. AuthorOk(new) /\ new.at # "writing"
    BY <1>1, <1>4 DEF AuthorOk
<1>. QED BY <1>1, <1>2, <1>5, QuitsFits, HandSteps

LEMMA AloneAtEnd ==
    ASSUME JobInv, NEW a \in Authors, NEW f, Alone(a, f), Now(a, NoAuthor)
    PROVE  \A b \in Authors : author'[b].at = "writing" => author'[b].file # f
<1>1. author'[a] = NoAuthor /\ \A b \in Authors \ {a} : author'[b] = author[b]
    BY NowIs DEF JobInv
<1>. QED BY <1>1 DEF Alone, NoAuthor

(* A command's last step: what it says of its file is so.                  *)
LEMMA ReportsFits ==
    ASSUME JobInv, NEW a \in Authors, author[a].at # "none", NEW s \in {"on", "off"}, Reports(a, s),
           UNCHANGED <<claimed, runner>>,
           jobs' \in [JobFiles -> JobTexts \cup {NoJobFile}],
           \A f \in JobFiles \ {author[a].file} : jobs'[f] = jobs[f],
           author[a].alone => Says(s, jobs'[author[a].file])
    PROVE  JobInv'
<1>. DEFINE f == author[a].file
<1>1. f \in JobFiles
    BY DEF JobInv, AuthorFits, AuthorOk, CreateTool, SwitchTool
<1>2. Now(a, NoAuthor) /\ told' = [told EXCEPT ![f] = IF author[a].alone /\ Alone(a, f) THEN s ELSE "nothing"]
    BY DEF Reports
<1>3. author[a].alone => Says(s, jobs'[f])
    OBVIOUS
<1>. HIDE DEF f
<1>4. /\ told' \in [JobFiles -> {"nothing", "on", "off", "faulty"}]
      /\ \A g \in JobFiles \ {f} : told'[g] = told[g]
      /\ told'[f] = "nothing" \/ (author[a].alone /\ Alone(a, f) /\ told'[f] = s)
    BY <1>1, <1>2 DEF JobInv, JobTypes
<1>5. ASSUME NEW g \in JobFiles PROVE SwitchFits(g)' /\ FaultyFits(g)'
    <2>1. CASE g # f
        <3>1. jobs'[g] = jobs[g]
            BY <2>1 DEF f
        <3>. QED BY <1>4, <2>1, <3>1, SameFile DEF JobInv
    <2>2. CASE g = f /\ told'[f] = "nothing"
        BY <2>2, NothingTold
    <2>3. CASE g = f /\ author[a].alone /\ Alone(a, f) /\ told'[f] = s
        <3>1. Says(s, jobs'[f]) /\ f \notin Held
            BY <1>3, <2>3 DEF Alone
        <3>2. f \notin Held'
            BY <3>1 DEF Held
        <3>3. jobs'[f] # NoJobFile
            BY <3>1, CronFilesAssumption DEF Says
        <3>. QED BY <2>3, <3>1, <3>2, <3>3 DEF SwitchFits, FaultyFits, Says
    <2>. QED BY <1>4, <2>1, <2>2, <2>3
<1>6. ASSUME NEW g \in JobFiles
      PROVE  \/ told'[g] = told[g] /\ (NoAuthor.at = "writing" => NoAuthor.file # g)
             \/ told'[g] # "nothing" =>
                    \A b \in Authors : author'[b].at = "writing" => author'[b].file # g
    <2>1. CASE g # f
        BY <1>4, <2>1, NoAuthorOk
    <2>2. CASE g = f /\ told'[f] # "nothing"
        BY <1>2, <1>4, <2>2, AloneAtEnd
    <2>. QED BY <2>1, <2>2
<1>. QED BY <1>2, <1>4, <1>5, <1>6, NoAuthorOk, CommandSteps

LEMMA ReadJobFits ==
    ASSUME JobInv, NEW a \in Authors, ReadJob(a)
    PROVE  JobInv'
<1>. DEFINE w == author[a]
            t == jobs[w.file]
            text == [t EXCEPT !.enabled = Wanted(w.verb)]
            new == [w EXCEPT !.at = "opening", !.text = text]
            s == IF w.verb = "enable" THEN "on" ELSE "off"
<1>1. w.at = "reading" /\ AuthorOk(w) /\ UNCHANGED <<jobs, claimed, runner>>
    BY DEF ReadJob, JobInv, AuthorFits
<1>2. w \in SwitchTool
    BY <1>1 DEF AuthorOk, CreateTool
<1>3. w.file \in JobFiles
    BY <1>2 DEF SwitchTool
<1>4. t \in JobTexts \cup {NoJobFile}
    BY <1>3 DEF JobInv, JobTypes
<1>5. \/ Quits(a)
      \/ t # NoJobFile /\ w.verb # "show" /\ t.enabled = Wanted(w.verb) /\ Reports(a, s)
      \/ t # NoJobFile /\ w.verb # "show" /\ Now(a, new) /\ UNCHANGED told
    BY DEF ReadJob
<1>6. CASE t # NoJobFile /\ w.verb # "show" /\ t.enabled = Wanted(w.verb) /\ Reports(a, s)
    <2>1. Says(s, t) /\ s \in {"on", "off"}
        BY <1>2, <1>4, <1>6 DEF Says, Wanted, SwitchTool
    <2>2. jobs' \in [JobFiles -> JobTexts \cup {NoJobFile}]
        BY <1>1 DEF JobInv, JobTypes
    <2>. QED BY <1>1, <1>6, <2>1, <2>2, ReportsFits
<1>7. CASE t # NoJobFile /\ w.verb # "show" /\ Now(a, new) /\ UNCHANGED told
    <2>1. text \in JobTexts /\ text.enabled = Wanted(w.verb)
        BY <1>4, <1>7 DEF JobTexts, Wanted
    <2>. HIDE DEF text
    <2>2. /\ new \in SwitchTool /\ new.at = "opening" /\ new.text = text /\ new.verb = w.verb
          /\ new.lost = w.lost /\ new.alone = w.alone /\ w.verb \in {"enable", "disable"}
        BY <1>2, <1>7, <2>1 DEF SwitchTool
    <2>. HIDE DEF new
    <2>3. AuthorOk(new) /\ new.at # "writing"
        BY <1>1, <2>1, <2>2 DEF AuthorOk, Wanted
    <2>. QED BY <1>1, <1>7, <2>3, HandSteps
<1>. QED BY <1>1, <1>5, <1>6, <1>7, QuitsFits

LEMMA EmptyFileFits ==
    ASSUME JobInv, NEW a \in Authors, EmptyFile(a)
    PROVE  JobInv'
<1>. DEFINE w == author[a]
            f == w.file
            new == [w EXCEPT !.at = "writing", !.alone = @ /\ Alone(a, f)]
<1>1. w.at = "opening" /\ AuthorOk(w) /\ UNCHANGED <<claimed, runner>> /\ Now(a, new)
    BY DEF EmptyFile, JobInv, AuthorFits
<1>2. f \in JobFiles /\ w.alone \in BOOLEAN /\ w.file = f
    BY <1>1 DEF AuthorOk, CreateTool, SwitchTool
<1>3. (w.alone /\ Alone(a, f)) \in BOOLEAN
    OBVIOUS
<1>4. /\ new \in CreateTool \cup SwitchTool /\ new.at = "writing" /\ new.text = w.text /\ new.verb = w.verb
      /\ new.lost = w.lost /\ (new.alone => w.alone) /\ new.file = f
    <2>1. CASE w \in CreateTool
        BY <1>3, <2>1 DEF CreateTool
    <2>2. CASE w \in SwitchTool
        BY <1>3, <2>2 DEF SwitchTool
    <2>. QED BY <1>1, <2>1, <2>2 DEF AuthorOk
<1>. HIDE DEF new
<1>5. AuthorOk(new)
    BY <1>1, <1>4 DEF AuthorOk
<1>6. /\ told' \in [JobFiles -> {"nothing", "on", "off", "faulty"}] /\ told'[f] = "nothing"
      /\ \A g \in JobFiles \ {f} : told'[g] = told[g]
    BY <1>2 DEF EmptyFile, JobInv, JobTypes
<1>7. jobs' \in [JobFiles -> JobTexts \cup {NoJobFile}] /\ \A g \in JobFiles \ {f} : jobs'[g] = jobs[g]
    <2>1. Torn \in JobTexts
        BY DEF Torn, JobTexts
    <2>. QED BY <1>2, <2>1 DEF EmptyFile, JobInv, JobTypes
<1>. HIDE DEF f
<1>8. ASSUME NEW g \in JobFiles PROVE SwitchFits(g)' /\ FaultyFits(g)'
    <2>1. CASE g # f
        BY <1>1, <1>6, <1>7, <2>1, SameFile DEF JobInv
    <2>2. CASE g = f
        BY <1>6, <2>2, NothingTold
    <2>. QED BY <2>1, <2>2
<1>9. ASSUME NEW g \in JobFiles
      PROVE  \/ told'[g] = told[g] /\ (new.at = "writing" => new.file # g)
             \/ told'[g] # "nothing" =>
                    \A b \in Authors : author'[b].at = "writing" => author'[b].file # g
    BY <1>4, <1>6
<1>. QED BY <1>1, <1>5, <1>6, <1>7, <1>8, <1>9, CommandSteps

LEMMA WriteTextFits ==
    ASSUME JobInv, NEW a \in Authors, WriteText(a)
    PROVE  JobInv'
<1>. DEFINE w == author[a]
            s == IF w.verb = "disable" THEN "off" ELSE "on"
<1>1. /\ w.at = "writing" /\ AuthorOk(w) /\ UNCHANGED <<claimed, runner>> /\ Reports(a, s)
      /\ jobs' = IF w.lost THEN jobs ELSE [jobs EXCEPT ![w.file] = w.text]
    BY DEF WriteText, JobInv, AuthorFits
<1>2. w.file \in JobFiles /\ w.text \in JobTexts /\ w.text.enabled = IF w.verb = "disable" THEN "false" ELSE "true"
    BY <1>1 DEF AuthorOk, CreateTool, SwitchTool
<1>3. jobs' \in [JobFiles -> JobTexts \cup {NoJobFile}] /\ \A f \in JobFiles \ {w.file} : jobs'[f] = jobs[f]
    BY <1>1, <1>2 DEF JobInv, JobTypes
<1>4. w.alone => Says(s, jobs'[w.file])
    <2>1. w.alone => jobs'[w.file] = w.text
        BY <1>1, <1>2 DEF AuthorOk, JobInv, JobTypes
    <2>. QED BY <1>2, <2>1 DEF Says
<1>. QED BY <1>1, <1>3, <1>4, ReportsFits

LEMMA ValidateFits ==
    ASSUME JobInv, NEW a \in Authors, Validate(a)
    PROVE  JobInv'
<1>. DEFINE Seen(f) == /\ jobs[f] # NoJobFile /\ Faulty(jobs[f]) /\ Alone(a, f)
                       /\ f \notin Planned /\ claimed[f] = NoJobFile
<1>1. Now(a, NoAuthor) /\ UNCHANGED <<jobs, claimed, runner>>
    BY DEF Validate, Begins, Now
<1>2. told' = [f \in JobFiles |-> IF Seen(f) THEN "faulty" ELSE told[f]]
    BY DEF Validate
<1>3. \A f \in JobFiles : told'[f] = IF Seen(f) THEN "faulty" ELSE told[f]
    BY <1>2
<1>4. told' \in [JobFiles -> {"nothing", "on", "off", "faulty"}]
    BY <1>2 DEF JobInv, JobTypes
<1>5. jobs' \in [JobFiles -> JobTexts \cup {NoJobFile}]
    BY <1>1 DEF JobInv, JobTypes
<1>6. ASSUME NEW f \in JobFiles PROVE SwitchFits(f)' /\ FaultyFits(f)'
    <2>1. CASE ~Seen(f)
        BY <1>1, <1>3, <2>1, SameFile DEF JobInv
    <2>2. CASE Seen(f)
        <3>1. told'[f] = "faulty"
            BY <1>3, <2>2
        <3>2. jobs[f] \in JobTexts /\ f \notin Held
            BY <2>2 DEF Alone, JobInv, JobTypes
        <3>3. runner.at = "looking" => runner.file # f
            BY <2>2 DEF Planned
        <3>4. runner.at \in {"listed", "looking"} => \A r \in runner.ready : r.file # f
            BY <2>2 DEF Planned
        <3>5. f \notin Held'
            BY <1>1, <3>2 DEF Held
        <3>6. SwitchFits(f)'
            BY <3>1 DEF SwitchFits
        <3>7. jobs'[f] \in JobTexts /\ Faulty(jobs'[f]) /\ claimed'[f] = NoJobFile
            BY <1>1, <2>2, <3>2
        <3>8. /\ runner'.at = "looking" => runner'.file # f
              /\ runner'.at \in {"listed", "looking"} => \A r \in runner'.ready : r.file # f
            BY <1>1, <3>3, <3>4
        <3>. HIDE DEF Seen
        <3>9. (Faulty(jobs[f]))' = Faulty(jobs'[f])
            BY DEF Faulty, Parsed
        <3>. QED BY <3>1, <3>5, <3>6, <3>7, <3>8, <3>9 DEF FaultyFits
    <2>. QED BY <2>1, <2>2
<1>7. ASSUME NEW f \in JobFiles
      PROVE  \/ told'[f] = told[f] /\ (NoAuthor.at = "writing" => NoAuthor.file # f)
             \/ told'[f] # "nothing" =>
                    \A b \in Authors : author'[b].at = "writing" => author'[b].file # f
    <2>1. CASE ~Seen(f)
        BY <1>3, <2>1, NoAuthorOk
    <2>2. CASE Seen(f)
        BY <1>1, <2>2, AloneAtEnd
    <2>. QED BY <2>1, <2>2
<1>. QED BY <1>1, <1>4, <1>5, <1>6, <1>7, NoAuthorOk, CommandSteps

-----------------------------------------------------------------------------
(* The steps of the device.                                                *)

LEMMA RunnerIs ==
    ASSUME runner \in RunnerTypes
    PROVE  /\ runner.at \in {"idle", "listed", "looking", "stamping", "removing", "opening", "running",
                             "recording", "restoring", "clearing"}
           /\ runner.at \in {"idle"} => runner = Resting
           /\ runner.at \in {"listed", "looking"} => runner.ready \subseteq ReadyJob
           /\ runner.at \in {"looking", "stamping", "removing", "opening", "running", "recording"} =>
                runner.mode \in {"agent", "script"}
           /\ runner.at \notin {"idle", "listed"} => runner.file \in JobFiles
           /\ runner.at \in {"stamping", "removing", "restoring", "clearing"} => runner.text \in JobTexts
BY DEF RunnerTypes, Resting

LEMMA DeviceSteps ==
    ASSUME JobInv, told' = told, DOMAIN author' = Authors,
           \A a \in Authors : /\ AuthorOk(author'[a])
                              /\ author'[a].at = "writing" =>
                                   author[a].at = "writing" /\ author'[a].file = author[a].file,
           jobs' \in [JobFiles -> JobTexts \cup {NoJobFile}],
           claimed' \in [JobFiles -> JobTexts \cup {NoJobFile}],
           RunnerFits',
           \A f \in JobFiles : SwitchFits(f)' /\ FaultyFits(f)'
    PROVE  JobInv'
<1>1. JobTypes'
    BY DEF JobInv, JobTypes
<1>2. \A a \in Authors : AuthorFits(a)'
    BY DEF AuthorFits, AuthorOk
<1>3. \A f \in JobFiles : NoneWrites(f)'
    BY DEF JobInv, NoneWrites
<1>. QED BY <1>1, <1>2, <1>3 DEF JobInv

LEMMA LoneSteps ==
    ASSUME JobInv, UNCHANGED <<author, told, jobs, claimed>>,
           RunnerFits',
           \A f \in JobFiles : SwitchFits(f)' /\ FaultyFits(f)'
    PROVE  JobInv'
<1>1. /\ jobs' \in [JobFiles -> JobTexts \cup {NoJobFile}] /\ claimed' \in [JobFiles -> JobTexts \cup {NoJobFile}]
      /\ DOMAIN author' = Authors
    BY DEF JobInv, JobTypes
<1>2. \A a \in Authors : AuthorOk(author'[a])
    BY DEF JobInv, AuthorFits
<1>. QED BY <1>1, <1>2, DeviceSteps

LEMMA FaultyLoads ==
    ASSUME NEW t \in JobTexts, Faulty(t), Loads(t)
    PROVE  t.mode = "script" /\ t.script # "inside"
BY DEF Faulty, Loads, Parsed

(* A step after which the device holds no file, or still holds the same in *)
(* one of the states that ask for the claimed file only.                   *)
LEMMA FreeAfter ==
    ASSUME JobInv, UNCHANGED <<told, jobs, claimed>>, NEW f \in JobFiles, runner'.at \in {"idle", "listed", "looking"},
           told[f] = "faulty" =>
             /\ runner'.at = "looking" => runner'.file # f
             /\ runner'.at \in {"listed", "looking"} => \A r \in runner'.ready : r.file = f => r.mode = "script"
    PROVE  SwitchFits(f)' /\ FaultyFits(f)'
<1>1. SwitchFits(f)'
    BY DEF JobInv, SwitchFits, Held, Says
<1>2. FaultyFits(f)'
    BY DEF JobInv, FaultyFits, Held, Faulty, Parsed
<1>. QED BY <1>1, <1>2

LEMMA ListJobsFits == JobInv /\ ListJobs => JobInv'
<1>. SUFFICES ASSUME JobInv, ListJobs PROVE JobInv'
    OBVIOUS
<1>. DEFINE ready == {[file |-> f, mode |-> jobs[f].mode] :
                         f \in {g \in JobFiles : /\ jobs[g] # NoJobFile /\ Loads(jobs[g])
                                                 /\ jobs[g].enabled # "false"}}
<1>1. runner' = [at |-> "listed", ready |-> ready] /\ UNCHANGED <<author, told, jobs, claimed>>
    BY DEF ListJobs
<1>2. ready \subseteq ReadyJob
    <2>1. \A f \in JobFiles : jobs[f] # NoJobFile => jobs[f].mode \in {"agent", "script"}
        BY DEF JobInv, JobTypes, JobTexts
    <2>. QED BY <2>1 DEF ReadyJob
<1>3. ASSUME NEW r \in ready, FaultyFits(r.file), told[r.file] = "faulty" PROVE r.mode = "script"
    <2>1. PICK f \in JobFiles : r = [file |-> f, mode |-> jobs[f].mode] /\ Loads(jobs[f])
        BY <1>3
    <2>2. jobs[f] \in JobTexts /\ Faulty(jobs[f])
        BY <1>3, <2>1 DEF FaultyFits
    <2>. QED BY <2>1, <2>2, FaultyLoads
<1>. HIDE DEF ready
<1>4. RunnerFits'
    BY <1>1, <1>2 DEF RunnerFits, RunnerTypes
<1>5. ASSUME NEW f \in JobFiles PROVE SwitchFits(f)' /\ FaultyFits(f)'
    BY <1>1, <1>3, FreeAfter DEF JobInv
<1>. QED BY <1>1, <1>4, <1>5, LoneSteps

LEMMA NothingDueFits == JobInv /\ NothingDue => JobInv'
<1>. SUFFICES ASSUME JobInv, NothingDue PROVE JobInv'
    OBVIOUS
<1>1. runner' = Resting /\ runner'.at = "idle" /\ UNCHANGED <<author, told, jobs, claimed>>
    BY DEF NothingDue, Resting
<1>2. RunnerFits'
    BY <1>1 DEF RunnerFits, RunnerTypes
<1>. QED BY <1>1, <1>2, FreeAfter, LoneSteps

LEMMA TakeUpFits ==
    ASSUME JobInv, NEW r, TakeUp(r)
    PROVE  JobInv'
<1>. DEFINE left == runner.ready \ {r}
            t == jobs[r.file]
<1>1. /\ runner.at = "listed" /\ r \in runner.ready /\ UNCHANGED <<author, told, jobs, claimed>>
      /\ runner' = IF \/ t = NoJobFile
                      \/ r.mode = "script" /\ ~(Loads(t) /\ t.mode = "script" /\ t.script = "inside")
                   THEN [at |-> "listed", ready |-> left]
                   ELSE [at |-> "looking", ready |-> left, file |-> r.file, mode |-> r.mode]
    BY DEF TakeUp
<1>2. runner.ready \subseteq ReadyJob
    BY <1>1, RunnerIs DEF JobInv, RunnerFits
<1>3. left \subseteq ReadyJob /\ r.file \in JobFiles /\ r.mode \in {"agent", "script"}
    BY <1>1, <1>2 DEF ReadyJob
<1>4. RunnerFits'
    BY <1>1, <1>3 DEF RunnerFits, RunnerTypes
<1>5. ASSUME NEW f \in JobFiles PROVE SwitchFits(f)' /\ FaultyFits(f)'
    <2>1. told[f] = "faulty" => \A q \in left : q.file = f => q.mode = "script"
        BY <1>1 DEF JobInv, FaultyFits
    <2>2. ASSUME told[f] = "faulty", runner'.at = "looking" PROVE r.file # f
        <3>1. ~(r.mode = "script" /\ ~(Loads(t) /\ t.mode = "script" /\ t.script = "inside"))
            BY <1>1, <2>2
        <3>2. CASE r.file = f
            <4>1. r.mode = "script" /\ t \in JobTexts /\ Faulty(t)
                BY <1>1, <2>2, <3>2 DEF JobInv, FaultyFits
            <4>. QED BY <3>1, <4>1, FaultyLoads
        <3>. QED BY <3>2
    <2>3. runner'.at \in {"listed", "looking"} /\ runner'.ready = left /\ (runner'.at = "looking" => runner'.file = r.file)
        BY <1>1
    <2>. HIDE DEF left
    <2>. QED BY <1>1, <2>1, <2>2, <2>3, FreeAfter
<1>. QED BY <1>1, <1>4, <1>5, LoneSteps

LEMMA ClaimLineKeeps ==
    ASSUME NEW t \in JobTexts
    PROVE  WithClaimLine(t) \in JobTexts /\ WithClaimLine(t).enabled = t.enabled
<1>1. CASE t.form = "torn"
    BY <1>1 DEF WithClaimLine
<1>2. CASE t.form # "torn"
    <2>. DEFINE n == IF t.stamps = 2 THEN 2 ELSE t.stamps + 1
    <2>1. t.stamps \in 0..2
        BY DEF JobTexts
    <2>2. n \in 0..2
        BY <2>1
    <2>3. WithClaimLine(t) = [t EXCEPT !.stamps = n]
        BY <1>2 DEF WithClaimLine
    <2>. HIDE DEF n
    <2>. QED BY <2>2, <2>3 DEF JobTexts
<1>. QED BY <1>1, <1>2

LEMMA ReadForClaimFits == JobInv /\ ReadForClaim => JobInv'
<1>. SUFFICES ASSUME JobInv, ReadForClaim PROVE JobInv'
    OBVIOUS
<1>. DEFINE g == runner.file
<1>1. /\ runner.at = "looking" /\ UNCHANGED <<author, told, jobs, claimed>>
      /\ runner' = IF jobs[g] = NoJobFile THEN [at |-> "listed", ready |-> runner.ready]
                   ELSE [at |-> "stamping", file |-> g, mode |-> runner.mode, text |-> WithClaimLine(jobs[g])]
    BY DEF ReadForClaim
<1>2. runner.ready \subseteq ReadyJob /\ g \in JobFiles /\ runner.mode \in {"agent", "script"}
    BY <1>1, RunnerIs DEF JobInv, RunnerFits
<1>3. jobs[g] # NoJobFile => WithClaimLine(jobs[g]) \in JobTexts /\ WithClaimLine(jobs[g]).enabled = jobs[g].enabled
    BY <1>2, ClaimLineKeeps DEF JobInv, JobTypes
<1>4. told[g] # "faulty"
    BY <1>1, <1>2 DEF JobInv, FaultyFits
<1>. HIDE DEF g
<1>5. RunnerFits'
    BY <1>1, <1>2, <1>3 DEF RunnerFits, RunnerTypes
<1>6. ASSUME NEW f \in JobFiles PROVE SwitchFits(f)' /\ FaultyFits(f)'
    <2>1. CASE jobs[g] = NoJobFile
        <3>1. runner'.at = "listed" /\ runner'.ready = runner.ready
            BY <1>1, <2>1
        <3>. QED BY <1>1, <3>1, FreeAfter DEF JobInv, FaultyFits
    <2>2. CASE jobs[g] # NoJobFile
        <3>1. runner'.at = "stamping" /\ runner'.file = g /\ runner'.text = WithClaimLine(jobs[g])
            BY <1>1, <2>2
        <3>2. SwitchFits(f)'
            BY <1>1, <1>3, <2>2, <3>1 DEF JobInv, SwitchFits, Held, Says
        <3>3. FaultyFits(f)'
            BY <1>1, <1>4, <3>1 DEF JobInv, FaultyFits, Held, Faulty, Parsed
        <3>. QED BY <3>2, <3>3
    <2>. QED BY <2>1, <2>2
<1>. QED BY <1>1, <1>5, <1>6, LoneSteps

LEMMA PutClaimFits == JobInv /\ PutClaim => JobInv'
<1>. SUFFICES ASSUME JobInv, PutClaim PROVE JobInv'
    OBVIOUS
<1>. DEFINE g == runner.file
            new == [runner EXCEPT !.at = "removing"]
<1>1. /\ runner.at = "stamping" /\ UNCHANGED <<author, told, jobs>> /\ runner' = new
      /\ claimed' = [claimed EXCEPT ![g] = runner.text]
    BY DEF PutClaim
<1>2. g \in JobFiles /\ runner.text \in JobTexts
    BY <1>1, RunnerIs DEF JobInv, RunnerFits
<1>3. new \in RunnerTypes /\ new.at = "removing" /\ new.file = g /\ new.text = runner.text
    <2>1. runner \in [at : {"stamping", "removing"}, file : JobFiles, mode : {"agent", "script"}, text : JobTexts]
        BY <1>1 DEF JobInv, RunnerFits, RunnerTypes, Resting
    <2>2. new \in [at : {"stamping", "removing"}, file : JobFiles, mode : {"agent", "script"}, text : JobTexts]
        BY <2>1
    <2>. QED BY <2>1, <2>2 DEF RunnerTypes
<1>4. /\ claimed' \in [JobFiles -> JobTexts \cup {NoJobFile}] /\ claimed'[g] = runner.text
      /\ \A f \in JobFiles \ {g} : claimed'[f] = claimed[f]
    BY <1>1, <1>2 DEF JobInv, JobTypes
<1>5. g \in Held
    BY <1>1 DEF Held
<1>. HIDE DEF new, g
<1>6. RunnerFits'
    BY <1>1, <1>2, <1>3, <1>4 DEF RunnerFits
<1>7. ASSUME NEW f \in JobFiles PROVE SwitchFits(f)' /\ FaultyFits(f)'
    <2>1. CASE f = g
        <3>1. SwitchFits(f)'
            BY <1>1, <1>3, <1>4, <1>5, <2>1 DEF JobInv, SwitchFits, Held, Says
        <3>2. FaultyFits(f)'
            BY <1>1, <1>5, <2>1 DEF JobInv, FaultyFits
        <3>. QED BY <3>1, <3>2
    <2>2. CASE f # g
        BY <1>1, <1>3, <1>4, <2>2 DEF JobInv, SwitchFits, FaultyFits, Held, Says, Faulty, Parsed
    <2>. QED BY <2>1, <2>2
<1>8. /\ jobs' \in [JobFiles -> JobTexts \cup {NoJobFile}] /\ DOMAIN author' = Authors
      /\ \A a \in Authors : AuthorOk(author'[a])
    BY <1>1 DEF JobInv, JobTypes, AuthorFits
<1>. QED BY <1>1, <1>4, <1>6, <1>7, <1>8, DeviceSteps

(* A command whose file the device takes away or puts back is not alone.   *)
LEMMA DetachedFits ==
    ASSUME JobInv, NEW g, author' = Detached(g)
    PROVE  /\ DOMAIN author' = Authors
           /\ \A a \in Authors : /\ AuthorOk(author'[a])
                                 /\ author'[a].at = "writing" =>
                                      author[a].at = "writing" /\ author'[a].file = author[a].file
<1>1. DOMAIN author' = Authors
    BY DEF Detached
<1>2. ASSUME NEW a \in Authors
      PROVE  /\ AuthorOk(author'[a])
             /\ author'[a].at = "writing" => author[a].at = "writing" /\ author'[a].file = author[a].file
    <2>. DEFINE w == author[a]
                l == w.lost \/ w.at = "writing"
                new == [w EXCEPT !.alone = FALSE, !.lost = l]
    <2>1. AuthorOk(w)
        BY DEF JobInv, AuthorFits
    <2>2. CASE author'[a] = w
        BY <2>1, <2>2
    <2>3. CASE w.at # "none" /\ author'[a] = new
        <3>1. l \in BOOLEAN
            BY <2>1, <2>3 DEF AuthorOk, CreateTool, SwitchTool
        <3>. HIDE DEF l
        <3>2. /\ new \in CreateTool \cup SwitchTool /\ new.at = w.at /\ new.verb = w.verb /\ new.text = w.text
              /\ new.alone = FALSE /\ new.file = w.file
            <4>1. CASE w \in CreateTool
                BY <3>1, <4>1 DEF CreateTool
            <4>2. CASE w \in SwitchTool
                BY <3>1, <4>2 DEF SwitchTool
            <4>. QED BY <2>1, <2>3, <4>1, <4>2 DEF AuthorOk
        <3>. HIDE DEF new
        <3>3. AuthorOk(new)
            BY <2>1, <2>3, <3>2 DEF AuthorOk
        <3>. QED BY <2>3, <3>2, <3>3
    <2>4. author'[a] = w \/ (w.at # "none" /\ author'[a] = new)
        BY DEF Detached
    <2>. QED BY <2>2, <2>3, <2>4
<1>. QED BY <1>1, <1>2

LEMMA RemoveUnclaimedFits == JobInv /\ RemoveUnclaimed => JobInv'
<1>. SUFFICES ASSUME JobInv, RemoveUnclaimed PROVE JobInv'
    OBVIOUS
<1>. DEFINE g == runner.file
            next == IF runner.mode = "script" THEN "running" ELSE "opening"
<1>1. /\ runner.at = "removing" /\ UNCHANGED <<claimed, told>> /\ author' = Detached(g)
      /\ jobs' = [jobs EXCEPT ![g] = NoJobFile]
      /\ runner' = [at |-> next, file |-> g, mode |-> runner.mode, signal |-> "none"]
    BY DEF RemoveUnclaimed
<1>2. g \in JobFiles /\ runner.mode \in {"agent", "script"} /\ claimed[g] \in JobTexts
    BY <1>1, RunnerIs DEF JobInv, RunnerFits
<1>3. next \in {"opening", "running"} /\ g \in Held
    BY <1>1 DEF Held
<1>4. /\ jobs' \in [JobFiles -> JobTexts \cup {NoJobFile}] /\ jobs'[g] = NoJobFile
      /\ \A f \in JobFiles \ {g} : jobs'[f] = jobs[f]
    BY <1>1, <1>2 DEF JobInv, JobTypes
<1>. HIDE DEF g, next
<1>5. RunnerFits'
    BY <1>1, <1>2, <1>3 DEF RunnerFits, RunnerTypes
<1>6. ASSUME NEW f \in JobFiles PROVE SwitchFits(f)' /\ FaultyFits(f)'
    <2>1. CASE f = g
        <3>1. SwitchFits(f)'
            BY <1>1, <1>3, <1>4, <2>1 DEF JobInv, SwitchFits, Held, Says, g
        <3>2. FaultyFits(f)'
            BY <1>1, <1>3, <2>1 DEF JobInv, FaultyFits
        <3>. QED BY <3>1, <3>2
    <2>2. CASE f # g
        BY <1>1, <1>3, <1>4, <2>2 DEF JobInv, SwitchFits, FaultyFits, Held, Says, Faulty, Parsed
    <2>. QED BY <2>1, <2>2
<1>7. claimed' \in [JobFiles -> JobTexts \cup {NoJobFile}]
    BY <1>1 DEF JobInv, JobTypes
<1>. QED BY <1>1, <1>4, <1>5, <1>6, <1>7, DetachedFits, DeviceSteps

(* A run goes on with the same file.                                       *)
LEMMA RunSteps ==
    ASSUME JobInv, UNCHANGED <<author, told, jobs, claimed>>, runner.at \in {"opening", "running"},
           runner' \in [at : {"opening", "running"}, file : JobFiles, mode : {"agent", "script"},
                        signal : {"none", "term", "kill"}]
                       \cup [at : {"recording"}, file : JobFiles, mode : {"agent", "script"},
                             status : {"completed", "failed"}],
           runner'.file = runner.file
    PROVE  JobInv'
<1>1. runner'.at \in {"opening", "running", "recording"}
    OBVIOUS
<1>2. RunnerFits'
    BY <1>1 DEF JobInv, RunnerFits, RunnerTypes
<1>3. ASSUME NEW f \in JobFiles PROVE SwitchFits(f)' /\ FaultyFits(f)'
    <2>1. SwitchFits(f)'
        BY <1>1 DEF JobInv, SwitchFits, Held, Says
    <2>2. FaultyFits(f)'
        BY <1>1 DEF JobInv, FaultyFits, Held, Faulty, Parsed
    <2>. QED BY <2>1, <2>2
<1>. QED BY <1>2, <1>3, LoneSteps

LEMMA RunningIs ==
    ASSUME JobInv, runner.at \in {"opening", "running"}
    PROVE  runner \in [at : {"opening", "running"}, file : JobFiles, mode : {"agent", "script"},
                       signal : {"none", "term", "kill"}]
BY DEF JobInv, RunnerFits, RunnerTypes, Resting

LEMMA OpenClaimedFits == JobInv /\ OpenClaimed => JobInv'
<1>. SUFFICES ASSUME JobInv, OpenClaimed PROVE JobInv'
    OBVIOUS
<1>. DEFINE new == [runner EXCEPT !.at = "running"]
<1>1. runner.at = "opening" /\ UNCHANGED <<author, told, jobs, claimed>> /\ runner' \in {new, Resting}
    BY DEF OpenClaimed
<1>2. CASE runner' = new
    <2>1. /\ new \in [at : {"opening", "running"}, file : JobFiles, mode : {"agent", "script"},
                      signal : {"none", "term", "kill"}]
          /\ new.file = runner.file
        BY <1>1, RunningIs
    <2>. QED BY <1>1, <1>2, <2>1, RunSteps
<1>3. CASE runner' = Resting
    <2>1. runner'.at = "idle"
        BY <1>3 DEF Resting
    <2>2. RunnerFits'
        BY <1>3, <2>1 DEF RunnerFits, RunnerTypes
    <2>. QED BY <1>1, <2>1, <2>2, FreeAfter, LoneSteps
<1>. QED BY <1>1, <1>2, <1>3

LEMMA TimeOutFits == JobInv /\ TimeOut => JobInv'
<1>. SUFFICES ASSUME JobInv, TimeOut PROVE JobInv'
    OBVIOUS
<1>. DEFINE new == [runner EXCEPT !.signal = IF @ = "none" THEN "term" ELSE "kill"]
<1>1. runner.at = "running" /\ UNCHANGED <<author, told, jobs, claimed>> /\ runner' = new
    BY DEF TimeOut
<1>2. /\ new \in [at : {"opening", "running"}, file : JobFiles, mode : {"agent", "script"},
                  signal : {"none", "term", "kill"}]
      /\ new.file = runner.file
    BY <1>1, RunningIs
<1>. QED BY <1>1, <1>2, RunSteps

LEMMA RunEndsFits ==
    ASSUME JobInv, NEW ok, RunEnds(ok)
    PROVE  JobInv'
<1>. DEFINE s == IF ok /\ runner.signal = "none" THEN "completed" ELSE "failed"
            new == [at |-> "recording", file |-> runner.file, mode |-> runner.mode, status |-> s]
<1>1. runner.at = "running" /\ UNCHANGED <<author, told, jobs, claimed>> /\ runner' = new
    BY DEF RunEnds
<1>2. runner.file \in JobFiles /\ runner.mode \in {"agent", "script"} /\ s \in {"completed", "failed"}
    BY <1>1, RunningIs
<1>. HIDE DEF s
<1>3. new \in [at : {"recording"}, file : JobFiles, mode : {"agent", "script"}, status : {"completed", "failed"}]
    BY <1>2
<1>. QED BY <1>1, <1>3, RunSteps

LEMMA RecordRunFits == JobInv /\ RecordRun => JobInv'
<1>. SUFFICES ASSUME JobInv, RecordRun PROVE JobInv'
    OBVIOUS
<1>. DEFINE g == runner.file
            text == [claimed[g] EXCEPT !.stamps = IF @ = 0 THEN 0 ELSE @ - 1]
<1>1. /\ runner.at = "recording" /\ UNCHANGED <<author, told, jobs, claimed>>
      /\ runner' = [at |-> "restoring", file |-> g, text |-> text]
    BY DEF RecordRun
<1>2. g \in JobFiles /\ claimed[g] \in JobTexts
    BY <1>1, RunnerIs DEF JobInv, RunnerFits
<1>3. text \in JobTexts /\ text.enabled = claimed[g].enabled
    <2>. DEFINE n == IF claimed[g].stamps = 0 THEN 0 ELSE claimed[g].stamps - 1
    <2>1. claimed[g].stamps \in 0..2
        BY <1>2 DEF JobTexts
    <2>2. n \in 0..2
        BY <2>1
    <2>3. text = [claimed[g] EXCEPT !.stamps = n]
        OBVIOUS
    <2>. HIDE DEF n
    <2>. QED BY <1>2, <2>2, <2>3 DEF JobTexts
<1>. HIDE DEF text, g
<1>4. RunnerFits'
    BY <1>1, <1>2, <1>3 DEF RunnerFits, RunnerTypes
<1>5. ASSUME NEW f \in JobFiles PROVE SwitchFits(f)' /\ FaultyFits(f)'
    <2>1. SwitchFits(f)'
        BY <1>1, <1>3 DEF JobInv, SwitchFits, Held, Says, g
    <2>2. FaultyFits(f)'
        BY <1>1 DEF JobInv, FaultyFits, Held, Faulty, Parsed, g
    <2>. QED BY <2>1, <2>2
<1>. QED BY <1>1, <1>4, <1>5, LoneSteps

LEMMA PutBackFits == JobInv /\ PutBack => JobInv'
<1>. SUFFICES ASSUME JobInv, PutBack PROVE JobInv'
    OBVIOUS
<1>. DEFINE g == runner.file
            new == [runner EXCEPT !.at = "clearing"]
<1>1. /\ runner.at = "restoring" /\ UNCHANGED <<claimed, told>> /\ author' = Detached(g)
      /\ jobs' = [jobs EXCEPT ![g] = runner.text] /\ runner' = new
    BY DEF PutBack
<1>2. g \in JobFiles /\ runner.text \in JobTexts /\ claimed[g] \in JobTexts
    BY <1>1, RunnerIs DEF JobInv, RunnerFits
<1>3. new \in RunnerTypes /\ new.at = "clearing" /\ new.file = g
    <2>1. runner \in [at : {"restoring", "clearing"}, file : JobFiles, text : JobTexts]
        BY <1>1 DEF JobInv, RunnerFits, RunnerTypes, Resting
    <2>2. new \in [at : {"restoring", "clearing"}, file : JobFiles, text : JobTexts]
        BY <2>1
    <2>. QED BY <2>1, <2>2 DEF RunnerTypes
<1>4. g \in Held
    BY <1>1 DEF Held
<1>5. /\ jobs' \in [JobFiles -> JobTexts \cup {NoJobFile}] /\ jobs'[g] = runner.text
      /\ \A f \in JobFiles \ {g} : jobs'[f] = jobs[f]
    BY <1>1, <1>2 DEF JobInv, JobTypes
<1>. HIDE DEF g, new
<1>6. RunnerFits'
    BY <1>1, <1>2, <1>3 DEF RunnerFits
<1>7. ASSUME NEW f \in JobFiles PROVE SwitchFits(f)' /\ FaultyFits(f)'
    <2>1. CASE f = g
        <3>0. runner.text # NoJobFile
            BY <1>2, CronFilesAssumption
        <3>1. SwitchFits(f)'
            BY <1>1, <1>3, <1>4, <1>5, <2>1, <3>0 DEF JobInv, SwitchFits, Held, Says
        <3>2. FaultyFits(f)'
            BY <1>1, <1>4, <2>1 DEF JobInv, FaultyFits
        <3>. QED BY <3>1, <3>2
    <2>2. CASE f # g
        BY <1>1, <1>3, <1>5, <2>2 DEF JobInv, SwitchFits, FaultyFits, Held, Says, Faulty, Parsed
    <2>. QED BY <2>1, <2>2
<1>8. claimed' \in [JobFiles -> JobTexts \cup {NoJobFile}]
    BY <1>1 DEF JobInv, JobTypes
<1>. QED BY <1>1, <1>5, <1>6, <1>7, <1>8, DetachedFits, DeviceSteps

LEMMA ClearClaimFits == JobInv /\ ClearClaim => JobInv'
<1>. SUFFICES ASSUME JobInv, ClearClaim PROVE JobInv'
    OBVIOUS
<1>. DEFINE g == runner.file
<1>1. /\ runner.at = "clearing" /\ UNCHANGED <<author, told, jobs>> /\ runner' = Resting /\ runner'.at = "idle"
      /\ claimed' = [claimed EXCEPT ![g] = NoJobFile]
    BY DEF ClearClaim, Resting
<1>2. g \in JobFiles /\ g \in Held
    BY <1>1, RunnerIs DEF JobInv, RunnerFits, Held
<1>3. /\ claimed' \in [JobFiles -> JobTexts \cup {NoJobFile}] /\ claimed'[g] = NoJobFile
      /\ \A f \in JobFiles \ {g} : claimed'[f] = claimed[f]
    BY <1>1, <1>2 DEF JobInv, JobTypes
<1>. HIDE DEF g
<1>4. RunnerFits'
    BY <1>1 DEF RunnerFits, RunnerTypes
<1>5. ASSUME NEW f \in JobFiles PROVE SwitchFits(f)' /\ FaultyFits(f)'
    <2>1. SwitchFits(f)'
        BY <1>1, <1>2, <1>3 DEF JobInv, SwitchFits, Held, Says
    <2>2. FaultyFits(f)'
        BY <1>1, <1>3 DEF JobInv, FaultyFits, Held, Faulty, Parsed
    <2>. QED BY <2>1, <2>2
<1>6. /\ jobs' \in [JobFiles -> JobTexts \cup {NoJobFile}] /\ DOMAIN author' = Authors
      /\ \A a \in Authors : AuthorOk(author'[a])
    BY <1>1 DEF JobInv, JobTypes, AuthorFits
<1>. QED BY <1>1, <1>3, <1>4, <1>5, <1>6, DeviceSteps

-----------------------------------------------------------------------------
LEMMA JobsInit == CronFilesInit => JobInv
<1>. SUFFICES ASSUME CronFilesInit PROVE JobInv
    OBVIOUS
<1>1. JobTypes
    BY CronFilesAssumption DEF CronFilesInit, JobTypes
<1>2. runner = Resting /\ runner.at = "idle"
    BY DEF CronFilesInit, Resting
<1>3. RunnerFits
    BY <1>2 DEF RunnerFits, RunnerTypes
<1>4. \A a \in Authors : AuthorFits(a) /\ author[a].at = "none"
    BY DEF CronFilesInit, AuthorFits, AuthorOk, NoAuthor
<1>5. \A f \in JobFiles : told[f] = "nothing"
    BY DEF CronFilesInit
<1>. QED BY <1>1, <1>3, <1>4, <1>5 DEF JobInv, SwitchFits, FaultyFits, NoneWrites

LEMMA JobsStep == JobInv /\ [CronFilesNext]_cronVars => JobInv'
<1>. SUFFICES ASSUME JobInv, [CronFilesNext]_cronVars PROVE JobInv'
    OBVIOUS
<1>1. CASE UNCHANGED cronVars
    <2>1. UNCHANGED <<jobs, claimed, author, runner, told>>
        BY <1>1 DEF cronVars
    <2>2. RunnerFits' /\ \A f \in JobFiles : SwitchFits(f)' /\ FaultyFits(f)'
        BY <2>1, SameFile DEF JobInv, RunnerFits
    <2>. QED BY <2>1, <2>2, LoneSteps
<1>2. ASSUME NEW a \in Authors,
             \/ \E f \in JobFiles, mode \in {"agent", "script"}, force \in BOOLEAN : BeginCreate(a, f, mode, force)
             \/ \E f \in JobFiles, verb \in {"enable", "disable", "show"} : LookUp(a, verb, f)
             \/ ProbeJob(a) \/ ReadJob(a) \/ EmptyFile(a) \/ WriteText(a) \/ Validate(a)
      PROVE  JobInv'
    BY <1>2, BeginCreateFits, LookUpFits, ProbeJobFits, ReadJobFits, EmptyFileFits, WriteTextFits, ValidateFits
<1>3. ASSUME NEW r, TakeUp(r) PROVE JobInv'
    BY <1>3, TakeUpFits
<1>4. ASSUME NEW ok \in BOOLEAN, RunEnds(ok) PROVE JobInv'
    BY <1>4, RunEndsFits
<1>5. CASE CronFilesNext
    BY <1>2, <1>3, <1>4, <1>5, ListJobsFits, NothingDueFits, ReadForClaimFits, PutClaimFits, RemoveUnclaimedFits,
       OpenClaimedFits, TimeOutFits, RecordRunFits, PutBackFits, ClearClaimFits
       DEF CronFilesNext
<1>. QED BY <1>1, <1>5

LEMMA JobInvariant == JobFilesSpec => []JobInv
<1>. QED BY JobsInit, JobsStep, PTL DEF JobFilesSpec

\* What a command has reported of a job file that nobody else had in hand holds
\* through all runs that follow, however the device claims, runs and puts back
\* and whatever the other commands do (cron-cli.ts against claimCronJob and
\* recordCronRun in cron.ts).
THEOREM ReportsHold == JobFilesSpec => []CronReportHolds
<1>1. JobInv => CronReportHolds
    BY CronFilesAssumption DEF JobInv, SwitchFits, FaultyFits, Says, CronReportHolds, Text
<1>. QED BY <1>1, JobInvariant, PTL
=============================================================================
