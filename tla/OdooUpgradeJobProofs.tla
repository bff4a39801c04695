------------------------ MODULE OdooUpgradeJobProofs ------------------------
(***************************************************************************)
(* Theorems about the Jobs of OdooUpgrade, for every set of names and      *)
(* instances and every value of the bounds: which Jobs a success may stand *)
(* for, and that the Jobs of unfinished upgrades of one instance do not    *)
(* overlap.                                                                *)
(***************************************************************************)
EXTENDS OdooUpgradeProofs

-----------------------------------------------------------------------------
(* A Job found by its name: whose it can be. *)

\* The uid o, found under the name n, is that of the upgrade that has the name, of an
\* earlier one where names are used again, or of the backup that shares it.
Owned(n, o) ==
    \/ o = ABackup /\ n \in Shared
    \/ /\ n \in used /\ o < nextUid
       /\ Exists(upgrades[n]) => o = upgrades[n].uid \/ (o < upgrades[n].uid /\ Reuse)

CopyOwned(s) == \A n \in Names : Exists(s[n]) => Owned(n, s[n].uid)

\* So is the owner of a Job, and if the Job is complete its run is on record.
JobOwned(n, j) ==
    JobExists(j) => Owned(n, j.owner) /\ (j.state = "complete" => <<n, j.owner>> \in done)

\* The worker holds a copy of such an upgrade, and is about to report success only where
\* such a Job ran.
WorkerOwned ==
    pc # "idle" =>
        /\ Owned(key, up.uid)
        /\ pc = "write" /\ target = "Succeeded" =>
             \E owner \in 1 .. MaxUid + 1 : <<key, owner>> \in done /\ Owned(key, owner)

OwnersInv ==
    /\ CopyOwned(upgrades) /\ CopyOwned(cache)
    /\ \A i \in 1 .. Len(watch) : CopyOwned(watch[i])
    /\ \A n \in Names : JobOwned(n, jobs[n]) /\ JobOwned(n, jobCache[n])
    /\ WorkerOwned
    /\ SucceededRanJob

\* A Job of an upgrade is created only for the oldest unfinished one of its instance,
\* which stays the oldest for as long as it has a Job.
JobsOfOldest ==
    \A n \in Names : /\ JobExists(jobs[n]) /\ jobs[n].owner # ABackup
                      /\ Exists(upgrades[n])
                      => Oldest(n, upgrades[n].created)

\* The same, of a copy or a Job held over a step.
OwnedAfter(n, o) ==
    \/ o = ABackup /\ n \in Shared
    \/ /\ n \in used' /\ o < nextUid'
       /\ Exists(upgrades'[n]) => o = upgrades'[n].uid \/ (o < upgrades'[n].uid /\ Reuse)

CopyOwnedAfter(s) == \A n \in Names : Exists(s[n]) => OwnedAfter(n, s[n].uid)

JobOwnedAfter(n, j) ==
    JobExists(j) => OwnedAfter(n, j.owner) /\ (j.state = "complete" => <<n, j.owner>> \in done')

\* How a step changes the upgrade of a name, as far as its uid and its phase go.
Keeps(n) == upgrades'[n].uid = upgrades[n].uid /\ upgrades'[n].phase = upgrades[n].phase
Reports(n) ==
    /\ n = key /\ pc = "write" /\ Exists(upgrades[n])
    /\ upgrades'[n].uid = upgrades[n].uid /\ upgrades'[n].phase = target
Starts(n) ==
    /\ ~Exists(upgrades[n]) /\ (n \in used => Reuse) /\ n \in used'
    /\ upgrades'[n].uid = nextUid /\ nextUid' = nextUid + 1 /\ upgrades'[n].phase = ""
Vanishes(n) == ~Exists(upgrades'[n]) /\ upgrades'[n].phase = ""

LEMMA Identity ==
  ASSUME TypeOK, [Next]_vars
  PROVE  /\ used \subseteq used' /\ done \subseteq done'
         /\ nextUid' = nextUid \/ nextUid' = nextUid + 1
         /\ \A n \in Names : Keeps(n) \/ Reports(n) \/ Starts(n) \/ Vanishes(n)
<1> USE DEF apiVars, userVars, cacheVars, worker
<1>1. /\ used \subseteq used' /\ done \subseteq done'
      /\ nextUid' = nextUid \/ nextUid' = nextUid + 1
  BY DEF Next, Reconcile, Begin, BackfillConditions, Decide, CreateJob, Monitor, WriteStatus,
         ConflictGivesUp, CallFails, CreateUnanswered, WriteUnanswered, Restart,
         DeliverUpgrades, DeliverJob, DeliverInstance, JobFinishes, DeleteJob, CollectJob,
         BackupTakesName, GraceEnds, CreateUpgrade, DeleteUpgrade, SetInstance, vars
<1>2. CASE UNCHANGED upgrades
  BY <1>1, <1>2 DEF Keeps
<1>3. CASE BackfillConditions
  BY <1>1, <1>3, BackfillEffect DEF Keeps
<1>4. CASE WriteStatus \/ WriteUnanswered
  <2>1. pc = "write"
    BY <1>4 DEF WriteStatus, WriteUnanswered
  <2>2. CASE ApplyWrite
    BY <1>1, <2>1, <2>2, WriteEffect DEF Keeps, Reports, WriteSkipped
  <2>3. CASE UNCHANGED upgrades
    BY <1>2, <2>3
  <2> QED BY <1>4, <2>2, <2>3 DEF WriteStatus, WriteUnanswered
<1>5. ASSUME NEW m \in Names, NEW spec \in Specs, CreateUpgrade(m, spec)
      PROVE  Starts(m) /\ \A n \in Names \ {m} : Keeps(n)
  <2>1. /\ \A n \in Names \ {m} : upgrades'[n] = upgrades[n]
        /\ ~Exists(upgrades[m]) /\ upgrades'[m].uid = nextUid /\ upgrades'[m].phase = ""
        /\ used' = used \cup {m}
    BY <1>5, CreateEffect, Zenon
  <2>2. (m \in used => Reuse) /\ nextUid' = nextUid + 1
    BY <1>5 DEF CreateUpgrade
  <2> QED BY <2>1, <2>2 DEF Starts, Keeps
<1>6. ASSUME NEW m \in Names, DeleteUpgrade(m)
      PROVE  Vanishes(m) /\ \A n \in Names \ {m} : Keeps(n)
  BY <1>6, DeleteEffect DEF Vanishes, Keeps
<1> QED BY <1>1, <1>2, <1>3, <1>4, <1>5, <1>6, Writers

\* A uid found under a name stays one that may be found there: an upgrade that takes the
\* name again is younger.
LEMMA OwnedKept ==
  ASSUME TypeOK, [Next]_vars, NEW n \in Names, NEW o \in Nat, Owned(n, o)
  PROVE  OwnedAfter(n, o) /\ done \subseteq done'
<1>0. nextUid \in Nat
  BY BoundsAssumption DEF TypeOK
<1>1. /\ done \subseteq done' /\ used \subseteq used'
      /\ nextUid' = nextUid \/ nextUid' = nextUid + 1
  BY Identity
<1>2. CASE o = ABackup /\ n \in Shared
  BY <1>1, <1>2 DEF OwnedAfter
<1>3. CASE /\ n \in used /\ o < nextUid
           /\ Exists(upgrades[n]) => o = upgrades[n].uid \/ (o < upgrades[n].uid /\ Reuse)
  <2>1. n \in used' /\ o < nextUid'
    BY <1>0, <1>1, <1>3
  <2>2. Exists(upgrades'[n]) => o = upgrades'[n].uid \/ (o < upgrades'[n].uid /\ Reuse)
    <3>1. CASE Keeps(n) \/ Reports(n)
      BY <1>3, <3>1 DEF Keeps, Reports, Exists
    <3>2. CASE Starts(n)
      BY <1>3, <3>2 DEF Starts
    <3>3. CASE Vanishes(n)
      BY <3>3 DEF Vanishes
    <3> QED BY <3>1, <3>2, <3>3, Identity
  <2> QED BY <1>1, <2>1, <2>2 DEF OwnedAfter
<1> QED BY <1>2, <1>3 DEF Owned

LEMMA CopiesKept ==
  ASSUME TypeOK, [Next]_vars
  PROVE  /\ \A s \in Snapshot : CopyOwned(s) => CopyOwnedAfter(s)
         /\ \A n \in Names, j \in Job : JobOwned(n, j) => JobOwnedAfter(n, j)
<1>1. ASSUME NEW s \in Snapshot, CopyOwned(s) PROVE CopyOwnedAfter(s)
  <2> SUFFICES ASSUME NEW n \in Names, Exists(s[n]) PROVE OwnedAfter(n, s[n].uid)
    BY DEF CopyOwnedAfter
  <2>1. s[n].uid \in Nat
    BY DEF Snapshot, Upgrade
  <2>2. Owned(n, s[n].uid)
    BY <1>1 DEF CopyOwned
  <2> QED BY <2>1, <2>2, OwnedKept
<1>2. ASSUME NEW n \in Names, NEW j \in Job, JobOwned(n, j) PROVE JobOwnedAfter(n, j)
  <2>1. j.owner \in Nat
    BY DEF Job
  <2> QED BY <1>2, <2>1, OwnedKept DEF JobOwned, JobOwnedAfter
<1> QED BY <1>1, <1>2

\* What a step does to the Job of a name: nothing, remove it, end it, or create it, for
\* the backup of that name or for the upgrade the worker holds.
LEMMA JobEffect ==
  ASSUME TypeOK, [Next]_vars, NEW n \in Names
  PROVE  /\ \/ jobs'[n] = jobs[n]
            \/ ~JobExists(jobs'[n])
            \/ /\ JobExists(jobs[n]) /\ jobs'[n].owner = jobs[n].owner
               /\ jobs'[n].state = "complete" => <<n, jobs[n].owner>> \in done'
            \/ n \in Shared /\ jobs'[n] = [owner |-> ABackup, state |-> "active"]
            \/ /\ pc = "create" /\ n = key /\ ~JobExists(jobs[n])
               /\ jobs'[n] = [owner |-> up.uid, state |-> "active"]
               /\ UNCHANGED <<upgrades, used, clock>>
         /\ jobCache'[n] = jobCache[n] \/ jobCache'[n] = jobs[n]
<1> USE DEF apiVars, userVars, cacheVars
<1>0. jobs \in [Names -> Job] /\ jobCache \in [Names -> Job]
  BY DEF TypeOK
<1>1. CASE CreateJob \/ CreateUnanswered
  <2>1. /\ pc = "create" /\ jobs' = [jobs EXCEPT ![key] = JobAfterCreate]
        /\ UNCHANGED <<upgrades, used, clock, jobCache>>
    BY <1>1 DEF CreateJob, CreateUnanswered
  <2>2. CASE n = key
    BY <1>0, <2>1, <2>2 DEF JobAfterCreate
  <2>3. CASE n # key
    BY <1>0, <2>1, <2>3
  <2> QED BY <2>2, <2>3
<1>2. ASSUME NEW m \in Names, NEW o \in {"complete", "failed"}, JobFinishes(m, o)
      PROVE  /\ \/ jobs'[n] = jobs[n]
                \/ /\ JobExists(jobs[n]) /\ jobs'[n].owner = jobs[n].owner
                   /\ jobs'[n].state = "complete" => <<n, jobs[n].owner>> \in done'
             /\ jobCache' = jobCache
  <2>1. /\ JobExists(jobs[m]) /\ jobs' = [jobs EXCEPT ![m].state = o] /\ jobCache' = jobCache
        /\ o = "complete" => done' = done \cup {<<m, jobs[m].owner>>}
    BY <1>2 DEF JobFinishes
  <2>2. CASE n # m
    BY <1>0, <2>1, <2>2
  <2>3. CASE n = m
    <3>1. jobs[n] \in Job
      BY <1>0
    <3>2. jobs'[n] = [jobs[n] EXCEPT !.state = o]
      BY <1>0, <2>1, <2>3
    <3>3. jobs'[n].owner = jobs[n].owner /\ jobs'[n].state = o
      BY <3>1, <3>2 DEF Job
    <3> QED BY <2>1, <2>3, <3>3
  <2> QED BY <2>2, <2>3
<1>3. ASSUME NEW m \in Names, DeleteJob(m) \/ CollectJob(m)
      PROVE  /\ jobs'[n] = jobs[n] \/ ~JobExists(jobs'[n])
             /\ jobCache' = jobCache
  BY <1>0, <1>3 DEF DeleteJob, CollectJob, JobExists, NoJob
<1>4. ASSUME NEW m \in Names, DeliverJob(m)
      PROVE  /\ jobs' = jobs
             /\ jobCache'[n] = jobCache[n] \/ jobCache'[n] = jobs[n]
  BY <1>0, <1>4 DEF DeliverJob
<1>5. CASE Restart
  BY <1>5 DEF Restart
<1>6. CASE \/ \E m \in Names : Begin(m) \/ GraceEnds(m) \/ DeleteUpgrade(m)
           \/ \E m \in Names, spec \in Specs : CreateUpgrade(m, spec)
           \/ \E i \in Instances : DeliverInstance(i)
           \/ \E i \in Instances, state \in InstanceStates : SetInstance(i, state)
  BY <1>6 DEF Begin, GraceEnds, DeleteUpgrade, CreateUpgrade, DeliverInstance, SetInstance
<1>7. CASE \/ BackfillConditions \/ Decide \/ Monitor \/ WriteStatus \/ ConflictGivesUp
           \/ CallFails \/ WriteUnanswered \/ DeliverUpgrades \/ UNCHANGED vars
  BY <1>7 DEF BackfillConditions, Decide, Monitor, WriteStatus, ConflictGivesUp, CallFails,
              WriteUnanswered, DeliverUpgrades, vars
<1>8. ASSUME NEW m \in Names, BackupTakesName(m)
      PROVE  /\ \/ jobs'[n] = jobs[n]
                \/ n \in Shared /\ jobs'[n] = [owner |-> ABackup, state |-> "active"]
             /\ jobCache' = jobCache
  BY <1>0, <1>8 DEF BackupTakesName
<1> QED BY <1>1, <1>2, <1>3, <1>4, <1>5, <1>6, <1>7, <1>8 DEF Next, Reconcile

LEMMA JobOwnedStep ==
  ASSUME TypeOK, OwnersInv, [Next]_vars, NEW n \in Names
  PROVE  JobOwnedAfter(n, jobs'[n]) /\ JobOwnedAfter(n, jobCache'[n])
<1>1. JobOwnedAfter(n, jobs[n]) /\ JobOwnedAfter(n, jobCache[n])
  <2>1. jobs[n] \in Job /\ jobCache[n] \in Job /\ JobOwned(n, jobs[n])
        /\ JobOwned(n, jobCache[n])
    BY DEF TypeOK, OwnersInv
  <2> QED BY <2>1, CopiesKept
<1>2. JobOwnedAfter(n, jobs'[n])
  <2>1. CASE jobs'[n] = jobs[n]
    BY <1>1, <2>1
  <2>2. CASE ~JobExists(jobs'[n])
    BY <2>2 DEF JobOwnedAfter
  <2>3. CASE /\ JobExists(jobs[n]) /\ jobs'[n].owner = jobs[n].owner
             /\ jobs'[n].state = "complete" => <<n, jobs[n].owner>> \in done'
    BY <1>1, <2>3 DEF JobOwnedAfter
  <2>4. CASE n \in Shared /\ jobs'[n] = [owner |-> ABackup, state |-> "active"]
    BY <2>4 DEF JobOwnedAfter, OwnedAfter
  <2>5. CASE /\ pc = "create" /\ n = key
             /\ jobs'[n] = [owner |-> up.uid, state |-> "active"]
    <3>1. up.uid \in Nat /\ Owned(n, up.uid)
      BY <2>5 DEF TypeOK, Upgrade, OwnersInv, WorkerOwned
    <3>2. OwnedAfter(n, up.uid)
      BY <3>1, OwnedKept
    <3> QED BY <2>5, <3>2 DEF JobOwnedAfter
  <2> QED BY <2>1, <2>2, <2>3, <2>4, <2>5, JobEffect
<1> QED BY <1>1, <1>2, JobEffect

\* The copies of the informer stay copies of upgrades that have, or had, the names.
LEMMA CopyOwnedStep ==
  ASSUME TypeOK, TypeOK', OwnersInv, [Next]_vars
  PROVE  /\ CopyOwnedAfter(upgrades') /\ CopyOwnedAfter(cache')
         /\ \A i \in 1 .. Len(watch') : CopyOwnedAfter(watch'[i])
<1>0. /\ upgrades \in Snapshot /\ cache \in Snapshot /\ watch \in Seq(Snapshot)
      /\ CopyOwned(upgrades) /\ CopyOwned(cache)
      /\ \A i \in 1 .. Len(watch) : watch[i] \in Snapshot /\ CopyOwned(watch[i])
  BY DEF TypeOK, OwnersInv, Snapshot
<1>1. CopyOwnedAfter(upgrades) /\ CopyOwnedAfter(cache)
  BY <1>0, CopiesKept
<1>2. \A i \in 1 .. Len(watch) : CopyOwnedAfter(watch[i])
  BY <1>0, CopiesKept
<1>3. CopyOwnedAfter(upgrades')
  <2> SUFFICES ASSUME NEW n \in Names, Exists(upgrades'[n])
               PROVE  OwnedAfter(n, upgrades'[n].uid)
    BY DEF CopyOwnedAfter
  <2>1. CASE Keeps(n) \/ Reports(n)
    <3>1. upgrades'[n].uid = upgrades[n].uid
      BY <2>1 DEF Keeps, Reports
    <3> QED BY <1>1, <3>1 DEF CopyOwnedAfter, Exists
  <2>2. CASE Starts(n)
    <3>1. nextUid < nextUid + 1
      BY BoundsAssumption DEF TypeOK
    <3> QED BY <2>2, <3>1 DEF Starts, OwnedAfter
  <2> QED BY <2>1, <2>2, Identity DEF Vanishes
<1>4. CASE DeliverUpgrades
  <2>1. watch # <<>> /\ cache' = Head(watch) /\ watch' = Tail(watch)
    BY <1>4 DEF DeliverUpgrades
  <2>2. /\ cache' = watch[1] /\ 1 \in 1 .. Len(watch)
        /\ \A i \in 1 .. Len(watch') : watch'[i] = watch[i + 1] /\ i + 1 \in 1 .. Len(watch)
    BY <1>0, <2>1
  <2> QED BY <1>2, <1>3, <2>2
<1>5. CASE Restart
  <2>1. cache' = upgrades /\ watch' = <<>>
    BY <1>5 DEF Restart
  <2>2. 1 .. Len(watch') = {}
    BY <2>1
  <2> QED BY <1>1, <1>3, <2>1, <2>2
<1>6. CASE UNCHANGED <<cache, upgrades, watch, used, clock>>
  BY <1>1, <1>2, <1>3, <1>6
<1>7. CASE UNCHANGED cache /\ watch' = Append(watch, upgrades')
  <2>1. /\ Len(watch') = Len(watch) + 1 /\ Len(watch) \in Nat
        /\ \A i \in 1 .. Len(watch) : watch'[i] = watch[i]
        /\ watch'[Len(watch) + 1] = upgrades'
    BY <1>0, <1>7
  <2> QED BY <1>1, <1>2, <1>3, <1>7, <2>1
<1> QED BY <1>4, <1>5, <1>6, <1>7, Informer

LEMMA WorkerOwnedStep ==
  ASSUME TypeOK, OwnersInv, [Next]_vars
  PROVE  WorkerOwned'
<1> USE DEF apiVars, userVars, cacheVars
<1>0. pc # "idle" =>
        /\ key \in Names /\ OwnedAfter(key, up.uid) /\ done \subseteq done'
        /\ \A owner \in 1 .. MaxUid + 1 : Owned(key, owner) => OwnedAfter(key, owner)
  <2> SUFFICES ASSUME pc # "idle"
               PROVE  /\ key \in Names /\ OwnedAfter(key, up.uid) /\ done \subseteq done'
                      /\ \A owner \in 1 .. MaxUid + 1 :
                           Owned(key, owner) => OwnedAfter(key, owner)
    OBVIOUS
  <2>1. key \in Names /\ up.uid \in Nat /\ Owned(key, up.uid)
    BY DEF TypeOK, Upgrade, OwnersInv, WorkerOwned
  <2>2. 1 .. MaxUid + 1 \subseteq Nat
    BY BoundsAssumption
  <2> QED BY <2>1, <2>2, OwnedKept
<1>1. CASE pc' = "idle"
  BY <1>1 DEF WorkerOwned
<1>2. CASE UNCHANGED worker
  <2>1. UNCHANGED <<pc, key, up, target>>
    BY <1>2 DEF worker
  <2> QED BY <1>0, <2>1 DEF OwnersInv, WorkerOwned, Owned, OwnedAfter
<1>3. CASE /\ pc # "idle" /\ UNCHANGED <<key, up>>
           /\ pc' = "write" => target' # "Succeeded"
  BY <1>0, <1>3 DEF WorkerOwned, Owned, OwnedAfter
<1>4. ASSUME NEW n \in Names, Begin(n) PROVE WorkerOwned'
  <2>1. CASE /\ Exists(cache[n]) /\ pc' = FirstStep(cache[n]) /\ key' = n /\ up' = cache[n]
    <3>1. pc' # "write"
      BY <2>1 DEF FirstStep, AfterBackfill
    <3>2. OwnedAfter(n, cache[n].uid)
      <4>1. cache \in Snapshot /\ CopyOwned(cache)
        BY DEF TypeOK, Snapshot, OwnersInv
      <4> QED BY <2>1, <4>1, CopiesKept DEF CopyOwnedAfter
    <3> QED BY <2>1, <3>1, <3>2 DEF WorkerOwned, Owned, OwnedAfter
  <2> QED BY <1>2, <1>4, <2>1 DEF Begin
<1>5. CASE BackfillConditions
  BY <1>1, <1>3, <1>5 DEF BackfillConditions, ResumeAfterBackfill, GoTo, Return, AfterBackfill
<1>6. CASE Decide
  BY <1>3, <1>6 DEF Decide, GoTo, PrepareWrite
<1>7. CASE CreateJob
  BY <1>3, <1>7 DEF CreateJob, PrepareWrite
<1>8. CASE Monitor
  <2>1. CASE Return(TRUE)
    BY <1>1, <2>1 DEF Return
  <2>2. CASE PrepareWrite("Failed", "JobFailed")
    BY <1>3, <1>8, <2>2 DEF Monitor, PrepareWrite
  <2>3. CASE /\ JobExists(jobCache[key]) /\ jobCache[key].state = "complete"
             /\ PrepareWrite("Succeeded", "Complete")
    <3>1. pc # "idle" /\ UNCHANGED <<key, up>>
      BY <1>8, <2>3 DEF Monitor, PrepareWrite
    <3>2. key \in Names /\ jobCache[key] \in Job /\ JobOwned(key, jobCache[key])
      BY <1>0, <3>1 DEF TypeOK, OwnersInv
    <3>3. jobCache[key].owner \in 1 .. MaxUid + 1
      BY <2>3, <3>2, BoundsAssumption DEF Job, JobExists
    <3>4. <<key, jobCache[key].owner>> \in done' /\ OwnedAfter(key, jobCache[key].owner)
      BY <1>0, <2>3, <3>1, <3>2, <3>3 DEF JobOwned
    <3> QED BY <1>0, <3>1, <3>3, <3>4 DEF WorkerOwned, Owned, OwnedAfter
  <2> QED BY <1>8, <2>1, <2>2, <2>3 DEF Monitor
<1>9. CASE WriteStatus \/ ConflictGivesUp \/ CallFails \/ CreateUnanswered \/ WriteUnanswered
           \/ Restart
  BY <1>1, <1>9 DEF WriteStatus, ConflictGivesUp, CallFails, CreateUnanswered,
                    WriteUnanswered, Restart, Return
<1>10. CASE DeliverUpgrades \/ (\E n \in Names : DeliverJob(n) \/ DeleteJob(n) \/ CollectJob(n)
                                                 \/ BackupTakesName(n) \/ GraceEnds(n)
                                                 \/ DeleteUpgrade(n))
  BY <1>2, <1>10 DEF DeliverUpgrades, DeliverJob, DeleteJob, CollectJob, BackupTakesName,
                     GraceEnds, DeleteUpgrade
<1>11. CASE \/ \E i \in Instances : DeliverInstance(i)
            \/ \E i \in Instances, state \in InstanceStates : SetInstance(i, state)
            \/ \E n \in Names, spec \in Specs : CreateUpgrade(n, spec)
            \/ \E n \in Names, outcome \in {"complete", "failed"} : JobFinishes(n, outcome)
            \/ UNCHANGED vars
  BY <1>2, <1>11 DEF DeliverInstance, SetInstance, CreateUpgrade, JobFinishes, vars
<1> QED BY <1>4, <1>5, <1>6, <1>7, <1>8, <1>9, <1>10, <1>11 DEF Next, Reconcile

LEMMA SucceededStep ==
  ASSUME TypeOK, OwnersInv, [Next]_vars
  PROVE  SucceededRanJob'
<1> DEFINE Stands(n, uid, ran) ==
      \E owner \in 1 .. MaxUid + 1 :
          /\ <<n, owner>> \in ran
          /\ \/ owner = uid
             \/ owner = ABackup /\ n \in Shared
             \/ owner < uid /\ Reuse
<1> SUFFICES ASSUME NEW n \in Names, upgrades'[n].phase = "Succeeded"
             PROVE  Stands(n, upgrades'[n].uid, done')
  BY DEF SucceededRanJob
<1>0. done \subseteq done'
  BY Identity
<1>1. CASE Keeps(n)
  <2>1. Stands(n, upgrades[n].uid, done)
    BY <1>1 DEF Keeps, OwnersInv, SucceededRanJob
  <2> QED BY <1>0, <1>1, <2>1 DEF Keeps
<1>2. CASE Reports(n)
  <2>1. /\ n = key /\ pc = "write" /\ target = "Succeeded" /\ Exists(upgrades[n])
        /\ upgrades'[n].uid = upgrades[n].uid
    BY <1>2 DEF Reports
  <2>2. PICK owner \in 1 .. MaxUid + 1 : <<n, owner>> \in done /\ Owned(n, owner)
    BY <2>1 DEF OwnersInv, WorkerOwned
  <2>3. \/ owner = upgrades[n].uid
        \/ owner = ABackup /\ n \in Shared
        \/ owner < upgrades[n].uid /\ Reuse
    BY <2>1, <2>2 DEF Owned
  <2> QED BY <1>0, <2>1, <2>2, <2>3
<1> QED BY <1>1, <1>2, Identity DEF Starts, Vanishes

\* The upgrade an earlier version left behind is the one its Job belongs to.
LEMMA OwnersInit == Init => OwnersInv
<1> SUFFICES ASSUME Init PROVE OwnersInv OBVIOUS
<1>0. /\ cache = upgrades /\ watch = <<>> /\ jobCache = jobs /\ pc = "idle"
  BY DEF Init
<1>1. CASE /\ upgrades = [n \in Names |-> Absent] /\ jobs = [n \in Names |-> NoJob]
  <2>1. \A n \in Names : ~Exists(upgrades[n]) /\ ~JobExists(jobs[n]) /\ upgrades[n].phase = ""
    BY <1>1 DEF Exists, JobExists, Absent, NoJob
  <2>2. 1 .. Len(watch) = {}
    BY <1>0
  <2> QED BY <1>0, <2>1, <2>2
          DEF OwnersInv, CopyOwned, JobOwned, WorkerOwned, SucceededRanJob
<1>2. CASE \E n \in Names, spec \in Specs \ {"invalid"}, phase \in LegacyPhases :
             \E job \in LegacyJob(phase) :
               /\ upgrades = [m \in Names |->
                    IF m = n THEN [uid |-> 1, created |-> 0, spec |-> spec,
                                   phase |-> phase, reason |-> "none"] ELSE Absent]
               /\ jobs = [m \in Names |-> IF m = n THEN job ELSE NoJob]
               /\ done = IF phase = "Succeeded" \/ job.state = "complete" THEN {<<n, 1>>} ELSE {}
               /\ used = {n} /\ nextUid = 2
  <2>1. PICK n \in Names, spec \in Specs \ {"invalid"}, phase \in LegacyPhases :
             \E job \in LegacyJob(phase) :
               /\ upgrades = [m \in Names |->
                    IF m = n THEN [uid |-> 1, created |-> 0, spec |-> spec,
                                   phase |-> phase, reason |-> "none"] ELSE Absent]
               /\ jobs = [m \in Names |-> IF m = n THEN job ELSE NoJob]
               /\ done = IF phase = "Succeeded" \/ job.state = "complete" THEN {<<n, 1>>} ELSE {}
               /\ used = {n} /\ nextUid = 2
    BY <1>2
  <2>2. PICK job \in LegacyJob(phase) :
               /\ upgrades = [m \in Names |->
                    IF m = n THEN [uid |-> 1, created |-> 0, spec |-> spec,
                                   phase |-> phase, reason |-> "none"] ELSE Absent]
               /\ jobs = [m \in Names |-> IF m = n THEN job ELSE NoJob]
               /\ done = IF phase = "Succeeded" \/ job.state = "complete" THEN {<<n, 1>>} ELSE {}
               /\ used = {n} /\ nextUid = 2
    BY <2>1
  <2>3. /\ upgrades[n].uid = 1 /\ upgrades[n].phase = phase /\ jobs[n] = job
        /\ \A m \in Names \ {n} : upgrades[m] = Absent /\ jobs[m] = NoJob
    BY <2>2
  <2>4. JobExists(job) => job.owner = 1
    BY DEF LegacyJob, JobExists, NoJob
  <2>5. \A m \in Names \ {n} : /\ ~Exists(upgrades[m]) /\ ~JobExists(jobs[m])
                               /\ upgrades[m].phase = ""
    <3>1. ~Exists(Absent) /\ ~JobExists(NoJob) /\ Absent.phase = ""
      BY DEF Exists, JobExists, Absent, NoJob
    <3> QED BY <2>3, <3>1
  <2>6. /\ used = {n} /\ nextUid = 2
        /\ phase = "Succeeded" \/ job.state = "complete" => <<n, 1>> \in done
    BY <2>2
  <2>7. 1 .. Len(watch) = {}
    BY <1>0
  <2>8. Owned(n, 1)
    BY <2>3, <2>6 DEF Owned
  <2>9. CopyOwned(upgrades)
    BY <2>3, <2>5, <2>8 DEF CopyOwned
  <2>10. \A m \in Names : JobOwned(m, jobs[m])
    BY <2>3, <2>4, <2>5, <2>6, <2>8 DEF JobOwned
  <2>11. SucceededRanJob
    <3>1. 1 \in 1 .. MaxUid + 1
      BY BoundsAssumption
    <3> QED BY <2>3, <2>5, <2>6, <3>1 DEF SucceededRanJob
  <2> QED BY <1>0, <2>7, <2>9, <2>10, <2>11 DEF OwnersInv, WorkerOwned
<1>3. \/ /\ upgrades = [n \in Names |-> Absent] /\ jobs = [n \in Names |-> NoJob]
      \/ \E n \in Names, spec \in Specs \ {"invalid"}, phase \in LegacyPhases :
             \E job \in LegacyJob(phase) :
               /\ upgrades = [m \in Names |->
                    IF m = n THEN [uid |-> 1, created |-> 0, spec |-> spec,
                                   phase |-> phase, reason |-> "none"] ELSE Absent]
               /\ jobs = [m \in Names |-> IF m = n THEN job ELSE NoJob]
               /\ done = IF phase = "Succeeded" \/ job.state = "complete" THEN {<<n, 1>>} ELSE {}
               /\ used = {n} /\ nextUid = 2
  BY Zenon DEF Init, InitObjects
<1> QED BY <1>1, <1>2, <1>3

LEMMA OwnersStep == ASSUME TypeOK, OwnersInv, [Next]_vars PROVE OwnersInv'
<1>0. TypeOK'
  BY TypeStep
<1>1. CopyOwned(upgrades)' /\ CopyOwned(cache)'
  BY <1>0, CopyOwnedStep DEF CopyOwned, CopyOwnedAfter, Owned, OwnedAfter
<1>2. (\A i \in 1 .. Len(watch) : CopyOwned(watch[i]))'
  BY <1>0, CopyOwnedStep DEF CopyOwned, CopyOwnedAfter, Owned, OwnedAfter
<1>3. (\A n \in Names : JobOwned(n, jobs[n]) /\ JobOwned(n, jobCache[n]))'
  BY JobOwnedStep DEF JobOwned, JobOwnedAfter, Owned, OwnedAfter
<1>4. WorkerOwned' /\ SucceededRanJob'
  BY WorkerOwnedStep, SucceededStep
<1> QED BY <1>1, <1>2, <1>3, <1>4 DEF OwnersInv

\* An upgrade reported Succeeded stands for a Job of its name that ran to completion: its
\* own, that of the backup that shares the name, or that of an earlier upgrade of the name
\* where names are used again, although Jobs are adopted and looked up by name, from caches.
THEOREM SuccessRanAJob == Safety => []SucceededRanJob
<1>1. TypeOK /\ OwnersInv /\ [Next]_vars => OwnersInv'
  BY OwnersStep
<1>2. OwnersInv => SucceededRanJob
  BY DEF OwnersInv
<1> QED BY <1>1, <1>2, OwnersInit, TypeInit, TypeStep, PTL DEF Safety

-----------------------------------------------------------------------------
(* The Jobs of unfinished upgrades of one instance do not overlap. *)

\* The oldest unfinished upgrade of an instance stays the oldest.
LEMMA OldestKept ==
  ASSUME ~Ties, ~Reuse, TypeOK, TypeOK', QueueInv, [Next]_vars,
         NEW n \in Names, NEW created \in Nat, created <= clock, Oldest(n, created)
  PROVE  \A m \in Names :
           Siblings(n, m) /\ Exists(upgrades'[m]) /\ upgrades'[m].created < created
             => upgradePhaseTerminal(upgrades'[m].phase)
<1> SUFFICES ASSUME NEW m \in Names, Siblings(n, m), Exists(upgrades'[m]),
                    upgrades'[m].created < created
             PROVE  upgradePhaseTerminal(upgrades'[m].phase)
  OBVIOUS
<1>1. CASE UNCHANGED <<upgrades, used, clock>>
  BY <1>1 DEF Oldest
<1>2. ASSUME NEW k \in Names, Moves(k) PROVE upgradePhaseTerminal(upgrades'[m].phase)
  BY <1>2 DEF Moves, Evolves, Oldest
<1>3. ASSUME NEW k \in Names, Creates(k) PROVE upgradePhaseTerminal(upgrades'[m].phase)
  <2>1. clock \in Nat /\ upgrades'[k].created = clock + 1
    BY <1>3 DEF Creates, TypeOK
  <2>2. m # k
    BY <2>1
  <2> QED BY <1>3, <2>2 DEF Creates, Oldest
<1>4. ASSUME NEW k \in Names, Deletes(k) PROVE upgradePhaseTerminal(upgrades'[m].phase)
  BY <1>4 DEF Deletes, Oldest
<1> QED BY <1>1, <1>2, <1>3, <1>4, WriteKinds

LEMMA JobsOfOldestStep ==
  ASSUME ~Ties, ~Reuse, TypeOK, TypeOK', QueueInv, OwnersInv, JobsOfOldest, [Next]_vars
  PROVE  JobsOfOldest'
<1> SUFFICES ASSUME NEW n \in Names, JobExists(jobs'[n]), jobs'[n].owner # ABackup,
                    Exists(upgrades'[n])
             PROVE  Oldest(n, upgrades[n].created)'
  BY DEF JobsOfOldest
<1>0. upgrades[n] \in Upgrade /\ upgrades'[n] \in Upgrade
  BY DEF TypeOK
<1>1. CASE JobExists(jobs[n]) /\ jobs[n].owner # ABackup
  <2>1. Exists(upgrades[n]) /\ upgrades'[n].created = upgrades[n].created
    <3>1. n \in used
      BY <1>1 DEF OwnersInv, JobOwned, Owned
    <3>2. CASE UNCHANGED <<upgrades, used, clock>> BY <3>2
    <3>3. ASSUME NEW k \in Names, Moves(k)
          PROVE  Exists(upgrades[n]) /\ upgrades'[n].created = upgrades[n].created
      BY <3>3 DEF Moves, Evolves
    <3>4. ASSUME NEW k \in Names, Creates(k) PROVE upgrades'[n] = upgrades[n]
      BY <3>1, <3>4 DEF Creates
    <3>5. ASSUME NEW k \in Names, Deletes(k) PROVE upgrades'[n] = upgrades[n]
      BY <3>5 DEF Deletes
    <3> QED BY <3>2, <3>3, <3>4, <3>5, WriteKinds
  <2>2. Oldest(n, upgrades[n].created)
    BY <1>1, <2>1 DEF JobsOfOldest
  <2>3. upgrades[n].created \in Nat /\ upgrades[n].created <= clock
    BY <1>0, <2>1 DEF Upgrade, QueueInv, RunningIsOldest, Known
  <2> QED BY <2>1, <2>2, <2>3, OldestKept DEF Oldest
<1>2. CASE /\ pc = "create" /\ n = key /\ ~JobExists(jobs[n])
           /\ UNCHANGED <<upgrades, used, clock>>
  <2>1. Oldest(key, up.created) /\ up.created = upgrades[key].created
    BY <1>2 DEF QueueInv, DecisionHolds, Evolves
  <2> QED BY <1>2, <2>1 DEF Oldest
<1>3. \/ JobExists(jobs[n]) /\ jobs[n].owner # ABackup
      \/ /\ pc = "create" /\ n = key /\ ~JobExists(jobs[n])
         /\ UNCHANGED <<upgrades, used, clock>>
  <2>1. jobs'[n] # [owner |-> ABackup, state |-> "active"]
    OBVIOUS
  <2>2. jobs'[n] = jobs[n] => JobExists(jobs[n]) /\ jobs[n].owner # ABackup
    OBVIOUS
  <2> QED BY <2>1, <2>2, JobEffect, Zenon
<1> QED BY <1>1, <1>2, <1>3

LEMMA JobsOfOldestInit == Init => JobsOfOldest
<1> SUFFICES ASSUME Init PROVE JobsOfOldest OBVIOUS
<1>1. \/ upgrades = [n \in Names |-> Absent]
      \/ \E n \in Names, spec \in Specs, phase \in LegacyPhases :
           upgrades = [m \in Names |->
             IF m = n THEN [uid |-> 1, created |-> 0, spec |-> spec,
                            phase |-> phase, reason |-> "none"] ELSE Absent]
  BY Zenon DEF Init, InitObjects
<1>2. ~Exists(Absent)
  BY DEF Exists, Absent
<1>3. \/ \A m \in Names : upgrades[m] = Absent
      \/ \E n \in Names : \A m \in Names \ {n} : upgrades[m] = Absent
  BY <1>1
<1> QED BY <1>2, <1>3 DEF JobsOfOldest, Oldest, Siblings

\* The own Jobs of two unfinished upgrades of one instance never overlap, when no two are
\* created in the same second and no name is used again.  It says nothing of a Job whose
\* upgrade has ended or was deleted: that one may run beside the next upgrade's.
THEOREM UnfinishedJobsDoNotOverlap ==
  ASSUME ~Ties, ~Reuse
  PROVE  Safety => []OneExecuting
<1>1. TypeOK /\ TypeOK' /\ QueueInv /\ OwnersInv /\ JobsOfOldest /\ [Next]_vars => JobsOfOldest'
  BY JobsOfOldestStep
<1>2. TypeOK /\ OwnersInv /\ [Next]_vars => OwnersInv'
  BY OwnersStep
<1>3. TypeOK /\ QueueInv /\ JobsOfOldest => OneExecuting
  <2> SUFFICES ASSUME TypeOK, QueueInv, JobsOfOldest, NEW n \in Names, NEW m \in Names,
                      Siblings(n, m), Executing(n), Executing(m)
               PROVE  FALSE
    BY DEF OneExecuting
  <2>1. /\ Exists(upgrades[n]) /\ Exists(upgrades[m]) /\ Siblings(m, n)
        /\ JobExists(jobs[n]) /\ JobExists(jobs[m])
        /\ jobs[n].owner # ABackup /\ jobs[m].owner # ABackup
        /\ ~upgradePhaseTerminal(upgrades[n].phase) /\ ~upgradePhaseTerminal(upgrades[m].phase)
    <3>1. upgrades[n].uid \in 0 .. MaxUid /\ upgrades[m].uid \in 0 .. MaxUid
      BY DEF TypeOK, Upgrade
    <3>2. upgrades[n].uid # ABackup /\ upgrades[m].uid # ABackup
      BY <3>1, BoundsAssumption DEF ABackup
    <3> QED BY <3>2 DEF Executing, Exists, JobExists, Siblings
  <2>2. upgrades[n].created \in Nat /\ upgrades[m].created \in Nat
    BY DEF TypeOK, Upgrade
  <2>3. upgrades[n].created # upgrades[m].created
    BY <2>1 DEF QueueInv, RunningIsOldest, Siblings
  <2>4. ~(upgrades[m].created < upgrades[n].created)
    BY <2>1 DEF JobsOfOldest, Oldest
  <2>5. ~(upgrades[n].created < upgrades[m].created)
    BY <2>1 DEF JobsOfOldest, Oldest
  <2> QED BY <2>2, <2>3, <2>4, <2>5
<1>4. Safety => [](TypeOK /\ QueueInv)
  BY QueueInvariant
<1> QED BY <1>1, <1>2, <1>3, <1>4, OwnersInit, JobsOfOldestInit, PTL DEF Safety
=============================================================================
