-------------------------- MODULE OdooBackupProofs --------------------------
(***************************************************************************)
(* Theorems about OdooBackup for every set of names and instances, every   *)
(* choice of specs and every value of the bounds.                          *)
(***************************************************************************)
EXTENDS OdooBackup, SequenceTheorems, TLAPS

Decision == [phase : Phase, reason : Reason, ran : BOOLEAN]

LEMMA SpecType == NoSpec \in BackupSpec /\ \A n \in Names : SpecsOf[n] \subseteq BackupSpec
  BY DomainAssumption DEF NoSpec, BackupSpec

LEMMA AbsentType ==
  Absent \in Backup /\ NoJob \in Job /\ NoCron \in Cron /\ NoWrite \in Decision
<1>1. /\ 0 \in 0 .. MaxUid /\ 0 \in 0 .. MaxUid + 1
      /\ "" \in Phase /\ "none" \in Reason
  BY BoundsAssumption DEF Phase, Reason
<1>2. <<"own", "absent">> \in Template
  BY DEF Template, InstanceState
<1>3. Absent \in Backup
  BY <1>1, SpecType DEF Absent, Backup
<1>4. NoJob \in Job
  BY <1>1 DEF NoJob, Job
<1>5. NoCron \in Cron
  BY <1>1, <1>2 DEF NoCron, Cron
<1>6. NoWrite \in Decision
  BY <1>1 DEF NoWrite, Decision
<1> QED BY <1>3, <1>4, <1>5, <1>6

\* What a reconcile that returns leaves in the worker's variables.
LEMMA ReturnType ==
  ASSUME TypeOK, pc # "idle", NEW b \in BOOLEAN, Return(b)
  PROVE  /\ pc' = "idle" /\ key' = 0 /\ bk' = Absent /\ bk' \in Backup
         /\ write' \in Decision /\ queue' \subseteq Names
  BY AbsentType DEF TypeOK, Return

\* What a reconcile that is about to write leaves there.
LEMMA PrepareType ==
  ASSUME TypeOK, pc # "idle", NEW p \in Phase, NEW r \in Reason, PrepareWrite(p, r)
  PROVE  /\ pc' = "write" /\ key' = key /\ bk' = bk /\ key' \in Names
         /\ write' \in Decision
<1>1. bk.ran \in BOOLEAN
  BY DEF TypeOK, Backup
<1> QED BY <1>1 DEF TypeOK, PrepareWrite, Decision

LEMMA ScheduledType ==
  ASSUME TypeOK, pc # "idle", NEW c \in Cron, PrepareScheduled(c)
  PROVE  /\ pc' = "write" /\ key' = key /\ bk' = bk /\ key' \in Names
         /\ write' \in Decision
<1>1. c.ran \in BOOLEAN /\ "Scheduled" \in Phase /\ "Complete" \in Reason
      /\ "Scheduled" \in Reason
  BY DEF Cron, Phase, Reason
<1> QED BY <1>1 DEF TypeOK, PrepareScheduled, Decision

\* Storing a well-typed state keeps the watch well typed.
LEMMA StoreType ==
  ASSUME TypeOK, NEW new \in [Names -> Backup], Store(new)
  PROVE  backups' \in [Names -> Backup] /\ watch' \in Seq([Names -> Backup])
  BY DEF TypeOK, Store

LEMMA TypeInit == Init => TypeOK
<1> SUFFICES ASSUME Init PROVE TypeOK OBVIOUS
<1>1. /\ backups \in [Names -> Backup] /\ jobs \in [Names -> Job] /\ crons \in [Names -> Cron]
      /\ bk \in Backup /\ write \in Decision
  BY AbsentType DEF Init
<1>2. instances \in [Instances -> InstanceState]
  BY DomainAssumption DEF Init
<1>3. watch \in Seq([Names -> Backup])
  BY EmptySeq, Zenon DEF Init
<1>4. /\ queue \subseteq Names /\ inGrace \subseteq 0 .. MaxUid /\ used \subseteq Names
      /\ done \subseteq Names \X (0 .. MaxUid + 1)
  BY DEF Init
<1>5. cache = backups /\ instCache = instances /\ jobCache = jobs /\ cronCache = crons
  BY DEF Init
<1>6. pc = "idle" /\ key = 0 /\ clock = 0 /\ faults = 0 /\ nextUid = 1
  BY DEF Init
<1>7. clock \in Nat /\ faults \in 0 .. MaxFaults /\ nextUid \in 1 .. MaxUid + 1
  BY <1>6, BoundsAssumption
<1> QED BY <1>1, <1>2, <1>3, <1>4, <1>5, <1>6, <1>7 DEF TypeOK, Decision

\* A status write keeps the other fields of the backup.
LEMMA NewStatusFacts ==
  ASSUME NEW o \in Backup, write \in Decision
  PROVE  /\ NewStatus(o) \in Backup /\ NewStatus(o).uid = o.uid
         /\ NewStatus(o).created = o.created /\ NewStatus(o).spec = o.spec
         /\ NewStatus(o).phase = write.phase
<1>1. /\ write.phase \in Phase /\ write.reason \in Reason /\ write.ran \in BOOLEAN
      /\ o.ran \in BOOLEAN
  BY DEF Decision, Backup
<1> DEFINE r == IF write.phase = "Scheduled" THEN write.ran ELSE o.ran
<1>2. r \in BOOLEAN
  BY <1>1
<1>3. NewStatus(o) = [o EXCEPT !.phase = write.phase, !.reason = write.reason,
                               !.observed = TRUE, !.ran = r]
  BY DEF NewStatus
<1> HIDE DEF r
<1> QED BY <1>1, <1>2, <1>3 DEF Backup

\* What a status write leaves: the backup it was computed for, with the new status.
LEMMA ApplyWriteType ==
  ASSUME TypeOK, pc = "write", ApplyWrite
  PROVE  /\ backups' \in [Names -> Backup] /\ watch' \in Seq([Names -> Backup])
         /\ inGrace' \subseteq 0 .. MaxUid
<1>1. key \in Names /\ backups \in [Names -> Backup] /\ cache[key] \in Backup
      /\ write \in Decision
  BY DEF TypeOK, Decision
<1>2. NewStatus(cache[key]) \in Backup
  BY <1>1, NewStatusFacts
<1>3. [backups EXCEPT ![key] = NewStatus(cache[key])] \in [Names -> Backup]
  BY <1>1, <1>2
<1>4. cache[key].uid \in 0 .. MaxUid
  BY <1>1 DEF Backup
<1>5. inGrace' \subseteq inGrace \cup {cache[key].uid}
  BY DEF ApplyWrite
<1>6. inGrace \subseteq 0 .. MaxUid
  BY DEF TypeOK
<1> QED BY <1>3, <1>4, <1>5, <1>6, StoreType DEF ApplyWrite

\* The CronJob the worker wants, and what an Update makes of the one it has.
LEMMA DesiredType ==
  ASSUME TypeOK, pc # "idle"
  PROVE  /\ Desired \in Cron /\ cronCache[key] \in Cron /\ crons[key] \in Cron
         /\ Updated(cronCache[key], Desired) \in Cron
<1>1. /\ key \in Names /\ bk \in Backup /\ instCache[InstanceOf[key]] \in InstanceState
      /\ cronCache[key] \in Cron /\ crons[key] \in Cron
  BY InstanceOfAssumption DEF TypeOK
<1>2. bk.uid \in 0 .. MaxUid /\ bk.spec \in BackupSpec
  BY <1>1 DEF Backup
<1>3. /\ bk.spec.body \in {"own", "other", "inherit", "invalid"} /\ bk.spec.suspend \in BOOLEAN
      /\ bk.spec.schedule \in {"", "daily", "hourly", "refused"}
  BY <1>2 DEF BackupSpec
<1>4. JobTemplate(bk.spec, instCache[InstanceOf[key]]) \in Template
  BY <1>1, <1>3 DEF JobTemplate, Template
<1>5. Desired \in Cron
  BY <1>2, <1>3, <1>4 DEF Desired, DesiredCron, Cron
<1>6. cronCache[key].owner \in 0 .. MaxUid /\ cronCache[key].ran \in BOOLEAN
  BY <1>1 DEF Cron
<1>7. Updated(cronCache[key], Desired) \in Cron
  BY <1>5, <1>6 DEF Updated, Cron
<1> QED BY <1>1, <1>5, <1>7

LEMMA PutCronType == ASSUME TypeOK, pc = "apply", PutCron PROVE crons' \in [Names -> Cron]
<1>1. key \in Names /\ crons \in [Names -> Cron]
  BY DEF TypeOK
<1>2. \/ crons' = [crons EXCEPT ![key] = Desired]
      \/ crons' = [crons EXCEPT ![key] = Updated(cronCache[key], Desired)]
  BY DEF PutCron
<1> QED BY <1>1, <1>2, DesiredType

\* The Job after a Create.
LEMMA JobAfterCreateType ==
  ASSUME TypeOK, pc = "create"
  PROVE  [jobs EXCEPT ![key] = JobAfterCreate] \in [Names -> Job]
<1>1. key \in Names /\ jobs \in [Names -> Job] /\ jobs[key] \in Job /\ bk \in Backup
  BY DEF TypeOK
<1>2. bk.uid \in 0 .. MaxUid + 1
  BY <1>1, BoundsAssumption DEF Backup
<1>3. JobAfterCreate \in Job
  BY <1>1, <1>2 DEF JobAfterCreate, Job
<1> QED BY <1>1, <1>3

LEMMA TypeStep == TypeOK /\ [Next]_vars => TypeOK'
<1> SUFFICES ASSUME TypeOK, [Next]_vars PROVE TypeOK' OBVIOUS
<1> USE DEF apiVars, cacheVars, worker, userVars, Decision
<1>1. ASSUME NEW n \in Names, Begin(n) PROVE TypeOK'
  <2>1. cache[n] \in Backup /\ queue \ {n} \subseteq Names
    BY DEF TypeOK
  <2>2. FirstStep(cache[n]) \in {"idle", "decide", "monitor"}
    BY DEF FirstStep
  <2> QED BY <1>1, <2>1, <2>2 DEF Begin, TypeOK
<1>2. ASSUME Decide PROVE TypeOK'
  <2>1. pc # "idle" /\ "Failed" \in Phase /\ "Pending" \in Phase /\ "InvalidSpec" \in Reason
        /\ "InstanceNotFound" \in Reason /\ "Pending" \in Reason
    BY <1>2 DEF Decide, Phase, Reason
  <2>2. \/ PrepareWrite("Failed", "InvalidSpec") \/ PrepareWrite("Pending", "InstanceNotFound")
        \/ PrepareWrite("Pending", "Pending") \/ GoTo("create") \/ GoTo("apply")
    BY <1>2 DEF Decide
  <2>3. pc' \in {"write", "create", "apply"} /\ key' \in Names /\ bk' = bk /\ write' \in Decision
    <3>1. CASE GoTo("create") \/ GoTo("apply")
      BY <2>1, <3>1 DEF GoTo, TypeOK
    <3> QED BY <2>1, <2>2, <3>1, PrepareType
  <2> QED BY <1>2, <2>3 DEF Decide, TypeOK
<1>3. ASSUME CreateJob PROVE TypeOK'
  <2>1. pc # "idle" /\ "Running" \in Phase /\ "Running" \in Reason
    BY <1>3 DEF CreateJob, Phase, Reason
  <2> QED BY <1>3, <2>1, JobAfterCreateType, PrepareType DEF CreateJob, TypeOK
<1>4. ASSUME Monitor PROVE TypeOK'
  <2>1. pc # "idle" /\ "Failed" \in Phase /\ "Succeeded" \in Phase /\ "JobFailed" \in Reason
        /\ "Complete" \in Reason
    BY <1>4 DEF Monitor, Phase, Reason
  <2>2. CASE Return(TRUE)
    BY <1>4, <2>1, <2>2, ReturnType DEF Monitor, TypeOK
  <2>3. CASE PrepareWrite("Failed", "JobFailed") /\ UNCHANGED queue
    BY <1>4, <2>1, <2>3, PrepareType DEF Monitor, TypeOK
  <2>4. CASE PrepareWrite("Succeeded", "Complete") /\ UNCHANGED queue
    BY <1>4, <2>1, <2>4, PrepareType DEF Monitor, TypeOK
  <2> QED BY <1>4, <2>2, <2>3, <2>4 DEF Monitor
<1>5. ASSUME ApplyCronJob PROVE TypeOK'
  <2>1. pc = "apply" /\ "Failed" \in Phase /\ "CronJobRejected" \in Reason
    BY <1>5 DEF ApplyCronJob, Phase, Reason
  <2>2. Desired \in Cron /\ cronCache[key] \in Cron
    BY <2>1, DesiredType
  <2>3. \/ \E c \in Cron : PrepareScheduled(c)
        \/ PrepareWrite("Failed", "CronJobRejected")
    <3>1. (IF CronExists(cronCache[key]) THEN cronCache[key] ELSE Desired) \in Cron
      BY <2>2
    <3> QED BY <1>5, <2>2, <3>1 DEF ApplyCronJob
  <2>4. pc' = "write" /\ key' \in Names /\ bk' = bk /\ write' \in Decision
    BY <2>1, <2>3, PrepareType, ScheduledType
  <2>5. crons' \in [Names -> Cron]
    <3>1. PutCron \/ UNCHANGED crons
      BY <1>5 DEF ApplyCronJob
    <3> QED BY <2>1, <3>1, PutCronType DEF TypeOK
  <2> QED BY <1>5, <2>4, <2>5 DEF ApplyCronJob, TypeOK
<1>6. ASSUME WriteStatus PROVE TypeOK'
  <2>1. /\ backups' \in [Names -> Backup] /\ watch' \in Seq([Names -> Backup])
        /\ inGrace' \subseteq 0 .. MaxUid
    <3>1. CASE UNCHANGED <<backups, watch, inGrace>>
      BY <3>1 DEF TypeOK
    <3> QED BY <1>6, <3>1, ApplyWriteType DEF WriteStatus
  <2>2. pc # "idle" /\ Requeued \in BOOLEAN /\ Return(Requeued)
    BY <1>6 DEF WriteStatus, Requeued
  <2> QED BY <1>6, <2>1, <2>2, ReturnType DEF WriteStatus, TypeOK
<1>7. ASSUME ApplyConflict \/ ConflictGivesUp PROVE TypeOK'
  <2>1. pc # "idle" /\ Return(TRUE)
    BY <1>7 DEF ApplyConflict, ConflictGivesUp
  <2> QED BY <1>7, <2>1, ReturnType DEF ApplyConflict, ConflictGivesUp, TypeOK
<1>8. ASSUME Fault PROVE faults' \in 0 .. MaxFaults
  BY <1>8, BoundsAssumption DEF Fault, TypeOK
<1>9. ASSUME CallFails PROVE TypeOK'
  BY <1>8, <1>9, ReturnType DEF CallFails, TypeOK
<1>10. ASSUME Unanswered PROVE TypeOK'
  <2>1. pc # "idle" /\ Return(TRUE) /\ faults' \in 0 .. MaxFaults
    BY <1>8, <1>10 DEF Unanswered
  <2>2. /\ backups' \in [Names -> Backup] /\ watch' \in Seq([Names -> Backup])
        /\ inGrace' \subseteq 0 .. MaxUid /\ jobs' \in [Names -> Job]
        /\ crons' \in [Names -> Cron]
    <3>1. CASE /\ pc = "create" /\ jobs' = [jobs EXCEPT ![key] = JobAfterCreate]
               /\ UNCHANGED <<backups, watch, crons, inGrace>>
      BY <3>1, JobAfterCreateType DEF TypeOK
    <3>2. CASE pc = "apply" /\ PutCron /\ UNCHANGED <<backups, watch, jobs, inGrace>>
      BY <3>2, PutCronType DEF TypeOK
    <3>3. CASE pc = "write" /\ ApplyWrite /\ UNCHANGED <<jobs, crons>>
      BY <3>3, ApplyWriteType DEF TypeOK
    <3> QED BY <1>10, <3>1, <3>2, <3>3 DEF Unanswered
  <2> QED BY <1>10, <2>1, <2>2, ReturnType DEF Unanswered, TypeOK
<1>11. ASSUME Restart PROVE TypeOK'
  <2>1. watch' \in Seq([Names -> Backup])
    BY <1>11, EmptySeq, Zenon DEF Restart
  <2>2. queue' \subseteq Names BY <1>11 DEF Restart
  <2>3. write' \in Decision /\ bk' \in Backup
    BY <1>11, AbsentType DEF Restart
  <2> QED BY <1>8, <1>11, <2>1, <2>2, <2>3 DEF Restart, TypeOK
<1>12. ASSUME DeliverBackups PROVE TypeOK'
  <2>1. /\ Head(watch) \in [Names -> Backup]
        /\ Tail(watch) \in Seq([Names -> Backup])
    BY <1>12 DEF DeliverBackups, TypeOK
  <2>2. queue' \subseteq Names BY <1>12 DEF DeliverBackups, TypeOK
  <2> QED BY <1>12, <2>1, <2>2 DEF DeliverBackups, TypeOK
<1>13. ASSUME NEW n \in Names, DeliverJob(n) PROVE TypeOK'
  BY <1>13 DEF DeliverJob, TypeOK
<1>14. ASSUME NEW n \in Names, DeliverCron(n) PROVE TypeOK'
  BY <1>14 DEF DeliverCron, TypeOK
<1>15. ASSUME NEW i \in Instances, DeliverInstance(i) PROVE TypeOK'
  BY <1>15 DEF DeliverInstance, TypeOK
<1>16. ASSUME NEW n \in Names, NEW outcome \in {"complete", "failed"}, JobFinishes(n, outcome)
       PROVE  TypeOK'
  <2>1. jobs[n] \in Job /\ jobs \in [Names -> Job] BY DEF TypeOK
  <2>2. jobs' \in [Names -> Job]
    BY <1>16, <2>1 DEF JobFinishes, Job
  <2>3. jobs[n].owner \in 0 .. MaxUid + 1
    BY <2>1 DEF Job
  <2>4. done' \subseteq Names \X (0 .. MaxUid + 1)
    BY <1>16, <2>3 DEF JobFinishes, TypeOK
  <2> QED BY <1>16, <2>2, <2>4 DEF JobFinishes, TypeOK
<1>17. ASSUME NEW n \in Names, DeleteJob(n) PROVE TypeOK'
  BY <1>8, <1>17, AbsentType DEF DeleteJob, TypeOK
<1>18. ASSUME NEW n \in Names, Collect(n) PROVE TypeOK'
  <2>1. \/ jobs' = [jobs EXCEPT ![n] = NoJob] /\ UNCHANGED crons
        \/ crons' = [crons EXCEPT ![n] = NoCron] /\ UNCHANGED jobs
    BY <1>18 DEF Collect
  <2>2. jobs' \in [Names -> Job] /\ crons' \in [Names -> Cron]
    BY <2>1, AbsentType DEF TypeOK
  <2> QED BY <1>18, <2>2 DEF Collect, TypeOK
<1>19. ASSUME NEW n \in Names, UpgradeTakesName(n) PROVE TypeOK'
  <2>1. [owner |-> AnUpgrade, state |-> "active"] \in Job
    BY BoundsAssumption DEF AnUpgrade, Job
  <2> QED BY <1>8, <1>19, <2>1 DEF UpgradeTakesName, TypeOK
<1>20. ASSUME NEW n \in Names, CronRuns(n) PROVE TypeOK'
  <2>1. crons \in [Names -> Cron] /\ crons[n] \in Cron BY DEF TypeOK
  <2>2. [crons EXCEPT ![n].ran = TRUE] \in [Names -> Cron]
    BY <2>1 DEF Cron
  <2> QED BY <1>20, <2>2 DEF CronRuns, TypeOK
<1>21. ASSUME NEW n \in Names, GraceEnds(n) PROVE TypeOK'
  BY <1>21 DEF GraceEnds, TypeOK
<1>22. ASSUME NEW n \in Names, DeleteBackup(n) PROVE TypeOK'
  <2>1. [backups EXCEPT ![n] = Absent] \in [Names -> Backup]
    BY AbsentType DEF TypeOK
  <2> QED BY <1>8, <1>22, <2>1, StoreType DEF DeleteBackup, TypeOK
<1>23. ASSUME NEW n \in Names, NEW spec \in SpecsOf[n], CreateBackup(n, spec) PROVE TypeOK'
  <2>1. /\ clock' \in Nat /\ nextUid \in 0 .. MaxUid /\ nextUid' \in 1 .. MaxUid + 1
    <3>1. clock \in Nat /\ nextUid \in 1 .. MaxUid + 1
      BY DEF TypeOK
    <3>2. nextUid <= MaxUid /\ nextUid' = nextUid + 1
      BY <1>23 DEF CreateBackup
    <3>3. clock' = clock + 1 \/ clock' = clock
      BY <1>23 DEF CreateBackup
    <3> QED BY <3>1, <3>2, <3>3, BoundsAssumption
  <2>2. [Absent EXCEPT !.uid = nextUid, !.created = clock', !.spec = spec] \in Backup
    BY <2>1, AbsentType, SpecType DEF Backup
  <2>3. [backups EXCEPT ![n] = [Absent EXCEPT !.uid = nextUid, !.created = clock',
                                             !.spec = spec]] \in [Names -> Backup]
    BY <2>2 DEF TypeOK
  <2>4. backups' \in [Names -> Backup] /\ watch' \in Seq([Names -> Backup])
    BY <1>23, <2>3, StoreType DEF CreateBackup
  <2> QED BY <1>23, <2>1, <2>4 DEF CreateBackup, TypeOK
<1>24. ASSUME NEW n \in Names, NEW spec \in SpecsOf[n], EditSpec(n, spec) PROVE TypeOK'
  <2>1. backups \in [Names -> Backup] /\ backups[n] \in Backup /\ spec \in BackupSpec
    BY SpecType DEF TypeOK
  <2>2. [backups EXCEPT ![n].spec = spec, ![n].observed = FALSE] \in [Names -> Backup]
    BY <2>1 DEF Backup
  <2> QED BY <1>8, <1>24, <2>2, StoreType DEF EditSpec, TypeOK
<1>25. ASSUME NEW i \in Instances, NEW state \in InstanceStates, SetInstance(i, state)
       PROVE  TypeOK'
  BY <1>8, <1>25, DomainAssumption DEF SetInstance, TypeOK
<1>26. CASE UNCHANGED vars
  BY <1>26 DEF vars, TypeOK
<1> QED
  BY <1>1, <1>2, <1>3, <1>4, <1>5, <1>6, <1>7, <1>9, <1>10, <1>11, <1>12, <1>13, <1>14, <1>15,
     <1>16, <1>17, <1>18, <1>19, <1>20, <1>21, <1>22, <1>23, <1>24, <1>25, <1>26
     DEF Next, Reconcile

\* Type correctness of the controller, its caches and the cluster in every behaviour.
THEOREM TypeCorrect == Spec => []TypeOK
  BY TypeInit, TypeStep, PTL DEF Spec

-----------------------------------------------------------------------------
(* A phase never goes back. *)

\* The worker writes a phase it has decided on.
WriteTarget == pc = "write" => write.phase # ""

LEMMA WriteTargetStep == TypeOK /\ WriteTarget /\ [Next]_vars => WriteTarget'
<1> SUFFICES ASSUME TypeOK, WriteTarget, [Next]_vars, pc' = "write" PROVE write'.phase # ""
  BY DEF WriteTarget
<1> USE DEF WriteTarget, worker
<1>1. CASE \E p \in {"Pending", "Running", "Succeeded", "Failed"}, r \in Reason :
             PrepareWrite(p, r)
  <2>1. PICK p \in {"Pending", "Running", "Succeeded", "Failed"}, r \in Reason : PrepareWrite(p, r)
    BY <1>1
  <2>2. write'.phase = p
    BY <2>1 DEF PrepareWrite
  <2> QED BY <2>2
<1>2. CASE UNCHANGED worker
  BY <1>2
<1>3. ASSUME NEW n \in Names, Begin(n) PROVE FALSE
  BY <1>3 DEF Begin, FirstStep
<1>4. CASE Decide
  BY <1>1, <1>4 DEF Decide, GoTo, Reason
<1>5. CASE CreateJob
  BY <1>1, <1>5 DEF CreateJob, Reason
<1>6. CASE Monitor
  BY <1>1, <1>6 DEF Monitor, Return, Reason
<1>7. CASE ApplyCronJob
  <2>1. ASSUME NEW c, PrepareScheduled(c) PROVE write'.phase # ""
    BY <2>1 DEF PrepareScheduled
  <2>2. (\E c : PrepareScheduled(c)) \/ PrepareWrite("Failed", "CronJobRejected")
    BY <1>7 DEF ApplyCronJob
  <2> QED BY <1>1, <2>1, <2>2 DEF Reason
<1>8. CASE WriteStatus \/ ApplyConflict \/ ConflictGivesUp \/ CallFails \/ Unanswered \/ Restart
  BY <1>8 DEF WriteStatus, ApplyConflict, ConflictGivesUp, CallFails, Unanswered, Restart,
              Return
<1>9. CASE DeliverBackups \/ (\E n \in Names : \/ DeliverJob(n) \/ DeliverCron(n)
                                               \/ DeleteJob(n) \/ Collect(n)
                                               \/ UpgradeTakesName(n) \/ CronRuns(n)
                                               \/ GraceEnds(n) \/ DeleteBackup(n))
  BY <1>2, <1>9 DEF DeliverBackups, DeliverJob, DeliverCron, DeleteJob, Collect,
                    UpgradeTakesName, CronRuns, GraceEnds, DeleteBackup
<1>10. CASE \/ \E i \in Instances : DeliverInstance(i)
            \/ \E i \in Instances, state \in InstanceStates : SetInstance(i, state)
            \/ \E n \in Names : \E spec \in SpecsOf[n] : CreateBackup(n, spec) \/ EditSpec(n, spec)
            \/ \E n \in Names, outcome \in {"complete", "failed"} : JobFinishes(n, outcome)
            \/ UNCHANGED vars
  BY <1>2, <1>10 DEF DeliverInstance, SetInstance, CreateBackup, EditSpec, JobFinishes, vars
<1> QED BY <1>3, <1>4, <1>5, <1>6, <1>7, <1>8, <1>9, <1>10 DEF Next, Reconcile

\* The steps that change the OdooBackups in the API server.
Writes(n) ==
    /\ n = key /\ n \in Names /\ pc = "write" /\ ~WriteSkipped(backups[n])
    /\ backups'[n].uid = backups[n].uid /\ backups'[n].created = backups[n].created
    /\ backups'[n].spec = backups[n].spec /\ backups'[n].phase = write.phase
    /\ UNCHANGED <<used, clock, nextUid, done>>

Edits(n) ==
    /\ Exists(backups[n]) /\ ~OneShot(backups[n].spec) /\ ~OneShot(backups'[n].spec)
    /\ backups'[n].uid = backups[n].uid /\ backups'[n].created = backups[n].created
    /\ backups'[n].phase = backups[n].phase
    /\ UNCHANGED <<used, clock, nextUid, done>>

Creates(n) ==
    /\ ~Exists(backups[n]) /\ backups'[n].uid = nextUid /\ nextUid' = nextUid + 1
    /\ backups'[n].phase = "" /\ backups'[n].created = clock'
    /\ clock' \in {clock, clock + 1}
    /\ IF OneShot(backups'[n].spec) THEN Ties \/ clock' = clock + 1 ELSE clock' = clock
    /\ n \in Reuse \/ n \notin used
    /\ used' = used \cup {n} /\ done' = done

Deletes(n) ==
    /\ Exists(backups[n]) /\ backups'[n] = Absent
    /\ UNCHANGED <<used, clock, nextUid, done>>

LEMMA WriteEffect ==
  ASSUME TypeOK, pc = "write", ApplyWrite, UNCHANGED <<used, clock, nextUid, done>>
  PROVE  /\ \A m \in Names \ {key} : backups'[m] = backups[m]
         /\ Writes(key)
<1>1. /\ key \in Names /\ backups \in [Names -> Backup] /\ backups[key] \in Backup
      /\ write \in Decision
  BY DEF TypeOK, Decision
<1>2. backups' = [backups EXCEPT ![key] = NewStatus(backups[key])]
      /\ ~WriteSkipped(backups[key])
  BY DEF ApplyWrite, Store
<1>3. backups'[key] = NewStatus(backups[key])
      /\ \A m \in Names \ {key} : backups'[m] = backups[m]
  BY <1>1, <1>2
<1> QED BY <1>1, <1>2, <1>3, NewStatusFacts DEF Writes

LEMMA CreateEffect ==
  ASSUME TypeOK, NEW n \in Names, NEW spec \in SpecsOf[n], CreateBackup(n, spec)
  PROVE  /\ \A m \in Names \ {n} : backups'[m] = backups[m]
         /\ Creates(n)
<1> DEFINE new == [Absent EXCEPT !.uid = nextUid, !.created = clock', !.spec = spec]
<1>1. new.uid = nextUid /\ new.created = clock' /\ new.spec = spec /\ new.phase = ""
  BY DEF Absent
<1>2. backups \in [Names -> Backup] /\ backups' = [backups EXCEPT ![n] = new]
  BY DEF TypeOK, CreateBackup, Store
<1> HIDE DEF new
<1>3. backups'[n] = new /\ \A m \in Names \ {n} : backups'[m] = backups[m]
  BY <1>2
<1>4. /\ ~Exists(backups[n]) /\ nextUid' = nextUid + 1 /\ used' = used \cup {n} /\ done' = done
      /\ n \in Reuse \/ n \notin used
      /\ clock' \in {clock, clock + 1}
      /\ IF OneShot(spec) THEN Ties \/ clock' = clock + 1 ELSE clock' = clock
  BY DEF CreateBackup
<1> QED BY <1>1, <1>3, <1>4 DEF Creates

LEMMA EditEffect ==
  ASSUME TypeOK, NEW n \in Names, NEW spec \in SpecsOf[n], EditSpec(n, spec)
  PROVE  /\ \A m \in Names \ {n} : backups'[m] = backups[m]
         /\ Edits(n)
<1>1. /\ backups \in [Names -> Backup] /\ backups[n] \in Backup
      /\ backups' = [backups EXCEPT ![n].spec = spec, ![n].observed = FALSE]
  BY DEF TypeOK, EditSpec, Store
<1>2. backups'[n] = [backups[n] EXCEPT !.spec = spec, !.observed = FALSE]
      /\ \A m \in Names \ {n} : backups'[m] = backups[m]
  BY <1>1
<1>3. /\ backups'[n].uid = backups[n].uid /\ backups'[n].created = backups[n].created
      /\ backups'[n].phase = backups[n].phase /\ backups'[n].spec = spec
  BY <1>1, <1>2 DEF Backup
<1>4. /\ Exists(backups[n]) /\ ~OneShot(backups[n].spec) /\ ~OneShot(spec)
      /\ UNCHANGED <<used, clock, nextUid, done>>
  BY DEF EditSpec, userVars
<1> QED BY <1>2, <1>3, <1>4 DEF Edits

LEMMA DeleteEffect ==
  ASSUME TypeOK, NEW n \in Names, DeleteBackup(n)
  PROVE  /\ \A m \in Names \ {n} : backups'[m] = backups[m]
         /\ Deletes(n)
  BY DEF DeleteBackup, Store, TypeOK, Deletes, userVars

\* Every step leaves the backups alone or changes one of them in one of four ways; what
\* is written goes on the informer's watch.
LEMMA Writers ==
  ASSUME TypeOK, [Next]_vars
  PROVE  \/ UNCHANGED <<backups, used, clock, nextUid>> /\ done \subseteq done'
         \/ \E n \in Names :
              /\ \A m \in Names \ {n} : backups'[m] = backups[m]
              /\ Writes(n) \/ Edits(n) \/ Creates(n) \/ Deletes(n)
<1> USE DEF apiVars, userVars
<1>1. CASE \/ \E n \in Names : \/ Begin(n) \/ DeliverJob(n) \/ DeliverCron(n) \/ DeleteJob(n)
                               \/ Collect(n) \/ UpgradeTakesName(n) \/ CronRuns(n)
                               \/ GraceEnds(n)
           \/ \E i \in Instances : DeliverInstance(i)
           \/ \E i \in Instances, state \in InstanceStates : SetInstance(i, state)
           \/ \E n \in Names, outcome \in {"complete", "failed"} : JobFinishes(n, outcome)
  BY <1>1 DEF Begin, DeliverJob, DeliverCron, DeleteJob, Collect, UpgradeTakesName, CronRuns,
              GraceEnds, DeliverInstance, SetInstance, JobFinishes
<1>2. CASE \/ Decide \/ CreateJob \/ Monitor \/ ApplyCronJob \/ ApplyConflict
           \/ ConflictGivesUp \/ CallFails \/ Restart \/ DeliverBackups \/ UNCHANGED vars
  BY <1>2 DEF Decide, CreateJob, Monitor, ApplyCronJob, ApplyConflict, ConflictGivesUp,
              CallFails, Restart, DeliverBackups, vars
<1>3. CASE WriteStatus \/ Unanswered
  <2>1. UNCHANGED <<used, clock, nextUid, done>>
    BY <1>3 DEF WriteStatus, Unanswered
  <2>2. (pc = "write" /\ ApplyWrite) \/ UNCHANGED backups
    BY <1>3 DEF WriteStatus, Unanswered
  <2>3. CASE pc = "write" /\ ApplyWrite
    <3>1. key \in Names BY <2>3 DEF TypeOK
    <3> QED BY <2>1, <2>3, <3>1, WriteEffect
  <2> QED BY <2>1, <2>2, <2>3
<1>4. CASE \E n \in Names : \E spec \in SpecsOf[n] : CreateBackup(n, spec) \/ EditSpec(n, spec)
  BY <1>4, CreateEffect, EditEffect
<1>5. CASE \E n \in Names : DeleteBackup(n)
  BY <1>5, DeleteEffect
<1> QED BY <1>1, <1>2, <1>3, <1>4, <1>5 DEF Next, Reconcile

\* A finished one-shot backup keeps its phase and a started one is never queued again,
\* with names shared or used again, whatever the caches show.
THEOREM PhaseNeverGoesBack == Spec => NeverGoesBack
<1> DEFINE Kept(n) ==
      backups'[n].uid = backups[n].uid /\ OneShot(backups[n].spec) =>
        /\ backupPhaseTerminal(backups[n].phase) => backups'[n].phase = backups[n].phase
        /\ backups[n].phase = "Running" => backups'[n].phase \notin {"", "Pending"}
<1>1. TypeOK /\ WriteTarget /\ [Next]_vars => \A n \in Names : Kept(n)
  <2> SUFFICES ASSUME TypeOK, WriteTarget, [Next]_vars, NEW n \in Names PROVE Kept(n)
    OBVIOUS
  <2>1. CASE backups'[n] = backups[n]
    BY <2>1
  <2>2. CASE Writes(n)
    <3>1. /\ write.phase # "" /\ backups'[n].phase = write.phase
          /\ OneShot(backups[n].spec) => ~backupPhaseTerminal(backups[n].phase)
          /\ ~(write.phase = "Pending" /\ backups[n].phase = "Running")
      BY <2>2 DEF Writes, WriteSkipped, WriteTarget
    <3> QED BY <3>1
  <2>3. CASE Edits(n)
    BY <2>3 DEF Edits
  <2>4. CASE Creates(n)
    <3>1. nextUid # 0
      BY BoundsAssumption DEF TypeOK
    <3>2. backups'[n].uid # backups[n].uid
      BY <2>4, <3>1 DEF Creates, Exists
    <3> QED BY <3>2
  <2>5. CASE Deletes(n)
    <3>1. backups'[n].uid # backups[n].uid
      <4>1. Absent.uid = 0
        BY DEF Absent
      <4> QED BY <2>5, <4>1 DEF Deletes, Exists
    <3> QED BY <3>1
  <2> QED BY <2>1, <2>2, <2>3, <2>4, <2>5, Writers
<1>2. Init => WriteTarget
  BY DEF Init, WriteTarget
<1>3. Spec => [](TypeOK /\ WriteTarget)
  BY <1>2, TypeInit, TypeStep, WriteTargetStep, PTL DEF Spec
<1> QED BY <1>1, <1>3, PTL DEF Spec, NeverGoesBack

-----------------------------------------------------------------------------
(* Success stands for a Job that ran. *)

\* The uid o, found under the name n, is that of the backup that has the name, of an
\* earlier one where the name is used again, or of the upgrade that shares it.
Owned(n, o) ==
    \/ o = AnUpgrade /\ n \in Shared
    \/ /\ n \in used /\ o < nextUid
       /\ Exists(backups[n]) => o = backups[n].uid \/ (o < backups[n].uid /\ n \in Reuse)

CopyOwned(s) == \A n \in Names : Exists(s[n]) => Owned(n, s[n].uid)

\* So is the owner of a Job, and if the Job is complete its run is on record.
JobOwned(n, j) ==
    JobExists(j) => Owned(n, j.owner) /\ (j.state = "complete" => <<n, j.owner>> \in done)

\* The worker holds a copy of such a backup, and is about to report success only where
\* such a Job ran.
WorkerOwned ==
    pc # "idle" =>
        /\ Exists(bk) /\ Owned(key, bk.uid)
        /\ pc = "write" /\ write.phase = "Succeeded" =>
             \E owner \in 1 .. MaxUid + 1 : <<key, owner>> \in done /\ Owned(key, owner)

OwnersInv ==
    /\ CopyOwned(backups) /\ CopyOwned(cache)
    /\ \A i \in 1 .. Len(watch) : CopyOwned(watch[i])
    /\ \A n \in Names : JobOwned(n, jobs[n]) /\ JobOwned(n, jobCache[n])
    /\ WorkerOwned
    /\ SucceededRanJob

Snapshot == [Names -> Backup]

\* The same, of a copy or a Job held over a step.
OwnedAfter(n, o) ==
    \/ o = AnUpgrade /\ n \in Shared
    \/ /\ n \in used' /\ o < nextUid'
       /\ Exists(backups'[n]) => o = backups'[n].uid \/ (o < backups'[n].uid /\ n \in Reuse)

CopyOwnedAfter(s) == \A n \in Names : Exists(s[n]) => OwnedAfter(n, s[n].uid)

JobOwnedAfter(n, j) ==
    JobExists(j) => OwnedAfter(n, j.owner) /\ (j.state = "complete" => <<n, j.owner>> \in done')

\* A uid found under a name stays one that may be found there: a backup that takes the
\* name again is younger.
LEMMA OwnedKept ==
  ASSUME TypeOK, [Next]_vars, NEW n \in Names, NEW o \in Nat, Owned(n, o)
  PROVE  OwnedAfter(n, o) /\ done \subseteq done'
<1>0. nextUid \in Nat
  BY BoundsAssumption DEF TypeOK
<1>1. /\ done \subseteq done' /\ used \subseteq used'
      /\ nextUid' = nextUid \/ nextUid' = nextUid + 1
  BY Writers DEF Writes, Edits, Creates, Deletes
<1>2. CASE o = AnUpgrade /\ n \in Shared
  BY <1>1, <1>2 DEF OwnedAfter
<1>3. CASE /\ n \in used /\ o < nextUid
           /\ Exists(backups[n]) => o = backups[n].uid \/ (o < backups[n].uid /\ n \in Reuse)
  <2>1. n \in used' /\ o < nextUid'
    BY <1>0, <1>1, <1>3
  <2>2. Exists(backups'[n]) => o = backups'[n].uid \/ (o < backups'[n].uid /\ n \in Reuse)
    <3>1. CASE backups'[n] = backups[n]
      BY <1>3, <3>1
    <3>2. CASE Writes(n) \/ Edits(n)
      <4>1. backups'[n].uid = backups[n].uid
        BY <3>2 DEF Writes, Edits
      <4> QED BY <1>3, <4>1 DEF Exists
    <3>3. CASE Creates(n)
      BY <1>3, <3>3 DEF Creates
    <3>4. CASE Deletes(n)
      <4>1. Absent.uid = 0
        BY DEF Absent
      <4> QED BY <3>4, <4>1 DEF Deletes, Exists
    <3> QED BY <3>1, <3>2, <3>3, <3>4, Writers
  <2> QED BY <1>1, <2>1, <2>2 DEF OwnedAfter
<1> QED BY <1>2, <1>3 DEF Owned

LEMMA CopiesKept ==
  ASSUME TypeOK, [Next]_vars
  PROVE  /\ \A s \in Snapshot : CopyOwned(s) => CopyOwnedAfter(s)
         /\ \A n \in Names, j \in Job : JobOwned(n, j) => JobOwnedAfter(n, j)
<1>1. ASSUME NEW s \in Snapshot, CopyOwned(s) PROVE CopyOwnedAfter(s)
  <2> SUFFICES ASSUME NEW n \in Names, Exists(s[n]) PROVE OwnedAfter(n, s[n].uid)
    BY DEF CopyOwnedAfter
  <2>1. s[n].uid \in Nat
    BY DEF Snapshot, Backup
  <2>2. Owned(n, s[n].uid)
    BY <1>1 DEF CopyOwned
  <2> QED BY <2>1, <2>2, OwnedKept
<1>2. ASSUME NEW n \in Names, NEW j \in Job, JobOwned(n, j) PROVE JobOwnedAfter(n, j)
  <2>1. j.owner \in Nat
    BY DEF Job
  <2> QED BY <1>2, <2>1, OwnedKept DEF JobOwned, JobOwnedAfter
<1> QED BY <1>1, <1>2

\* The informer's copy changes by a delivery or a restart; everything written is
\* put on its watch.
LEMMA Informer ==
  ASSUME TypeOK, [Next]_vars
  PROVE  \/ DeliverBackups \/ Restart
         \/ UNCHANGED <<cache, backups, watch, used, clock>>
         \/ UNCHANGED cache /\ watch' = Append(watch, backups')
<1> USE DEF apiVars, userVars, cacheVars
<1>1. CASE \/ \E n \in Names : \/ Begin(n) \/ DeliverJob(n) \/ DeliverCron(n) \/ DeleteJob(n)
                               \/ Collect(n) \/ UpgradeTakesName(n) \/ CronRuns(n)
                               \/ GraceEnds(n)
           \/ \E i \in Instances : DeliverInstance(i)
           \/ \E i \in Instances, state \in InstanceStates : SetInstance(i, state)
           \/ \E n \in Names, outcome \in {"complete", "failed"} : JobFinishes(n, outcome)
  BY <1>1 DEF Begin, DeliverJob, DeliverCron, DeleteJob, Collect, UpgradeTakesName, CronRuns,
              GraceEnds, DeliverInstance, SetInstance, JobFinishes
<1>2. CASE \/ Decide \/ CreateJob \/ Monitor \/ ApplyCronJob \/ ApplyConflict
           \/ ConflictGivesUp \/ CallFails \/ UNCHANGED vars
  BY <1>2 DEF Decide, CreateJob, Monitor, ApplyCronJob, ApplyConflict, ConflictGivesUp,
              CallFails, vars
<1>3. CASE WriteStatus
  BY <1>3 DEF WriteStatus, ApplyWrite, Store
<1>4. CASE Unanswered
  BY <1>4 DEF Unanswered, ApplyWrite, Store
<1>5. CASE \E n \in Names : \E spec \in SpecsOf[n] : CreateBackup(n, spec) \/ EditSpec(n, spec)
  BY <1>5 DEF CreateBackup, EditSpec, Store
<1>6. CASE \E n \in Names : DeleteBackup(n)
  BY <1>6 DEF DeleteBackup, Store
<1> QED BY <1>1, <1>2, <1>3, <1>4, <1>5, <1>6 DEF Next, Reconcile

\* What a step does to the Job of a name: nothing, remove it, end it, or create it, for
\* the upgrade of that name or for the backup the worker holds.
LEMMA JobEffect ==
  ASSUME TypeOK, [Next]_vars, NEW n \in Names
  PROVE  /\ \/ jobs'[n] = jobs[n]
            \/ ~JobExists(jobs'[n])
            \/ /\ JobExists(jobs[n]) /\ jobs'[n].owner = jobs[n].owner
               /\ jobs'[n].state = "complete" => <<n, jobs[n].owner>> \in done'
            \/ n \in Shared /\ jobs'[n] = [owner |-> AnUpgrade, state |-> "active"]
            \/ /\ pc = "create" /\ n = key /\ ~JobExists(jobs[n])
               /\ jobs'[n] = [owner |-> bk.uid, state |-> "active"]
         /\ jobCache'[n] = jobCache[n] \/ jobCache'[n] = jobs[n]
<1> USE DEF apiVars, userVars, cacheVars
<1>0. jobs \in [Names -> Job] /\ jobCache \in [Names -> Job]
  BY DEF TypeOK
<1>1. CASE pc = "create" /\ jobs' = [jobs EXCEPT ![key] = JobAfterCreate] /\ UNCHANGED jobCache
  <2>1. CASE n = key
    BY <1>0, <1>1, <2>1 DEF JobAfterCreate
  <2>2. CASE n # key
    BY <1>0, <1>1, <2>2
  <2> QED BY <2>1, <2>2
<1>2. CASE CreateJob
  BY <1>1, <1>2 DEF CreateJob
<1>3. CASE Unanswered
  BY <1>1, <1>3 DEF Unanswered
<1>4. ASSUME NEW m \in Names, NEW o \in {"complete", "failed"}, JobFinishes(m, o)
      PROVE  /\ \/ jobs'[n] = jobs[n]
                \/ /\ JobExists(jobs[n]) /\ jobs'[n].owner = jobs[n].owner
                   /\ jobs'[n].state = "complete" => <<n, jobs[n].owner>> \in done'
             /\ jobCache' = jobCache
  <2>1. /\ JobExists(jobs[m]) /\ jobs' = [jobs EXCEPT ![m].state = o] /\ jobCache' = jobCache
        /\ o = "complete" => done' = done \cup {<<m, jobs[m].owner>>}
    BY <1>4 DEF JobFinishes
  <2>2. CASE n # m
    BY <1>0, <2>1, <2>2
  <2>3. CASE n = m
    <3>1. jobs[n] \in Job
      BY <1>0
    <3>2. jobs'[n] = [jobs[n] EXCEPT !.state = o]
      BY <1>0, <2>1, <2>3
    <3>3. jobs'[n].owner = jobs[n].owner /\ jobs'[n].state = o
      BY <3>1, <3>2 DEF Job
    <3> QED BY <2>1, <2>3, <3>3
  <2> QED BY <2>2, <2>3
<1>5. ASSUME NEW m \in Names, DeleteJob(m) \/ Collect(m)
      PROVE  /\ jobs'[n] = jobs[n] \/ ~JobExists(jobs'[n])
             /\ jobCache' = jobCache
  <2>1. /\ jobs' = jobs \/ jobs' = [jobs EXCEPT ![m] = NoJob]
        /\ jobCache' = jobCache
    BY <1>5 DEF DeleteJob, Collect
  <2>2. ~JobExists(NoJob)
    BY DEF JobExists, NoJob
  <2> QED BY <1>0, <2>1, <2>2
<1>6. ASSUME NEW m \in Names, DeliverJob(m)
      PROVE  /\ jobs' = jobs
             /\ jobCache'[n] = jobCache[n] \/ jobCache'[n] = jobs[n]
  BY <1>0, <1>6 DEF DeliverJob
<1>7. ASSUME NEW m \in Names, UpgradeTakesName(m)
      PROVE  /\ \/ jobs'[n] = jobs[n]
                \/ n \in Shared /\ jobs'[n] = [owner |-> AnUpgrade, state |-> "active"]
             /\ jobCache' = jobCache
  BY <1>0, <1>7 DEF UpgradeTakesName
<1>8. CASE Restart
  BY <1>8 DEF Restart
<1>9. CASE \/ \E m \in Names : \/ Begin(m) \/ DeliverCron(m) \/ CronRuns(m) \/ GraceEnds(m)
                               \/ DeleteBackup(m)
           \/ \E m \in Names : \E spec \in SpecsOf[m] : CreateBackup(m, spec) \/ EditSpec(m, spec)
           \/ \E i \in Instances : DeliverInstance(i)
           \/ \E i \in Instances, state \in InstanceStates : SetInstance(i, state)
  BY <1>9 DEF Begin, DeliverCron, CronRuns, GraceEnds, DeleteBackup, CreateBackup, EditSpec,
              DeliverInstance, SetInstance
<1>10. CASE \/ Decide \/ Monitor \/ ApplyCronJob \/ WriteStatus \/ ApplyConflict
            \/ ConflictGivesUp \/ CallFails \/ DeliverBackups \/ UNCHANGED vars
  BY <1>10 DEF Decide, Monitor, ApplyCronJob, WriteStatus, ApplyConflict, ConflictGivesUp,
               CallFails, DeliverBackups, vars
<1> QED BY <1>2, <1>3, <1>4, <1>5, <1>6, <1>7, <1>8, <1>9, <1>10 DEF Next, Reconcile

LEMMA JobOwnedStep ==
  ASSUME TypeOK, OwnersInv, [Next]_vars, NEW n \in Names
  PROVE  JobOwnedAfter(n, jobs'[n]) /\ JobOwnedAfter(n, jobCache'[n])
<1>1. JobOwnedAfter(n, jobs[n]) /\ JobOwnedAfter(n, jobCache[n])
  <2>1. jobs[n] \in Job /\ jobCache[n] \in Job /\ JobOwned(n, jobs[n])
        /\ JobOwned(n, jobCache[n])
    BY DEF TypeOK, OwnersInv
  <2> QED BY <2>1, CopiesKept
<1>2. JobOwnedAfter(n, jobs'[n])
  <2>1. CASE jobs'[n] = jobs[n]
    BY <1>1, <2>1
  <2>2. CASE ~JobExists(jobs'[n])
    BY <2>2 DEF JobOwnedAfter
  <2>3. CASE /\ JobExists(jobs[n]) /\ jobs'[n].owner = jobs[n].owner
             /\ jobs'[n].state = "complete" => <<n, jobs[n].owner>> \in done'
    BY <1>1, <2>3 DEF JobOwnedAfter
  <2>4. CASE n \in Shared /\ jobs'[n] = [owner |-> AnUpgrade, state |-> "active"]
    BY <2>4 DEF JobOwnedAfter, OwnedAfter
  <2>5. CASE /\ pc = "create" /\ n = key
             /\ jobs'[n] = [owner |-> bk.uid, state |-> "active"]
    <3>1. bk.uid \in Nat /\ Owned(n, bk.uid)
      BY <2>5 DEF TypeOK, Backup, OwnersInv, WorkerOwned
    <3>2. OwnedAfter(n, bk.uid)
      BY <3>1, OwnedKept
    <3> QED BY <2>5, <3>2 DEF JobOwnedAfter
  <2> QED BY <2>1, <2>2, <2>3, <2>4, <2>5, JobEffect
<1> QED BY <1>1, <1>2, JobEffect

\* The copies of the informer stay copies of backups that have, or had, the names.
LEMMA CopyOwnedStep ==
  ASSUME TypeOK, OwnersInv, [Next]_vars
  PROVE  /\ CopyOwnedAfter(backups') /\ CopyOwnedAfter(cache')
         /\ \A i \in 1 .. Len(watch') : CopyOwnedAfter(watch'[i])
<1>0. /\ backups \in Snapshot /\ cache \in Snapshot /\ watch \in Seq(Snapshot)
      /\ CopyOwned(backups) /\ CopyOwned(cache)
      /\ \A i \in 1 .. Len(watch) : watch[i] \in Snapshot /\ CopyOwned(watch[i])
  BY DEF TypeOK, OwnersInv, Snapshot
<1>1. CopyOwnedAfter(backups) /\ CopyOwnedAfter(cache)
  BY <1>0, CopiesKept
<1>2. \A i \in 1 .. Len(watch) : CopyOwnedAfter(watch[i])
  BY <1>0, CopiesKept
<1>3. CopyOwnedAfter(backups')
  <2> SUFFICES ASSUME NEW n \in Names, Exists(backups'[n]) PROVE OwnedAfter(n, backups'[n].uid)
    BY DEF CopyOwnedAfter
  <2>1. CASE backups'[n] = backups[n]
    BY <1>1, <2>1 DEF CopyOwnedAfter
  <2>2. CASE Writes(n) \/ Edits(n)
    <3>1. backups'[n].uid = backups[n].uid
      BY <2>2 DEF Writes, Edits
    <3> QED BY <1>1, <3>1 DEF CopyOwnedAfter, Exists
  <2>3. CASE Creates(n)
    <3>1. backups'[n].uid = nextUid /\ nextUid' = nextUid + 1 /\ n \in used'
      BY <2>3 DEF Creates
    <3>2. nextUid < nextUid + 1
      BY BoundsAssumption DEF TypeOK
    <3> QED BY <3>1, <3>2 DEF OwnedAfter
  <2>4. CASE Deletes(n)
    <3>1. Absent.uid = 0
      BY DEF Absent
    <3> QED BY <2>4, <3>1 DEF Deletes, Exists
  <2> QED BY <2>1, <2>2, <2>3, <2>4, Writers
<1>4. CASE DeliverBackups
  <2>1. watch # <<>> /\ cache' = Head(watch) /\ watch' = Tail(watch)
    BY <1>4 DEF DeliverBackups
  <2>2. /\ cache' = watch[1] /\ 1 \in 1 .. Len(watch)
        /\ \A i \in 1 .. Len(watch') : watch'[i] = watch[i + 1] /\ i + 1 \in 1 .. Len(watch)
    BY <1>0, <2>1
  <2> QED BY <1>2, <1>3, <2>2
<1>5. CASE Restart
  <2>1. cache' = backups /\ watch' = <<>>
    BY <1>5 DEF Restart
  <2>2. 1 .. Len(watch') = {}
    BY <2>1
  <2> QED BY <1>1, <1>3, <2>1, <2>2
<1>6. CASE UNCHANGED <<cache, backups, watch, used, clock>>
  BY <1>1, <1>2, <1>3, <1>6
<1>7. CASE UNCHANGED cache /\ watch' = Append(watch, backups')
  <2>1. /\ Len(watch') = Len(watch) + 1 /\ Len(watch) \in Nat
        /\ \A i \in 1 .. Len(watch) : watch'[i] = watch[i]
        /\ watch'[Len(watch) + 1] = backups'
    BY <1>0, <1>7
  <2> QED BY <1>1, <1>2, <1>3, <1>7, <2>1
<1> QED BY <1>4, <1>5, <1>6, <1>7, Informer

\* How a step moves the worker.
Rests == pc' = "idle"
Stays == UNCHANGED worker
Reads(n) ==
    /\ n \in Names /\ Exists(cache[n]) /\ pc' = FirstStep(cache[n]) /\ key' = n /\ bk' = cache[n]
    /\ UNCHANGED <<backups, cache, used, clock, nextUid, done>>
Goes ==
    /\ pc # "idle" /\ UNCHANGED <<key, bk, backups, cache, used, clock, nextUid, done>>
    /\ \/ /\ pc = "decide" /\ pc' = "write" /\ write'.phase \in {"Failed", "Pending"}
       \/ /\ pc = "decide" /\ pc' = "create" /\ OneShot(bk.spec) /\ ~Blocked(key, bk, cache)
       \/ /\ pc = "decide" /\ pc' = "apply" /\ ~OneShot(bk.spec)
       \/ /\ pc = "create" /\ pc' = "write" /\ write'.phase = "Running"
       \/ /\ pc = "monitor" /\ pc' = "write" /\ write'.phase = "Failed"
       \/ /\ pc = "monitor" /\ pc' = "write" /\ write'.phase = "Succeeded"
          /\ JobExists(jobCache[key]) /\ jobCache[key].state = "complete"
       \/ /\ pc = "apply" /\ pc' = "write" /\ write'.phase \in {"Failed", "Scheduled"}

LEMMA WorkerMoves ==
  ASSUME TypeOK, [Next]_vars
  PROVE  Rests \/ Stays \/ Goes \/ \E n \in Names : Reads(n)
<1> USE DEF apiVars, userVars, cacheVars
<1>1. ASSUME NEW n \in Names, Begin(n) PROVE Stays \/ Reads(n)
  BY <1>1 DEF Begin, Stays, Reads
<1>2. CASE Decide
  <2>1. pc = "decide" /\ UNCHANGED <<backups, cache, used, clock, nextUid, done>>
    BY <1>2 DEF Decide
  <2>2. CASE \E p \in {"Failed", "Pending"}, r \in Reason : PrepareWrite(p, r)
    <3>1. PICK p \in {"Failed", "Pending"}, r \in Reason : PrepareWrite(p, r)
      BY <2>2
    <3>2. pc' = "write" /\ write'.phase = p /\ UNCHANGED <<key, bk>>
      BY <3>1 DEF PrepareWrite
    <3> QED BY <2>1, <3>2 DEF Goes
  <2>3. CASE /\ ~(OneShot(bk.spec) /\ Blocked(key, bk, cache))
             /\ GoTo(IF OneShot(bk.spec) THEN "create" ELSE "apply")
    <3>1. CASE OneShot(bk.spec)
      BY <2>1, <2>3, <3>1 DEF Goes, GoTo
    <3>2. CASE ~OneShot(bk.spec)
      BY <2>1, <2>3, <3>2 DEF Goes, GoTo
    <3> QED BY <3>1, <3>2
  <2>4. \/ PrepareWrite("Failed", "InvalidSpec") \/ PrepareWrite("Pending", "InstanceNotFound")
        \/ PrepareWrite("Pending", "Pending")
        \/ /\ ~(OneShot(bk.spec) /\ Blocked(key, bk, cache))
           /\ GoTo(IF OneShot(bk.spec) THEN "create" ELSE "apply")
    BY <1>2 DEF Decide
  <2> QED BY <2>2, <2>3, <2>4 DEF Reason
<1>3. CASE CreateJob
  <2>1. /\ pc = "create" /\ UNCHANGED <<key, bk, backups, cache, used, clock, nextUid, done>>
        /\ pc' = "write" /\ write'.phase = "Running"
    BY <1>3 DEF CreateJob, PrepareWrite
  <2> QED BY <2>1 DEF Goes
<1>4. CASE Monitor
  <2>1. pc = "monitor" /\ UNCHANGED <<backups, cache, used, clock, nextUid, done>>
    BY <1>4 DEF Monitor
  <2>2. CASE PrepareWrite("Failed", "JobFailed")
    <3>1. pc' = "write" /\ write'.phase = "Failed" /\ UNCHANGED <<key, bk>>
      BY <2>2 DEF PrepareWrite
    <3> QED BY <2>1, <3>1 DEF Goes
  <2>3. CASE /\ JobExists(jobCache[key]) /\ jobCache[key].state = "complete"
             /\ PrepareWrite("Succeeded", "Complete")
    <3>1. pc' = "write" /\ write'.phase = "Succeeded" /\ UNCHANGED <<key, bk>>
      BY <2>3 DEF PrepareWrite
    <3> QED BY <2>1, <2>3, <3>1 DEF Goes
  <2>4. CASE Return(TRUE)
    BY <2>4 DEF Return, Rests
  <2> QED BY <1>4, <2>2, <2>3, <2>4 DEF Monitor
<1>5. CASE ApplyCronJob
  <2>1. pc = "apply" /\ UNCHANGED <<backups, cache, used, clock, nextUid, done>>
    BY <1>5 DEF ApplyCronJob
  <2>2. (\E c : PrepareScheduled(c)) \/ PrepareWrite("Failed", "CronJobRejected")
    BY <1>5 DEF ApplyCronJob
  <2>3. pc' = "write" /\ write'.phase \in {"Failed", "Scheduled"} /\ UNCHANGED <<key, bk>>
    BY <2>2 DEF PrepareScheduled, PrepareWrite
  <2> QED BY <2>1, <2>3 DEF Goes
<1>6. CASE WriteStatus \/ ApplyConflict \/ ConflictGivesUp \/ CallFails \/ Unanswered \/ Restart
  BY <1>6 DEF WriteStatus, ApplyConflict, ConflictGivesUp, CallFails, Unanswered, Restart,
              Return, Rests
<1>7. CASE DeliverBackups \/ (\E n \in Names : \/ DeliverJob(n) \/ DeliverCron(n)
                                               \/ DeleteJob(n) \/ Collect(n)
                                               \/ UpgradeTakesName(n) \/ CronRuns(n)
                                               \/ GraceEnds(n) \/ DeleteBackup(n))
  BY <1>7 DEF DeliverBackups, DeliverJob, DeliverCron, DeleteJob, Collect,
              UpgradeTakesName, CronRuns, GraceEnds, DeleteBackup, Stays
<1>8. CASE \/ \E i \in Instances : DeliverInstance(i)
           \/ \E i \in Instances, state \in InstanceStates : SetInstance(i, state)
           \/ \E n \in Names : \E spec \in SpecsOf[n] : CreateBackup(n, spec) \/ EditSpec(n, spec)
           \/ \E n \in Names, outcome \in {"complete", "failed"} : JobFinishes(n, outcome)
           \/ UNCHANGED vars
  BY <1>8 DEF DeliverInstance, SetInstance, CreateBackup, EditSpec, JobFinishes, vars, Stays
<1> QED BY <1>1, <1>2, <1>3, <1>4, <1>5, <1>6, <1>7, <1>8 DEF Next, Reconcile

LEMMA WorkerOwnedStep ==
  ASSUME TypeOK, OwnersInv, [Next]_vars
  PROVE  WorkerOwned'
<1>0. pc # "idle" =>
        /\ key \in Names /\ Exists(bk) /\ OwnedAfter(key, bk.uid) /\ done \subseteq done'
        /\ \A owner \in 1 .. MaxUid + 1 : Owned(key, owner) => OwnedAfter(key, owner)
  <2> SUFFICES ASSUME pc # "idle"
               PROVE  /\ key \in Names /\ Exists(bk) /\ OwnedAfter(key, bk.uid)
                      /\ done \subseteq done'
                      /\ \A owner \in 1 .. MaxUid + 1 :
                           Owned(key, owner) => OwnedAfter(key, owner)
    OBVIOUS
  <2>1. key \in Names /\ Exists(bk) /\ bk.uid \in Nat /\ Owned(key, bk.uid)
    BY DEF TypeOK, Backup, OwnersInv, WorkerOwned
  <2>2. 1 .. MaxUid + 1 \subseteq Nat
    BY BoundsAssumption
  <2> QED BY <2>1, <2>2, OwnedKept
<1>1. CASE Rests
  BY <1>1 DEF Rests, WorkerOwned
<1>2. CASE Stays
  <2>1. UNCHANGED <<pc, key, bk, write>>
    BY <1>2 DEF Stays, worker
  <2> QED BY <1>0, <2>1 DEF OwnersInv, WorkerOwned, Owned, OwnedAfter
<1>3. ASSUME NEW n \in Names, Reads(n) PROVE WorkerOwned'
  <2>1. pc' # "write" /\ key' = n /\ bk' = cache[n] /\ Exists(cache[n])
    BY <1>3 DEF Reads, FirstStep
  <2>2. OwnedAfter(n, cache[n].uid)
    <3>1. cache \in Snapshot /\ CopyOwned(cache)
      BY DEF TypeOK, Snapshot, OwnersInv
    <3> QED BY <2>1, <3>1, CopiesKept DEF CopyOwnedAfter
  <2> QED BY <2>1, <2>2 DEF WorkerOwned, Owned, OwnedAfter
<1>4. CASE Goes
  <2>1. pc # "idle" /\ UNCHANGED <<key, bk, backups, used, nextUid, done>>
    BY <1>4 DEF Goes
  <2>2. ASSUME pc' = "write", write'.phase = "Succeeded"
        PROVE  \E owner \in 1 .. MaxUid + 1 : <<key, owner>> \in done /\ Owned(key, owner)
    <3>1. JobExists(jobCache[key]) /\ jobCache[key].state = "complete"
      BY <1>4, <2>2 DEF Goes
    <3>2. key \in Names /\ jobCache[key] \in Job /\ JobOwned(key, jobCache[key])
      BY <1>0, <2>1 DEF TypeOK, OwnersInv
    <3>3. jobCache[key].owner \in 1 .. MaxUid + 1
      BY <3>1, <3>2, BoundsAssumption DEF Job, JobExists
    <3> QED BY <3>1, <3>2, <3>3 DEF JobOwned
  <2> QED BY <1>0, <2>1, <2>2 DEF WorkerOwned, Owned, OwnedAfter
<1> QED BY <1>1, <1>2, <1>3, <1>4, WorkerMoves

LEMMA SucceededStep ==
  ASSUME TypeOK, OwnersInv, [Next]_vars
  PROVE  SucceededRanJob'
<1> DEFINE Stands(n, uid, ran) ==
      \E owner \in 1 .. MaxUid + 1 :
          /\ <<n, owner>> \in ran
          /\ \/ owner = uid
             \/ owner = AnUpgrade /\ n \in Shared
             \/ owner < uid /\ n \in Reuse
<1> SUFFICES ASSUME NEW n \in Names, backups'[n].phase = "Succeeded"
             PROVE  Stands(n, backups'[n].uid, done')
  BY DEF SucceededRanJob
<1>0. done \subseteq done'
  BY Writers DEF Writes, Edits, Creates, Deletes
<1>1. CASE backups'[n].phase = backups[n].phase /\ backups'[n].uid = backups[n].uid
  <2>1. Stands(n, backups[n].uid, done)
    BY <1>1 DEF OwnersInv, SucceededRanJob
  <2> QED BY <1>0, <1>1, <2>1
<1>2. CASE Writes(n)
  <2>1. /\ n = key /\ pc = "write" /\ write.phase = "Succeeded" /\ Exists(backups[n])
        /\ backups'[n].uid = backups[n].uid
    BY <1>2 DEF Writes, WriteSkipped
  <2>2. PICK owner \in 1 .. MaxUid + 1 : <<n, owner>> \in done /\ Owned(n, owner)
    BY <2>1 DEF OwnersInv, WorkerOwned
  <2>3. \/ owner = backups[n].uid
        \/ owner = AnUpgrade /\ n \in Shared
        \/ owner < backups[n].uid /\ n \in Reuse
    BY <2>1, <2>2 DEF Owned
  <2> QED BY <1>0, <2>1, <2>2, <2>3
<1>3. CASE Edits(n)
  BY <1>1, <1>3 DEF Edits
<1>4. CASE Creates(n)
  BY <1>4 DEF Creates
<1>5. CASE Deletes(n)
  <2>1. Absent.phase = ""
    BY DEF Absent
  <2> QED BY <1>5, <2>1 DEF Deletes
<1> QED BY <1>1, <1>2, <1>3, <1>4, <1>5, Writers

LEMMA OwnersInit == Init => OwnersInv
<1> SUFFICES ASSUME Init PROVE OwnersInv OBVIOUS
<1>1. /\ backups = [n \in Names |-> Absent] /\ cache = backups /\ watch = <<>>
      /\ jobs = [n \in Names |-> NoJob] /\ jobCache = jobs /\ pc = "idle"
  BY DEF Init
<1>2. ~Exists(Absent) /\ ~JobExists(NoJob) /\ Absent.phase = ""
  BY DEF Exists, Absent, JobExists, NoJob
<1>3. \A n \in Names : backups[n] = Absent /\ jobs[n] = NoJob
  BY <1>1
<1>4. 1 .. Len(watch) = {}
  BY <1>1
<1>5. CopyOwned(backups) /\ CopyOwned(cache) /\ SucceededRanJob /\ WorkerOwned
  BY <1>1, <1>2, <1>3 DEF CopyOwned, SucceededRanJob, WorkerOwned
<1>6. \A n \in Names : JobOwned(n, jobs[n]) /\ JobOwned(n, jobCache[n])
  BY <1>1, <1>2, <1>3 DEF JobOwned
<1> QED BY <1>4, <1>5, <1>6 DEF OwnersInv

LEMMA OwnersStep == ASSUME TypeOK, OwnersInv, [Next]_vars PROVE OwnersInv'
<1>1. CopyOwned(backups)' /\ CopyOwned(cache)'
  BY CopyOwnedStep DEF CopyOwned, CopyOwnedAfter, Owned, OwnedAfter
<1>2. (\A i \in 1 .. Len(watch) : CopyOwned(watch[i]))'
  BY CopyOwnedStep DEF CopyOwned, CopyOwnedAfter, Owned, OwnedAfter
<1>3. (\A n \in Names : JobOwned(n, jobs[n]) /\ JobOwned(n, jobCache[n]))'
  BY JobOwnedStep DEF JobOwned, JobOwnedAfter, Owned, OwnedAfter
<1>4. WorkerOwned' /\ SucceededRanJob'
  BY WorkerOwnedStep, SucceededStep
<1> QED BY <1>1, <1>2, <1>3, <1>4 DEF OwnersInv

\* A one-shot backup reported Succeeded stands for a Job that ran to completion: its own,
\* that of an earlier backup of the name, or that of the upgrade that shares it, although
\* Jobs are adopted and looked up by name, from caches.
THEOREM SuccessRanAJob == Spec => []SucceededRanJob
<1>1. TypeOK /\ OwnersInv /\ [Next]_vars => OwnersInv'
  BY OwnersStep
<1>2. OwnersInv => SucceededRanJob
  BY DEF OwnersInv
<1> QED BY <1>1, <1>2, OwnersInit, TypeInit, TypeStep, PTL DEF Spec

-----------------------------------------------------------------------------
(* The one-shot backups form a queue. *)

One(o) == Exists(o) /\ OneShot(o.spec)
Siblings(n, m) == n # m /\ InstanceOf[n] = InstanceOf[m]

\* b is the same backup as a, later.
Evolves(a, b) ==
    /\ a.created = b.created /\ (OneShot(a.spec) <=> OneShot(b.spec))
    /\ OneShot(a.spec) =>
         /\ backupPhaseTerminal(a.phase) => backupPhaseTerminal(b.phase)
         /\ a.phase = "Running" => b.phase \in {"Running", "Succeeded", "Failed"}

\* s is an earlier state of the backups `all`: what it holds has only moved on since, and
\* it holds every one-shot backup of `all` that is older than one it holds.
Past(s, all) ==
    \A n \in Names : Exists(s[n]) =>
        /\ Exists(all[n]) => Evolves(s[n], all[n])
        /\ \A m \in Names : One(s[n]) /\ One(all[m]) /\ all[m].created < s[n].created
                              => One(s[m])

\* The backups in s were created before now, and only scheduled ones are Scheduled.
Known(s) ==
    \A n \in Names : Exists(s[n]) =>
        /\ n \in used /\ s[n].created <= clock
        /\ OneShot(s[n].spec) => s[n].phase # "Scheduled"

\* The informer's copy, and what it still has to deliver, in order.
CacheTrails ==
    /\ Known(cache) /\ Past(cache, backups)
    /\ \A i \in 1 .. Len(watch) : Known(watch[i]) /\ Past(watch[i], backups)
    /\ \A n \in Names : Exists(backups[n]) =>
         /\ Exists(cache[n]) => \A i \in 1 .. Len(watch) : Exists(watch[i][n])
         /\ \A i, j \in 1 .. Len(watch) :
              i < j /\ Exists(watch[i][n]) => Exists(watch[j][n])

\* No unfinished one-shot backup is older than n on its instance.
Oldest(n, created) ==
    \A m \in Names :
        Siblings(n, m) /\ One(backups[m]) /\ backups[m].created < created
          => backupPhaseTerminal(backups[m].phase)

\* What the worker decided on still holds when it acts.
DecisionHolds ==
    pc # "idle" =>
      /\ key \in used /\ bk.created <= clock
      /\ pc = "write" => write.phase # ""
      /\ pc = "apply" \/ (pc = "write" /\ write.phase = "Scheduled") => ~OneShot(bk.spec)
      /\ pc = "monitor" \/ (pc = "write" /\ write.phase = "Succeeded") => bk.phase = "Running"
      /\ Exists(backups[key]) =>
           /\ Exists(cache[key]) /\ Evolves(bk, backups[key])
           /\ pc = "create" \/ (pc = "write" /\ write.phase = "Running")
                => Oldest(key, bk.created)

\* The running backup is the oldest of its instance, and the only one running.
RunningIsOldest ==
    /\ Known(backups)
    /\ \A n \in Names : ~Exists(backups[n]) => backups[n] = Absent
    /\ \A n, m \in Names : n # m /\ One(backups[n]) /\ One(backups[m])
                             => backups[n].created # backups[m].created
    /\ \A n, m \in Names :
         /\ Siblings(n, m) /\ One(backups[n]) /\ backups[n].phase = "Running"
         /\ One(backups[m]) /\ ~backupPhaseTerminal(backups[m].phase)
         => backups[m].phase # "Running" /\ backups[n].created < backups[m].created

QueueInv == CacheTrails /\ DecisionHolds /\ RunningIsOldest

\* A later version may evolve further.
LEMMA EvolvesTrans ==
  ASSUME NEW a \in Backup, NEW b \in Backup, NEW c \in Backup,
         Evolves(a, b), Evolves(b, c)
  PROVE  Evolves(a, c)
<1>1. /\ a.phase \in Phase /\ b.phase \in Phase /\ c.phase \in Phase
  BY DEF Backup
<1> QED BY <1>1 DEF Evolves, backupPhaseTerminal, Phase

LEMMA EvolvesRefl == \A a : Evolves(a, a)
  BY DEF Evolves

\* An earlier state stays one when a backup moves on,
LEMMA PastOfMove ==
  ASSUME NEW s \in Snapshot, NEW u \in Snapshot, NEW v \in Snapshot, Past(s, u),
         NEW n \in Names, \A m \in Names \ {n} : v[m] = u[m],
         Exists(v[n]) <=> Exists(u[n]), Evolves(u[n], v[n])
  PROVE  Past(s, v)
<1> SUFFICES ASSUME NEW k \in Names, Exists(s[k])
             PROVE  /\ Exists(v[k]) => Evolves(s[k], v[k])
                    /\ \A m \in Names : One(s[k]) /\ One(v[m]) /\ v[m].created < s[k].created
                                          => One(s[m])
  BY DEF Past
<1>1. Exists(v[k]) => Evolves(s[k], v[k])
  BY EvolvesTrans DEF Past, Snapshot
<1>2. \A m \in Names : One(v[m]) => One(u[m]) /\ v[m].created = u[m].created
  BY DEF Evolves, One
<1> QED BY <1>1, <1>2 DEF Past

\* when one is created, later than everything in it or scheduled,
LEMMA PastOfCreate ==
  ASSUME NEW s \in Snapshot, NEW u \in Snapshot, NEW v \in Snapshot, Past(s, u),
         NEW n \in Names, \A m \in Names \ {n} : v[m] = u[m], ~Exists(s[n]),
         One(v[n]) => \A m \in Names : Exists(s[m]) => s[m].created < v[n].created
  PROVE  Past(s, v)
<1> SUFFICES ASSUME NEW k \in Names, Exists(s[k])
             PROVE  /\ Exists(v[k]) => Evolves(s[k], v[k])
                    /\ \A m \in Names : One(s[k]) /\ One(v[m]) /\ v[m].created < s[k].created
                                          => One(s[m])
  BY DEF Past
<1>1. s[k].created \in Nat /\ v[n].created \in Nat /\ k # n
      /\ (One(v[n]) => s[k].created < v[n].created)
  BY DEF Snapshot, Backup
<1>2. One(v[n]) => ~(v[n].created < s[k].created)
  BY <1>1
<1> QED BY <1>1, <1>2 DEF Past

\* and when one is deleted.
LEMMA PastOfDelete ==
  ASSUME NEW s \in Snapshot, NEW u \in Snapshot, NEW v \in Snapshot, Past(s, u),
         NEW n \in Names, \A m \in Names \ {n} : v[m] = u[m], ~Exists(v[n])
  PROVE  Past(s, v)
  BY DEF Past, One

LEMMA PastOfItself == ASSUME NEW u \in Snapshot PROVE Past(u, u)
  BY EvolvesRefl DEF Past

\* A write to the API server leaves the informer behind, not ahead.
LEMMA StoreTrails ==
  ASSUME TypeOK, TypeOK', CacheTrails, Known(backups)', UNCHANGED cache,
         watch' = Append(watch, backups'),
         used \subseteq used', clock <= clock',
         \A s \in Snapshot : Known(s) /\ Past(s, backups) => Past(s, backups'),
         \A n \in Names : Exists(backups'[n]) /\ ~Exists(backups[n]) => n \notin used
  PROVE  CacheTrails'
<1>1. /\ watch \in Seq(Snapshot) /\ cache \in Snapshot /\ backups \in Snapshot
      /\ backups' \in Snapshot /\ clock \in Nat /\ clock' \in Nat
  BY DEF TypeOK, Snapshot
<1>2. /\ Len(watch') = Len(watch) + 1 /\ Len(watch) \in Nat
      /\ \A i \in 1 .. Len(watch) : watch'[i] = watch[i] /\ watch[i] \in Snapshot
      /\ watch'[Len(watch) + 1] = backups'
  BY <1>1
<1> DEFINE KnownAfter(s) ==
      \A n \in Names : Exists(s[n]) =>
        /\ n \in used' /\ s[n].created <= clock'
        /\ OneShot(s[n].spec) => s[n].phase # "Scheduled"
<1>3. ASSUME NEW s \in Snapshot, Known(s) PROVE KnownAfter(s)
  <2> SUFFICES ASSUME NEW n \in Names, Exists(s[n])
               PROVE  /\ n \in used' /\ s[n].created <= clock'
                      /\ OneShot(s[n].spec) => s[n].phase # "Scheduled"
    OBVIOUS
  <2>1. n \in used' /\ (OneShot(s[n].spec) => s[n].phase # "Scheduled")
    BY <1>3 DEF Known
  <2>2. s[n].created \in Nat /\ s[n].created <= clock
    BY <1>3 DEF Known, Snapshot, Backup
  <2>3. s[n].created <= clock'
    BY <1>1, <2>2
  <2> QED BY <2>1, <2>3
<1>4. (Known(cache) /\ Past(cache, backups))'
  BY <1>1, <1>3 DEF CacheTrails, Known
<1>5. ASSUME NEW i \in 1 .. Len(watch')
      PROVE  KnownAfter(watch'[i]) /\ Past(watch'[i], backups')
  <2>1. CASE i \in 1 .. Len(watch)
    <3>1. Known(watch[i]) /\ Past(watch[i], backups) /\ watch[i] \in Snapshot
          /\ watch'[i] = watch[i]
      BY <1>2, <2>1 DEF CacheTrails
    <3> QED BY <1>3, <3>1
  <2>2. CASE i = Len(watch) + 1
    BY <1>1, <1>2, <2>2, PastOfItself DEF Known
  <2> QED BY <1>2, <2>1, <2>2
<1>6. ASSUME NEW n \in Names, Exists(backups'[n])
      PROVE  /\ Exists(cache[n]) => \A i \in 1 .. Len(watch') : Exists(watch'[i][n])
             /\ \A i, j \in 1 .. Len(watch') :
                  i < j /\ Exists(watch'[i][n]) => Exists(watch'[j][n])
  <2>1. CASE Exists(backups[n])
    BY <1>2, <1>6, <2>1 DEF CacheTrails
  <2>2. CASE ~Exists(backups[n])
    <3>1. n \notin used BY <1>6, <2>2
    <3>2. ~Exists(cache[n]) BY <3>1 DEF CacheTrails, Known
    <3>3. \A i \in 1 .. Len(watch) : ~Exists(watch'[i][n])
      BY <1>2, <3>1 DEF CacheTrails, Known
    <3> QED BY <1>2, <3>2, <3>3
  <2> QED BY <2>1, <2>2
<1> QED BY <1>4, <1>5, <1>6 DEF CacheTrails, Known

\* A delivery brings the informer to a later state.
LEMMA DeliverTrails ==
  ASSUME TypeOK, CacheTrails, DeliverBackups
  PROVE  CacheTrails' /\ \A n \in Names : Exists(backups[n]) /\ Exists(cache[n])
                                            => Exists(cache'[n])
<1>1. watch \in Seq(Snapshot) /\ watch # <<>>
  BY DEF TypeOK, Snapshot, DeliverBackups
<1>2. /\ Len(watch) \in Nat \ {0} /\ Len(watch') = Len(watch) - 1 /\ cache' = watch[1]
      /\ \A i \in 1 .. Len(watch') : watch'[i] = watch[i + 1] /\ i + 1 \in 1 .. Len(watch)
      /\ 1 \in 1 .. Len(watch)
  BY <1>1 DEF DeliverBackups
<1>3. UNCHANGED <<backups, used, clock>>
  BY DEF DeliverBackups, userVars
<1>4. (Known(cache) /\ Past(cache, backups))'
  BY <1>2, <1>3 DEF CacheTrails, Known
<1>5. \A i \in 1 .. Len(watch') : (Known(watch'[i]) /\ Past(watch'[i], backups))
  BY <1>2, <1>3 DEF CacheTrails
<1>6. ASSUME NEW n \in Names, Exists(backups[n])
      PROVE  /\ Exists(cache'[n]) => \A i \in 1 .. Len(watch') : Exists(watch'[i][n])
             /\ \A i, j \in 1 .. Len(watch') :
                  i < j /\ Exists(watch'[i][n]) => Exists(watch'[j][n])
             /\ Exists(cache[n]) => Exists(cache'[n])
  BY <1>2, <1>6 DEF CacheTrails
<1> QED BY <1>3, <1>4, <1>5, <1>6 DEF CacheTrails, Known

\* The steps that write to the API server, when no name is used again.
Moves(n) ==
    /\ n \in Names /\ Exists(backups[n]) /\ Exists(backups'[n])
    /\ Evolves(backups[n], backups'[n])
    /\ \A m \in Names \ {n} : backups'[m] = backups[m]
    /\ UNCHANGED <<used, clock>>

Arrives(n) ==
    /\ n \in Names \ used /\ ~Exists(backups[n]) /\ Exists(backups'[n])
    /\ backups'[n].phase = "" /\ backups'[n].created = clock'
    /\ clock' = IF OneShot(backups'[n].spec) THEN clock + 1 ELSE clock
    /\ \A m \in Names \ {n} : backups'[m] = backups[m]
    /\ used' = used \cup {n}

Leaves(n) ==
    /\ n \in Names /\ Exists(backups[n]) /\ ~Exists(backups'[n])
    /\ backups'[n] = Absent
    /\ \A m \in Names \ {n} : backups'[m] = backups[m]
    /\ UNCHANGED <<used, clock>>

\* A one-shot backup starts only as the oldest, succeeds only after it started, ends
\* once and is never Scheduled.
Rightly(n) ==
    OneShot(backups[n].spec) =>
      /\ backupPhaseTerminal(backups[n].phase) => backups'[n].phase = backups[n].phase
      /\ backups'[n].phase = "Running" =>
           backups[n].phase = "Running" \/ Oldest(n, backups[n].created)
      /\ backups'[n].phase = "Succeeded" => backups[n].phase \notin {"", "Pending"}
      /\ backups'[n].phase # "Scheduled"

\* A status write moves the backup on, and rightly.
LEMMA WriteMoves ==
  ASSUME TypeOK, TypeOK', QueueInv, NEW n \in Names, Writes(n),
         \A m \in Names \ {n} : backups'[m] = backups[m]
  PROVE  Moves(n) /\ Rightly(n)
<1>1. /\ n = key /\ pc = "write" /\ Exists(backups[n]) /\ Exists(backups'[n])
      /\ backups'[n].created = backups[n].created /\ backups'[n].spec = backups[n].spec
      /\ backups'[n].phase = write.phase /\ UNCHANGED <<used, clock>>
  BY DEF Writes, WriteSkipped, Exists
<1>2. /\ OneShot(backups[n].spec) => ~backupPhaseTerminal(backups[n].phase)
      /\ ~(write.phase = "Pending" /\ backups[n].phase = "Running")
  BY DEF Writes, WriteSkipped
<1>3. /\ write.phase # "" /\ Evolves(bk, backups[n])
      /\ write.phase = "Scheduled" => ~OneShot(bk.spec)
      /\ write.phase = "Succeeded" => bk.phase = "Running"
      /\ write.phase = "Running" => Oldest(n, bk.created)
  BY <1>1 DEF QueueInv, DecisionHolds
<1>4. OneShot(backups[n].spec) => write.phase # "Scheduled"
  BY <1>3 DEF Evolves
<1>5. write.phase = "Running" => Oldest(n, backups[n].created)
  BY <1>3 DEF Evolves
<1>6. OneShot(backups[n].spec) /\ write.phase = "Succeeded"
        => backups[n].phase \notin {"", "Pending"}
  BY <1>3 DEF Evolves
<1>7. write.phase \in Phase
  BY DEF TypeOK
<1>8. OneShot(backups[n].spec) /\ backups[n].phase = "Running"
        => write.phase \in {"Running", "Succeeded", "Failed"}
  BY <1>2, <1>3, <1>4, <1>7 DEF Phase
<1>9. Evolves(backups[n], backups'[n])
  BY <1>1, <1>2, <1>8 DEF Evolves
<1>10. Moves(n)
  BY <1>1, <1>9 DEF Moves
<1>11. Rightly(n)
  BY <1>1, <1>2, <1>4, <1>5, <1>6 DEF Rightly
<1> QED BY <1>10, <1>11

\* So does an edit of a scheduled one.
LEMMA EditMoves ==
  ASSUME NEW n \in Names, Edits(n), \A m \in Names \ {n} : backups'[m] = backups[m]
  PROVE  Moves(n) /\ Rightly(n)
<1>1. Exists(backups'[n]) /\ Evolves(backups[n], backups'[n])
  BY DEF Edits, Evolves, Exists
<1> QED BY <1>1 DEF Edits, Moves, Rightly

LEMMA WriteKinds ==
  ASSUME ~Ties, Reuse = {}, TypeOK, TypeOK', QueueInv, [Next]_vars
  PROVE  \/ UNCHANGED <<backups, used, clock>>
         \/ \E n \in Names : (Moves(n) /\ Rightly(n)) \/ Arrives(n) \/ Leaves(n)
<1>1. ASSUME NEW n \in Names, Creates(n), \A m \in Names \ {n} : backups'[m] = backups[m]
      PROVE  Arrives(n)
  <2>1. nextUid # 0
    BY BoundsAssumption DEF TypeOK
  <2>2. Exists(backups'[n])
    BY <1>1, <2>1 DEF Creates, Exists
  <2>3. n \notin used
    BY <1>1 DEF Creates
  <2>4. /\ ~Exists(backups[n]) /\ backups'[n].phase = "" /\ backups'[n].created = clock'
        /\ clock' = IF OneShot(backups'[n].spec) THEN clock + 1 ELSE clock
        /\ used' = used \cup {n}
    <3>1. IF OneShot(backups'[n].spec) THEN Ties \/ clock' = clock + 1 ELSE clock' = clock
      BY <1>1, Zenon DEF Creates
    <3>2. clock' = IF OneShot(backups'[n].spec) THEN clock + 1 ELSE clock
      BY <3>1, Zenon
    <3> QED BY <1>1, <3>2, Zenon DEF Creates
  <2> QED BY <1>1, <2>2, <2>3, <2>4, Zenon DEF Arrives
<1>2. ASSUME NEW n \in Names, Deletes(n), \A m \in Names \ {n} : backups'[m] = backups[m]
      PROVE  Leaves(n)
  <2>1. ~Exists(Absent)
    BY DEF Exists, Absent
  <2> QED BY <1>2, <2>1 DEF Deletes, Leaves
<1> QED BY <1>1, <1>2, WriteMoves, EditMoves, Writers

LEMMA OldestStep ==
  ASSUME ~Ties, Reuse = {}, TypeOK, TypeOK', QueueInv, [Next]_vars
  PROVE  RunningIsOldest'
<1>0. /\ \A n \in Names : backups[n] \in Backup /\ backups'[n] \in Backup
      /\ clock \in Nat
  BY DEF TypeOK
<1>1. CASE UNCHANGED <<backups, used, clock>>
  BY <1>1 DEF QueueInv, RunningIsOldest, Known
<1>2. ASSUME NEW n \in Names, Moves(n), Rightly(n) PROVE RunningIsOldest'
  <2>1. \A m \in Names : /\ Exists(backups'[m]) <=> Exists(backups[m])
                         /\ One(backups'[m]) <=> One(backups[m])
                         /\ backups'[m].created = backups[m].created
    BY <1>2 DEF Moves, Evolves, One
  <2>2. Known(backups)'
    <3> SUFFICES ASSUME NEW m \in Names, Exists(backups'[m])
                 PROVE  /\ m \in used' /\ backups'[m].created <= clock'
                        /\ OneShot(backups'[m].spec) => backups'[m].phase # "Scheduled"
      BY DEF Known
    <3>1. m \in used' /\ backups'[m].created <= clock'
      BY <1>2, <2>1 DEF QueueInv, RunningIsOldest, Known, Moves
    <3>2. CASE m = n
      BY <1>2, <3>1, <3>2 DEF Moves, Evolves, Rightly
    <3>3. CASE m # n
      BY <1>2, <3>1, <3>3 DEF QueueInv, RunningIsOldest, Known, Moves
    <3> QED BY <3>2, <3>3
  <2>3. \A m \in Names : ~Exists(backups'[m]) => backups'[m] = Absent
    BY <1>2 DEF QueueInv, RunningIsOldest, Moves
  <2>4. \A m, k \in Names : m # k /\ One(backups'[m]) /\ One(backups'[k])
                              => backups'[m].created # backups'[k].created
    BY <2>1 DEF QueueInv, RunningIsOldest
  <2>5. ASSUME NEW m \in Names, NEW k \in Names,
               Siblings(m, k), One(backups'[m]), backups'[m].phase = "Running",
               One(backups'[k]), ~backupPhaseTerminal(backups'[k].phase)
        PROVE  backups'[k].phase # "Running" /\ backups'[m].created < backups'[k].created
    <3>1. One(backups[m]) /\ One(backups[k]) /\ Siblings(k, m)
      BY <2>1, <2>5 DEF Siblings
    <3>2. backups[m].created \in Nat /\ backups[k].created \in Nat
      BY <1>0 DEF Backup
    <3>3. ~backupPhaseTerminal(backups[k].phase)
      BY <1>2, <2>5, <3>1 DEF Moves, Evolves, One
    <3>4. CASE backups[m].phase = "Running"
      <4>1. backups[k].phase # "Running" /\ backups[m].created < backups[k].created
        BY <2>5, <3>1, <3>3, <3>4 DEF QueueInv, RunningIsOldest
      <4>2. CASE backups'[k].phase = "Running"
        <5>1. k = n /\ Oldest(k, backups[k].created)
          BY <1>2, <3>1, <4>1, <4>2 DEF Moves, Rightly, One
        <5>2. ~backupPhaseTerminal(backups[m].phase)
          BY <3>4 DEF backupPhaseTerminal
        <5> QED BY <3>1, <4>1, <5>1, <5>2 DEF Oldest
      <4> QED BY <2>1, <4>1, <4>2
    <3>5. CASE backups[m].phase # "Running"
      <4>1. m = n /\ Oldest(m, backups[m].created)
        BY <1>2, <2>5, <3>1, <3>5 DEF Moves, Rightly, One
      <4>2. ~(backups[k].created < backups[m].created)
        BY <2>5, <3>1, <3>3, <4>1 DEF Oldest
      <4>3. backups[m].created < backups[k].created
        <5>1. backups[m].created # backups[k].created
          BY <2>5, <3>1 DEF QueueInv, RunningIsOldest, Siblings
        <5> QED BY <3>2, <4>2, <5>1
      <4>4. ~backupPhaseTerminal(backups[m].phase)
        <5>1. ~backupPhaseTerminal(backups'[m].phase)
          BY <2>5 DEF backupPhaseTerminal
        <5> QED BY <1>2, <3>1, <4>1, <5>1 DEF Moves, Evolves, One
      <4>5. backups[k].phase # "Running"
        <5>1. backups[k].phase = "Running" => backups[k].created < backups[m].created
          BY <3>1, <4>4 DEF QueueInv, RunningIsOldest
        <5> QED BY <3>2, <4>3, <5>1
      <4>6. backups'[k] = backups[k]
        BY <1>2, <2>5, <4>1 DEF Moves, Siblings
      <4> QED BY <2>1, <4>3, <4>5, <4>6
    <3> QED BY <3>4, <3>5
  <2> QED BY <2>2, <2>3, <2>4, <2>5 DEF RunningIsOldest
<1>3. ASSUME NEW n \in Names, Arrives(n) PROVE RunningIsOldest'
  <2>1. \A m \in Names : /\ backups[m].created \in Nat
                         /\ Exists(backups[m]) => backups[m].created <= clock /\ m \in used
    BY <1>0 DEF QueueInv, RunningIsOldest, Known, Backup
  <2>0. /\ \A m \in Names \ {n} : backups'[m] = backups[m]
        /\ backups'[n].created = clock' /\ used' = used \cup {n} /\ backups'[n].phase = ""
        /\ clock' = clock + 1 \/ (clock' = clock /\ ~One(backups'[n]))
    BY <1>3 DEF Arrives, One
  <2>2. ASSUME NEW m \in Names \ {n}, Exists(backups[m]), One(backups'[n])
        PROVE  /\ backups[m].created < backups'[n].created
               /\ backups[m].created # backups'[n].created
    <3>1. backups'[n].created = clock + 1
      BY <2>0, <2>2
    <3>2. backups[m].created \in Nat /\ backups[m].created <= clock
      BY <2>1, <2>2
    <3>3. backups[m].created < clock + 1 /\ backups[m].created # clock + 1
      BY <1>0, <3>2
    <3> QED BY <3>1, <3>3
  <2>3. Known(backups)'
    <3> SUFFICES ASSUME NEW m \in Names, Exists(backups'[m])
                 PROVE  /\ m \in used' /\ backups'[m].created <= clock'
                        /\ OneShot(backups'[m].spec) => backups'[m].phase # "Scheduled"
      BY DEF Known
    <3>1. CASE m = n
      <4>1. clock' \in Nat
        BY DEF TypeOK
      <4>2. clock' <= clock'
        BY <4>1
      <4> QED BY <2>0, <3>1, <4>2
    <3>2. CASE m # n
      <4>1. /\ backups'[m] = backups[m] /\ m \in used' /\ backups[m].created <= clock
            /\ OneShot(backups[m].spec) => backups[m].phase # "Scheduled"
        BY <2>0, <3>2 DEF QueueInv, RunningIsOldest, Known
      <4>2. backups[m].created <= clock'
        <5>1. clock' = clock + 1 \/ clock' = clock
          BY <2>0
        <5>2. backups[m].created \in Nat /\ backups[m].created <= clock
          BY <2>1, <4>1
        <5> QED BY <1>0, <5>1, <5>2
      <4> QED BY <4>1, <4>2
    <3> QED BY <3>1, <3>2
  <2>4. \A m \in Names : ~Exists(backups'[m]) => backups'[m] = Absent
    BY <1>3 DEF QueueInv, RunningIsOldest, Arrives
  <2>5. ASSUME NEW m \in Names, NEW k \in Names,
               m # k, One(backups'[m]), One(backups'[k])
        PROVE  backups'[m].created # backups'[k].created
    <3>1. CASE m # n /\ k # n BY <2>0, <2>5, <3>1 DEF QueueInv, RunningIsOldest
    <3>2. CASE m = n BY <2>0, <2>2, <2>5, <3>2 DEF One
    <3>3. CASE k = n BY <2>0, <2>2, <2>5, <3>3 DEF One
    <3> QED BY <3>1, <3>2, <3>3
  <2>6. ASSUME NEW m \in Names, NEW k \in Names,
               Siblings(m, k), One(backups'[m]), backups'[m].phase = "Running",
               One(backups'[k]), ~backupPhaseTerminal(backups'[k].phase)
        PROVE  backups'[k].phase # "Running" /\ backups'[m].created < backups'[k].created
    <3>1. m # n /\ backups'[m] = backups[m]
      BY <2>0, <2>6
    <3>2. CASE k = n
      BY <2>0, <2>2, <2>6, <3>1, <3>2 DEF One
    <3>3. CASE k # n
      BY <2>0, <2>6, <3>1, <3>3 DEF QueueInv, RunningIsOldest
    <3> QED BY <3>2, <3>3
  <2> QED BY <2>3, <2>4, <2>5, <2>6 DEF RunningIsOldest
<1>4. ASSUME NEW n \in Names, Leaves(n) PROVE RunningIsOldest'
  <2>1. /\ \A m \in Names \ {n} : backups'[m] = backups[m]
        /\ backups'[n] = Absent /\ ~Exists(backups'[n]) /\ ~One(backups'[n])
        /\ UNCHANGED <<used, clock>>
    BY <1>4 DEF Leaves, One
  <2> QED BY <2>1 DEF QueueInv, RunningIsOldest, Known
<1> QED BY <1>1, <1>2, <1>3, <1>4, WriteKinds

LEMMA TrailsStep ==
  ASSUME ~Ties, Reuse = {}, TypeOK, TypeOK', QueueInv, RunningIsOldest', [Next]_vars
  PROVE  CacheTrails'
<1>0. /\ backups \in Snapshot /\ backups' \in Snapshot /\ clock \in Nat /\ clock' \in Nat
      /\ CacheTrails /\ Known(backups)' /\ Known(backups)
  BY DEF TypeOK, Snapshot, QueueInv, RunningIsOldest
<1>1. CASE DeliverBackups
  BY <1>0, <1>1, DeliverTrails
<1>2. CASE Restart
  <2>1. cache' = backups' /\ watch' = <<>>
    BY <1>2 DEF Restart
  <2>2. 1 .. Len(watch') = {}
    BY <2>1
  <2> QED BY <1>0, <2>1, <2>2, PastOfItself DEF CacheTrails
<1>3. CASE UNCHANGED <<cache, backups, watch, used, clock>>
  BY <1>0, <1>3 DEF CacheTrails, Known
<1>4. CASE UNCHANGED cache /\ watch' = Append(watch, backups')
  <2>0. ASSUME used \subseteq used', clock' = clock \/ clock' = clock + 1
        PROVE  used \subseteq used' /\ clock <= clock'
    BY <1>0, <2>0
  <2>1. CASE UNCHANGED <<backups, used, clock>>
    <3>1. clock <= clock' /\ used \subseteq used'
      BY <2>0, <2>1
    <3> QED BY <1>0, <1>4, <2>1, <3>1, StoreTrails
  <2>2. ASSUME NEW n \in Names, Moves(n) PROVE CacheTrails'
    <3>1. \A s \in Snapshot : Past(s, backups) => Past(s, backups')
      BY <1>0, <2>2, PastOfMove DEF Moves
    <3>2. \A m \in Names : Exists(backups'[m]) => Exists(backups[m])
      BY <2>2 DEF Moves
    <3>3. used \subseteq used' /\ clock <= clock'
      BY <2>0, <2>2 DEF Moves
    <3> QED BY <1>0, <1>4, <3>1, <3>2, <3>3, StoreTrails
  <2>3. ASSUME NEW n \in Names, Arrives(n) PROVE CacheTrails'
    <3>1. ASSUME NEW s \in Snapshot, Known(s), Past(s, backups) PROVE Past(s, backups')
      <4>1. ~Exists(s[n])
        BY <2>3, <3>1 DEF Known, Arrives
      <4>2. ASSUME One(backups'[n]), NEW m \in Names, Exists(s[m])
            PROVE  s[m].created < backups'[n].created
        <5>1. s[m].created <= clock /\ s[m].created \in Nat
          BY <3>1, <4>2 DEF Known, Snapshot, Backup
        <5>2. backups'[n].created = clock + 1
          BY <2>3, <4>2 DEF Arrives, One
        <5>3. s[m].created < clock + 1
          BY <1>0, <5>1
        <5> QED BY <5>2, <5>3
      <4>3. \A m \in Names \ {n} : backups'[m] = backups[m]
        BY <2>3 DEF Arrives
      <4> QED BY <1>0, <3>1, <4>1, <4>2, <4>3, PastOfCreate
    <3>2. \A m \in Names : Exists(backups'[m]) /\ ~Exists(backups[m]) => m \notin used
      BY <2>3 DEF Arrives
    <3>3. used \subseteq used' /\ clock <= clock'
      <4>1. used \subseteq used' /\ (clock' = clock \/ clock' = clock + 1)
        BY <2>3, Zenon DEF Arrives
      <4> QED BY <2>0, <4>1
    <3> QED BY <1>0, <1>4, <3>1, <3>2, <3>3, StoreTrails
  <2>4. ASSUME NEW n \in Names, Leaves(n) PROVE CacheTrails'
    <3>1. \A s \in Snapshot : Past(s, backups) => Past(s, backups')
      BY <1>0, <2>4, PastOfDelete DEF Leaves
    <3>2. \A m \in Names : Exists(backups'[m]) => Exists(backups[m])
      BY <2>4 DEF Leaves
    <3>3. used \subseteq used' /\ clock <= clock'
      BY <2>0, <2>4 DEF Leaves
    <3> QED BY <1>0, <1>4, <3>1, <3>2, <3>3, StoreTrails
  <2> QED BY <2>1, <2>2, <2>3, <2>4, WriteKinds
<1> QED BY <1>1, <1>2, <1>3, <1>4, Informer

\* The backups evolve under a worker that stays where it is.
LEMMA DecisionKept ==
  ASSUME ~Ties, Reuse = {}, TypeOK, TypeOK', QueueInv, [Next]_vars, Stays,
         \A n \in Names : Exists(backups'[n]) /\ Exists(cache[n]) => Exists(cache'[n])
  PROVE  DecisionHolds'
<1> SUFFICES ASSUME pc # "idle" PROVE DecisionHolds'
  BY DEF Stays, worker, DecisionHolds
<1>0. /\ key' = key /\ bk' = bk /\ pc' = pc /\ write' = write /\ key \in Names
      /\ bk \in Backup /\ clock \in Nat /\ clock' \in Nat
      /\ \A n \in Names : backups[n] \in Backup /\ backups'[n] \in Backup
  BY DEF Stays, worker, TypeOK
<1>1. /\ key \in used /\ bk.created <= clock /\ bk.created \in Nat
      /\ pc = "write" => write.phase # ""
      /\ pc = "apply" \/ (pc = "write" /\ write.phase = "Scheduled") => ~OneShot(bk.spec)
      /\ pc = "monitor" \/ (pc = "write" /\ write.phase = "Succeeded") => bk.phase = "Running"
  BY <1>0 DEF QueueInv, DecisionHolds, Backup
<1>2. Exists(backups[key]) =>
        /\ Exists(cache[key]) /\ Evolves(bk, backups[key])
        /\ pc = "create" \/ (pc = "write" /\ write.phase = "Running")
             => Oldest(key, bk.created)
  BY DEF QueueInv, DecisionHolds
<1> DEFINE OldestAfter ==
      \A m \in Names : Siblings(key, m) /\ One(backups'[m]) /\ backups'[m].created < bk.created
                         => backupPhaseTerminal(backups'[m].phase)
<1>3. ASSUME key \in used', bk.created <= clock',
             Exists(backups'[key]) => Exists(backups[key]) /\ Evolves(bk, backups'[key]),
             Oldest(key, bk.created) => OldestAfter
      PROVE  DecisionHolds'
  BY <1>0, <1>1, <1>2, <1>3 DEF DecisionHolds, Oldest
<1>4. CASE UNCHANGED <<backups, used, clock>>
  BY <1>0, <1>1, <1>2, <1>3, <1>4 DEF Oldest
<1>5. ASSUME NEW n \in Names, Moves(n) PROVE DecisionHolds'
  <2>1. Exists(backups'[key]) => Exists(backups[key]) /\ Evolves(bk, backups'[key])
    BY <1>0, <1>2, <1>5, EvolvesTrans DEF Moves
  <2>2. Oldest(key, bk.created) => OldestAfter
    BY <1>5 DEF Moves, Oldest, Evolves, One
  <2>3. used' = used /\ clock' = clock
    BY <1>5 DEF Moves
  <2> QED BY <1>1, <1>3, <2>1, <2>2, <2>3
<1>6. ASSUME NEW n \in Names, Arrives(n) PROVE DecisionHolds'
  <2>1. n # key /\ backups'[key] = backups[key]
    BY <1>0, <1>1, <1>6 DEF Arrives
  <2>2. key \in used' /\ (clock' = clock + 1 \/ clock' = clock)
        /\ (One(backups'[n]) => backups'[n].created = clock + 1)
    BY <1>1, <1>6, Zenon DEF Arrives, One
  <2>3. bk.created <= clock'
    <3>1. clock' = clock + 1 \/ clock' = clock
      BY <2>2
    <3>2. bk.created \in Nat /\ bk.created <= clock /\ clock \in Nat
      BY <1>0, <1>1
    <3> QED BY <3>1, <3>2
  <2>4. ~(clock + 1 < bk.created)
    <3>1. bk.created \in Nat /\ bk.created <= clock /\ clock \in Nat
      BY <1>0, <1>1
    <3> QED BY <3>1
  <2>5. One(backups'[n]) => ~(backups'[n].created < bk.created)
    BY <2>2, <2>4
  <2>6. Oldest(key, bk.created) => OldestAfter
    BY <1>6, <2>5 DEF Arrives, Oldest
  <2>7. key \in used'
    BY <2>2
  <2> QED BY <1>2, <1>3, <2>1, <2>3, <2>6, <2>7
<1>7. ASSUME NEW n \in Names, Leaves(n) PROVE DecisionHolds'
  <2>1. Exists(backups'[key]) => backups'[key] = backups[key]
    BY <1>0, <1>7 DEF Leaves
  <2>2. Oldest(key, bk.created) => OldestAfter
    BY <1>7 DEF Leaves, Oldest, One
  <2>3. used' = used /\ clock' = clock
    BY <1>7 DEF Leaves
  <2> QED BY <1>1, <1>2, <1>3, <2>1, <2>2, <2>3
<1> QED BY <1>4, <1>5, <1>6, <1>7, WriteKinds

\* A one-shot backup the queue does not block is the oldest of its instance, although
\* the list it was checked against is stale.
LEMMA NotBlockedIsOldest ==
  ASSUME TypeOK, QueueInv, pc # "idle", Exists(backups[key]), OneShot(bk.spec),
         ~Blocked(key, bk, cache)
  PROVE  Oldest(key, bk.created)
<1> SUFFICES ASSUME NEW m \in Names, Siblings(key, m), One(backups[m]),
                    backups[m].created < bk.created
             PROVE  backupPhaseTerminal(backups[m].phase)
  BY DEF Oldest
<1>1. key \in Names /\ cache[key] \in Backup /\ cache[m] \in Backup /\ backups[m] \in Backup
  BY DEF TypeOK
<1>2. /\ Exists(cache[key]) /\ bk.created = backups[key].created
      /\ OneShot(backups[key].spec)
  BY DEF QueueInv, DecisionHolds, Evolves
<1>3. cache[key].created = bk.created /\ One(cache[key])
  BY <1>1, <1>2 DEF QueueInv, CacheTrails, Past, Evolves, One
<1>4. One(cache[m])
  BY <1>1, <1>2, <1>3 DEF QueueInv, CacheTrails, Past
<1>5. Evolves(cache[m], backups[m]) /\ cache[m].phase # "Scheduled"
  BY <1>1, <1>4 DEF QueueInv, CacheTrails, Past, Known, One
<1>6. backupOlder(m, cache[m], key, bk)
  BY <1>5 DEF Evolves, backupOlder
<1>7. cache[m].phase \notin {"", "Pending", "Running"}
  BY <1>1, <1>4, <1>6 DEF Blocked, Siblings, One
<1>8. cache[m].phase \in {"Succeeded", "Failed"}
  BY <1>1, <1>5, <1>7 DEF Backup, Phase
<1> QED BY <1>4, <1>5, <1>8 DEF Evolves, backupPhaseTerminal, One

LEMMA DecisionStep ==
  ASSUME ~Ties, Reuse = {}, TypeOK, TypeOK', QueueInv, [Next]_vars
  PROVE  DecisionHolds'
<1>1. CASE Rests
  BY <1>1 DEF DecisionHolds, Rests
<1>2. ASSUME NEW n \in Names, Reads(n) PROVE DecisionHolds'
  <2>1. /\ UNCHANGED <<backups, cache, used, clock>> /\ Exists(cache[n])
        /\ pc' = FirstStep(cache[n]) /\ key' = n /\ bk' = cache[n]
    BY <1>2 DEF Reads
  <2>2. n \in used /\ cache[n].created <= clock
    BY <2>1 DEF QueueInv, CacheTrails, Known
  <2>3. Exists(backups[n]) => Evolves(cache[n], backups[n])
    BY <2>1 DEF QueueInv, CacheTrails, Past
  <2>4. /\ FirstStep(cache[n]) \notin {"write", "create", "apply"}
        /\ FirstStep(cache[n]) = "monitor" => cache[n].phase = "Running"
    BY DEF FirstStep
  <2> QED BY <2>1, <2>2, <2>3, <2>4 DEF DecisionHolds
<1>3. CASE Goes
  <2>1. pc # "idle" /\ UNCHANGED <<key, bk, backups, cache, used, clock>>
    BY <1>3 DEF Goes
  <2>2. /\ key \in used /\ bk.created <= clock
        /\ Exists(backups[key]) => Exists(cache[key]) /\ Evolves(bk, backups[key])
    BY <2>1 DEF QueueInv, DecisionHolds
  <2>3. /\ pc' = "write" => write'.phase # ""
        /\ pc' = "apply" \/ (pc' = "write" /\ write'.phase = "Scheduled") => ~OneShot(bk.spec)
        /\ pc' = "monitor" \/ (pc' = "write" /\ write'.phase = "Succeeded")
             => bk.phase = "Running"
    BY <1>3 DEF Goes, QueueInv, DecisionHolds
  <2>4. ASSUME Exists(backups[key]), pc' = "create" \/ (pc' = "write" /\ write'.phase = "Running")
        PROVE  Oldest(key, bk.created)
    <3>1. CASE pc' = "create"
      <4>1. OneShot(bk.spec) /\ ~Blocked(key, bk, cache)
        BY <1>3, <3>1 DEF Goes
      <4> QED BY <2>1, <2>4, <4>1, NotBlockedIsOldest
    <3>2. CASE pc' = "write" /\ write'.phase = "Running"
      <4>1. pc = "create"
        BY <1>3, <3>2 DEF Goes
      <4> QED BY <2>4, <4>1 DEF QueueInv, DecisionHolds
    <3> QED BY <2>4, <3>1, <3>2
  <2> QED BY <2>1, <2>2, <2>3, <2>4 DEF DecisionHolds, Oldest
<1>4. CASE Stays
  <2>1. CASE DeliverBackups
    <3>1. UNCHANGED backups /\ CacheTrails
      BY <2>1 DEF DeliverBackups, QueueInv
    <3>2. \A n \in Names : Exists(backups[n]) /\ Exists(cache[n]) => Exists(cache'[n])
      BY <2>1, <3>1, DeliverTrails
    <3> QED BY <1>4, <3>1, <3>2, DecisionKept
  <2>2. CASE Restart
    BY <1>1, <2>2 DEF Restart, Rests
  <2>3. CASE UNCHANGED cache
    BY <1>4, <2>3, DecisionKept
  <2> QED BY <2>1, <2>2, <2>3, Informer
<1> QED BY <1>1, <1>2, <1>3, <1>4, WorkerMoves

LEMMA QueueInit == Init => QueueInv
<1> SUFFICES ASSUME Init PROVE QueueInv OBVIOUS
<1>1. cache = backups /\ watch = <<>> /\ pc = "idle" /\ backups = [n \in Names |-> Absent]
  BY DEF Init
<1>2. ~Exists(Absent)
  BY DEF Absent, Exists
<1>3. \A n \in Names : backups[n] = Absent /\ ~Exists(backups[n]) /\ ~One(backups[n])
  BY <1>1, <1>2 DEF One
<1>4. Known(backups) /\ RunningIsOldest
  BY <1>3 DEF Known, RunningIsOldest
<1>5. CacheTrails
  <2>1. 1 .. Len(watch) = {} BY <1>1
  <2> QED BY <1>1, <1>3, <2>1 DEF CacheTrails, Known, Past
<1> QED BY <1>1, <1>4, <1>5 DEF QueueInv, DecisionHolds

\* Stale caches never mislead the queue of one-shot backups, whatever scheduled ones do
\* beside it: QueueInv is inductive when no name is used again and no two of them are
\* created in the same second.
THEOREM QueueInvariant ==
  ASSUME ~Ties, Reuse = {}
  PROVE  Spec => [](TypeOK /\ QueueInv)
<1>1. TypeOK /\ QueueInv /\ [Next]_vars => QueueInv'
  <2> SUFFICES ASSUME TypeOK, QueueInv, [Next]_vars PROVE QueueInv' OBVIOUS
  <2>1. TypeOK' BY TypeStep
  <2>2. RunningIsOldest' BY <2>1, OldestStep
  <2>3. CacheTrails' BY <2>1, <2>2, TrailsStep
  <2>4. DecisionHolds' BY <2>1, DecisionStep
  <2> QED BY <2>2, <2>3, <2>4 DEF QueueInv
<1> QED BY <1>1, TypeInit, TypeStep, QueueInit, PTL DEF Spec

-----------------------------------------------------------------------------
(* The controller implements the queue. *)

LEMMA QueueStateFacts ==
  ASSUME NEW o \in Backup
  PROVE  /\ ~One(o) => QueueState(o) = "absent"
         /\ One(o) /\ o.phase \in {"", "Pending"} => QueueState(o) = "waiting"
         /\ One(o) /\ o.phase = "Running" => QueueState(o) = "running"
         /\ One(o) /\ o.phase = "Succeeded" => QueueState(o) = "succeeded"
         /\ One(o) /\ o.phase = "Failed" => QueueState(o) = "failed"
         /\ o.phase \in {"", "Pending", "Running", "Succeeded", "Failed", "Scheduled"}
<1>1. o.phase \in {"", "Pending", "Running", "Succeeded", "Failed", "Scheduled"}
  BY DEF Backup, Phase
<1>2. CASE ~One(o)
  BY <1>1, <1>2 DEF QueueState, One
<1>3. CASE One(o) /\ o.phase = "Running"
  BY <1>1, <1>3 DEF QueueState, One
<1>4. CASE One(o) /\ o.phase = "Succeeded"
  BY <1>1, <1>4 DEF QueueState, One
<1>5. CASE One(o) /\ o.phase = "Failed"
  BY <1>1, <1>5 DEF QueueState, One
<1>6. CASE One(o) /\ o.phase \in {"", "Pending"}
  BY <1>1, <1>6 DEF QueueState, One
<1> QED BY <1>1, <1>2, <1>3, <1>4, <1>5, <1>6

\* What a snapshot shows to the abstract queue.
Ticket(o) == IF OneShot(o.spec) THEN o.created ELSE 0
StatesOf(u) == [n \in Names |-> QueueState(u[n])]
TicketsOf(u) == [n \in Names |-> Ticket(u[n])]

\* A change of one backup is a change of one entry.
LEMMA OneEntry ==
  ASSUME NEW n \in Names, \A m \in Names \ {n} : backups'[m] = backups[m]
  PROVE  /\ StatesOf(backups') = [StatesOf(backups) EXCEPT ![n] = QueueState(backups'[n])]
         /\ TicketsOf(backups') = [TicketsOf(backups) EXCEPT ![n] = Ticket(backups'[n])]
  BY DEF StatesOf, TicketsOf

\* Nothing of it that the queue does not see moves it.
LEMMA Unseen ==
  ASSUME NEW n \in Names, \A m \in Names \ {n} : backups'[m] = backups[m],
         QueueState(backups'[n]) = QueueState(backups[n]),
         Ticket(backups'[n]) = Ticket(backups[n]), clock' = clock
  PROVE  UNCHANGED Q!vars
<1>1. StatesOf(backups') = StatesOf(backups) /\ TicketsOf(backups') = TicketsOf(backups)
  BY DEF StatesOf, TicketsOf
<1> QED BY <1>1 DEF Q!vars, StatesOf, TicketsOf, Ticket

LEMMA QueueSimulation ==
  ASSUME ~Ties, Reuse = {}, TypeOK, TypeOK', QueueInv, RunningIsOldest', [Next]_vars
  PROVE  [Q!Next]_(Q!vars)
<1>0. /\ \A n \in Names : backups[n] \in Backup /\ backups'[n] \in Backup
      /\ clock \in Nat /\ clock' \in Nat
  BY DEF TypeOK
<1>1. CASE UNCHANGED <<backups, used, clock>>
  BY <1>1 DEF Q!vars
<1>2. ASSUME NEW n \in Names, Moves(n), Rightly(n) PROVE [Q!Next]_(Q!vars)
  <2>0. \A m \in Names \ {n} : backups'[m] = backups[m]
    BY <1>2 DEF Moves
  <2>1. Ticket(backups'[n]) = Ticket(backups[n]) /\ clock' = clock
    BY <1>2 DEF Moves, Evolves, Ticket
  <2>2. CASE QueueState(backups'[n]) = QueueState(backups[n])
    BY <2>0, <2>1, <2>2, Unseen
  <2>3. CASE ~OneShot(backups[n].spec)
    <3>1. ~One(backups[n]) /\ ~One(backups'[n])
      BY <1>2, <2>3 DEF Moves, Evolves, One
    <3>2. QueueState(backups'[n]) = "absent" /\ QueueState(backups[n]) = "absent"
      BY <1>0, <3>1, QueueStateFacts
    <3> QED BY <2>2, <3>2
  <2>4. CASE OneShot(backups[n].spec)
    <3>0. One(backups[n]) /\ One(backups'[n])
      BY <1>2, <2>4 DEF Moves, Evolves, One
    <3>1. /\ StatesOf(backups') = [StatesOf(backups) EXCEPT ![n] = QueueState(backups'[n])]
          /\ TicketsOf(backups') = TicketsOf(backups)
      BY <2>0, <2>1, OneEntry DEF TicketsOf
    <3>2. CASE backups[n].phase \in {"", "Pending"} /\ backups'[n].phase = "Running"
      <4>1. /\ QueueState(backups[n]) = "waiting" /\ QueueState(backups'[n]) = "running"
            /\ Oldest(n, backups[n].created)
        BY <1>0, <1>2, <2>4, <3>0, <3>2, QueueStateFacts DEF Rightly
      <4>2. ASSUME NEW m \in Names \ {n}, InstanceOf[m] = InstanceOf[n]
            PROVE  /\ QueueState(backups[m]) # "running"
                   /\ QueueState(backups[m]) = "waiting" => Ticket(backups[n]) < Ticket(backups[m])
        <5>1. Siblings(n, m) /\ Siblings(m, n) BY <4>2 DEF Siblings
        <5>2. backups[m].created \in Nat /\ backups[n].created \in Nat
          BY <1>0 DEF Backup
        <5>3. CASE One(backups[m]) /\ ~backupPhaseTerminal(backups[m].phase)
          <6>1. ~(backups[m].created < backups[n].created)
            BY <4>1, <5>1, <5>3 DEF Oldest
          <6>2. backups[m].created # backups[n].created
            BY <3>0, <5>1, <5>3 DEF QueueInv, RunningIsOldest, Siblings
          <6>3. backups[n].created < backups[m].created
            BY <5>2, <6>1, <6>2
          <6>4. backups[m].phase # "Running"
            <7>1. ~backupPhaseTerminal(backups[n].phase)
              BY <3>2 DEF backupPhaseTerminal
            <7>2. backups[m].phase = "Running" => backups[m].created < backups[n].created
              BY <3>0, <5>1, <5>3, <7>1 DEF QueueInv, RunningIsOldest
            <7> QED BY <6>1, <7>2
          <6>5. Ticket(backups[n]) < Ticket(backups[m])
            BY <3>0, <5>3, <6>3 DEF Ticket, One
          <6>6. backups[m].phase # "Scheduled"
            BY <5>3 DEF QueueInv, RunningIsOldest, Known, One
          <6>7. QueueState(backups[m]) = "waiting"
            BY <1>0, <5>3, <6>4, <6>6, QueueStateFacts DEF backupPhaseTerminal
          <6> QED BY <6>5, <6>7
        <5>4. CASE ~One(backups[m]) \/ backupPhaseTerminal(backups[m].phase)
          <6>1. QueueState(backups[m]) \in {"absent", "succeeded", "failed"}
            BY <1>0, <5>4, QueueStateFacts DEF backupPhaseTerminal
          <6> QED BY <6>1
        <5> QED BY <5>3, <5>4
      <4>3. Q!Start(n)
        BY <2>1, <3>1, <4>1, <4>2 DEF Q!Start, Q!MayStart, Q!Rivals, StatesOf, TicketsOf, Ticket
      <4> QED BY <4>3 DEF Q!Next
    <3>3. CASE \/ backups[n].phase = "Running" /\ backups'[n].phase \in {"Succeeded", "Failed"}
               \/ backups[n].phase \in {"", "Pending"} /\ backups'[n].phase = "Failed"
      <4>1. /\ QueueState(backups'[n]) \in {"succeeded", "failed"}
            /\ \/ QueueState(backups[n]) = "running"
               \/ QueueState(backups[n]) = "waiting" /\ QueueState(backups'[n]) = "failed"
        BY <1>0, <3>0, <3>3, QueueStateFacts
      <4>2. Q!End(n, QueueState(backups'[n]))
        BY <2>1, <3>1, <4>1 DEF Q!End, StatesOf, TicketsOf, Ticket
      <4> QED BY <4>1, <4>2 DEF Q!Next
    <3>4. \/ QueueState(backups'[n]) = QueueState(backups[n])
          \/ backups[n].phase \in {"", "Pending"} /\ backups'[n].phase = "Running"
          \/ backups[n].phase = "Running" /\ backups'[n].phase \in {"Succeeded", "Failed"}
          \/ backups[n].phase \in {"", "Pending"} /\ backups'[n].phase = "Failed"
      <4>1. backups[n].phase # "Scheduled" /\ backups'[n].phase # "Scheduled"
        BY <1>2, <2>4, <3>0 DEF QueueInv, RunningIsOldest, Known, One, Rightly
      <4>2. /\ backups[n].phase \in {"", "Pending", "Running", "Succeeded", "Failed"}
            /\ backups'[n].phase \in {"", "Pending", "Running", "Succeeded", "Failed"}
        BY <1>0, <4>1, QueueStateFacts
      <4>3. CASE backups'[n].phase = backups[n].phase
        BY <1>0, <3>0, <4>2, <4>3, QueueStateFacts
      <4>4. CASE backups[n].phase \in {"", "Pending"} /\ backups'[n].phase \in {"", "Pending"}
        BY <1>0, <3>0, <4>4, QueueStateFacts
      <4>5. CASE backups[n].phase \in {"", "Pending"}
        BY <1>2, <2>4, <4>2, <4>4, <4>5 DEF Rightly
      <4>6. CASE backups[n].phase = "Running"
        BY <1>2, <2>4, <4>2, <4>3, <4>6 DEF Moves, Evolves
      <4>7. CASE backups[n].phase \in {"Succeeded", "Failed"}
        BY <1>2, <2>4, <4>3, <4>7 DEF Rightly, backupPhaseTerminal
      <4> QED BY <4>2, <4>5, <4>6, <4>7
    <3> QED BY <2>2, <3>2, <3>3, <3>4
  <2> QED BY <2>3, <2>4
<1>3. ASSUME NEW n \in Names, Arrives(n) PROVE [Q!Next]_(Q!vars)
  <2>0. /\ \A m \in Names \ {n} : backups'[m] = backups[m]
        /\ ~Exists(backups[n]) /\ QueueState(backups[n]) = "absent"
    BY <1>0, <1>3, QueueStateFacts DEF Arrives, One
  <2>1. CASE OneShot(backups'[n].spec)
    <3>1. /\ clock' = clock + 1 /\ Ticket(backups'[n]) = clock + 1
          /\ QueueState(backups'[n]) = "waiting"
      BY <1>0, <1>3, <2>1, QueueStateFacts DEF Arrives, Ticket, One
    <3>2. /\ StatesOf(backups') = [StatesOf(backups) EXCEPT ![n] = "waiting"]
          /\ TicketsOf(backups') = [TicketsOf(backups) EXCEPT ![n] = clock + 1]
      BY <2>0, <3>1, OneEntry
    <3>3. Q!Submit(n)
      BY <2>0, <3>1, <3>2 DEF Q!Submit, StatesOf, TicketsOf, Ticket
    <3> QED BY <3>3 DEF Q!Next
  <2>2. CASE ~OneShot(backups'[n].spec)
    <3>1. clock' = clock /\ Ticket(backups'[n]) = 0 /\ QueueState(backups'[n]) = "absent"
      BY <1>0, <1>3, <2>2, QueueStateFacts DEF Arrives, Ticket, One
    <3>2. Ticket(backups[n]) = 0
      <4>1. Absent.created = 0
        BY DEF Absent
      <4>2. backups[n] = Absent
        BY <2>0 DEF QueueInv, RunningIsOldest
      <4> QED BY <4>1, <4>2 DEF Ticket
    <3> QED BY <2>0, <3>1, <3>2, Unseen
  <2> QED BY <2>1, <2>2
<1>4. ASSUME NEW n \in Names, Leaves(n) PROVE [Q!Next]_(Q!vars)
  <2>0. /\ \A m \in Names \ {n} : backups'[m] = backups[m]
        /\ clock' = clock /\ QueueState(backups'[n]) = "absent"
    BY <1>0, <1>4, QueueStateFacts DEF Leaves, One
  <2>1. Ticket(backups'[n]) = 0
    <3>1. Absent.created = 0
      BY DEF Absent
    <3> QED BY <1>4, <3>1 DEF Leaves, Ticket
  <2>2. CASE OneShot(backups[n].spec)
    <3>1. One(backups[n]) /\ backups[n].phase # "Scheduled"
      BY <1>4, <2>2 DEF Leaves, One, QueueInv, RunningIsOldest, Known
    <3>2. QueueState(backups[n]) # "absent"
      BY <1>0, <3>1, QueueStateFacts
    <3>3. /\ StatesOf(backups') = [StatesOf(backups) EXCEPT ![n] = "absent"]
          /\ TicketsOf(backups') = [TicketsOf(backups) EXCEPT ![n] = 0]
      BY <2>0, <2>1, OneEntry
    <3>4. Q!Withdraw(n)
      BY <2>0, <3>2, <3>3 DEF Q!Withdraw, StatesOf, TicketsOf, Ticket
    <3> QED BY <3>4 DEF Q!Next
  <2>3. CASE ~OneShot(backups[n].spec)
    <3>1. Ticket(backups[n]) = 0 /\ QueueState(backups[n]) = "absent"
      BY <1>0, <2>3, QueueStateFacts DEF Ticket, One
    <3> QED BY <2>0, <2>1, <3>1, Unseen
  <2> QED BY <2>2, <2>3
<1> QED BY <1>1, <1>2, <1>3, <1>4, WriteKinds

LEMMA QueueSimulationInit == Init => Q!Init
<1> SUFFICES ASSUME Init PROVE Q!Init OBVIOUS
<1>1. clock = 0 /\ backups = [n \in Names |-> Absent]
  BY DEF Init
<1>2. ~One(Absent) /\ Absent.created = 0 /\ Absent \in Backup
  BY AbsentType DEF One, Exists, Absent
<1>3. QueueState(Absent) = "absent"
  BY <1>2, QueueStateFacts
<1>4. \A n \in Names : QueueState(backups[n]) = "absent"
                       /\ (IF OneShot(backups[n].spec) THEN backups[n].created ELSE 0) = 0
  BY <1>1, <1>2, <1>3
<1> QED BY <1>1, <1>4 DEF Q!Init, Q!State

\* The one-shot backups of an instance, with caches, conflicts, faults, restarts, Jobs that
\* upgrades share and scheduled backups beside them, implement the plain queue.
THEOREM ControllerImplementsQueue ==
  ASSUME ~Ties, Reuse = {}
  PROVE  Spec => ImplementsQueue
<1>1. TypeOK /\ TypeOK' /\ QueueInv /\ QueueInv' /\ [Next]_vars => [Q!Next]_(Q!vars)
  BY QueueSimulation DEF QueueInv
<1> QED BY <1>1, QueueSimulationInit, QueueInvariant, PTL
        DEF Spec, ImplementsQueue, Q!Spec
=============================================================================
