------------------------- MODULE OdooUpgradeProofs -------------------------
(***************************************************************************)
(* Theorems about OdooUpgrade for every set of names and instances and     *)
(* every value of the bounds.                                              *)
(***************************************************************************)
EXTENDS OdooUpgrade, SequenceTheorems, TLAPS

LEMMA AbsentType == Absent \in Upgrade /\ NoJob \in Job
  BY BoundsAssumption DEF Absent, NoJob, Upgrade, Job, UpgradeSpec, Phase, Reason

LEMMA DefaultReasonType == \A phase \in Phase : DefaultReason(phase) \in Reason
  BY DEF DefaultReason, Reason

\* What a reconcile that returns leaves in the worker's variables.
LEMMA ReturnType ==
  ASSUME TypeOK, pc # "idle", NEW b \in BOOLEAN, Return(b)
  PROVE  /\ pc' = "idle" /\ key' = 0 /\ up' = Absent /\ up' \in Upgrade
         /\ target' \in Phase /\ why' \in Reason /\ queue' \subseteq Names
  BY AbsentType DEF TypeOK, Return, Phase, Reason

\* What a reconcile that is about to write leaves there.
LEMMA PrepareType ==
  ASSUME TypeOK, pc # "idle",
         NEW p \in Phase, NEW r \in Reason, PrepareWrite(p, r)
  PROVE  /\ pc' = "write" /\ key' = key /\ up' = up /\ key' \in Names
         /\ target' \in Phase /\ why' \in Reason
  BY DEF TypeOK, PrepareWrite

\* Storing a well-typed state keeps the watch well typed.
LEMMA StoreType ==
  ASSUME TypeOK, NEW new \in [Names -> Upgrade], Store(new)
  PROVE  upgrades' \in [Names -> Upgrade] /\ watch' \in Seq([Names -> Upgrade])
  BY DEF TypeOK, Store

LEMMA TypeInit == Init => TypeOK
<1> SUFFICES ASSUME Init PROVE TypeOK OBVIOUS
<1>1. /\ upgrades \in [Names -> Upgrade] /\ jobs \in [Names -> Job]
      /\ used \subseteq Names /\ nextUid \in 1 .. MaxUid + 1
      /\ done \subseteq Names \X (0 .. MaxUid + 1)
  <2>1. CASE /\ upgrades = [n \in Names |-> Absent] /\ jobs = [n \in Names |-> NoJob]
             /\ used = {} /\ nextUid = 1 /\ done = {}
    BY <2>1, AbsentType, BoundsAssumption
  <2>2. CASE \E n \in Names, spec \in Specs \ {"invalid"}, phase \in LegacyPhases :
               \E job \in LegacyJob(phase) :
                 /\ upgrades = [m \in Names |->
                      IF m = n THEN [uid |-> 1, created |-> 0, spec |-> spec,
                                     phase |-> phase, reason |-> "none"] ELSE Absent]
                 /\ jobs = [m \in Names |-> IF m = n THEN job ELSE NoJob]
                 /\ done = IF phase = "Succeeded" \/ job.state = "complete" THEN {<<n, 1>>} ELSE {}
                 /\ used = {n} /\ nextUid = 2
    <3>1. PICK n \in Names, spec \in Specs \ {"invalid"}, phase \in LegacyPhases :
               \E job \in LegacyJob(phase) :
                 /\ upgrades = [m \in Names |->
                      IF m = n THEN [uid |-> 1, created |-> 0, spec |-> spec,
                                     phase |-> phase, reason |-> "none"] ELSE Absent]
                 /\ jobs = [m \in Names |-> IF m = n THEN job ELSE NoJob]
                 /\ done = IF phase = "Succeeded" \/ job.state = "complete" THEN {<<n, 1>>} ELSE {}
                 /\ used = {n} /\ nextUid = 2
      BY <2>2
    <3>2. PICK job \in LegacyJob(phase) :
                 /\ upgrades = [m \in Names |->
                      IF m = n THEN [uid |-> 1, created |-> 0, spec |-> spec,
                                     phase |-> phase, reason |-> "none"] ELSE Absent]
                 /\ jobs = [m \in Names |-> IF m = n THEN job ELSE NoJob]
                 /\ done = IF phase = "Succeeded" \/ job.state = "complete" THEN {<<n, 1>>} ELSE {}
                 /\ used = {n} /\ nextUid = 2
      BY <3>1
    <3>3. job \in Job
      BY <3>2, AbsentType, BoundsAssumption DEF LegacyJob, Job
    <3>4. [uid |-> 1, created |-> 0, spec |-> spec, phase |-> phase, reason |-> "none"]
            \in Upgrade
      <4>1. spec \in UpgradeSpec /\ phase \in Phase
        BY DomainAssumption
      <4>2. 1 \in 0 .. MaxUid /\ "none" \in Reason
        BY BoundsAssumption DEF Reason
      <4> QED BY <4>1, <4>2 DEF Upgrade
    <3>5. upgrades \in [Names -> Upgrade] /\ jobs \in [Names -> Job]
      BY <3>2, <3>3, <3>4, AbsentType
    <3>6. done \subseteq Names \X (0 .. MaxUid + 1)
      <4>1. <<n, 1>> \in Names \X (0 .. MaxUid + 1)
        BY BoundsAssumption
      <4> QED BY <3>2, <4>1, Zenon
    <3>7. used \subseteq Names /\ nextUid = 2
      BY <3>2
    <3> QED BY <3>5, <3>6, <3>7, BoundsAssumption
  <2> QED BY <2>1, <2>2 DEF Init, InitObjects
<1>2. instances \in [Instances -> InstanceState]
  BY DomainAssumption DEF Init
<1>3. watch \in Seq([Names -> Upgrade])
  BY EmptySeq, Zenon DEF Init
<1>4. queue \subseteq Names /\ inGrace \subseteq 0 .. MaxUid
  BY DEF Init
<1>5. up \in Upgrade /\ target \in Phase /\ why \in Reason
  BY AbsentType DEF Init, Phase, Reason
<1>6. cache = upgrades /\ instCache = instances /\ jobCache = jobs
  BY DEF Init
<1>7. pc = "idle" /\ key = 0 /\ clock = 0 /\ faults = 0
  BY DEF Init
<1>8. clock \in Nat /\ faults \in 0 .. MaxFaults
  BY <1>7, BoundsAssumption
<1> QED BY <1>1, <1>2, <1>3, <1>4, <1>5, <1>6, <1>7, <1>8 DEF TypeOK

\* What a status write leaves: the upgrade it was computed for, with the new phase.
LEMMA ApplyWriteType ==
  ASSUME TypeOK, pc = "write", ApplyWrite
  PROVE  /\ upgrades' \in [Names -> Upgrade] /\ watch' \in Seq([Names -> Upgrade])
         /\ inGrace' \subseteq 0 .. MaxUid
<1>1. key \in Names /\ upgrades[key] \in Upgrade /\ cache[key] \in Upgrade
  BY DEF TypeOK
<1>2. [upgrades EXCEPT ![key].phase = target, ![key].reason = why] \in [Names -> Upgrade]
  BY <1>1 DEF TypeOK, Upgrade
<1>3. cache[key].uid \in 0 .. MaxUid
  BY <1>1 DEF Upgrade
<1> QED BY <1>2, <1>3, StoreType DEF ApplyWrite, TypeOK

LEMMA TypeStep == TypeOK /\ [Next]_vars => TypeOK'
<1> SUFFICES ASSUME TypeOK, [Next]_vars PROVE TypeOK' OBVIOUS
<1> USE DEF apiVars, cacheVars, worker, userVars
<1>1. ASSUME NEW n \in Names, Begin(n) PROVE TypeOK'
  <2>1. cache[n] \in Upgrade /\ queue \ {n} \subseteq Names
    BY DEF TypeOK
  <2>2. FirstStep(cache[n]) \in {"idle", "backfill", "decide", "monitor"}
    BY DEF FirstStep, AfterBackfill
  <2> QED BY <1>1, <2>1, <2>2 DEF Begin, TypeOK
<1>2. ASSUME BackfillConditions PROVE TypeOK'
  <2>1. upgrades' \in [Names -> Upgrade] /\ watch' \in Seq([Names -> Upgrade])
    <3>1. CASE UNCHANGED <<upgrades, watch>>
      BY <3>1 DEF TypeOK
    <3>2. CASE Store([upgrades EXCEPT ![key].reason = DefaultReason(cache[key].phase)])
      <4>1. key \in Names /\ upgrades[key] \in Upgrade /\ cache[key] \in Upgrade
        BY <1>2 DEF TypeOK, BackfillConditions
      <4>2. DefaultReason(cache[key].phase) \in Reason
        BY <4>1, DefaultReasonType DEF Upgrade
      <4>3. [upgrades EXCEPT ![key].reason = DefaultReason(cache[key].phase)]
              \in [Names -> Upgrade]
        BY <4>1, <4>2 DEF TypeOK, Upgrade
      <4> QED BY <3>2, <4>3, StoreType
    <3> QED BY <1>2, <3>1, <3>2 DEF BackfillConditions
  <2>2. CASE Return(FALSE)
    BY <1>2, <2>1, <2>2, ReturnType DEF BackfillConditions, TypeOK
  <2>3. CASE GoTo(AfterBackfill(up)) /\ UNCHANGED queue
    BY <1>2, <2>1, <2>3 DEF BackfillConditions, TypeOK, GoTo, AfterBackfill
  <2> QED BY <1>2, <2>2, <2>3 DEF BackfillConditions, ResumeAfterBackfill
<1>3. ASSUME Decide PROVE TypeOK'
  <2>1. pc # "idle" /\ "Failed" \in Phase /\ "Pending" \in Phase /\ "InvalidSpec" \in Reason
        /\ "InstanceNotFound" \in Reason /\ "Pending" \in Reason
    BY <1>3 DEF Decide, Phase, Reason
  <2>2. \/ PrepareWrite("Failed", "InvalidSpec") \/ PrepareWrite("Pending", "InstanceNotFound")
        \/ PrepareWrite("Pending", "Pending") \/ GoTo("create")
    BY <1>3 DEF Decide
  <2>3. /\ pc' \in {"write", "create"} /\ key' \in Names /\ up' = up
        /\ target' \in Phase /\ why' \in Reason
    <3>1. CASE GoTo("create")
      BY <2>1, <3>1 DEF GoTo, TypeOK
    <3> QED BY <2>1, <2>2, <3>1, PrepareType
  <2> QED BY <1>3, <2>3 DEF Decide, TypeOK
<1>4. ASSUME pc = "create" PROVE [jobs EXCEPT ![key] = JobAfterCreate] \in [Names -> Job]
  <2>1. key \in Names /\ jobs[key] \in Job /\ up.uid \in 0 .. MaxUid
    BY <1>4 DEF TypeOK, Upgrade
  <2>2. JobAfterCreate \in Job
    BY <2>1, BoundsAssumption DEF JobAfterCreate, Job
  <2> QED BY <2>1, <2>2 DEF TypeOK
<1>5. ASSUME CreateJob PROVE TypeOK'
  <2>1. pc # "idle" /\ "Running" \in Phase /\ "Running" \in Reason
    BY <1>5 DEF CreateJob, Phase, Reason
  <2> QED BY <1>4, <1>5, <2>1, PrepareType DEF CreateJob, TypeOK
<1>6. ASSUME Monitor PROVE TypeOK'
  <2>1. pc # "idle" /\ "Failed" \in Phase /\ "Succeeded" \in Phase /\ "JobFailed" \in Reason
        /\ "Complete" \in Reason
    BY <1>6 DEF Monitor, Phase, Reason
  <2>2. CASE Return(TRUE)
    BY <1>6, <2>1, <2>2, ReturnType DEF Monitor, TypeOK
  <2>3. CASE PrepareWrite("Failed", "JobFailed") /\ UNCHANGED queue
    BY <1>6, <2>1, <2>3, PrepareType DEF Monitor, TypeOK
  <2>4. CASE PrepareWrite("Succeeded", "Complete") /\ UNCHANGED queue
    BY <1>6, <2>1, <2>4, PrepareType DEF Monitor, TypeOK
  <2> QED BY <1>6, <2>2, <2>3, <2>4 DEF Monitor
<1>7. ASSUME WriteStatus PROVE TypeOK'
  <2>1. /\ upgrades' \in [Names -> Upgrade] /\ watch' \in Seq([Names -> Upgrade])
        /\ inGrace' \subseteq 0 .. MaxUid
    <3>1. CASE UNCHANGED <<upgrades, watch, inGrace>>
      BY <3>1 DEF TypeOK
    <3> QED BY <1>7, <3>1, ApplyWriteType DEF WriteStatus
  <2>2. pc # "idle" /\ Requeued \in BOOLEAN /\ Return(Requeued)
    BY <1>7 DEF WriteStatus, Requeued
  <2> QED BY <1>7, <2>1, <2>2, ReturnType DEF WriteStatus, TypeOK
<1>8. ASSUME ConflictGivesUp PROVE TypeOK'
  BY <1>8, ReturnType DEF ConflictGivesUp, TypeOK
<1>9. ASSUME Fault PROVE faults' \in 0 .. MaxFaults
  BY <1>9, BoundsAssumption DEF Fault, TypeOK
<1>10. ASSUME CallFails PROVE TypeOK'
  BY <1>9, <1>10, ReturnType DEF CallFails, TypeOK
<1>11. ASSUME CreateUnanswered PROVE TypeOK'
  <2>1. pc # "idle" BY <1>11 DEF CreateUnanswered
  <2> QED BY <1>4, <1>9, <1>11, <2>1, ReturnType DEF CreateUnanswered, TypeOK
<1>12. ASSUME WriteUnanswered PROVE TypeOK'
  <2>1. pc # "idle" BY <1>12 DEF WriteUnanswered
  <2> QED BY <1>9, <1>12, <2>1, ReturnType, ApplyWriteType DEF WriteUnanswered, TypeOK
<1>13. ASSUME Restart PROVE TypeOK'
  <2>1. watch' \in Seq([Names -> Upgrade])
    BY <1>13, EmptySeq, Zenon DEF Restart
  <2>2. queue' \subseteq Names BY <1>13 DEF Restart
  <2>3. target' \in Phase /\ why' \in Reason /\ up' \in Upgrade
    BY <1>13, AbsentType DEF Restart, Phase, Reason
  <2> QED BY <1>9, <1>13, <2>1, <2>2, <2>3 DEF Restart, TypeOK
<1>14. ASSUME DeliverUpgrades PROVE TypeOK'
  <2>1. /\ Head(watch) \in [Names -> Upgrade]
        /\ Tail(watch) \in Seq([Names -> Upgrade])
    BY <1>14 DEF DeliverUpgrades, TypeOK
  <2>2. queue' \subseteq Names BY <1>14 DEF DeliverUpgrades, TypeOK
  <2> QED BY <1>14, <2>1, <2>2 DEF DeliverUpgrades, TypeOK
<1>15. ASSUME NEW n \in Names, DeliverJob(n) PROVE TypeOK'
  BY <1>15 DEF DeliverJob, TypeOK
<1>16. ASSUME NEW i \in Instances, DeliverInstance(i) PROVE TypeOK'
  BY <1>16 DEF DeliverInstance, TypeOK
<1>17. ASSUME NEW n \in Names, NEW outcome \in {"complete", "failed"}, JobFinishes(n, outcome)
       PROVE  TypeOK'
  <2>1. jobs[n] \in Job BY DEF TypeOK
  <2>2. jobs' \in [Names -> Job]
    BY <1>17, <2>1 DEF JobFinishes, TypeOK, Job
  <2>3. done' \subseteq Names \X (0 .. MaxUid + 1)
    <3>1. <<n, jobs[n].owner>> \in Names \X (0 .. MaxUid + 1)
      BY <2>1 DEF Job
    <3>2. done' \subseteq done \cup {<<n, jobs[n].owner>>}
      BY <1>17 DEF JobFinishes
    <3> QED BY <3>1, <3>2 DEF TypeOK
  <2> QED BY <1>17, <2>2, <2>3 DEF JobFinishes, TypeOK
<1>18. ASSUME NEW n \in Names, DeleteJob(n) PROVE TypeOK'
  BY <1>9, <1>18, AbsentType DEF DeleteJob, TypeOK
<1>19. ASSUME NEW n \in Names, CollectJob(n) PROVE TypeOK'
  BY <1>19, AbsentType DEF CollectJob, TypeOK
<1>20. ASSUME NEW n \in Names, GraceEnds(n) PROVE TypeOK'
  BY <1>20 DEF GraceEnds, TypeOK
<1>21. ASSUME NEW n \in Names, NEW spec \in Specs, CreateUpgrade(n, spec) PROVE TypeOK'
  <2>1. PICK second \in {clock, clock + 1} :
             /\ clock' = second
             /\ Store([upgrades EXCEPT ![n] = [uid |-> nextUid, created |-> second,
                                               spec |-> spec, phase |-> "",
                                               reason |-> "none"]])
    BY <1>21 DEF CreateUpgrade
  <2>2. second \in Nat /\ nextUid \in 0 .. MaxUid /\ nextUid' \in 1 .. MaxUid + 1
    <3>1. clock \in Nat /\ nextUid \in 1 .. MaxUid + 1
      BY DEF TypeOK
    <3>2. nextUid <= MaxUid /\ nextUid' = nextUid + 1
      BY <1>21 DEF CreateUpgrade
    <3> QED BY <3>1, <3>2, BoundsAssumption
  <2>3. spec \in UpgradeSpec /\ "" \in Phase /\ "none" \in Reason
    BY DomainAssumption DEF Phase, Reason
  <2>4. [uid |-> nextUid, created |-> second, spec |-> spec, phase |-> "",
         reason |-> "none"] \in Upgrade
    BY <2>2, <2>3 DEF Upgrade
  <2>5. upgrades' \in [Names -> Upgrade] /\ watch' \in Seq([Names -> Upgrade])
    BY <2>1, <2>4, StoreType DEF TypeOK
  <2> QED BY <1>21, <2>1, <2>2, <2>5 DEF CreateUpgrade, TypeOK
<1>22. ASSUME NEW n \in Names, DeleteUpgrade(n) PROVE TypeOK'
  <2>1. [upgrades EXCEPT ![n] = Absent] \in [Names -> Upgrade]
    BY AbsentType DEF TypeOK
  <2> QED BY <1>9, <1>22, <2>1, StoreType DEF DeleteUpgrade, TypeOK
<1>23. ASSUME NEW i \in Instances, NEW state \in InstanceStates, SetInstance(i, state)
       PROVE  TypeOK'
  BY <1>23, DomainAssumption DEF SetInstance, TypeOK
<1>24. CASE UNCHANGED vars
  BY <1>24 DEF vars, TypeOK
<1>25. ASSUME NEW n \in Names, BackupTakesName(n) PROVE TypeOK'
  <2>1. [owner |-> ABackup, state |-> "active"] \in Job
    BY BoundsAssumption DEF ABackup, Job
  <2> QED BY <1>9, <1>25, <2>1 DEF BackupTakesName, TypeOK
<1> QED
  BY <1>1, <1>2, <1>3, <1>5, <1>6, <1>7, <1>8, <1>10, <1>11, <1>12, <1>13, <1>14, <1>15,
     <1>16, <1>17, <1>18, <1>19, <1>20, <1>21, <1>22, <1>23, <1>24, <1>25
     DEF Next, Reconcile

\* Type correctness of the controller, its caches and the cluster in every behaviour.
THEOREM TypeCorrect == Safety => []TypeOK
  BY TypeInit, TypeStep, PTL DEF Safety

-----------------------------------------------------------------------------
(* A phase never goes back. *)

\* The worker writes a phase it has decided on.
WriteTarget == pc = "write" => target # ""

LEMMA WriteTargetStep == TypeOK /\ WriteTarget /\ [Next]_vars => WriteTarget'
<1> SUFFICES ASSUME TypeOK, WriteTarget, [Next]_vars, pc' = "write" PROVE target' # ""
  BY DEF WriteTarget
<1> USE DEF WriteTarget, worker
<1>1. CASE \E p \in {"Pending", "Running", "Succeeded", "Failed"}, r \in Reason :
             PrepareWrite(p, r)
  BY <1>1 DEF PrepareWrite
<1>2. CASE UNCHANGED worker
  BY <1>2
<1>3. ASSUME NEW n \in Names, Begin(n) PROVE FALSE
  BY <1>3 DEF Begin, FirstStep, AfterBackfill
<1>4. CASE BackfillConditions
  BY <1>4 DEF BackfillConditions, ResumeAfterBackfill, Return, GoTo, AfterBackfill
<1>5. CASE Decide
  BY <1>1, <1>5 DEF Decide, GoTo, Reason
<1>6. CASE CreateJob
  BY <1>1, <1>6 DEF CreateJob, Reason
<1>7. CASE Monitor
  BY <1>1, <1>7 DEF Monitor, Return, Reason
<1>8. CASE WriteStatus \/ ConflictGivesUp \/ CallFails \/ CreateUnanswered \/ WriteUnanswered
           \/ Restart
  BY <1>8 DEF WriteStatus, ConflictGivesUp, CallFails, CreateUnanswered, WriteUnanswered,
              Restart, Return
<1>9. CASE DeliverUpgrades \/ (\E n \in Names : DeliverJob(n) \/ DeleteJob(n) \/ CollectJob(n)
                                                \/ BackupTakesName(n) \/ GraceEnds(n)
                                                \/ DeleteUpgrade(n))
  BY <1>2, <1>9 DEF DeliverUpgrades, DeliverJob, DeleteJob, CollectJob, BackupTakesName,
                    GraceEnds, DeleteUpgrade
<1>10. CASE \/ \E i \in Instances : DeliverInstance(i)
            \/ \E i \in Instances, state \in InstanceStates : SetInstance(i, state)
            \/ \E n \in Names, spec \in Specs : CreateUpgrade(n, spec)
            \/ \E n \in Names, outcome \in {"complete", "failed"} : JobFinishes(n, outcome)
            \/ UNCHANGED vars
  BY <1>2, <1>10 DEF DeliverInstance, SetInstance, CreateUpgrade, JobFinishes, vars
<1> QED BY <1>3, <1>4, <1>5, <1>6, <1>7, <1>8, <1>9, <1>10 DEF Next, Reconcile

\* The steps that change the OdooUpgrades in the API server.
LEMMA Writers ==
  ASSUME TypeOK, [Next]_vars
  PROVE  \/ UNCHANGED <<upgrades, used, clock>>
         \/ BackfillConditions
         \/ WriteStatus \/ WriteUnanswered
         \/ \E n \in Names, spec \in Specs : CreateUpgrade(n, spec)
         \/ \E n \in Names : DeleteUpgrade(n)
<1> USE DEF apiVars, userVars
<1>1. CASE \/ \E n \in Names : Begin(n) \/ DeliverJob(n) \/ DeleteJob(n) \/ CollectJob(n)
                               \/ BackupTakesName(n) \/ GraceEnds(n)
           \/ \E i \in Instances : DeliverInstance(i)
           \/ \E i \in Instances, state \in InstanceStates : SetInstance(i, state)
           \/ \E n \in Names, outcome \in {"complete", "failed"} : JobFinishes(n, outcome)
  BY <1>1 DEF Begin, DeliverJob, DeleteJob, CollectJob, BackupTakesName, GraceEnds,
              DeliverInstance, SetInstance, JobFinishes
<1>2. CASE \/ Decide \/ CreateJob \/ Monitor \/ ConflictGivesUp \/ CallFails
           \/ CreateUnanswered \/ Restart \/ DeliverUpgrades \/ UNCHANGED vars
  BY <1>2 DEF Decide, CreateJob, Monitor, ConflictGivesUp, CallFails, CreateUnanswered,
              Restart, DeliverUpgrades, vars
<1> QED BY <1>1, <1>2 DEF Next, Reconcile

\* What each of them does to the upgrades.
LEMMA WriteEffect ==
  ASSUME TypeOK, pc = "write", ApplyWrite
  PROVE  /\ key \in Names /\ ~WriteSkipped(upgrades[key])
         /\ \A n \in Names \ {key} : upgrades'[n] = upgrades[n]
         /\ upgrades'[key].uid = upgrades[key].uid
         /\ upgrades'[key].created = upgrades[key].created
         /\ upgrades'[key].phase = target
<1>1. key \in Names /\ upgrades \in [Names -> Upgrade] /\ upgrades[key] \in Upgrade
  BY DEF TypeOK
<1>2. upgrades' = [upgrades EXCEPT ![key].phase = target, ![key].reason = why]
  BY DEF ApplyWrite, Store
<1>3. ~WriteSkipped(upgrades[key])
  BY DEF ApplyWrite
<1> QED BY <1>1, <1>2, <1>3 DEF Upgrade

LEMMA BackfillEffect ==
  ASSUME TypeOK, BackfillConditions
  PROVE  /\ key \in Names
         /\ \A n \in Names \ {key} : upgrades'[n] = upgrades[n]
         /\ upgrades'[key].uid = upgrades[key].uid
         /\ upgrades'[key].created = upgrades[key].created
         /\ upgrades'[key].phase = upgrades[key].phase
<1>1. key \in Names /\ upgrades \in [Names -> Upgrade] /\ upgrades[key] \in Upgrade
  BY DEF TypeOK, BackfillConditions
<1>2. \/ upgrades' = upgrades
      \/ upgrades' = [upgrades EXCEPT ![key].reason = DefaultReason(cache[key].phase)]
  BY DEF BackfillConditions, Store
<1> QED BY <1>1, <1>2 DEF Upgrade

LEMMA CreateEffect ==
  ASSUME TypeOK, NEW m \in Names, NEW spec \in Specs, CreateUpgrade(m, spec)
  PROVE  /\ ~Exists(upgrades[m]) /\ Exists(upgrades'[m])
         /\ \A n \in Names \ {m} : upgrades'[n] = upgrades[n]
         /\ upgrades'[m].uid = nextUid /\ upgrades'[m].phase = ""
         /\ upgrades'[m].created = clock'
         /\ clock' \in Nat /\ clock' >= clock /\ (~Ties => clock' = clock + 1)
         /\ used' = used \cup {m} /\ (~Reuse => m \notin used)
<1>1. PICK second \in {clock, clock + 1} :
             /\ Ties \/ second = clock + 1
             /\ clock' = second
             /\ upgrades' = [upgrades EXCEPT ![m] = [uid |-> nextUid, created |-> second,
                                               spec |-> spec, phase |-> "",
                                               reason |-> "none"]]
  BY DEF CreateUpgrade, Store
<1>2. upgrades \in [Names -> Upgrade] /\ clock \in Nat /\ nextUid \in Nat \ {0}
  BY BoundsAssumption DEF TypeOK
<1> DEFINE new == [uid |-> nextUid, created |-> second, spec |-> spec, phase |-> "",
                   reason |-> "none"]
<1>3. new.uid = nextUid /\ new.phase = "" /\ new.created = second
  OBVIOUS
<1> HIDE DEF new
<1>4. \A n \in Names \ {m} : upgrades'[n] = upgrades[n]
  BY <1>1, <1>2
<1>5. clock' = second
  BY <1>1, Zenon
<1>6. ~Ties => clock' = clock + 1
  BY <1>1, Zenon
<1>7. upgrades'[m] = new
  BY <1>1, <1>2 DEF new
<1>8. clock' \in Nat /\ clock' >= clock
  BY <1>5, <1>2
<1>9. ~Exists(upgrades[m]) /\ used' = used \cup {m} /\ (~Reuse => m \notin used)
  BY DEF CreateUpgrade
<1> QED BY <1>2, <1>3, <1>4, <1>5, <1>6, <1>7, <1>8, <1>9 DEF Exists

LEMMA DeleteEffect ==
  ASSUME TypeOK, NEW m \in Names, DeleteUpgrade(m)
  PROVE  /\ Exists(upgrades[m]) /\ ~Exists(upgrades'[m])
         /\ upgrades'[m].phase = "" /\ upgrades'[m].created = 0
         /\ \A n \in Names \ {m} : upgrades'[n] = upgrades[n]
  BY DEF DeleteUpgrade, Store, Exists, Absent, TypeOK

\* A finished upgrade keeps its phase and a started one is never queued again.
THEOREM PhaseNeverGoesBack == Safety => NeverGoesBack
<1> DEFINE Kept(n) ==
      upgrades'[n].uid = upgrades[n].uid =>
        /\ upgradePhaseTerminal(upgrades[n].phase) => upgrades'[n].phase = upgrades[n].phase
        /\ upgrades[n].phase = "Running" => upgrades'[n].phase \notin {"", "Pending"}
<1>1. TypeOK /\ WriteTarget /\ [Next]_vars => \A n \in Names : Kept(n)
  <2> SUFFICES ASSUME TypeOK, WriteTarget, [Next]_vars, NEW n \in Names PROVE Kept(n)
    OBVIOUS
  <2>1. CASE UNCHANGED <<upgrades, used, clock>>
    BY <2>1
  <2>2. CASE BackfillConditions
    BY <2>2, BackfillEffect
  <2>3. CASE WriteStatus \/ WriteUnanswered
    <3>1. CASE ApplyWrite /\ pc = "write"
      <4>1. CASE n = key
        BY <3>1, <4>1, WriteEffect DEF WriteSkipped, WriteTarget, upgradePhaseTerminal
      <4> QED BY <3>1, <4>1, WriteEffect
    <3> QED BY <2>1, <2>3, <3>1 DEF WriteStatus, WriteUnanswered, userVars
  <2>4. ASSUME NEW m \in Names, NEW spec \in Specs, CreateUpgrade(m, spec) PROVE Kept(n)
    BY <2>4, CreateEffect DEF Exists
  <2>5. ASSUME NEW m \in Names, DeleteUpgrade(m) PROVE Kept(n)
    BY <2>5, DeleteEffect DEF Exists
  <2> QED BY <2>1, <2>2, <2>3, <2>4, <2>5, Writers
<1>2. Init => WriteTarget
  BY DEF Init, WriteTarget
<1>3. Safety => [](TypeOK /\ WriteTarget)
  BY <1>2, TypeInit, TypeStep, WriteTargetStep, PTL DEF Safety
<1> QED BY <1>1, <1>3, PTL DEF Safety, NeverGoesBack

-----------------------------------------------------------------------------
(* One upgrade at a time. *)

Snapshot == [Names -> Upgrade]

\* A later version may evolve further.
LEMMA EvolvesTrans ==
  ASSUME NEW a \in Upgrade, NEW b \in Upgrade, NEW c \in Upgrade,
         Evolves(a, b), Evolves(b, c)
  PROVE  Evolves(a, c)
  BY DEF Evolves, upgradePhaseTerminal, Upgrade, Phase

\* An earlier state stays one when an upgrade moves on,
LEMMA PastOfMove ==
  ASSUME NEW s \in Snapshot, NEW u \in Snapshot, NEW v \in Snapshot, Past(s, u),
         NEW n \in Names, \A m \in Names \ {n} : v[m] = u[m],
         Exists(v[n]) <=> Exists(u[n]), Evolves(u[n], v[n])
  PROVE  Past(s, v)
<1> SUFFICES ASSUME NEW k \in Names, Exists(s[k])
             PROVE  /\ Exists(v[k]) => Evolves(s[k], v[k])
                    /\ \A m \in Names : Exists(v[m]) /\ v[m].created < s[k].created
                                          => Exists(s[m])
  BY DEF Past
<1>1. Exists(v[k]) => Evolves(s[k], v[k])
  BY EvolvesTrans DEF Past, Snapshot
<1>2. \A m \in Names : Exists(v[m]) => Exists(u[m]) /\ v[m].created = u[m].created
  BY DEF Evolves
<1> QED BY <1>1, <1>2 DEF Past

\* when one is created later than everything in it,
LEMMA PastOfCreate ==
  ASSUME NEW s \in Snapshot, NEW u \in Snapshot, NEW v \in Snapshot, Past(s, u),
         NEW n \in Names, \A m \in Names \ {n} : v[m] = u[m],
         ~Exists(s[n]), \A m \in Names : Exists(s[m]) => s[m].created < v[n].created
  PROVE  Past(s, v)
<1> SUFFICES ASSUME NEW k \in Names, Exists(s[k])
             PROVE  /\ Exists(v[k]) => Evolves(s[k], v[k])
                    /\ \A m \in Names : Exists(v[m]) /\ v[m].created < s[k].created
                                          => Exists(s[m])
  BY DEF Past
<1>1. s[k].created \in Nat /\ v[n].created \in Nat /\ s[k].created < v[n].created /\ k # n
  BY DEF Snapshot, Upgrade
<1> QED BY <1>1 DEF Past

\* and when one is deleted.
LEMMA PastOfDelete ==
  ASSUME NEW s \in Snapshot, NEW u \in Snapshot, NEW v \in Snapshot, Past(s, u),
         NEW n \in Names, \A m \in Names \ {n} : v[m] = u[m], ~Exists(v[n])
  PROVE  Past(s, v)
  BY DEF Past

LEMMA PastOfItself == ASSUME NEW u \in Snapshot PROVE Past(u, u)
  BY DEF Past, Evolves

\* A write to the API server leaves the informer behind, not ahead.
LEMMA StoreTrails ==
  ASSUME TypeOK, TypeOK', CacheTrails, Known(upgrades)', UNCHANGED cache,
         watch' = Append(watch, upgrades'),
         used \subseteq used', clock <= clock',
         \A s \in Snapshot : Known(s) /\ Past(s, upgrades) => Past(s, upgrades'),
         \A n \in Names : Exists(upgrades'[n]) /\ ~Exists(upgrades[n]) => n \notin used
  PROVE  CacheTrails'
<1>1. /\ watch \in Seq(Snapshot) /\ cache \in Snapshot /\ upgrades \in Snapshot
      /\ upgrades' \in Snapshot /\ clock \in Nat /\ clock' \in Nat
  BY DEF TypeOK, Snapshot
<1>2. /\ Len(watch') = Len(watch) + 1 /\ Len(watch) \in Nat
      /\ \A i \in 1 .. Len(watch) : watch'[i] = watch[i] /\ watch[i] \in Snapshot
      /\ watch'[Len(watch) + 1] = upgrades'
  BY <1>1
<1>3. ASSUME NEW s \in Snapshot, Known(s)
      PROVE  \A n \in Names : Exists(s[n]) => n \in used' /\ s[n].created <= clock'
  BY <1>1, <1>3 DEF Known, Snapshot, Upgrade
<1>4. (Known(cache) /\ Past(cache, upgrades))'
  BY <1>1, <1>3 DEF CacheTrails, Known
<1>5. ASSUME NEW i \in 1 .. Len(watch')
      PROVE  /\ \A n \in Names : Exists(watch'[i][n]) => n \in used' /\ watch'[i][n].created <= clock'
             /\ Past(watch'[i], upgrades')
  <2>1. CASE i \in 1 .. Len(watch)
    BY <1>1, <1>2, <1>3, <2>1 DEF CacheTrails
  <2>2. CASE i = Len(watch) + 1
    BY <1>1, <1>2, <2>2, PastOfItself DEF Known
  <2> QED BY <1>2, <2>1, <2>2
<1>6. ASSUME NEW n \in Names, Exists(upgrades'[n])
      PROVE  /\ Exists(cache[n]) => \A i \in 1 .. Len(watch') : Exists(watch'[i][n])
             /\ \A i, j \in 1 .. Len(watch') :
                  i < j /\ Exists(watch'[i][n]) => Exists(watch'[j][n])
  <2>1. CASE Exists(upgrades[n])
    BY <1>2, <1>6, <2>1 DEF CacheTrails
  <2>2. CASE ~Exists(upgrades[n])
    <3>1. n \notin used BY <1>6, <2>2
    <3>2. ~Exists(cache[n]) BY <3>1 DEF CacheTrails, Known
    <3>3. \A i \in 1 .. Len(watch) : ~Exists(watch'[i][n])
      BY <1>2, <3>1 DEF CacheTrails, Known
    <3> QED BY <1>2, <3>2, <3>3
  <2> QED BY <2>1, <2>2
<1> QED BY <1>4, <1>5, <1>6 DEF CacheTrails, Known

\* A delivery brings the informer to a later state.
LEMMA DeliverTrails ==
  ASSUME TypeOK, CacheTrails, DeliverUpgrades
  PROVE  CacheTrails' /\ \A n \in Names : Exists(upgrades[n]) /\ Exists(cache[n])
                                            => Exists(cache'[n])
<1>1. watch \in Seq(Snapshot) /\ watch # <<>>
  BY DEF TypeOK, Snapshot, DeliverUpgrades
<1>2. /\ Len(watch) \in Nat \ {0} /\ Len(watch') = Len(watch) - 1 /\ cache' = watch[1]
      /\ \A i \in 1 .. Len(watch') : watch'[i] = watch[i + 1] /\ i + 1 \in 1 .. Len(watch)
      /\ 1 \in 1 .. Len(watch)
  BY <1>1 DEF DeliverUpgrades
<1>3. UNCHANGED <<upgrades, used, clock>>
  BY DEF DeliverUpgrades, userVars
<1>4. (Known(cache) /\ Past(cache, upgrades))'
  BY <1>2, <1>3 DEF CacheTrails, Known
<1>5. \A i \in 1 .. Len(watch') : (Known(watch'[i]) /\ Past(watch'[i], upgrades))
  BY <1>2, <1>3 DEF CacheTrails
<1>6. ASSUME NEW n \in Names, Exists(upgrades[n])
      PROVE  /\ Exists(cache'[n]) => \A i \in 1 .. Len(watch') : Exists(watch'[i][n])
             /\ \A i, j \in 1 .. Len(watch') :
                  i < j /\ Exists(watch'[i][n]) => Exists(watch'[j][n])
             /\ Exists(cache[n]) => Exists(cache'[n])
  BY <1>2, <1>6 DEF CacheTrails
<1> QED BY <1>3, <1>4, <1>5, <1>6 DEF CacheTrails, Known

\* The steps that write to the API server, seen as one of three kinds.
Moves(n) ==
    /\ n \in Names /\ Exists(upgrades[n]) /\ Exists(upgrades'[n])
    /\ Evolves(upgrades[n], upgrades'[n])
    /\ \A m \in Names \ {n} : upgrades'[m] = upgrades[m]
    /\ UNCHANGED <<used, clock>>

Creates(n) ==
    /\ n \in Names \ used /\ ~Exists(upgrades[n]) /\ Exists(upgrades'[n])
    /\ upgrades'[n].phase = "" /\ upgrades'[n].created = clock' /\ clock' = clock + 1
    /\ \A m \in Names \ {n} : upgrades'[m] = upgrades[m]
    /\ used' = used \cup {n}

Deletes(n) ==
    /\ n \in Names /\ Exists(upgrades[n]) /\ ~Exists(upgrades'[n])
    /\ upgrades'[n].phase = "" /\ upgrades'[n].created = 0
    /\ \A m \in Names \ {n} : upgrades'[m] = upgrades[m]
    /\ UNCHANGED <<used, clock>>

\* A status write moves the upgrade on.
LEMMA WriteMoves ==
  ASSUME TypeOK, WriteTarget, pc = "write", ApplyWrite, UNCHANGED <<used, clock>>
  PROVE  Moves(key)
<1>1. Exists(upgrades[key]) /\ ~upgradePhaseTerminal(upgrades[key].phase)
      /\ ~(target = "Pending" /\ upgrades[key].phase = "Running")
  BY WriteEffect DEF WriteSkipped
<1>2. Exists(upgrades'[key])
  BY <1>1, WriteEffect DEF Exists
<1>3. Evolves(upgrades[key], upgrades'[key])
  BY <1>1, WriteEffect DEF Evolves, WriteTarget
<1> QED BY <1>1, <1>2, <1>3, WriteEffect DEF Moves

\* So does a backfill that writes.
LEMMA BackfillMoves ==
  ASSUME TypeOK, BackfillConditions
  PROVE  UNCHANGED <<upgrades, watch, used, clock>> \/ Moves(key)
<1>1. UNCHANGED <<used, clock>>
  BY DEF BackfillConditions, userVars
<1>2. CASE UNCHANGED <<upgrades, watch>>
  BY <1>1, <1>2
<1>3. CASE BackfillNeeded(cache[key]) /\ cache[key] = upgrades[key]
  <2>1. Exists(upgrades[key]) /\ Exists(upgrades'[key])
    BY <1>3, BackfillEffect DEF BackfillNeeded, Exists
  <2>2. Evolves(upgrades[key], upgrades'[key])
    BY BackfillEffect DEF Evolves
  <2> QED BY <1>1, <2>1, <2>2, BackfillEffect DEF Moves
<1> QED BY <1>2, <1>3 DEF BackfillConditions

LEMMA CreateCreates ==
  ASSUME ~Ties, ~Reuse, TypeOK, NEW n \in Names, NEW spec \in Specs, CreateUpgrade(n, spec)
  PROVE  Creates(n)
<1>1. ~Exists(upgrades[n]) /\ Exists(upgrades'[n]) /\ upgrades'[n].phase = ""
      /\ upgrades'[n].created = clock' /\ used' = used \cup {n}
      /\ \A m \in Names \ {n} : upgrades'[m] = upgrades[m]
  BY CreateEffect, Zenon
<1>2. clock' = clock + 1 /\ n \notin used
  BY CreateEffect, Zenon
<1> QED BY <1>1, <1>2 DEF Creates

LEMMA DeleteDeletes ==
  ASSUME TypeOK, NEW n \in Names, DeleteUpgrade(n)
  PROVE  Deletes(n)
  BY DeleteEffect DEF Deletes, DeleteUpgrade, userVars

\* An upgrade starts only as the oldest, succeeds only after it started, ends once.
Rightly(n) ==
    /\ upgradePhaseTerminal(upgrades[n].phase) => upgrades'[n].phase = upgrades[n].phase
    /\ upgrades'[n].phase = "Running" =>
         upgrades[n].phase = "Running" \/ Oldest(n, upgrades[n].created)
    /\ upgrades'[n].phase = "Succeeded" => upgrades[n].phase \notin {"", "Pending"}

\* What a write may be, when names and creation times are not used twice.
LEMMA WriteKinds ==
  ASSUME ~Ties, ~Reuse, TypeOK, QueueInv, [Next]_vars
  PROVE  \/ UNCHANGED <<upgrades, used, clock>>
         \/ \E n \in Names : (Moves(n) /\ Rightly(n)) \/ Creates(n) \/ Deletes(n)
<1>1. CASE BackfillConditions
  <2>1. key \in Names /\ Rightly(key)
    <3>1. key \in Names /\ upgrades'[key].phase = upgrades[key].phase
      BY <1>1, BackfillEffect
    <3> QED BY <3>1 DEF Rightly
  <2> QED BY <1>1, <2>1, BackfillMoves
<1>2. CASE WriteStatus \/ WriteUnanswered
  <2>1. UNCHANGED <<used, clock>> /\ pc = "write"
    BY <1>2 DEF WriteStatus, WriteUnanswered, userVars
  <2>2. CASE ApplyWrite
    <3>1. WriteTarget /\ Moves(key)
      BY <2>1, <2>2, WriteMoves DEF QueueInv, DecisionHolds, WriteTarget
    <3>2. /\ Exists(upgrades[key]) /\ upgrades'[key].phase = target
          /\ ~upgradePhaseTerminal(upgrades[key].phase)
      BY <2>1, <2>2, <3>1, WriteEffect DEF Moves, WriteSkipped
    <3>3. Evolves(up, upgrades[key])
      BY <2>1, <3>2 DEF QueueInv, DecisionHolds
    <3>4. target = "Running" => Oldest(key, upgrades[key].created)
      BY <2>1, <3>2, <3>3 DEF QueueInv, DecisionHolds, Evolves
    <3>5. target = "Succeeded" => upgrades[key].phase \notin {"", "Pending"}
      BY <2>1, <3>2, <3>3 DEF QueueInv, DecisionHolds, Evolves
    <3> QED BY <3>1, <3>2, <3>4, <3>5 DEF Rightly, Moves
  <2>3. ApplyWrite \/ UNCHANGED upgrades
    BY <1>2 DEF WriteStatus, WriteUnanswered
  <2> QED BY <2>1, <2>2, <2>3
<1>3. ASSUME NEW n \in Names, NEW spec \in Specs, CreateUpgrade(n, spec) PROVE Creates(n)
  BY <1>3, CreateCreates
<1>4. ASSUME NEW n \in Names, DeleteUpgrade(n) PROVE Deletes(n)
  BY <1>4, DeleteDeletes
<1> QED BY <1>1, <1>2, <1>3, <1>4, Writers

LEMMA OldestStep ==
  ASSUME ~Ties, ~Reuse, TypeOK, TypeOK', QueueInv, [Next]_vars
  PROVE  RunningIsOldest'
<1> USE DEF Siblings, upgradePhaseTerminal
<1>0. /\ \A n \in Names : upgrades[n] \in Upgrade /\ upgrades'[n] \in Upgrade
      /\ clock \in Nat
  BY DEF TypeOK
<1>1. CASE UNCHANGED <<upgrades, used, clock>>
  BY <1>1 DEF QueueInv, RunningIsOldest, Known
<1>2. ASSUME NEW n \in Names, Moves(n), Rightly(n) PROVE RunningIsOldest'
  <2>1. \A m \in Names : /\ Exists(upgrades'[m]) <=> Exists(upgrades[m])
                         /\ upgrades'[m].created = upgrades[m].created
    BY <1>2 DEF Moves, Evolves
  <2>2. Known(upgrades)'
    BY <1>2, <2>1 DEF QueueInv, RunningIsOldest, Known, Moves
  <2>3. \A m \in Names : upgrades'[m].phase # "" => Exists(upgrades'[m])
    BY <1>2 DEF QueueInv, RunningIsOldest, Moves
  <2>4. \A m, k \in Names : m # k /\ Exists(upgrades'[m]) /\ Exists(upgrades'[k])
                              => upgrades'[m].created # upgrades'[k].created
    BY <2>1 DEF QueueInv, RunningIsOldest
  <2>5. ASSUME NEW m \in Names, NEW k \in Names,
               Siblings(m, k), upgrades'[m].phase = "Running",
               Exists(upgrades'[k]), ~upgradePhaseTerminal(upgrades'[k].phase)
        PROVE  upgrades'[k].phase # "Running" /\ upgrades'[m].created < upgrades'[k].created
    <3>1. Exists(upgrades[m]) /\ Exists(upgrades[k])
      BY <2>1, <2>3, <2>5
    <3>2. upgrades[m].created \in Nat /\ upgrades[k].created \in Nat
      BY <1>0 DEF Upgrade
    <3>3. ~upgradePhaseTerminal(upgrades[k].phase)
      BY <1>2, <2>5 DEF Moves, Evolves
    <3>4. CASE upgrades[m].phase = "Running"
      <4>1. upgrades[k].phase # "Running" /\ upgrades[m].created < upgrades[k].created
        BY <2>5, <3>1, <3>3, <3>4 DEF QueueInv, RunningIsOldest
      <4>2. CASE upgrades'[k].phase = "Running"
        <5>1. k = n /\ Oldest(k, upgrades[k].created)
          BY <1>2, <4>1, <4>2 DEF Moves, Rightly
        <5> QED BY <2>5, <3>1, <3>4, <4>1, <5>1 DEF Oldest
      <4> QED BY <2>1, <4>1, <4>2
    <3>5. CASE upgrades[m].phase # "Running"
      <4>1. m = n /\ Oldest(m, upgrades[m].created)
        BY <1>2, <2>5, <3>5 DEF Moves, Rightly
      <4>2. ~(upgrades[k].created < upgrades[m].created)
        BY <2>5, <3>1, <3>3, <4>1 DEF Oldest
      <4>3. upgrades[m].created < upgrades[k].created
        <5>1. upgrades[m].created # upgrades[k].created
          BY <2>5, <3>1 DEF QueueInv, RunningIsOldest
        <5> QED BY <3>2, <4>2, <5>1
      <4>4. ~upgradePhaseTerminal(upgrades[m].phase)
        BY <1>2, <2>5, <4>1 DEF Moves, Evolves
      <4>5. upgrades[k].phase # "Running"
        <5>1. upgrades[k].phase = "Running" => upgrades[k].created < upgrades[m].created
          BY <2>5, <3>1, <4>4 DEF QueueInv, RunningIsOldest
        <5> QED BY <3>2, <4>3, <5>1
      <4>6. upgrades'[k] = upgrades[k]
        BY <1>2, <2>5, <4>1 DEF Moves
      <4> QED BY <2>1, <4>3, <4>5, <4>6
    <3> QED BY <3>4, <3>5
  <2> QED BY <2>2, <2>3, <2>4, <2>5 DEF RunningIsOldest
<1>3. ASSUME NEW n \in Names, Creates(n) PROVE RunningIsOldest'
  <2>1. \A m \in Names : /\ upgrades[m].created \in Nat
                         /\ Exists(upgrades[m]) => upgrades[m].created <= clock /\ m \in used
    BY <1>0 DEF QueueInv, RunningIsOldest, Known, Upgrade
  <2>0. /\ \A m \in Names \ {n} : upgrades'[m] = upgrades[m]
        /\ upgrades'[n].created = clock + 1 /\ clock' = clock + 1 /\ used' = used \cup {n}
    BY <1>3 DEF Creates
  <2>2. \A m \in Names \ {n} :
          Exists(upgrades[m]) => upgrades[m].created < upgrades'[n].created
    BY <1>0, <2>0, <2>1
  <2>3. Known(upgrades)'
    <3> SUFFICES ASSUME NEW m \in Names, Exists(upgrades'[m])
                 PROVE  m \in used' /\ upgrades'[m].created <= clock'
      BY DEF Known
    <3>1. CASE m = n BY <1>0, <2>0, <3>1
    <3>2. CASE m # n BY <1>0, <2>0, <2>1, <3>2
    <3> QED BY <3>1, <3>2
  <2>4. \A m \in Names : upgrades'[m].phase # "" => Exists(upgrades'[m])
    BY <1>3 DEF QueueInv, RunningIsOldest, Creates
  <2>5. ASSUME NEW m \in Names, NEW k \in Names,
               m # k, Exists(upgrades'[m]), Exists(upgrades'[k])
        PROVE  upgrades'[m].created # upgrades'[k].created
    <3>1. CASE m # n /\ k # n BY <2>0, <2>5, <3>1 DEF QueueInv, RunningIsOldest
    <3>2. CASE m = n BY <1>0, <2>0, <2>1, <2>2, <2>5, <3>2
    <3>3. CASE k = n BY <1>0, <2>0, <2>1, <2>2, <2>5, <3>3
    <3> QED BY <3>1, <3>2, <3>3
  <2>6. ASSUME NEW m \in Names, NEW k \in Names,
               Siblings(m, k), upgrades'[m].phase = "Running",
               Exists(upgrades'[k]), ~upgradePhaseTerminal(upgrades'[k].phase)
        PROVE  upgrades'[k].phase # "Running" /\ upgrades'[m].created < upgrades'[k].created
    BY <1>3, <2>0, <2>2, <2>4, <2>6 DEF QueueInv, RunningIsOldest, Creates
  <2> QED BY <2>3, <2>4, <2>5, <2>6 DEF RunningIsOldest
<1>4. ASSUME NEW n \in Names, Deletes(n) PROVE RunningIsOldest'
  BY <1>4 DEF QueueInv, RunningIsOldest, Known, Deletes
<1> QED BY <1>1, <1>2, <1>3, <1>4, WriteKinds

\* The informer's copy changes by a delivery or a restart; everything written is
\* put on its watch.
LEMMA Informer ==
  ASSUME TypeOK, [Next]_vars
  PROVE  \/ DeliverUpgrades \/ Restart
         \/ UNCHANGED <<cache, upgrades, watch, used, clock>>
         \/ UNCHANGED cache /\ watch' = Append(watch, upgrades')
<1> USE DEF apiVars, userVars, cacheVars
<1>1. CASE \/ \E n \in Names : Begin(n) \/ DeliverJob(n) \/ DeleteJob(n) \/ CollectJob(n)
                               \/ BackupTakesName(n) \/ GraceEnds(n)
           \/ \E i \in Instances : DeliverInstance(i)
           \/ \E i \in Instances, state \in InstanceStates : SetInstance(i, state)
           \/ \E n \in Names, outcome \in {"complete", "failed"} : JobFinishes(n, outcome)
  BY <1>1 DEF Begin, DeliverJob, DeleteJob, CollectJob, BackupTakesName, GraceEnds,
              DeliverInstance, SetInstance, JobFinishes
<1>2. CASE \/ Decide \/ CreateJob \/ Monitor \/ ConflictGivesUp \/ CallFails
           \/ CreateUnanswered \/ UNCHANGED vars
  BY <1>2 DEF Decide, CreateJob, Monitor, ConflictGivesUp, CallFails, CreateUnanswered, vars
<1>3. CASE BackfillConditions
  BY <1>3 DEF BackfillConditions, Store
<1>4. CASE WriteStatus
  BY <1>4 DEF WriteStatus, ApplyWrite, Store
<1>5. CASE WriteUnanswered
  BY <1>5 DEF WriteUnanswered, ApplyWrite, Store
<1>6. CASE \E n \in Names, spec \in Specs : CreateUpgrade(n, spec)
  BY <1>6 DEF CreateUpgrade, Store
<1>7. CASE \E n \in Names : DeleteUpgrade(n)
  BY <1>7 DEF DeleteUpgrade, Store
<1> QED BY <1>1, <1>2, <1>3, <1>4, <1>5, <1>6, <1>7 DEF Next, Reconcile

LEMMA TrailsStep ==
  ASSUME ~Ties, ~Reuse, TypeOK, TypeOK', QueueInv, RunningIsOldest', [Next]_vars
  PROVE  CacheTrails'
<1>0. /\ upgrades \in Snapshot /\ upgrades' \in Snapshot /\ clock \in Nat /\ clock' \in Nat
      /\ CacheTrails /\ Known(upgrades)' /\ Known(upgrades)
  BY DEF TypeOK, Snapshot, QueueInv, RunningIsOldest
<1>1. CASE DeliverUpgrades
  BY <1>0, <1>1, DeliverTrails
<1>2. CASE Restart
  <2>1. cache' = upgrades' /\ watch' = <<>>
    BY <1>2 DEF Restart
  <2>2. 1 .. Len(watch') = {}
    BY <2>1
  <2> QED BY <1>0, <2>1, <2>2, PastOfItself DEF CacheTrails
<1>3. CASE UNCHANGED <<cache, upgrades, watch, used, clock>>
  BY <1>0, <1>3 DEF CacheTrails, Known
<1>4. CASE UNCHANGED cache /\ watch' = Append(watch, upgrades')
  <2>1. CASE UNCHANGED <<upgrades, used, clock>>
    BY <1>0, <1>4, <2>1, StoreTrails
  <2>2. ASSUME NEW n \in Names, Moves(n) PROVE CacheTrails'
    <3>1. \A s \in Snapshot : Past(s, upgrades) => Past(s, upgrades')
      BY <1>0, <2>2, PastOfMove DEF Moves
    <3>2. \A m \in Names : Exists(upgrades'[m]) => Exists(upgrades[m])
      BY <2>2 DEF Moves
    <3>3. used \subseteq used' /\ clock <= clock'
      <4>1. used \subseteq used' /\ (clock' = clock \/ clock' = clock + 1)
        BY <2>2, Zenon DEF Moves
      <4>2. clock <= clock'
        BY <1>0, <4>1
      <4> QED BY <4>1, <4>2
    <3> QED BY <1>0, <1>4, <3>1, <3>2, <3>3, StoreTrails
  <2>3. ASSUME NEW n \in Names, Creates(n) PROVE CacheTrails'
    <3>1. ASSUME NEW s \in Snapshot, Known(s), Past(s, upgrades) PROVE Past(s, upgrades')
      <4>1. ~Exists(s[n])
        BY <2>3, <3>1 DEF Known, Creates
      <4>2. \A m \in Names : Exists(s[m]) => s[m].created <= clock /\ s[m].created \in Nat
        BY <3>1 DEF Known, Snapshot, Upgrade
      <4>3. upgrades'[n].created = clock + 1
        BY <2>3 DEF Creates
      <4>4. \A m \in Names : Exists(s[m]) => s[m].created < upgrades'[n].created
        BY <1>0, <4>2, <4>3
      <4> QED BY <1>0, <2>3, <3>1, <4>1, <4>4, PastOfCreate DEF Creates
    <3>2. \A m \in Names : Exists(upgrades'[m]) /\ ~Exists(upgrades[m]) => m \notin used
      BY <2>3 DEF Creates
    <3>3. used \subseteq used' /\ clock <= clock'
      <4>1. used \subseteq used' /\ (clock' = clock \/ clock' = clock + 1)
        BY <2>3, Zenon DEF Creates
      <4>2. clock <= clock'
        BY <1>0, <4>1
      <4> QED BY <4>1, <4>2
    <3> QED BY <1>0, <1>4, <3>1, <3>2, <3>3, StoreTrails
  <2>4. ASSUME NEW n \in Names, Deletes(n) PROVE CacheTrails'
    <3>1. \A s \in Snapshot : Past(s, upgrades) => Past(s, upgrades')
      BY <1>0, <2>4, PastOfDelete DEF Deletes
    <3>2. \A m \in Names : Exists(upgrades'[m]) => Exists(upgrades[m])
      BY <2>4 DEF Deletes
    <3>3. used \subseteq used' /\ clock <= clock'
      <4>1. used \subseteq used' /\ (clock' = clock \/ clock' = clock + 1)
        BY <2>4, Zenon DEF Deletes
      <4>2. clock <= clock'
        BY <1>0, <4>1
      <4> QED BY <4>1, <4>2
    <3> QED BY <1>0, <1>4, <3>1, <3>2, <3>3, StoreTrails
  <2> QED BY <2>1, <2>2, <2>3, <2>4, WriteKinds
<1> QED BY <1>1, <1>2, <1>3, <1>4, Informer

\* The upgrades evolve under a worker that stays where it is.
LEMMA DecisionKept ==
  ASSUME ~Ties, ~Reuse, TypeOK, TypeOK', QueueInv, [Next]_vars, UNCHANGED worker,
         \A n \in Names : Exists(upgrades'[n]) /\ Exists(cache[n]) => Exists(cache'[n])
  PROVE  DecisionHolds'
<1> SUFFICES ASSUME pc # "idle" PROVE DecisionHolds'
  BY DEF worker, DecisionHolds
<1>0. /\ key' = key /\ up' = up /\ pc' = pc /\ target' = target /\ key \in Names
      /\ up \in Upgrade /\ clock \in Nat /\ clock' \in Nat
      /\ \A n \in Names : upgrades[n] \in Upgrade /\ upgrades'[n] \in Upgrade
  BY DEF worker, TypeOK
<1>1. /\ key \in used /\ up.created <= clock /\ up.created \in Nat
      /\ pc = "write" => target # ""
      /\ pc = "monitor" \/ (pc = "write" /\ target = "Succeeded") => up.phase = "Running"
  BY <1>0 DEF QueueInv, DecisionHolds, Upgrade
<1>2. Exists(upgrades[key]) =>
        /\ Exists(cache[key]) /\ Evolves(up, upgrades[key])
        /\ pc = "create" \/ (pc = "write" /\ target = "Running") => Oldest(key, up.created)
  BY DEF QueueInv, DecisionHolds
<1>3. CASE UNCHANGED <<upgrades, used, clock>>
  BY <1>0, <1>1, <1>2, <1>3 DEF DecisionHolds, Oldest
<1>4. ASSUME NEW n \in Names, Moves(n) PROVE DecisionHolds'
  <2>1. Exists(upgrades'[key]) => Exists(upgrades[key]) /\ Evolves(up, upgrades'[key])
    BY <1>0, <1>2, <1>4, EvolvesTrans DEF Moves
  <2>2. Oldest(key, up.created) =>
          \A m \in Names : Siblings(key, m) /\ Exists(upgrades'[m])
                           /\ upgrades'[m].created < up.created
                             => upgradePhaseTerminal(upgrades'[m].phase)
    BY <1>4 DEF Moves, Oldest, Evolves
  <2>3. used' = used /\ clock' = clock
    BY <1>4 DEF Moves
  <2> QED BY <1>0, <1>1, <1>2, <2>1, <2>2, <2>3 DEF DecisionHolds, Oldest
<1>5. ASSUME NEW n \in Names, Creates(n) PROVE DecisionHolds'
  <2>1. n # key /\ upgrades'[key] = upgrades[key]
    BY <1>0, <1>1, <1>5 DEF Creates
  <2>2. key \in used' /\ clock' = clock + 1 /\ upgrades'[n].created = clock + 1
    BY <1>1, <1>5, Zenon DEF Creates
  <2>3. up.created <= clock' /\ ~(upgrades'[n].created < up.created)
    <3>1. up.created \in Nat /\ clock \in Nat /\ up.created <= clock
      BY <1>0, <1>1, Zenon
    <3>2. clock' = clock + 1 /\ upgrades'[n].created = clock + 1
      BY <2>2, Zenon
    <3> QED BY <3>1, <3>2
  <2>4. Oldest(key, up.created) =>
          \A m \in Names : Siblings(key, m) /\ Exists(upgrades'[m])
                           /\ upgrades'[m].created < up.created
                             => upgradePhaseTerminal(upgrades'[m].phase)
    BY <1>5, <2>3 DEF Creates, Oldest
  <2> QED BY <1>0, <1>1, <1>2, <2>1, <2>2, <2>3, <2>4 DEF DecisionHolds, Oldest
<1>6. ASSUME NEW n \in Names, Deletes(n) PROVE DecisionHolds'
  <2>1. Exists(upgrades'[key]) => upgrades'[key] = upgrades[key]
    BY <1>0, <1>6 DEF Deletes
  <2>2. Oldest(key, up.created) =>
          \A m \in Names : Siblings(key, m) /\ Exists(upgrades'[m])
                           /\ upgrades'[m].created < up.created
                             => upgradePhaseTerminal(upgrades'[m].phase)
    BY <1>6 DEF Deletes, Oldest
  <2>3. used' = used /\ clock' = clock
    BY <1>6 DEF Deletes
  <2> QED BY <1>0, <1>1, <1>2, <2>1, <2>2, <2>3 DEF DecisionHolds, Oldest
<1> QED BY <1>3, <1>4, <1>5, <1>6, WriteKinds

\* An upgrade the queue does not block is the oldest of its instance, although the
\* list it was checked against is stale.
LEMMA NotBlockedIsOldest ==
  ASSUME TypeOK, QueueInv, pc # "idle", Exists(upgrades[key]), ~Blocked(key, up, cache)
  PROVE  Oldest(key, up.created)
<1> SUFFICES ASSUME NEW m \in Names, Siblings(key, m), Exists(upgrades[m]),
                    upgrades[m].created < up.created
             PROVE  upgradePhaseTerminal(upgrades[m].phase)
  BY DEF Oldest
<1>1. key \in Names /\ cache[key] \in Upgrade /\ cache[m] \in Upgrade
  BY DEF TypeOK
<1>2. Exists(cache[key]) /\ up.created = upgrades[key].created
  BY DEF QueueInv, DecisionHolds, Evolves
<1>3. cache[key].created = up.created
  BY <1>1, <1>2 DEF QueueInv, CacheTrails, Past, Evolves
<1>4. Exists(cache[m])
  BY <1>1, <1>2, <1>3 DEF QueueInv, CacheTrails, Past
<1>5. Evolves(cache[m], upgrades[m])
  BY <1>1, <1>4 DEF QueueInv, CacheTrails, Past
<1>6. upgradeOlder(m, cache[m], key, up)
  BY <1>5 DEF Evolves, upgradeOlder
<1>7. cache[m].phase \notin {"", "Pending", "Running"}
  BY <1>1, <1>4, <1>6 DEF Blocked, Siblings
<1>8. cache[m].phase \in {"Succeeded", "Failed"}
  BY <1>1, <1>7 DEF Upgrade, Phase
<1> QED BY <1>5, <1>8 DEF Evolves, upgradePhaseTerminal

LEMMA DecisionStep ==
  ASSUME ~Ties, ~Reuse, TypeOK, TypeOK', QueueInv, [Next]_vars
  PROVE  DecisionHolds'
<1> USE DEF apiVars, userVars, cacheVars
<1>1. CASE pc' = "idle"
  BY <1>1 DEF DecisionHolds
<1>2. ASSUME NEW n \in Names, Begin(n) PROVE DecisionHolds'
  <2>1. CASE UNCHANGED worker
    BY <1>2, <2>1, DecisionKept DEF Begin
  <2>2. CASE /\ Exists(cache[n]) /\ pc' = FirstStep(cache[n])
             /\ key' = n /\ up' = cache[n]
    <3>1. UNCHANGED <<upgrades, cache, used, clock>>
      BY <1>2 DEF Begin
    <3>2. n \in used /\ cache[n].created <= clock
      BY <2>2 DEF QueueInv, CacheTrails, Known
    <3>3. Exists(upgrades[n]) => Evolves(cache[n], upgrades[n])
      BY <2>2 DEF QueueInv, CacheTrails, Past
    <3>4. /\ FirstStep(cache[n]) \notin {"write", "create"}
          /\ FirstStep(cache[n]) = "monitor" => cache[n].phase = "Running"
      BY DEF FirstStep, AfterBackfill
    <3> QED BY <2>2, <3>1, <3>2, <3>3, <3>4 DEF DecisionHolds
  <2> QED BY <1>2, <2>1, <2>2 DEF Begin
<1>3. CASE BackfillConditions
  <2>1. CASE GoTo(AfterBackfill(up))
    <3>0. /\ key' = key /\ up' = up /\ key \in Names /\ up \in Upgrade
          /\ \A n \in Names : upgrades[n] \in Upgrade /\ upgrades'[n] \in Upgrade
      BY <1>3, <2>1 DEF GoTo, TypeOK, BackfillConditions
    <3>1. UNCHANGED <<cache, used, clock>> /\ pc # "idle"
      BY <1>3 DEF BackfillConditions
    <3>2. /\ AfterBackfill(up) \notin {"write", "create"}
          /\ AfterBackfill(up) = "monitor" => up.phase = "Running"
      BY DEF AfterBackfill
    <3>3. Exists(upgrades'[key]) => Exists(upgrades[key]) /\ Evolves(upgrades[key], upgrades'[key])
      BY <1>3, BackfillEffect DEF Exists, Evolves
    <3>4. Exists(upgrades'[key]) => Exists(cache[key]) /\ Evolves(up, upgrades'[key])
      BY <3>0, <3>1, <3>3, EvolvesTrans DEF QueueInv, DecisionHolds
    <3>5. key \in used /\ up.created <= clock
      BY <3>1 DEF QueueInv, DecisionHolds
    <3> QED BY <2>1, <3>0, <3>1, <3>2, <3>4, <3>5 DEF DecisionHolds, GoTo
  <2>2. CASE Return(FALSE)
    BY <1>1, <2>2 DEF Return
  <2> QED BY <1>3, <2>1, <2>2 DEF BackfillConditions, ResumeAfterBackfill
<1>4. CASE Decide
  <2>0. /\ UNCHANGED <<upgrades, cache, used, clock, key, up>> /\ pc = "decide"
    BY <1>4 DEF Decide, PrepareWrite, GoTo
  <2>1. \/ pc' = "create" /\ ~Blocked(key, up, cache)
        \/ pc' = "write" /\ target' \in {"Failed", "Pending"}
    BY <1>4 DEF Decide, PrepareWrite, GoTo
  <2>2. Exists(upgrades[key]) /\ pc' = "create" => Oldest(key, up.created)
    BY <2>0, <2>1, NotBlockedIsOldest
  <2> QED BY <2>0, <2>1, <2>2 DEF QueueInv, DecisionHolds, Oldest
<1>5. CASE CreateJob
  <2>1. /\ UNCHANGED <<upgrades, cache, used, clock, key, up>> /\ pc = "create"
        /\ pc' = "write" /\ target' = "Running"
    BY <1>5 DEF CreateJob, PrepareWrite
  <2> QED BY <2>1 DEF QueueInv, DecisionHolds, Oldest
<1>6. CASE Monitor
  <2>1. CASE Return(TRUE)
    BY <1>1, <2>1 DEF Return
  <2>2. CASE \/ PrepareWrite("Failed", "JobFailed") \/ PrepareWrite("Succeeded", "Complete")
    <3>1. /\ UNCHANGED <<upgrades, cache, used, clock, key, up>> /\ pc = "monitor"
          /\ pc' = "write" /\ target' \in {"Failed", "Succeeded"}
      BY <1>6, <2>2 DEF Monitor, PrepareWrite
    <3> QED BY <3>1 DEF QueueInv, DecisionHolds
  <2> QED BY <1>6, <2>1, <2>2 DEF Monitor
<1>7. CASE WriteStatus \/ ConflictGivesUp \/ CallFails \/ CreateUnanswered \/ WriteUnanswered
           \/ Restart
  BY <1>1, <1>7 DEF WriteStatus, ConflictGivesUp, CallFails, CreateUnanswered,
                    WriteUnanswered, Restart, Return
<1>8. CASE DeliverUpgrades
  <2>1. UNCHANGED worker /\ UNCHANGED upgrades
    BY <1>8 DEF DeliverUpgrades
  <2>2. CacheTrails BY DEF QueueInv
  <2>3. \A n \in Names : Exists(upgrades[n]) /\ Exists(cache[n]) => Exists(cache'[n])
    BY <1>8, <2>2, DeliverTrails
  <2> QED BY <2>1, <2>3, DecisionKept
<1>9. CASE UNCHANGED worker /\ UNCHANGED cache
  BY <1>9, DecisionKept
<1>10. CASE \E n \in Names : DeliverJob(n) \/ DeleteJob(n) \/ CollectJob(n) \/ BackupTakesName(n)
                             \/ GraceEnds(n) \/ DeleteUpgrade(n)
  BY <1>9, <1>10 DEF DeliverJob, DeleteJob, CollectJob, BackupTakesName, GraceEnds, DeleteUpgrade
<1>11. CASE \/ \E i \in Instances : DeliverInstance(i)
            \/ \E i \in Instances, state \in InstanceStates : SetInstance(i, state)
            \/ \E n \in Names, spec \in Specs : CreateUpgrade(n, spec)
            \/ \E n \in Names, outcome \in {"complete", "failed"} : JobFinishes(n, outcome)
            \/ UNCHANGED vars
  BY <1>9, <1>11 DEF DeliverInstance, SetInstance, CreateUpgrade, JobFinishes, vars
<1> QED BY <1>2, <1>3, <1>4, <1>5, <1>6, <1>7, <1>8, <1>10, <1>11 DEF Next, Reconcile

LEMMA QueueInit == Init => QueueInv
<1> SUFFICES ASSUME Init PROVE QueueInv OBVIOUS
<1> DEFINE old(spec, phase) == [uid |-> 1, created |-> 0, spec |-> spec, phase |-> phase,
                                reason |-> "none"]
<1>1. \/ upgrades = [n \in Names |-> Absent]
      \/ \E n \in Names, spec \in Specs, phase \in LegacyPhases :
           /\ upgrades = [m \in Names |-> IF m = n THEN old(spec, phase) ELSE Absent]
           /\ used = {n}
  <2>1. InitObjects BY DEF Init
  <2>2. CASE \E n \in Names, spec \in Specs \ {"invalid"}, phase \in LegacyPhases :
               \E job \in LegacyJob(phase) :
                 /\ upgrades = [m \in Names |-> IF m = n THEN old(spec, phase) ELSE Absent]
                 /\ used = {n}
    BY <2>2
  <2> QED BY <2>1, <2>2 DEF InitObjects
<1>2. cache = upgrades /\ watch = <<>> /\ pc = "idle" /\ clock = 0
  BY DEF Init
<1>3. /\ Absent.uid = 0 /\ Absent.phase = ""
      /\ \A spec, phase : old(spec, phase).uid = 1 /\ old(spec, phase).created = 0
  BY DEF Absent
<1> HIDE DEF old
<1>4. \/ \A n \in Names : upgrades[n] = Absent
      \/ \E n \in Names : /\ \A m \in Names \ {n} : upgrades[m] = Absent
                          /\ upgrades[n].uid = 1 /\ upgrades[n].created = 0
                          /\ used = {n}
  <2>1. CASE upgrades = [n \in Names |-> Absent]
    BY <2>1
  <2>2. ASSUME NEW n \in Names, NEW spec \in Specs, NEW phase \in LegacyPhases,
               upgrades = [m \in Names |-> IF m = n THEN old(spec, phase) ELSE Absent],
               used = {n}
        PROVE  /\ \A m \in Names \ {n} : upgrades[m] = Absent
               /\ upgrades[n].uid = 1 /\ upgrades[n].created = 0
    <3>1. upgrades[n] = old(spec, phase) /\ \A m \in Names \ {n} : upgrades[m] = Absent
      BY <2>2
    <3> QED BY <1>3, <3>1
  <2> QED BY <1>1, <2>1, <2>2
<1>5. ASSUME NEW n \in Names, ~Exists(upgrades[n]) PROVE upgrades[n].phase = ""
  <2>1. upgrades[n].uid # 1
    BY <1>5 DEF Exists
  <2>2. upgrades[n] = Absent
    BY <1>4, <2>1
  <2> QED BY <1>3, <2>2
<1>6. \A n \in Names : Exists(upgrades[n]) =>
        /\ n \in used /\ upgrades[n].created = 0
        /\ \A m \in Names \ {n} : ~Exists(upgrades[m])
  BY <1>3, <1>4 DEF Exists
<1>7. Known(upgrades)
  <2>1. 0 <= 0 OBVIOUS
  <2> QED BY <1>2, <1>6, <2>1, Zenon DEF Known
<1>8. RunningIsOldest
  BY <1>5, <1>6, <1>7 DEF RunningIsOldest, Siblings
<1>9. upgrades \in Snapshot
  BY TypeInit DEF TypeOK, Snapshot
<1>10. CacheTrails
  <2>1. 1 .. Len(watch) = {} BY <1>2
  <2> QED BY <1>2, <1>7, <1>9, <2>1, PastOfItself DEF CacheTrails
<1> QED BY <1>2, <1>8, <1>10 DEF QueueInv, DecisionHolds

\* Stale caches never mislead the queue: QueueInv is inductive when no two upgrades are
\* created in the same second and no name is used again.
THEOREM QueueInvariant ==
  ASSUME ~Ties, ~Reuse
  PROVE  Safety => [](TypeOK /\ QueueInv)
<1>1. TypeOK /\ QueueInv /\ [Next]_vars => QueueInv'
  <2> SUFFICES ASSUME TypeOK, QueueInv, [Next]_vars PROVE QueueInv' OBVIOUS
  <2>1. TypeOK' BY TypeStep
  <2>2. RunningIsOldest' BY <2>1, OldestStep
  <2>3. CacheTrails' BY <2>1, <2>2, TrailsStep
  <2>4. DecisionHolds' BY <2>1, DecisionStep
  <2> QED BY <2>2, <2>3, <2>4 DEF QueueInv
<1> QED BY <1>1, TypeInit, TypeStep, QueueInit, PTL DEF Safety

\* Under the same conditions two upgrades of one instance are never both Running.
THEOREM OneAtATime ==
  ASSUME ~Ties, ~Reuse
  PROVE  Safety => []OneRunning
<1>1. TypeOK /\ QueueInv => OneRunning
  BY DEF QueueInv, RunningIsOldest, OneRunning, upgradePhaseTerminal
<1> QED BY <1>1, QueueInvariant, PTL

-----------------------------------------------------------------------------
(* The controller implements the queue. *)

LEMMA QueueStateFacts ==
  ASSUME NEW o \in Upgrade
  PROVE  /\ ~Exists(o) => QueueState(o) = "absent"
         /\ Exists(o) /\ o.phase \in {"", "Pending"} => QueueState(o) = "waiting"
         /\ Exists(o) /\ o.phase = "Running" => QueueState(o) = "running"
         /\ Exists(o) /\ o.phase = "Succeeded" => QueueState(o) = "succeeded"
         /\ Exists(o) /\ o.phase = "Failed" => QueueState(o) = "failed"
         /\ o.phase \in {"", "Pending", "Running", "Succeeded", "Failed"}
         /\ QueueState(o) \in {"absent", "waiting", "running", "succeeded", "failed"}
<1>1. o.phase \in {"", "Pending", "Running", "Succeeded", "Failed"}
  BY DEF Upgrade, Phase
<1>2. CASE ~Exists(o)
  BY <1>1, <1>2 DEF QueueState
<1>3. CASE Exists(o) /\ o.phase = "Running"
  BY <1>1, <1>3 DEF QueueState
<1>4. CASE Exists(o) /\ o.phase = "Succeeded"
  BY <1>1, <1>4 DEF QueueState
<1>5. CASE Exists(o) /\ o.phase = "Failed"
  BY <1>1, <1>5 DEF QueueState
<1>6. CASE Exists(o) /\ o.phase \in {"", "Pending"}
  BY <1>1, <1>6 DEF QueueState
<1> QED BY <1>1, <1>2, <1>3, <1>4, <1>5, <1>6

\* The states a snapshot shows to the abstract queue.
StatesOf(u) == [n \in Names |-> QueueState(u[n])]
TicketsOf(u) == [n \in Names |-> u[n].created]

\* A change of one upgrade is a change of one entry.
LEMMA OneEntry ==
  ASSUME TypeOK, TypeOK', NEW n \in Names,
         \A m \in Names \ {n} : upgrades'[m] = upgrades[m]
  PROVE  /\ StatesOf(upgrades') = [StatesOf(upgrades) EXCEPT ![n] = QueueState(upgrades'[n])]
         /\ TicketsOf(upgrades') = [TicketsOf(upgrades) EXCEPT ![n] = upgrades'[n].created]
  BY DEF StatesOf, TicketsOf

LEMMA QueueSimulation ==
  ASSUME ~Ties, ~Reuse, TypeOK, TypeOK', QueueInv, [Next]_vars
  PROVE  [Q!Next]_(Q!vars)
<1>0. /\ \A n \in Names : upgrades[n] \in Upgrade /\ upgrades'[n] \in Upgrade
      /\ clock \in Nat /\ clock' \in Nat
  BY DEF TypeOK
<1>1. CASE UNCHANGED <<upgrades, used, clock>>
  BY <1>1 DEF Q!vars
<1>2. ASSUME NEW n \in Names, Moves(n), Rightly(n) PROVE [Q!Next]_(Q!vars)
  <2>1. /\ StatesOf(upgrades') = [StatesOf(upgrades) EXCEPT ![n] = QueueState(upgrades'[n])]
        /\ TicketsOf(upgrades') = TicketsOf(upgrades) /\ clock' = clock
    BY <1>2, OneEntry DEF Moves, Evolves, TicketsOf
  <2>2. Exists(upgrades[n]) /\ Exists(upgrades'[n])
    BY <1>2 DEF Moves
  <2>3. CASE QueueState(upgrades'[n]) = QueueState(upgrades[n])
    <3>1. StatesOf(upgrades') = StatesOf(upgrades)
      BY <2>1, <2>3 DEF StatesOf
    <3> QED BY <2>1, <3>1 DEF Q!vars, StatesOf, TicketsOf
  <2>4. CASE upgrades[n].phase \in {"", "Pending"} /\ upgrades'[n].phase = "Running"
    <3>1. /\ QueueState(upgrades[n]) = "waiting" /\ QueueState(upgrades'[n]) = "running"
          /\ Oldest(n, upgrades[n].created)
      BY <1>0, <1>2, <2>2, <2>4, QueueStateFacts DEF Rightly
    <3>2. ASSUME NEW m \in Names \ {n}, InstanceOf[m] = InstanceOf[n]
          PROVE  /\ QueueState(upgrades[m]) # "running"
                 /\ QueueState(upgrades[m]) = "waiting"
                      => upgrades[n].created < upgrades[m].created
      <4>1. Siblings(n, m) /\ Siblings(m, n) BY <3>2 DEF Siblings
      <4>2. upgrades[m].created \in Nat /\ upgrades[n].created \in Nat
        BY <1>0 DEF Upgrade
      <4>3. CASE Exists(upgrades[m]) /\ ~upgradePhaseTerminal(upgrades[m].phase)
        <5>1. ~(upgrades[m].created < upgrades[n].created)
          BY <3>1, <4>1, <4>3 DEF Oldest
        <5>2. upgrades[m].created # upgrades[n].created
          BY <2>2, <4>1, <4>3 DEF QueueInv, RunningIsOldest, Siblings
        <5>3. upgrades[n].created < upgrades[m].created
          BY <4>2, <5>1, <5>2
        <5>4. upgrades[m].phase # "Running"
          <6>1. upgrades[m].phase = "Running" => upgrades[m].created < upgrades[n].created
            BY <2>2, <2>4, <4>1 DEF QueueInv, RunningIsOldest, upgradePhaseTerminal
          <6> QED BY <5>1, <6>1
        <5> QED BY <1>0, <4>3, <5>3, <5>4, QueueStateFacts
      <4> QED BY <1>0, <4>3, QueueStateFacts DEF upgradePhaseTerminal
    <3>3. Q!Start(n)
      BY <2>1, <3>1, <3>2 DEF Q!Start, Q!MayStart, Q!Rivals, StatesOf, TicketsOf
    <3> QED BY <3>3 DEF Q!Next
  <2>5. CASE \/ upgrades[n].phase = "Running" /\ upgrades'[n].phase \in {"Succeeded", "Failed"}
             \/ upgrades[n].phase \in {"", "Pending"} /\ upgrades'[n].phase = "Failed"
    <3>1. /\ QueueState(upgrades'[n]) \in {"succeeded", "failed"}
          /\ \/ QueueState(upgrades[n]) = "running"
             \/ QueueState(upgrades[n]) = "waiting" /\ QueueState(upgrades'[n]) = "failed"
      BY <1>0, <2>2, <2>5, QueueStateFacts
    <3>2. Q!End(n, QueueState(upgrades'[n]))
      BY <2>1, <3>1 DEF Q!End, StatesOf, TicketsOf
    <3> QED BY <3>1, <3>2 DEF Q!Next
  <2>6. \/ QueueState(upgrades'[n]) = QueueState(upgrades[n])
        \/ upgrades[n].phase \in {"", "Pending"} /\ upgrades'[n].phase = "Running"
        \/ upgrades[n].phase = "Running" /\ upgrades'[n].phase \in {"Succeeded", "Failed"}
        \/ upgrades[n].phase \in {"", "Pending"} /\ upgrades'[n].phase = "Failed"
    <3>1. /\ upgrades[n].phase \in {"", "Pending", "Running", "Succeeded", "Failed"}
          /\ upgrades'[n].phase \in {"", "Pending", "Running", "Succeeded", "Failed"}
      BY <1>0, QueueStateFacts
    <3>2. CASE upgrades'[n].phase = upgrades[n].phase
      BY <1>0, <2>2, <3>1, <3>2, QueueStateFacts
    <3>3. CASE upgrades[n].phase \in {"", "Pending"} /\ upgrades'[n].phase \in {"", "Pending"}
      BY <1>0, <2>2, <3>3, QueueStateFacts
    <3>4. CASE upgrades[n].phase \in {"", "Pending"}
      BY <1>2, <3>1, <3>3, <3>4 DEF Rightly
    <3>5. CASE upgrades[n].phase = "Running"
      BY <1>2, <3>1, <3>2, <3>5 DEF Moves, Evolves
    <3>6. CASE upgrades[n].phase \in {"Succeeded", "Failed"}
      BY <1>2, <3>2, <3>6 DEF Rightly, upgradePhaseTerminal
    <3> QED BY <3>1, <3>4, <3>5, <3>6
  <2> QED BY <2>3, <2>4, <2>5, <2>6
<1>3. ASSUME NEW n \in Names, Creates(n) PROVE Q!Next
  <2>1. /\ StatesOf(upgrades') = [StatesOf(upgrades) EXCEPT ![n] = "waiting"]
        /\ TicketsOf(upgrades') = [TicketsOf(upgrades) EXCEPT ![n] = clock + 1]
        /\ clock' = clock + 1 /\ QueueState(upgrades[n]) = "absent"
    BY <1>0, <1>3, OneEntry, QueueStateFacts DEF Creates
  <2>2. Q!Submit(n)
    BY <1>0, <2>1 DEF Q!Submit, StatesOf, TicketsOf
  <2> QED BY <2>2 DEF Q!Next
<1>4. ASSUME NEW n \in Names, Deletes(n) PROVE Q!Next
  <2>1. /\ StatesOf(upgrades') = [StatesOf(upgrades) EXCEPT ![n] = "absent"]
        /\ TicketsOf(upgrades') = [TicketsOf(upgrades) EXCEPT ![n] = 0]
        /\ clock' = clock /\ QueueState(upgrades[n]) # "absent"
    BY <1>0, <1>4, OneEntry, QueueStateFacts DEF Deletes
  <2>2. Q!Withdraw(n)
    BY <2>1 DEF Q!Withdraw, StatesOf, TicketsOf
  <2> QED BY <2>2 DEF Q!Next
<1> QED BY <1>1, <1>2, <1>3, <1>4, WriteKinds

LEMMA QueueSimulationInit == Init => Q!Init
<1> SUFFICES ASSUME Init PROVE Q!Init OBVIOUS
<1>1. TypeOK /\ QueueInv /\ clock = 0
  BY TypeInit, QueueInit DEF Init
<1>2. \A n \in Names : upgrades[n] \in Upgrade
  BY <1>1 DEF TypeOK
<1>3. \A n \in Names : upgrades[n].created = 0
  <2>1. \/ upgrades = [n \in Names |-> Absent]
        \/ \E n \in Names, spec \in Specs, phase \in LegacyPhases :
             upgrades = [m \in Names |->
               IF m = n THEN [uid |-> 1, created |-> 0, spec |-> spec,
                              phase |-> phase, reason |-> "none"] ELSE Absent]
    BY Zenon DEF Init, InitObjects
  <2>2. Absent.created = 0 BY DEF Absent
  <2>3. CASE upgrades = [n \in Names |-> Absent] BY <2>2, <2>3
  <2>4. ASSUME NEW n \in Names, NEW spec \in Specs, NEW phase \in LegacyPhases,
               upgrades = [m \in Names |->
                 IF m = n THEN [uid |-> 1, created |-> 0, spec |-> spec,
                                phase |-> phase, reason |-> "none"] ELSE Absent]
        PROVE  \A m \in Names : upgrades[m].created = 0
    BY <2>2, <2>4
  <2> QED BY <2>1, <2>3, <2>4
<1>4. \A n \in Names : QueueState(upgrades[n]) # "absent" => Exists(upgrades[n])
  BY <1>2, QueueStateFacts
<1>5. \A n, m \in Names : n # m => ~Exists(upgrades[n]) \/ ~Exists(upgrades[m])
  BY <1>1, <1>3 DEF QueueInv, RunningIsOldest
<1>6. \A n \in Names : QueueState(upgrades[n]) \in Q!State
  BY <1>2, QueueStateFacts DEF Q!State
<1> QED BY <1>1, <1>3, <1>4, <1>5, <1>6 DEF Q!Init

\* The controller, its caches, conflicts, faults and restarts implement the plain queue:
\* in order of creation, one at a time, each ended once.
THEOREM ControllerImplementsQueue ==
  ASSUME ~Ties, ~Reuse
  PROVE  Safety => ImplementsQueue
<1>1. TypeOK /\ TypeOK' /\ QueueInv /\ [Next]_vars => [Q!Next]_(Q!vars)
  BY QueueSimulation
<1> QED BY <1>1, QueueSimulationInit, QueueInvariant, PTL
        DEF Safety, ImplementsQueue, Q!Spec
=============================================================================
