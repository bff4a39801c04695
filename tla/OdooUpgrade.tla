---------------------------- MODULE OdooUpgrade ----------------------------
(***************************************************************************)
(* The OdooUpgrade controller: one worker reconciles OdooUpgrade objects   *)
(* against an API server it reads through informer caches.                 *)
(*                                                                         *)
(* Every read (Get, List) is served by a cache that trails the API server; *)
(* every write goes to the API server and is refused when the copy it was  *)
(* computed from is not the current one (resourceVersion).  The caches     *)
(* advance on their own, in the order of the writes.  A reconcile is split *)
(* at each of its API calls, so users, the Job controller, the garbage     *)
(* collector and the informers interleave with it.                         *)
(***************************************************************************)
EXTENDS Integers, Sequences

CONSTANTS
    Names,           \* names of OdooUpgrades; their order is the order of the strings
    Instances,       \* names of OdooInstances
    InstanceOf,      \* spec.instanceRef.name of the upgrade with a given name
    InstanceStates,  \* the states an instance may take, of InstanceState below
    Specs,           \* the specs users submit, of UpgradeSpec below
    LegacyPhases,    \* the phases of an upgrade that predates conditions
    MaxUid,          \* bound: OdooUpgrades created in a behaviour
    MaxFaults,       \* bound: restarts, failed or unanswered calls, deletions
    Shared,          \* names an OdooBackup has too: it uses the Job name `<name>-run`
    Ties,            \* may two upgrades be created in the same second?
    Reuse            \* may the name of a deleted upgrade be used again?

UpgradeSpec == {"own", "inherit", "invalid"}
InstanceState == {"absent", "db", "nodb"}
Phase == {"", "Pending", "Running", "Succeeded", "Failed"}
\* Reason of the Succeeded condition; "none": the object has no conditions.
Reason == {"none", "Pending", "InstanceNotFound", "Running", "Complete",
           "JobFailed", "InvalidSpec"}

ASSUME NamesAssumption == Names \subseteq Nat \ {0} /\ Shared \subseteq Names
ASSUME InstanceOfAssumption == InstanceOf \in [Names -> Instances]
ASSUME DomainAssumption == /\ InstanceStates \subseteq InstanceState
                           /\ Specs \subseteq UpgradeSpec
                           /\ LegacyPhases \subseteq Phase \ {""}
ASSUME BoundsAssumption == MaxUid \in Nat \ {0} /\ MaxFaults \in Nat
ASSUME FlagsAssumption == Ties \in BOOLEAN /\ Reuse \in BOOLEAN

(***************************************************************************)
(* An OdooUpgrade: metadata.uid and creationTimestamp (whole seconds), the *)
(* part of its spec the controller decides on, status.phase and the reason *)
(* in status.conditions.  status.jobName is set exactly when Running is    *)
(* first written and always names the Job of this upgrade's name, so it is *)
(* not stored; messages and completion times are left out.                 *)
(***************************************************************************)
Upgrade == [uid : 0 .. MaxUid, created : Nat, spec : UpgradeSpec,
            phase : Phase, reason : Reason]

Absent == [uid |-> 0, created |-> 0, spec |-> "own", phase |-> "", reason |-> "none"]
Exists(o) == o.uid # 0

\* The owner of a Job that the OdooBackup of the same name created.
ABackup == MaxUid + 1

\* The Job `<name>-run`: the uid of its controller reference and its outcome.
Job == [owner : 0 .. MaxUid + 1, state : {"active", "complete", "failed"}]
NoJob == [owner |-> 0, state |-> "active"]
JobExists(j) == j.owner # 0

VARIABLES
    upgrades,   \* the OdooUpgrades in the API server
    watch,      \* their states after each write the informer has not delivered yet
    cache,      \* the informer's copy of upgrades
    instances,  \* the OdooInstances in the API server
    instCache,  \* the informer's copy of instances
    jobs,       \* the Jobs `<name>-run` in the API server, by upgrade name
    jobCache,   \* the informer's copy of jobs
    queue,      \* the controller's work queue (delayed requeues included)
    pc,         \* where the worker is in Reconcile
    key,        \* the name it reconciles, 0 when idle
    up,         \* the copy of the upgrade it read first
    target,     \* the phase it is about to write
    why,        \* the reason it is about to write
    inGrace,    \* uids whose status.startTime is less than upgradeJobGrace ago
    clock,      \* the current second
    nextUid,    \* the uid of the next upgrade
    used,       \* names that were ever used
    faults,     \* faults and deletions so far
    done        \* history: <<name, owner>> of the Jobs that ran to completion

apiVars == <<upgrades, watch, instances, jobs>>
cacheVars == <<cache, instCache, jobCache>>
worker == <<pc, key, up, target, why>>
userVars == <<clock, nextUid, used>>
vars == <<apiVars, cacheVars, worker, queue, inGrace, userVars, faults, done>>

-----------------------------------------------------------------------------
(* Pure parts of the controller. *)

upgradePhaseTerminal(phase) == phase \in {"Succeeded", "Failed"}

\* Mutant of upgradeOlder: the queue is ordered by name.
upgradeOlder_ByName(m, a, n, b) == m < n

\* The age order of the queue: creation time, then name.
upgradeOlder(m, a, n, b) ==
    \/ a.created < b.created
    \/ a.created = b.created /\ m < n

\* Mutant of Blocked: a Running sibling does not block.
Blocked_NotByRunning(n, candidate, all) ==
    \E m \in Names \ {n} :
        /\ Exists(all[m]) /\ InstanceOf[m] = InstanceOf[n]
        /\ all[m].phase \in {"", "Pending"} /\ upgradeOlder(m, all[m], n, candidate)

\* Mutant of Blocked: an older sibling without a phase yet does not block.
Blocked_NotByNew(n, candidate, all) ==
    \E m \in Names \ {n} :
        /\ Exists(all[m]) /\ InstanceOf[m] = InstanceOf[n]
        /\ \/ all[m].phase = "Running"
           \/ all[m].phase = "Pending" /\ upgradeOlder(m, all[m], n, candidate)

\* upgradeDecideStart over a list of upgrades: does a sibling of n block it?
Blocked(n, candidate, all) ==
    \E m \in Names \ {n} :
        /\ Exists(all[m])
        /\ InstanceOf[m] = InstanceOf[n]
        /\ \/ all[m].phase = "Running"
           \/ /\ all[m].phase \in {"", "Pending"}
              /\ upgradeOlder(m, all[m], n, candidate)

\* The database the upgrade runs on is its own, else its instance's.
HasDatabase(spec, instance) == spec = "own" \/ instance = "db"

\* The reason upgradeConditions derives from a phase when the caller gives none.
DefaultReason(phase) ==
    CASE phase = "Succeeded" -> "Complete"
      [] phase = "Running"   -> "Running"
      [] phase = "Failed"    -> "JobFailed"
      [] OTHER               -> "Pending"

-----------------------------------------------------------------------------
(* The API server accepts a new state of the OdooUpgrades. *)
Store(new) ==
    /\ upgrades' = new
    /\ watch' = Append(watch, new)

(* How a reconcile goes on. *)
GoTo(place) == pc' = place /\ UNCHANGED <<key, up, target, why>>

\* Mutant of PrepareWrite: phase and reason are swapped.
PrepareWrite_Swapped(phase, reason) ==
    /\ pc' = "write" /\ target' = reason /\ why' = phase
    /\ UNCHANGED <<key, up>>

PrepareWrite(phase, reason) ==
    /\ pc' = "write" /\ target' = phase /\ why' = reason
    /\ UNCHANGED <<key, up>>

\* Reconcile returns; a requeue puts the name back, now or after a delay.
Return(requeue) ==
    /\ pc' = "idle" /\ key' = 0 /\ up' = Absent /\ target' = "" /\ why' = "none"
    /\ queue' = IF requeue THEN queue \cup {key} ELSE queue

\* Mutant of Requeued: a waiting upgrade is not looked at again.
Requeued_OnlyRunning == target = "Running"

\* The requeue a status write ends with: RequeueAfter for Pending and Running.
Requeued == target \in {"Pending", "Running"}

-----------------------------------------------------------------------------
(* Reconcile. *)

\* The part of Reconcile that follows the backfill, by the phase first read.
AfterBackfill(o) ==
    CASE o.phase = "Running"            -> "monitor"
      [] upgradePhaseTerminal(o.phase)  -> "idle"
      [] OTHER                          -> "decide"

\* Mutant of FirstStep: finished upgrades are left without conditions.
FirstStep_SkipsFinished(o) ==
    IF o.phase \in {"Pending", "Running"} /\ o.reason = "none" THEN "backfill"
                                                            ELSE AfterBackfill(o)

FirstStep(o) ==
    IF o.phase # "" /\ o.reason = "none" THEN "backfill" ELSE AfterBackfill(o)

\* The worker takes a name and reads the upgrade; nothing to do when it is gone
\* or finished.
Begin(n) ==
    /\ pc = "idle" /\ n \in queue
    /\ queue' = queue \ {n}
    /\ IF Exists(cache[n]) /\ FirstStep(cache[n]) # "idle"
         THEN /\ pc' = FirstStep(cache[n]) /\ key' = n /\ up' = cache[n]
              /\ UNCHANGED <<target, why>>
         ELSE UNCHANGED worker
    /\ UNCHANGED <<apiVars, cacheVars, inGrace, userVars, faults, done>>

\* Reconcile goes on with the copy it read before the backfill.
ResumeAfterBackfill ==
    IF AfterBackfill(up) = "idle"
      THEN Return(FALSE)
      ELSE GoTo(AfterBackfill(up)) /\ UNCHANGED queue

\* upgradeBackfillConditions: the conditions of an object that predates them.
BackfillNeeded(o) == Exists(o) /\ o.phase # "" /\ o.reason = "none"

BackfillConditions ==
    /\ pc = "backfill"
    /\ \/ /\ ~BackfillNeeded(cache[key]) \/ ~Exists(upgrades[key])
          /\ UNCHANGED <<upgrades, watch>>
       \/ /\ BackfillNeeded(cache[key])
          /\ cache[key] = upgrades[key]
          /\ Store([upgrades EXCEPT ![key].reason = DefaultReason(cache[key].phase)])
    /\ ResumeAfterBackfill
    /\ UNCHANGED <<instances, jobs, cacheVars, inGrace, userVars, faults, done>>

\* Validate, look up the instance, take the queue's decision.
Decide ==
    /\ pc = "decide"
    /\ LET inst == instCache[InstanceOf[key]] IN
         \/ /\ up.spec = "invalid"
            /\ PrepareWrite("Failed", "InvalidSpec")
         \/ /\ up.spec # "invalid" /\ inst = "absent"
            /\ PrepareWrite("Pending", "InstanceNotFound")
         \/ /\ up.spec # "invalid" /\ inst # "absent"
            /\ Blocked(key, up, cache)
            /\ PrepareWrite("Pending", "Pending")
         \/ /\ up.spec # "invalid" /\ inst # "absent"
            /\ ~Blocked(key, up, cache)
            /\ IF HasDatabase(up.spec, inst)
                 THEN GoTo("create")
                 ELSE PrepareWrite("Failed", "InvalidSpec")
    /\ UNCHANGED <<apiVars, cacheVars, queue, inGrace, userVars, faults, done>>

\* The Job after a Create: the existing one, whoever owns it, or a new one.
JobAfterCreate == IF JobExists(jobs[key]) THEN jobs[key]
                                          ELSE [owner |-> up.uid, state |-> "active"]

\* upgradeStart creates the Job, or adopts the one that has its name.
CreateJob ==
    /\ pc = "create"
    /\ jobs' = [jobs EXCEPT ![key] = JobAfterCreate]
    /\ PrepareWrite("Running", "Running")
    /\ UNCHANGED <<upgrades, watch, instances, cacheVars, queue, inGrace, userVars,
                   faults, done>>

\* Mutant of Monitor: a Job that has ended has succeeded.
Monitor_EndedIsComplete ==
    /\ pc = "monitor"
    /\ LET job == jobCache[key] IN
         \/ /\ ~JobExists(job) /\ up.uid \notin inGrace
            /\ PrepareWrite("Failed", "JobFailed") /\ UNCHANGED queue
         \/ /\ JobExists(job) /\ job.state # "active"
            /\ PrepareWrite("Succeeded", "Complete") /\ UNCHANGED queue
         \/ /\ IF JobExists(job) THEN job.state = "active" ELSE up.uid \in inGrace
            /\ Return(TRUE)
    /\ UNCHANGED <<apiVars, cacheVars, inGrace, userVars, faults, done>>

\* upgradeMonitor: the cached Job decides what is written, if anything.
Monitor ==
    /\ pc = "monitor"
    /\ LET job == jobCache[key] IN
         \/ /\ ~JobExists(job) /\ up.uid \notin inGrace
            /\ PrepareWrite("Failed", "JobFailed") /\ UNCHANGED queue
         \/ /\ JobExists(job) /\ job.state = "complete"
            /\ PrepareWrite("Succeeded", "Complete") /\ UNCHANGED queue
         \/ /\ JobExists(job) /\ job.state = "failed"
            /\ PrepareWrite("Failed", "JobFailed") /\ UNCHANGED queue
         \/ /\ IF JobExists(job) THEN job.state = "active" ELSE up.uid \in inGrace
            /\ Return(TRUE)
    /\ UNCHANGED <<apiVars, cacheVars, inGrace, userVars, faults, done>>

\* Mutant of WriteSkipped: an outcome may be overwritten.
WriteSkipped_NotFinal(cur) ==
    \/ ~Exists(cur)
    \/ target = "Pending" /\ cur.phase = "Running"
    \/ target = cur.phase /\ why = cur.reason

\* upgradeWriteStatus, by the copy cur it reads back from the cache.
WriteSkipped(cur) ==
    \/ ~Exists(cur)
    \/ upgradePhaseTerminal(cur.phase)
    \/ target = "Pending" /\ cur.phase = "Running"
    \/ target = cur.phase /\ why = cur.reason

ApplyWrite ==
    /\ ~WriteSkipped(cache[key])
    /\ cache[key] = upgrades[key]
    /\ Store([upgrades EXCEPT ![key].phase = target, ![key].reason = why])
    /\ inGrace' = IF target = "Running" /\ cache[key].phase # "Running"
                    THEN inGrace \cup {cache[key].uid} ELSE inGrace

\* The write is done, is not needed, or meets a deleted upgrade (NotFound is ignored).
WriteStatus ==
    /\ pc = "write"
    /\ \/ ApplyWrite
       \/ /\ WriteSkipped(cache[key]) \/ ~Exists(upgrades[key])
          /\ UNCHANGED <<upgrades, watch, inGrace>>
    /\ Return(Requeued)
    /\ UNCHANGED <<instances, jobs, cacheVars, userVars, faults, done>>

\* RetryOnConflict gives up on a cache that stays behind; Reconcile returns the
\* error and is run again.  (A retry that succeeds is the write itself, later.)
ConflictGivesUp ==
    /\ \/ pc = "backfill" /\ BackfillNeeded(cache[key])
       \/ pc = "write" /\ ~WriteSkipped(cache[key])
    /\ Exists(upgrades[key]) /\ cache[key] # upgrades[key]
    /\ Return(TRUE)
    /\ UNCHANGED <<apiVars, cacheVars, inGrace, userVars, faults, done>>

-----------------------------------------------------------------------------
(* Faults; they and the deletions below are bounded by MaxFaults. *)

Fault == faults < MaxFaults /\ faults' = faults + 1

\* An API call fails and Reconcile returns its error; nothing was changed.
CallFails ==
    /\ Fault
    /\ pc # "idle"
    /\ Return(TRUE)
    /\ UNCHANGED <<apiVars, cacheVars, inGrace, userVars, done>>

\* The Job is created but the answer is an error, so Running is not written.
CreateUnanswered ==
    /\ Fault
    /\ pc = "create"
    /\ jobs' = [jobs EXCEPT ![key] = JobAfterCreate]
    /\ Return(TRUE)
    /\ UNCHANGED <<upgrades, watch, instances, cacheVars, inGrace, userVars, done>>

\* The status is written but the answer is an error.
WriteUnanswered ==
    /\ Fault
    /\ pc = "write"
    /\ ApplyWrite
    /\ Return(TRUE)
    /\ UNCHANGED <<instances, jobs, cacheVars, userVars, done>>

\* The operator dies and starts again: fresh caches, every upgrade queued.
Restart ==
    /\ Fault
    /\ pc' = "idle" /\ key' = 0 /\ up' = Absent /\ target' = "" /\ why' = "none"
    /\ cache' = upgrades /\ watch' = <<>>
    /\ jobCache' = jobs /\ instCache' = instances
    /\ queue' = {n \in Names : Exists(upgrades[n])}
    /\ UNCHANGED <<upgrades, instances, jobs, inGrace, userVars, done>>

-----------------------------------------------------------------------------
(* The informers: For(OdooUpgrade) and Owns(Job) enqueue what changed; there *)
(* is no watch on OdooInstances.                                             *)

DeliverUpgrades ==
    /\ watch # <<>>
    /\ cache' = Head(watch) /\ watch' = Tail(watch)
    /\ queue' = queue \cup {n \in Names : cache[n] # Head(watch)[n]}
    /\ UNCHANGED <<upgrades, instances, jobs, instCache, jobCache, worker, inGrace,
                   userVars, faults, done>>

\* A Job of an OdooBackup is not owned by an OdooUpgrade and wakes none.
DeliverJob(n) ==
    /\ jobCache[n] # jobs[n]
    /\ jobCache' = [jobCache EXCEPT ![n] = jobs[n]]
    /\ queue' = IF {jobs[n].owner, jobCache[n].owner} \subseteq {0, ABackup}
                  THEN queue ELSE queue \cup {n}
    /\ UNCHANGED <<apiVars, cache, instCache, worker, inGrace, userVars, faults, done>>

DeliverInstance(i) ==
    /\ instCache[i] # instances[i]
    /\ instCache' = [instCache EXCEPT ![i] = instances[i]]
    /\ UNCHANGED <<apiVars, cache, jobCache, worker, queue, inGrace, userVars, faults,
                   done>>

-----------------------------------------------------------------------------
(* The cluster. *)

\* The Job's pod ends, at activeDeadlineSeconds at the latest.
JobFinishes(n, outcome) ==
    /\ JobExists(jobs[n]) /\ jobs[n].state = "active"
    /\ jobs' = [jobs EXCEPT ![n].state = outcome]
    /\ done' = IF outcome = "complete" THEN done \cup {<<n, jobs[n].owner>>} ELSE done
    /\ UNCHANGED <<upgrades, watch, instances, cacheVars, worker, queue, inGrace,
                   userVars, faults>>

\* A user, or ttlSecondsAfterFinished, removes a Job.
DeleteJob(n) ==
    /\ Fault
    /\ JobExists(jobs[n]) /\ jobs[n].owner \in {upgrades[n].uid, ABackup}
    /\ jobs' = [jobs EXCEPT ![n] = NoJob]
    /\ UNCHANGED <<upgrades, watch, instances, cacheVars, worker, queue, inGrace,
                   userVars, done>>

\* The garbage collector removes a Job whose owner is gone.
CollectJob(n) ==
    /\ jobs[n].owner \notin {0, ABackup, upgrades[n].uid}
    /\ jobs' = [jobs EXCEPT ![n] = NoJob]
    /\ UNCHANGED <<upgrades, watch, instances, cacheVars, worker, queue, inGrace,
                   userVars, faults, done>>

\* The one-shot OdooBackup of the same name starts: its Job has the same name.
BackupTakesName(n) ==
    /\ Fault
    /\ n \in Shared /\ ~JobExists(jobs[n])
    /\ jobs' = [jobs EXCEPT ![n] = [owner |-> ABackup, state |-> "active"]]
    /\ UNCHANGED <<upgrades, watch, instances, cacheVars, worker, queue, inGrace,
                   userVars, done>>

\* upgradeJobGrace passes.  The Job informer is assumed to lag by less than that:
\* by then it has delivered the Job.
GraceEnds(n) ==
    /\ Exists(upgrades[n]) /\ upgrades[n].uid \in inGrace
    /\ JobExists(jobs[n]) => JobExists(jobCache[n])
    /\ inGrace' = inGrace \ {upgrades[n].uid}
    /\ UNCHANGED <<apiVars, cacheVars, worker, queue, userVars, faults, done>>

-----------------------------------------------------------------------------
(* Users and the OdooInstance controller. *)

CreateUpgrade(n, spec) ==
    /\ ~Exists(upgrades[n]) /\ nextUid <= MaxUid
    /\ Reuse \/ n \notin used
    /\ \E second \in {clock, clock + 1} :
         /\ Ties \/ second = clock + 1
         /\ clock' = second
         /\ Store([upgrades EXCEPT ![n] = [uid |-> nextUid, created |-> second,
                                           spec |-> spec, phase |-> "",
                                           reason |-> "none"]])
    /\ nextUid' = nextUid + 1 /\ used' = used \cup {n}
    /\ UNCHANGED <<instances, jobs, cacheVars, worker, queue, inGrace, faults, done>>

DeleteUpgrade(n) ==
    /\ Fault
    /\ Exists(upgrades[n])
    /\ Store([upgrades EXCEPT ![n] = Absent])
    /\ UNCHANGED <<instances, jobs, cacheVars, worker, queue, inGrace, userVars, done>>

\* An instance is created, deleted, or its postgres.database is edited.
SetInstance(i, state) ==
    /\ instances[i] # state
    /\ instances' = [instances EXCEPT ![i] = state]
    /\ UNCHANGED <<upgrades, watch, jobs, cacheVars, worker, queue, inGrace, userVars,
                   faults, done>>

-----------------------------------------------------------------------------
(* The operator starts in a cluster that holds no upgrade, or one that a     *)
(* version without conditions left behind; no one else wrote its Job.        *)

LegacyJob(phase) ==
    CASE phase = "Running"   -> {[owner |-> 1, state |-> s] : s \in {"active", "complete", "failed"}}
      [] phase = "Succeeded" -> {[owner |-> 1, state |-> "complete"], NoJob}
      [] phase = "Failed"    -> {[owner |-> 1, state |-> "failed"], NoJob}
      [] OTHER               -> {NoJob}

InitObjects ==
    \/ /\ upgrades = [n \in Names |-> Absent] /\ jobs = [n \in Names |-> NoJob]
       /\ used = {} /\ nextUid = 1 /\ done = {}
    \/ \E n \in Names, spec \in Specs \ {"invalid"}, phase \in LegacyPhases :
         \E job \in LegacyJob(phase) :
           /\ upgrades = [m \in Names |->
                IF m = n THEN [uid |-> 1, created |-> 0, spec |-> spec,
                               phase |-> phase, reason |-> "none"] ELSE Absent]
           /\ jobs = [m \in Names |-> IF m = n THEN job ELSE NoJob]
           /\ done = IF phase = "Succeeded" \/ job.state = "complete" THEN {<<n, 1>>} ELSE {}
           /\ used = {n} /\ nextUid = 2

Init ==
    /\ InitObjects
    /\ instances \in [Instances -> InstanceStates]
    /\ watch = <<>> /\ cache = upgrades
    /\ instCache = instances /\ jobCache = jobs
    /\ queue = {n \in Names : Exists(upgrades[n])}
    /\ pc = "idle" /\ key = 0 /\ up = Absent /\ target = "" /\ why = "none"
    /\ inGrace = {} /\ clock = 0 /\ faults = 0

Reconcile ==
    \/ BackfillConditions \/ Decide \/ CreateJob \/ Monitor \/ WriteStatus

Next ==
    \/ \E n \in Names : Begin(n)
    \/ Reconcile
    \/ ConflictGivesUp
    \/ CallFails \/ CreateUnanswered \/ WriteUnanswered \/ Restart
    \/ DeliverUpgrades
    \/ \E n \in Names : DeliverJob(n)
    \/ \E i \in Instances : DeliverInstance(i)
    \/ \E n \in Names, outcome \in {"complete", "failed"} : JobFinishes(n, outcome)
    \/ \E n \in Names : DeleteJob(n)
    \/ \E n \in Names : CollectJob(n)
    \/ \E n \in Names : BackupTakesName(n)
    \/ \E n \in Names : GraceEnds(n)
    \/ \E n \in Names, spec \in Specs : CreateUpgrade(n, spec)
    \/ \E n \in Names : DeleteUpgrade(n)
    \/ \E i \in Instances, state \in InstanceStates : SetInstance(i, state)

(***************************************************************************)
(* Fairness.  A work queue that is never closed hands every name to the    *)
(* worker (strong, since the worker is busy in between), a reconcile runs  *)
(* on, a watch delivers, time passes, and a Job ends by its deadline.      *)
(* Nothing obliges a user to act or a fault to happen.                     *)
(***************************************************************************)
Fairness ==
    /\ \A n \in Names : SF_vars(Begin(n))
    /\ WF_vars(Reconcile)
    /\ WF_vars(DeliverUpgrades)
    /\ \A n \in Names : WF_vars(DeliverJob(n))
    /\ \A i \in Instances : WF_vars(DeliverInstance(i))
    /\ \A n \in Names : WF_vars(\E outcome \in {"complete", "failed"} : JobFinishes(n, outcome))
    /\ \A n \in Names : WF_vars(GraceEnds(n))

Safety == Init /\ [][Next]_vars
Spec == Safety /\ Fairness

-----------------------------------------------------------------------------
(* Correctness. *)

TypeOK ==
    /\ upgrades \in [Names -> Upgrade] /\ cache \in [Names -> Upgrade]
    /\ watch \in Seq([Names -> Upgrade])
    /\ instances \in [Instances -> InstanceState]
    /\ instCache \in [Instances -> InstanceState]
    /\ jobs \in [Names -> Job] /\ jobCache \in [Names -> Job]
    /\ queue \subseteq Names
    /\ pc \in {"idle", "backfill", "decide", "create", "monitor", "write"}
    /\ key \in Names \cup {0} /\ (pc # "idle" => key \in Names)
    /\ up \in Upgrade /\ target \in Phase /\ why \in Reason
    /\ inGrace \subseteq 0 .. MaxUid /\ done \subseteq Names \X (0 .. MaxUid + 1)
    /\ clock \in Nat /\ nextUid \in 1 .. MaxUid + 1 /\ faults \in 0 .. MaxFaults
    /\ used \subseteq Names

Siblings(n, m) == n # m /\ InstanceOf[n] = InstanceOf[m]

\* Upgrades of one instance run one at a time: two siblings are never both Running,
\* although the worker that started the second may have listed its siblings from a
\* cache that trails its own writes (upgradeDecideStart, upgradeWriteStatus).
OneRunning ==
    \A n, m \in Names :
        Siblings(n, m) => ~(upgrades[n].phase = "Running" /\ upgrades[m].phase = "Running")

\* The upgrade is being executed: it is not finished and its Job is active.
Executing(n) ==
    /\ Exists(upgrades[n]) /\ ~upgradePhaseTerminal(upgrades[n].phase)
    /\ jobs[n] = [owner |-> upgrades[n].uid, state |-> "active"]

\* The Jobs of two unfinished upgrades of one instance never overlap, also when a Job
\* was created and its Running status was lost, or when a reconcile with a stale copy
\* creates the Job again (upgradeStart).
OneExecuting ==
    \A n, m \in Names : Siblings(n, m) => ~(Executing(n) /\ Executing(m))

\* An upgrade reported Succeeded stands for a Job of its name that ran to completion, not
\* one that failed, disappeared or was only seen in a stale copy.  It need not be the
\* upgrade's own: upgradeStart takes AlreadyExists for success and upgradeMonitor finds
\* the Job by name, so it may be a backup's or, when the name is used again, that of the
\* deleted predecessor.
SucceededRanJob ==
    \A n \in Names : upgrades[n].phase = "Succeeded" =>
        \E owner \in 1 .. MaxUid + 1 :
            /\ <<n, owner>> \in done
            /\ \/ owner = upgrades[n].uid
               \/ owner = ABackup /\ n \in Shared
               \/ owner < upgrades[n].uid /\ Reuse

\* A finished upgrade keeps its phase and a started one is never put back in the
\* queue, whatever stale copy a reconcile decided on (upgradeWriteStatus).
NeverGoesBack ==
    [][\A n \in Names :
         upgrades'[n].uid = upgrades[n].uid =>
           /\ upgradePhaseTerminal(upgrades[n].phase) => upgrades'[n].phase = upgrades[n].phase
           /\ upgrades[n].phase = "Running" => upgrades'[n].phase \notin {"", "Pending"}]_vars

\* While the instance exists every upgrade ends, although nothing but its own delayed
\* requeue wakes an upgrade that waits for its instance or for a sibling.
Progress ==
    \A n \in Names :
        <>[](instances[InstanceOf[n]] # "absent")
          => ((Exists(upgrades[n]) /\ ~upgradePhaseTerminal(upgrades[n].phase))
                ~> (~Exists(upgrades[n]) \/ upgradePhaseTerminal(upgrades[n].phase)))

\* An upgrade left behind by a version without conditions gets them, whatever its
\* phase, also when the first attempt conflicts or the operator restarts
\* (upgradeBackfillConditions).
ConditionsBackfilled ==
    \A n \in Names :
        upgrades[n].phase # "" ~> (upgrades[n].reason # "none" \/ ~Exists(upgrades[n]))

-----------------------------------------------------------------------------
(* Why upgrades run one at a time when names are not reused and no two are   *)
(* created in the same second.                                               *)

\* b is a later version of a.
Evolves(a, b) ==
    /\ a.created = b.created
    /\ upgradePhaseTerminal(a.phase) => upgradePhaseTerminal(b.phase)
    /\ a.phase = "Running" => b.phase \notin {"", "Pending"}

\* s is an earlier state of the upgrades `all`: what it holds has only moved on since,
\* and it holds every upgrade of `all` that is older than one it holds.
Past(s, all) ==
    \A n \in Names : Exists(s[n]) =>
        /\ Exists(all[n]) => Evolves(s[n], all[n])
        /\ \A m \in Names : Exists(all[m]) /\ all[m].created < s[n].created => Exists(s[m])

\* The upgrades in s were created before now.
Known(s) == \A n \in Names : Exists(s[n]) => n \in used /\ s[n].created <= clock

\* The informer's copy, and what it still has to deliver, in order.
CacheTrails ==
    /\ Known(cache) /\ Past(cache, upgrades)
    /\ \A i \in 1 .. Len(watch) : Known(watch[i]) /\ Past(watch[i], upgrades)
    /\ \A n \in Names : Exists(upgrades[n]) =>
         /\ Exists(cache[n]) => \A i \in 1 .. Len(watch) : Exists(watch[i][n])
         /\ \A i, j \in 1 .. Len(watch) :
              i < j /\ Exists(watch[i][n]) => Exists(watch[j][n])

\* Nothing unfinished is older than n on its instance.
Oldest(n, created) ==
    \A m \in Names :
        Siblings(n, m) /\ Exists(upgrades[m]) /\ upgrades[m].created < created
          => upgradePhaseTerminal(upgrades[m].phase)

\* What the worker decided on still holds when it acts.
DecisionHolds ==
    pc # "idle" =>
      /\ key \in used /\ up.created <= clock
      /\ pc = "write" => target # ""
      /\ pc = "monitor" \/ (pc = "write" /\ target = "Succeeded") => up.phase = "Running"
      /\ Exists(upgrades[key]) =>
           /\ Exists(cache[key]) /\ Evolves(up, upgrades[key])
           /\ pc = "create" \/ (pc = "write" /\ target = "Running") => Oldest(key, up.created)

\* The running upgrade is the oldest of its instance, and the only one running.
RunningIsOldest ==
    /\ Known(upgrades)
    /\ \A n \in Names : upgrades[n].phase # "" => Exists(upgrades[n])
    /\ \A n, m \in Names : /\ n # m /\ Exists(upgrades[n]) /\ Exists(upgrades[m])
                           => upgrades[n].created # upgrades[m].created
    /\ \A n, m \in Names :
         /\ Siblings(n, m) /\ upgrades[n].phase = "Running"
         /\ Exists(upgrades[m]) /\ ~upgradePhaseTerminal(upgrades[m].phase)
         => upgrades[m].phase # "Running" /\ upgrades[n].created < upgrades[m].created

\* Every copy the controller works on, however stale, still supports what it does:
\* caches only trail, a decision to start stays right until the Running status is
\* written, and the running upgrade is the oldest unfinished one of its instance.
QueueInv == CacheTrails /\ DecisionHolds /\ RunningIsOldest

-----------------------------------------------------------------------------
(* The controller implements the queue of module UpgradeQueue. *)

QueueState(o) ==
    IF ~Exists(o) THEN "absent"
    ELSE CASE o.phase = "Running"   -> "running"
           [] o.phase = "Succeeded" -> "succeeded"
           [] o.phase = "Failed"    -> "failed"
           [] OTHER                 -> "waiting"

Q == INSTANCE UpgradeQueue WITH
       state  <- [n \in Names |-> QueueState(upgrades[n])],
       ticket <- [n \in Names |-> upgrades[n].created],
       next   <- clock

\* Seen through the API server alone, with its caches, conflicts, faults and restarts
\* hidden, the controller starts upgrades in the order of their creation, one at a
\* time, ends each at most once and never changes an outcome.
ImplementsQueue == Q!Spec
=============================================================================
