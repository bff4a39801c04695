----------------------------- MODULE OdooBackup -----------------------------
(***************************************************************************)
(* The OdooBackup controller.  A one-shot backup waits in a queue per      *)
(* instance, runs as the Job `<name>-run` and ends once; a scheduled one   *)
(* is a CronJob `<name>-sched` that follows its spec and its instance.     *)
(*                                                                         *)
(* Reads are served by informer caches that trail the API server, writes   *)
(* are refused when the copy they are computed from is not the current one *)
(* (see module OdooUpgrade, which has the same worker and queue).          *)
(***************************************************************************)
EXTENDS Integers, Sequences

CONSTANTS
    Names,           \* names of OdooBackups; their order is the order of the strings
    Instances,       \* names of OdooInstances
    InstanceOf,      \* spec.instanceRef.name of the backup with a given name
    InstanceStates,  \* the states an instance may take, of InstanceState below
    SpecsOf,         \* the specs users give to the backup with a given name
    Shared,          \* names an OdooUpgrade has too: it uses the Job name `<name>-run`
    Reuse,           \* names that may be used again after a deletion
    Ties,            \* whether two one-shot backups may be created in the same second
    MaxUid,          \* bound: OdooBackups created in a behaviour
    MaxFaults        \* bound: faults, deletions, edits and changes of an instance

\* An instance, and what the pod template takes from it and from its running pod
\* (connection settings, database, node): "a" and "b" give different templates.
InstanceState == {"absent", "nodb", "a", "b"}

\* spec.schedule ("": one-shot; "refused": five fields the API server does not accept),
\* spec.suspend, and the rest: two bodies that name a database, one that inherits the
\* instance's, one that backupValidateSpec rejects.
BackupSpec == [schedule : {"", "daily", "hourly", "refused"}, suspend : BOOLEAN,
               body : {"own", "other", "inherit", "invalid"}]
OneShot(spec) == spec.schedule = ""

Phase == {"", "Pending", "Running", "Succeeded", "Failed", "Scheduled"}
\* Reason of the Succeeded condition; "none": the object has no conditions.
Reason == {"none", "Pending", "InstanceNotFound", "Running", "Complete",
           "JobFailed", "InvalidSpec", "Scheduled", "CronJobRejected"}

ASSUME NamesAssumption == Names \subseteq Nat \ {0} /\ Shared \subseteq Names /\ Reuse \subseteq Names
ASSUME InstanceOfAssumption == InstanceOf \in [Names -> Instances]
ASSUME DomainAssumption == /\ InstanceStates \subseteq InstanceState
                           /\ SpecsOf \in [Names -> SUBSET BackupSpec]
ASSUME TiesAssumption == Ties \in BOOLEAN
ASSUME BoundsAssumption == MaxUid \in Nat \ {0} /\ MaxFaults \in Nat

(***************************************************************************)
(* An OdooBackup: metadata.uid and creationTimestamp, its spec and the     *)
(* status the controller writes: phase, reason, whether lastSuccessfulTime *)
(* is set (ran) and whether observedGeneration is current (observed).      *)
(* jobName and cronJobName always name the objects of this backup's name;  *)
(* messages, times and the file list (best effort, from the pod log) are   *)
(* left out.                                                               *)
(***************************************************************************)
Backup == [uid : 0 .. MaxUid, created : Nat, spec : BackupSpec,
           phase : Phase, reason : Reason, ran : BOOLEAN, observed : BOOLEAN]

NoSpec == [schedule |-> "", suspend |-> FALSE, body |-> "own"]
Absent == [uid |-> 0, created |-> 0, spec |-> NoSpec, phase |-> "", reason |-> "none",
           ran |-> FALSE, observed |-> FALSE]
Exists(o) == o.uid # 0

\* The owner of a Job that the OdooUpgrade of the same name created.
AnUpgrade == MaxUid + 1

\* The Job `<name>-run`: its controller and its outcome.
Job == [owner : 0 .. MaxUid + 1, state : {"active", "complete", "failed"}]
NoJob == [owner |-> 0, state |-> "active"]
JobExists(j) == j.owner # 0

\* The CronJob `<name>-sched`: its controller, the Job template it holds (and the
\* backup-hash annotation, which is the hash of that template), its schedule, suspend
\* flag, and whether a run of it has succeeded.
Template == {"own", "other", "inherit", "invalid"} \X InstanceState
Cron == [owner : 0 .. MaxUid, template : Template,
         schedule : {"", "daily", "hourly", "refused"}, suspend : BOOLEAN, ran : BOOLEAN]
NoCron == [owner |-> 0, template |-> <<"own", "absent">>, schedule |-> "",
           suspend |-> FALSE, ran |-> FALSE]
CronExists(c) == c.owner # 0

VARIABLES
    backups,    \* the OdooBackups in the API server
    watch,      \* their states after each write the informer has not delivered yet
    cache,      \* the informer's copy of backups
    instances,  \* the OdooInstances, with the node of their pod, in the API server
    instCache,  \* the informer's copy of instances
    jobs,       \* the Jobs `<name>-run` in the API server, by backup name
    jobCache,   \* the informer's copy of jobs
    crons,      \* the CronJobs `<name>-sched` in the API server, by backup name
    cronCache,  \* the informer's copy of crons
    queue,      \* the controller's work queue (delayed requeues included)
    pc,         \* where the worker is in Reconcile
    key,        \* the name it reconciles, 0 when idle
    bk,         \* the copy of the backup it read first
    write,      \* the status it is about to write: phase, reason, ran
    inGrace,    \* uids whose status.startTime is less than backupJobGrace ago
    clock,      \* the current second, as far as one-shot backups tell seconds apart
    nextUid,    \* the uid of the next backup
    used,       \* names that were ever used
    faults,     \* faults and changes by users so far
    done        \* history: <<name, owner>> of the Jobs that ran to completion

apiVars == <<backups, watch, instances, jobs, crons>>
cacheVars == <<cache, instCache, jobCache, cronCache>>
worker == <<pc, key, bk, write>>
userVars == <<clock, nextUid, used>>
vars == <<apiVars, cacheVars, worker, queue, inGrace, userVars, faults, done>>

-----------------------------------------------------------------------------
(* Pure parts of the controller. *)

backupPhaseTerminal(phase) == phase \in {"Succeeded", "Failed"}

\* The age order of the queue: creation time, then name.
backupOlder(m, a, n, b) ==
    \/ a.created < b.created
    \/ a.created = b.created /\ m < n

\* Mutant of Blocked: an older sibling without a phase yet does not block.
Blocked_NotByNew(n, candidate, all) ==
    \E m \in Names \ {n} :
        /\ Exists(all[m]) /\ OneShot(all[m].spec) /\ InstanceOf[m] = InstanceOf[n]
        /\ \/ all[m].phase = "Running"
           \/ all[m].phase = "Pending" /\ backupOlder(m, all[m], n, candidate)

\* backupDecideStart over a list of backups: does a one-shot sibling of n block it?
Blocked(n, candidate, all) ==
    \E m \in Names \ {n} :
        /\ Exists(all[m]) /\ OneShot(all[m].spec)
        /\ InstanceOf[m] = InstanceOf[n]
        /\ \/ all[m].phase = "Running"
           \/ /\ all[m].phase \in {"", "Pending"}
              /\ backupOlder(m, all[m], n, candidate)

\* The database that is dumped is the backup's own, else its instance's.
HasDatabase(spec, instance) == spec.body # "inherit" \/ instance # "nodb"

\* What buildBackupJobSpec puts in the template, and backupSpecHash tells apart.
JobTemplate(spec, instance) == <<spec.body, instance>>

\* The CronJob buildBackupCronJob asks for.
DesiredCron(uid, spec, instance) ==
    [owner |-> uid, template |-> JobTemplate(spec, instance),
     schedule |-> spec.schedule, suspend |-> spec.suspend, ran |-> FALSE]

-----------------------------------------------------------------------------
(* The API server accepts a new state of the OdooBackups. *)
Store(new) ==
    /\ backups' = new
    /\ watch' = Append(watch, new)

NoWrite == [phase |-> "", reason |-> "none", ran |-> FALSE]

\* Mutant of PrepareWrite: phase and reason are swapped.
PrepareWrite_Swapped(phase, reason) ==
    /\ pc' = "write" /\ write' = [phase |-> reason, reason |-> phase, ran |-> bk.ran]
    /\ UNCHANGED <<key, bk>>

(* How a reconcile goes on. *)
PrepareWrite(phase, reason) ==
    /\ pc' = "write" /\ write' = [phase |-> phase, reason |-> reason, ran |-> bk.ran]
    /\ UNCHANGED <<key, bk>>

\* The Scheduled status copies the last successful run from the CronJob.
PrepareScheduled(cron) ==
    /\ pc' = "write"
    /\ write' = [phase |-> "Scheduled", ran |-> cron.ran,
                 reason |-> IF cron.ran THEN "Complete" ELSE "Scheduled"]
    /\ UNCHANGED <<key, bk>>

GoTo(place) == pc' = place /\ UNCHANGED <<key, bk, write>>

\* Reconcile returns; a requeue puts the name back, now or after a delay.
Return(requeue) ==
    /\ pc' = "idle" /\ key' = 0 /\ bk' = Absent /\ write' = NoWrite
    /\ queue' = IF requeue THEN queue \cup {key} ELSE queue

\* Mutant of Requeued: a waiting backup is not looked at again.
Requeued_NotPending == write.phase \in {"Running", "Scheduled"}

\* The requeue a status write ends with.
Requeued == write.phase \in {"Pending", "Running", "Scheduled"}

-----------------------------------------------------------------------------
(* Reconcile. *)

\* Reconcile and the switch of reconcileOneShot, by the copy first read.
FirstStep(o) ==
    IF OneShot(o.spec) /\ backupPhaseTerminal(o.phase) THEN "idle"
    ELSE IF OneShot(o.spec) /\ o.phase = "Running" THEN "monitor"
    ELSE "decide"

\* The worker takes a name and reads the backup.
Begin(n) ==
    /\ pc = "idle" /\ n \in queue
    /\ queue' = queue \ {n}
    /\ IF Exists(cache[n]) /\ FirstStep(cache[n]) # "idle"
         THEN /\ pc' = FirstStep(cache[n]) /\ key' = n /\ bk' = cache[n]
              /\ UNCHANGED write
         ELSE UNCHANGED worker
    /\ UNCHANGED <<apiVars, cacheVars, inGrace, userVars, faults, done>>

\* Both kinds: validate, look up the instance; a one-shot then takes the queue's
\* decision; what is left has a database or is refused.
Decide ==
    /\ pc = "decide"
    /\ LET inst == instCache[InstanceOf[key]]
           waits == OneShot(bk.spec) /\ Blocked(key, bk, cache) IN
         \/ /\ bk.spec.body = "invalid"
            /\ PrepareWrite("Failed", "InvalidSpec")
         \/ /\ bk.spec.body # "invalid" /\ inst = "absent"
            /\ PrepareWrite("Pending", "InstanceNotFound")
         \/ /\ bk.spec.body # "invalid" /\ inst # "absent" /\ waits
            /\ PrepareWrite("Pending", "Pending")
         \/ /\ bk.spec.body # "invalid" /\ inst # "absent" /\ ~waits
            /\ ~HasDatabase(bk.spec, inst)
            /\ PrepareWrite("Failed", "InvalidSpec")
         \/ /\ bk.spec.body # "invalid" /\ inst # "absent" /\ ~waits
            /\ HasDatabase(bk.spec, inst)
            /\ GoTo(IF OneShot(bk.spec) THEN "create" ELSE "apply")
    /\ UNCHANGED <<apiVars, cacheVars, queue, inGrace, userVars, faults, done>>

\* The Job after a Create: the existing one, whoever owns it, or a new one.
JobAfterCreate == IF JobExists(jobs[key]) THEN jobs[key]
                                          ELSE [owner |-> bk.uid, state |-> "active"]

\* backupStart creates the Job, or adopts the one that has its name.
CreateJob ==
    /\ pc = "create"
    /\ jobs' = [jobs EXCEPT ![key] = JobAfterCreate]
    /\ PrepareWrite("Running", "Running")
    /\ UNCHANGED <<backups, watch, instances, crons, cacheVars, queue, inGrace, userVars,
                   faults, done>>

\* Mutant of Monitor: a Job that has ended has succeeded.
Monitor_EndedIsComplete ==
    /\ pc = "monitor"
    /\ LET job == jobCache[key] IN
         \/ /\ ~JobExists(job) /\ bk.uid \notin inGrace
            /\ PrepareWrite("Failed", "JobFailed") /\ UNCHANGED queue
         \/ /\ JobExists(job) /\ job.state # "active"
            /\ PrepareWrite("Succeeded", "Complete") /\ UNCHANGED queue
         \/ /\ IF JobExists(job) THEN job.state = "active" ELSE bk.uid \in inGrace
            /\ Return(TRUE)
    /\ UNCHANGED <<apiVars, cacheVars, inGrace, userVars, faults, done>>

\* backupMonitor: the cached Job decides what is written, if anything.
Monitor ==
    /\ pc = "monitor"
    /\ LET job == jobCache[key] IN
         \/ /\ ~JobExists(job) /\ bk.uid \notin inGrace
            /\ PrepareWrite("Failed", "JobFailed") /\ UNCHANGED queue
         \/ /\ JobExists(job) /\ job.state = "complete"
            /\ PrepareWrite("Succeeded", "Complete") /\ UNCHANGED queue
         \/ /\ JobExists(job) /\ job.state = "failed"
            /\ PrepareWrite("Failed", "JobFailed") /\ UNCHANGED queue
         \/ /\ IF JobExists(job) THEN job.state = "active" ELSE bk.uid \in inGrace
            /\ Return(TRUE)
    /\ UNCHANGED <<apiVars, cacheVars, inGrace, userVars, faults, done>>

\* The CronJob backupApplyCronJob wants, from the instance as the worker reads it.
Desired == DesiredCron(bk.uid, bk.spec, instCache[InstanceOf[key]])

\* Mutant of UpToDate: the hash leaves out what comes from the instance.
UpToDate_SpecOnly(cur, desired) == cur.template[1] = desired.template[1]

\* The CronJob is up to date by its hash, which covers the template only.
UpToDate(cur, desired) == cur.template = desired.template

\* What an Update makes of the copy cur: a new spec under the old owner reference.
Updated(cur, desired) ==
    [desired EXCEPT !.owner = cur.owner, !.ran = cur.ran]

Accepted(desired) == desired.schedule # "refused"

\* The write of backupApplyCronJob reaches the API server: a Create that finds no
\* CronJob, or an Update computed from the current one.
PutCron ==
    LET cur == cronCache[key] IN
    /\ Accepted(Desired)
    /\ \/ ~CronExists(cur) /\ ~CronExists(crons[key])
          /\ crons' = [crons EXCEPT ![key] = Desired]
       \/ CronExists(cur) /\ ~UpToDate(cur, Desired) /\ cur = crons[key]
          /\ crons' = [crons EXCEPT ![key] = Updated(cur, Desired)]

\* backupApplyCronJob ends well: written, up to date, or AlreadyExists, which counts
\* as a success and reports the CronJob that was asked for.
ApplyCronJob ==
    /\ pc = "apply"
    /\ LET cur == cronCache[key] IN
         \/ PutCron /\ PrepareScheduled(IF CronExists(cur) THEN cur ELSE Desired)
         \/ /\ CronExists(cur) /\ UpToDate(cur, Desired)
            /\ PrepareScheduled(cur) /\ UNCHANGED crons
         \/ /\ ~CronExists(cur) /\ CronExists(crons[key]) /\ Accepted(Desired)
            /\ PrepareScheduled(Desired) /\ UNCHANGED crons
         \/ /\ ~Accepted(Desired)
            /\ ~CronExists(cur) \/ (~UpToDate(cur, Desired) /\ cur = crons[key])
            /\ PrepareWrite("Failed", "CronJobRejected") /\ UNCHANGED crons
    /\ UNCHANGED <<backups, watch, instances, jobs, cacheVars, queue, inGrace, userVars,
                   faults, done>>

\* The Update conflicts, or meets a deleted CronJob: Reconcile returns the error.
ApplyConflict ==
    /\ pc = "apply"
    /\ CronExists(cronCache[key]) /\ ~UpToDate(cronCache[key], Desired)
    /\ cronCache[key] # crons[key]
    /\ Return(TRUE)
    /\ UNCHANGED <<apiVars, cacheVars, inGrace, userVars, faults, done>>

\* The status backupWriteStatus makes of the copy cur.  Only Scheduled touches
\* lastSuccessfulTime; the generation recorded is that of cur, not of the copy the
\* decision was taken on.
NewStatus(cur) ==
    [cur EXCEPT !.phase = write.phase, !.reason = write.reason, !.observed = TRUE,
                !.ran = IF write.phase = "Scheduled" THEN write.ran ELSE cur.ran]

\* Mutant of WriteSkipped: an outcome may be overwritten.
WriteSkipped_NotFinal(cur) ==
    \/ ~Exists(cur)
    \/ write.phase = "Pending" /\ cur.phase = "Running"
    \/ NewStatus(cur) = cur

\* backupWriteStatus leaves the copy cur it reads back from the cache as it is.
WriteSkipped(cur) ==
    \/ ~Exists(cur)
    \/ OneShot(cur.spec) /\ backupPhaseTerminal(cur.phase)
    \/ write.phase = "Pending" /\ cur.phase = "Running"
    \/ NewStatus(cur) = cur

ApplyWrite ==
    /\ ~WriteSkipped(cache[key])
    /\ cache[key] = backups[key]
    /\ Store([backups EXCEPT ![key] = NewStatus(cache[key])])
    /\ inGrace' = IF write.phase = "Running" /\ cache[key].phase # "Running"
                    THEN inGrace \cup {cache[key].uid} ELSE inGrace

\* The write is done, is not needed, or meets a deleted backup (NotFound is ignored).
WriteStatus ==
    /\ pc = "write"
    /\ \/ ApplyWrite
       \/ /\ WriteSkipped(cache[key]) \/ ~Exists(backups[key])
          /\ UNCHANGED <<backups, watch, inGrace>>
    /\ Return(Requeued)
    /\ UNCHANGED <<instances, jobs, crons, cacheVars, userVars, faults, done>>

\* RetryOnConflict gives up on a cache that stays behind; Reconcile is run again.
ConflictGivesUp ==
    /\ pc = "write" /\ ~WriteSkipped(cache[key])
    /\ Exists(backups[key]) /\ cache[key] # backups[key]
    /\ Return(TRUE)
    /\ UNCHANGED <<apiVars, cacheVars, inGrace, userVars, faults, done>>

-----------------------------------------------------------------------------
(* Faults; they, deletions, edits and changes of an instance are bounded by  *)
(* MaxFaults.                                                                *)

Fault == faults < MaxFaults /\ faults' = faults + 1

\* An API call fails and Reconcile returns its error; nothing was changed.
CallFails ==
    /\ Fault
    /\ pc # "idle"
    /\ Return(TRUE)
    /\ UNCHANGED <<apiVars, cacheVars, inGrace, userVars, done>>

\* The Job, the CronJob or the status is written but the answer is an error.
Unanswered ==
    /\ Fault
    /\ \/ /\ pc = "create" /\ jobs' = [jobs EXCEPT ![key] = JobAfterCreate]
          /\ UNCHANGED <<backups, watch, crons, inGrace>>
       \/ /\ pc = "apply" /\ PutCron
          /\ UNCHANGED <<backups, watch, jobs, inGrace>>
       \/ /\ pc = "write" /\ ApplyWrite
          /\ UNCHANGED <<jobs, crons>>
    /\ Return(TRUE)
    /\ UNCHANGED <<instances, cacheVars, userVars, done>>

\* The operator dies and starts again: fresh caches, every backup queued.
Restart ==
    /\ Fault
    /\ pc' = "idle" /\ key' = 0 /\ bk' = Absent /\ write' = NoWrite
    /\ cache' = backups /\ watch' = <<>>
    /\ jobCache' = jobs /\ cronCache' = crons /\ instCache' = instances
    /\ queue' = {n \in Names : Exists(backups[n])}
    /\ UNCHANGED <<backups, instances, jobs, crons, inGrace, userVars, done>>

-----------------------------------------------------------------------------
(* The informers: For(OdooBackup), Owns(Job) and Owns(CronJob) enqueue what  *)
(* changed; there is no watch on OdooInstances or on the Odoo pods.          *)

DeliverBackups ==
    /\ watch # <<>>
    /\ cache' = Head(watch) /\ watch' = Tail(watch)
    /\ queue' = queue \cup {n \in Names : cache[n] # Head(watch)[n]}
    /\ UNCHANGED <<backups, instances, jobs, crons, instCache, jobCache, cronCache, worker,
                   inGrace, userVars, faults, done>>

\* A Job of an OdooUpgrade is not owned by an OdooBackup and wakes none.
DeliverJob(n) ==
    /\ jobCache[n] # jobs[n]
    /\ jobCache' = [jobCache EXCEPT ![n] = jobs[n]]
    /\ queue' = IF {jobs[n].owner, jobCache[n].owner} \subseteq {0, AnUpgrade}
                  THEN queue ELSE queue \cup {n}
    /\ UNCHANGED <<apiVars, cache, instCache, cronCache, worker, inGrace, userVars, faults,
                   done>>

DeliverCron(n) ==
    /\ cronCache[n] # crons[n]
    /\ cronCache' = [cronCache EXCEPT ![n] = crons[n]]
    /\ queue' = queue \cup {n}
    /\ UNCHANGED <<apiVars, cache, instCache, jobCache, worker, inGrace, userVars, faults,
                   done>>

DeliverInstance(i) ==
    /\ instCache[i] # instances[i]
    /\ instCache' = [instCache EXCEPT ![i] = instances[i]]
    /\ UNCHANGED <<apiVars, cache, jobCache, cronCache, worker, queue, inGrace, userVars,
                   faults, done>>

-----------------------------------------------------------------------------
(* The cluster. *)

\* The Job's pod ends, at activeDeadlineSeconds at the latest (backoffLimit is 0).
JobFinishes(n, outcome) ==
    /\ JobExists(jobs[n]) /\ jobs[n].state = "active"
    /\ jobs' = [jobs EXCEPT ![n].state = outcome]
    /\ done' = IF outcome = "complete" THEN done \cup {<<n, jobs[n].owner>>} ELSE done
    /\ UNCHANGED <<backups, watch, instances, crons, cacheVars, worker, queue, inGrace,
                   userVars, faults>>

\* A user, or ttlSecondsAfterFinished, removes a Job.
DeleteJob(n) ==
    /\ Fault
    /\ JobExists(jobs[n])
    /\ jobs' = [jobs EXCEPT ![n] = NoJob]
    /\ UNCHANGED <<backups, watch, instances, crons, cacheVars, worker, queue, inGrace,
                   userVars, done>>

\* The garbage collector removes a Job or a CronJob whose owner is gone.
Collect(n) ==
    /\ \/ /\ jobs[n].owner \notin {0, AnUpgrade, backups[n].uid}
          /\ jobs' = [jobs EXCEPT ![n] = NoJob] /\ UNCHANGED crons
       \/ /\ crons[n].owner \notin {0, backups[n].uid}
          /\ crons' = [crons EXCEPT ![n] = NoCron] /\ UNCHANGED jobs
    /\ UNCHANGED <<backups, watch, instances, cacheVars, worker, queue, inGrace, userVars,
                   faults, done>>

\* The OdooUpgrade of the same name starts: its Job has the same name.
UpgradeTakesName(n) ==
    /\ Fault
    /\ n \in Shared /\ ~JobExists(jobs[n])
    /\ jobs' = [jobs EXCEPT ![n] = [owner |-> AnUpgrade, state |-> "active"]]
    /\ UNCHANGED <<backups, watch, instances, crons, cacheVars, worker, queue, inGrace,
                   userVars, done>>

\* A run of the CronJob succeeds for the first time.
CronRuns(n) ==
    /\ CronExists(crons[n]) /\ ~crons[n].suspend /\ ~crons[n].ran
    /\ crons' = [crons EXCEPT ![n].ran = TRUE]
    /\ UNCHANGED <<backups, watch, instances, jobs, cacheVars, worker, queue, inGrace,
                   userVars, faults, done>>

\* backupJobGrace passes.  The Job informer is assumed to lag by less than that:
\* by then it has delivered the Job.
GraceEnds(n) ==
    /\ Exists(backups[n]) /\ backups[n].uid \in inGrace
    /\ JobExists(jobs[n]) => JobExists(jobCache[n])
    /\ inGrace' = inGrace \ {backups[n].uid}
    /\ UNCHANGED <<apiVars, cacheVars, worker, queue, userVars, faults, done>>

-----------------------------------------------------------------------------
(* Users and the OdooInstance controller. *)

\* creationTimestamp has seconds; the age of a scheduled backup is never compared.
CreateBackup(n, spec) ==
    /\ ~Exists(backups[n]) /\ nextUid <= MaxUid
    /\ n \in Reuse \/ n \notin used
    /\ clock' \in {clock, clock + 1}
    /\ IF OneShot(spec) THEN Ties \/ clock' = clock + 1 ELSE clock' = clock
    /\ Store([backups EXCEPT ![n] = [Absent EXCEPT !.uid = nextUid, !.created = clock',
                                                  !.spec = spec]])
    /\ nextUid' = nextUid + 1 /\ used' = used \cup {n}
    /\ UNCHANGED <<instances, jobs, crons, cacheVars, worker, queue, inGrace, faults, done>>

DeleteBackup(n) ==
    /\ Fault
    /\ Exists(backups[n])
    /\ Store([backups EXCEPT ![n] = Absent])
    /\ UNCHANGED <<instances, jobs, crons, cacheVars, worker, queue, inGrace, userVars, done>>

\* The rule on spec: a one-shot backup is immutable, a scheduled one stays scheduled.
EditSpec(n, spec) ==
    /\ Fault
    /\ Exists(backups[n]) /\ spec # backups[n].spec
    /\ ~OneShot(backups[n].spec) /\ ~OneShot(spec)
    /\ Store([backups EXCEPT ![n].spec = spec, ![n].observed = FALSE])
    /\ UNCHANGED <<instances, jobs, crons, cacheVars, worker, queue, inGrace, userVars, done>>

\* An instance is created, deleted or edited, or its pod moves to another node.
SetInstance(i, state) ==
    /\ Fault
    /\ instances[i] # state
    /\ instances' = [instances EXCEPT ![i] = state]
    /\ UNCHANGED <<backups, watch, jobs, crons, cacheVars, worker, queue, inGrace, userVars,
                   done>>

-----------------------------------------------------------------------------
Init ==
    /\ backups = [n \in Names |-> Absent] /\ cache = backups /\ watch = <<>>
    /\ instances \in [Instances -> InstanceStates] /\ instCache = instances
    /\ jobs = [n \in Names |-> NoJob] /\ jobCache = jobs
    /\ crons = [n \in Names |-> NoCron] /\ cronCache = crons
    /\ pc = "idle" /\ key = 0 /\ bk = Absent /\ write = NoWrite
    /\ queue = {} /\ inGrace = {} /\ used = {} /\ done = {}
    /\ clock = 0 /\ nextUid = 1 /\ faults = 0

Reconcile ==
    \/ Decide \/ CreateJob \/ Monitor \/ ApplyCronJob \/ WriteStatus

Next ==
    \/ \E n \in Names : Begin(n)
    \/ Reconcile \/ ApplyConflict \/ ConflictGivesUp
    \/ CallFails \/ Unanswered \/ Restart
    \/ DeliverBackups
    \/ \E n \in Names : DeliverJob(n) \/ DeliverCron(n)
    \/ \E i \in Instances : DeliverInstance(i)
    \/ \E n \in Names, outcome \in {"complete", "failed"} : JobFinishes(n, outcome)
    \/ \E n \in Names : \/ DeleteJob(n) \/ Collect(n) \/ UpgradeTakesName(n)
                         \/ CronRuns(n) \/ GraceEnds(n) \/ DeleteBackup(n)
    \/ \E n \in Names : \E spec \in SpecsOf[n] : CreateBackup(n, spec) \/ EditSpec(n, spec)
    \/ \E i \in Instances, state \in InstanceStates : SetInstance(i, state)

(***************************************************************************)
(* Fairness: as for the OdooUpgrade controller.  An update of the CronJob  *)
(* that conflicts is retried with a cache that has moved on; the garbage   *)
(* collector removes what has no owner.                                    *)
(***************************************************************************)
Fairness ==
    /\ \A n \in Names : SF_vars(Begin(n))
    /\ WF_vars(Reconcile) /\ WF_vars(ApplyConflict)
    /\ WF_vars(DeliverBackups)
    /\ \A n \in Names : /\ WF_vars(DeliverJob(n)) /\ WF_vars(DeliverCron(n))
                        /\ WF_vars(Collect(n)) /\ WF_vars(GraceEnds(n))
                        /\ WF_vars(\E o \in {"complete", "failed"} : JobFinishes(n, o))
    /\ \A i \in Instances : WF_vars(DeliverInstance(i))

Spec == Init /\ [][Next]_vars /\ Fairness

-----------------------------------------------------------------------------
(* Correctness. *)

TypeOK ==
    /\ backups \in [Names -> Backup] /\ cache \in [Names -> Backup]
    /\ watch \in Seq([Names -> Backup])
    /\ instances \in [Instances -> InstanceState]
    /\ instCache \in [Instances -> InstanceState]
    /\ jobs \in [Names -> Job] /\ jobCache \in [Names -> Job]
    /\ crons \in [Names -> Cron] /\ cronCache \in [Names -> Cron]
    /\ queue \subseteq Names
    /\ pc \in {"idle", "decide", "create", "monitor", "apply", "write"}
    /\ key \in Names \cup {0} /\ (pc # "idle" => key \in Names)
    /\ bk \in Backup /\ write \in [phase : Phase, reason : Reason, ran : BOOLEAN]
    /\ inGrace \subseteq 0 .. MaxUid /\ done \subseteq Names \X (0 .. MaxUid + 1)
    /\ clock \in Nat /\ nextUid \in 1 .. MaxUid + 1 /\ faults \in 0 .. MaxFaults
    /\ used \subseteq Names

\* A one-shot backup is reported Succeeded only after a Job of its name ran to
\* completion: its own, that of a backup it replaced, or that of the upgrade of its name
\* (backupStart takes AlreadyExists for success, backupMonitor finds the Job by name).
\* An adopted Job may have dumped nothing: see SucceededRanOwnJob.
SucceededRanJob ==
    \A n \in Names : backups[n].phase = "Succeeded" =>
        \E owner \in 1 .. MaxUid + 1 :
            /\ <<n, owner>> \in done
            /\ \/ owner = backups[n].uid
               \/ owner = AnUpgrade /\ n \in Shared
               \/ owner < backups[n].uid /\ n \in Reuse

\* docs/backups.md:145: Succeeded means that the backup's Job completed and its files are
\* written.  It fails for the Job of an OdooUpgrade of the same name (backupStart).
SucceededRanOwnJob ==
    \A n \in Names : backups[n].phase = "Succeeded" => <<n, backups[n].uid>> \in done

\* A finished one-shot backup keeps its phase and a started one is never put back in
\* the queue, whatever stale copy a reconcile decided on (backupWriteStatus).
NeverGoesBack ==
    [][\A n \in Names :
         backups'[n].uid = backups[n].uid /\ OneShot(backups[n].spec) =>
           /\ backupPhaseTerminal(backups[n].phase) => backups'[n].phase = backups[n].phase
           /\ backups[n].phase = "Running" => backups'[n].phase \notin {"", "Pending"}]_vars

QueueState(o) ==
    IF ~Exists(o) \/ ~OneShot(o.spec) THEN "absent"
    ELSE CASE o.phase = "Running"   -> "running"
           [] o.phase = "Succeeded" -> "succeeded"
           [] o.phase = "Failed"    -> "failed"
           [] OTHER                 -> "waiting"

Q == INSTANCE UpgradeQueue WITH
       state  <- [n \in Names |-> QueueState(backups[n])],
       ticket <- [n \in Names |-> IF OneShot(backups[n].spec) THEN backups[n].created ELSE 0],
       next   <- clock

\* The one-shot backups of an instance are the same queue as its upgrades: one at a
\* time, oldest first, whatever the scheduled ones do; an outcome is final.
ImplementsQueue == Q!Spec

\* While its instance exists every one-shot backup ends, although nothing but its own
\* delayed requeue wakes a backup that waits for its instance or for the Job of an
\* upgrade it adopted, and a fault may meet every step.
Progress ==
    \A n \in Names :
        <>[](instances[InstanceOf[n]] # "absent")
          => ((Exists(backups[n]) /\ OneShot(backups[n].spec))
                ~> (~Exists(backups[n]) \/ backupPhaseTerminal(backups[n].phase)))

\* A scheduled backup with a good spec that names its database, on an instance that
\* exists.  (One that inherits it is Failed for good while the instance has none.)
Schedulable(n) ==
    /\ Exists(backups[n]) /\ ~OneShot(backups[n].spec)
    /\ backups[n].spec.body \in {"own", "other"} /\ backups[n].spec.schedule # "refused"
    /\ instances[InstanceOf[n]] # "absent"

\* The CronJob holds the template of the current spec and instance, belongs to the
\* backup, and the status is up to date with both.
TemplateInStep(n) ==
    /\ crons[n].owner = backups[n].uid
    /\ crons[n].template = JobTemplate(backups[n].spec, instances[InstanceOf[n]])
    /\ backups[n].phase = "Scheduled" /\ backups[n].observed
    /\ backups[n].ran = crons[n].ran

\* What the CronJob runs catches up with the backup's spec and with the instance, which
\* is not watched, and the status with its runs: after edits that were Failed before,
\* a CronJob of an earlier backup of that name, conflicts with the CronJob's own
\* status, lost answers and restarts (reconcileScheduled, backupApplyCronJob).  When it
\* runs, spec.schedule and spec.suspend, is not part of this: see ScheduleFollows.
TemplateSettles == \A n \in Names : <>[]Schedulable(n) => <>[]TemplateInStep(n)

\* docs/backups.md:101, 123, 125: the CronJob follows the whole spec, schedule and suspend
\* flag included.  It fails: backupSpecHash covers the Job template only.
ScheduleFollows ==
    \A n \in Names :
        <>[]Schedulable(n) => <>[](/\ crons[n].schedule = backups[n].spec.schedule
                                   /\ crons[n].suspend = backups[n].spec.suspend)
=============================================================================
