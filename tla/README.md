# odoo-k8-operator in TLA+

A model of the Odoo operator: what its controllers do to objects in the
Kubernetes API and its scripts to the volumes, checked with TLC on small instances.
Every safety property of a passing run is also proved with TLAPS, for instances of any
size and under the conditions stated in section 4. Source paths are relative to the
repository (`internal/controller/` unless said otherwise).

## 1. The system

One controller-runtime manager (`cmd/main.go`) runs four controllers. They share
one cached client: **every read comes from informer caches that trail the API
server, every write goes to the API server and is refused with a conflict when it
is based on an old resourceVersion.** The controllers keep no memory of their own
between two passes; what they know is in the status of the objects. They talk to
each other through objects only.

| Component | State | Operations | Interacts with |
|---|---|---|---|
| OdooUpgrade controller (`odooupgrade_controller.go`) | status (phase, jobName, startTime, conditions) of each OdooUpgrade | Reconcile: backfill, validate, decide, start, monitor; guarded status write | creates Jobs, reads OdooInstances and sibling upgrades |
| Upgrade queue (`odooupgrade_queue.go`) | none: order by creation second, then name | `upgradeDecideStart`, `upgradeOlder` | called with the cached list of siblings |
| Upgrade Job (`odooupgrade_job.go`, `_script.go`) | Job, pod | `odoo -u/-i` to the deadline, TTL | owned by the OdooUpgrade, mounts the addons volume |
| OdooInstance controller (`odooinstance_controller.go`) | finalizer, status | one pass: PVC, ConfigMap, initialisation, gate, Deployment, PDB, Service, cron, status | owns Deployment and OdooUpgrades, watches OdooAddons and Secrets |
| Upgrade gate (`odooinstance_gate.go`) | status.appliedAddonsHash, status.activeUpgrade | `gateDecide`, creates `<inst>-upg-<hash>` | OdooUpgrade phase in, Deployment template out |
| Initialisation (`odooinstance_init.go`) | status.initialized, status.initUpgrade | `initDecide`, creates `<inst>-init` | same |
| Cron Deployment (`odooinstance_cron.go`) | second Deployment | follows the hashes and the hold | Deployment |
| OdooAddon controller (`odooaddon_controller.go`, `_state.go`) | finalizer, status (phase, ready, clonedCommit, modules, lastSyncTime) | `decideAddonSync`, sync and cleanup Jobs | OdooInstance watches its status |
| Sync script (`odooaddon_sync.go`) | links and release directories on the addons volume, `.modules` | check, publish, remove stale, prune; cleanup | other addons' Jobs on the same volume |
| OdooBackup controller (`odoobackup_controller.go`, `_queue`, `_job`, `_status`, `_validate`) | status; Job or CronJob | one-shot queue, Job, monitoring; CronJob kept in step | Job names `<name>-run` shared with OdooUpgrades; reads the instance and its pod's node |
| Backup scripts (`odoobackup_script.go`) | dumps and archives on a claim or in a bucket | dump, rename, upload, retention | other backup pods at the same destination |
| Conditions and events (`conditions.go`, `events.go`) | conditions of each status | pure derivations | every status write |
| Pod templates, config, storage, webhook, main | none | build objects, validate, wire | |

What is hard about it, and therefore what the properties are about:

* decisions taken on stale copies (the controller's own last write included) and
  acted on later: two upgrades at once, an outcome overwritten, a revision let
  through the gate;
* passes that stop half way (crash, error, conflict, lost answer) after some of
  their writes;
* objects that disappear or come back under their name: adopted Jobs, repeated
  revisions;
* waiting without a watch: progress rests on delayed requeues;
* whole-second creation times; Jobs that are deleted while their pods still run;
  several Jobs on one volume.

What makes each component correct: *queue* — one upgrade per instance, in order,
each ends once, all end; *upgrade controller* — Succeeded means that a Job of its name
completed (its own, unless one was adopted), phases never go back; *gate* — pods change revision only after the upgrade, and
do change; *initialisation* — no pod on an empty database, no outage of a serving
instance; *addon controller* — the recorded commit is the one that was published,
deletion ends; *volume* — no half-copied module behind a link, no other addon's link taken;
*backup* — one-shots one at a time, results final, a success stands for a Job that
of its name completed, what the CronJob runs follows spec and instance; *destination* — nothing torn under a
backup's name, retention keeps exactly the newest.

## 2. Modules

| Module | What it is |
|---|---|
| `UpgradeQueue` | Abstract specification: the upgrades of an instance as a queue. No caches, no faults. |
| `OdooUpgrade` | The OdooUpgrade controller, its caches, Jobs, users and faults. Refines `UpgradeQueue`. |
| `OdooUpgradeProofs` | `OdooUpgrade`: types, the queue, the refinement. |
| `OdooUpgradeJobProofs` | `OdooUpgrade`: which Jobs an outcome is taken from, Jobs of unfinished upgrades do not overlap. |
| `OdooInstance` | One OdooInstance: initialisation, gate, Deployment, status; its OdooUpgrades run by an instance of `UpgradeQueue`. |
| `OdooInstanceProofs` | Types, the gate, the empty database, no outage. |
| `AddonsVolume` | The addons volume of an instance and the sync and cleanup scripts of its OdooAddons. |
| `AddonsVolumeProofs` | Types, links and releases on the volume. |
| `OdooAddon` | The OdooAddon controller for one addon: sync and cleanup Jobs, finalizer, status. |
| `OdooAddonProofs` | Types, what a ready addon rests on, others' Jobs. |
| `OdooBackup` | The OdooBackup controller: one-shots (refine `UpgradeQueue`) and schedules. |
| `OdooBackupProofs` | Types, phases, outcomes, the queue and the refinement. |
| `BackupStore` | The backup scripts and the claim or bucket they share. |
| `BackupStoreProofs` | Types, nothing torn. |
| `BackupRetentionProofs` | What the retention takes and leaves. |
| `MC*` | What TLC needs beside the constants in the `.cfg` files. |

### OdooUpgrade

A reconcile is split at its API calls: `Begin` (Get), `BackfillConditions`,
`Decide` (validate, Get instance, List siblings, `upgradeDecideStart`),
`CreateJob`, `Monitor`, `WriteStatus`. Between any two of them users
(`CreateUpgrade`, `DeleteUpgrade`, `SetInstance`, `DeleteJob`), the Job and
garbage collection controllers (`JobFinishes`, `CollectJob`), the informers
(`Deliver…`) and faults (`Restart`, `CallFails`, `CreateUnanswered`,
`WriteUnanswered`) take their steps. `cache` lags behind `upgrades` by the
snapshots in `watch`, delivered in order; the Job and instance caches jump to the
latest value.

Abstractions. Object equality stands for resourceVersion: two versions that
differ only in a message are one here, so a conflict caused by a message alone is
missed (it only delays). `status.jobName` is not stored: it is set with Running
and always names `<name>-run`. A delayed requeue (`RequeueAfter`) is a requeue:
delays are not modelled, except `upgradeJobGrace`, and the Job informer is assumed
to lag by less than that grace (30 s). `RetryOnConflict` that succeeds is the
write, later; one that gives up is `ConflictGivesUp`. `Shared` are the names an OdooBackup
has too: `BackupTakesName` is its controller creating a Job `<name>-run`, which
`CreateJob` then meets. Its owner `ABackup` stands for any such backup. `spec` is own database,
instance's database or invalid. `LegacyPhases` puts objects of a version without
conditions into the initial state.

### OdooInstance

One pass: `Begin`, `AddFinalizer`, `DecideInitialization`, `CreateInitUpgrade`,
`GateAddonsRollout`, `GateCreateUpgrade`, `ReconcileDeployment`, `WriteStatus`;
any of them can meet a `Conflict` or end in the error path `Fail`, which writes
Failed with whatever the pass had already put into its copy of the status.
`my` is that copy, `read` the version it came from. `rev` is the addons hash of
the ready OdooAddons and also what is on the volume; an OdooUpgrade's Job is
started with the `rev` of that moment (`ran`), and a success makes it `db`.

Abstractions. A revision names its OdooUpgrade (the 8-hex prefix is taken to be
injective). PVC, ConfigMap, Secret, Service, PDB and cron calls are not steps of
their own: they change nothing the properties mention and their failures are
`CallFails` at the neighbouring step. The caches read in one step are read at one
moment. `spec.initialize` may be removed but not added (the transition rule of the
CRD). A failed upgrade leaves the database as it was. Losing a ready pod counts as
a fault; without faults pods become ready or stay unready.

### AddonsVolume

The two scripts of `odooaddon_sync.go`, split at the commands that read or change
the volume: `CheckConflicts`, `MakeRelease`, then for each module `Publish`,
`CopyEnds`, `Rename`, `LinkTemporary`, `Switch`, then `Touch`, `ReadStale` and
`UnlinkStale`, `Record`, `Prune`; and for the cleanup `FindLinks`, `SweepLinks`,
`UnlinkOwn`, `Purge`. An `rm -rf` of a release has a beginning (in `Prune` or `Purge`)
and an end (`ReleaseGone`, one release a step); a cleanup ends with `PurgeEnds`. `link`, `tmp`, `content`, `partial`, `releases` and `recorded` are
the names the scripts use on the volume; `releases` is in the order of `ls -1t`.

`Start` is any Job's pod (the controller that creates the Jobs is not part of this
module); `Kill` is its deadline, its deletion or the loss of its node. `Overlap`
says which pods may run side by side: `"addons"` (those of different addons) is what the
operator does on purpose, `"any"` adds the pod of a Job deleted in the background. A pod
remembers the pods that were running when it started (`beside`, history only): a module
is `Contested` once two syncs of different addons that have it ran side by side, the
window between the conflict check and the switch of the link. `Kills` tells a
kill inside a removal from one anywhere else, since the first leaves directories
that look published.

Abstractions. A sync pod starts with its repository fetched and its modules found
(what precedes writes to scratch space only). A directory is absent, half
(not copied to the end), whole or going (being removed, or left so by a kill).
Volumes of versions without releases, where `$ADDONS/<module>` is a directory, are
not modelled. `find` lists the links at one moment.

### OdooAddon

A pass reads its copies (`Begin`; `DecideSync` or `DecideDeletion`), and what it then
has to do is a list of API calls, `plan`, made one per step: create, delete, status
write, finalizer. `decideAddonSync`, `canSkipResync`, `syncingPhaseFor`, `setPhase`,
`markFailed`, `pending` and `keptReason` are the functions of those names. `stale` says
that the addon was written since the pass's copy was current, which is what the
resourceVersion check finds out: a write is then refused and the pass is over.

Abstractions. A Job's uid is told apart only as "the Job that has the name now" or "one
that was deleted", since `deleteJob` and the pods' label selector ask no more. How long
ago `lastSyncTime` was is a choice of each pass (`due`), under the fairness that it is
not too recent for ever. The commit and the modules a sync reports are the spec it was
built from (`built`). `metadata.generation` is not modelled: the one extra status write
an edit causes through `observedGeneration` changes nothing else. The instance and its
claim are absent, unbound or bound. Cleanup Jobs that completed and that failed are one:
the finalizer treats them alike but for an Event.

### OdooBackup

The worker of `OdooUpgrade`, without backfill and with a second kind of object. A
one-shot goes through `Decide`, `CreateJob`, `Monitor`, `WriteStatus`; a scheduled one
through `Decide`, `ApplyCronJob` (or `ApplyConflict`), `WriteStatus`. An instance is
`absent`, without a database, or one of two states that give different pod templates
(database, connection, node of the Odoo pod). A CronJob holds the template it was made
from, schedule, suspend flag and whether a run has succeeded; its hash annotation is the
template alone, as in `buildBackupCronJob`. `UpgradeTakesName` is the OdooUpgrade of the
same name creating its `<name>-run`.

Abstractions, beside those of `OdooUpgrade`. `Ties` says whether two one-shots may be
created in one second. A scheduled backup has no place in the queue and takes no second.
Times, messages and the file list are left out. Labels
of the CronJob depend on its name only. Deleting and re-creating the CronJob by hand is
not modelled.

### BackupStore

Pods at one destination, each at a line of its script: `Start`, `DumpEnds`, `TarEnds`,
then on a claim `Count`, `Glob`, `Walk`, `RemoveArchive`, `PruneEnds`, in a bucket
`Upload`, `List`, `DeleteObject`, `RemoveArchive`, `PruneEnds`. A file is absent, whole
or torn; `partial` holds the writers of a temporary name. The exit trap is set after the
dump steps, as in the script (`TrapSet`). `ReadLines` is what `while read` gets from a
manifest whose last line has no newline.

Abstractions. All pods back up one database. Names are the pod's start second and a
kind. An upload appears at the destination when it is complete, as S3 does it. Files
that other programs put there are not modelled.

## 3. Runs

| Run | Shows |
|---|---|
| `upgrade_queue` | Two upgrades of one instance, created in different seconds, one fault or deletion: types, one Running, the own Jobs of unfinished upgrades do not overlap, the inductive invariant, phases never go back, both end, and the controller refines the queue. |
| `upgrade_lifecycle` | One upgrade of every spec and legacy phase, a backup of its name, the instance comes and goes: it ends, gets conditions, and Succeeded means that a Job of its name completed. |
| `instance_init` | `spec.initialize`, one edit and one fault: no pods on an empty database, never scaled to zero, `status.appliedAddonsHash` waits for its upgrade, settles. |
| `volume` | Three pods of two addons that share a module name, those of different addons side by side, killed anywhere but in a removal: no half copy is linked, a pod that ends well did its work, links change hands only for contested modules. |
| `addon_sync` | One addon, one fault, edit, lost or foreign Job or change of the volume anywhere: ready means published by its own Job, a sync is recorded only for the spec it was built from, others' Jobs stay, deletion ends, the addon settles. |
| `backup_oneshot` | Two one-shots of one instance, created in different seconds, one name shared with an upgrade, one fault: they refine the queue, outcomes are final. |
| `backup_scheduled` | One name, six schedules and a one-shot, shared with an upgrade, every state of the instance, one edit or fault, deletion and re-creation: the CronJob's template and the status catch up, a one-shot ends, Succeeded means that a Job of its name completed. |
| `store_retention` | Three pods, retention off, 1 or 2, two failures or kills: nothing torn, exactly the newest kept, archives go with dumps, leftovers go. |
| `store_upload` (violation) | An S3 backup without an archive succeeds with nothing uploaded. |
| `instance_rollout` (violation) | A pass on an old copy of the instance rolls the pods of a gated instance without an upgrade. |
| `backup_adopts` (violation) | A backup is Succeeded by the Job of an upgrade of its name. |
| `backup_schedule` (violation) | An edit of `schedule` or `suspend` alone never reaches the CronJob. |

The violations are disagreements between the code and what is said of it;
`PROJECT.json` quotes both under `findings`, and section 5 lists them with others that
have no run. A passing property that makes an exception for one of them names it in its
comment: `OneProvider` (`Contested`), `RemovedModulesDisappear` (links only a failed sync
made), `GateHolds` (the status, not the Deployment), `SucceededRanJob` (a Job of its name),
`TemplateSettles` (not `schedule` and `suspend`).

**Bounds.** Two upgrades are enough for every pair property of the queue (a third
only adds another Rival; the theorems cover any number). `MaxFaults` counts
crashes, failed and unanswered calls, deletions and foreign Jobs: one lets every
half-finished pass happen; that a second one meets the recovery is left to the theorems.
`MaxUid` bounds creations; with a name used again it is two for one name. For the
instance, two revisions give the gate something to hold and something to return to; one
replica suffices since only zero, not yet ready and ready are told apart; `MaxEdits`
counts addon changes, spec edits and deletions of failed upgrades together. On the volume
two addons, three module names and three commits give every pair of a kept, dropped and
contested module and more releases than are kept; three pods are two that leave something
behind or run beside and one that meets it. The addon is one, since addons share only the
volume; one fault puts a crash, a lost answer, an edit, a foreign Job or a lost log
between any two calls, and the created and edited specs are a branch, a pin, an invalid
spec and a foreign reference. Two one-shot backups are the pair the queue needs; for
schedules one name with two uids lets a CronJob outlive its backup, and a Job its backup.
Three backup pods exceed each retention by one, and two faults let a pod meet what two
others left. Deadlock checking is off: when the users and faults are used up and
everything has settled the system rests.

**Fairness.** A work queue hands out every name it holds (`SF` on `Begin(n)` of
the upgrade controller, where names compete for the worker; `WF` for the single
instance), a pass runs on (`WF` on `Reconcile`), watches deliver, a Job ends by
its `activeDeadlineSeconds`, the grace period ends. In `OdooInstance` an
OdooUpgrade starts when it may and ends; that is `Progress` of `OdooUpgrade`.
A pod that is not killed runs to its end (`WF` on `Step`). In `OdooAddon` a sync Job
ends (its deadline), a cleanup Job need not, but grows older than `cleanupTimeout`; `SF`
on `DecideSync(TRUE)` says that time passes. In `OdooBackup` the garbage collector
removes what has lost its owner. Nothing obliges users
to act, pods to become ready or faults to happen.

`OneExecuting` speaks of unfinished upgrades: when a user deletes the Job of a
Running upgrade, a reconcile on a copy from before Running can create it again
after the upgrade was failed for the missing Job, and that Job runs beside the
next upgrade's. It speaks of own Jobs: that of a backup of the same instance may run
beside them in any case.

**What the runs leave out on purpose.** The code allows more than the runs that
pass; each of these shows under other constants:

* An upgrade whose copy in the cache is from before its Running write, and whose
  instance has just lost its database, is written Failed/InvalidSpec while its Job
  goes on (`odooupgrade_controller.go:129`); `docs/upgrades.md:75` has this
  transition from Pending only.
* Two objects created in one second (`Ties = TRUE`): the queue's order is then not the
  order of creation, and `OneRunning`, `ImplementsQueue` fail (section 5). The
  runs of the queue also use a name once; `SucceededRanJob` and `NeverGoesBack` are proved
  with ties and with names used again.
* A sync that was killed before it wrote `.modules` leaves links that later syncs do not
  look at, and what they lead to is pruned. `RemovedModulesDisappear` and `LinksResolve`
  therefore leave out links that `.modules` never named (section 5).
* With `Kills = "anywhere"`, `SyncPublishes` and `LinksResolve` fail: a removal that is
  cut short leaves a directory which `publish` takes for a complete module when its commit
  comes back. `volume` spares removals. (The other properties hold all the same.)
* While syncs of different addons that have one module name run side by side the module
  may end with either: the properties of `volume` except for it (`Contested`).
* A third revision that arrives while the upgrade for the second runs
  (`odooinstance_gate.go:147`): the gate must move to another upgrade. `instance_init` has
  two revisions and one change; that the instance settles then is not checked.
* An `upgradeJobGrace` that is too short for the Job informer: the upgrade is Failed while
  its Job runs. The model assumes the grace is long enough.
* Backups of one name take turns in `backup_scheduled`, so a one-shot never waits for an
  older one there; the wait is that of the upgrade queue.
* With `"succeeded"` in `Deletable`, `NeverScaledToZero` fails: a user deletes the
  succeeded `<name>-init` before the controller sees the status that records the
  initialisation, and a pass on the old status finds no upgrade and holds the pods.
* With overlap on a claim that has a retention (`<<"pvc", 1>>` in `Overlapping`),
  `NewestKept` fails: see section 5. `store_retention` has overlap in the bucket, and on
  a claim without a retention. Two overlapping pods of one second would share a
  temporary name and tear it; `Start` leaves that out.
* With `Overlap = "any"`, `NeverHalfCopied` fails: the pod of a Job deleted in the
  background shares `.<module>.partial` with its successor. `docs/odooaddon.md` notes
  the window for the cleanup Job.

## 4. Proofs

`OdooUpgradeProofs`, for every choice of `Names`, `Instances`, `InstanceOf`,
`Specs` and bounds that satisfies the named ASSUMEs:

* `TypeCorrect`: `Safety => []TypeOK`.
* `PhaseNeverGoesBack`: `Safety => NeverGoesBack`, also with ties and reuse.
* `QueueInvariant`: `Safety => []QueueInv`, given `~Ties` and `~Reuse`.
* `OneAtATime`: `Safety => []OneRunning`, from `QueueInvariant`.
* `ControllerImplementsQueue`: `Safety => Q!Spec`, given the same.

`OneRunning` is not inductive: the Running write happens long after the decision,
and the decision was taken on a cache. `QueueInv` says why it is still right.
`CacheTrails`: every snapshot the informer holds or will deliver is a past of the
API server, and holds every upgrade older than one it holds, so a cache that
shows the candidate shows all its elders. `DecisionHolds`: from the decision to
the Running write the candidate stays the oldest unfinished upgrade of its
instance: elders only finish, newcomers are younger. `RunningIsOldest`: so the
running upgrade is the oldest unfinished one, and unique. The two conditions are
needed: with `Ties` a newcomer may sort before a decided candidate
(section 5), with `Reuse` a snapshot is no past of an object that was
replaced.

`BackupStoreProofs`, for every set of pods, number of seconds, retention, and choice of
`Overlapping` and `Ties`:

* `TypeCorrect`: `Spec => []TypeOK`. The type ties each step to its script (`Fits`): a pod
  counts on a claim only and lists in a bucket only.
* `NothingTorn`: `Spec => []NeverTorn`.

`NeverTorn` is not inductive: a rename publishes whatever has the temporary name.
`TornInv` adds who may have written it. `OwnSecond`: live pods started in different
seconds. `WritersStarted`: who has written a temporary file has started in the second its
name carries. `SoleWriter`: so what a pod is about to rename was written by nobody else.
The assumption is in `Start`: a pod that starts in the second of another one starts after
that one has ended.

`OdooUpgradeJobProofs`, on top of that:

* `SuccessRanAJob`: `Safety => []SucceededRanJob`, without conditions.
* `UnfinishedJobsDoNotOverlap`: `Safety => []OneExecuting`, given `~Ties` and `~Reuse`.

An outcome is read from a Job found by name in a cache. `OwnersInv` says who can own a Job
of a name, in the API and in the cache: an upgrade that has or had the name, or the backup
that shares it; and that a success about to be written is that of such a Job, completed.
That it is the upgrade's own cannot be proved: it is false where a backup shares the name
(section 5).
`JobsOfOldest` adds that nothing unfinished on the instance is older than an upgrade that
has its own Job. It says nothing of a Job whose upgrade was deleted, or has ended since.

`OdooInstanceProofs`, for every set of revisions, number of replicas and bounds:

* `TypeCorrect`, `GateKept` (`GateHolds`), `EmptyDatabaseUnserved`
  (`NoPodsOnEmptyDatabase`), without conditions.
* `ServingStaysUp` (`NeverScaledToZero`), given `"succeeded" \notin Deletable`.

`GateHolds` is about `status.appliedAddonsHash` of the stored instance, which a pass on an
old copy cannot write; of the Deployment, which it can, the same does not hold
(`instance_rollout`). It rests on what a pass carries from its read to its write: `RecordInv` (an
upgrade seen as succeeded, in any snapshot, has succeeded), `CopyInv` (the worker's copy
still has the spec and, up to the gate, the applied revision it read), `GateInv` (what is
about to be deployed was upgraded to or already applied). For the empty database,
`EmptyInv`: as long as it is empty every copy of the instance asks for an initialisation,
and whatever pass is under way holds the pods. `NeverScaledToZero` needs an order on
copies: `OrderInv` (a later copy never forgets `initialized` nor regains `initialize`),
`KeptInv` (nor the success of `<name>-init`), `UpInv` (pods run only when every later
pass will let them run). The condition was found by the proof: without it TLC shows the
outage of section 3.

`OdooAddonProofs`, for every set of specs, volume states and bounds, without conditions:

* `TypeCorrect`, `ReadyBacked` (`ReadyIsBacked`), `ResultsMatchSpec`
  (`RecordedForCurrentSpec`), `OthersJobsKept` (`ForeignJobsKept`).

`BackedInv` carries the claim of a ready status through all copies: the object, the
cache, undelivered events, the worker's copy and the status it is about to write unless
that write is bound to be refused (`stale`). `NextForSpec` says the same of the spec a
result is for. `JobInv` limits what a pass may be about to delete: a Job that still has
the uid it looked at and is an OdooAddon's.

`OdooBackupProofs`, for every set of names and instances, specs and bounds:

* `TypeCorrect`, `PhaseNeverGoesBack` (`NeverGoesBack`), `SuccessRanAJob`
  (`SucceededRanJob`), without conditions.
* `QueueInvariant`, `ControllerImplementsQueue` (`ImplementsQueue`), given `~Ties` and
  `Reuse = {}`.

The argument is that of the upgrade queue; scheduled backups beside the queue and Jobs
shared with OdooUpgrades come in. `OwnersInv` is about Jobs under names used again: every Job of a name belongs
to a backup that had the name or to the upgrade that shares it, and a success is that of
such a Job. `Reuse = {}` is needed for the same reason as `~Reuse` above.

`BackupRetentionProofs`, for any number of pods and seconds; `ClaimsSerial` says that
pods of a claim with a retention do not overlap (section 5 has what happens otherwise):

* `NewestSurvive` (`NewestKept`) and `ArchivesFollow` (`ArchiveFollowsDump`), given
  `ClaimsSerial`;
* `OldOnesGo` (`OldOnesPruned`), given also `"s3" \notin Ties`: two pods of one second
  would store one object;
* `LeftoversGo` (`LeftoversRemoved`), without conditions.

In a bucket, `DueInv`: what a run still has to delete has `keep` newer dumps, which no
other run changes. On a claim the script counts twice, so `ClaimInv` relates its two
counters to the dumps that are there and to the rest of the glob. `LeftInv` is the
upper bound, over the dumps a run has listed; `ArchiveInv` and `LeftoverInv` are the
remaining two, over `Stages` (which step belongs to which script).

`AddonsVolumeProofs`, for any number of addons, commits, modules and pods:

* `TypeCorrect`, without conditions;
* `ProvidersKept` (`OneProvider`), given `Overlap # "any"`: pods of different addons side
  by side, killed anywhere;
* `NoHalfCopies` (`NeverHalfCopied`), `CleanupCleans` (`CleanedUp`), `RemovedModulesGo`
  (`RemovedModulesDisappear`), given `Overlap = "none"`, wherever pods are killed;
* `SyncPublishesAll` (`SyncPublishes`), `LinksLead` (`LinksResolve`), given
  `Overlap = "none"` and `Kills # "anywhere"`.

The conditions on `Kills` are the ones of section 3. That `volume` has pods of different
addons side by side and these theorems (but the first two) do not is a limit of the proofs.
`PlacesInv` is what a pod's place in its script says about its loop. For `ProvidersKept`,
`Pairs`: two live pods are of different addons, and the younger has the other in `beside`;
`BesideInv`: what a pod has looked at is not another addon's, unless contested.
For the others, `Solo`: only the youngest pod lives. `CopyInv`: a copy that is renamed was
made, from the start, by the pod that renames it. `PublishInv`: what a sync has published
stays, since its release is the newest and pruning starts behind the second; only what a
live pod removes is incomplete. `CleanInv`: the links a cleanup has swept, and that it
purges when none is left. `RecordInv`: a linked module of an addon is in `.modules`, or
was linked by a failed sync, or by the one that runs now; so a sync meets every link that
it must remove.

Only model-checked: liveness (`Progress`, `ConditionsBackfilled`, `Settles`,
`DeletionEnds`, `TemplateSettles`), which needs fairness and ENABLED, out of the prover's
reach; and that the finite instances reach every action. The properties of the violations
(section 5) are false, so there is nothing to prove.

## 5. Where documents and code disagree

Met while modelling. The first column of a row that is a run has its name; the others can
be reproduced from the models with the constants or the scenario given.

| Code | What it does | What is said of it |
|---|---|---|
| `odoobackup_script.go:134`, run `store_upload` | The manifest ends without a newline, so the upload loop skips its last file: a dump without archive is never uploaded, an archive never is; the Job succeeds. | `odoobackup_script.go:139` "It uploads the files of the manifest" |
| `odoobackup_job.go:445`, run `backup_schedule` | The hash that decides whether the CronJob is updated covers the Job template only: an edit of `schedule` or `suspend` alone does not reach the CronJob. | `docs/backups.md:123` "The CronJob is updated when the spec changes." |
| `odoobackup_script.go:111` | On a claim, two overlapping pods count the dumps, then walk a new expansion of the glob with the old count: newest dumps go (`Overlapping = {<<"pvc", 1>>}`, `Retentions = {1}`, three pods). | `docs/backups.md:132` "keeps the newest N backups"; `:221` allows the overlap |
| `odoobackup_script.go:100` | The exit trap is installed after the dump steps: a failed `pg_dump` leaves its `.partial` until a later run ends. The trap of one pod also removes the temporary files of another that is still writing. | `odoobackup_script.go:90` "removes temporary files left behind by a failed run" |
| `odooupgrade_queue.go:59`, `odoobackup_queue.go:55` | Of two objects created in one second the smaller name is the older, even if it comes second: both can run (`Ties = TRUE`, `OneRunning` or `ImplementsQueue`). | `docs/upgrades.md:87` "run **one at a time**" |
| `odooupgrade_controller.go:144` | AlreadyExists counts as success whoever owns the Job: an upgrade runs on the Job of a backup of its name or of its predecessor (`SucceededRanJob` says which Jobs). | `docs/architecture.md:69` "Each OdooUpgrade has its own Job" |
| `odoobackup_controller.go:151`, run `backup_adopts` | The same: a backup is Succeeded by an upgrade's Job, which dumped nothing. | `docs/backups.md:145` "The Job completed. `status.lastBackup` lists the files written." |
| `odooinstance_gate.go:83`, run `instance_rollout` | A pass on a stale copy of the instance writes the Deployment before the conflict is found: pods change revision without an upgrade. | `docs/architecture.md:182` "changes only after the matching OdooUpgrade succeeds" |
| `odooinstance_gate.go:101` | A revision that comes back passes on its old Succeeded upgrade; no `-u` is run. | `api/v1/odooinstance_types.go:95` "Modules to update with -u after addon commits change." |
| `odooaddon_sync.go:408` | Stale links are looked for by `.modules`, which a sync writes after its links: what a killed sync linked is not removed by later ones (`RemovedModulesDisappear` without its exception). | `docs/odooaddon.md:210` "has its link removed on the next successful sync" |
| `odooaddon_sync.go:384` | Two first syncs pass the conflict check together; the later takes the other's module (`Overlap = "addons"`, `OneProvider` without `Contested`). | `docs/odooaddon.md:211` "Conflicts are detected before anything changes." |
| `odooaddon_sync.go:168` | Editing `addonPath` of an addon pinned to a synced commit is never acted on (the edit `"pinned elsewhere"`, `Settles` with that spec added to `Syncable`). | |
| `odooaddon_controller.go:226` | A pass with an old copy of a retired Job cannot read its log any more and writes Failed over Synced; the next sync repairs it. Hence `Settles` is "again and again", not "for good". | |
| `odooaddon_controller.go:530` | The finalizer creates the cleanup Job when its cache shows no sync Job, which may be one it has just created. | `odooaddon_controller.go:491` "nothing writes to the volume while it is cleaned" |
| `odoobackup_controller.go:240` | A scheduled backup that inherits its database and finds none is Failed and not looked at again when the instance gets one, since the instance is not watched. | |

## 6. Plan

1. Done: `UpgradeQueue`, `OdooUpgrade`, `OdooInstance`, `AddonsVolume`, `OdooAddon`,
   `OdooBackup`, `BackupStore`, and a proof of every safety property of a passing run.
2. Proofs: the theorems of the volume for pods of different addons side by side, as
   `ProvidersKept` is; that `QueueInv` carries over to ties among objects of different
   instances.
3. `OdooInstance`: a third revision (the gate moving to another upgrade), deletion, the cron Deployment; composition of the instance
   with the addons volume (what an init or upgrade Job really mounts).

## 7. Not modelled

Pod templates, odoo.conf rendering, storage claims and names of objects: pure
functions from a spec, no state, unit-tested. The webhook: a stateless check of
one object. `cmd/main.go`: wiring; its consequences (one worker per controller,
four for addons, shared caches) are assumptions above. Generated deep copies. The
upgrade script beyond success and failure, and the contents of dumps: they depend on
Odoo and PostgreSQL. The cron Deployment: it follows the hashes and the hold of the web
Deployment in the same pass. Events and log messages: derived, never read back.
