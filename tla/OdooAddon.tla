----------------------------- MODULE OdooAddon -----------------------------
(***************************************************************************)
(* The OdooAddon controller, for one OdooAddon: the sync state machine     *)
(* (a Job per sync, judged, recorded and retired) and the finalizer (stop  *)
(* the sync Job, run a cleanup Job, let go).  Addons share nothing here    *)
(* but the volume, which is the subject of module AddonsVolume.            *)
(*                                                                         *)
(* A pass reads the addon, the volume and the Jobs from informer caches,   *)
(* decides (decideAddonSync, handleFinalizer), then makes its API calls    *)
(* one after the other; everything else interleaves with them.  A write to *)
(* the addon is refused when it was changed after the copy was taken.      *)
(***************************************************************************)
EXTENDS Integers, SequencesExt

CONSTANTS
    Created,    \* the specs users submit, of AddonSpec below
    Edited,     \* the specs they change them to
    Volumes,    \* the states of the instance and its addons PVC, of Volume below
    MaxUid,     \* bound: OdooAddons of this name created in a behaviour
    MaxFaults   \* bound: faults, failed syncs, edits and changes of the volume

\* A branch, a pinned commit, the same commit with another addonPath, a spec that
\* resolveSyncSpec rejects, an instanceRef in another namespace.
AddonSpec == {"branch", "pinned", "pinned elsewhere", "invalid", "other namespace"}
Pinned == {"pinned", "pinned elsewhere"}
Volume == {"absent", "unbound", "bound"}

ASSUME DomainAssumption == Created \cup Edited \subseteq AddonSpec /\ Volumes \subseteq Volume
ASSUME BoundsAssumption == MaxUid \in Nat \ {0} /\ MaxFaults \in Nat

\* status: phase, ready, the reason in its conditions, the spec of the sync Job that was
\* recorded (built), which stands for clonedCommit and modules, and whether lastSyncTime
\* is set (tried); how long ago that was is a choice of each pass.
Reason == {"none", "Pending", "InstanceNotFound", "VolumeNotBound", "Syncing", "Synced",
           "SyncFailed", "ModuleConflict", "InvalidSpec", "JobConflict"}
Status == [phase : {"", "Pending", "Syncing", "Synced", "Failed"}, ready : BOOLEAN,
           reason : Reason, built : AddonSpec \cup {"none"}, tried : BOOLEAN]
NewAddonStatus == [phase |-> "", ready |-> FALSE, reason |-> "none", built |-> "none",
                   tried |-> FALSE]

Addon == [uid : 0 .. MaxUid, spec : AddonSpec, finalizer : BOOLEAN, deleting : BOOLEAN,
          status : Status]
Absent == [uid |-> 0, spec |-> "branch", finalizer |-> FALSE, deleting |-> FALSE,
           status |-> NewAddonStatus]
Exists(o) == o.uid # 0

\* The owner of a Job that no OdooAddon of this name owns.
Foreign == MaxUid + 1

\* The uid of a Job tells whether two copies are of one Job.  What the controller asks is
\* whether its copy is of the Job that has the name now, so that is what a uid says.
JobUid == {"none", "current", "deleted"}

\* `<addon>-sync` (with the hash of the spec it was built from and its outcome, where
\* "clash" is a failure on a module of another addon) and `<addon>-cleanup` (late: older than cleanupTimeout).
SyncJob == [uid : JobUid, owner : 0 .. MaxUid + 1, spec : AddonSpec,
            state : {"active", "complete", "failed", "clash"}]
CleanupJob == [uid : JobUid, owner : 0 .. MaxUid + 1,
               state : {"active", "ended"}, late : BOOLEAN]
NoSync == [uid |-> "none", owner |-> 0, spec |-> "branch", state |-> "active"]
NoCleanup == [uid |-> "none", owner |-> 0, state |-> "active", late |-> FALSE]
JobExists(j) == j.uid # "none"

\* The Job is deleted: what that makes of the uid in a copy of it.
Deleted(uid) == IF uid = "current" THEN "deleted" ELSE uid
CopyOfDeleted(j) == [j EXCEPT !.uid = Deleted(@)]

VARIABLES
    addon,         \* the OdooAddon in the API server
    watch,         \* its states after each write the informer has not delivered yet
    cache,         \* the informer's copy of it
    volume,        \* the instance and its addons PVC in the API server
    volumeCache,   \* the informers' copy
    sync,          \* the sync Job in the API server
    syncCache,     \* the informer's copy
    cleanup,       \* the cleanup Job in the API server
    cleanupCache,  \* the informer's copy
    queued,        \* is the addon in the work queue (delayed requeues included)?
    pc,            \* where the worker is: "idle", "begin", "decide" or "run"
    ad,            \* the copy of the addon it works on, while it is needed
    stale,         \* was the addon written since that copy was current?
    job,           \* the uid of the sync Job it will delete
    cleaner,       \* the uid of the cleanup Job it will delete
    plan,          \* the API calls it has still to make
    next,          \* the status it is about to write
    nextUid,       \* the uid of the next addon
    faults,        \* faults and changes by users so far
    published      \* history: <<owner, spec>> of the sync Jobs that completed

addonVars == <<addon, watch, cache>>
volumeVars == <<volume, volumeCache>>
syncVars == <<sync, syncCache>>
cleanupVars == <<cleanup, cleanupCache>>
worker == <<pc, ad, stale, job, cleaner, plan, next>>
userVars == <<nextUid, faults>>
vars == <<addonVars, volumeVars, syncVars, cleanupVars, queued, worker, userVars, published>>

-----------------------------------------------------------------------------
(* Pure parts of the controller. *)

Owned(j, o) == JobExists(j) /\ j.owner = o.uid

\* Mutant of canSkipResync: a pinned addon is not synced again, whatever it is pinned to.
canSkipResync_AnyPin(o) == o.spec \in Pinned /\ o.status.phase = "Synced"

\* Pinned to the commit that is synced.  (A sync by this version reports its modules.)
canSkipResync(o) ==
    o.spec \in Pinned /\ o.status.phase = "Synced" /\ o.status.built \in Pinned

\* Mutant of decideAddonSync: a Job that ended is taken for one that succeeded.
decideAddonSync_EndedIsSuccess(o, j, due) ==
    CASE o.spec = "invalid"                         -> "InvalidSpec"
      [] JobExists(j) /\ ~Owned(j, o)               -> "JobConflict"
      [] JobExists(j) /\ j.spec # o.spec            -> "DeleteStaleJob"
      [] JobExists(j) /\ j.state # "active"         -> "RecordSuccess"
      [] JobExists(j)                               -> "AwaitJob"
      [] o.status.tried /\ ~due                     -> "Cooldown"
      [] canSkipResync(o)                           -> "SkipResync"
      [] OTHER                                      -> "CreateJob"

\* The one step of a pass over a valid reference and a bound volume; order matters.
\* due: failureBackoff (if Failed) or resyncInterval has passed since lastSyncTime.
decideAddonSync(o, j, due) ==
    IF o.spec = "invalid" THEN "InvalidSpec"
    ELSE IF JobExists(j)
      THEN CASE ~Owned(j, o)           -> "JobConflict"
             [] Owned(j, o) /\ j.spec # o.spec -> "DeleteStaleJob"
             [] Owned(j, o) /\ j.spec = o.spec /\ j.state = "complete" -> "RecordSuccess"
             [] Owned(j, o) /\ j.spec = o.spec /\ j.state \in {"failed", "clash"} -> "RecordFailure"
             [] Owned(j, o) /\ j.spec = o.spec /\ j.state = "active" -> "AwaitJob"
    ELSE IF o.status.tried /\ ~due THEN "Cooldown"
    ELSE IF canSkipResync(o) THEN "SkipResync"
    ELSE "CreateJob"

\* The API calls an action makes, in order.
CallsOf(action, o, j) ==
    CASE action = "InvalidSpec"    -> IF Owned(j, o) THEN <<"delete", "status">> ELSE <<"status">>
      [] action = "DeleteStaleJob" -> <<"delete">>
      [] action \in {"RecordSuccess", "RecordFailure"} -> <<"status", "delete">>
      [] action = "CreateJob"      -> <<"create", "status">>
      [] OTHER                     -> <<"status">>

syncingPhaseFor(current) == IF current = "Synced" THEN "" ELSE "Syncing"

(* The status each way out of a pass leaves. *)

\* markFailed and recordSyncFailure.
markFailed(st, reason) ==
    [st EXCEPT !.phase = "Failed", !.ready = FALSE, !.reason = reason, !.tried = TRUE]

pending(st, reason) == [st EXCEPT !.phase = "Pending", !.ready = FALSE, !.reason = reason]

\* addonConditions: the reason a phase gives.
DefaultReason(st) ==
    CASE st.phase = "Failed"  -> "SyncFailed"
      [] st.phase = "Synced"  -> "Synced"
      [] st.phase = "Syncing" -> "Syncing"
      [] OTHER                -> "Pending"

\* keptReasonMessage, for a write that leaves the phase as it is.
keptReason(st) == IF st.phase \in {"Failed", "Pending"} /\ st.reason # "none" THEN st.reason
                  ELSE DefaultReason(st)

\* Mutant of setPhase: the early return for a kept phase is missing.
setPhase_NoGuard(st, phase) == [st EXCEPT !.phase = phase, !.reason = phase]

setPhase(st, phase) ==
    IF phase = "" THEN [st EXCEPT !.reason = keptReason(st)]
                  ELSE [st EXCEPT !.phase = phase, !.reason = phase]

SyncedStatus(j) ==
    [phase |-> "Synced", ready |-> TRUE, reason |-> "Synced", built |-> j.spec, tried |-> TRUE]

addonFailureReason(j) == IF j.state = "clash" THEN "ModuleConflict" ELSE "SyncFailed"

-----------------------------------------------------------------------------
(* The API server accepts a new state of the addon, from the worker or from  *)
(* someone else.                                                             *)
Write(new) == addon' = new /\ watch' = Append(watch, new) /\ UNCHANGED cache

WriteByOthers(new) == Write(new) /\ stale' = (pc # "idle")

\* The pass is over, with a requeue, a delayed one or an error that has the same effect.
Idle == /\ pc' = "idle" /\ ad' = Absent /\ stale' = FALSE /\ job' = "none"
        /\ cleaner' = "none" /\ plan' = <<>> /\ next' = NewAddonStatus

Return == Idle /\ queued' = TRUE

\* Go on with the next call.
Continue ==
    IF Len(plan) = 1 THEN Return
    ELSE plan' = Tail(plan) /\ UNCHANGED <<pc, ad, stale, job, cleaner, next, queued>>

Calling(call) == pc = "run" /\ Head(plan) = call

-----------------------------------------------------------------------------
(* Reconcile. *)

\* The worker takes the addon and reads it.
Begin ==
    /\ pc = "idle" /\ queued
    /\ queued' = FALSE
    /\ IF Exists(cache) /\ (cache.deleting => cache.finalizer)
         THEN /\ pc' = IF cache.deleting \/ cache.finalizer THEN "decide" ELSE "begin"
              /\ ad' = cache /\ stale' = (watch # <<>>)
              /\ UNCHANGED <<job, cleaner, plan, next>>
         ELSE UNCHANGED worker
    /\ UNCHANGED <<addonVars, volumeVars, syncVars, cleanupVars, userVars, published>>

\* The finalizer goes on before anything else.
AddFinalizer ==
    /\ pc = "begin"
    /\ IF ~stale
         THEN /\ Write([addon EXCEPT !.finalizer = TRUE])
              /\ pc' = "decide" /\ ad' = [ad EXCEPT !.finalizer = TRUE]
              /\ UNCHANGED <<stale, job, cleaner, plan, next, queued>>
         ELSE Return /\ UNCHANGED addonVars
    /\ UNCHANGED <<volumeVars, syncVars, cleanupVars, userVars, published>>

Fault == faults < MaxFaults /\ faults' = faults + 1 /\ UNCHANGED nextUid

Makes(calls, call) == \E i \in DOMAIN calls : calls[i] = call

\* The pass goes on to its API calls with what they need of the objects it has read.
\* writeAddonStatus skips a write that changes nothing; a verdict on a Job, which is
\* followed by its deletion, always has a new lastSyncTime.
Run(calls, status) ==
    LET skips == calls[Len(calls)] = "status" /\ status = ad.status
        made == IF skips THEN Front(calls) ELSE calls IN
      IF made = <<>> THEN Return
      ELSE /\ pc' = "run" /\ plan' = made
           /\ next' = IF Makes(made, "status") THEN status ELSE NewAddonStatus
           /\ ad' = IF Makes(made, "create") \/ Makes(made, "createCleanup")
                      THEN [Absent EXCEPT !.uid = ad.uid, !.spec = ad.spec] ELSE Absent
           /\ job' = IF Makes(made, "delete") THEN syncCache.uid ELSE "none"
           /\ cleaner' = IF Makes(made, "deleteCleanup") THEN cleanupCache.uid ELSE "none"
           /\ UNCHANGED <<stale, queued>>

\* reconcileOdooAddon and syncAddon, up to their first API call.  The pod log, which
\* holds the commit or the cause of a failure, may be gone once its Job is deleted.
DecideSync(due) ==
    /\ pc = "decide" /\ ~ad.deleting
    /\ LET st == ad.status
           action == decideAddonSync(ad, syncCache, due)
           logGone == syncCache.uid # "current" IN
         \/ /\ ad.spec = "other namespace"
            /\ Run(<<"status">>, markFailed(st, "InvalidSpec")) /\ UNCHANGED userVars
         \/ /\ ad.spec # "other namespace" /\ volumeCache # "bound"
            /\ Run(<<"status">>, pending(st, IF volumeCache = "absent" THEN "InstanceNotFound"
                                                                       ELSE "VolumeNotBound"))
            /\ UNCHANGED userVars
         \/ /\ ad.spec # "other namespace" /\ volumeCache = "bound"
            /\ \/ /\ action \in {"InvalidSpec", "JobConflict"}
                  /\ Run(CallsOf(action, ad, syncCache), markFailed(st, action))
                  /\ UNCHANGED userVars
               \/ /\ action = "DeleteStaleJob"
                  /\ Run(CallsOf(action, ad, syncCache), st) /\ UNCHANGED userVars
               \/ /\ action \in {"AwaitJob", "CreateJob"}
                  /\ Run(CallsOf(action, ad, syncCache), setPhase(st, syncingPhaseFor(st.phase)))
                  /\ UNCHANGED userVars
               \/ /\ action \in {"Cooldown", "SkipResync"}
                  /\ Run(CallsOf(action, ad, syncCache), setPhase(st, "")) /\ UNCHANGED userVars
               \/ /\ action = "RecordSuccess"
                  /\ Run(CallsOf(action, ad, syncCache), SyncedStatus(syncCache))
                  /\ UNCHANGED userVars
               \/ /\ action = "RecordFailure"
                  /\ Run(CallsOf(action, ad, syncCache),
                         markFailed(st, addonFailureReason(syncCache)))
                  /\ UNCHANGED userVars
               \/ /\ action \in {"RecordSuccess", "RecordFailure"}
                  /\ Run(CallsOf(action, ad, syncCache), markFailed(st, "SyncFailed"))
                  /\ IF logGone THEN UNCHANGED userVars ELSE Fault
    /\ UNCHANGED <<addonVars, volumeVars, syncVars, cleanupVars, published>>

\* Mutant of CleanupOver: a cleanup Job is waited for as long as it runs.
CleanupOver_NoTimeout(j) == j.state # "active"

CleanupOver(j) == j.state # "active" \/ j.late

\* handleFinalizer, up to its first API call; it may have none to make.
DecideDeletion ==
    /\ pc = "decide" /\ ad.deleting
    /\ LET present == ad.spec # "other namespace" /\ volumeCache # "absent"
           mine == Owned(syncCache, ad) IN
         \/ /\ ~present
            /\ Run(IF mine THEN <<"delete", "finish">> ELSE <<"finish">>, ad.status)
         \/ /\ present /\ mine
            /\ Run(<<"delete">>, ad.status)
         \/ /\ present /\ ~mine /\ ~JobExists(cleanupCache)
            /\ Run(<<"createCleanup">>, ad.status)
         \/ /\ present /\ ~mine /\ JobExists(cleanupCache) /\ ~Owned(cleanupCache, ad)
            /\ Run(<<"finish">>, ad.status)
         \/ /\ present /\ ~mine /\ Owned(cleanupCache, ad) /\ CleanupOver(cleanupCache)
            /\ Run(<<"deleteCleanup", "finish">>, ad.status)
         \/ /\ present /\ ~mine /\ Owned(cleanupCache, ad) /\ ~CleanupOver(cleanupCache)
            /\ Return
    /\ UNCHANGED <<addonVars, volumeVars, syncVars, cleanupVars, userVars, published>>

-----------------------------------------------------------------------------
(* The API calls of a pass. *)

\* Mutant of DeleteIfSame: the Job is deleted by name.
DeleteIfSame_ByName(uid) == TRUE

\* deleteJob: the uid precondition; a Job that is gone or replaced is no error.
DeleteIfSame(uid) == uid = "current"

\* Create, for which AlreadyExists is no error.
NewSync == [NoSync EXCEPT !.uid = "current", !.owner = ad.uid, !.spec = ad.spec]
NewCleanup == [NoCleanup EXCEPT !.uid = "current", !.owner = ad.uid]

DeleteSync == sync' = NoSync /\ syncCache' = CopyOfDeleted(syncCache)
DeleteCleanup == cleanup' = NoCleanup /\ cleanupCache' = CopyOfDeleted(cleanupCache)

\* What a call on a Job does in the API server.
JobCall(call) ==
    \/ /\ call = "create"
       /\ sync' = IF JobExists(sync) THEN sync ELSE NewSync
       /\ UNCHANGED <<syncCache, cleanupVars>>
    \/ /\ call = "delete"
       /\ IF DeleteIfSame(job) THEN DeleteSync ELSE UNCHANGED syncVars
       /\ UNCHANGED cleanupVars
    \/ /\ call = "createCleanup"
       /\ cleanup' = IF JobExists(cleanup) THEN cleanup ELSE NewCleanup
       /\ UNCHANGED <<cleanupCache, syncVars>>
    \/ /\ call = "deleteCleanup"
       /\ IF DeleteIfSame(cleaner) THEN DeleteCleanup ELSE UNCHANGED cleanupVars
       /\ UNCHANGED syncVars

\* createSyncJob, deleteJob, createCleanupJob.
CallJob ==
    /\ pc = "run" /\ JobCall(Head(plan)) /\ Continue
    /\ UNCHANGED <<addonVars, volumeVars, userVars, published>>

\* Mutant of Refused: the status is written over whatever is there.
Refused_Never == ~Exists(addon)

\* The addon was changed, or is gone: Conflict or NotFound.
Refused == stale

WriteAddonStatus ==
    /\ Calling("status")
    /\ \/ Refused /\ Return /\ UNCHANGED addonVars
       \/ ~Refused /\ Write([addon EXCEPT !.status = next]) /\ Continue
    /\ UNCHANGED <<volumeVars, syncVars, cleanupVars, userVars, published>>

\* finishDeletion removes the finalizer, and with it the addon.
FinishDeletion ==
    /\ Calling("finish")
    /\ \/ stale /\ Return /\ UNCHANGED addonVars
       \/ ~stale /\ Write(Absent) /\ Idle /\ UNCHANGED queued
    /\ UNCHANGED <<volumeVars, syncVars, cleanupVars, userVars, published>>

-----------------------------------------------------------------------------
(* Faults; they, failed syncs, edits and changes of the volume are bounded.  *)

\* A call fails and Reconcile returns its error; nothing was changed.
CallFails ==
    /\ Fault
    /\ pc # "idle"
    /\ Return
    /\ UNCHANGED <<addonVars, volumeVars, syncVars, cleanupVars, published>>

\* A call takes effect but its answer is an error.
Unanswered ==
    /\ Fault
    /\ \/ pc = "run" /\ JobCall(Head(plan)) /\ UNCHANGED addonVars
       \/ /\ Calling("status") /\ ~Refused
          /\ Write([addon EXCEPT !.status = next]) /\ UNCHANGED <<syncVars, cleanupVars>>
    /\ Return
    /\ UNCHANGED <<volumeVars, published>>

\* The operator dies and starts again.
Restart ==
    /\ Fault
    /\ Idle /\ queued' = Exists(addon)
    /\ cache' = addon /\ watch' = <<>> /\ volumeCache' = volume
    /\ syncCache' = sync /\ cleanupCache' = cleanup
    /\ UNCHANGED <<addon, volume, sync, cleanup, published>>

-----------------------------------------------------------------------------
(* The informers: For(OdooAddon) and Owns(Job); the instance and its PVC are *)
(* not watched.                                                              *)

DeliverAddon ==
    /\ watch # <<>>
    /\ cache' = Head(watch) /\ watch' = Tail(watch) /\ queued' = TRUE
    /\ UNCHANGED <<addon, volumeVars, syncVars, cleanupVars, worker, userVars, published>>

\* A Job that no OdooAddon owns wakes none.
DeliverSync ==
    /\ syncCache # sync
    /\ syncCache' = sync
    /\ queued' = (queued \/ ~({sync.owner, syncCache.owner} \subseteq {0, Foreign}))
    /\ UNCHANGED <<addonVars, volumeVars, sync, cleanupVars, worker, userVars, published>>

DeliverCleanup ==
    /\ cleanupCache # cleanup
    /\ cleanupCache' = cleanup
    /\ queued' = (queued \/ ~({cleanup.owner, cleanupCache.owner} \subseteq {0, Foreign}))
    /\ UNCHANGED <<addonVars, volumeVars, syncVars, cleanup, worker, userVars, published>>

DeliverVolume ==
    /\ volumeCache # volume
    /\ volumeCache' = volume
    /\ UNCHANGED <<addonVars, volume, syncVars, cleanupVars, queued, worker, userVars, published>>

-----------------------------------------------------------------------------
(* The cluster. *)

\* The sync script ends: the commit its spec asks for is published and printed.
SyncCompletes ==
    /\ JobExists(sync) /\ sync.owner # Foreign /\ sync.state = "active"
    /\ sync' = [sync EXCEPT !.state = "complete"]
    /\ published' = published \cup {<<sync.owner, sync.spec>>}
    /\ UNCHANGED <<addonVars, volumeVars, syncCache, cleanupVars, queued, worker, userVars>>

\* It fails for good, or its deadline passes.
SyncFails ==
    /\ Fault
    /\ JobExists(sync) /\ sync.owner # Foreign /\ sync.state = "active"
    /\ \E outcome \in {"failed", "clash"} : sync' = [sync EXCEPT !.state = outcome]
    /\ UNCHANGED <<addonVars, volumeVars, syncCache, cleanupVars, queued, worker, published>>

\* The cleanup Job completes or fails, or runs on past cleanupTimeout.
CleanupEnds ==
    /\ JobExists(cleanup) /\ cleanup.owner # Foreign /\ cleanup.state = "active"
    /\ cleanup' = [cleanup EXCEPT !.state = "ended"]
    /\ UNCHANGED <<addonVars, volumeVars, syncVars, cleanupCache, queued, worker, userVars,
                   published>>

Late(j, uid) == IF j.uid = uid THEN [j EXCEPT !.late = TRUE] ELSE j

CleanupOverruns ==
    /\ JobExists(cleanup) /\ ~cleanup.late
    /\ cleanup' = Late(cleanup, cleanup.uid)
    /\ cleanupCache' = Late(cleanupCache, cleanup.uid)
    /\ UNCHANGED <<addonVars, volumeVars, syncVars, queued, worker, userVars, published>>

\* A Job goes away: at its TTL, by a user, or with its owner.
SyncGoes == DeleteSync /\ job' = Deleted(job) /\ UNCHANGED <<cleanupVars, cleaner>>
CleanupGoes == DeleteCleanup /\ cleaner' = Deleted(cleaner) /\ UNCHANGED <<syncVars, job>>

JobGoes ==
    /\ \/ Fault /\ JobExists(sync) /\ SyncGoes
       \/ Fault /\ JobExists(cleanup) /\ CleanupGoes
    /\ UNCHANGED <<addonVars, volumeVars, queued, pc, ad, stale, plan, next, published>>

Collect ==
    /\ \/ sync.owner \notin {0, Foreign, addon.uid} /\ SyncGoes
       \/ cleanup.owner \notin {0, Foreign, addon.uid} /\ CleanupGoes
    /\ UNCHANGED <<addonVars, volumeVars, queued, pc, ad, stale, plan, next, userVars, published>>

\* Someone else takes the name of the sync Job or of the cleanup Job.
ForeignJob ==
    /\ Fault
    /\ \/ /\ ~JobExists(sync) /\ UNCHANGED cleanup
          /\ sync' = [NoSync EXCEPT !.uid = "current", !.owner = Foreign]
       \/ /\ ~JobExists(cleanup) /\ UNCHANGED sync
          /\ cleanup' = [NoCleanup EXCEPT !.uid = "current", !.owner = Foreign]
    /\ UNCHANGED <<addonVars, volumeVars, syncCache, cleanupCache, queued, worker, published>>

-----------------------------------------------------------------------------
(* Users. *)

CreateAddon(spec) ==
    /\ ~Exists(addon) /\ nextUid <= MaxUid
    /\ WriteByOthers([Absent EXCEPT !.uid = nextUid, !.spec = spec])
    /\ nextUid' = nextUid + 1
    /\ UNCHANGED <<volumeVars, syncVars, cleanupVars, queued, pc, ad, job, cleaner, plan, next,
                   faults, published>>

EditSpec(spec) ==
    /\ Fault
    /\ Exists(addon) /\ addon.spec # spec
    /\ WriteByOthers([addon EXCEPT !.spec = spec])
    /\ UNCHANGED <<volumeVars, syncVars, cleanupVars, queued, pc, ad, job, cleaner, plan, next,
                   published>>

\* A deletion waits for the finalizer.
DeleteAddon ==
    /\ Exists(addon) /\ ~addon.deleting
    /\ WriteByOthers(IF addon.finalizer THEN [addon EXCEPT !.deleting = TRUE] ELSE Absent)
    /\ UNCHANGED <<volumeVars, syncVars, cleanupVars, queued, pc, ad, job, cleaner, plan, next,
                   userVars, published>>

SetVolume(state) ==
    /\ Fault
    /\ volume # state /\ volume' = state
    /\ UNCHANGED <<addonVars, volumeCache, syncVars, cleanupVars, queued, worker, published>>

-----------------------------------------------------------------------------
Init ==
    /\ addon = Absent /\ watch = <<>> /\ cache = Absent
    /\ volume \in Volumes /\ volumeCache = volume
    /\ sync = NoSync /\ syncCache = NoSync
    /\ cleanup = NoCleanup /\ cleanupCache = NoCleanup
    /\ queued = FALSE /\ pc = "idle" /\ ad = Absent /\ stale = FALSE
    /\ job = "none" /\ cleaner = "none" /\ plan = <<>> /\ next = NewAddonStatus
    /\ nextUid = 1 /\ faults = 0 /\ published = {}

\* A pass goes on.
Reconcile ==
    \/ AddFinalizer \/ DecideDeletion
    \/ \E due \in BOOLEAN : DecideSync(due)
    \/ CallJob \/ WriteAddonStatus \/ FinishDeletion

Next ==
    \/ Begin \/ Reconcile
    \/ CallFails \/ Unanswered \/ Restart
    \/ DeliverAddon \/ DeliverSync \/ DeliverCleanup \/ DeliverVolume
    \/ SyncCompletes \/ SyncFails \/ CleanupEnds \/ CleanupOverruns
    \/ JobGoes \/ Collect \/ ForeignJob
    \/ \E spec \in Created : CreateAddon(spec)
    \/ \E spec \in Edited : EditSpec(spec)
    \/ DeleteAddon
    \/ \E state \in Volumes : SetVolume(state)

(***************************************************************************)
(* Fairness.  The work queue and the watches deliver, a pass runs on, a    *)
(* sync Job ends, the garbage collector collects; and time passes, so that *)
(* passes do not find the last attempt too recent for ever.  Nothing       *)
(* obliges a cleanup Job to end, but it grows older than cleanupTimeout.   *)
(***************************************************************************)
Fairness ==
    /\ WF_vars(Begin) /\ WF_vars(Reconcile)
    /\ WF_vars(DeliverAddon) /\ WF_vars(DeliverSync)
    /\ WF_vars(DeliverCleanup) /\ WF_vars(DeliverVolume)
    /\ WF_vars(SyncCompletes) /\ WF_vars(CleanupOverruns)
    /\ WF_vars(Collect) /\ SF_vars(DecideSync(TRUE))

Safety == Init /\ [][Next]_vars
Spec == Safety /\ Fairness

-----------------------------------------------------------------------------
(* Correctness. *)

TypeOK ==
    /\ addon \in Addon /\ cache \in Addon /\ ad \in Addon /\ watch \in Seq(Addon)
    /\ volume \in Volume /\ volumeCache \in Volume
    /\ sync \in SyncJob /\ syncCache \in SyncJob /\ job \in JobUid
    /\ cleanup \in CleanupJob /\ cleanupCache \in CleanupJob /\ cleaner \in JobUid
    /\ queued \in BOOLEAN /\ stale \in BOOLEAN
    /\ pc \in {"idle", "begin", "decide", "run"} /\ (pc = "run" <=> plan # <<>>)
    /\ plan \in Seq({"create", "delete", "status", "createCleanup", "deleteCleanup", "finish"})
    /\ next \in Status
    /\ nextUid \in 1 .. MaxUid + 1 /\ faults \in 0 .. MaxFaults
    /\ published \subseteq (0 .. MaxUid) \X AddonSpec

\* OdooInstance deploys what a ready addon reports.  It is ready exactly when Synced, also
\* while a resync runs, and then a sync Job of this very addon did publish the commit it
\* reports (decideAddonSync, recordSyncSuccess, syncingPhaseFor).
ReadyIsBacked ==
    /\ addon.status.ready <=> addon.status.phase = "Synced"
    /\ addon.status.ready => <<addon.uid, addon.status.built>> \in published

\* "a Job is never judged by a result it did not produce for the current spec"
\* (odooaddon_state.go:121): a sync is recorded only under the spec it was built from,
\* although the spec may be edited between any two calls of the pass.
RecordedForCurrentSpec ==
    [][/\ addon'.status.phase = "Synced"
       /\ addon.status.phase # "Synced" \/ addon'.status.built # addon.status.built
       => addon'.status.built = addon.spec]_vars

\* A Job that is not the addon's is left alone, also one that takes the name between
\* the pass's read and its delete (deleteJob, handleFinalizer).
ForeignJobsKept ==
    [][/\ sync.owner = Foreign /\ sync' # sync => plan' = plan
       /\ cleanup.owner = Foreign /\ ~JobExists(cleanup') => plan' = plan]_vars

\* Deletion never sticks: whatever the cleanup Job does, whoever has its name, and
\* although the final update may conflict and the cleanup then starts over
\* (handleFinalizer, finishDeletion).
DeletionEnds == \A u \in 1 .. MaxUid : (addon.uid = u /\ addon.deleting) ~> addon.uid # u

\* Nothing stands between the addon and its sync.
Syncable ==
    /\ Exists(addon) /\ ~addon.deleting /\ addon.spec \in {"branch", "pinned"}
    /\ volume = "bound" /\ sync.owner # Foreign

\* The addon is synced as its spec says now, again and again if a lost log makes a sync
\* look failed: after edits, failures, conflicts, lost answers, deleted Jobs, restarts.
Settles == <>[]Syncable => []<>(addon.status.ready /\ addon.status.built = addon.spec)
=============================================================================
