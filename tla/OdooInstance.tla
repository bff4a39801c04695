---------------------------- MODULE OdooInstance ----------------------------
(***************************************************************************)
(* The OdooInstance controller for one instance: database initialisation,  *)
(* the upgrade gate, the web Deployment and the status written last.       *)
(*                                                                         *)
(* As in OdooUpgrade, reads come from informer caches and writes go to the *)
(* API server, where one based on an old copy is refused as a conflict.    *)
(* The OdooUpgrades it creates are run by the queue of module UpgradeQueue, *)
(* which OdooUpgrade is shown to implement.                                *)
(***************************************************************************)
EXTENDS Integers, Sequences

CONSTANTS
    Revisions,   \* addonsHash of the ready OdooAddons, one per set of commits
    Replicas,    \* spec.replicas
    Initialize,  \* may the instance be created with spec.initialize?
    Deletable,   \* the states of an OdooUpgrade in which users delete it
    MaxEdits,    \* bound: addon revisions synced, spec edits, deletions
    MaxFaults    \* bound: restarts, failed or unanswered calls

ASSUME RevisionsAssumption == Revisions \subseteq Nat \ {0} /\ Revisions # {}
ASSUME ReplicasAssumption == Replicas \in Nat \ {0}
ASSUME InitializeAssumption == Initialize \in BOOLEAN
ASSUME DeletableAssumption == Deletable \subseteq {"waiting", "running", "succeeded", "failed"}
ASSUME BoundsAssumption == MaxEdits \in Nat /\ MaxFaults \in Nat

\* No revision: status.appliedAddonsHash, status.activeUpgrade or the database is empty.
None == 0
\* The OdooUpgrade `<instance>-init`; the others are named for their revision.
initUpgradeName == 0
gateUpgradeName(hash) == hash
UpgradeNames == Revisions \cup {initUpgradeName}

Phase == {"", "Creating", "Running", "Upgrading", "UpgradeFailed", "Initializing",
          "InitializationFailed", "Failed"}

(***************************************************************************)
(* An OdooInstance: whether it has its finalizer, whether spec.upgrade and *)
(* spec.initialize are set, and the part of its status that is read back   *)
(* or shown.  status.activeUpgrade is named by its revision.  Conditions,  *)
(* addonPaths and the message follow from these and are left out.          *)
(***************************************************************************)
Instance == [finalizer : BOOLEAN, upgrade : BOOLEAN, initialize : BOOLEAN,
             initialized : BOOLEAN, initUpgrade : BOOLEAN,
             applied : Revisions \cup {None}, active : Revisions \cup {None},
             phase : Phase, ready : BOOLEAN]

\* The web Deployment: the addons hash on its pod template, spec.replicas and
\* status.readyReplicas.
Deployment == [exists : BOOLEAN, rev : Revisions \cup {None},
               replicas : 0 .. Replicas, ready : 0 .. Replicas]
NewInstance(upgrade, initialize) ==
    [finalizer |-> FALSE, upgrade |-> upgrade, initialize |-> initialize,
     initialized |-> FALSE, initUpgrade |-> FALSE, applied |-> None, active |-> None,
     phase |-> "", ready |-> FALSE]
NoDeployment == [exists |-> FALSE, rev |-> None, replicas |-> 0, ready |-> 0]

VARIABLES
    inst,       \* the OdooInstance in the API server
    instWatch,  \* its versions the informer has not delivered yet
    instCache,  \* the informer's copy
    dep,        \* the Deployment in the API server
    depCache,
    state,      \* the OdooUpgrades of the instance, as the queue sees them
    ticket,
    next,
    upWatch,    \* its values the informer has not delivered yet
    upCache,    \* the informer's copy of state
    rev,        \* the addons revision: what is on the volume and in OdooAddon status
    revCache,
    queued,     \* is the instance in the work queue (delayed requeues included)?
    pc,         \* where the worker is in Reconcile
    read,       \* the version of the instance it works from
    my,         \* its copy, with the status it has computed so far
    current,    \* the revision it computed from the ready addons
    initPhase,  \* "" or the phase that goes with a pending initialisation
    gate,       \* the template hash and the phase the gate decided
    edits,
    faults,
    ran,        \* history: the revision the running upgrade's Job was started with
    db,         \* history: the revision the database was last initialised or upgraded with
    succeeded   \* history: revisions whose OdooUpgrade succeeded

instVars == <<inst, instWatch>>
queueVars == <<state, ticket, next, upWatch>>
cacheVars == <<instCache, depCache, upCache, revCache>>
worker == <<pc, read, my, current, initPhase, gate>>
history == <<ran, db, succeeded>>
vars == <<instVars, dep, queueVars, rev, cacheVars, queued, worker, edits, faults, history>>

Q == INSTANCE UpgradeQueue
       WITH Names <- UpgradeNames, Instances <- {1}, InstanceOf <- [n \in UpgradeNames |-> 1]

-----------------------------------------------------------------------------
(* The two pure decisions. *)

\* Mutant of initDecide: the phase of the failed upgrade is passed on as it is.
initDecide_RawPhase(requested, initialized, upgrade, liveReplicas) ==
    [pending |-> requested /\ ~initialized /\ upgrade # "succeeded",
     initialized |-> initialized \/ (requested /\ upgrade = "succeeded"),
     ensureUpgrade |-> requested /\ ~initialized /\ upgrade = "absent",
     phase |-> CASE ~requested \/ initialized \/ upgrade = "succeeded" -> ""
                 [] upgrade = "failed"                                -> "Failed"
                 [] OTHER                                             -> "Initializing"]

\* Mutant of initDecide: any finished upgrade counts as an initialised database.
initDecide_FailedIsDone(requested, initialized, upgrade, liveReplicas) ==
    LET done == initialized \/ (requested /\ upgrade \in {"succeeded", "failed"}) IN
    [pending |-> requested /\ ~done, initialized |-> done,
     ensureUpgrade |-> requested /\ ~done /\ upgrade = "absent",
     phase |-> IF requested /\ ~done THEN "Initializing" ELSE ""]

\* What one pass does about initialisation: hold the pods, the status.initialized it
\* writes, whether it creates the upgrade, the phase while it holds.
initDecide(requested, initialized, upgrade, liveReplicas) ==
    LET decision(pending, done, ensure, phase) ==
          [pending |-> pending, initialized |-> done, ensureUpgrade |-> ensure, phase |-> phase]
    IN IF ~requested \/ initialized THEN decision(FALSE, initialized, FALSE, "")
       ELSE CASE upgrade = "absent" -> IF liveReplicas > 0
                                         THEN decision(FALSE, TRUE, FALSE, "")
                                         ELSE decision(TRUE, FALSE, TRUE, "Initializing")
              [] upgrade = "succeeded" -> decision(FALSE, TRUE, FALSE, "")
              [] upgrade = "failed"    -> decision(TRUE, FALSE, FALSE, "InitializationFailed")
              [] OTHER                 -> decision(TRUE, FALSE, FALSE, "Initializing")

Rolled(hash) == [template |-> hash, applied |-> hash, active |-> None, phase |-> "",
                 ensureUpgrade |-> FALSE]
Held(applied, hash, phase, ensure) ==
    [template |-> applied, applied |-> applied, active |-> hash, phase |-> phase,
     ensureUpgrade |-> ensure]

\* Mutant of gateDecide: a failed upgrade no longer holds the pods.
gateDecide_RollsOnFailed(upgradeSet, applied, hash, upgrade) ==
    IF ~upgradeSet \/ applied \in {None, hash} THEN Rolled(hash)
    ELSE CASE upgrade = "absent"                  -> Held(applied, hash, "Upgrading", TRUE)
           [] upgrade \in {"succeeded", "failed"} -> Rolled(hash)
           [] OTHER                               -> Held(applied, hash, "Upgrading", FALSE)

\* The addons revision the pods may run, given that of the ready addons and the state
\* of its OdooUpgrade.
gateDecide(upgradeSet, applied, hash, upgrade) ==
    IF ~upgradeSet \/ applied \in {None, hash} THEN Rolled(hash)
    ELSE CASE upgrade = "absent"    -> Held(applied, hash, "Upgrading", TRUE)
           [] upgrade = "succeeded" -> Rolled(hash)
           [] upgrade = "failed"    -> Held(applied, hash, "UpgradeFailed", FALSE)
           [] OTHER                 -> Held(applied, hash, "Upgrading", FALSE)

-----------------------------------------------------------------------------
(* The API server. *)

\* An update of the instance; one that changes nothing makes no new version.
StoreInstance(new) ==
    /\ inst' = new
    /\ instWatch' = IF new = inst THEN instWatch ELSE Append(instWatch, new)

\* Every change of an OdooUpgrade is put on the watch.
Watched == upWatch' = Append(upWatch, state')

\* Create of an OdooUpgrade; one that exists already is fine.
EnsureUpgrade(n) ==
    IF state[n] = "absent" THEN Q!Submit(n) /\ Watched ELSE UNCHANGED queueVars

\* Status().Update of the worker's copy, refused when the instance has moved on.
Current == inst = read

-----------------------------------------------------------------------------
(* Reconcile. *)

\* The worker between two passes.
Blank == NewInstance(FALSE, FALSE)
NoGate == [template |-> None, phase |-> ""]
WorkerResets ==
    /\ pc' = "idle" /\ read' = Blank /\ my' = Blank
    /\ current' = None /\ initPhase' = "" /\ gate' = NoGate

Return(requeue) == WorkerResets /\ queued' = (queued \/ requeue)

Begin ==
    /\ pc = "idle" /\ queued
    /\ queued' = FALSE
    /\ pc' = IF instCache.finalizer THEN "init" ELSE "finalizer"
    /\ read' = instCache /\ my' = instCache
    /\ UNCHANGED <<instVars, dep, queueVars, rev, cacheVars, current, initPhase, gate,
                   edits, faults, history>>

AddFinalizer ==
    /\ pc = "finalizer"
    /\ Current
    /\ StoreInstance([inst EXCEPT !.finalizer = TRUE])
    /\ pc' = "init" /\ read' = inst' /\ my' = inst'
    /\ UNCHANGED <<dep, queueVars, rev, cacheVars, queued, current, initPhase, gate,
                   edits, faults, history>>

\* While the database is initialised no pod runs, and the revision is not gated.
initHoldGate(decision, hash) ==
    /\ initPhase' = decision.phase
    /\ my' = [my EXCEPT !.initialized = FALSE, !.initUpgrade = TRUE,
                        !.applied = hash, !.active = None]
    /\ gate' = [template |-> hash, phase |-> ""]
    /\ pc' = "deploy"

\* List the ready addons, read the Deployment and `<name>-init`, decide.
DecideInitialization ==
    /\ pc = "init"
    /\ current' = revCache
    /\ LET decision == initDecide(my.initialize, my.initialized,
                                  upCache[initUpgradeName], depCache.ready) IN
         \/ /\ decision.ensureUpgrade
            /\ pc' = "createInit"
            /\ UNCHANGED <<my, initPhase, gate>>
         \/ /\ decision.pending /\ ~decision.ensureUpgrade
            /\ initHoldGate(decision, revCache)
         \/ /\ ~decision.pending
            /\ my' = [my EXCEPT !.initialized = decision.initialized, !.initUpgrade = FALSE]
            /\ pc' = "gate"
            /\ UNCHANGED <<initPhase, gate>>
    /\ UNCHANGED <<instVars, dep, queueVars, rev, cacheVars, queued, read, edits, faults,
                   history>>

CreateInitUpgrade ==
    /\ pc = "createInit"
    /\ EnsureUpgrade(initUpgradeName)
    /\ initHoldGate(initDecide(TRUE, FALSE, "absent", 0), current)
    /\ UNCHANGED <<instVars, dep, rev, cacheVars, queued, read, current, edits, faults,
                   history>>

\* The gate's decision goes into the status and on to the Deployment.
ApplyGate(decision) ==
    /\ my' = [my EXCEPT !.applied = decision.applied, !.active = decision.active]
    /\ gate' = [template |-> decision.template, phase |-> decision.phase]
    /\ pc' = "deploy"

\* Mutant of GateDecision: the upgrade is looked up by the applied revision's name.
GateDecision_WrongName ==
    gateDecide(my.upgrade, my.applied, current,
               upCache[gateUpgradeName(IF my.applied = None THEN current ELSE my.applied)])

\* The OdooUpgrade of the current revision, as the cache shows it, decides.
GateDecision == gateDecide(my.upgrade, my.applied, current, upCache[gateUpgradeName(current)])

GateAddonsRollout ==
    /\ pc = "gate"
    /\ \/ /\ GateDecision.ensureUpgrade
          /\ pc' = "createUpgrade" /\ UNCHANGED <<my, gate>>
       \/ /\ ~GateDecision.ensureUpgrade
          /\ ApplyGate(GateDecision)
    /\ UNCHANGED <<instVars, dep, queueVars, rev, cacheVars, queued, read, current,
                   initPhase, edits, faults, history>>

GateCreateUpgrade ==
    /\ pc = "createUpgrade"
    /\ EnsureUpgrade(gateUpgradeName(current))
    /\ ApplyGate(gateDecide(TRUE, my.applied, current, "absent"))
    /\ UNCHANGED <<instVars, dep, rev, cacheVars, queued, read, current, initPhase, edits,
                   faults, history>>

\* Mutant of DesiredDeployment: the pods are taken down while an upgrade runs.
DesiredDeployment_DownForUpgrade(old) ==
    [exists |-> TRUE, rev |-> gate.template,
     replicas |-> IF initPhase # "" \/ gate.phase # "" THEN 0 ELSE Replicas,
     ready |-> old.ready]

\* The Deployment of this pass; its status is not the controller's to write.
DesiredDeployment(old) ==
    [exists |-> TRUE, rev |-> gate.template,
     replicas |-> IF initPhase # "" THEN 0 ELSE Replicas, ready |-> old.ready]

\* CreateOrUpdate: nothing to do when the cached Deployment is as desired, otherwise a
\* write that needs the cached copy to be the current one.
ReconcileDeployment ==
    /\ pc = "deploy"
    /\ \/ /\ depCache = DesiredDeployment(depCache)
          /\ UNCHANGED dep
       \/ /\ depCache # DesiredDeployment(depCache) /\ depCache = dep
          /\ dep' = DesiredDeployment(dep)
    /\ pc' = "status"
    /\ UNCHANGED <<instVars, queueVars, rev, cacheVars, queued, read, my, current, initPhase,
                   gate, edits, faults, history>>

\* The status of the pass, from the Deployment's ready pods, the gate and the
\* initialisation, in that order.
FinalStatus ==
    LET up == depCache.exists /\ depCache.ready >= Replicas IN
    [my EXCEPT !.phase = IF initPhase # "" THEN initPhase
                         ELSE IF gate.phase # "" THEN gate.phase
                         ELSE IF up THEN "Running" ELSE "Creating",
               !.ready = up /\ gate.phase # "UpgradeFailed" /\ initPhase = ""]

\* A failed upgrade or initialisation is looked at again later.
WriteStatus ==
    /\ pc = "status"
    /\ Current
    /\ StoreInstance(FinalStatus)
    /\ Return(gate.phase = "UpgradeFailed" \/ initPhase = "InitializationFailed")
    /\ UNCHANGED <<dep, queueVars, rev, cacheVars, edits, faults, history>>

\* A write meets a newer object: requeue, and leave the status alone.
Conflict ==
    /\ \/ pc \in {"finalizer", "status"} /\ ~Current
       \/ /\ pc = "deploy" /\ depCache.exists
          /\ depCache # DesiredDeployment(depCache) /\ depCache # dep
    /\ Return(TRUE)
    /\ UNCHANGED <<instVars, dep, queueVars, rev, cacheVars, edits, faults, history>>

-----------------------------------------------------------------------------
(* Errors and faults. *)

\* The status of a failed pass: Failed, with whatever the pass had decided by then.
FailedStatus == [my EXCEPT !.phase = "Failed", !.ready = FALSE]

\* Reconcile ends with an error; the status is written if the instance has not moved on
\* and the call goes through.
Fail ==
    /\ \/ Current /\ StoreInstance(FailedStatus)
       \/ UNCHANGED instVars
    /\ Return(TRUE)

\* The Deployment exists but is not in the cache yet: Create answers AlreadyExists.
CreateDeploymentFails ==
    /\ pc = "deploy" /\ ~depCache.exists /\ dep.exists
    /\ Fail
    /\ UNCHANGED <<dep, queueVars, rev, cacheVars, edits, faults, history>>

Fault == faults < MaxFaults /\ faults' = faults + 1

\* A call of the pass fails (a missing Secret, a name taken by another instance, the
\* API server) and changed nothing; before the finalizer there is no status to write.
CallFails ==
    /\ Fault
    /\ pc # "idle"
    /\ IF pc = "finalizer" THEN UNCHANGED instVars /\ Return(TRUE) ELSE Fail
    /\ UNCHANGED <<dep, queueVars, rev, cacheVars, edits, history>>

\* A write is done but its answer is an error.
WriteUnanswered ==
    /\ Fault
    /\ \/ /\ pc = "finalizer" /\ Current /\ StoreInstance([inst EXCEPT !.finalizer = TRUE])
          /\ Return(TRUE) /\ UNCHANGED <<dep, queueVars>>
       \/ pc = "createInit" /\ EnsureUpgrade(initUpgradeName) /\ UNCHANGED dep /\ Fail
       \/ pc = "createUpgrade" /\ EnsureUpgrade(gateUpgradeName(current)) /\ UNCHANGED dep /\ Fail
       \/ /\ pc = "deploy" /\ depCache = dep /\ dep # DesiredDeployment(dep)
          /\ dep' = DesiredDeployment(dep)
          /\ UNCHANGED queueVars /\ Fail
       \/ /\ pc = "status" /\ Current /\ StoreInstance(FinalStatus) /\ Return(TRUE)
          /\ UNCHANGED <<dep, queueVars>>
    /\ UNCHANGED <<rev, cacheVars, edits, history>>

Restart ==
    /\ Fault
    /\ instCache' = inst /\ instWatch' = <<>> /\ UNCHANGED inst
    /\ depCache' = dep /\ upCache' = state /\ upWatch' = <<>> /\ revCache' = rev
    /\ WorkerResets /\ queued' = TRUE
    /\ UNCHANGED <<dep, state, ticket, next, rev, edits, history>>

-----------------------------------------------------------------------------
(* The informers: For(OdooInstance), Owns(Deployment), Owns(OdooUpgrade) and *)
(* Watches(OdooAddon) all enqueue the instance.                              *)

DeliverInstance ==
    /\ instWatch # <<>>
    /\ instCache' = Head(instWatch) /\ instWatch' = Tail(instWatch)
    /\ queued' = TRUE
    /\ UNCHANGED <<inst, dep, queueVars, rev, depCache, upCache, revCache, worker, edits,
                   faults, history>>

DeliverDeployment ==
    /\ depCache # dep
    /\ depCache' = dep /\ queued' = TRUE
    /\ UNCHANGED <<instVars, dep, queueVars, rev, instCache, upCache, revCache, worker,
                   edits, faults, history>>

DeliverUpgrade ==
    /\ upWatch # <<>>
    /\ upCache' = Head(upWatch) /\ upWatch' = Tail(upWatch)
    /\ queued' = TRUE
    /\ UNCHANGED <<instVars, dep, state, ticket, next, rev, instCache, depCache, revCache, worker,
                   edits, faults, history>>

DeliverAddons ==
    /\ revCache # rev
    /\ revCache' = rev /\ queued' = TRUE
    /\ UNCHANGED <<instVars, dep, queueVars, rev, instCache, depCache, upCache, worker,
                   edits, faults, history>>

-----------------------------------------------------------------------------
(* The cluster: pods come and go, the OdooUpgrade queue runs its upgrades.   *)
(* A Job is started with the addons that are on the volume at that moment.   *)

PodsChange(ready) ==
    /\ dep.exists /\ ready \in 0 .. dep.replicas
    /\ \/ /\ dep.ready < ready \/ dep.ready > dep.replicas
          /\ UNCHANGED faults
       \/ dep.ready > ready /\ Fault
    /\ dep' = [dep EXCEPT !.ready = ready]
    /\ UNCHANGED <<instVars, queueVars, rev, cacheVars, queued, worker, edits, history>>

UpgradeStarts(n) ==
    /\ Q!Start(n) /\ Watched
    /\ ran' = rev
    /\ UNCHANGED <<instVars, dep, rev, cacheVars, queued, worker, edits, faults, db,
                   succeeded>>

UpgradeEnds(n, outcome) ==
    /\ Q!End(n, outcome) /\ Watched
    /\ ran' = IF state[n] = "running" THEN None ELSE ran
    /\ IF outcome = "succeeded" THEN db' = ran /\ succeeded' = succeeded \cup {n}
                                ELSE UNCHANGED <<db, succeeded>>
    /\ UNCHANGED <<instVars, dep, rev, cacheVars, queued, worker, edits, faults>>

-----------------------------------------------------------------------------
(* Users and the OdooAddon controller. *)

Edit == edits < MaxEdits /\ edits' = edits + 1

SyncAddons(r) ==
    /\ Edit
    /\ rev # r /\ rev' = r
    /\ UNCHANGED <<instVars, dep, queueVars, cacheVars, queued, worker, faults, history>>

\* spec.upgrade is set or removed; spec.initialize may be removed but never added.
EditSpec ==
    /\ Edit
    /\ \/ StoreInstance([inst EXCEPT !.upgrade = ~inst.upgrade])
       \/ inst.initialize /\ StoreInstance([inst EXCEPT !.initialize = FALSE])
    /\ UNCHANGED <<dep, queueVars, rev, cacheVars, queued, worker, faults, history>>

DeleteUpgrade(n) ==
    /\ Edit
    /\ state[n] \in Deletable
    /\ Q!Withdraw(n) /\ Watched
    /\ UNCHANGED <<instVars, dep, rev, cacheVars, queued, worker, faults, history>>

-----------------------------------------------------------------------------

\* A new instance.  Without spec.initialize its database was set up by hand.
Init ==
    /\ \E upgrade \in BOOLEAN, initialize \in {FALSE, Initialize} :
         inst = NewInstance(upgrade, initialize)
    /\ instWatch = <<>> /\ instCache = inst
    /\ dep = NoDeployment /\ depCache = dep
    /\ state = [n \in UpgradeNames |-> "absent"] /\ ticket = [n \in UpgradeNames |-> 0]
    /\ next = 0 /\ upWatch = <<>> /\ upCache = state
    /\ rev = (CHOOSE r \in Revisions : TRUE) /\ revCache = rev
    /\ queued = TRUE
    /\ pc = "idle" /\ read = Blank /\ my = Blank /\ current = None /\ initPhase = ""
    /\ gate = NoGate
    /\ edits = 0 /\ faults = 0
    /\ ran = None /\ db = (IF inst.initialize THEN None ELSE rev) /\ succeeded = {}

Reconcile ==
    \/ AddFinalizer \/ DecideInitialization \/ CreateInitUpgrade \/ GateAddonsRollout
    \/ GateCreateUpgrade \/ ReconcileDeployment \/ WriteStatus \/ Conflict
    \/ CreateDeploymentFails

Next ==
    \/ Begin \/ Reconcile
    \/ CallFails \/ WriteUnanswered \/ Restart
    \/ DeliverInstance \/ DeliverDeployment \/ DeliverUpgrade \/ DeliverAddons
    \/ \E ready \in 0 .. Replicas : PodsChange(ready)
    \/ \E n \in UpgradeNames : UpgradeStarts(n)
    \/ \E n \in UpgradeNames, outcome \in {"succeeded", "failed"} : UpgradeEnds(n, outcome)
    \/ \E r \in Revisions : SyncAddons(r)
    \/ EditSpec
    \/ \E n \in UpgradeNames : DeleteUpgrade(n)

(***************************************************************************)
(* Fairness: the worker takes the instance from the queue and finishes its *)
(* pass, watches deliver, and an upgrade starts when it may and ends (its  *)
(* controller's Progress).  Pods may stay unready, and users need not act. *)
(***************************************************************************)
Fairness ==
    /\ WF_vars(Begin) /\ WF_vars(Reconcile)
    /\ WF_vars(DeliverInstance) /\ WF_vars(DeliverDeployment)
    /\ WF_vars(DeliverUpgrade) /\ WF_vars(DeliverAddons)
    /\ \A n \in UpgradeNames :
         /\ WF_vars(UpgradeStarts(n))
         /\ WF_vars(\E outcome \in {"succeeded", "failed"} : UpgradeEnds(n, outcome))

Safety == Init /\ [][Next]_vars
Spec == Safety /\ Fairness

-----------------------------------------------------------------------------
(* Correctness. *)

TypeOK ==
    /\ inst \in Instance /\ instCache \in Instance /\ instWatch \in Seq(Instance)
    /\ dep \in Deployment /\ depCache \in Deployment
    /\ state \in [UpgradeNames -> Q!State] /\ upCache \in [UpgradeNames -> Q!State]
    /\ upWatch \in Seq([UpgradeNames -> Q!State])
    /\ ticket \in [UpgradeNames -> Nat] /\ next \in Nat
    /\ rev \in Revisions /\ revCache \in Revisions
    /\ queued \in BOOLEAN
    /\ pc \in {"idle", "finalizer", "init", "createInit", "gate", "createUpgrade", "deploy",
               "status"}
    /\ read \in Instance /\ my \in Instance
    /\ current \in Revisions \cup {None}
    /\ pc \in {"createInit", "gate", "createUpgrade", "deploy", "status"} => current # None
    /\ initPhase \in {"", "Initializing", "InitializationFailed"}
    /\ gate \in [template : Revisions \cup {None}, phase : {"", "Upgrading", "UpgradeFailed"}]
    /\ edits \in 0 .. MaxEdits /\ faults \in 0 .. MaxFaults
    /\ ran \in Revisions \cup {None} /\ db \in Revisions \cup {None}
    /\ succeeded \subseteq UpgradeNames

\* "No Odoo pod runs against an empty database" (docs/odooinstance.md:218): while
\* spec.initialize asks for it, the Deployment has no replicas until `<name>-init` has
\* really filled the database, whatever a stale copy of the status says.
NoPodsOnEmptyDatabase == inst.initialize /\ db = None => dep.replicas = 0

\* The controller never takes a serving instance down: once it has scaled the
\* Deployment up it does not scale it to zero again, although each pass decides anew
\* from a cached status.initialized that may not show its own last write (initDecide).
NeverScaledToZero == [][dep.replicas > 0 => dep'.replicas > 0]_vars

\* "With spec.upgrade set, it only advances after the matching upgrade succeeded"
\* (docs/odooinstance.md:163, of status.appliedAddonsHash): while the stored instance is
\* gated, applied only moves to a revision whose OdooUpgrade did succeed, whatever stale
\* copy a pass decided on and also when it fails half way and Failed is written
\* (gateAddonsRollout, Reconcile).  While the database is initialised there is no gate.
GateHolds ==
    [][/\ inst.upgrade /\ inst.applied # None /\ (inst.initialize => inst.initialized)
       /\ inst'.applied # inst.applied
       => inst'.applied \in succeeded]_vars

\* "With spec.upgrade, the revision the pods run changes only after the matching
\* OdooUpgrade succeeds" (docs/architecture.md:182): the same of the Deployment, which a
\* pass writes before its status and without regard to the version of the instance it
\* has read (gateAddonsRollout, reconcileDeployment).
RolloutFollowsUpgrade ==
    [][/\ inst.upgrade /\ inst.applied # None /\ (inst.initialize => inst.initialized)
       /\ dep'.rev # dep.rev
       => dep'.rev \in succeeded \cup {inst.applied}]_vars

\* The pods run the newest revision and the status says so, or the status names the
\* failed upgrade (or initialisation) that holds them back.
Settled ==
    \/ /\ inst.initialize /\ inst.initUpgrade /\ inst.phase = "InitializationFailed"
       /\ state[initUpgradeName] = "failed" /\ dep.replicas = 0
    \/ /\ dep.replicas = Replicas /\ dep.rev = rev
       /\ inst.applied = rev /\ inst.active = None
    \/ /\ dep.replicas = Replicas /\ dep.rev = inst.applied
       /\ inst.upgrade /\ inst.active = rev /\ inst.phase = "UpgradeFailed" /\ ~inst.ready
       /\ state[gateUpgradeName(rev)] = "failed"

\* When addons, users and faults leave it alone the instance settles, whichever order
\* their events and the controller's own writes were seen in.
Settles == <>[]Settled
=============================================================================
