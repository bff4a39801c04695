------------------------- MODULE OdooInstanceProofs -------------------------
(***************************************************************************)
(* Theorems about OdooInstance for every set of revisions, every number of *)
(* replicas and every value of the bounds.                                 *)
(***************************************************************************)
EXTENDS OdooInstance, SequenceTheorems, TLAPS

\* An upgrade that is seen to have succeeded has, wherever it is seen.
Recorded(s) == \A n \in UpgradeNames : s[n] = "succeeded" => n \in succeeded
RecordInv ==
    /\ Recorded(state) /\ Recorded(upCache)
    /\ \A i \in 1 .. Len(upWatch) : Recorded(upWatch[i])

\* The worker's copy keeps the spec it read, and until the gate has decided the applied
\* revision; it forgets no initialisation.
CopyInv ==
    /\ pc \notin {"deploy", "status"} => initPhase = "" /\ (pc # "idle" => my.applied = read.applied)
    /\ pc # "idle" => /\ my.upgrade = read.upgrade /\ my.initialize = read.initialize
                      /\ read.initialized => my.initialized
    /\ pc = "createInit" => my.initialize /\ ~my.initialized
    /\ initPhase # "" => read.initialize /\ ~read.initialized

\* What the gate lets a pass deploy and record.
GateInv ==
    pc \in {"deploy", "status"} /\ initPhase = "" /\ read.upgrade /\ read.applied # None =>
        my.applied = gate.template /\ gate.template \in succeeded \cup {read.applied}

-----------------------------------------------------------------------------
(* The two decisions. *)

Rev == Revisions \cup {None}

\* The verdicts of a pass.
InitVerdict == initDecide(my.initialize, my.initialized, upCache[initUpgradeName],
                          depCache.ready)
CreateVerdict == gateDecide(TRUE, my.applied, current, "absent")

\* Initialisation is held only when it is asked for and not done, and not held only when
\* it is not asked for, done, or there is a sign that it happened.
LEMMA InitDecision ==
  ASSUME my \in Instance
  PROVE  /\ InitVerdict.pending \in BOOLEAN /\ InitVerdict.initialized \in BOOLEAN
         /\ InitVerdict.phase \in {"", "Initializing", "InitializationFailed"}
         /\ InitVerdict.pending => /\ InitVerdict.phase # ""
                                   /\ my.initialize /\ ~my.initialized
                                   /\ upCache[initUpgradeName] # "succeeded"
         /\ ~InitVerdict.pending =>
              /\ my.initialized => InitVerdict.initialized
              /\ \/ ~my.initialize \/ my.initialized
                 \/ upCache[initUpgradeName] = "succeeded"
                 \/ upCache[initUpgradeName] = "absent" /\ depCache.ready > 0
<1> DEFINE d == InitVerdict
           done == upCache[initUpgradeName] = "succeeded"
           seen == upCache[initUpgradeName] = "absent" /\ depCache.ready > 0
<1>0. my.initialize \in BOOLEAN /\ my.initialized \in BOOLEAN
  BY DEF Instance
<1>1. \/ /\ ~my.initialize \/ my.initialized
         /\ d = [pending |-> FALSE, initialized |-> my.initialized, ensureUpgrade |-> FALSE,
                 phase |-> ""]
      \/ /\ done \/ seen
         /\ d = [pending |-> FALSE, initialized |-> TRUE, ensureUpgrade |-> FALSE,
                 phase |-> ""]
      \/ /\ my.initialize /\ ~my.initialized /\ ~done
         /\ \E e \in BOOLEAN, ph \in {"Initializing", "InitializationFailed"} :
              d = [pending |-> TRUE, initialized |-> FALSE, ensureUpgrade |-> e,
                   phase |-> ph]
  BY <1>0 DEF initDecide, InitVerdict
<1>2. ASSUME NEW p \in BOOLEAN, NEW i \in BOOLEAN, NEW e \in BOOLEAN, NEW ph,
             d = [pending |-> p, initialized |-> i, ensureUpgrade |-> e, phase |-> ph]
      PROVE  d.pending = p /\ d.initialized = i /\ d.phase = ph
  BY <1>2
<1>3. \/ /\ ~my.initialize \/ my.initialized
         /\ d.pending = FALSE /\ d.initialized = my.initialized /\ d.phase = ""
      \/ /\ done \/ seen
         /\ d.pending = FALSE /\ d.initialized = TRUE /\ d.phase = ""
      \/ /\ my.initialize /\ ~my.initialized /\ ~done
         /\ d.pending = TRUE /\ d.initialized = FALSE
         /\ d.phase \in {"Initializing", "InitializationFailed"}
  <2> HIDE DEF d, done, seen
  <2> QED BY <1>0, <1>1, <1>2
<1> QED BY <1>0, <1>3

\* The gate stays at the applied revision or moves to one that was upgraded to.
LEMMA GateFacts ==
  ASSUME my \in Instance, current \in Rev
  PROVE  /\ GateDecision.template \in Rev /\ GateDecision.applied = GateDecision.template
         /\ GateDecision.active \in Rev
         /\ GateDecision.phase \in {"", "Upgrading", "UpgradeFailed"}
         /\ my.upgrade /\ my.applied # None =>
              \/ GateDecision.template = my.applied
              \/ /\ GateDecision.template = current
                 /\ upCache[gateUpgradeName(current)] = "succeeded"
<1> DEFINE d == GateDecision
           done == upCache[gateUpgradeName(current)] = "succeeded"
<1>0. my.upgrade \in BOOLEAN /\ my.applied \in Rev /\ None \in Rev
  BY DEF Instance, Rev
<1>1. \/ /\ ~my.upgrade \/ my.applied = None \/ my.applied = current \/ done
         /\ d = Rolled(current)
      \/ \E phase \in {"Upgrading", "UpgradeFailed"}, e \in BOOLEAN :
            d = Held(my.applied, current, phase, e)
  BY <1>0 DEF gateDecide, GateDecision
<1>2. ASSUME NEW e \in BOOLEAN, NEW p, NEW a, NEW t, NEW u,
             d = [template |-> t, applied |-> u, active |-> a, phase |-> p,
                  ensureUpgrade |-> e]
      PROVE  d.template = t /\ d.applied = u /\ d.active = a /\ d.phase = p
  BY <1>2
<1> HIDE DEF d, done
<1>3. ASSUME ~my.upgrade \/ my.applied = None \/ my.applied = current \/ done,
             d = Rolled(current)
      PROVE  d.template = current /\ d.applied = current /\ d.active = None /\ d.phase = ""
  BY <1>2, <1>3 DEF Rolled
<1>4. ASSUME NEW phase \in {"Upgrading", "UpgradeFailed"}, NEW e \in BOOLEAN,
             d = Held(my.applied, current, phase, e)
      PROVE  /\ d.template = my.applied /\ d.applied = my.applied /\ d.active = current
             /\ d.phase \in {"Upgrading", "UpgradeFailed"}
  BY <1>2, <1>4 DEF Held
<1>5. \/ /\ ~my.upgrade \/ my.applied = None \/ my.applied = current \/ done
         /\ d.template = current /\ d.applied = current /\ d.active = None /\ d.phase = ""
      \/ /\ d.template = my.applied /\ d.applied = my.applied /\ d.active = current
         /\ d.phase \in {"Upgrading", "UpgradeFailed"}
  BY <1>1, <1>3, <1>4
<1> QED BY <1>0, <1>5 DEF d, done

\* After the upgrade was created the pods stay where they are.
LEMMA CreateFacts ==
  ASSUME my \in Instance, current \in Rev
  PROVE  /\ CreateVerdict.template \in Rev /\ CreateVerdict.applied = CreateVerdict.template
         /\ CreateVerdict.active \in Rev
         /\ CreateVerdict.phase \in {"", "Upgrading", "UpgradeFailed"}
         /\ my.applied # None => CreateVerdict.template = my.applied
<1> DEFINE d == CreateVerdict
<1>0. my.applied \in Rev /\ None \in Rev
  BY DEF Instance, Rev
<1>1. \/ (my.applied = None \/ my.applied = current) /\ d = Rolled(current)
      \/ d = Held(my.applied, current, "Upgrading", TRUE)
  BY <1>0 DEF gateDecide, CreateVerdict
<1>2. ASSUME NEW e \in BOOLEAN, NEW p, NEW a, NEW t, NEW u,
             d = [template |-> t, applied |-> u, active |-> a, phase |-> p,
                  ensureUpgrade |-> e]
      PROVE  d.template = t /\ d.applied = u /\ d.active = a /\ d.phase = p
  BY <1>2
<1> HIDE DEF d
<1>3. ASSUME d = Rolled(current)
      PROVE  d.template = current /\ d.applied = current /\ d.active = None /\ d.phase = ""
  BY <1>2, <1>3 DEF Rolled
<1>4. ASSUME d = Held(my.applied, current, "Upgrading", TRUE)
      PROVE  /\ d.template = my.applied /\ d.applied = my.applied /\ d.active = current
             /\ d.phase = "Upgrading"
  BY <1>2, <1>4 DEF Held
<1>5. \/ /\ my.applied = None \/ my.applied = current
         /\ d.template = current /\ d.applied = current /\ d.active = None /\ d.phase = ""
      \/ /\ d.template = my.applied /\ d.applied = my.applied /\ d.active = current
         /\ d.phase = "Upgrading"
  BY <1>1, <1>3, <1>4
<1> QED BY <1>0, <1>5 DEF d

-----------------------------------------------------------------------------
(* Type correctness. *)

UpgradeState == [UpgradeNames -> Q!State]
GateType == [template : Rev, phase : {"", "Upgrading", "UpgradeFailed"}]
Decided == {"createInit", "gate", "createUpgrade", "deploy", "status"}

InstType == inst \in Instance /\ instCache \in Instance /\ instWatch \in Seq(Instance)
DepType == dep \in Deployment /\ depCache \in Deployment
QueueType ==
    /\ state \in UpgradeState /\ upCache \in UpgradeState /\ upWatch \in Seq(UpgradeState)
    /\ ticket \in [UpgradeNames -> Nat] /\ next \in Nat
RevType == rev \in Revisions /\ revCache \in Revisions
WorkerType ==
    /\ pc \in {"idle", "finalizer", "init"} \cup Decided
    /\ read \in Instance /\ my \in Instance
    /\ current \in Rev /\ (pc \in Decided => current # None)
    /\ initPhase \in {"", "Initializing", "InitializationFailed"} /\ gate \in GateType
CountType == queued \in BOOLEAN /\ edits \in 0 .. MaxEdits /\ faults \in 0 .. MaxFaults
HistoryType == ran \in Rev /\ db \in Rev /\ succeeded \subseteq UpgradeNames

LEMMA TypeParts ==
  /\ TypeOK <=> /\ InstType /\ DepType /\ QueueType /\ RevType /\ WorkerType /\ CountType
                /\ HistoryType
  /\ TypeOK' <=> /\ InstType' /\ DepType' /\ QueueType' /\ RevType' /\ WorkerType'
                 /\ CountType' /\ HistoryType'
  BY DEF TypeOK, InstType, DepType, QueueType, RevType, WorkerType, CountType, HistoryType,
         Rev, Decided, UpgradeState, GateType

LEMMA TypeKept ==
  /\ InstType /\ UNCHANGED <<instVars, instCache>> => InstType'
  /\ DepType /\ UNCHANGED <<dep, depCache>> => DepType'
  /\ QueueType /\ UNCHANGED <<queueVars, upCache>> => QueueType'
  /\ RevType /\ UNCHANGED <<rev, revCache>> => RevType'
  /\ WorkerType /\ UNCHANGED worker => WorkerType'
  /\ CountType /\ UNCHANGED <<queued, edits, faults>> => CountType'
  /\ HistoryType /\ UNCHANGED history => HistoryType'
  BY DEF InstType, DepType, QueueType, RevType, WorkerType, CountType, HistoryType,
         instVars, queueVars, worker, history

LEMMA NewTypes ==
  /\ \A u, i \in BOOLEAN : NewInstance(u, i) \in Instance
  /\ Blank \in Instance /\ NoGate \in GateType /\ NoDeployment \in Deployment
<1>1. None \in Rev /\ "" \in Phase
  BY DEF Rev, Phase
<1>2. ASSUME NEW u \in BOOLEAN, NEW i \in BOOLEAN PROVE NewInstance(u, i) \in Instance
  BY <1>1 DEF NewInstance, Instance, Rev
<1>3. NoGate \in GateType
  BY <1>1 DEF NoGate, GateType
<1>4. NoDeployment \in Deployment
  <2>1. 0 \in 0 .. Replicas
    BY ReplicasAssumption
  <2> QED BY <1>1, <2>1 DEF NoDeployment, Deployment, Rev
<1> QED BY <1>2, <1>3, <1>4 DEF Blank

LEMMA ResetType ==
  ASSUME WorkerResets
  PROVE  WorkerType'
  BY NewTypes DEF WorkerResets, WorkerType, Rev, Decided

LEMMA ReturnType ==
  ASSUME CountType, NEW requeue \in BOOLEAN, Return(requeue)
  PROVE  WorkerType' /\ queued' \in BOOLEAN
  BY ResetType DEF Return, CountType

LEMMA StoreType ==
  ASSUME InstType, NEW new \in Instance, StoreInstance(new), UNCHANGED instCache
  PROVE  InstType'
  BY DEF InstType, StoreInstance

LEMMA FaultType == CountType /\ Fault => faults' \in 0 .. MaxFaults
  BY BoundsAssumption DEF CountType, Fault

LEMMA EditType == CountType /\ Edit => edits' \in 0 .. MaxEdits
  BY BoundsAssumption DEF CountType, Edit

LEMMA WatchedType ==
  ASSUME QueueType, state' \in UpgradeState, Watched
  PROVE  upWatch' \in Seq(UpgradeState)
  BY DEF QueueType, Watched

LEMMA EnsureType ==
  ASSUME QueueType, NEW n \in UpgradeNames, EnsureUpgrade(n), UNCHANGED upCache
  PROVE  QueueType'
<1>1. CASE UNCHANGED queueVars
  BY <1>1, TypeKept
<1>2. CASE Q!Submit(n) /\ Watched
  <2>1. state' \in UpgradeState /\ ticket' \in [UpgradeNames -> Nat] /\ next' \in Nat
    BY <1>2 DEF QueueType, Q!Submit, UpgradeState, Q!State
  <2> QED BY <1>2, <2>1, WatchedType DEF QueueType
<1> QED BY <1>1, <1>2 DEF EnsureUpgrade

LEMMA NameFacts == initUpgradeName \in UpgradeNames /\ \A r \in Revisions : gateUpgradeName(r) \in UpgradeNames
  BY DEF UpgradeNames, gateUpgradeName

\* The statuses a pass writes.
LEMMA StatusType ==
  ASSUME WorkerType, DepType
  PROVE  FinalStatus \in Instance /\ FailedStatus \in Instance
<1>1. my \in Instance /\ gate.phase \in {"", "Upgrading", "UpgradeFailed"}
  BY DEF WorkerType, GateType
<1> DEFINE up == depCache.exists /\ depCache.ready >= Replicas
           phase == IF initPhase # "" THEN initPhase
                    ELSE IF gate.phase # "" THEN gate.phase
                    ELSE IF up THEN "Running" ELSE "Creating"
           ready == up /\ gate.phase # "UpgradeFailed" /\ initPhase = ""
<1>2. phase \in Phase
  BY <1>1 DEF WorkerType, Phase
<1>3. ready \in BOOLEAN
  OBVIOUS
<1>4. FinalStatus = [my EXCEPT !.phase = phase, !.ready = ready]
  BY DEF FinalStatus
<1> HIDE DEF phase, ready
<1>5. FinalStatus \in Instance
  BY <1>1, <1>2, <1>3, <1>4 DEF Instance
<1>6. FailedStatus \in Instance
  BY <1>1 DEF FailedStatus, Instance, Phase
<1> QED BY <1>5, <1>6

LEMMA FailType ==
  ASSUME InstType, WorkerType, DepType, CountType, Fail, UNCHANGED instCache
  PROVE  InstType' /\ WorkerType' /\ queued' \in BOOLEAN
<1>1. InstType'
  <2>1. CASE UNCHANGED instVars
    BY <2>1, TypeKept
  <2>2. CASE StoreInstance(FailedStatus)
    BY <2>2, StatusType, StoreType
  <2> QED BY <2>1, <2>2 DEF Fail
<1> QED BY <1>1, ReturnType DEF Fail

LEMMA HoldType ==
  ASSUME WorkerType, NEW d, NEW h \in Revisions, initHoldGate(d, h),
         d.phase \in {"Initializing", "InitializationFailed"},
         current' \in Revisions, UNCHANGED read
  PROVE  WorkerType'
<1>1. h \in Rev /\ None \in Rev
  BY DEF Rev
<1>2. my' \in Instance
  BY <1>1 DEF initHoldGate, WorkerType, Instance, Rev
<1>3. gate' \in GateType /\ pc' = "deploy" /\ initPhase' = d.phase
  BY <1>1 DEF initHoldGate, GateType
<1>4. current' \in Rev /\ current' # None
  BY RevisionsAssumption DEF Rev, None
<1> QED BY <1>2, <1>3, <1>4 DEF WorkerType, Decided

LEMMA ApplyType ==
  ASSUME WorkerType, pc \in Decided, NEW d, ApplyGate(d),
         d.template \in Rev, d.applied \in Rev, d.active \in Rev,
         d.phase \in {"", "Upgrading", "UpgradeFailed"},
         UNCHANGED <<read, current, initPhase>>
  PROVE  WorkerType'
<1>1. my' \in Instance
  BY DEF ApplyGate, WorkerType, Instance, Rev
<1>2. gate' \in GateType /\ pc' = "deploy"
  BY DEF ApplyGate, GateType
<1> QED BY <1>1, <1>2 DEF WorkerType, Decided

LEMMA DesiredType ==
  ASSUME WorkerType, NEW old \in Deployment
  PROVE  DesiredDeployment(old) \in Deployment
<1>1. gate.template \in Rev /\ old.ready \in 0 .. Replicas
  BY DEF WorkerType, GateType, Deployment
<1>2. (IF initPhase # "" THEN 0 ELSE Replicas) \in 0 .. Replicas
  BY ReplicasAssumption
<1> QED BY <1>1, <1>2 DEF DesiredDeployment, Deployment, Rev

LEMMA TypeInit == Init => TypeOK
<1> SUFFICES ASSUME Init PROVE TypeOK OBVIOUS
<1>1. inst \in Instance
  BY InitializeAssumption, NewTypes DEF Init
<1>2. rev \in Revisions /\ revCache = rev
  BY RevisionsAssumption DEF Init
<1>3. instWatch = <<>> /\ upWatch = <<>> /\ instCache = inst /\ depCache = dep
      /\ dep = NoDeployment /\ upCache = state
  BY DEF Init
<1>4. instWatch \in Seq(Instance) /\ upWatch \in Seq(UpgradeState)
  BY <1>3, EmptySeq
<1>5. InstType /\ DepType /\ RevType
  BY <1>1, <1>2, <1>3, <1>4, NewTypes DEF InstType, DepType, RevType
<1>6. QueueType
  <2>1. state \in UpgradeState /\ ticket \in [UpgradeNames -> Nat] /\ next \in Nat
    BY DEF Init, UpgradeState, Q!State
  <2> QED BY <1>3, <1>4, <2>1 DEF QueueType
<1>7. WorkerType
  BY NewTypes DEF Init, WorkerType, Rev, Decided
<1>8. CountType
  <2>1. queued = TRUE /\ edits = 0 /\ faults = 0
    BY DEF Init
  <2> QED BY <2>1, BoundsAssumption DEF CountType
<1>9. HistoryType
  BY <1>2 DEF Init, HistoryType, Rev
<1> QED BY <1>5, <1>6, <1>7, <1>8, <1>9, TypeParts

\* The steps of a pass.
LEMMA WorkerTypeStep ==
  ASSUME TypeOK, Begin \/ Reconcile
  PROVE  TypeOK'
<1> USE DEF cacheVars
<1>0. InstType /\ DepType /\ QueueType /\ RevType /\ WorkerType /\ CountType /\ HistoryType
  BY TypeParts
<1>1. CASE Begin
  <2>1. WorkerType'
    BY <1>0, <1>1 DEF Begin, WorkerType, InstType, Decided
  <2>2. CountType'
    BY <1>0, <1>1 DEF Begin, CountType
  <2> QED BY <1>0, <1>1, <2>1, <2>2, TypeKept, TypeParts DEF Begin
<1>2. CASE AddFinalizer
  <2>1. [inst EXCEPT !.finalizer = TRUE] \in Instance
    BY <1>0 DEF InstType, Instance
  <2>2. InstType'
    BY <1>0, <1>2, <2>1, StoreType DEF AddFinalizer
  <2>3. WorkerType'
    BY <1>0, <1>2, <2>2 DEF AddFinalizer, WorkerType, InstType, Decided
  <2> QED BY <1>0, <1>2, <2>2, <2>3, TypeKept, TypeParts DEF AddFinalizer
<1>3. CASE DecideInitialization
  <2> DEFINE d == InitVerdict
  <2>1. my \in Instance
    BY <1>0 DEF WorkerType
  <2>2. /\ d.pending \in BOOLEAN /\ d.initialized \in BOOLEAN
        /\ d.phase \in {"", "Initializing", "InitializationFailed"}
        /\ d.pending => d.phase # ""
    BY <2>1, InitDecision
  <2>3. /\ current' = revCache /\ UNCHANGED read
        /\ \/ pc' = "createInit" /\ UNCHANGED <<my, initPhase, gate>>
           \/ d.pending /\ initHoldGate(d, revCache)
           \/ /\ my' = [my EXCEPT !.initialized = d.initialized, !.initUpgrade = FALSE]
              /\ pc' = "gate" /\ UNCHANGED <<initPhase, gate>>
    BY <1>3, Zenon DEF DecideInitialization, InitVerdict
  <2> HIDE DEF d
  <2>4. current' \in Revisions /\ current' \in Rev /\ current' # None
    BY <1>0, <2>3, RevisionsAssumption DEF RevType, Rev, None
  <2>5. ASSUME d.pending, initHoldGate(d, revCache) PROVE WorkerType'
    <3>1. revCache \in Revisions /\ d.phase \in {"Initializing", "InitializationFailed"}
      BY <1>0, <2>2, <2>5 DEF RevType
    <3> QED BY <1>0, <2>3, <2>4, <2>5, <3>1, HoldType
  <2>6. ASSUME pc' = "createInit", UNCHANGED <<my, initPhase, gate>> PROVE WorkerType'
    BY <1>0, <2>3, <2>4, <2>6 DEF WorkerType, Decided
  <2>7. ASSUME my' = [my EXCEPT !.initialized = d.initialized, !.initUpgrade = FALSE],
               pc' = "gate", UNCHANGED <<initPhase, gate>>
        PROVE  WorkerType'
    <3>1. my' \in Instance
      BY <2>1, <2>2, <2>7 DEF Instance
    <3> QED BY <1>0, <2>3, <2>4, <2>7, <3>1 DEF WorkerType, Decided
  <2>8. WorkerType'
    BY <2>3, <2>5, <2>6, <2>7
  <2> QED BY <1>0, <1>3, <2>8, TypeKept, TypeParts DEF DecideInitialization
<1>4. CASE CreateInitUpgrade
  <2>1. current \in Revisions /\ UNCHANGED <<current, read>>
    BY <1>0, <1>4 DEF CreateInitUpgrade, WorkerType, Decided, Rev
  <2>2. initDecide(TRUE, FALSE, "absent", 0).phase = "Initializing"
    BY DEF initDecide
  <2>3. WorkerType'
    BY <1>0, <1>4, <2>1, <2>2, HoldType DEF CreateInitUpgrade
  <2>4. QueueType'
    BY <1>0, <1>4, NameFacts, EnsureType DEF CreateInitUpgrade
  <2> QED BY <1>0, <1>4, <2>3, <2>4, TypeKept, TypeParts DEF CreateInitUpgrade
<1>5. CASE GateAddonsRollout
  <2>1. my \in Instance /\ current \in Rev
    BY <1>0 DEF WorkerType
  <2>2. /\ GateDecision.template \in Rev /\ GateDecision.applied \in Rev
        /\ GateDecision.active \in Rev
        /\ GateDecision.phase \in {"", "Upgrading", "UpgradeFailed"}
    BY <2>1, GateFacts
  <2>3. pc \in Decided /\ UNCHANGED <<read, current, initPhase>>
    BY <1>5 DEF GateAddonsRollout, Decided
  <2>4. CASE pc' = "createUpgrade" /\ UNCHANGED <<my, gate>>
    <3>1. WorkerType'
      BY <1>0, <2>3, <2>4 DEF WorkerType, Decided
    <3> QED BY <1>0, <1>5, <3>1, TypeKept, TypeParts DEF GateAddonsRollout
  <2>5. CASE ApplyGate(GateDecision)
    <3>1. WorkerType'
      BY <1>0, <2>2, <2>3, <2>5, ApplyType
    <3> QED BY <1>0, <1>5, <3>1, TypeKept, TypeParts DEF GateAddonsRollout
  <2> QED BY <1>5, <2>4, <2>5 DEF GateAddonsRollout
<1>6. CASE GateCreateUpgrade
  <2>1. my \in Instance /\ current \in Rev /\ current \in Revisions /\ pc \in Decided
        /\ UNCHANGED <<read, current, initPhase>>
    BY <1>0, <1>6 DEF GateCreateUpgrade, WorkerType, Rev, Decided
  <2> DEFINE d == CreateVerdict
  <2>2. /\ d.template \in Rev /\ d.applied \in Rev /\ d.active \in Rev
        /\ d.phase \in {"", "Upgrading", "UpgradeFailed"}
    BY <2>1, CreateFacts
  <2>3. ApplyGate(d)
    BY <1>6 DEF GateCreateUpgrade, CreateVerdict
  <2> HIDE DEF d
  <2>4. WorkerType'
    BY <1>0, <2>1, <2>2, <2>3, ApplyType
  <2>5. QueueType'
    BY <1>0, <1>6, <2>1, NameFacts, EnsureType DEF GateCreateUpgrade
  <2> QED BY <1>0, <1>6, <2>4, <2>5, TypeKept, TypeParts DEF GateCreateUpgrade
<1>7. CASE ReconcileDeployment
  <2>1. DepType'
    BY <1>0, <1>7, DesiredType DEF ReconcileDeployment, DepType
  <2>2. WorkerType'
    BY <1>0, <1>7 DEF ReconcileDeployment, WorkerType, Decided
  <2> QED BY <1>0, <1>7, <2>1, <2>2, TypeKept, TypeParts DEF ReconcileDeployment
<1>8. CASE WriteStatus
  <2>1. InstType'
    BY <1>0, <1>8, StatusType, StoreType DEF WriteStatus
  <2>2. WorkerType' /\ queued' \in BOOLEAN
    BY <1>0, <1>8, ReturnType DEF WriteStatus
  <2>3. CountType'
    BY <1>0, <1>8, <2>2 DEF WriteStatus, CountType
  <2> QED BY <1>0, <1>8, <2>1, <2>2, <2>3, TypeKept, TypeParts DEF WriteStatus
<1>9. CASE Conflict
  <2>1. WorkerType' /\ queued' \in BOOLEAN
    BY <1>0, <1>9, ReturnType DEF Conflict
  <2>2. CountType'
    BY <1>0, <1>9, <2>1 DEF Conflict, CountType
  <2> QED BY <1>0, <1>9, <2>1, <2>2, TypeKept, TypeParts DEF Conflict
<1>10. CASE CreateDeploymentFails
  <2>1. InstType' /\ WorkerType' /\ queued' \in BOOLEAN
    BY <1>0, <1>10, FailType DEF CreateDeploymentFails
  <2>2. CountType'
    BY <1>0, <1>10, <2>1 DEF CreateDeploymentFails, CountType
  <2> QED BY <1>0, <1>10, <2>1, <2>2, TypeKept, TypeParts DEF CreateDeploymentFails
<1> QED BY <1>1, <1>2, <1>3, <1>4, <1>5, <1>6, <1>7, <1>8, <1>9, <1>10 DEF Reconcile

\* Errors, the informers, the cluster and the users.
LEMMA WorldTypeStep ==
  ASSUME TypeOK, Next, ~(Begin \/ Reconcile)
  PROVE  TypeOK'
<1> USE DEF cacheVars
<1>0. InstType /\ DepType /\ QueueType /\ RevType /\ WorkerType /\ CountType /\ HistoryType
  BY TypeParts
<1>1. CASE CallFails
  <2>1. InstType' /\ WorkerType' /\ queued' \in BOOLEAN
    <3>1. CASE UNCHANGED instVars /\ Return(TRUE)
      BY <1>0, <1>1, <3>1, ReturnType, TypeKept DEF CallFails
    <3>2. CASE Fail
      BY <1>0, <1>1, <3>2, FailType DEF CallFails
    <3> QED BY <1>1, <3>1, <3>2 DEF CallFails
  <2>2. CountType'
    BY <1>0, <1>1, <2>1, FaultType DEF CallFails, CountType
  <2> QED BY <1>0, <1>1, <2>1, <2>2, TypeKept, TypeParts DEF CallFails
<1>2. CASE WriteUnanswered
  <2>1. UNCHANGED <<rev, instCache, depCache, upCache, revCache, edits, history>> /\ Fault
    BY <1>2 DEF WriteUnanswered
  <2>2. ASSUME InstType', WorkerType', queued' \in BOOLEAN, DepType', QueueType' PROVE TypeOK'
    <3>1. CountType'
      BY <1>0, <2>1, <2>2, FaultType DEF CountType
    <3> QED BY <1>0, <2>1, <2>2, <3>1, TypeKept, TypeParts
  <2>3. CASE /\ pc = "finalizer" /\ StoreInstance([inst EXCEPT !.finalizer = TRUE])
             /\ Return(TRUE) /\ UNCHANGED <<dep, queueVars>>
    <3>1. [inst EXCEPT !.finalizer = TRUE] \in Instance
      BY <1>0 DEF InstType, Instance
    <3>2. InstType'
      BY <1>0, <2>1, <2>3, <3>1, StoreType
    <3>3. WorkerType' /\ queued' \in BOOLEAN
      BY <1>0, <2>3, ReturnType
    <3> QED BY <1>0, <2>1, <2>2, <2>3, <3>2, <3>3, TypeKept
  <2>4. CASE pc = "createInit" /\ EnsureUpgrade(initUpgradeName) /\ UNCHANGED dep /\ Fail
    <3>1. QueueType'
      BY <1>0, <2>1, <2>4, EnsureType, NameFacts
    <3> QED BY <1>0, <2>1, <2>2, <2>4, <3>1, FailType, TypeKept
  <2>5. CASE /\ pc = "createUpgrade" /\ EnsureUpgrade(gateUpgradeName(current))
             /\ UNCHANGED dep /\ Fail
    <3>1. current \in Revisions
      BY <1>0, <2>5 DEF WorkerType, Decided, Rev
    <3>2. QueueType'
      BY <1>0, <2>1, <2>5, <3>1, EnsureType, NameFacts
    <3> QED BY <1>0, <2>1, <2>2, <2>5, <3>2, FailType, TypeKept
  <2>6. CASE pc = "deploy" /\ dep' = DesiredDeployment(dep) /\ UNCHANGED queueVars /\ Fail
    <3>1. DepType'
      BY <1>0, <2>1, <2>6, DesiredType DEF DepType
    <3> QED BY <1>0, <2>1, <2>2, <2>6, <3>1, FailType, TypeKept
  <2>7. CASE /\ pc = "status" /\ StoreInstance(FinalStatus) /\ Return(TRUE)
             /\ UNCHANGED <<dep, queueVars>>
    <3>1. InstType'
      BY <1>0, <2>1, <2>7, StatusType, StoreType
    <3>2. WorkerType' /\ queued' \in BOOLEAN
      BY <1>0, <2>7, ReturnType
    <3> QED BY <1>0, <2>1, <2>2, <2>7, <3>1, <3>2, TypeKept
  <2> QED BY <1>2, <2>3, <2>4, <2>5, <2>6, <2>7 DEF WriteUnanswered
<1>3. CASE Restart
  <2>1. instWatch' = <<>> /\ upWatch' = <<>>
    BY <1>3 DEF Restart
  <2>2. instWatch' \in Seq(Instance) /\ upWatch' \in Seq(UpgradeState)
    BY <2>1, EmptySeq
  <2>3. InstType' /\ DepType' /\ QueueType' /\ RevType'
    BY <1>0, <1>3, <2>2 DEF Restart, InstType, DepType, QueueType, RevType
  <2>4. WorkerType'
    BY <1>3, ResetType DEF Restart
  <2>5. CountType'
    BY <1>0, <1>3, FaultType DEF Restart, CountType
  <2> QED BY <1>0, <1>3, <2>3, <2>4, <2>5, TypeKept, TypeParts DEF Restart
<1>4. CASE DeliverInstance
  <2>1. InstType'
    <3>1. Head(instWatch) \in Instance /\ Tail(instWatch) \in Seq(Instance)
      BY <1>0, <1>4, HeadTailProperties DEF DeliverInstance, InstType
    <3> QED BY <1>0, <1>4, <3>1 DEF DeliverInstance, InstType
  <2>2. CountType'
    BY <1>0, <1>4 DEF DeliverInstance, CountType
  <2> QED BY <1>0, <1>4, <2>1, <2>2, TypeKept, TypeParts DEF DeliverInstance
<1>5. CASE DeliverDeployment
  <2>1. DepType' /\ CountType'
    BY <1>0, <1>5 DEF DeliverDeployment, DepType, CountType
  <2> QED BY <1>0, <1>5, <2>1, TypeKept, TypeParts DEF DeliverDeployment
<1>6. CASE DeliverUpgrade
  <2>1. QueueType'
    <3>1. Head(upWatch) \in UpgradeState /\ Tail(upWatch) \in Seq(UpgradeState)
      BY <1>0, <1>6, HeadTailProperties DEF DeliverUpgrade, QueueType
    <3> QED BY <1>0, <1>6, <3>1 DEF DeliverUpgrade, QueueType
  <2>2. CountType'
    BY <1>0, <1>6 DEF DeliverUpgrade, CountType
  <2> QED BY <1>0, <1>6, <2>1, <2>2, TypeKept, TypeParts DEF DeliverUpgrade
<1>7. CASE DeliverAddons
  <2>1. RevType' /\ CountType'
    BY <1>0, <1>7 DEF DeliverAddons, RevType, CountType
  <2> QED BY <1>0, <1>7, <2>1, TypeKept, TypeParts DEF DeliverAddons
<1>8. ASSUME NEW ready \in 0 .. Replicas, PodsChange(ready) PROVE TypeOK'
  <2>1. DepType'
    BY <1>0, <1>8 DEF PodsChange, DepType, Deployment
  <2>2. CountType'
    BY <1>0, <1>8, FaultType DEF PodsChange, CountType
  <2> QED BY <1>0, <1>8, <2>1, <2>2, TypeKept, TypeParts DEF PodsChange
<1>9. ASSUME NEW n \in UpgradeNames, UpgradeStarts(n) PROVE TypeOK'
  <2>1. state' \in UpgradeState /\ UNCHANGED <<ticket, next, upCache>>
    BY <1>0, <1>9 DEF UpgradeStarts, Q!Start, QueueType, UpgradeState, Q!State
  <2>2. QueueType'
    BY <1>0, <1>9, <2>1, WatchedType DEF UpgradeStarts, QueueType
  <2>3. HistoryType'
    BY <1>0, <1>9 DEF UpgradeStarts, HistoryType, RevType, Rev
  <2> QED BY <1>0, <1>9, <2>2, <2>3, TypeKept, TypeParts DEF UpgradeStarts
<1>10. ASSUME NEW n \in UpgradeNames, NEW outcome \in {"succeeded", "failed"},
              UpgradeEnds(n, outcome)
       PROVE  TypeOK'
  <2>1. state' \in UpgradeState /\ UNCHANGED <<ticket, next, upCache>>
    BY <1>0, <1>10 DEF UpgradeEnds, Q!End, QueueType, UpgradeState, Q!State
  <2>2. QueueType'
    BY <1>0, <1>10, <2>1, WatchedType DEF UpgradeEnds, QueueType
  <2>3. HistoryType'
    BY <1>0, <1>10 DEF UpgradeEnds, HistoryType, Rev
  <2> QED BY <1>0, <1>10, <2>2, <2>3, TypeKept, TypeParts DEF UpgradeEnds
<1>11. ASSUME NEW r \in Revisions, SyncAddons(r) PROVE TypeOK'
  <2>1. RevType'
    BY <1>0, <1>11 DEF SyncAddons, RevType
  <2>2. CountType'
    BY <1>0, <1>11, EditType DEF SyncAddons, CountType
  <2> QED BY <1>0, <1>11, <2>1, <2>2, TypeKept, TypeParts DEF SyncAddons
<1>12. CASE EditSpec
  <2>1. /\ [inst EXCEPT !.upgrade = ~inst.upgrade] \in Instance
        /\ [inst EXCEPT !.initialize = FALSE] \in Instance
    BY <1>0 DEF InstType, Instance
  <2>2. InstType'
    BY <1>0, <1>12, <2>1, StoreType DEF EditSpec
  <2>3. CountType'
    BY <1>0, <1>12, EditType DEF EditSpec, CountType
  <2> QED BY <1>0, <1>12, <2>2, <2>3, TypeKept, TypeParts DEF EditSpec
<1>13. ASSUME NEW n \in UpgradeNames, DeleteUpgrade(n) PROVE TypeOK'
  <2>1. state' \in UpgradeState /\ ticket' \in [UpgradeNames -> Nat]
        /\ UNCHANGED <<next, upCache>>
    BY <1>0, <1>13 DEF DeleteUpgrade, Q!Withdraw, QueueType, UpgradeState, Q!State
  <2>2. QueueType'
    BY <1>0, <1>13, <2>1, WatchedType DEF DeleteUpgrade, QueueType
  <2>3. CountType'
    BY <1>0, <1>13, EditType DEF DeleteUpgrade, CountType
  <2> QED BY <1>0, <1>13, <2>2, <2>3, TypeKept, TypeParts DEF DeleteUpgrade
<1> QED BY <1>1, <1>2, <1>3, <1>4, <1>5, <1>6, <1>7, <1>8, <1>9, <1>10, <1>11, <1>12, <1>13
        DEF Next

LEMMA TypeStep == TypeOK /\ [Next]_vars => TypeOK'
<1>1. TypeOK /\ UNCHANGED vars => TypeOK'
  BY TypeParts, TypeKept DEF vars, cacheVars
<1> QED BY <1>1, WorkerTypeStep, WorldTypeStep

\* Type correctness of the instance, its Deployment, its upgrades and the worker.
THEOREM TypeCorrect == Safety => []TypeOK
  BY TypeInit, TypeStep, PTL DEF Safety

-----------------------------------------------------------------------------
(* What the steps do to the upgrades, the instance, the Deployment and the   *)
(* worker.                                                                   *)

\* An upgrade is submitted, starts, succeeds, fails or is deleted.
UpgradeMoves(n, s) ==
    /\ Watched /\ state' = [state EXCEPT ![n] = s] /\ UNCHANGED upCache
    /\ \/ s = "waiting" /\ state[n] = "absent" /\ UNCHANGED history
       \/ /\ s = "running" /\ state[n] = "waiting" /\ ran' = rev /\ UNCHANGED <<db, succeeded>>
          /\ \A m \in UpgradeNames \ {n} : state[m] # "running"
       \/ /\ s = "succeeded" /\ state[n] = "running" /\ ran' = None
          /\ db' = ran /\ succeeded' = succeeded \cup {n}
       \/ /\ s = "failed" /\ state[n] \in {"waiting", "running"} /\ UNCHANGED <<db, succeeded>>
          /\ ran' = IF state[n] = "running" THEN None ELSE ran
       \/ s = "absent" /\ state[n] \in Deletable /\ UNCHANGED history

LEMMA EnsureEffect ==
  ASSUME NEW n \in UpgradeNames, EnsureUpgrade(n), UNCHANGED <<upCache, history>>
  PROVE  UNCHANGED <<state, upWatch, upCache, history>> \/ UpgradeMoves(n, "waiting")
  BY DEF EnsureUpgrade, Q!Submit, UpgradeMoves, queueVars

LEMMA QueueEffect ==
  ASSUME TypeOK, [Next]_vars
  PROVE  \/ UNCHANGED <<state, upWatch, upCache, history>>
         \/ DeliverUpgrade \/ Restart
         \/ \E n \in UpgradeNames, s \in Q!State : UpgradeMoves(n, s)
<1> USE DEF cacheVars
<1>0. \A s \in {"absent", "waiting", "running", "succeeded", "failed"} : s \in Q!State
  BY DEF Q!State
<1>1. CASE CreateInitUpgrade
  BY <1>0, <1>1, EnsureEffect, NameFacts DEF CreateInitUpgrade
<1>2. ASSUME current \in Revisions, EnsureUpgrade(gateUpgradeName(current)),
             UNCHANGED <<upCache, history>>
      PROVE  \/ UNCHANGED <<state, upWatch, upCache, history>>
             \/ \E n \in UpgradeNames, s \in Q!State : UpgradeMoves(n, s)
  BY <1>0, <1>2, EnsureEffect, NameFacts
<1>3. CASE GateCreateUpgrade \/ WriteUnanswered
  <2>1. pc = "createUpgrade" => current \in Revisions
    BY TypeParts DEF WorkerType, Decided, Rev
  <2>2. CASE GateCreateUpgrade
    BY <1>2, <2>1, <2>2 DEF GateCreateUpgrade
  <2>3. CASE WriteUnanswered
    <3>1. UNCHANGED <<upCache, history>>
      BY <2>3 DEF WriteUnanswered
    <3>2. CASE UNCHANGED queueVars
      BY <3>1, <3>2 DEF queueVars
    <3>3. CASE EnsureUpgrade(initUpgradeName)
      BY <1>0, <3>1, <3>3, EnsureEffect, NameFacts
    <3>4. CASE pc = "createUpgrade" /\ EnsureUpgrade(gateUpgradeName(current))
      BY <1>2, <2>1, <3>1, <3>4
    <3> QED BY <2>3, <3>2, <3>3, <3>4 DEF WriteUnanswered
  <2> QED BY <1>3, <2>2, <2>3
<1>4. ASSUME NEW n \in UpgradeNames, UpgradeStarts(n) PROVE UpgradeMoves(n, "running")
  BY <1>4 DEF UpgradeStarts, Q!Start, Q!MayStart, Q!Rivals, UpgradeMoves
<1>5. ASSUME NEW n \in UpgradeNames, NEW outcome \in {"succeeded", "failed"},
             UpgradeEnds(n, outcome)
      PROVE  UpgradeMoves(n, outcome)
  BY <1>5 DEF UpgradeEnds, Q!End, UpgradeMoves
<1>6. ASSUME NEW n \in UpgradeNames, DeleteUpgrade(n) PROVE UpgradeMoves(n, "absent")
  BY <1>6 DEF DeleteUpgrade, Q!Withdraw, UpgradeMoves
<1>7. CASE UNCHANGED <<queueVars, upCache, history>>
  BY <1>7 DEF queueVars
<1>8. CASE \/ Begin \/ AddFinalizer \/ DecideInitialization \/ GateAddonsRollout
           \/ ReconcileDeployment \/ WriteStatus \/ Conflict \/ CreateDeploymentFails
           \/ CallFails \/ DeliverInstance \/ DeliverDeployment \/ DeliverAddons
           \/ EditSpec \/ UNCHANGED vars
           \/ \E ready \in 0 .. Replicas : PodsChange(ready)
           \/ \E r \in Revisions : SyncAddons(r)
  BY <1>7, <1>8 DEF Begin, AddFinalizer, DecideInitialization, GateAddonsRollout,
           ReconcileDeployment, WriteStatus, Conflict, CreateDeploymentFails, CallFails,
           DeliverInstance, DeliverDeployment, DeliverAddons, EditSpec, PodsChange,
           SyncAddons, vars
<1> QED BY <1>0, <1>1, <1>3, <1>4, <1>5, <1>6, <1>8 DEF Next, Reconcile

\* A write of the instance by the worker, from the copy it read, or by someone else.
WorkerWrites ==
    /\ pc \notin {"idle", "finalizer"} /\ inst = read
    /\ inst'.applied = my.applied /\ inst'.initialize = my.initialize
    /\ inst'.initialized = my.initialized /\ WorkerResets
OtherWrites ==
    /\ inst'.applied = inst.applied /\ inst'.initialized = inst.initialized
    /\ inst'.initialize => inst.initialize
    /\ \/ UNCHANGED worker \/ WorkerResets
       \/ /\ inst = read /\ inst'.initialize = inst.initialize
          /\ pc' = "init" /\ read' = inst' /\ my' = inst'
          /\ pc = "finalizer" /\ UNCHANGED <<current, initPhase, gate>>

LEMMA StatusKeeps ==
  ASSUME WorkerType
  PROVE  \A new \in {FinalStatus, FailedStatus} :
           /\ new.applied = my.applied /\ new.initialize = my.initialize
           /\ new.initialized = my.initialized
<1>1. my \in Instance
  BY DEF WorkerType
<1>2. /\ FinalStatus.applied = my.applied /\ FinalStatus.initialize = my.initialize
      /\ FinalStatus.initialized = my.initialized
  BY <1>1 DEF FinalStatus, Instance
<1>3. /\ FailedStatus.applied = my.applied /\ FailedStatus.initialize = my.initialize
      /\ FailedStatus.initialized = my.initialized
  BY <1>1 DEF FailedStatus, Instance
<1> QED BY <1>2, <1>3

LEMMA InstEffect ==
  ASSUME TypeOK, [Next]_vars
  PROVE  \/ UNCHANGED <<instVars, instCache>> \/ DeliverInstance \/ Restart
         \/ /\ StoreInstance(inst') /\ UNCHANGED instCache
            /\ WorkerWrites \/ OtherWrites
<1> USE DEF cacheVars
<1>0. inst \in Instance /\ WorkerType
  BY TypeParts DEF InstType
<1>1. ASSUME NEW new, StoreInstance(new) PROVE StoreInstance(inst') /\ inst' = new
  BY <1>1 DEF StoreInstance
<1>2. /\ [inst EXCEPT !.finalizer = TRUE].applied = inst.applied
      /\ [inst EXCEPT !.finalizer = TRUE].initialized = inst.initialized
      /\ [inst EXCEPT !.finalizer = TRUE].initialize = inst.initialize
  BY <1>0 DEF Instance
<1>3. CASE AddFinalizer
  BY <1>1, <1>2, <1>3 DEF AddFinalizer, Current, OtherWrites
<1>4. ASSUME Fail, pc \notin {"idle", "finalizer"}
      PROVE  \/ UNCHANGED instVars
             \/ StoreInstance(inst') /\ WorkerWrites
  BY <1>0, <1>1, <1>4, StatusKeeps DEF Fail, Current, WorkerWrites, Return
<1>5. CASE WriteStatus
  BY <1>0, <1>1, <1>5, StatusKeeps DEF WriteStatus, Current, WorkerWrites, Return
<1>6. CASE CreateDeploymentFails \/ CallFails
  BY <1>4, <1>6 DEF CreateDeploymentFails, CallFails
<1>7. CASE WriteUnanswered
  <2>1. UNCHANGED instCache
    BY <1>7 DEF WriteUnanswered
  <2>2. CASE /\ pc = "finalizer" /\ Current /\ StoreInstance([inst EXCEPT !.finalizer = TRUE])
             /\ Return(TRUE)
    BY <1>1, <1>2, <2>1, <2>2 DEF OtherWrites, Return
  <2>3. CASE pc = "status" /\ Current /\ StoreInstance(FinalStatus) /\ Return(TRUE)
    BY <1>0, <1>1, <2>1, <2>3, StatusKeeps DEF Current, WorkerWrites, Return
  <2>4. CASE Fail /\ pc \notin {"idle", "finalizer"}
    BY <1>4, <2>1, <2>4
  <2> QED BY <1>7, <2>2, <2>3, <2>4 DEF WriteUnanswered
<1>8. CASE EditSpec
  <2> DEFINE toggled == [inst EXCEPT !.upgrade = ~inst.upgrade]
             plain == [inst EXCEPT !.initialize = FALSE]
  <2>1. /\ toggled.applied = inst.applied /\ toggled.initialized = inst.initialized
        /\ toggled.initialize = inst.initialize
        /\ plain.applied = inst.applied /\ plain.initialized = inst.initialized
    BY <1>0 DEF Instance
  <2>2. UNCHANGED worker /\ UNCHANGED instCache
    BY <1>8 DEF EditSpec
  <2>3. StoreInstance(toggled) \/ (inst.initialize /\ StoreInstance(plain))
    BY <1>8 DEF EditSpec
  <2> HIDE DEF toggled, plain
  <2>4. CASE StoreInstance(toggled)
    BY <1>1, <2>1, <2>2, <2>4 DEF OtherWrites
  <2>5. CASE inst.initialize /\ StoreInstance(plain)
    BY <1>1, <2>1, <2>2, <2>5 DEF OtherWrites
  <2> QED BY <2>3, <2>4, <2>5
<1>9. CASE \/ Begin \/ DecideInitialization \/ CreateInitUpgrade \/ GateAddonsRollout
           \/ GateCreateUpgrade \/ ReconcileDeployment \/ Conflict
           \/ DeliverDeployment \/ DeliverUpgrade \/ DeliverAddons \/ UNCHANGED vars
  BY <1>9 DEF Begin, DecideInitialization, CreateInitUpgrade, GateAddonsRollout,
           GateCreateUpgrade, ReconcileDeployment, Conflict, DeliverDeployment,
           DeliverUpgrade, DeliverAddons, vars
<1>10. CASE \/ \E ready \in 0 .. Replicas : PodsChange(ready)
            \/ \E n \in UpgradeNames : UpgradeStarts(n)
            \/ \E n \in UpgradeNames, outcome \in {"succeeded", "failed"} :
                 UpgradeEnds(n, outcome)
            \/ \E r \in Revisions : SyncAddons(r)
            \/ \E n \in UpgradeNames : DeleteUpgrade(n)
  BY <1>10 DEF PodsChange, UpgradeStarts, UpgradeEnds, SyncAddons, DeleteUpgrade
<1> QED BY <1>3, <1>5, <1>6, <1>7, <1>8, <1>9, <1>10 DEF Next, Reconcile

PassSteps ==
    \/ Begin \/ AddFinalizer \/ DecideInitialization \/ CreateInitUpgrade
    \/ GateAddonsRollout \/ GateCreateUpgrade \/ ReconcileDeployment

LEMMA WorkerEffect ==
  ASSUME [Next]_vars
  PROVE  WorkerResets \/ UNCHANGED worker \/ PassSteps
<1>1. CASE \/ WriteStatus \/ Conflict \/ CreateDeploymentFails \/ CallFails
           \/ WriteUnanswered \/ Restart
  BY <1>1 DEF WriteStatus, Conflict, CreateDeploymentFails, CallFails, WriteUnanswered,
              Restart, Fail, Return
<1>2. CASE \/ DeliverInstance \/ DeliverDeployment \/ DeliverUpgrade \/ DeliverAddons
           \/ EditSpec \/ UNCHANGED vars
           \/ \E ready \in 0 .. Replicas : PodsChange(ready)
           \/ \E n \in UpgradeNames : UpgradeStarts(n)
           \/ \E n \in UpgradeNames, outcome \in {"succeeded", "failed"} :
                UpgradeEnds(n, outcome)
           \/ \E r \in Revisions : SyncAddons(r)
           \/ \E n \in UpgradeNames : DeleteUpgrade(n)
  BY <1>2 DEF DeliverInstance, DeliverDeployment, DeliverUpgrade, DeliverAddons, EditSpec,
              PodsChange, UpgradeStarts, UpgradeEnds, SyncAddons, DeleteUpgrade, vars
<1> QED BY <1>1, <1>2 DEF Next, Reconcile, PassSteps

\* The Deployment: left alone, written by the worker, or its pods come and go.
Deploys ==
    /\ pc = "deploy" /\ dep' = DesiredDeployment(dep) /\ depCache' = depCache
    /\ ReconcileDeployment \/ WorkerResets

LEMMA DepEffect ==
  ASSUME TypeOK, [Next]_vars
  PROVE  \/ UNCHANGED <<dep, depCache>>
         \/ dep' = dep /\ depCache' = dep /\ (WorkerResets \/ UNCHANGED worker)
         \/ Deploys
         \/ \E ready \in 0 .. Replicas : PodsChange(ready)
<1> USE DEF cacheVars
<1>1. CASE ReconcileDeployment
  BY <1>1 DEF ReconcileDeployment, Deploys
<1>2. CASE WriteUnanswered
  BY <1>2 DEF WriteUnanswered, Deploys, Fail, Return
<1>3. CASE Restart \/ DeliverDeployment
  BY <1>3 DEF Restart, DeliverDeployment
<1>4. CASE \/ Begin \/ AddFinalizer \/ DecideInitialization \/ CreateInitUpgrade
           \/ GateAddonsRollout \/ GateCreateUpgrade \/ WriteStatus \/ Conflict
           \/ CreateDeploymentFails \/ CallFails
           \/ DeliverInstance \/ DeliverUpgrade \/ DeliverAddons \/ EditSpec
           \/ UNCHANGED vars
  BY <1>4 DEF Begin, AddFinalizer, DecideInitialization, CreateInitUpgrade,
           GateAddonsRollout, GateCreateUpgrade, WriteStatus, Conflict,
           CreateDeploymentFails, CallFails, DeliverInstance, DeliverUpgrade,
           DeliverAddons, EditSpec, vars
<1>5. CASE \/ \E n \in UpgradeNames : UpgradeStarts(n)
           \/ \E n \in UpgradeNames, outcome \in {"succeeded", "failed"} :
                UpgradeEnds(n, outcome)
           \/ \E r \in Revisions : SyncAddons(r)
           \/ \E n \in UpgradeNames : DeleteUpgrade(n)
  BY <1>5 DEF UpgradeStarts, UpgradeEnds, SyncAddons, DeleteUpgrade
<1> QED BY <1>1, <1>2, <1>3, <1>4, <1>5 DEF Next, Reconcile

-----------------------------------------------------------------------------
(* The gate. *)

LEMMA SucceededGrows ==
  ASSUME TypeOK, [Next]_vars
  PROVE  succeeded \subseteq succeeded'
<1>1. ASSUME NEW n, NEW s, UpgradeMoves(n, s) PROVE succeeded \subseteq succeeded'
  BY <1>1 DEF UpgradeMoves, history
<1> QED BY <1>1, QueueEffect DEF DeliverUpgrade, Restart, history

RecordedAfter(s) == \A n \in UpgradeNames : s[n] = "succeeded" => n \in succeeded'

LEMMA RecordStep ==
  ASSUME TypeOK, RecordInv, [Next]_vars
  PROVE  RecordInv'
<1>0. /\ state \in UpgradeState /\ upWatch \in Seq(UpgradeState)
      /\ RecordedAfter(state) /\ RecordedAfter(upCache)
      /\ \A i \in 1 .. Len(upWatch) : RecordedAfter(upWatch[i])
  BY TypeParts, SucceededGrows DEF QueueType, RecordInv, Recorded, RecordedAfter
<1> SUFFICES /\ RecordedAfter(state') /\ RecordedAfter(upCache')
             /\ \A i \in 1 .. Len(upWatch') : RecordedAfter(upWatch'[i])
  BY DEF RecordInv, Recorded, RecordedAfter
<1>1. CASE UNCHANGED <<state, upWatch, upCache>>
  BY <1>0, <1>1
<1>2. CASE DeliverUpgrade
  <2>1. upWatch # <<>> /\ upCache' = Head(upWatch) /\ upWatch' = Tail(upWatch)
        /\ state' = state
    BY <1>2 DEF DeliverUpgrade
  <2>2. /\ Len(upWatch) \in Nat \ {0} /\ Len(upWatch') = Len(upWatch) - 1
        /\ upCache' = upWatch[1]
        /\ \A i \in 1 .. Len(upWatch') : upWatch'[i] = upWatch[i + 1]
    BY <1>0, <2>1, EmptySeq, HeadTailProperties
  <2>3. 1 \in 1 .. Len(upWatch) /\ \A i \in 1 .. Len(upWatch') : i + 1 \in 1 .. Len(upWatch)
    BY <2>2
  <2> QED BY <1>0, <2>1, <2>2, <2>3
<1>3. CASE Restart
  <2>1. upCache' = state /\ state' = state /\ upWatch' = <<>>
    BY <1>3 DEF Restart
  <2>2. 1 .. Len(upWatch') = {}
    BY <2>1
  <2> QED BY <1>0, <2>1, <2>2
<1>4. ASSUME NEW n \in UpgradeNames, NEW s \in Q!State, UpgradeMoves(n, s)
      PROVE  /\ RecordedAfter(state') /\ RecordedAfter(upCache')
             /\ \A i \in 1 .. Len(upWatch') : RecordedAfter(upWatch'[i])
  <2>1. /\ state' = [state EXCEPT ![n] = s] /\ upCache' = upCache
        /\ upWatch' = Append(upWatch, state') /\ (s = "succeeded" => n \in succeeded')
    BY <1>4 DEF UpgradeMoves, Watched
  <2>2. RecordedAfter(state')
    BY <1>0, <2>1 DEF RecordedAfter, UpgradeState
  <2>3. /\ Len(upWatch) \in Nat /\ Len(upWatch') = Len(upWatch) + 1
        /\ upWatch'[Len(upWatch) + 1] = state'
        /\ \A i \in 1 .. Len(upWatch) : upWatch'[i] = upWatch[i]
    BY <1>0, <2>1
  <2>4. \A i \in 1 .. Len(upWatch') : i \in 1 .. Len(upWatch) \/ i = Len(upWatch) + 1
    BY <2>3
  <2> QED BY <1>0, <2>1, <2>2, <2>3, <2>4
<1> QED BY <1>1, <1>2, <1>3, <1>4, QueueEffect

\* What a pass decides about initialisation: it holds the pods, or goes on to the gate.
Holds(h) ==
    /\ initPhase' # "" /\ my' = [my EXCEPT !.initialized = FALSE, !.initUpgrade = TRUE,
                                           !.applied = h, !.active = None]
    /\ pc' = "deploy" /\ my.initialize /\ ~my.initialized

LEMMA DecideEffect ==
  ASSUME WorkerType, DecideInitialization
  PROVE  /\ pc = "init" /\ read' = read
         /\ \/ /\ pc' = "createInit" /\ UNCHANGED <<my, initPhase>>
               /\ my.initialize /\ ~my.initialized /\ upCache[initUpgradeName] # "succeeded"
            \/ Holds(revCache) /\ upCache[initUpgradeName] # "succeeded"
            \/ /\ pc' = "gate" /\ UNCHANGED initPhase
               /\ \E b \in BOOLEAN : /\ my' = [my EXCEPT !.initialized = b, !.initUpgrade = FALSE]
                                     /\ my.initialized => b
               /\ \/ ~my.initialize \/ my.initialized
                  \/ upCache[initUpgradeName] = "succeeded"
                  \/ depCache.ready > 0
<1> DEFINE d == InitVerdict
<1>1. my \in Instance
  BY DEF WorkerType
<1>2. /\ d.pending \in BOOLEAN /\ d.initialized \in BOOLEAN
      /\ d.pending => /\ d.phase # "" /\ my.initialize /\ ~my.initialized
                      /\ upCache[initUpgradeName] # "succeeded"
      /\ ~d.pending => /\ my.initialized => d.initialized
                       /\ \/ ~my.initialize \/ my.initialized
                          \/ upCache[initUpgradeName] = "succeeded" \/ depCache.ready > 0
  BY <1>1, InitDecision
<1>3. d.ensureUpgrade => d.pending
  <2>1. \/ d = [pending |-> FALSE, initialized |-> my.initialized, ensureUpgrade |-> FALSE,
                phase |-> ""]
        \/ d = [pending |-> FALSE, initialized |-> TRUE, ensureUpgrade |-> FALSE, phase |-> ""]
        \/ \E e, p : d = [pending |-> TRUE, initialized |-> FALSE, ensureUpgrade |-> e,
                          phase |-> p]
    BY DEF initDecide, InitVerdict
  <2> HIDE DEF d
  <2>2. ASSUME NEW i, d = [pending |-> FALSE, initialized |-> i, ensureUpgrade |-> FALSE,
                           phase |-> ""]
        PROVE  ~d.ensureUpgrade
    BY <2>2
  <2>3. ASSUME NEW e, NEW p, d = [pending |-> TRUE, initialized |-> FALSE,
                                  ensureUpgrade |-> e, phase |-> p]
        PROVE  d.pending
    BY <2>3
  <2> QED BY <2>1, <2>2, <2>3
<1>4. /\ pc = "init" /\ read' = read
      /\ \/ d.ensureUpgrade /\ pc' = "createInit" /\ UNCHANGED <<my, initPhase>>
         \/ d.pending /\ initHoldGate(d, revCache)
         \/ /\ ~d.pending
            /\ my' = [my EXCEPT !.initialized = d.initialized, !.initUpgrade = FALSE]
            /\ pc' = "gate" /\ UNCHANGED initPhase
  BY Zenon DEF DecideInitialization, InitVerdict
<1> HIDE DEF d
<1>5. d.pending /\ initHoldGate(d, revCache) => Holds(revCache)
  BY <1>2 DEF initHoldGate, Holds
<1> QED BY <1>2, <1>3, <1>4, <1>5

LEMMA CreateEffect ==
  ASSUME CreateInitUpgrade, my.initialize, ~my.initialized
  PROVE  Holds(current) /\ read' = read
<1>1. initDecide(TRUE, FALSE, "absent", 0).phase = "Initializing"
  BY DEF initDecide
<1> QED BY <1>1 DEF CreateInitUpgrade, initHoldGate, Holds

LEMMA CopyStep ==
  ASSUME TypeOK, CopyInv, [Next]_vars
  PROVE  CopyInv'
<1>0. my \in Instance /\ WorkerType /\ inst \in Instance
  BY TypeParts DEF WorkerType, InstType
<1>1. CASE WorkerResets
  BY <1>1 DEF WorkerResets, CopyInv
<1>2. CASE UNCHANGED worker
  BY <1>2 DEF worker, CopyInv
<1>3. CASE Begin
  <2>1. /\ pc' \in {"init", "finalizer"} /\ read' = instCache /\ my' = instCache
        /\ pc = "idle" /\ initPhase' = initPhase
    BY <1>3 DEF Begin
  <2> QED BY <2>1 DEF CopyInv
<1>4. CASE AddFinalizer
  <2>1. pc' = "init" /\ read' = inst' /\ my' = inst' /\ pc = "finalizer"
        /\ initPhase' = initPhase
    BY <1>4 DEF AddFinalizer
  <2> QED BY <2>1 DEF CopyInv
<1>5. ASSUME NEW h, Holds(h), read' = read, pc \in {"init", "createInit"} PROVE CopyInv'
  <2>1. /\ my'.upgrade = my.upgrade /\ my'.initialize = my.initialize
        /\ pc' = "deploy"
    BY <1>0, <1>5 DEF Holds, Instance
  <2>2. read.initialize /\ ~read.initialized
    BY <1>5 DEF Holds, CopyInv
  <2> QED BY <1>5, <2>1, <2>2 DEF CopyInv
<1>6. CASE DecideInitialization
  <2>1. CASE pc' = "createInit" /\ UNCHANGED <<my, initPhase>> /\ my.initialize
             /\ ~my.initialized /\ read' = read /\ pc = "init"
    BY <2>1 DEF CopyInv
  <2>2. ASSUME NEW b \in BOOLEAN, my' = [my EXCEPT !.initialized = b, !.initUpgrade = FALSE],
               my.initialized => b, pc' = "gate", UNCHANGED initPhase, read' = read,
               pc = "init"
        PROVE  CopyInv'
    <3>1. /\ my'.upgrade = my.upgrade /\ my'.initialize = my.initialize
          /\ my'.applied = my.applied /\ my'.initialized = b
      BY <1>0, <2>2 DEF Instance
    <3> QED BY <2>2, <3>1 DEF CopyInv
  <2> QED BY <1>0, <1>5, <1>6, <2>1, <2>2, DecideEffect
<1>7. CASE CreateInitUpgrade
  <2>1. pc = "createInit" /\ my.initialize /\ ~my.initialized
    BY <1>7 DEF CreateInitUpgrade, CopyInv
  <2> QED BY <1>5, <1>7, <2>1, CreateEffect
<1>8. CASE GateAddonsRollout \/ GateCreateUpgrade
  <2>1. UNCHANGED <<read, initPhase>> /\ pc \in {"gate", "createUpgrade"}
    BY <1>8 DEF GateAddonsRollout, GateCreateUpgrade
  <2>2. CASE pc' = "createUpgrade" /\ UNCHANGED my
    BY <2>1, <2>2 DEF CopyInv
  <2>3. ASSUME NEW d, ApplyGate(d) PROVE CopyInv'
    <3>1. /\ my'.upgrade = my.upgrade /\ my'.initialize = my.initialize
          /\ my'.initialized = my.initialized /\ pc' = "deploy"
      BY <1>0, <2>3 DEF ApplyGate, Instance
    <3> QED BY <2>1, <3>1 DEF CopyInv
  <2> QED BY <1>8, <2>2, <2>3 DEF GateAddonsRollout, GateCreateUpgrade
<1>9. CASE ReconcileDeployment
  <2>1. pc = "deploy" /\ pc' = "status" /\ UNCHANGED <<read, my, initPhase>>
    BY <1>9 DEF ReconcileDeployment
  <2> QED BY <2>1 DEF CopyInv
<1> QED BY <1>1, <1>2, <1>3, <1>4, <1>6, <1>7, <1>8, <1>9, WorkerEffect DEF PassSteps

LEMMA GateStep ==
  ASSUME TypeOK, CopyInv, RecordInv, GateInv, [Next]_vars
  PROVE  GateInv'
<1> SUFFICES ASSUME pc' \in {"deploy", "status"}, initPhase' = "", read'.upgrade,
                    read'.applied # None
             PROVE  /\ my'.applied = gate'.template
                    /\ gate'.template \in succeeded' \cup {read'.applied}
  BY DEF GateInv
<1>0. /\ my \in Instance /\ current \in Rev /\ WorkerType
      /\ pc \in Decided => current \in Revisions
      /\ succeeded \subseteq succeeded'
  BY TypeParts, SucceededGrows DEF WorkerType, Rev
<1>1. ~WorkerResets
  BY DEF WorkerResets
<1>2. CASE UNCHANGED worker
  BY <1>0, <1>2 DEF worker, GateInv
<1>3. ~Begin /\ ~AddFinalizer
  BY DEF Begin, AddFinalizer
<1>4. ~DecideInitialization
  BY <1>0, DecideEffect DEF Holds
<1>5. ~CreateInitUpgrade
  BY CreateEffect DEF CreateInitUpgrade, Holds, CopyInv
<1>6. ASSUME NEW d, ApplyGate(d), read' = read, pc \in {"gate", "createUpgrade"},
             d.applied = d.template, d.template \in succeeded \cup {my.applied}
      PROVE  /\ my'.applied = gate'.template
             /\ gate'.template \in succeeded' \cup {read'.applied}
  <2>1. my'.applied = d.applied /\ gate'.template = d.template
    BY <1>0, <1>6 DEF ApplyGate, Instance
  <2>2. my.applied = read.applied
    BY <1>6 DEF CopyInv
  <2> QED BY <1>0, <1>6, <2>1, <2>2
<1>7. \/ my.upgrade = read'.upgrade /\ my.applied = read'.applied
      \/ pc \notin {"gate", "createUpgrade"}
      \/ read' # read
  BY DEF CopyInv
<1>8. CASE GateAddonsRollout
  <2>1. ApplyGate(GateDecision) /\ read' = read /\ pc = "gate"
    BY <1>8 DEF GateAddonsRollout
  <2>2. my.upgrade /\ my.applied # None /\ current \in Revisions
    BY <1>0, <1>7, <2>1 DEF Decided
  <2>3. upCache[gateUpgradeName(current)] = "succeeded" => current \in succeeded
    BY <2>2 DEF RecordInv, Recorded, gateUpgradeName, UpgradeNames
  <2>4. /\ GateDecision.applied = GateDecision.template
        /\ GateDecision.template \in succeeded \cup {my.applied}
    BY <1>0, <2>2, <2>3, GateFacts
  <2> QED BY <1>6, <2>1, <2>4
<1>9. CASE GateCreateUpgrade
  <2>1. ApplyGate(CreateVerdict) /\ read' = read /\ pc = "createUpgrade"
    BY <1>9 DEF GateCreateUpgrade, CreateVerdict
  <2>2. my.applied # None
    BY <1>7, <2>1
  <2>3. CreateVerdict.applied = CreateVerdict.template /\ CreateVerdict.template = my.applied
    BY <1>0, <2>2, CreateFacts
  <2> QED BY <1>6, <2>1, <2>3
<1>10. CASE ReconcileDeployment
  BY <1>0, <1>10 DEF ReconcileDeployment, GateInv
<1> QED BY <1>1, <1>2, <1>3, <1>4, <1>5, <1>8, <1>9, <1>10, WorkerEffect DEF PassSteps

LEMMA GateHoldsStep ==
  ASSUME TypeOK, CopyInv, GateInv, [Next]_vars,
         inst.upgrade, inst.applied # None, inst.initialize => inst.initialized,
         inst'.applied # inst.applied
  PROVE  inst'.applied \in succeeded
<1>1. WorkerWrites
  BY InstEffect DEF OtherWrites, DeliverInstance, Restart, instVars
<1>2. inst = read /\ inst'.applied = my.applied /\ pc \notin {"idle", "finalizer"}
  BY <1>1 DEF WorkerWrites
<1>3. pc \in {"deploy", "status"}
  <2>1. pc \in {"idle", "finalizer", "init", "createInit", "gate", "createUpgrade", "deploy",
                "status"}
    BY DEF TypeOK
  <2> QED BY <1>2, <2>1 DEF CopyInv
<1>4. initPhase = "" /\ read.upgrade /\ read.applied # None
  BY <1>2 DEF CopyInv
<1> QED BY <1>2, <1>3, <1>4 DEF GateInv

LEMMA GateInit == Init => RecordInv /\ CopyInv /\ GateInv
<1> SUFFICES ASSUME Init PROVE RecordInv /\ CopyInv /\ GateInv OBVIOUS
<1>1. /\ state = [n \in UpgradeNames |-> "absent"] /\ upCache = state
      /\ pc = "idle" /\ initPhase = ""
  BY DEF Init
<1>2. 1 .. Len(upWatch) = {}
  <2>1. upWatch = <<>>
    BY DEF Init
  <2> QED BY <2>1
<1> QED BY <1>1, <1>2 DEF RecordInv, Recorded, CopyInv, GateInv

\* While the stored instance is gated, status.appliedAddonsHash moves only to a revision
\* whose OdooUpgrade succeeded, for any interleaving of edits, stale reads, failed passes
\* and restarts.  It says nothing of the Deployment (gateAddonsRollout).
THEOREM GateKept == Safety => GateHolds
<1> DEFINE Inv == TypeOK /\ RecordInv /\ CopyInv /\ GateInv
<1>1. Inv /\ [Next]_vars => Inv'
  BY TypeStep, RecordStep, CopyStep, GateStep
<1>2. Inv /\ [Next]_vars =>
        [/\ inst.upgrade /\ inst.applied # None /\ (inst.initialize => inst.initialized)
         /\ inst'.applied # inst.applied
         => inst'.applied \in succeeded]_vars
  BY GateHoldsStep
<1>3. Init => Inv
  BY TypeInit, GateInit
<1> QED BY <1>1, <1>2, <1>3, PTL DEF Safety, GateHolds

-----------------------------------------------------------------------------
(* The empty database. *)

\* At most one upgrade runs, it has its addons, and a success fills the database.
RanInv ==
    /\ \A m, n \in UpgradeNames : state[m] = "running" /\ state[n] = "running" => m = n
    /\ \A n \in UpgradeNames : state[n] = "running" => ran # None
    /\ succeeded # {} => db # None

LEMMA RanStep ==
  ASSUME TypeOK, RanInv, [Next]_vars
  PROVE  RanInv' /\ (db # None => db' # None)
<1>0. /\ state \in UpgradeState /\ rev # None /\ succeeded \subseteq UpgradeNames
  BY TypeParts, RevisionsAssumption DEF QueueType, TypeOK, None
<1>1. CASE UNCHANGED <<state, history>>
  BY <1>1 DEF RanInv, history
<1>2. ASSUME NEW n \in UpgradeNames, NEW s \in Q!State, UpgradeMoves(n, s)
      PROVE  RanInv' /\ (db # None => db' # None)
  <2>1. state' = [state EXCEPT ![n] = s]
    BY <1>2 DEF UpgradeMoves
  <2>2. state'[n] = s /\ \A m \in UpgradeNames \ {n} : state'[m] = state[m]
    BY <1>0, <2>1 DEF UpgradeState
  <2>3. CASE s \in {"waiting", "absent"} /\ UNCHANGED history
    BY <2>2, <2>3 DEF RanInv, history
  <2>4. CASE /\ s = "running" /\ ran' = rev /\ UNCHANGED <<db, succeeded>>
             /\ \A m \in UpgradeNames \ {n} : state[m] # "running"
    BY <1>0, <2>2, <2>4 DEF RanInv
  <2>5. CASE /\ s = "succeeded" /\ state[n] = "running" /\ ran' = None
             /\ db' = ran /\ succeeded' = succeeded \cup {n}
    BY <2>2, <2>5 DEF RanInv
  <2>6. CASE /\ s = "failed" /\ UNCHANGED <<db, succeeded>>
             /\ ran' = IF state[n] = "running" THEN None ELSE ran
    BY <2>2, <2>6 DEF RanInv
  <2> QED BY <1>2, <2>3, <2>4, <2>5, <2>6 DEF UpgradeMoves
<1> QED BY <1>1, <1>2, QueueEffect DEF DeliverUpgrade, Restart

\* Until `<name>-init` has filled the database, every copy of the instance asks for its
\* initialisation, the Deployment has neither replicas nor pods, and no pass is beyond
\* the decision without having decided to hold.
Empty == inst.initialize /\ db = None
Asks(o) == o.initialize /\ ~o.initialized
AsksEverywhere ==
    Asks(inst) /\ Asks(instCache) /\ \A i \in 1 .. Len(instWatch) : Asks(instWatch[i])
NoPods == dep.replicas = 0 /\ dep.ready = 0 /\ depCache.ready = 0
Holding ==
    /\ pc # "idle" => Asks(my)
    /\ pc \notin {"gate", "createUpgrade"}
    /\ pc \in {"deploy", "status"} => initPhase # ""
EmptyInv == Empty => AsksEverywhere /\ NoPods /\ Holding

LEMMA StaysEmpty ==
  ASSUME TypeOK, CopyInv, RanInv, [Next]_vars, Empty'
  PROVE  Empty
<1>1. db = None
  BY RanStep DEF Empty
<1>2. inst'.initialize => inst.initialize
  BY InstEffect DEF instVars, DeliverInstance, Restart, WorkerWrites, OtherWrites, CopyInv
<1> QED BY <1>1, <1>2 DEF Empty

LEMMA AsksStep ==
  ASSUME TypeOK, CopyInv, [Next]_vars, AsksEverywhere, Holding, Empty'
  PROVE  AsksEverywhere'
<1>0. instWatch \in Seq(Instance)
  BY DEF TypeOK
<1>1. CASE UNCHANGED <<instVars, instCache>>
  BY <1>1 DEF instVars, AsksEverywhere, Asks
<1>2. CASE DeliverInstance
  <2>1. instWatch # <<>> /\ instCache' = Head(instWatch) /\ instWatch' = Tail(instWatch)
        /\ inst' = inst
    BY <1>2 DEF DeliverInstance
  <2>2. /\ Len(instWatch) \in Nat \ {0} /\ Len(instWatch') = Len(instWatch) - 1
        /\ instCache' = instWatch[1]
        /\ \A i \in 1 .. Len(instWatch') : instWatch'[i] = instWatch[i + 1]
    BY <1>0, <2>1, EmptySeq, HeadTailProperties
  <2>3. 1 \in 1 .. Len(instWatch)
        /\ \A i \in 1 .. Len(instWatch') : i + 1 \in 1 .. Len(instWatch)
    BY <2>2
  <2> QED BY <2>1, <2>2, <2>3 DEF AsksEverywhere, Asks
<1>3. CASE Restart
  <2>1. instCache' = inst /\ inst' = inst /\ instWatch' = <<>>
    BY <1>3 DEF Restart
  <2>2. 1 .. Len(instWatch') = {}
    BY <2>1
  <2> QED BY <2>1, <2>2 DEF AsksEverywhere, Asks
<1>4. CASE StoreInstance(inst') /\ UNCHANGED instCache /\ (WorkerWrites \/ OtherWrites)
  <2>1. Asks(inst)'
    <3>1. inst'.initialize
      BY DEF Empty
    <3>2. ~inst'.initialized
      BY <1>4 DEF WorkerWrites, OtherWrites, AsksEverywhere, Holding, Asks
    <3> QED BY <3>1, <3>2 DEF Asks
  <2>2. instWatch' = instWatch \/ instWatch' = Append(instWatch, inst')
    BY <1>4 DEF StoreInstance
  <2>3. CASE instWatch' = instWatch
    BY <1>4, <2>1, <2>3 DEF AsksEverywhere, Asks
  <2>4. CASE instWatch' = Append(instWatch, inst')
    <3>1. /\ Len(instWatch) \in Nat /\ Len(instWatch') = Len(instWatch) + 1
          /\ instWatch'[Len(instWatch) + 1] = inst'
          /\ \A i \in 1 .. Len(instWatch) : instWatch'[i] = instWatch[i]
      BY <1>0, <2>4
    <3>2. \A i \in 1 .. Len(instWatch') : i \in 1 .. Len(instWatch) \/ i = Len(instWatch) + 1
      BY <3>1
    <3> QED BY <1>4, <2>1, <3>1, <3>2 DEF AsksEverywhere, Asks
  <2> QED BY <2>2, <2>3, <2>4
<1> QED BY <1>1, <1>2, <1>3, <1>4, InstEffect

LEMMA NoPodsStep ==
  ASSUME TypeOK, [Next]_vars, NoPods, Holding
  PROVE  NoPods'
<1>0. dep \in Deployment
  BY DEF TypeOK
<1>1. CASE Deploys
  <2>1. initPhase # "" /\ depCache' = depCache
    BY <1>1 DEF Deploys, Holding
  <2>2. dep'.replicas = 0 /\ dep'.ready = dep.ready
    BY <1>1, <2>1 DEF Deploys, DesiredDeployment
  <2> QED BY <2>1, <2>2 DEF NoPods
<1>2. ASSUME NEW ready, PodsChange(ready) PROVE NoPods'
  <2>1. /\ dep' = [dep EXCEPT !.ready = ready] /\ ready \in 0 .. dep.replicas
        /\ depCache' = depCache
    BY <1>2 DEF PodsChange, cacheVars
  <2>2. dep'.replicas = dep.replicas /\ dep'.ready = ready
    BY <1>0, <2>1 DEF Deployment
  <2>3. ready = 0
    BY <2>1 DEF NoPods
  <2> QED BY <2>1, <2>2, <2>3 DEF NoPods
<1> QED BY <1>1, <1>2, DepEffect DEF NoPods

LEMMA HoldingStep ==
  ASSUME TypeOK, RecordInv, CopyInv, RanInv, [Next]_vars, Empty, Empty',
         AsksEverywhere, NoPods, Holding
  PROVE  Holding'
<1>0. WorkerType /\ my \in Instance
  BY TypeParts DEF WorkerType
<1>1. CASE WorkerResets
  BY <1>1 DEF WorkerResets, Holding
<1>2. CASE UNCHANGED worker
  BY <1>2 DEF worker, Holding, Asks
<1>3. CASE Begin
  <2>1. pc' \in {"init", "finalizer"} /\ my' = instCache
    BY <1>3 DEF Begin
  <2> QED BY <2>1 DEF Holding, AsksEverywhere, Asks
<1>4. CASE AddFinalizer
  <2>1. pc' = "init" /\ my' = inst'
    BY <1>4 DEF AddFinalizer
  <2>2. Asks(inst')
    BY AsksStep DEF AsksEverywhere, Asks
  <2> QED BY <2>1, <2>2 DEF Holding, Asks
<1>5. ASSUME NEW h, Holds(h) PROVE Holding'
  <2>1. /\ my'.initialize = my.initialize /\ my'.initialized = FALSE
        /\ pc' = "deploy" /\ initPhase' # "" /\ my.initialize
    BY <1>0, <1>5 DEF Holds, Instance
  <2> QED BY <2>1 DEF Holding, Asks
<1>6. CASE DecideInitialization
  <2>1. pc = "init"
    BY <1>6 DEF DecideInitialization
  <2>2. my.initialize /\ ~my.initialized /\ ~(depCache.ready > 0)
    BY <2>1 DEF Holding, Asks, NoPods
  <2>3. upCache[initUpgradeName] # "succeeded"
    BY NameFacts DEF RecordInv, Recorded, RanInv, Empty
  <2>4. CASE pc' = "createInit" /\ UNCHANGED my
    BY <2>1, <2>4 DEF Holding, Asks
  <2> QED BY <1>0, <1>5, <1>6, <2>2, <2>3, <2>4, DecideEffect
<1>7. CASE CreateInitUpgrade
  <2>1. pc = "createInit"
    BY <1>7 DEF CreateInitUpgrade
  <2>2. my.initialize /\ ~my.initialized
    BY <2>1 DEF Holding, Asks
  <2> QED BY <1>5, <1>7, <2>2, CreateEffect
<1>8. CASE GateAddonsRollout \/ GateCreateUpgrade
  BY <1>8 DEF GateAddonsRollout, GateCreateUpgrade, Holding
<1>9. CASE ReconcileDeployment
  BY <1>9 DEF ReconcileDeployment, Holding, Asks
<1> QED BY <1>1, <1>2, <1>3, <1>4, <1>6, <1>7, <1>8, <1>9, WorkerEffect DEF PassSteps

LEMMA EmptyStep ==
  ASSUME TypeOK, RecordInv, CopyInv, RanInv, EmptyInv, [Next]_vars
  PROVE  EmptyInv'
<1> SUFFICES ASSUME Empty' PROVE (AsksEverywhere /\ NoPods /\ Holding)'
  BY DEF EmptyInv
<1>1. Empty /\ AsksEverywhere /\ NoPods /\ Holding
  BY StaysEmpty DEF EmptyInv
<1> QED BY <1>1, AsksStep, NoPodsStep, HoldingStep

LEMMA EmptyInit == Init => RanInv /\ EmptyInv
<1> SUFFICES ASSUME Init PROVE RanInv /\ EmptyInv OBVIOUS
<1>1. /\ state = [n \in UpgradeNames |-> "absent"] /\ succeeded = {}
      /\ pc = "idle" /\ instCache = inst
  BY DEF Init
<1>2. RanInv
  BY <1>1 DEF RanInv
<1>3. 1 .. Len(instWatch) = {}
  <2>1. instWatch = <<>>
    BY DEF Init
  <2> QED BY <2>1
<1>4. ~inst.initialized
  <2>1. ASSUME NEW u, NEW i PROVE ~NewInstance(u, i).initialized
    BY DEF NewInstance
  <2> QED BY <2>1 DEF Init
<1>5. NoPods
  BY DEF Init, NoDeployment, NoPods
<1>6. Empty => AsksEverywhere
  BY <1>1, <1>3, <1>4 DEF Empty, AsksEverywhere, Asks
<1>7. Holding
  BY <1>1 DEF Holding
<1> QED BY <1>2, <1>5, <1>6, <1>7 DEF EmptyInv

\* While spec.initialize asks for it, no Deployment has replicas before `<name>-init` has
\* filled the database (initDecide, reconcileWebDeployment), for every order in which
\* status writes, upgrade results and restarts are seen.
THEOREM EmptyDatabaseUnserved == Safety => []NoPodsOnEmptyDatabase
<1> DEFINE Inv == TypeOK /\ RecordInv /\ CopyInv /\ RanInv /\ EmptyInv
<1>1. Inv /\ [Next]_vars => Inv'
  BY TypeStep, RecordStep, CopyStep, RanStep, EmptyStep
<1>2. Inv => NoPodsOnEmptyDatabase
  BY DEF EmptyInv, Empty, NoPods, NoPodsOnEmptyDatabase
<1> QED BY <1>1, <1>2, TypeInit, GateInit, EmptyInit, PTL DEF Safety

-----------------------------------------------------------------------------
(* A serving instance stays up.                                              *)

\* Later copies of the instance: spec.initialize is only removed, status.initialized is
\* only set.
Before(a, b) == (b.initialize => a.initialize) /\ (a.initialized => b.initialized)
OrderInv ==
    /\ Before(instCache, inst)
    /\ \A i \in 1 .. Len(instWatch) : Before(instCache, instWatch[i]) /\ Before(instWatch[i], inst)
    /\ \A i, j \in 1 .. Len(instWatch) : i <= j => Before(instWatch[i], instWatch[j])
    /\ pc # "idle" => Before(read, instCache)
    /\ pc \in {"finalizer", "init"} => my = read

\* The success of `<name>-init` is never unseen.
InitDone(s) == s[initUpgradeName] = "succeeded"
KeptInv ==
    /\ InitDone(upCache) =>
         InitDone(state) /\ \A i \in 1 .. Len(upWatch) : InitDone(upWatch[i])
    /\ \A i \in 1 .. Len(upWatch) : InitDone(upWatch[i]) => InitDone(state)
    /\ \A i, j \in 1 .. Len(upWatch) : i <= j /\ InitDone(upWatch[i]) => InitDone(upWatch[j])

\* With this copy of the instance and of the upgrades a pass lets the pods run.
Due(o, ups) == ~o.initialize \/ o.initialized \/ InitDone(ups)
UpInv ==
    /\ dep.replicas > 0 \/ dep.ready > 0 \/ depCache.ready > 0 => Due(instCache, upCache)
    /\ pc \in {"gate", "createUpgrade"} => Due(instCache, upCache)
    /\ pc \in {"deploy", "status"} /\ initPhase = "" => Due(instCache, upCache)
    /\ dep.replicas > 0 /\ pc \in {"finalizer", "init"} => Due(my, upCache)
    /\ pc = "createInit" \/ initPhase # "" => dep.replicas = 0

LEMMA WriteIsLater ==
  ASSUME CopyInv, WorkerWrites \/ OtherWrites
  PROVE  Before(inst, inst')
  BY DEF CopyInv, WorkerWrites, OtherWrites, Before

LEMMA ReadStep ==
  ASSUME TypeOK, CopyInv, OrderInv, [Next]_vars
  PROVE  /\ pc' # "idle" => Before(read', instCache)
         /\ pc' \in {"finalizer", "init"} => my' = read'
<1>1. CASE WorkerResets \/ UNCHANGED worker
  BY <1>1 DEF WorkerResets, worker, OrderInv
<1>2. CASE Begin
  BY <1>2 DEF Begin, Before
<1>3. CASE AddFinalizer
  <2>1. /\ inst = read /\ read' = inst' /\ my' = inst' /\ pc = "finalizer"
        /\ inst' = [inst EXCEPT !.finalizer = TRUE]
    BY <1>3 DEF AddFinalizer, Current, StoreInstance
  <2>2. inst'.initialize = inst.initialize /\ inst'.initialized = inst.initialized
    BY <2>1 DEF TypeOK, Instance
  <2> QED BY <2>1, <2>2 DEF OrderInv, Before
<1>4. CASE \/ DecideInitialization \/ CreateInitUpgrade
           \/ GateAddonsRollout \/ GateCreateUpgrade \/ ReconcileDeployment
  <2>1. read' = read /\ pc # "idle"
    BY <1>4 DEF DecideInitialization, CreateInitUpgrade, GateAddonsRollout,
                GateCreateUpgrade, ReconcileDeployment
  <2>2. pc' \notin {"finalizer", "init"}
    BY <1>4 DEF DecideInitialization, CreateInitUpgrade, initHoldGate, GateAddonsRollout,
                GateCreateUpgrade, ApplyGate, ReconcileDeployment
  <2> QED BY <2>1, <2>2 DEF OrderInv
<1> QED BY <1>1, <1>2, <1>3, <1>4, WorkerEffect DEF PassSteps

LEMMA OrderStep ==
  ASSUME TypeOK, CopyInv, OrderInv, [Next]_vars
  PROVE  OrderInv' /\ Before(instCache, instCache')
<1>0. instWatch \in Seq(Instance)
  BY DEF TypeOK
<1> DEFINE Chain(c, w, o) ==
             /\ Before(c, o)
             /\ \A i \in 1 .. Len(w) : Before(c, w[i]) /\ Before(w[i], o)
             /\ \A i, j \in 1 .. Len(w) : i <= j => Before(w[i], w[j])
<1>1. Chain(instCache, instWatch, inst)
  BY DEF OrderInv
<1>2. \A a, b, c : Before(a, b) /\ Before(b, c) => Before(a, c)
  BY DEF Before
<1>3. \A a : Before(a, a)
  BY DEF Before
<1>4. /\ pc' # "idle" => Before(read', instCache)
      /\ pc' \in {"finalizer", "init"} => my' = read'
  BY ReadStep
<1> SUFFICES Chain(instCache', instWatch', inst') /\ Before(instCache, instCache')
  BY <1>2, <1>4 DEF OrderInv
<1>5. CASE UNCHANGED <<instVars, instCache>>
  BY <1>1, <1>3, <1>5 DEF instVars
<1>6. CASE DeliverInstance
  <2>1. instWatch # <<>> /\ instCache' = Head(instWatch) /\ instWatch' = Tail(instWatch)
        /\ inst' = inst
    BY <1>6 DEF DeliverInstance
  <2>2. /\ Len(instWatch) \in Nat \ {0} /\ Len(instWatch') = Len(instWatch) - 1
        /\ instCache' = instWatch[1]
        /\ \A i \in 1 .. Len(instWatch') : instWatch'[i] = instWatch[i + 1]
    BY <1>0, <2>1, EmptySeq, HeadTailProperties
  <2>3. /\ 1 \in 1 .. Len(instWatch)
        /\ \A i \in 1 .. Len(instWatch') : i + 1 \in 1 .. Len(instWatch) /\ 1 <= i + 1
        /\ \A i, j \in 1 .. Len(instWatch') : i <= j => i + 1 <= j + 1
    BY <2>2
  <2> HIDE DEF Chain
  <2>4. Before(instCache, instCache') /\ Before(instCache', inst')
    BY <1>1, <2>1, <2>2, <2>3 DEF Chain
  <2>5. \A i \in 1 .. Len(instWatch') :
           Before(instCache', instWatch'[i]) /\ Before(instWatch'[i], inst')
    BY <1>1, <2>1, <2>2, <2>3 DEF Chain
  <2>6. \A i, j \in 1 .. Len(instWatch') : i <= j => Before(instWatch'[i], instWatch'[j])
    BY <1>1, <2>1, <2>2, <2>3 DEF Chain
  <2> QED BY <2>4, <2>5, <2>6 DEF Chain
<1>7. CASE Restart
  <2>1. instCache' = inst /\ inst' = inst /\ instWatch' = <<>>
    BY <1>7 DEF Restart
  <2>2. 1 .. Len(instWatch') = {}
    BY <2>1
  <2> QED BY <1>1, <1>3, <2>1, <2>2
<1>8. CASE StoreInstance(inst') /\ UNCHANGED instCache /\ (WorkerWrites \/ OtherWrites)
  <2>1. Before(inst, inst') /\ instCache' = instCache
    BY <1>8, WriteIsLater
  <2>2. CASE instWatch' = instWatch
    BY <1>1, <1>2, <1>3, <2>1, <2>2
  <2>3. CASE instWatch' = Append(instWatch, inst')
    <3>1. /\ Len(instWatch) \in Nat /\ Len(instWatch') = Len(instWatch) + 1
          /\ instWatch'[Len(instWatch) + 1] = inst'
          /\ \A i \in 1 .. Len(instWatch) : instWatch'[i] = instWatch[i]
      BY <1>0, <2>3
    <3>2. /\ \A i \in 1 .. Len(instWatch') : i \in 1 .. Len(instWatch) \/ i = Len(instWatch) + 1
          /\ \A i \in 1 .. Len(instWatch) : ~(Len(instWatch) + 1 <= i)
      BY <3>1
    <3> HIDE DEF Chain
    <3>3. \A i \in 1 .. Len(instWatch) :
             Before(instCache, instWatch[i]) /\ Before(instWatch[i], inst')
      BY <1>1, <1>2, <2>1 DEF Chain
    <3>4. Before(instCache, inst')
      BY <1>1, <1>2, <2>1 DEF Chain
    <3>5. \A i, j \in 1 .. Len(instWatch') : i <= j => Before(instWatch'[i], instWatch'[j])
      BY <1>1, <1>3, <3>1, <3>2, <3>3 DEF Chain
    <3>6. \A i \in 1 .. Len(instWatch') :
             Before(instCache', instWatch'[i]) /\ Before(instWatch'[i], inst')
      BY <1>3, <2>1, <3>1, <3>2, <3>3, <3>4
    <3> QED BY <1>3, <2>1, <3>4, <3>5, <3>6 DEF Chain
  <2> QED BY <1>8, <2>2, <2>3 DEF StoreInstance
<1> QED BY <1>5, <1>6, <1>7, <1>8, InstEffect

LEMMA DoneStays ==
  ASSUME TypeOK, [Next]_vars, "succeeded" \notin Deletable, InitDone(state)
  PROVE  InitDone(state')
<1>0. state \in UpgradeState /\ initUpgradeName \in UpgradeNames
  BY TypeParts, NameFacts DEF QueueType
<1>1. ASSUME NEW n \in UpgradeNames, NEW s \in Q!State, UpgradeMoves(n, s)
      PROVE  InitDone(state')
  <2>1. state' = [state EXCEPT ![n] = s] /\ state[n] # "succeeded"
    BY <1>1 DEF UpgradeMoves
  <2> QED BY <1>0, <2>1 DEF InitDone, UpgradeState
<1> QED BY <1>1, QueueEffect DEF DeliverUpgrade, Restart, InitDone

LEMMA KeptStep ==
  ASSUME TypeOK, KeptInv, [Next]_vars, "succeeded" \notin Deletable
  PROVE  KeptInv' /\ (InitDone(upCache) => InitDone(upCache'))
<1>0. upWatch \in Seq(UpgradeState)
  BY TypeParts DEF QueueType
<1>1. CASE UNCHANGED <<state, upWatch, upCache>>
  BY <1>1 DEF KeptInv, InitDone
<1>2. CASE DeliverUpgrade
  <2>1. upWatch # <<>> /\ upCache' = Head(upWatch) /\ upWatch' = Tail(upWatch)
        /\ state' = state
    BY <1>2 DEF DeliverUpgrade
  <2>2. /\ Len(upWatch) \in Nat \ {0} /\ Len(upWatch') = Len(upWatch) - 1
        /\ upCache' = upWatch[1]
        /\ \A i \in 1 .. Len(upWatch') : upWatch'[i] = upWatch[i + 1]
    BY <1>0, <2>1, EmptySeq, HeadTailProperties
  <2>3. /\ 1 \in 1 .. Len(upWatch)
        /\ \A i \in 1 .. Len(upWatch') : i + 1 \in 1 .. Len(upWatch) /\ 1 <= i + 1
        /\ \A i, j \in 1 .. Len(upWatch') : i <= j => i + 1 <= j + 1
    BY <2>2
  <2>4. InitDone(upCache) => InitDone(upCache')
    BY <2>2, <2>3 DEF KeptInv
  <2>5. InitDone(upCache') =>
          InitDone(state') /\ \A i \in 1 .. Len(upWatch') : InitDone(upWatch'[i])
    BY <2>1, <2>2, <2>3 DEF KeptInv
  <2>6. \A i \in 1 .. Len(upWatch') : InitDone(upWatch'[i]) => InitDone(state')
    BY <2>1, <2>2, <2>3 DEF KeptInv
  <2>7. \A i, j \in 1 .. Len(upWatch') :
           i <= j /\ InitDone(upWatch'[i]) => InitDone(upWatch'[j])
    BY <2>2, <2>3 DEF KeptInv
  <2> QED BY <2>4, <2>5, <2>6, <2>7 DEF KeptInv
<1>3. CASE Restart
  <2>1. upCache' = state /\ state' = state /\ upWatch' = <<>>
    BY <1>3 DEF Restart
  <2>2. 1 .. Len(upWatch') = {}
    BY <2>1
  <2> QED BY <2>1, <2>2 DEF KeptInv
<1>4. ASSUME NEW n \in UpgradeNames, NEW s \in Q!State, UpgradeMoves(n, s)
      PROVE  KeptInv' /\ (InitDone(upCache) => InitDone(upCache'))
  <2>1. upCache' = upCache /\ upWatch' = Append(upWatch, state')
    BY <1>4 DEF UpgradeMoves, Watched
  <2>2. InitDone(state) => InitDone(state')
    BY DoneStays
  <2>3. /\ Len(upWatch) \in Nat /\ Len(upWatch') = Len(upWatch) + 1
        /\ upWatch'[Len(upWatch) + 1] = state'
        /\ \A i \in 1 .. Len(upWatch) : upWatch'[i] = upWatch[i]
    BY <1>0, <2>1
  <2>4. /\ \A i \in 1 .. Len(upWatch') : i \in 1 .. Len(upWatch) \/ i = Len(upWatch) + 1
        /\ \A i \in 1 .. Len(upWatch) : ~(Len(upWatch) + 1 <= i)
    BY <2>3
  <2>5. InitDone(upCache') =>
          InitDone(state') /\ \A i \in 1 .. Len(upWatch') : InitDone(upWatch'[i])
    BY <2>1, <2>2, <2>3, <2>4 DEF KeptInv
  <2>6. \A i \in 1 .. Len(upWatch') : InitDone(upWatch'[i]) => InitDone(state')
    BY <2>2, <2>3, <2>4 DEF KeptInv
  <2>7. \A i, j \in 1 .. Len(upWatch') :
           i <= j /\ InitDone(upWatch'[i]) => InitDone(upWatch'[j])
    BY <2>2, <2>3, <2>4 DEF KeptInv
  <2> QED BY <2>1, <2>5, <2>6, <2>7 DEF KeptInv
<1> QED BY <1>1, <1>2, <1>3, <1>4, QueueEffect

LEMMA ReplicasKept ==
  ASSUME TypeOK, [Next]_vars
  PROVE  Deploys \/ dep'.replicas = dep.replicas
<1>1. ASSUME NEW ready, PodsChange(ready) PROVE dep'.replicas = dep.replicas
  BY <1>1 DEF PodsChange, TypeOK, Deployment
<1> QED BY <1>1, DepEffect

LEMMA DueStays ==
  ASSUME TypeOK, CopyInv, OrderInv, KeptInv, [Next]_vars, "succeeded" \notin Deletable
  PROVE  /\ Due(instCache, upCache) => Due(instCache', upCache')
         /\ \A o : Due(o, upCache) => Due(o, upCache')
<1>1. Before(instCache, instCache') /\ (InitDone(upCache) => InitDone(upCache'))
  BY OrderStep, KeptStep
<1> QED BY <1>1 DEF Due, Before

LEMMA UpStep ==
  ASSUME TypeOK, CopyInv, OrderInv, KeptInv, UpInv, [Next]_vars, "succeeded" \notin Deletable
  PROVE  UpInv'
<1>0. /\ WorkerType /\ my \in Instance /\ dep \in Deployment /\ depCache \in Deployment
      /\ dep.replicas \in Nat
  <2>1. WorkerType /\ my \in Instance /\ dep \in Deployment /\ depCache \in Deployment
    BY TypeParts DEF WorkerType, TypeOK
  <2>2. dep.replicas \in 0 .. Replicas
    BY <2>1 DEF Deployment
  <2> QED BY <2>1, <2>2, ReplicasAssumption
<1> DEFINE Up == Due(instCache, upCache)
<1>1. Up => Due(instCache', upCache')
  BY DueStays
<1>2. \A o : Due(o, upCache) => Due(o, upCache')
  BY DueStays
<1>3. dep'.replicas > 0 \/ dep'.ready > 0 \/ depCache'.ready > 0 => Up
  <2>1. CASE Deploys
    <3>1. /\ pc = "deploy" /\ depCache' = depCache /\ dep'.ready = dep.ready
          /\ initPhase # "" => dep'.replicas = 0
      BY <2>1 DEF Deploys, DesiredDeployment
    <3> QED BY <3>1 DEF UpInv
  <2>2. ASSUME NEW ready \in 0 .. Replicas, PodsChange(ready)
        PROVE  dep'.replicas > 0 \/ dep'.ready > 0 \/ depCache'.ready > 0 => Up
    <3>1. /\ dep' = [dep EXCEPT !.ready = ready] /\ ready \in 0 .. dep.replicas
          /\ depCache' = depCache
      BY <2>2 DEF PodsChange, cacheVars
    <3>2. dep'.replicas = dep.replicas /\ dep'.ready = ready
      BY <1>0, <3>1 DEF Deployment
    <3>3. ready > 0 => dep.replicas > 0
      BY <1>0, <3>1
    <3> QED BY <3>1, <3>2, <3>3 DEF UpInv
  <2> QED BY <2>1, <2>2, DepEffect DEF UpInv
<1>4. /\ pc' \in {"gate", "createUpgrade"} => Up
      /\ pc' \in {"deploy", "status"} /\ initPhase' = "" => Up
      /\ pc # "deploy" /\ (pc' = "createInit" \/ initPhase' # "") => dep.replicas = 0
      /\ pc = "deploy" /\ (pc' = "createInit" \/ initPhase' # "") => initPhase' = initPhase
      /\ dep.replicas > 0 /\ pc' \in {"finalizer", "init"} => Due(my', upCache)
  <2>1. CASE WorkerResets \/ UNCHANGED worker
    BY <2>1 DEF WorkerResets, worker, UpInv
  <2>2. CASE Begin
    <3>1. pc = "idle" /\ pc' \in {"finalizer", "init"} /\ my' = instCache /\ initPhase' = initPhase
      BY <2>2 DEF Begin
    <3> QED BY <3>1 DEF UpInv
  <2>3. CASE AddFinalizer
    <3>1. /\ inst = read /\ my' = inst' /\ pc = "finalizer" /\ pc' = "init"
          /\ inst' = [inst EXCEPT !.finalizer = TRUE] /\ initPhase' = initPhase
      BY <2>3 DEF AddFinalizer, Current, StoreInstance
    <3>2. inst'.initialize = inst.initialize /\ inst'.initialized = inst.initialized
      BY <3>1 DEF TypeOK, Instance
    <3>3. my = inst
      BY <3>1 DEF OrderInv
    <3> QED BY <3>1, <3>2, <3>3 DEF UpInv, Due
  <2>4. CASE DecideInitialization
    <3>1. pc = "init" /\ my = read /\ Before(my, instCache) /\ initPhase = ""
      BY <2>4 DEF DecideInitialization, OrderInv, CopyInv
    <3>2. depCache.ready > 0 => Up
      BY DEF UpInv
    <3>3. Due(my, upCache) => Up
      BY <3>1 DEF Due, Before
    <3>4. ~Due(my, upCache) => dep.replicas = 0
      <4>1. dep.replicas > 0 => Due(my, upCache)
        BY <3>1 DEF UpInv
      <4> QED BY <1>0, <4>1
    <3>5. CASE /\ pc' = "createInit" /\ UNCHANGED <<my, initPhase>>
               /\ my.initialize /\ ~my.initialized /\ upCache[initUpgradeName] # "succeeded"
      BY <3>1, <3>4, <3>5 DEF Due, InitDone
    <3>6. CASE Holds(revCache) /\ upCache[initUpgradeName] # "succeeded"
      BY <3>1, <3>4, <3>6 DEF Due, InitDone, Holds
    <3>7. CASE /\ pc' = "gate" /\ UNCHANGED initPhase
               /\ \/ ~my.initialize \/ my.initialized
                  \/ upCache[initUpgradeName] = "succeeded" \/ depCache.ready > 0
      BY <3>1, <3>2, <3>3, <3>7 DEF Due, InitDone
    <3> QED BY <1>0, <2>4, <3>5, <3>6, <3>7, DecideEffect
  <2>5. CASE CreateInitUpgrade
    <3>1. pc = "createInit" /\ my.initialize /\ ~my.initialized
      BY <2>5 DEF CreateInitUpgrade, CopyInv
    <3>2. Holds(current)
      BY <2>5, <3>1, CreateEffect
    <3> QED BY <3>1, <3>2 DEF UpInv, Holds
  <2>6. CASE GateAddonsRollout \/ GateCreateUpgrade
    <3>1. pc \in {"gate", "createUpgrade"} /\ initPhase' = initPhase
          /\ pc' \in {"createUpgrade", "deploy"}
      BY <2>6 DEF GateAddonsRollout, GateCreateUpgrade, ApplyGate
    <3> QED BY <3>1 DEF UpInv
  <2>7. CASE ReconcileDeployment
    <3>1. pc = "deploy" /\ pc' = "status" /\ initPhase' = initPhase
      BY <2>7 DEF ReconcileDeployment
    <3> QED BY <3>1 DEF UpInv
  <2> QED BY <2>1, <2>2, <2>3, <2>4, <2>5, <2>6, <2>7, WorkerEffect DEF PassSteps
<1>5. pc' = "createInit" \/ initPhase' # "" => dep'.replicas = 0
  <2>1. ASSUME Deploys, initPhase # "" PROVE dep'.replicas = 0
    BY <2>1 DEF Deploys, DesiredDeployment
  <2>2. Deploys => pc = "deploy"
    BY DEF Deploys
  <2>3. Deploys => pc' # "createInit"
    BY DEF Deploys, ReconcileDeployment, WorkerResets
  <2>4. pc = "deploy" /\ initPhase # "" => dep.replicas = 0
    BY DEF UpInv
  <2>5. pc = "deploy" => pc' # "createInit"
    BY WorkerEffect DEF PassSteps, WorkerResets, worker, Begin, AddFinalizer,
       DecideInitialization, CreateInitUpgrade, GateAddonsRollout, GateCreateUpgrade,
       ReconcileDeployment
  <2> QED BY <1>4, <2>1, <2>2, <2>4, <2>5, ReplicasKept
<1>6. dep'.replicas > 0 /\ pc' \in {"finalizer", "init"} => Due(my', upCache)
  <2>1. Deploys => pc' \notin {"finalizer", "init"}
    BY DEF Deploys, ReconcileDeployment, WorkerResets
  <2> QED BY <1>4, <2>1, ReplicasKept
<1> HIDE DEF Up
<1> QED BY <1>1, <1>2, <1>3, <1>4, <1>5, <1>6 DEF UpInv

LEMMA UpInit == Init => OrderInv /\ KeptInv /\ UpInv
<1> SUFFICES ASSUME Init PROVE OrderInv /\ KeptInv /\ UpInv OBVIOUS
<1>1. pc = "idle" /\ instCache = inst /\ upCache = state /\ initPhase = ""
  BY DEF Init
<1>2. 1 .. Len(instWatch) = {} /\ 1 .. Len(upWatch) = {}
  <2>1. instWatch = <<>> /\ upWatch = <<>>
    BY DEF Init
  <2> QED BY <2>1
<1>3. dep.replicas = 0 /\ dep.ready = 0 /\ depCache.ready = 0
  BY DEF Init, NoDeployment
<1>4. OrderInv
  BY <1>1, <1>2 DEF OrderInv, Before
<1>5. KeptInv
  BY <1>1, <1>2 DEF KeptInv
<1>6. UpInv
  <2>1. ~(dep.replicas > 0) /\ ~(dep.ready > 0) /\ ~(depCache.ready > 0)
    BY <1>3
  <2> QED BY <1>1, <2>1 DEF UpInv
<1> QED BY <1>4, <1>5, <1>6

\* The controller never scales a serving Deployment to zero (initDecide decides anew in
\* every pass, from copies that may be old), provided users do not delete an
\* OdooUpgrade that has succeeded: the success of `<name>-init` is the only trace of the
\* initialisation until the status that records it is seen.
THEOREM ServingStaysUp ==
  ASSUME "succeeded" \notin Deletable
  PROVE  Safety => NeverScaledToZero
<1> DEFINE Inv == TypeOK /\ CopyInv /\ OrderInv /\ KeptInv /\ UpInv
<1>1. Inv /\ [Next]_vars => Inv'
  BY TypeStep, CopyStep, OrderStep, KeptStep, UpStep
<1>2. Inv /\ [Next]_vars => [dep.replicas > 0 => dep'.replicas > 0]_vars
  <2> SUFFICES ASSUME TypeOK, UpInv, [Next]_vars, dep.replicas > 0
               PROVE  dep'.replicas > 0
    OBVIOUS
  <2>1. CASE Deploys
    <3>1. initPhase = ""
      <4>1. initPhase # "" => dep.replicas = 0
        BY DEF UpInv
      <4>2. dep.replicas # 0
        OBVIOUS
      <4> QED BY <4>1, <4>2
    <3>2. dep'.replicas = Replicas
      BY <2>1, <3>1 DEF Deploys, DesiredDeployment
    <3> QED BY <3>2, ReplicasAssumption
  <2> QED BY <2>1, ReplicasKept
<1> QED BY <1>1, <1>2, TypeInit, GateInit, UpInit, PTL DEF Safety, NeverScaledToZero
=============================================================================
