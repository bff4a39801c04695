-------------------------- MODULE OdooAddonProofs --------------------------
(***************************************************************************)
(* Theorems about OdooAddon for every set of specs and volume states and   *)
(* every value of the bounds.                                              *)
(***************************************************************************)
EXTENDS OdooAddon, SequenceTheorems, TLAPS

\* The sequences of API calls a pass makes, and what is left of them on the way.
Plans == {<<"status">>, <<"delete">>, <<"create">>, <<"finish">>, <<"createCleanup">>,
          <<"delete", "status">>, <<"status", "delete">>, <<"create", "status">>,
          <<"delete", "finish">>, <<"deleteCleanup", "finish">>}

DeletesSync(calls) ==
    calls \in {<<"delete">>, <<"delete", "status">>, <<"status", "delete">>,
               <<"delete", "finish">>}
DeletesCleanup(calls) == calls = <<"deleteCleanup", "finish">>

\* A status that says ready only of the addon uid and a commit it has published.
Backed(uid, st) ==
    /\ st.ready <=> st.phase = "Synced"
    /\ st.ready => <<uid, st.built>> \in published

\* The newest state the informer has, or has still to deliver, is the addon.
InformerComplete == IF watch = <<>> THEN cache = addon ELSE watch[Len(watch)] = addon

\* A copy of a Job that the name still belongs to is of that Job.
CopiesOf(copy, j) ==
    /\ j.uid \in {"none", "current"} /\ (j.uid = "none" => j.owner = 0)
    /\ copy.uid = "current" => JobExists(j) /\ copy.owner = j.owner

\* The copy the worker took is the addon until someone writes it.
CopyCurrent == pc \in {"begin", "decide"} /\ ~stale => ad = addon

\* What every status in the system rests on.
BackedInv ==
    /\ InformerComplete /\ CopyCurrent
    /\ Backed(addon.uid, addon.status) /\ Backed(cache.uid, cache.status)
    /\ \A i \in 1 .. Len(watch) : Backed(watch[i].uid, watch[i].status)
    /\ Backed(ad.uid, ad.status)
    /\ \A j \in {sync, syncCache} :
         JobExists(j) /\ j.state = "complete" => <<j.owner, j.spec>> \in published
    /\ pc = "run" /\ ~stale => Backed(addon.uid, next)

\* A status the worker is about to write reports a sync of the spec as it is, or the
\* sync that is on record.
NextForSpec ==
    pc = "run" /\ ~stale /\ next.phase = "Synced" =>
        \/ next.built = addon.spec
        \/ addon.status.phase = "Synced" /\ next.built = addon.status.built

\* The worker deletes only a Job of an OdooAddon.
JobInv ==
    /\ pc = "run" => plan \in Plans
    /\ CopiesOf(syncCache, sync) /\ CopiesOf(cleanupCache, cleanup)
    /\ pc = "run" /\ DeletesSync(plan) /\ job = "current"
         => JobExists(sync) /\ sync.owner # Foreign
    /\ pc = "run" /\ DeletesCleanup(plan) /\ cleaner = "current"
         => JobExists(cleanup) /\ cleanup.owner # Foreign

-----------------------------------------------------------------------------
(* The operators the model is built from. *)

Call == {"create", "delete", "status", "createCleanup", "deleteCleanup", "finish"}

LEMMA AbsentType ==
  /\ NewAddonStatus \in Status /\ Absent \in Addon
  /\ NoSync \in SyncJob /\ NoCleanup \in CleanupJob
<1>1. NewAddonStatus \in Status
  BY DEF NewAddonStatus, Status, Reason
<1>2. 0 \in 0 .. MaxUid /\ 0 \in 0 .. MaxUid + 1
  BY BoundsAssumption
<1>3. "branch" \in AddonSpec
  BY DEF AddonSpec
<1>4. Absent \in Addon
  BY <1>1, <1>2, <1>3 DEF Absent, Addon
<1>5. NoSync \in SyncJob /\ NoCleanup \in CleanupJob
  BY <1>2, <1>3 DEF NoSync, NoCleanup, SyncJob, CleanupJob, JobUid
<1> QED BY <1>1, <1>4, <1>5

\* Sequences of one and of two calls.
LEMMA OneCall ==
  ASSUME NEW a \in Call
  PROVE  /\ <<a>> \in Seq(Call) /\ <<a>> # <<>> /\ Len(<<a>>) = 1 /\ <<a>>[1] = a
         /\ Head(<<a>>) = a /\ Front(<<a>>) = <<>>
         /\ \A c : Makes(<<a>>, c) <=> c = a
<1>1. /\ <<a>> \in Seq(Call) /\ Len(<<a>>) = 1 /\ <<a>>[1] = a /\ Head(<<a>>) = a
      /\ DOMAIN <<a>> = {1}
  OBVIOUS
<1>2. <<a>> # <<>>
  BY <1>1
<1>3. SubSeq(<<a>>, 1, 0) = <<>>
  OBVIOUS
<1> QED BY <1>1, <1>2, <1>3 DEF Front, Makes

LEMMA TwoCalls ==
  ASSUME NEW a \in Call, NEW b \in Call
  PROVE  /\ <<a, b>> \in Seq(Call) /\ <<a, b>> # <<>> /\ Len(<<a, b>>) = 2
         /\ <<a, b>>[1] = a /\ <<a, b>>[2] = b
         /\ Head(<<a, b>>) = a /\ Tail(<<a, b>>) = <<b>> /\ Front(<<a, b>>) = <<a>>
         /\ \A c : Makes(<<a, b>>, c) <=> c = a \/ c = b
<1>1. /\ <<a, b>> \in Seq(Call) /\ Len(<<a, b>>) = 2 /\ <<a, b>>[1] = a /\ <<a, b>>[2] = b
      /\ Head(<<a, b>>) = a /\ DOMAIN <<a, b>> = {1, 2}
  OBVIOUS
<1>2. <<a, b>> # <<>>
  BY <1>1
<1>3. SubSeq(<<a, b>>, 1, 1) = <<a>>
  <2> DEFINE s == <<a, b>>
             t == SubSeq(s, 1, 1)
  <2>1. s \in Seq(Call) /\ Len(s) = 2 /\ s[1] = a
    BY <1>1
  <2> HIDE DEF s
  <2>2. t \in Seq(Call) /\ Len(t) = 1 /\ t[1] = a
    BY <2>1, SubSeqProperties
  <2> HIDE DEF t
  <2>3. t = <<a>>
    BY <2>2
  <2> QED BY <2>3 DEF t, s
<1>4. Tail(<<a, b>>) = <<b>>
  OBVIOUS
<1> QED BY <1>1, <1>2, <1>3, <1>4 DEF Front, Makes

\* A plan has one or two calls, and what follows the first is a plan.
LEMMA PlanFacts ==
  ASSUME NEW calls \in Plans
  PROVE  /\ calls \in Seq(Call) /\ calls # <<>> /\ Len(calls) \in {1, 2}
         /\ Len(calls) # 1 => /\ Tail(calls) \in Plans
                              /\ Head(calls) = "delete" => ~DeletesSync(Tail(calls))
                              /\ DeletesSync(Tail(calls)) => DeletesSync(calls)
                              /\ ~DeletesCleanup(Tail(calls))
         /\ Head(calls) = "delete" => DeletesSync(calls)
         /\ Head(calls) = "deleteCleanup" => DeletesCleanup(calls)
         /\ Makes(calls, "delete") <=> DeletesSync(calls)
         /\ Makes(calls, "deleteCleanup") <=> DeletesCleanup(calls)
<1>0. "create" \in Call /\ "delete" \in Call /\ "status" \in Call /\ "createCleanup" \in Call
      /\ "deleteCleanup" \in Call /\ "finish" \in Call
  BY DEF Call
<1>1. ASSUME NEW a \in {"status", "delete", "create", "finish", "createCleanup"},
             calls = <<a>>
      PROVE  /\ calls \in Seq(Call) /\ calls # <<>> /\ Len(calls) = 1 /\ Head(calls) = a
             /\ DeletesSync(calls) <=> a = "delete"
             /\ ~DeletesCleanup(calls)
             /\ \A c : Makes(calls, c) <=> c = a
  BY <1>0, <1>1, OneCall DEF DeletesSync, DeletesCleanup
<1>2. ASSUME NEW a \in Call, NEW b \in Call, calls = <<a, b>>
      PROVE  /\ calls \in Seq(Call) /\ calls # <<>> /\ Len(calls) = 2 /\ Head(calls) = a
             /\ Tail(calls) = <<b>>
             /\ \A c : Makes(calls, c) <=> c = a \/ c = b
             /\ ~DeletesCleanup(Tail(calls))
             /\ DeletesSync(Tail(calls)) <=> b = "delete"
  BY <1>2, TwoCalls DEF DeletesSync, DeletesCleanup
<1>3. CASE calls = <<"delete", "status">>
  BY <1>0, <1>2, <1>3 DEF DeletesSync, DeletesCleanup, Plans
<1>4. CASE calls = <<"status", "delete">>
  BY <1>0, <1>2, <1>4 DEF DeletesSync, DeletesCleanup, Plans
<1>5. CASE calls = <<"create", "status">>
  BY <1>0, <1>2, <1>5 DEF DeletesSync, DeletesCleanup, Plans
<1>6. CASE calls = <<"delete", "finish">>
  BY <1>0, <1>2, <1>6 DEF DeletesSync, DeletesCleanup, Plans
<1>7. CASE calls = <<"deleteCleanup", "finish">>
  BY <1>0, <1>2, <1>7 DEF DeletesSync, DeletesCleanup, Plans
<1>8. CASE \E a \in {"status", "delete", "create", "finish", "createCleanup"} : calls = <<a>>
  BY <1>1, <1>8
<1> QED BY <1>3, <1>4, <1>5, <1>6, <1>7, <1>8 DEF Plans

\* Without a last call that writes nothing, a plan is a plan or is empty.
LEMMA FrontOfPlan ==
  ASSUME NEW calls \in Plans, calls[Len(calls)] = "status"
  PROVE  /\ Front(calls) \in Plans \cup {<<>>}
         /\ DeletesSync(Front(calls)) => DeletesSync(calls)
         /\ ~DeletesCleanup(Front(calls))
<1>0. "create" \in Call /\ "delete" \in Call /\ "status" \in Call
  BY DEF Call
<1>1. calls \in {<<"status">>, <<"delete", "status">>, <<"create", "status">>}
  <2>1. ASSUME NEW a, calls = <<a>> PROVE a = "status"
    BY <2>1
  <2>2. ASSUME NEW a, NEW b, calls = <<a, b>> PROVE b = "status"
    BY <2>2
  <2> QED BY <2>1, <2>2, Zenon DEF Plans
<1>2. CASE calls = <<"status">>
  <2>1. Front(calls) = <<>>
    BY <1>0, <1>2, OneCall
  <2>2. \A a, b : <<a>> # <<>> /\ <<a, b>> # <<>>
    OBVIOUS
  <2>3. ~DeletesSync(<<>>) /\ ~DeletesCleanup(<<>>)
    BY <2>2, Zenon DEF DeletesSync, DeletesCleanup
  <2> QED BY <2>1, <2>3
<1>3. CASE calls = <<"delete", "status">>
  <2>1. Front(calls) = <<"delete">>
    BY <1>0, <1>3, TwoCalls
  <2>2. DeletesSync(calls) \/ ~DeletesSync(<<"delete">>)
    BY <1>3 DEF DeletesSync
  <2>3. <<"delete">> \in Plans /\ ~DeletesCleanup(<<"delete">>)
    BY DEF DeletesCleanup, Plans
  <2> QED BY <2>1, <2>2, <2>3
<1>4. CASE calls = <<"create", "status">>
  <2>1. Front(calls) = <<"create">>
    BY <1>0, <1>4, TwoCalls
  <2>2. DeletesSync(calls) \/ ~DeletesSync(<<"create">>)
    BY <1>4 DEF DeletesSync
  <2>3. <<"create">> \in Plans /\ ~DeletesCleanup(<<"create">>)
    BY DEF DeletesCleanup, Plans
  <2> QED BY <2>1, <2>2, <2>3
<1> QED BY <1>1, <1>2, <1>3, <1>4

\* A status that follows from st reports no sync that st does not report.
Follows(st, new) ==
    /\ (st.ready <=> st.phase = "Synced") => (new.ready <=> new.phase = "Synced")
    /\ new.phase = "Synced" => st.phase = "Synced" /\ new.built = st.built

LEMMA StatusFacts ==
  ASSUME NEW st \in Status, NEW r \in Reason
  PROVE  /\ markFailed(st, r) \in Status /\ Follows(st, markFailed(st, r))
         /\ pending(st, r) \in Status /\ Follows(st, pending(st, r))
         /\ setPhase(st, "") \in Status /\ Follows(st, setPhase(st, ""))
         /\ setPhase(st, syncingPhaseFor(st.phase)) \in Status
         /\ Follows(st, setPhase(st, syncingPhaseFor(st.phase)))
         /\ Follows(st, st) /\ Follows(st, NewAddonStatus)
<1>1. /\ markFailed(st, r) \in Status /\ Follows(st, markFailed(st, r))
      /\ pending(st, r) \in Status /\ Follows(st, pending(st, r))
  BY DEF markFailed, pending, Status, Follows
<1>2. keptReason(st) \in Reason
  BY DEF keptReason, DefaultReason, Status, Reason
<1>3. /\ setPhase(st, "") \in Status /\ Follows(st, setPhase(st, ""))
  BY <1>2 DEF setPhase, Status, Follows
<1>4. /\ setPhase(st, "Syncing") \in Status
      /\ st.phase # "Synced" => Follows(st, setPhase(st, "Syncing"))
  BY DEF setPhase, Status, Follows, Reason
<1>5. Follows(st, st) /\ Follows(st, NewAddonStatus)
  BY DEF Follows, NewAddonStatus
<1> QED BY <1>1, <1>3, <1>4, <1>5 DEF syncingPhaseFor

LEMMA SyncedStatusFacts ==
  ASSUME NEW j \in SyncJob
  PROVE  /\ SyncedStatus(j) \in Status /\ SyncedStatus(j).phase = "Synced"
         /\ SyncedStatus(j).ready = TRUE /\ SyncedStatus(j).built = j.spec
         /\ addonFailureReason(j) \in Reason
  BY DEF SyncedStatus, Status, Reason, SyncJob, addonFailureReason

\* What the verdict on a pass says of the Job it was given on.
LEMMA DecisionFacts ==
  ASSUME NEW o \in Addon, NEW j \in SyncJob, NEW due \in BOOLEAN
  PROVE  /\ decideAddonSync(o, j, due) \in {"DeleteStaleJob", "RecordSuccess", "RecordFailure"}
              => Owned(j, o)
         /\ decideAddonSync(o, j, due) = "RecordSuccess"
              => j.spec = o.spec /\ j.state = "complete"
<1>1. CASE o.spec = "invalid"
  BY <1>1 DEF decideAddonSync
<1>2. CASE o.spec # "invalid" /\ ~JobExists(j)
  BY <1>2 DEF decideAddonSync
<1>3. CASE o.spec # "invalid" /\ JobExists(j)
  <2>1. CASE ~Owned(j, o)
    BY <1>3, <2>1 DEF decideAddonSync
  <2>2. CASE Owned(j, o) /\ j.spec # o.spec
    BY <1>3, <2>2 DEF decideAddonSync
  <2>3. CASE Owned(j, o) /\ j.spec = o.spec
    <3>1. j.state \in {"active", "complete", "failed", "clash"}
      BY DEF SyncJob
    <3>2. CASE j.state = "complete"
      BY <1>3, <2>3, <3>2
    <3>3. CASE j.state = "active"
      BY <1>3, <2>3, <3>3 DEF decideAddonSync
    <3>4. CASE j.state \in {"failed", "clash"}
      BY <1>3, <2>3, <3>4 DEF decideAddonSync
    <3> QED BY <3>1, <3>2, <3>3, <3>4
  <2> QED BY <2>1, <2>2, <2>3
<1> QED BY <1>1, <1>2, <1>3

LEMMA CallsFacts ==
  ASSUME NEW o, NEW j, NEW action,
         action \in {"DeleteStaleJob", "RecordSuccess", "RecordFailure"} => Owned(j, o)
  PROVE  /\ CallsOf(action, o, j) \in Plans
         /\ DeletesSync(CallsOf(action, o, j)) => Owned(j, o)
         /\ ~DeletesCleanup(CallsOf(action, o, j))
<1>0. /\ <<"status">> \in Plans /\ <<"delete">> \in Plans /\ <<"delete", "status">> \in Plans
      /\ <<"status", "delete">> \in Plans /\ <<"create", "status">> \in Plans
      /\ ~DeletesSync(<<"status">>) /\ ~DeletesSync(<<"create", "status">>)
      /\ ~DeletesCleanup(<<"status">>) /\ ~DeletesCleanup(<<"delete">>)
      /\ ~DeletesCleanup(<<"delete", "status">>) /\ ~DeletesCleanup(<<"status", "delete">>)
      /\ ~DeletesCleanup(<<"create", "status">>)
  BY DEF Plans, DeletesSync, DeletesCleanup
<1>1. \/ Owned(j, o) /\ CallsOf(action, o, j) = <<"delete", "status">>
      \/ Owned(j, o) /\ CallsOf(action, o, j) = <<"delete">>
      \/ Owned(j, o) /\ CallsOf(action, o, j) = <<"status", "delete">>
      \/ CallsOf(action, o, j) = <<"create", "status">>
      \/ CallsOf(action, o, j) = <<"status">>
  BY DEF CallsOf
<1> QED BY <1>0, <1>1

-----------------------------------------------------------------------------
(* What the steps of a pass do. *)

\* A pass that has decided returns, or goes on to its API calls with a status that
\* is the one it was given or is not used.
RunsTo(calls, status) ==
    /\ pc' = "run" /\ plan' \in Plans
    /\ next' = status \/ next' = NewAddonStatus
    /\ ad' \in Addon /\ ad'.status = NewAddonStatus
    /\ DeletesSync(plan') => DeletesSync(calls) /\ job' = syncCache.uid
    /\ DeletesCleanup(plan') => DeletesCleanup(calls) /\ cleaner' = cleanupCache.uid
    /\ job' \in {syncCache.uid, "none"} /\ cleaner' \in {cleanupCache.uid, "none"}
    /\ UNCHANGED <<stale, queued>>

LEMMA RunEffect ==
  ASSUME TypeOK, NEW calls \in Plans, NEW status, Run(calls, status)
  PROVE  Return \/ RunsTo(calls, status)
<1> DEFINE skips == calls[Len(calls)] = "status" /\ status = ad.status
           made == IF skips THEN Front(calls) ELSE calls
<1>1. /\ made \in Plans \cup {<<>>}
      /\ DeletesSync(made) => DeletesSync(calls)
      /\ DeletesCleanup(made) => DeletesCleanup(calls)
  <2>1. CASE skips
    BY <2>1, FrontOfPlan
  <2>2. CASE ~skips
    BY <2>2
  <2> QED BY <2>1, <2>2
<1>2. \/ made = <<>> /\ Return
      \/ /\ made # <<>> /\ pc' = "run" /\ plan' = made
         /\ next' = IF Makes(made, "status") THEN status ELSE NewAddonStatus
         /\ ad' = IF Makes(made, "create") \/ Makes(made, "createCleanup")
                    THEN [Absent EXCEPT !.uid = ad.uid, !.spec = ad.spec] ELSE Absent
         /\ job' = IF Makes(made, "delete") THEN syncCache.uid ELSE "none"
         /\ cleaner' = IF Makes(made, "deleteCleanup") THEN cleanupCache.uid ELSE "none"
         /\ UNCHANGED <<stale, queued>>
  BY Zenon DEF Run
<1> HIDE DEF skips, made
<1>3. CASE made = <<>>
  BY <1>2, <1>3
<1>4. CASE made # <<>>
  <2>1. /\ made \in Plans
        /\ Makes(made, "delete") <=> DeletesSync(made)
        /\ Makes(made, "deleteCleanup") <=> DeletesCleanup(made)
    BY <1>1, <1>4, PlanFacts
  <2>2. /\ [Absent EXCEPT !.uid = ad.uid, !.spec = ad.spec] \in Addon
        /\ [Absent EXCEPT !.uid = ad.uid, !.spec = ad.spec].status = NewAddonStatus
        /\ Absent \in Addon /\ Absent.status = NewAddonStatus
    <3>1. ad.uid \in 0 .. MaxUid /\ ad.spec \in AddonSpec
      BY DEF TypeOK, Addon
    <3>2. Absent \in Addon /\ Absent.status = NewAddonStatus
      BY AbsentType DEF Absent
    <3> QED BY <3>1, <3>2 DEF Addon
  <2>3. ad' \in Addon /\ ad'.status = NewAddonStatus
    BY <1>2, <1>4, <2>2
  <2>4. /\ pc' = "run" /\ plan' \in Plans
        /\ next' = status \/ next' = NewAddonStatus
        /\ UNCHANGED <<stale, queued>>
    BY <1>2, <1>4, <2>1
  <2>5. /\ DeletesSync(plan') => DeletesSync(calls) /\ job' = syncCache.uid
        /\ DeletesCleanup(plan') => DeletesCleanup(calls) /\ cleaner' = cleanupCache.uid
        /\ job' \in {syncCache.uid, "none"} /\ cleaner' \in {cleanupCache.uid, "none"}
    BY <1>1, <1>2, <1>4, <2>1
  <2> QED BY <2>3, <2>4, <2>5 DEF RunsTo
<1> QED BY <1>3, <1>4

\* The verdict on a sync reports nothing new, or a Job that completed for this addon
\* under this spec; it deletes no Job but the addon's own.
Justified(calls, status) ==
    /\ calls \in Plans /\ status \in Status
    /\ DeletesSync(calls) => Owned(syncCache, ad)
    /\ DeletesCleanup(calls) => Owned(cleanupCache, ad)
    /\ \/ Follows(ad.status, status)
       \/ /\ status = SyncedStatus(syncCache) /\ Owned(syncCache, ad)
          /\ syncCache.spec = ad.spec /\ syncCache.state = "complete"

LEMMA DecideSyncRuns ==
  ASSUME TypeOK, NEW due \in BOOLEAN, DecideSync(due)
  PROVE  \E calls, status : Justified(calls, status) /\ Run(calls, status)
<1> DEFINE st == ad.status
           action == decideAddonSync(ad, syncCache, due)
           calls == CallsOf(action, ad, syncCache)
<1>1. /\ ad \in Addon /\ st \in Status /\ syncCache \in SyncJob /\ volumeCache \in Volume
  BY DEF TypeOK, Addon
<1>2. /\ action \in {"DeleteStaleJob", "RecordSuccess", "RecordFailure"} => Owned(syncCache, ad)
      /\ action = "RecordSuccess" => syncCache.spec = ad.spec /\ syncCache.state = "complete"
  BY <1>1, DecisionFacts
<1>3. /\ calls \in Plans /\ (DeletesSync(calls) => Owned(syncCache, ad)) /\ ~DeletesCleanup(calls)
  <2> HIDE DEF action
  <2> QED BY <1>2, CallsFacts
<1>4. /\ <<"status">> \in Plans /\ ~DeletesSync(<<"status">>) /\ ~DeletesCleanup(<<"status">>)
  BY DEF Plans, DeletesSync, DeletesCleanup
<1>5. /\ "InvalidSpec" \in Reason /\ "InstanceNotFound" \in Reason /\ "VolumeNotBound" \in Reason
      /\ "JobConflict" \in Reason /\ "SyncFailed" \in Reason
  BY DEF Reason
<1>6. \A r \in Reason : /\ Justified(<<"status">>, markFailed(st, r))
                        /\ Justified(<<"status">>, pending(st, r))
                        /\ Justified(calls, markFailed(st, r))
  BY <1>1, <1>3, <1>4, StatusFacts DEF Justified
<1>7. /\ Justified(calls, st) /\ Justified(calls, setPhase(st, ""))
      /\ Justified(calls, setPhase(st, syncingPhaseFor(st.phase)))
  BY <1>1, <1>3, <1>5, StatusFacts DEF Justified
<1>8. /\ action = "RecordSuccess" => Justified(calls, SyncedStatus(syncCache))
      /\ addonFailureReason(syncCache) \in Reason
  BY <1>1, <1>2, <1>3, SyncedStatusFacts DEF Justified
<1>9. \/ Run(<<"status">>, markFailed(st, "InvalidSpec"))
      \/ Run(<<"status">>, pending(st, "InstanceNotFound"))
      \/ Run(<<"status">>, pending(st, "VolumeNotBound"))
      \/ action \in {"InvalidSpec", "JobConflict"} /\ Run(calls, markFailed(st, action))
      \/ Run(calls, st)
      \/ Run(calls, setPhase(st, syncingPhaseFor(st.phase)))
      \/ Run(calls, setPhase(st, ""))
      \/ action = "RecordSuccess" /\ Run(calls, SyncedStatus(syncCache))
      \/ Run(calls, markFailed(st, addonFailureReason(syncCache)))
      \/ Run(calls, markFailed(st, "SyncFailed"))
  <2> HIDE DEF calls
  <2> QED BY DEF DecideSync, calls
<1> HIDE DEF st, action, calls
<1>10. action \in {"InvalidSpec", "JobConflict"} => action \in Reason
  BY <1>5
<1> QED BY <1>5, <1>6, <1>7, <1>8, <1>9, <1>10

LEMMA DecideDeletionRuns ==
  ASSUME TypeOK, DecideDeletion
  PROVE  Return \/ \E calls, status : Justified(calls, status) /\ Run(calls, status)
<1>1. ad.status \in Status /\ Follows(ad.status, ad.status)
  BY DEF TypeOK, Addon, Follows
<1>2. /\ <<"finish">> \in Plans /\ <<"delete">> \in Plans /\ <<"delete", "finish">> \in Plans
      /\ <<"createCleanup">> \in Plans /\ <<"deleteCleanup", "finish">> \in Plans
      /\ ~DeletesSync(<<"finish">>) /\ ~DeletesSync(<<"createCleanup">>)
      /\ ~DeletesSync(<<"deleteCleanup", "finish">>)
      /\ ~DeletesCleanup(<<"finish">>) /\ ~DeletesCleanup(<<"createCleanup">>)
      /\ ~DeletesCleanup(<<"delete">>) /\ ~DeletesCleanup(<<"delete", "finish">>)
  BY DEF Plans, DeletesSync, DeletesCleanup
<1>3. \/ Run(<<"finish">>, ad.status) \/ Run(<<"createCleanup">>, ad.status)
      \/ Owned(syncCache, ad) /\ Run(<<"delete", "finish">>, ad.status)
      \/ Owned(syncCache, ad) /\ Run(<<"delete">>, ad.status)
      \/ Owned(cleanupCache, ad) /\ Run(<<"deleteCleanup", "finish">>, ad.status)
      \/ Return
  BY DEF DecideDeletion
<1>4. /\ Justified(<<"finish">>, ad.status) /\ Justified(<<"createCleanup">>, ad.status)
      /\ Owned(syncCache, ad) => /\ Justified(<<"delete", "finish">>, ad.status)
                                 /\ Justified(<<"delete">>, ad.status)
      /\ Owned(cleanupCache, ad) => Justified(<<"deleteCleanup", "finish">>, ad.status)
  BY <1>1, <1>2 DEF Justified
<1> QED BY <1>3, <1>4

Decides == DecideDeletion \/ \E due \in BOOLEAN : DecideSync(due)

LEMMA DecideEffect ==
  ASSUME TypeOK, Decides
  PROVE  /\ pc = "decide" /\ UNCHANGED <<addonVars, volumeVars, syncVars, cleanupVars, published>>
         /\ UNCHANGED userVars \/ Fault
         /\ Return \/ \E calls, status : Justified(calls, status) /\ RunsTo(calls, status)
<1>1. Return \/ \E calls, status : Justified(calls, status) /\ Run(calls, status)
  BY DecideSyncRuns, DecideDeletionRuns DEF Decides
<1>2. \A calls, status : Justified(calls, status) /\ Run(calls, status)
                           => Return \/ RunsTo(calls, status)
  BY RunEffect DEF Justified
<1>3. /\ pc = "decide" /\ UNCHANGED <<addonVars, volumeVars, syncVars, cleanupVars, published>>
      /\ UNCHANGED userVars \/ Fault
  <2>1. CASE DecideDeletion
    BY <2>1 DEF DecideDeletion
  <2>2. ASSUME NEW due \in BOOLEAN, DecideSync(due)
        PROVE  /\ pc = "decide"
               /\ UNCHANGED <<addonVars, volumeVars, syncVars, cleanupVars, published>>
               /\ UNCHANGED userVars \/ Fault
    BY <2>2, Zenon DEF DecideSync
  <2> QED BY <2>1, <2>2 DEF Decides
<1> QED BY <1>1, <1>2, <1>3

\* The other calls of a pass.
LEMMA ContinueEffect ==
  ASSUME TypeOK, pc = "run", Continue
  PROVE  \/ Return
         \/ /\ Len(plan) # 1 /\ plan' = Tail(plan) /\ plan' # <<>> /\ plan' \in Seq(Call)
            /\ UNCHANGED <<pc, ad, stale, job, cleaner, next, queued>>
<1>1. plan \in Seq(Call) /\ plan # <<>>
  BY DEF TypeOK, Call
<1>2. CASE Len(plan) = 1
  BY <1>2 DEF Continue
<1>3. CASE Len(plan) # 1
  <2>1. Tail(plan) \in Seq(Call) /\ Tail(plan) # <<>>
    <3>1. Len(plan) \in Nat /\ Len(plan) # 0
      BY <1>1, EmptySeq
    <3>2. Tail(plan) \in Seq(Call) /\ Len(Tail(plan)) = Len(plan) - 1
      BY <1>1, HeadTailProperties
    <3>3. Len(Tail(plan)) # 0
      BY <1>3, <3>1, <3>2
    <3> QED BY <3>2, <3>3, EmptySeq
  <2> QED BY <1>3, <2>1 DEF Continue
<1> QED BY <1>2, <1>3

\* The worker's variables once a pass is over.
LEMMA IdleType ==
  ASSUME Idle
  PROVE  /\ ad' \in Addon /\ stale' \in BOOLEAN /\ job' \in JobUid /\ cleaner' \in JobUid
         /\ pc' = "idle" /\ plan' = <<>> /\ plan' \in Seq(Call) /\ next' \in Status
<1>1. plan' \in Seq(Call)
  BY EmptySeq, Zenon DEF Idle
<1> QED BY <1>1, AbsentType DEF Idle, JobUid

LEMMA WriteType ==
  ASSUME TypeOK, NEW new \in Addon, Write(new)
  PROVE  addon' \in Addon /\ cache' \in Addon /\ watch' \in Seq(Addon)
  BY DEF TypeOK, Write

LEMMA JobDeletedType ==
  /\ \A j \in SyncJob : CopyOfDeleted(j) \in SyncJob
  /\ \A j \in CleanupJob : CopyOfDeleted(j) \in CleanupJob
  /\ \A u \in JobUid : Deleted(u) \in JobUid
<1>1. \A u \in JobUid : Deleted(u) \in JobUid
  BY DEF Deleted, JobUid
<1>2. ASSUME NEW j \in SyncJob PROVE CopyOfDeleted(j) \in SyncJob
  BY <1>1 DEF CopyOfDeleted, SyncJob
<1>3. ASSUME NEW j \in CleanupJob PROVE CopyOfDeleted(j) \in CleanupJob
  BY <1>1 DEF CopyOfDeleted, CleanupJob
<1> QED BY <1>1, <1>2, <1>3

LEMMA JobCallType ==
  ASSUME TypeOK, NEW call, JobCall(call)
  PROVE  /\ sync' \in SyncJob /\ syncCache' \in SyncJob
         /\ cleanup' \in CleanupJob /\ cleanupCache' \in CleanupJob
<1>1. ad.uid \in 0 .. MaxUid /\ ad.spec \in AddonSpec
  BY DEF TypeOK, Addon
<1>2. NewSync \in SyncJob /\ NewCleanup \in CleanupJob
  <2>1. ad.uid \in 0 .. MaxUid + 1 /\ "current" \in JobUid
    BY <1>1, BoundsAssumption DEF JobUid
  <2> QED BY <1>1, <2>1, AbsentType DEF NewSync, NewCleanup, SyncJob, CleanupJob
<1>3. /\ CopyOfDeleted(syncCache) \in SyncJob /\ CopyOfDeleted(cleanupCache) \in CleanupJob
      /\ NoSync \in SyncJob /\ NoCleanup \in CleanupJob
  BY JobDeletedType, AbsentType DEF TypeOK
<1> QED BY <1>2, <1>3
        DEF JobCall, DeleteSync, DeleteCleanup, syncVars, cleanupVars, TypeOK

-----------------------------------------------------------------------------
(* Type correctness. *)

\* TypeOK by the owners of the variables.
AddonType == addon \in Addon /\ cache \in Addon /\ watch \in Seq(Addon)
VolumeType == volume \in Volume /\ volumeCache \in Volume
JobType == /\ sync \in SyncJob /\ syncCache \in SyncJob
           /\ cleanup \in CleanupJob /\ cleanupCache \in CleanupJob
WorkerType ==
    /\ ad \in Addon /\ stale \in BOOLEAN /\ job \in JobUid /\ cleaner \in JobUid
    /\ pc \in {"idle", "begin", "decide", "run"} /\ (pc = "run" <=> plan # <<>>)
    /\ plan \in Seq(Call) /\ next \in Status
UserType == nextUid \in 1 .. MaxUid + 1 /\ faults \in 0 .. MaxFaults
HistoryType == published \subseteq (0 .. MaxUid) \X AddonSpec

LEMMA TypeParts ==
  /\ TypeOK <=> /\ AddonType /\ VolumeType /\ JobType /\ WorkerType /\ UserType /\ HistoryType
                /\ queued \in BOOLEAN
  /\ TypeOK' <=> /\ AddonType' /\ VolumeType' /\ JobType' /\ WorkerType' /\ UserType'
                 /\ HistoryType' /\ queued' \in BOOLEAN
  BY DEF TypeOK, AddonType, VolumeType, JobType, WorkerType, UserType, HistoryType, Call

LEMMA TypeKept ==
  /\ AddonType /\ UNCHANGED addonVars => AddonType'
  /\ VolumeType /\ UNCHANGED volumeVars => VolumeType'
  /\ JobType /\ UNCHANGED <<syncVars, cleanupVars>> => JobType'
  /\ WorkerType /\ UNCHANGED worker => WorkerType'
  /\ UserType /\ UNCHANGED userVars => UserType'
  /\ HistoryType /\ UNCHANGED published => HistoryType'
<1>1. WorkerType /\ UNCHANGED worker => WorkerType'
  BY DEF WorkerType, worker
<1>2. /\ AddonType /\ UNCHANGED addonVars => AddonType'
      /\ VolumeType /\ UNCHANGED volumeVars => VolumeType'
      /\ JobType /\ UNCHANGED <<syncVars, cleanupVars>> => JobType'
      /\ UserType /\ UNCHANGED userVars => UserType'
      /\ HistoryType /\ UNCHANGED published => HistoryType'
  BY DEF AddonType, VolumeType, JobType, UserType, HistoryType, addonVars, volumeVars,
         syncVars, cleanupVars, userVars
<1> QED BY <1>1, <1>2

LEMMA FaultType == UserType /\ Fault => UserType'
  BY BoundsAssumption DEF UserType, Fault

LEMMA ReturnType == Return => WorkerType' /\ queued' \in BOOLEAN
<1>1. Idle => WorkerType'
  BY IdleType DEF WorkerType
<1> QED BY <1>1 DEF Return

LEMMA ContinueType ==
  ASSUME TypeOK, pc = "run", Continue
  PROVE  WorkerType' /\ queued' \in BOOLEAN
<1>1. CASE Return
  BY <1>1, ReturnType
<1>2. CASE /\ plan' # <<>> /\ plan' \in Seq(Call)
           /\ UNCHANGED <<pc, ad, stale, job, cleaner, next, queued>>
  BY <1>2, TypeParts DEF WorkerType
<1> QED BY <1>1, <1>2, ContinueEffect

\* A Job that goes away by other hands.
LEMMA GoesType ==
  ASSUME TypeOK, SyncGoes \/ CleanupGoes, UNCHANGED <<pc, ad, stale, plan, next>>
  PROVE  JobType' /\ WorkerType'
<1>1. CASE SyncGoes
  <2>1. /\ NoSync \in SyncJob /\ CopyOfDeleted(syncCache) \in SyncJob /\ Deleted(job) \in JobUid
    BY JobDeletedType, AbsentType DEF TypeOK
  <2>2. JobType'
    BY <1>1, <2>1, TypeParts DEF SyncGoes, DeleteSync, JobType, cleanupVars
  <2> QED BY <1>1, <2>1, <2>2, TypeParts DEF SyncGoes, WorkerType
<1>2. CASE CleanupGoes
  <2>1. /\ NoCleanup \in CleanupJob /\ CopyOfDeleted(cleanupCache) \in CleanupJob
        /\ Deleted(cleaner) \in JobUid
    BY JobDeletedType, AbsentType DEF TypeOK
  <2>2. JobType'
    BY <1>2, <2>1, TypeParts DEF CleanupGoes, DeleteCleanup, JobType, syncVars
  <2> QED BY <1>2, <2>1, <2>2, TypeParts DEF CleanupGoes, WorkerType
<1> QED BY <1>1, <1>2

\* Someone else writes the addon.
LEMMA OthersType ==
  ASSUME TypeOK, NEW new \in Addon, WriteByOthers(new),
         UNCHANGED <<pc, ad, job, cleaner, plan, next>>
  PROVE  AddonType' /\ WorkerType'
<1>1. AddonType'
  BY WriteType DEF WriteByOthers, AddonType
<1>2. stale' \in BOOLEAN
  BY DEF WriteByOthers
<1> QED BY <1>1, <1>2, TypeParts DEF WorkerType

LEMMA TypeInit == Init => TypeOK
<1> SUFFICES ASSUME Init PROVE TypeOK OBVIOUS
<1>1. AddonType
  <2>1. watch \in Seq(Addon)
    BY EmptySeq, Zenon DEF Init
  <2> QED BY <2>1, AbsentType DEF AddonType, Init
<1>2. VolumeType
  BY DomainAssumption DEF VolumeType, Init
<1>3. JobType
  BY AbsentType DEF JobType, Init
<1>4. WorkerType
  <2>1. plan \in Seq(Call)
    BY EmptySeq, Zenon DEF Init
  <2> QED BY <2>1, AbsentType DEF WorkerType, Init, JobUid
<1>5. UserType /\ HistoryType /\ queued \in BOOLEAN
  <2>1. nextUid = 1 /\ faults = 0 /\ published = {} /\ queued = FALSE
    BY DEF Init
  <2>2. 1 \in 1 .. MaxUid + 1 /\ 0 \in 0 .. MaxFaults
    BY BoundsAssumption
  <2> QED BY <2>1, <2>2, Zenon DEF UserType, HistoryType
<1> QED BY <1>1, <1>2, <1>3, <1>4, <1>5, TypeParts

\* The steps of the worker.
LEMMA WorkerTypeStep ==
  ASSUME TypeOK, Begin \/ Reconcile \/ CallFails \/ Unanswered \/ Restart
  PROVE  TypeOK'
<1>0. AddonType /\ VolumeType /\ JobType /\ WorkerType /\ UserType /\ HistoryType
      /\ queued \in BOOLEAN
  BY TypeParts
<1>1. CASE Begin
  <2>1. WorkerType'
    <3>1. CASE UNCHANGED worker
      BY <1>0, <3>1, TypeKept
    <3>2. CASE /\ pc' = IF cache.deleting \/ cache.finalizer THEN "decide" ELSE "begin"
               /\ ad' = cache /\ stale' = (watch # <<>>) /\ pc = "idle"
               /\ UNCHANGED <<job, cleaner, plan, next>>
      BY <1>0, <3>2 DEF WorkerType, AddonType
    <3> QED BY <1>1, <3>1, <3>2 DEF Begin
  <2> QED BY <1>0, <1>1, <2>1, TypeKept, TypeParts DEF Begin
<1>2. CASE AddFinalizer
  <2>1. CASE /\ Write([addon EXCEPT !.finalizer = TRUE])
             /\ pc' = "decide" /\ ad' = [ad EXCEPT !.finalizer = TRUE]
             /\ UNCHANGED <<stale, job, cleaner, plan, next, queued>>
    <3>1. [addon EXCEPT !.finalizer = TRUE] \in Addon /\ [ad EXCEPT !.finalizer = TRUE] \in Addon
      BY <1>0 DEF AddonType, WorkerType, Addon
    <3>2. AddonType'
      BY <2>1, <3>1, WriteType DEF AddonType
    <3>3. WorkerType' /\ queued' \in BOOLEAN
      BY <1>0, <1>2, <2>1, <3>1 DEF WorkerType, AddFinalizer
    <3> QED BY <1>0, <1>2, <3>2, <3>3, TypeKept, TypeParts DEF AddFinalizer
  <2>2. CASE Return /\ UNCHANGED addonVars
    BY <1>0, <1>2, <2>2, ReturnType, TypeKept, TypeParts DEF AddFinalizer
  <2> QED BY <1>2, <2>1, <2>2 DEF AddFinalizer
<1>3. CASE Decides
  <2>1. /\ UNCHANGED <<addonVars, volumeVars, syncVars, cleanupVars, published>>
        /\ UNCHANGED userVars \/ Fault
    BY <1>3, DecideEffect
  <2>2. AddonType' /\ VolumeType' /\ JobType' /\ UserType' /\ HistoryType'
    BY <1>0, <2>1, FaultType, TypeKept
  <2>3. CASE Return
    BY <2>2, <2>3, ReturnType, TypeParts
  <2>4. ASSUME NEW calls, NEW status, Justified(calls, status), RunsTo(calls, status)
        PROVE  WorkerType' /\ queued' \in BOOLEAN
    <3>1. plan' \in Seq(Call) /\ plan' # <<>> /\ next' \in Status
      BY <2>4, PlanFacts, AbsentType DEF RunsTo, Justified
    <3>2. syncCache.uid \in JobUid /\ cleanupCache.uid \in JobUid /\ "none" \in JobUid
      BY <1>0 DEF JobType, SyncJob, CleanupJob, JobUid
    <3> QED BY <1>0, <2>4, <3>1, <3>2 DEF RunsTo, WorkerType
  <2> QED BY <1>3, <2>2, <2>3, <2>4, DecideEffect, TypeParts
<1>4. CASE CallJob
  <2>1. JobType'
    BY <1>4, JobCallType DEF CallJob, JobType
  <2>2. WorkerType' /\ queued' \in BOOLEAN
    BY <1>4, ContinueType DEF CallJob
  <2> QED BY <1>0, <1>4, <2>1, <2>2, TypeKept, TypeParts DEF CallJob
<1>5. ASSUME Write([addon EXCEPT !.status = next]) PROVE AddonType'
  <2>1. [addon EXCEPT !.status = next] \in Addon
    BY <1>0 DEF AddonType, WorkerType, Addon
  <2> QED BY <1>5, <2>1, WriteType DEF AddonType
<1>6. CASE WriteAddonStatus
  <2>1. pc = "run" /\ UNCHANGED <<volumeVars, syncVars, cleanupVars, userVars, published>>
    BY <1>6 DEF WriteAddonStatus, Calling
  <2>2. CASE Return /\ UNCHANGED addonVars
    BY <1>0, <2>1, <2>2, ReturnType, TypeKept, TypeParts
  <2>3. CASE Write([addon EXCEPT !.status = next]) /\ Continue
    BY <1>0, <1>5, <2>1, <2>3, ContinueType, TypeKept, TypeParts
  <2> QED BY <1>6, <2>2, <2>3 DEF WriteAddonStatus
<1>7. CASE FinishDeletion
  <2>1. UNCHANGED <<volumeVars, syncVars, cleanupVars, userVars, published>>
    BY <1>7 DEF FinishDeletion
  <2>2. CASE Return /\ UNCHANGED addonVars
    BY <1>0, <2>1, <2>2, ReturnType, TypeKept, TypeParts
  <2>3. CASE Write(Absent) /\ Idle /\ UNCHANGED queued
    <3>1. AddonType'
      BY <2>3, AbsentType, WriteType DEF AddonType
    <3>2. WorkerType'
      BY <2>3, IdleType DEF WorkerType
    <3> QED BY <1>0, <2>1, <2>3, <3>1, <3>2, TypeKept, TypeParts
  <2> QED BY <1>7, <2>2, <2>3 DEF FinishDeletion
<1>8. CASE CallFails
  BY <1>0, <1>8, FaultType, ReturnType, TypeKept, TypeParts DEF CallFails
<1>9. CASE Unanswered
  <2>1. /\ UserType' /\ WorkerType' /\ queued' \in BOOLEAN /\ VolumeType' /\ HistoryType'
    BY <1>0, <1>9, FaultType, ReturnType, TypeKept DEF Unanswered
  <2>2. CASE JobCall(Head(plan)) /\ UNCHANGED addonVars
    <3>1. JobType'
      BY <2>2, JobCallType DEF JobType
    <3> QED BY <1>0, <2>1, <2>2, <3>1, TypeKept, TypeParts
  <2>3. CASE Write([addon EXCEPT !.status = next]) /\ UNCHANGED <<syncVars, cleanupVars>>
    BY <1>0, <1>5, <2>1, <2>3, TypeKept, TypeParts
  <2> QED BY <1>9, <2>2, <2>3 DEF Unanswered
<1>10. CASE Restart
  <2>1. AddonType' /\ VolumeType' /\ JobType'
    <3>1. watch' \in Seq(Addon)
      BY <1>10, EmptySeq, Zenon DEF Restart
    <3> QED BY <1>0, <1>10, <3>1 DEF Restart, AddonType, VolumeType, JobType
  <2>2. WorkerType'
    BY <1>10, IdleType DEF Restart, WorkerType
  <2>3. queued' \in BOOLEAN
    BY <1>10 DEF Restart, Exists
  <2> QED BY <1>0, <1>10, <2>1, <2>2, <2>3, FaultType, TypeKept, TypeParts DEF Restart
<1> QED BY <1>1, <1>2, <1>3, <1>4, <1>6, <1>7, <1>8, <1>9, <1>10 DEF Reconcile, Decides

\* Everyone else's.
LEMMA WorldTypeStep ==
  ASSUME TypeOK,
         \/ DeliverAddon \/ DeliverSync \/ DeliverCleanup \/ DeliverVolume
         \/ SyncCompletes \/ SyncFails \/ CleanupEnds \/ CleanupOverruns
         \/ JobGoes \/ Collect \/ ForeignJob \/ DeleteAddon
         \/ \E spec \in Created : CreateAddon(spec)
         \/ \E spec \in Edited : EditSpec(spec)
         \/ \E state \in Volumes : SetVolume(state)
  PROVE  TypeOK'
<1>0. AddonType /\ VolumeType /\ JobType /\ WorkerType /\ UserType /\ HistoryType
      /\ queued \in BOOLEAN
  BY TypeParts
<1>1. CASE DeliverAddon
  <2>1. Head(watch) \in Addon /\ Tail(watch) \in Seq(Addon)
    BY <1>0, <1>1 DEF DeliverAddon, AddonType
  <2>2. AddonType' /\ queued' \in BOOLEAN
    BY <1>0, <1>1, <2>1 DEF DeliverAddon, AddonType
  <2> QED BY <1>0, <1>1, <2>2, TypeKept, TypeParts DEF DeliverAddon
<1>2. CASE DeliverSync \/ DeliverCleanup
  <2>1. JobType'
    BY <1>0, <1>2 DEF DeliverSync, DeliverCleanup, JobType, syncVars, cleanupVars
  <2>2. queued' \in BOOLEAN
    BY <1>0, <1>2 DEF DeliverSync, DeliverCleanup
  <2> QED BY <1>0, <1>2, <2>1, <2>2, TypeKept, TypeParts DEF DeliverSync, DeliverCleanup
<1>3. CASE DeliverVolume
  <2>1. VolumeType'
    BY <1>0, <1>3 DEF DeliverVolume, VolumeType
  <2> QED BY <1>0, <1>3, <2>1, TypeKept, TypeParts DEF DeliverVolume
<1>4. CASE SyncCompletes
  <2>1. sync.owner \in 0 .. MaxUid /\ sync.spec \in AddonSpec
    <3>1. sync.owner \in 0 .. MaxUid + 1 /\ sync.owner # MaxUid + 1 /\ sync.spec \in AddonSpec
      BY <1>0, <1>4 DEF SyncCompletes, JobType, SyncJob, Foreign
    <3> QED BY <3>1, BoundsAssumption
  <2>2. [sync EXCEPT !.state = "complete"] \in SyncJob
    BY <1>0 DEF JobType, SyncJob
  <2>3. JobType'
    BY <1>0, <1>4, <2>2 DEF SyncCompletes, JobType, cleanupVars
  <2>4. HistoryType'
    BY <1>0, <1>4, <2>1 DEF SyncCompletes, HistoryType
  <2> QED BY <1>0, <1>4, <2>3, <2>4, TypeKept, TypeParts DEF SyncCompletes
<1>5. CASE SyncFails
  <2>1. \A o \in {"failed", "clash"} : [sync EXCEPT !.state = o] \in SyncJob
    BY <1>0 DEF JobType, SyncJob
  <2>2. JobType'
    BY <1>0, <1>5, <2>1 DEF SyncFails, JobType, cleanupVars
  <2> QED BY <1>0, <1>5, <2>2, FaultType, TypeKept, TypeParts DEF SyncFails
<1>6. CASE CleanupEnds
  <2>1. [cleanup EXCEPT !.state = "ended"] \in CleanupJob
    BY <1>0 DEF JobType, CleanupJob
  <2>2. JobType'
    BY <1>0, <1>6, <2>1 DEF CleanupEnds, JobType, syncVars
  <2> QED BY <1>0, <1>6, <2>2, TypeKept, TypeParts DEF CleanupEnds
<1>7. CASE CleanupOverruns
  <2>1. \A j \in CleanupJob, u \in JobUid : Late(j, u) \in CleanupJob
    BY DEF Late, CleanupJob
  <2>2. JobType'
    <3>1. cleanup.uid \in JobUid /\ cleanup \in CleanupJob /\ cleanupCache \in CleanupJob
      BY <1>0 DEF JobType, CleanupJob
    <3> QED BY <1>0, <1>7, <2>1, <3>1 DEF CleanupOverruns, JobType, syncVars
  <2> QED BY <1>0, <1>7, <2>2, TypeKept, TypeParts DEF CleanupOverruns
<1>8. CASE JobGoes \/ Collect
  <2>1. /\ SyncGoes \/ CleanupGoes
        /\ UNCHANGED <<addonVars, volumeVars, queued, pc, ad, stale, plan, next, published>>
        /\ UNCHANGED userVars \/ Fault
    BY <1>8 DEF JobGoes, Collect
  <2>2. JobType' /\ WorkerType'
    BY <2>1, GoesType
  <2> QED BY <1>0, <2>1, <2>2, FaultType, TypeKept, TypeParts
<1>9. CASE ForeignJob
  <2>1. /\ [NoSync EXCEPT !.uid = "current", !.owner = Foreign] \in SyncJob
        /\ [NoCleanup EXCEPT !.uid = "current", !.owner = Foreign] \in CleanupJob
    <3>1. Foreign \in 0 .. MaxUid + 1 /\ "current" \in JobUid
      BY BoundsAssumption DEF Foreign, JobUid
    <3> QED BY <3>1, AbsentType DEF SyncJob, CleanupJob
  <2>2. JobType'
    BY <1>0, <1>9, <2>1 DEF ForeignJob, JobType
  <2> QED BY <1>0, <1>9, <2>2, FaultType, TypeKept, TypeParts DEF ForeignJob
<1>10. ASSUME NEW spec \in Created, CreateAddon(spec) PROVE TypeOK'
  <2>1. nextUid \in 0 .. MaxUid /\ nextUid' \in 1 .. MaxUid + 1 /\ spec \in AddonSpec
    <3>1. nextUid \in 1 .. MaxUid + 1 /\ nextUid <= MaxUid /\ nextUid' = nextUid + 1
      BY <1>0, <1>10 DEF CreateAddon, UserType
    <3> QED BY <3>1, BoundsAssumption, DomainAssumption
  <2>2. [Absent EXCEPT !.uid = nextUid, !.spec = spec] \in Addon
    BY <2>1, AbsentType DEF Addon
  <2>3. AddonType' /\ WorkerType'
    BY <1>10, <2>2, OthersType DEF CreateAddon
  <2>4. UserType'
    BY <1>0, <1>10, <2>1 DEF CreateAddon, UserType
  <2> QED BY <1>0, <1>10, <2>3, <2>4, TypeKept, TypeParts DEF CreateAddon
<1>11. ASSUME NEW spec \in Edited, EditSpec(spec) PROVE TypeOK'
  <2>1. spec \in AddonSpec
    BY DomainAssumption
  <2>2. [addon EXCEPT !.spec = spec] \in Addon
    BY <1>0, <2>1 DEF AddonType, Addon
  <2>3. AddonType' /\ WorkerType'
    BY <1>11, <2>2, OthersType DEF EditSpec
  <2> QED BY <1>0, <1>11, <2>3, FaultType, TypeKept, TypeParts DEF EditSpec
<1>12. CASE DeleteAddon
  <2>1. (IF addon.finalizer THEN [addon EXCEPT !.deleting = TRUE] ELSE Absent) \in Addon
    BY <1>0, AbsentType DEF AddonType, Addon
  <2>2. AddonType' /\ WorkerType'
    BY <1>12, <2>1, OthersType DEF DeleteAddon
  <2> QED BY <1>0, <1>12, <2>2, TypeKept, TypeParts DEF DeleteAddon
<1>13. ASSUME NEW state \in Volumes, SetVolume(state) PROVE TypeOK'
  <2>1. VolumeType'
    BY <1>0, <1>13, DomainAssumption DEF SetVolume, VolumeType
  <2> QED BY <1>0, <1>13, <2>1, FaultType, TypeKept, TypeParts DEF SetVolume
<1> QED BY <1>1, <1>2, <1>3, <1>4, <1>5, <1>6, <1>7, <1>8, <1>9, <1>10, <1>11, <1>12, <1>13

LEMMA TypeStep == TypeOK /\ [Next]_vars => TypeOK'
<1>1. TypeOK /\ UNCHANGED vars => TypeOK'
  BY TypeParts, TypeKept DEF vars
<1> QED BY <1>1, WorkerTypeStep, WorldTypeStep DEF Next

\* Type correctness of the addon, its Jobs, the caches and the worker.
THEOREM TypeCorrect == Safety => []TypeOK
  BY TypeInit, TypeStep, PTL DEF Safety

-----------------------------------------------------------------------------
(* A ready addon is backed by a sync. *)

\* Backed, after a step, of a status held over it.
BackedAfter(uid, st) ==
    /\ st.ready <=> st.phase = "Synced"
    /\ st.ready => <<uid, st.built>> \in published'

LEMMA PublishedGrows == [Next]_vars => published \subseteq published'
<1> SUFFICES ASSUME [Next]_vars PROVE published \subseteq published' OBVIOUS
<1>1. CASE SyncCompletes
  BY <1>1 DEF SyncCompletes
<1>2. CASE Decides
  BY <1>2 DEF Decides, DecideSync, DecideDeletion
<1>3. CASE \/ Begin \/ AddFinalizer \/ CallJob \/ WriteAddonStatus \/ FinishDeletion
           \/ CallFails \/ Unanswered \/ Restart
  BY <1>3 DEF Begin, AddFinalizer, CallJob, WriteAddonStatus, FinishDeletion, CallFails,
              Unanswered, Restart
<1>4. CASE \/ DeliverAddon \/ DeliverSync \/ DeliverCleanup \/ DeliverVolume
           \/ SyncFails \/ CleanupEnds \/ CleanupOverruns
           \/ JobGoes \/ Collect \/ ForeignJob \/ DeleteAddon \/ UNCHANGED vars
  BY <1>4 DEF DeliverAddon, DeliverSync, DeliverCleanup, DeliverVolume, SyncFails,
              CleanupEnds, CleanupOverruns, JobGoes, Collect, ForeignJob, DeleteAddon, vars
<1>5. CASE \/ \E spec \in Created : CreateAddon(spec)
           \/ \E spec \in Edited : EditSpec(spec)
           \/ \E state \in Volumes : SetVolume(state)
  BY <1>5 DEF CreateAddon, EditSpec, SetVolume
<1> QED BY <1>1, <1>2, <1>3, <1>4, <1>5 DEF Next, Reconcile, Decides

\* The ways a step writes the addon: the finalizer is added, a status is written, the
\* last finalizer is removed, or someone else writes it under the worker's eyes.
WritesFinalizer ==
    /\ pc = "begin" /\ ~stale /\ pc' = "decide" /\ ~stale'
    /\ addon' = [addon EXCEPT !.finalizer = TRUE] /\ ad' = [ad EXCEPT !.finalizer = TRUE]
WritesStatus ==
    /\ pc = "run" /\ ~stale /\ addon' = [addon EXCEPT !.status = next]
    /\ Return \/ UNCHANGED <<pc, ad, stale, job, cleaner, next>>
WritesDeletion == addon' = Absent /\ Idle
WritesOther ==
    /\ stale' = (pc # "idle") /\ UNCHANGED <<pc, ad, next>>
    /\ \/ addon'.uid = addon.uid /\ addon'.status = addon.status
       \/ addon'.status = NewAddonStatus

LEMMA AddonEffect ==
  ASSUME TypeOK, [Next]_vars
  PROVE  \/ UNCHANGED addonVars \/ DeliverAddon \/ Restart
         \/ /\ Write(addon')
            /\ WritesFinalizer \/ WritesStatus \/ WritesDeletion \/ WritesOther
<1>0. addon \in Addon /\ stale \in BOOLEAN
  BY DEF TypeOK
<1>1. CASE AddFinalizer
  BY <1>0, <1>1 DEF AddFinalizer, Write, WritesFinalizer
<1>2. CASE WriteAddonStatus
  <2>1. CASE Write([addon EXCEPT !.status = next]) /\ ~stale /\ Continue /\ pc = "run"
    BY <2>1, ContinueEffect DEF Write, WritesStatus
  <2> QED BY <1>2, <2>1 DEF WriteAddonStatus, Refused, Calling
<1>3. CASE FinishDeletion
  BY <1>3 DEF FinishDeletion, Write, WritesDeletion
<1>4. CASE Unanswered
  BY <1>4 DEF Unanswered, Write, WritesStatus, Refused, Calling
<1>5. ASSUME NEW spec \in Created, CreateAddon(spec) PROVE Write(addon') /\ WritesOther
  <2>1. [Absent EXCEPT !.uid = nextUid, !.spec = spec].status = NewAddonStatus
    BY DEF Absent
  <2> QED BY <1>5, <2>1 DEF CreateAddon, WriteByOthers, Write, WritesOther
<1>6. ASSUME NEW spec \in Edited, EditSpec(spec) PROVE Write(addon') /\ WritesOther
  <2>1. /\ [addon EXCEPT !.spec = spec].uid = addon.uid
        /\ [addon EXCEPT !.spec = spec].status = addon.status
    BY <1>0 DEF Addon
  <2> QED BY <1>6, <2>1 DEF EditSpec, WriteByOthers, Write, WritesOther
<1>7. ASSUME DeleteAddon PROVE Write(addon') /\ WritesOther
  <2>1. /\ [addon EXCEPT !.deleting = TRUE].uid = addon.uid
        /\ [addon EXCEPT !.deleting = TRUE].status = addon.status
        /\ Absent.status = NewAddonStatus
    BY <1>0 DEF Addon, Absent
  <2> QED BY <1>7, <2>1 DEF DeleteAddon, WriteByOthers, Write, WritesOther
<1>8. CASE Decides
  BY <1>8, DecideEffect
<1>9. CASE \/ Begin \/ CallJob \/ CallFails \/ DeliverSync \/ DeliverCleanup \/ DeliverVolume
           \/ SyncCompletes \/ SyncFails \/ CleanupEnds \/ CleanupOverruns
           \/ JobGoes \/ Collect \/ ForeignJob \/ UNCHANGED vars
           \/ \E state \in Volumes : SetVolume(state)
  BY <1>9 DEF Begin, CallJob, CallFails, DeliverSync, DeliverCleanup, DeliverVolume,
              SyncCompletes, SyncFails, CleanupEnds, CleanupOverruns, JobGoes, Collect,
              ForeignJob, SetVolume, vars
<1> QED BY <1>1, <1>2, <1>3, <1>4, <1>5, <1>6, <1>7, <1>8, <1>9 DEF Next, Reconcile, Decides

\* What a step does to the copy the worker works on, when the addon is not written.
LEMMA WorkerEffect ==
  ASSUME TypeOK, [Next]_vars, UNCHANGED addonVars
  PROVE  \/ Idle
         \/ UNCHANGED <<pc, ad, stale, next>>
         \/ /\ pc = "idle" /\ ad' = cache /\ stale' = (watch # <<>>)
            /\ pc' \in {"begin", "decide"}
         \/ /\ pc = "decide"
            /\ \E calls, status : Justified(calls, status) /\ RunsTo(calls, status)
<1> USE DEF worker
<1>0. \A new : ~Write(new)
  <2>1. watch \in Seq(Addon) /\ watch' = watch
    BY DEF TypeOK, addonVars
  <2>2. \A new : Len(Append(watch, new)) = Len(watch) + 1 /\ Len(watch) \in Nat
    BY <2>1
  <2> QED BY <2>1, <2>2 DEF Write
<1>1. CASE Begin
  BY <1>1 DEF Begin
<1>2. CASE AddFinalizer \/ WriteAddonStatus \/ FinishDeletion
  BY <1>0, <1>2 DEF AddFinalizer, WriteAddonStatus, FinishDeletion, Return
<1>3. CASE Decides
  BY <1>3, DecideEffect DEF Return
<1>4. CASE CallJob
  BY <1>4, ContinueEffect DEF CallJob, Return
<1>5. CASE CallFails \/ Unanswered \/ Restart
  BY <1>5 DEF CallFails, Unanswered, Restart, Return
<1>6. CASE \/ DeliverAddon \/ DeliverSync \/ DeliverCleanup \/ DeliverVolume
           \/ SyncCompletes \/ SyncFails \/ CleanupEnds \/ CleanupOverruns
           \/ JobGoes \/ Collect \/ ForeignJob \/ UNCHANGED vars
           \/ \E state \in Volumes : SetVolume(state)
  BY <1>6 DEF DeliverAddon, DeliverSync, DeliverCleanup, DeliverVolume,
              SyncCompletes, SyncFails, CleanupEnds, CleanupOverruns, JobGoes, Collect,
              ForeignJob, SetVolume, vars
<1>7. CASE \/ DeleteAddon
           \/ \E spec \in Created : CreateAddon(spec)
           \/ \E spec \in Edited : EditSpec(spec)
  BY <1>0, <1>7 DEF DeleteAddon, CreateAddon, EditSpec, WriteByOthers
<1> QED BY <1>1, <1>2, <1>3, <1>4, <1>5, <1>6, <1>7 DEF Next, Reconcile, Decides

LEMMA InformerStep ==
  ASSUME TypeOK, TypeOK', InformerComplete, [Next]_vars
  PROVE  InformerComplete'
<1>0. watch \in Seq(Addon)
  BY DEF TypeOK
<1>1. CASE UNCHANGED addonVars
  BY <1>1 DEF InformerComplete, addonVars
<1>2. CASE DeliverAddon
  <2>1. watch # <<>> /\ cache' = Head(watch) /\ watch' = Tail(watch) /\ addon' = addon
    BY <1>2 DEF DeliverAddon
  <2>2. /\ Len(watch) \in Nat \ {0} /\ Len(watch') = Len(watch) - 1 /\ cache' = watch[1]
        /\ watch' \in Seq(Addon) /\ \A i \in 1 .. Len(watch') : watch'[i] = watch[i + 1]
    BY <1>0, <2>1, EmptySeq, HeadTailProperties
  <2>3. watch[Len(watch)] = addon
    BY <2>1 DEF InformerComplete
  <2>4. CASE watch' = <<>>
    <3>1. Len(watch') = 0
      BY <2>4, EmptySeq
    <3>2. Len(watch) = 1
      BY <2>2, <3>1
    <3> QED BY <2>1, <2>2, <2>3, <2>4, <3>2 DEF InformerComplete
  <2>5. CASE watch' # <<>>
    <3>1. Len(watch') \in Nat \ {0}
      BY <2>2, <2>5, EmptySeq
    <3>2. Len(watch') \in 1 .. Len(watch') /\ Len(watch') + 1 = Len(watch)
      BY <2>2, <3>1
    <3>3. watch'[Len(watch')] = watch[Len(watch)]
      BY <2>2, <3>2
    <3> QED BY <2>1, <2>3, <2>5, <3>3 DEF InformerComplete
  <2> QED BY <2>4, <2>5
<1>3. CASE Restart
  BY <1>3 DEF Restart, InformerComplete
<1>4. CASE Write(addon')
  <2>1. watch' = Append(watch, addon')
    BY <1>4 DEF Write
  <2>2. Len(watch') = Len(watch) + 1 /\ watch'[Len(watch) + 1] = addon' /\ Len(watch) \in Nat
    BY <1>0, <2>1
  <2>3. watch' # <<>>
    BY <2>2, EmptySeq
  <2> QED BY <2>2, <2>3 DEF InformerComplete
<1> QED BY <1>1, <1>2, <1>3, <1>4, AddonEffect

LEMMA CopyStep ==
  ASSUME TypeOK, TypeOK', InformerComplete, CopyCurrent, [Next]_vars
  PROVE  CopyCurrent'
<1> SUFFICES ASSUME pc' \in {"begin", "decide"}, ~stale' PROVE ad' = addon'
  BY DEF CopyCurrent
<1>0. pc' # "idle"
  OBVIOUS
<1>1. CASE UNCHANGED addonVars
  <2>1. addon' = addon
    BY <1>1 DEF addonVars
  <2>2. CASE UNCHANGED <<pc, ad, stale, next>>
    BY <2>1, <2>2 DEF CopyCurrent
  <2>3. CASE ad' = cache /\ stale' = (watch # <<>>)
    BY <2>1, <2>3 DEF InformerComplete
  <2>4. ASSUME NEW calls, NEW status, RunsTo(calls, status) PROVE FALSE
    BY <2>4 DEF RunsTo
  <2>5. ~Idle
    BY <1>0 DEF Idle
  <2> QED BY <1>1, <2>2, <2>3, <2>4, <2>5, WorkerEffect
<1>2. CASE DeliverAddon
  BY <1>2 DEF DeliverAddon, CopyCurrent, worker
<1>3. CASE Restart
  BY <1>3 DEF Restart, Idle
<1>4. CASE WritesFinalizer
  BY <1>4 DEF WritesFinalizer, CopyCurrent
<1>5. CASE WritesStatus
  BY <1>5 DEF WritesStatus, Return, Idle
<1>6. CASE WritesDeletion
  BY <1>6 DEF WritesDeletion, Idle
<1>7. CASE WritesOther
  BY <1>7 DEF WritesOther
<1> QED BY <1>1, <1>2, <1>3, <1>4, <1>5, <1>6, <1>7, AddonEffect

\* A completed sync is on record, also in the informer's copy of its Job.
CompletedOnRecord ==
    \A j \in {sync, syncCache} :
        JobExists(j) /\ j.state = "complete" => <<j.owner, j.spec>> \in published

LEMMA CompletedStep ==
  ASSUME TypeOK, CompletedOnRecord, [Next]_vars
  PROVE  CompletedOnRecord'
<1> DEFINE Ok(j) == JobExists(j) /\ j.state = "complete" => <<j.owner, j.spec>> \in published'
<1>0. /\ sync \in SyncJob /\ syncCache \in SyncJob /\ Ok(sync) /\ Ok(syncCache)
      /\ published \subseteq published'
  BY PublishedGrows DEF TypeOK, CompletedOnRecord
<1> SUFFICES Ok(sync') /\ Ok(syncCache')
  BY DEF CompletedOnRecord
<1>1. CASE UNCHANGED syncVars
  BY <1>0, <1>1 DEF syncVars
<1>2. CASE DeleteSync
  <2>1. ~JobExists(NoSync)
    BY DEF NoSync, JobExists
  <2>2. /\ JobExists(CopyOfDeleted(syncCache)) => JobExists(syncCache)
        /\ CopyOfDeleted(syncCache).state = syncCache.state
        /\ CopyOfDeleted(syncCache).owner = syncCache.owner
        /\ CopyOfDeleted(syncCache).spec = syncCache.spec
    BY <1>0 DEF CopyOfDeleted, Deleted, SyncJob, JobExists
  <2> QED BY <1>0, <1>2, <2>1, <2>2 DEF DeleteSync
<1>3. ASSUME NEW call, JobCall(call) PROVE Ok(sync') /\ Ok(syncCache')
  <2>1. NewSync.state = "active"
    BY DEF NewSync, NoSync
  <2>2. CASE sync' = (IF JobExists(sync) THEN sync ELSE NewSync) /\ UNCHANGED syncCache
    BY <1>0, <2>1, <2>2
  <2> QED BY <1>1, <1>2, <1>3, <2>2 DEF JobCall
<1>4. CASE SyncCompletes
  <2>1. sync' = [sync EXCEPT !.state = "complete"] /\ UNCHANGED syncCache
        /\ published' = published \cup {<<sync.owner, sync.spec>>}
    BY <1>4 DEF SyncCompletes
  <2>2. sync'.owner = sync.owner /\ sync'.spec = sync.spec
    BY <1>0, <2>1 DEF SyncJob
  <2> QED BY <1>0, <2>1, <2>2
<1>5. CASE SyncFails
  <2>1. PICK o \in {"failed", "clash"} : sync' = [sync EXCEPT !.state = o]
    BY <1>5 DEF SyncFails
  <2>2. sync'.state # "complete"
    BY <1>0, <2>1 DEF SyncJob
  <2> QED BY <1>0, <1>5, <2>2 DEF SyncFails
<1>6. CASE ForeignJob
  <2>1. [NoSync EXCEPT !.uid = "current", !.owner = Foreign].state = "active"
    BY DEF NoSync
  <2> QED BY <1>0, <1>6, <2>1 DEF ForeignJob
<1>7. CASE JobGoes \/ Collect
  BY <1>1, <1>2, <1>7 DEF JobGoes, Collect, SyncGoes, CleanupGoes
<1>8. CASE Restart \/ DeliverSync
  BY <1>0, <1>8 DEF Restart, DeliverSync
<1>9. CASE CallJob \/ Unanswered
  BY <1>1, <1>3, <1>9 DEF CallJob, Unanswered
<1>10. CASE Decides
  BY <1>1, <1>10, DecideEffect
<1>11. CASE \/ Begin \/ AddFinalizer \/ WriteAddonStatus \/ FinishDeletion \/ CallFails
            \/ DeliverAddon \/ DeliverCleanup \/ DeliverVolume \/ CleanupEnds
            \/ CleanupOverruns \/ DeleteAddon \/ UNCHANGED vars
  BY <1>1, <1>11 DEF Begin, AddFinalizer, WriteAddonStatus, FinishDeletion, CallFails,
            DeliverAddon, DeliverCleanup, DeliverVolume, CleanupEnds, CleanupOverruns,
            DeleteAddon, vars
<1>12. CASE \/ \E spec \in Created : CreateAddon(spec)
            \/ \E spec \in Edited : EditSpec(spec)
            \/ \E state \in Volumes : SetVolume(state)
  BY <1>1, <1>12 DEF CreateAddon, EditSpec, SetVolume
<1> QED BY <1>4, <1>5, <1>6, <1>7, <1>8, <1>9, <1>10, <1>11, <1>12
        DEF Next, Reconcile, Decides

LEMMA BackedKept ==
  ASSUME [Next]_vars, NEW uid, NEW st, Backed(uid, st)
  PROVE  BackedAfter(uid, st)
  BY PublishedGrows DEF Backed, BackedAfter

LEMMA NewIsBacked ==
  \A uid : Backed(uid, NewAddonStatus) /\ BackedAfter(uid, NewAddonStatus)
  BY DEF Backed, BackedAfter, NewAddonStatus

\* The addon itself, in the API server.
LEMMA AddonBackedStep ==
  ASSUME TypeOK, BackedInv, [Next]_vars
  PROVE  BackedAfter(addon'.uid, addon'.status)
<1>0. addon \in Addon
  BY DEF TypeOK
<1>1. Backed(addon.uid, addon.status) /\ (pc = "run" /\ ~stale => Backed(addon.uid, next))
  BY DEF BackedInv
<1>2. CASE UNCHANGED addon
  BY <1>1, <1>2, BackedKept
<1>3. CASE WritesFinalizer
  <2>1. addon'.uid = addon.uid /\ addon'.status = addon.status
    BY <1>0, <1>3 DEF WritesFinalizer, Addon
  <2> QED BY <1>1, <2>1, BackedKept
<1>4. CASE WritesStatus
  <2>1. addon'.uid = addon.uid /\ addon'.status = next
    BY <1>0, <1>4 DEF WritesStatus, Addon
  <2>2. pc = "run" /\ ~stale
    BY <1>4 DEF WritesStatus
  <2> QED BY <1>1, <2>1, <2>2, BackedKept
<1>5. CASE WritesDeletion
  <2>1. addon'.status = NewAddonStatus
    BY <1>5 DEF WritesDeletion, Absent
  <2> QED BY <2>1, NewIsBacked
<1>6. CASE WritesOther
  BY <1>1, <1>6, BackedKept, NewIsBacked DEF WritesOther
<1> QED BY <1>2, <1>3, <1>4, <1>5, <1>6, AddonEffect DEF addonVars, DeliverAddon, Restart

\* The informer's copy and the states it has still to deliver.
LEMMA WatchBackedStep ==
  ASSUME TypeOK, BackedInv, [Next]_vars
  PROVE  /\ BackedAfter(cache'.uid, cache'.status)
         /\ \A i \in 1 .. Len(watch') : BackedAfter(watch'[i].uid, watch'[i].status)
<1>0. watch \in Seq(Addon)
  BY DEF TypeOK
<1>1. /\ BackedAfter(cache.uid, cache.status)
      /\ \A i \in 1 .. Len(watch) : BackedAfter(watch[i].uid, watch[i].status)
  BY BackedKept DEF BackedInv
<1>2. BackedAfter(addon'.uid, addon'.status)
  BY AddonBackedStep
<1>3. CASE UNCHANGED addonVars
  BY <1>1, <1>3 DEF addonVars
<1>4. CASE DeliverAddon
  <2>1. watch # <<>> /\ cache' = Head(watch) /\ watch' = Tail(watch)
    BY <1>4 DEF DeliverAddon
  <2>2. /\ Len(watch) \in Nat \ {0} /\ Len(watch') = Len(watch) - 1 /\ cache' = watch[1]
        /\ watch' \in Seq(Addon) /\ \A i \in 1 .. Len(watch') : watch'[i] = watch[i + 1]
    BY <1>0, <2>1, EmptySeq, HeadTailProperties
  <2>3. 1 \in 1 .. Len(watch) /\ \A i \in 1 .. Len(watch') : i + 1 \in 1 .. Len(watch)
    BY <2>2
  <2> QED BY <1>1, <2>2, <2>3
<1>5. CASE Restart
  <2>1. cache' = addon' /\ watch' = <<>>
    BY <1>5 DEF Restart
  <2>2. 1 .. Len(watch') = {}
    BY <2>1
  <2> QED BY <1>2, <2>1, <2>2
<1>6. CASE Write(addon')
  <2>1. watch' = Append(watch, addon') /\ cache' = cache
    BY <1>6 DEF Write
  <2>2. /\ Len(watch) \in Nat /\ Len(watch') = Len(watch) + 1
        /\ watch'[Len(watch) + 1] = addon'
        /\ \A i \in 1 .. Len(watch) : watch'[i] = watch[i]
    BY <1>0, <2>1
  <2>3. \A i \in 1 .. Len(watch') : i \in 1 .. Len(watch) \/ i = Len(watch) + 1
    BY <2>2
  <2> QED BY <1>1, <1>2, <2>1, <2>2, <2>3
<1> QED BY <1>3, <1>4, <1>5, <1>6, AddonEffect

\* The copy the worker works on, and the status it is about to write.
LEMMA CopyBackedStep ==
  ASSUME TypeOK, BackedInv, [Next]_vars
  PROVE  /\ BackedAfter(ad'.uid, ad'.status)
         /\ pc' = "run" /\ ~stale' => BackedAfter(addon'.uid, next')
<1>0. ad \in Addon /\ addon \in Addon /\ syncCache \in SyncJob /\ stale \in BOOLEAN
  BY DEF TypeOK
<1>1. /\ BackedAfter(ad.uid, ad.status) /\ BackedAfter(cache.uid, cache.status)
      /\ pc = "run" /\ ~stale => BackedAfter(addon.uid, next)
  BY BackedKept DEF BackedInv
<1>2. CASE Idle
  <2>1. ad'.status = NewAddonStatus /\ pc' # "run"
    BY <1>2 DEF Idle, Absent
  <2> QED BY <2>1, NewIsBacked
<1>3. CASE UNCHANGED <<addon, pc, ad, stale, next>>
  BY <1>1, <1>3
<1>4. CASE UNCHANGED addonVars
  <2>1. CASE UNCHANGED <<pc, ad, stale, next>>
    BY <1>3, <1>4, <2>1 DEF addonVars
  <2>2. CASE ad' = cache /\ pc' \in {"begin", "decide"}
    BY <1>1, <2>2
  <2>3. ASSUME NEW calls, NEW status, pc = "decide", Justified(calls, status),
               RunsTo(calls, status)
        PROVE  /\ BackedAfter(ad'.uid, ad'.status)
               /\ pc' = "run" /\ ~stale' => BackedAfter(addon'.uid, next')
    <3>1. ad'.status = NewAddonStatus /\ stale' = stale
          /\ (next' = status \/ next' = NewAddonStatus) /\ addon' = addon
      BY <1>4, <2>3 DEF RunsTo, addonVars
    <3>2. ASSUME ~stale PROVE BackedAfter(addon.uid, status)
      <4>1. ad = addon
        BY <2>3, <3>2 DEF BackedInv, CopyCurrent
      <4>2. CASE Follows(ad.status, status)
        BY <1>1, <4>1, <4>2 DEF Follows, BackedAfter
      <4>3. CASE /\ status = SyncedStatus(syncCache) /\ Owned(syncCache, ad)
                 /\ syncCache.spec = ad.spec /\ syncCache.state = "complete"
        <5>1. <<syncCache.owner, syncCache.spec>> \in published'
          BY <4>3, PublishedGrows DEF BackedInv, Owned
        <5>2. status.ready = TRUE /\ status.phase = "Synced" /\ status.built = syncCache.spec
          BY <1>0, <4>3, SyncedStatusFacts
        <5> QED BY <4>1, <4>3, <5>1, <5>2 DEF BackedAfter, Owned
      <4> QED BY <2>3, <4>2, <4>3 DEF Justified
    <3> QED BY <3>1, <3>2, NewIsBacked
  <2> QED BY <1>2, <1>4, <2>1, <2>2, <2>3, WorkerEffect
<1>5. CASE DeliverAddon
  BY <1>3, <1>5 DEF DeliverAddon, worker
<1>6. CASE Restart
  BY <1>2, <1>6 DEF Restart
<1>7. CASE WritesFinalizer
  <2>1. ad'.uid = ad.uid /\ ad'.status = ad.status /\ pc' # "run"
    BY <1>0, <1>7 DEF WritesFinalizer, Addon
  <2> QED BY <1>1, <2>1
<1>8. CASE WritesStatus
  <2>1. addon'.uid = addon.uid
    BY <1>0, <1>8 DEF WritesStatus, Addon
  <2> QED BY <1>1, <1>2, <1>8, <2>1 DEF WritesStatus, Return
<1>9. CASE WritesDeletion
  BY <1>2, <1>9 DEF WritesDeletion
<1>10. CASE WritesOther
  <2>1. stale' = (pc # "idle") /\ UNCHANGED <<pc, ad, next>>
    BY <1>10 DEF WritesOther
  <2> QED BY <1>1, <2>1
<1> QED BY <1>4, <1>5, <1>6, <1>7, <1>8, <1>9, <1>10, AddonEffect

LEMMA BackedStep ==
  ASSUME TypeOK, TypeOK', BackedInv, [Next]_vars
  PROVE  BackedInv'
<1>1. InformerComplete' /\ CopyCurrent' /\ CompletedOnRecord'
  BY InformerStep, CopyStep, CompletedStep DEF BackedInv, CompletedOnRecord
<1>2. /\ Backed(addon.uid, addon.status)' /\ Backed(cache.uid, cache.status)'
      /\ (\A i \in 1 .. Len(watch) : Backed(watch[i].uid, watch[i].status))'
      /\ Backed(ad.uid, ad.status)'
      /\ (pc = "run" /\ ~stale => Backed(addon.uid, next))'
  BY AddonBackedStep, WatchBackedStep, CopyBackedStep DEF Backed, BackedAfter
<1> QED BY <1>1, <1>2 DEF BackedInv, CompletedOnRecord

LEMMA BackedInit == Init => BackedInv
<1> SUFFICES ASSUME Init PROVE BackedInv OBVIOUS
<1>1. /\ addon = Absent /\ watch = <<>> /\ cache = Absent /\ ad = Absent /\ pc = "idle"
      /\ sync = NoSync /\ syncCache = NoSync
  BY DEF Init
<1>2. Absent.status = NewAddonStatus /\ ~JobExists(NoSync) /\ 1 .. Len(<<>>) = {}
  BY DEF Absent, NoSync, JobExists
<1> QED BY <1>1, <1>2, NewIsBacked DEF BackedInv, InformerComplete, CopyCurrent

\* A ready addon reports a commit that a sync Job of this very addon published, whatever
\* is stale, lost, deleted or restarted on the way (recordSyncSuccess, setPhase).
THEOREM ReadyBacked == Safety => []ReadyIsBacked
<1>1. TypeOK /\ BackedInv /\ [Next]_vars => (TypeOK /\ BackedInv)'
  BY TypeStep, BackedStep
<1>2. BackedInv => ReadyIsBacked
  BY DEF BackedInv, Backed, ReadyIsBacked
<1> QED BY <1>1, <1>2, TypeInit, BackedInit, PTL DEF Safety

-----------------------------------------------------------------------------
(* A sync is recorded for the spec it was built from. *)

LEMMA NewNotSynced == NewAddonStatus.phase # "Synced"
  BY DEF NewAddonStatus

LEMMA NextForSpecStep ==
  ASSUME TypeOK, BackedInv, NextForSpec, [Next]_vars
  PROVE  NextForSpec'
<1> SUFFICES ASSUME pc' = "run", ~stale', next'.phase = "Synced"
             PROVE  \/ next'.built = addon'.spec
                    \/ addon'.status.phase = "Synced" /\ next'.built = addon'.status.built
  BY DEF NextForSpec
<1>0. addon \in Addon /\ syncCache \in SyncJob /\ ~Idle
  BY DEF TypeOK, Idle
<1>1. CASE UNCHANGED <<addon, pc, stale, next>>
  BY <1>1 DEF NextForSpec
<1>2. CASE UNCHANGED addonVars
  <2>1. ASSUME NEW calls, NEW status, pc = "decide", Justified(calls, status),
               RunsTo(calls, status)
        PROVE  \/ next'.built = addon'.spec
               \/ addon'.status.phase = "Synced" /\ next'.built = addon'.status.built
    <3>1. stale' = stale /\ (next' = status \/ next' = NewAddonStatus) /\ addon' = addon
      BY <1>2, <2>1 DEF RunsTo, addonVars
    <3>2. next' = status
      BY <3>1, NewNotSynced
    <3>3. ad = addon
      BY <2>1, <3>1 DEF BackedInv, CopyCurrent
    <3>4. CASE Follows(ad.status, status)
      BY <3>1, <3>2, <3>3, <3>4 DEF Follows
    <3>5. CASE status = SyncedStatus(syncCache) /\ syncCache.spec = ad.spec
      BY <1>0, <3>1, <3>2, <3>3, <3>5, SyncedStatusFacts
    <3> QED BY <2>1, <3>4, <3>5 DEF Justified
  <2>2. pc' \notin {"begin", "decide"}
    OBVIOUS
  <2>3. CASE UNCHANGED <<pc, ad, stale, next>>
    BY <1>1, <1>2, <2>3 DEF addonVars
  <2> QED BY <1>0, <1>2, <2>1, <2>2, <2>3, WorkerEffect
<1>3. CASE DeliverAddon
  BY <1>1, <1>3 DEF DeliverAddon, worker
<1>4. CASE WritesStatus
  <2>1. addon'.status = next /\ next' = next
    BY <1>0, <1>4 DEF WritesStatus, Addon, Return
  <2> QED BY <2>1
<1>5. ~WritesFinalizer /\ ~WritesDeletion /\ ~WritesOther /\ ~Restart
  BY <1>0 DEF WritesFinalizer, WritesDeletion, WritesOther, Restart
<1> QED BY <1>2, <1>3, <1>4, <1>5, AddonEffect

LEMMA RecordedStep ==
  ASSUME TypeOK, NextForSpec, [Next]_vars,
         addon'.status.phase = "Synced",
         addon.status.phase # "Synced" \/ addon'.status.built # addon.status.built
  PROVE  addon'.status.built = addon.spec
<1>0. addon \in Addon
  BY DEF TypeOK
<1>1. addon'.status # addon.status /\ addon'.status # NewAddonStatus
  BY NewNotSynced
<1>2. CASE WritesStatus
  <2>1. addon'.status = next /\ pc = "run" /\ ~stale
    BY <1>0, <1>2 DEF WritesStatus, Addon
  <2> QED BY <2>1 DEF NextForSpec
<1>3. ~(UNCHANGED addon)
  BY <1>1
<1>4. ~WritesFinalizer
  BY <1>0, <1>1 DEF WritesFinalizer, Addon
<1>5. ~WritesDeletion
  BY <1>1 DEF WritesDeletion, Absent
<1>6. ~WritesOther
  BY <1>1 DEF WritesOther
<1> QED BY <1>2, <1>3, <1>4, <1>5, <1>6, AddonEffect DEF addonVars, DeliverAddon, Restart

\* No result is recorded but for the spec it was produced for, wherever an edit falls
\* between the calls of a pass (decideAddonSync, writeAddonStatus).
THEOREM ResultsMatchSpec == Safety => RecordedForCurrentSpec
<1>1. Init => NextForSpec
  BY DEF Init, NextForSpec
<1>2. TypeOK /\ BackedInv /\ NextForSpec /\ [Next]_vars => (TypeOK /\ BackedInv /\ NextForSpec)'
  BY TypeStep, BackedStep, NextForSpecStep
<1>3. TypeOK /\ NextForSpec /\ [Next]_vars
      => [/\ addon'.status.phase = "Synced"
          /\ addon.status.phase # "Synced" \/ addon'.status.built # addon.status.built
          => addon'.status.built = addon.spec]_vars
  BY RecordedStep
<1> QED BY <1>1, <1>2, <1>3, TypeInit, BackedInit, PTL DEF Safety, RecordedForCurrentSpec

-----------------------------------------------------------------------------
(* Jobs of others are left alone. *)

SameJob(a, b) == a.uid = b.uid /\ a.owner = b.owner

\* A call of the pass is made, and the pass ends or goes on with the next one.
Advances == pc = "run" /\ (Idle \/ (Len(plan) # 1 /\ plan' = Tail(plan) /\ UNCHANGED pc))

\* What a step does to the sync Job and to the cleanup Job.
SyncChanges ==
    \/ UNCHANGED syncVars
    \/ SameJob(sync', sync) /\ UNCHANGED <<syncCache, plan>>
    \/ ~JobExists(sync) /\ sync'.uid = "current" /\ UNCHANGED syncCache
    \/ syncCache' = sync /\ sync' = sync
    \/ DeleteSync /\ job' = Deleted(job) /\ plan' = plan
    \/ DeleteSync /\ Advances /\ Head(plan) = "delete" /\ job = "current"

CleanupChanges ==
    \/ UNCHANGED cleanupVars
    \/ SameJob(cleanup', cleanup) /\ SameJob(cleanupCache', cleanupCache) /\ plan' = plan
    \/ ~JobExists(cleanup) /\ cleanup'.uid = "current" /\ UNCHANGED cleanupCache
    \/ cleanupCache' = cleanup /\ cleanup' = cleanup
    \/ DeleteCleanup /\ cleaner' = Deleted(cleaner) /\ plan' = plan
    \/ DeleteCleanup /\ Advances /\ Head(plan) = "deleteCleanup" /\ cleaner = "current"

LEMMA CallChanges ==
  ASSUME pc = "run", JobCall(Head(plan)), Advances
  PROVE  SyncChanges /\ CleanupChanges
<1>1. NewSync.uid = "current" /\ NewCleanup.uid = "current"
  BY DEF NewSync, NewCleanup, NoSync, NoCleanup
<1>2. CASE Head(plan) = "create" /\ UNCHANGED <<syncCache, cleanupVars>>
           /\ sync' = IF JobExists(sync) THEN sync ELSE NewSync
  BY <1>1, <1>2 DEF SyncChanges, CleanupChanges, syncVars
<1>3. CASE Head(plan) = "createCleanup" /\ UNCHANGED <<cleanupCache, syncVars>>
           /\ cleanup' = IF JobExists(cleanup) THEN cleanup ELSE NewCleanup
  BY <1>1, <1>3 DEF SyncChanges, CleanupChanges, cleanupVars
<1>4. CASE Head(plan) = "delete" /\ UNCHANGED cleanupVars
           /\ IF DeleteIfSame(job) THEN DeleteSync ELSE UNCHANGED syncVars
  BY <1>4 DEF SyncChanges, CleanupChanges, DeleteIfSame
<1>5. CASE Head(plan) = "deleteCleanup" /\ UNCHANGED syncVars
           /\ IF DeleteIfSame(cleaner) THEN DeleteCleanup ELSE UNCHANGED cleanupVars
  BY <1>5 DEF SyncChanges, CleanupChanges, DeleteIfSame
<1> QED BY <1>2, <1>3, <1>4, <1>5 DEF JobCall

LEMMA JobEffect ==
  ASSUME TypeOK, [Next]_vars
  PROVE  SyncChanges /\ CleanupChanges
<1>0. sync \in SyncJob /\ cleanup \in CleanupJob /\ cleanupCache \in CleanupJob
  BY DEF TypeOK
<1>1. CASE CallJob
  <2>1. Advances
    BY <1>1, ContinueEffect DEF CallJob, Return, Advances
  <2> QED BY <1>1, <2>1, CallChanges DEF CallJob
<1>2. CASE Unanswered
  <2>1. CASE pc = "run" /\ JobCall(Head(plan)) /\ Return
    <3>1. Advances
      BY <2>1 DEF Return, Advances
    <3> QED BY <2>1, <3>1, CallChanges
  <2>2. CASE UNCHANGED <<syncVars, cleanupVars>>
    BY <2>2 DEF SyncChanges, CleanupChanges
  <2> QED BY <1>2, <2>1, <2>2 DEF Unanswered
<1>3. CASE SyncCompletes \/ SyncFails
  <2>1. PICK s : sync' = [sync EXCEPT !.state = s]
    BY <1>3 DEF SyncCompletes, SyncFails
  <2>2. SameJob(sync', sync)
    BY <1>0, <2>1 DEF SyncJob, SameJob
  <2> QED BY <1>3, <2>2 DEF SyncCompletes, SyncFails, worker, SyncChanges, CleanupChanges
<1>4. CASE CleanupEnds
  <2>1. SameJob(cleanup', cleanup)
    BY <1>0, <1>4 DEF CleanupEnds, CleanupJob, SameJob
  <2>2. SameJob(cleanupCache', cleanupCache)
    BY <1>4 DEF CleanupEnds, SameJob
  <2> QED BY <1>4, <2>1, <2>2 DEF CleanupEnds, worker, SyncChanges, CleanupChanges
<1>5. CASE CleanupOverruns
  <2>1. ASSUME NEW j \in CleanupJob, NEW u PROVE SameJob(Late(j, u), j)
    BY <2>1 DEF Late, CleanupJob, SameJob
  <2>2. SameJob(cleanup', cleanup) /\ SameJob(cleanupCache', cleanupCache)
    BY <1>0, <1>5, <2>1 DEF CleanupOverruns
  <2> QED BY <1>5, <2>2 DEF CleanupOverruns, worker, SyncChanges, CleanupChanges
<1>6. CASE JobGoes \/ Collect
  BY <1>6 DEF JobGoes, Collect, SyncGoes, CleanupGoes, SyncChanges, CleanupChanges
<1>7. CASE ForeignJob
  <2>1. /\ [NoSync EXCEPT !.uid = "current", !.owner = Foreign].uid = "current"
        /\ [NoCleanup EXCEPT !.uid = "current", !.owner = Foreign].uid = "current"
    BY DEF NoSync, NoCleanup
  <2> QED BY <1>7, <2>1 DEF ForeignJob, SyncChanges, CleanupChanges, syncVars, cleanupVars
<1>8. CASE Restart
  BY <1>8 DEF Restart, SyncChanges, CleanupChanges
<1>9. CASE DeliverSync \/ DeliverCleanup
  BY <1>9 DEF DeliverSync, DeliverCleanup, SyncChanges, CleanupChanges
<1>10. CASE UNCHANGED <<syncVars, cleanupVars>>
  BY <1>10 DEF SyncChanges, CleanupChanges
<1>11. CASE Decides
  BY <1>10, <1>11, DecideEffect
<1>12. CASE \/ Begin \/ AddFinalizer \/ WriteAddonStatus \/ FinishDeletion \/ CallFails
            \/ DeliverAddon \/ DeliverVolume \/ DeleteAddon \/ UNCHANGED vars
  BY <1>10, <1>12 DEF Begin, AddFinalizer, WriteAddonStatus, FinishDeletion, CallFails,
            DeliverAddon, DeliverVolume, DeleteAddon, vars
<1>13. CASE \/ \E spec \in Created : CreateAddon(spec)
            \/ \E spec \in Edited : EditSpec(spec)
            \/ \E state \in Volumes : SetVolume(state)
  BY <1>10, <1>13 DEF CreateAddon, EditSpec, SetVolume
<1> QED BY <1>1, <1>2, <1>3, <1>4, <1>5, <1>6, <1>7, <1>8, <1>9, <1>11, <1>12, <1>13
        DEF Next, Reconcile, Decides

\* What a step does to the calls the worker has still to make.
LEMMA PlanEffect ==
  ASSUME TypeOK, [Next]_vars, pc' = "run"
  PROVE  \/ /\ UNCHANGED <<pc, plan>>
            /\ job' \in {job, Deleted(job)} /\ cleaner' \in {cleaner, Deleted(cleaner)}
         \/ /\ pc = "run" /\ Len(plan) # 1 /\ plan' = Tail(plan)
            /\ UNCHANGED <<pc, job, cleaner>>
         \/ /\ pc = "decide" /\ UNCHANGED <<syncVars, cleanupVars>>
            /\ \E calls, status : Justified(calls, status) /\ RunsTo(calls, status)
<1>0. ~Idle
  BY DEF Idle
<1>1. CASE Decides
  BY <1>0, <1>1, DecideEffect DEF Return
<1>2. CASE CallJob \/ WriteAddonStatus
  BY <1>0, <1>2, ContinueEffect DEF CallJob, WriteAddonStatus, Calling, Return
<1>3. ~(AddFinalizer \/ FinishDeletion \/ CallFails \/ Unanswered \/ Restart)
  BY <1>0 DEF AddFinalizer, FinishDeletion, CallFails, Unanswered, Restart, Return
<1>4. CASE UNCHANGED worker
  BY <1>4 DEF worker
<1>5. CASE Begin
  BY <1>4, <1>5 DEF Begin
<1>6. CASE JobGoes \/ Collect
  BY <1>6 DEF JobGoes, Collect, SyncGoes, CleanupGoes
<1>7. CASE \/ DeliverAddon \/ DeliverSync \/ DeliverCleanup \/ DeliverVolume
           \/ SyncCompletes \/ SyncFails \/ CleanupEnds \/ CleanupOverruns
           \/ ForeignJob \/ UNCHANGED vars \/ \E state \in Volumes : SetVolume(state)
  BY <1>4, <1>7 DEF DeliverAddon, DeliverSync, DeliverCleanup, DeliverVolume,
              SyncCompletes, SyncFails, CleanupEnds, CleanupOverruns, ForeignJob, SetVolume,
              vars
<1>8. CASE \/ DeleteAddon
           \/ \E spec \in Created : CreateAddon(spec)
           \/ \E spec \in Edited : EditSpec(spec)
  BY <1>8 DEF DeleteAddon, CreateAddon, EditSpec
<1> QED BY <1>1, <1>2, <1>3, <1>5, <1>6, <1>7, <1>8 DEF Next, Reconcile, Decides

\* A copy of a Job stays a copy of the Job that has the name, or of one that is gone.
LEMMA CopiesStep ==
  ASSUME TypeOK, JobInv, [Next]_vars
  PROVE  CopiesOf(syncCache', sync') /\ CopiesOf(cleanupCache', cleanup')
<1>0. /\ syncCache \in SyncJob /\ cleanupCache \in CleanupJob
      /\ CopiesOf(syncCache, sync) /\ CopiesOf(cleanupCache, cleanup)
  BY DEF TypeOK, JobInv
<1>1. NoSync.uid = "none" /\ NoSync.owner = 0 /\ NoCleanup.uid = "none" /\ NoCleanup.owner = 0
  BY DEF NoSync, NoCleanup
<1>2. /\ CopyOfDeleted(syncCache).uid # "current"
      /\ CopyOfDeleted(cleanupCache).uid # "current"
  BY <1>0 DEF CopyOfDeleted, Deleted, SyncJob, CleanupJob
<1>3. CopiesOf(syncCache', sync')
  <2>1. CASE DeleteSync
    BY <1>1, <1>2, <2>1 DEF DeleteSync, CopiesOf
  <2> QED BY <1>0, <2>1, JobEffect DEF SyncChanges, CopiesOf, SameJob, JobExists, syncVars
<1>4. CopiesOf(cleanupCache', cleanup')
  <2>1. CASE DeleteCleanup
    BY <1>1, <1>2, <2>1 DEF DeleteCleanup, CopiesOf
  <2> QED BY <1>0, <2>1, JobEffect DEF CleanupChanges, CopiesOf, SameJob, JobExists, cleanupVars
<1> QED BY <1>3, <1>4

LEMMA PlanStep ==
  ASSUME TypeOK, JobInv, [Next]_vars, pc' = "run"
  PROVE  plan' \in Plans
<1>1. ASSUME NEW calls, NEW status, RunsTo(calls, status) PROVE plan' \in Plans
  BY <1>1 DEF RunsTo
<1> QED BY <1>1, PlanEffect, PlanFacts DEF JobInv

\* A Job whose uid the worker holds to delete it is the one that has the name, and no
\* other than the addon's.
LEMMA SyncTargetStep ==
  ASSUME TypeOK, JobInv, [Next]_vars, pc' = "run", DeletesSync(plan'), job' = "current"
  PROVE  JobExists(sync') /\ sync'.owner # Foreign
<1>0. \A u : Deleted(u) # "current"
  BY DEF Deleted
<1>1. CASE pc = "decide" /\ UNCHANGED <<syncVars, cleanupVars>>
           /\ \E calls, status : Justified(calls, status) /\ RunsTo(calls, status)
  <2>1. PICK calls, status : Justified(calls, status) /\ RunsTo(calls, status)
    BY <1>1
  <2>2. Owned(syncCache, ad) /\ syncCache.uid = "current"
    BY <2>1 DEF Justified, RunsTo
  <2>3. JobExists(sync) /\ sync.owner = ad.uid
    BY <2>2 DEF JobInv, CopiesOf, Owned
  <2>4. ad.uid \in 0 .. MaxUid
    BY DEF TypeOK, Addon
  <2>5. ad.uid # Foreign
    BY <2>4, BoundsAssumption DEF Foreign
  <2> QED BY <1>1, <2>3, <2>5 DEF syncVars
<1>2. CASE \/ UNCHANGED <<pc, plan>> /\ job' \in {job, Deleted(job)}
           \/ pc = "run" /\ Len(plan) # 1 /\ plan' = Tail(plan) /\ UNCHANGED <<pc, job>>
  <2>1. pc = "run" /\ plan \in Plans /\ job = "current"
    BY <1>0, <1>2 DEF JobInv
  <2>2. DeletesSync(plan)
    BY <1>2, <2>1, PlanFacts
  <2>3. JobExists(sync) /\ sync.owner # Foreign
    BY <2>1, <2>2 DEF JobInv
  <2>4. CASE UNCHANGED sync \/ SameJob(sync', sync)
    BY <2>3, <2>4 DEF SameJob, JobExists
  <2>5. ~(Advances /\ Head(plan) = "delete")
    BY <2>1, PlanFacts DEF Advances, Idle
  <2> QED BY <1>0, <2>3, <2>4, <2>5, JobEffect DEF SyncChanges, syncVars
<1> QED BY <1>1, <1>2, PlanEffect

LEMMA CleanupTargetStep ==
  ASSUME TypeOK, JobInv, [Next]_vars, pc' = "run", DeletesCleanup(plan'), cleaner' = "current"
  PROVE  JobExists(cleanup') /\ cleanup'.owner # Foreign
<1>0. \A u : Deleted(u) # "current"
  BY DEF Deleted
<1>1. CASE pc = "decide" /\ UNCHANGED <<syncVars, cleanupVars>>
           /\ \E calls, status : Justified(calls, status) /\ RunsTo(calls, status)
  <2>1. PICK calls, status : Justified(calls, status) /\ RunsTo(calls, status)
    BY <1>1
  <2>2. Owned(cleanupCache, ad) /\ cleanupCache.uid = "current"
    BY <2>1 DEF Justified, RunsTo
  <2>3. JobExists(cleanup) /\ cleanup.owner = ad.uid
    BY <2>2 DEF JobInv, CopiesOf, Owned
  <2>4. ad.uid \in 0 .. MaxUid
    BY DEF TypeOK, Addon
  <2>5. ad.uid # Foreign
    BY <2>4, BoundsAssumption DEF Foreign
  <2> QED BY <1>1, <2>3, <2>5 DEF cleanupVars
<1>2. CASE \/ UNCHANGED <<pc, plan>> /\ cleaner' \in {cleaner, Deleted(cleaner)}
           \/ pc = "run" /\ Len(plan) # 1 /\ plan' = Tail(plan) /\ UNCHANGED <<pc, cleaner>>
  <2>1. pc = "run" /\ plan \in Plans /\ cleaner = "current"
    BY <1>0, <1>2 DEF JobInv
  <2>2. UNCHANGED plan /\ DeletesCleanup(plan)
    BY <1>2, <2>1, PlanFacts
  <2>3. JobExists(cleanup) /\ cleanup.owner # Foreign
    BY <2>1, <2>2 DEF JobInv
  <2>4. CASE UNCHANGED cleanup \/ SameJob(cleanup', cleanup)
    BY <2>3, <2>4 DEF SameJob, JobExists
  <2>5. ~(Advances /\ Head(plan) = "deleteCleanup")
    BY <2>1, PlanFacts DEF Advances, Idle
  <2> QED BY <1>0, <2>3, <2>4, <2>5, JobEffect DEF CleanupChanges, cleanupVars
<1> QED BY <1>1, <1>2, PlanEffect

LEMMA JobInvStep == TypeOK /\ JobInv /\ [Next]_vars => JobInv'
<1> SUFFICES ASSUME TypeOK, JobInv, [Next]_vars PROVE JobInv' OBVIOUS
<1>1. pc' = "run" => plan' \in Plans
  BY PlanStep
<1>2. CopiesOf(syncCache', sync') /\ CopiesOf(cleanupCache', cleanup')
  BY CopiesStep
<1>3. /\ pc' = "run" /\ DeletesSync(plan') /\ job' = "current"
           => JobExists(sync') /\ sync'.owner # Foreign
      /\ pc' = "run" /\ DeletesCleanup(plan') /\ cleaner' = "current"
           => JobExists(cleanup') /\ cleanup'.owner # Foreign
  BY SyncTargetStep, CleanupTargetStep
<1> QED BY <1>1, <1>2, <1>3 DEF JobInv

LEMMA ForeignStep ==
  ASSUME TypeOK, JobInv, [Next]_vars
  PROVE  /\ sync.owner = Foreign /\ sync' # sync => plan' = plan
         /\ cleanup.owner = Foreign /\ ~JobExists(cleanup') => plan' = plan
<1>0. Foreign # 0
  BY BoundsAssumption DEF Foreign
<1>1. ASSUME sync.owner = Foreign, sync' # sync PROVE plan' = plan
  <2>1. JobExists(sync)
    BY <1>0, <1>1 DEF JobInv, CopiesOf, JobExists
  <2>2. ASSUME Advances, Head(plan) = "delete", job = "current" PROVE FALSE
    BY <1>1, <2>2, PlanFacts DEF JobInv, Advances
  <2> QED BY <1>1, <2>1, <2>2, JobEffect DEF SyncChanges, syncVars
<1>2. ASSUME cleanup.owner = Foreign, ~JobExists(cleanup') PROVE plan' = plan
  <2>1. JobExists(cleanup)
    BY <1>0, <1>2 DEF JobInv, CopiesOf, JobExists
  <2>2. ASSUME Advances, Head(plan) = "deleteCleanup", cleaner = "current" PROVE FALSE
    BY <1>2, <2>2, PlanFacts DEF JobInv, Advances
  <2> QED BY <1>2, <2>1, <2>2, JobEffect DEF CleanupChanges, cleanupVars
<1> QED BY <1>1, <1>2

\* The worker never deletes or changes a Job that an addon does not own, also one that
\* takes the name between its read and its delete (deleteJob's uid precondition).
THEOREM OthersJobsKept == Safety => ForeignJobsKept
<1>1. Init => JobInv
  <2> SUFFICES ASSUME Init PROVE JobInv OBVIOUS
  <2>1. /\ pc = "idle" /\ sync = NoSync /\ syncCache = NoSync /\ cleanup = NoCleanup
        /\ cleanupCache = NoCleanup
    BY DEF Init
  <2>2. /\ NoSync.uid = "none" /\ NoSync.owner = 0
        /\ NoCleanup.uid = "none" /\ NoCleanup.owner = 0
    BY DEF NoSync, NoCleanup
  <2> QED BY <2>1, <2>2 DEF JobInv, CopiesOf
<1>2. TypeOK /\ JobInv /\ [Next]_vars
      => [/\ sync.owner = Foreign /\ sync' # sync => plan' = plan
          /\ cleanup.owner = Foreign /\ ~JobExists(cleanup') => plan' = plan]_vars
  BY ForeignStep
<1> QED BY <1>1, <1>2, TypeInit, TypeStep, JobInvStep, PTL DEF Safety, ForeignJobsKept
=============================================================================
