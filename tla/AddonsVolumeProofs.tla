------------------------- MODULE AddonsVolumeProofs -------------------------
(***************************************************************************)
(* Proofs about the addons volume.  The type invariant holds however pods  *)
(* overlap, and OneProvider also when pods of different addons run side by *)
(* side.  The others are for pods that run one at a time (Overlap =        *)
(* "none"): then only the youngest pod can be alive, and what it finds on  *)
(* the volume was left by pods that have ended or were killed.             *)
(***************************************************************************)
EXTENDS AddonsVolume, FiniteSetTheorems, WellFoundedInduction, TLAPS

-----------------------------------------------------------------------------
(* The inductive invariant, in parts. *)

\* The places of the loop over MODLIST that publishes, and what follows it.
PublishLoop == {"publish", "copying", "rename", "ln", "mv"}
StaleLoop == {"stale", "unlinkStale"}
SyncPlaces == {"check", "mkdir", "touch", "record", "prune"} \cup PublishLoop \cup StaleLoop
CleanupPlaces == {"find", "sweep", "unlinkOwn", "purge"}

\* Only the youngest pod is alive.
Solo == \A p \in 1 .. started : Live(p) => p = started

\* What a pod's place in its script says about the rest of its state.
Placed(p) ==
    /\ pod[p].pc \in SyncPlaces => pod[p].script = "sync"
    /\ pod[p].pc \in CleanupPlaces => pod[p].script = "cleanup"
    /\ pod[p].pc \in {"check"} \cup PublishLoop =>
         pod[p].todo # {} /\ pod[p].todo \subseteq MODLIST(p)
    /\ pod[p].pc \in StaleLoop =>
         pod[p].todo # {} /\ pod[p].todo \subseteq Modules \ MODLIST(p)
    /\ pod[p].script = "sync" => pod[p].prev \subseteq Modules
PlacesInv == \A p \in 1 .. started : Live(p) => Placed(p)

\* A module in a release was copied to the end, because the pod that renames a copy has
\* made it, from the beginning.
Copied(p) ==
    /\ pod[p].pc = "copying" => partial[REL(p)][Current(p)].by = p
    /\ pod[p].pc = "rename" => partial[REL(p)][Current(p)].content = "whole"
CopyInv ==
    /\ \A r \in Release, m \in Modules : content[r][m] # "half"
    /\ \A p \in 1 .. started : Live(p) => Copied(p)

\* A pod has looked at every link it is going to replace or remove.
Looked(p) ==
    /\ pod[p].pc = "check" =>
         \A m \in MODLIST(p) \ pod[p].todo : ~Foreign(p, link[m])
    /\ pod[p].pc \in {"mkdir"} \cup PublishLoop =>
         \A m \in MODLIST(p) : ~Foreign(p, link[m])
    /\ pod[p].pc = "mv" => tmp[Current(p)] = REL(p)
    /\ pod[p].pc = "unlinkStale" => Own(p, link[Current(p)])
    /\ pod[p].pc = "unlinkOwn" =>
         \E e \in pod[p].todo : pod[p].prev = {e} /\ Own(p, Target(e))
LinkInv == \A p \in 1 .. started : Live(p) => Looked(p)

\* A commit is the newest of an addon's releases, but for one that is being removed.
First(mine, commit) == mine # <<>> /\ mine[1] = commit
FirstOrNext(mine, commit, old) ==
    \E c \in Commits \ {commit} :
        /\ old = {c}
        /\ First(mine, commit) \/ (Len(mine) > 1 /\ mine[1] = c /\ mine[2] = commit)

\* The modules that a sync has published so far stay published: its release is the
\* newest, so it is not pruned.
Published(p, m) == link[m] = REL(p) /\ content[REL(p)][m] = "whole"
PublishedSoFar(p) ==
    /\ pod[p].pc \in PublishLoop =>
         \A m \in MODLIST(p) \ pod[p].todo : Published(p, m)
    /\ pod[p].pc \in {"ln", "mv"} => content[REL(p)][Current(p)] = "whole"
    /\ pod[p].script = "sync" /\ pod[p].pc \in {"touch", "record", "prune", "rm"} \cup StaleLoop =>
         \A m \in MODLIST(p) : Published(p, m)
    /\ pod[p].pc \in {"record", "prune"} \cup StaleLoop =>
         First(releases[pod[p].addon], pod[p].commit)
    /\ pod[p].script = "sync" /\ pod[p].pc = "rm" =>
         FirstOrNext(releases[pod[p].addon], pod[p].commit, pod[p].old)
\* Only what a live pod is removing is incomplete.
GoingInv ==
    \A r \in Release, m \in Modules : content[r][m] = "going" =>
        \E p \in 1 .. started : /\ Live(p) /\ pod[p].pc = "rm"
                                /\ r[1] = pod[p].addon /\ r[2] \in pod[p].old
\* The promise of a sync that ends well, with no exception for contested modules.
AllPublished ==
    \A p \in Pods : LastIn(p, "sync", {"done"}) =>
        \A m \in MODLIST(p) : link[m] = REL(p) /\ content[REL(p)][m] = "whole"
PublishInv ==
    /\ GoingInv
    /\ \A p \in 1 .. started : Live(p) => PublishedSoFar(p)
    /\ AllPublished

\* A cleanup has removed the links it is past, and then all.
SweptSoFar(p) ==
    /\ pod[p].pc \in {"sweep", "unlinkOwn"} =>
         \A e \in Entries \ pod[p].todo : ~Own(p, Target(e))
    /\ pod[p].pc = "purge" => \A e \in Entries : ~Own(p, Target(e))
    /\ pod[p].script = "cleanup" /\ pod[p].pc = "rm" =>
         /\ \A e \in Entries : ~Own(p, Target(e))
         /\ Range(releases[pod[p].addon]) \subseteq pod[p].old
AllClean ==
    \A p \in Pods : LastIn(p, "cleanup", {"rm", "done"}) =>
        /\ \A e \in Entries : ~Own(p, Target(e))
        /\ pod[p].pc = "done" => releases[pod[p].addon] = <<>>
CleanInv ==
    /\ \A p \in 1 .. started : Live(p) => SweptSoFar(p)
    /\ AllClean

-----------------------------------------------------------------------------
(* Facts about the operators. *)

\* A set of naturals that is not empty has a least element.
LEMMA LeastNatural ==
  ASSUME NEW S \in SUBSET Nat, S # {}
  PROVE  \E s \in S : \A t \in S : s <= t
<1> DEFINE Less == {ss \in Nat \X Nat : ss[1] < ss[2]}
<1>1. IsWellFoundedOn(Less, Nat)
  BY NatLessThanWellFounded, Zenon DEF OpToRel
<1>2. PICK s \in S : \A t \in S : ~(<<t, s>> \in Less)
  <2> HIDE DEF Less
  <2> QED BY <1>1, WFMin
<1>3. \A t \in S : <<t, s>> \in Nat \X Nat /\ <<t, s>>[1] = t /\ <<t, s>>[2] = s
  OBVIOUS
<1>4. \A t \in S : ~(t < s)
  BY <1>2, <1>3, Zenon
<1> QED
  BY <1>4

\* The loop over modules has a module to go on with.
LEMMA CurrentIsIn ==
  ASSUME NEW p \in Pods, pod[p].todo \subseteq Modules, pod[p].todo # {}
  PROVE  Current(p) \in pod[p].todo
<1>1. \E m \in pod[p].todo : \A n \in pod[p].todo : m <= n
  BY LeastNatural, ModulesAssumption
<1> QED
  BY <1>1 DEF Current

\* In the list of an addon's releases a commit is at one place, and what is left when it
\* is taken out is in the same order.
LEMMA RemoveFirstAt ==
  ASSUME NEW s \in Seq(Commits), IsInjective(s), NEW i \in 1 .. Len(s)
  PROVE  /\ RemoveFirst(s, s[i]) \in Seq(Commits)
         /\ Len(RemoveFirst(s, s[i])) = Len(s) - 1
         /\ \A j \in 1 .. Len(s) - 1 :
              RemoveFirst(s, s[i])[j] = IF j < i THEN s[j] ELSE s[j + 1]
<1> DEFINE I == {j \in 1 .. Len(s) : s[j] = s[i]}
<1>1. I = {i}
  BY DEF IsInjective
<1>2. Min({i}) = i
  <2>1. \E x \in {i} : \A y \in {i} : x =< y
    OBVIOUS
  <2> QED
    BY <2>1 DEF Min
<1>3. SelectInSeq(s, LAMBDA v : v = s[i]) = i
  BY <1>1, <1>2 DEF SelectInSeq
<1>4. RemoveFirst(s, s[i]) = RemoveAt(s, i)
  BY <1>3 DEF RemoveFirst
<1>5. /\ SubSeq(s, 1, i - 1) \in Seq(Commits) /\ Len(SubSeq(s, 1, i - 1)) = i - 1
      /\ \A j \in 1 .. i - 1 : SubSeq(s, 1, i - 1)[j] = s[j]
  OBVIOUS
<1>6. /\ SubSeq(s, i + 1, Len(s)) \in Seq(Commits) /\ Len(SubSeq(s, i + 1, Len(s))) = Len(s) - i
      /\ \A j \in 1 .. Len(s) - i : SubSeq(s, i + 1, Len(s))[j] = s[i + j]
  OBVIOUS
<1> DEFINE u == SubSeq(s, 1, i - 1)
           v == SubSeq(s, i + 1, Len(s))
<1>7. /\ u \o v \in Seq(Commits) /\ Len(u \o v) = Len(s) - 1
      /\ \A j \in 1 .. Len(s) - 1 : (u \o v)[j] = IF j < i THEN s[j] ELSE s[j + 1]
  <2>1. u \in Seq(Commits) /\ Len(u) = i - 1 /\ v \in Seq(Commits) /\ Len(v) = Len(s) - i
        /\ (\A j \in 1 .. i - 1 : u[j] = s[j]) /\ (\A j \in 1 .. Len(s) - i : v[j] = s[i + j])
    BY <1>5, <1>6
  <2> HIDE DEF u, v
  <2>2. u \o v \in Seq(Commits) /\ Len(u \o v) = Len(s) - 1
    BY <2>1
  <2>3. \A j \in 1 .. Len(s) - 1 : j < i => (u \o v)[j] = s[j]
    BY <2>1
  <2>4. ASSUME NEW j \in 1 .. Len(s) - 1, j >= i
        PROVE  (u \o v)[j] = s[j + 1]
    <3>1. (u \o v)[j] = v[j - (i - 1)]
      BY <2>1, <2>4
    <3>2. j - (i - 1) \in 1 .. Len(s) - i /\ i + (j - (i - 1)) = j + 1
      BY <2>4
    <3> QED BY <2>1, <3>1, <3>2
  <2>5. \A j \in 1 .. Len(s) - 1 : j < i \/ j >= i
    OBVIOUS
  <2> QED BY <2>2, <2>3, <2>4, <2>5
<1> QED
  BY <1>4, <1>7 DEF RemoveAt

LEMMA RemoveFirstType ==
  ASSUME NEW s \in Seq(Commits), IsInjective(s), NEW c \in Commits
  PROVE  /\ RemoveFirst(s, c) \in Seq(Commits)
         /\ IsInjective(RemoveFirst(s, c))
         /\ Range(RemoveFirst(s, c)) = Range(s) \ {c}
<1> DEFINE t == RemoveFirst(s, c)
<1>1. CASE c \notin Range(s)
  <2>1. t = s
    BY <1>1 DEF RemoveFirst, Range
  <2> QED BY <1>1, <2>1
<1>2. CASE c \in Range(s)
  <2>1. PICK i \in 1 .. Len(s) : c = s[i]
    BY <1>2 DEF Range
  <2>2. /\ t \in Seq(Commits) /\ Len(t) = Len(s) - 1
        /\ \A j \in 1 .. Len(s) - 1 : t[j] = IF j < i THEN s[j] ELSE s[j + 1]
    BY <2>1, RemoveFirstAt
  <2> HIDE DEF t
  <2>3. DOMAIN t = 1 .. Len(s) - 1 /\ DOMAIN s = 1 .. Len(s)
    BY <2>2
  <2>4. IsInjective(t)
    BY <2>2, <2>3 DEF IsInjective
  <2>5. \A j \in 1 .. Len(s) - 1 : t[j] \in Range(s) \ {c}
    BY <2>1, <2>2, <2>3 DEF IsInjective, Range
  <2>6. ASSUME NEW j \in 1 .. Len(s), s[j] # c
        PROVE  s[j] \in Range(t)
    <3>1. CASE j < i
      BY <2>2, <2>3, <3>1 DEF Range
    <3>2. CASE j > i
      <4>1. j - 1 \in 1 .. Len(s) - 1 /\ t[j - 1] = s[j]
        BY <2>2, <3>2
      <4> QED BY <2>3, <4>1 DEF Range
    <3> QED BY <2>1, <2>6, <3>1, <3>2
  <2>7. Range(t) = Range(s) \ {c}
    BY <2>3, <2>5, <2>6 DEF Range
  <2> QED BY <2>2, <2>4, <2>7 DEF t
<1> QED BY <1>1, <1>2

\* A release that becomes the newest.
LEMMA ToFrontType ==
  ASSUME NEW s \in Seq(Commits), IsInjective(s), NEW c \in Commits
  PROVE  /\ <<c>> \o RemoveFirst(s, c) \in Seq(Commits)
         /\ IsInjective(<<c>> \o RemoveFirst(s, c))
         /\ (<<c>> \o RemoveFirst(s, c))[1] = c
         /\ <<c>> \o RemoveFirst(s, c) # <<>>
         /\ \A i \in 1 .. Len(RemoveFirst(s, c)) :
              (<<c>> \o RemoveFirst(s, c))[i + 1] = RemoveFirst(s, c)[i]
         /\ Len(<<c>> \o RemoveFirst(s, c)) = Len(RemoveFirst(s, c)) + 1
<1> DEFINE t == RemoveFirst(s, c)
           u == <<c>> \o t
<1>1. t \in Seq(Commits) /\ IsInjective(t) /\ c \notin Range(t)
  BY RemoveFirstType
<1> HIDE DEF t
<1>2. u \in Seq(Commits) /\ Len(u) = Len(t) + 1 /\ u[1] = c
      /\ \A i \in 1 .. Len(t) : u[i + 1] = t[i]
  BY <1>1
<1>3. u # <<>>
  BY <1>1, <1>2
<1>4. \A i \in 1 .. Len(t) : t[i] # c
  BY <1>1 DEF Range
<1>5. \A i \in 2 .. Len(u) : i - 1 \in 1 .. Len(t) /\ u[i] = t[i - 1]
  <2> SUFFICES ASSUME NEW i \in 2 .. Len(u) PROVE i - 1 \in 1 .. Len(t) /\ u[i] = t[i - 1]
    OBVIOUS
  <2>1. i - 1 \in 1 .. Len(t) /\ (i - 1) + 1 = i
    BY <1>1, <1>2
  <2> QED BY <1>2, <2>1
<1>6. IsInjective(u)
  <2> SUFFICES ASSUME NEW i \in 1 .. Len(u), NEW j \in 1 .. Len(u), u[i] = u[j] PROVE i = j
    BY <1>2 DEF IsInjective
  <2> HIDE DEF u
  <2>1. CASE i = 1 \/ j = 1
    BY <1>2, <1>4, <1>5, <2>1
  <2>2. CASE i # 1 /\ j # 1
    <3>1. i - 1 \in DOMAIN t /\ j - 1 \in DOMAIN t /\ t[i - 1] = t[j - 1]
      BY <1>1, <1>5, <2>2
    <3>2. i - 1 = j - 1
      BY <1>1, <3>1 DEF IsInjective
    <3> QED BY <1>2, <3>2
  <2> QED BY <2>1, <2>2
<1> QED
  BY <1>2, <1>3, <1>6 DEF t

-----------------------------------------------------------------------------
(* What a step does to the pod that takes it. *)

Places == {"check", "mkdir", "publish", "copying", "rename", "ln", "mv", "touch",
           "stale", "unlinkStale", "record", "prune",
           "find", "sweep", "unlinkOwn", "purge", "rm", "done", "failed"}

\* Only pod p changes, and only in these parts.
Moved(p, place, todo, prev, old) ==
    /\ pod' \in [Pods -> Pod]
    /\ \A q \in Pods \ {p} : pod'[q] = pod[q]
    /\ pod'[p].script = pod[p].script
    /\ pod'[p].addon = pod[p].addon
    /\ pod'[p].commit = pod[p].commit /\ pod'[p].beside = pod[p].beside
    /\ pod'[p].pc = place /\ pod'[p].todo = todo /\ pod'[p].prev = prev /\ pod'[p].old = old

LEMMA MovedByExcept ==
  ASSUME pod \in [Pods -> Pod], NEW p \in Pods, NEW place \in Places,
         NEW todo \in SUBSET Entries, NEW prev \in SUBSET Entries, NEW old \in SUBSET Commits,
         pod' = [pod EXCEPT ![p] = [pod[p] EXCEPT !.pc = place, !.todo = todo, !.prev = prev,
                                                  !.old = old]]
  PROVE  Moved(p, place, todo, prev, old)
<1> DEFINE new == [pod[p] EXCEPT !.pc = place, !.todo = todo, !.prev = prev, !.old = old]
<1>1. pod[p] \in Pod
  OBVIOUS
<1>2. /\ new.script = pod[p].script /\ new.addon = pod[p].addon /\ new.commit = pod[p].commit
      /\ new.beside = pod[p].beside /\ new.pc = place /\ new.todo = todo /\ new.prev = prev /\ new.old = old
  BY <1>1 DEF Pod
<1>3. new \in Pod
  BY <1>1 DEF Pod, Places
<1> HIDE DEF new
<1>4. pod' = [pod EXCEPT ![p] = new]
  BY DEF new
<1>5. pod' \in [Pods -> Pod] /\ pod'[p] = new /\ \A q \in Pods \ {p} : pod'[q] = pod[q]
  BY <1>3, <1>4
<1> QED
  BY <1>2, <1>5 DEF Moved

\* The parts of a pod are of their types.
LEMMA PodParts ==
  ASSUME pod \in [Pods -> Pod], NEW p \in Pods
  PROVE  /\ pod[p].script \in {"sync", "cleanup"} /\ pod[p].addon \in Addons
         /\ pod[p].commit \in Commits /\ pod[p].pc \in Places
         /\ pod[p].todo \in SUBSET Entries /\ pod[p].prev \in SUBSET Entries
         /\ pod[p].old \in SUBSET Commits
         /\ REL(p) \in Release /\ MODLIST(p) \in SUBSET Modules /\ MODLIST(p) # {}
         /\ REL(p) # NoLink /\ REL(p)[1] = pod[p].addon /\ REL(p)[2] = pod[p].commit
<1>1. pod[p] \in Pod
  OBVIOUS
<1>2. /\ pod[p].script \in {"sync", "cleanup"} /\ pod[p].addon \in Addons
      /\ pod[p].commit \in Commits /\ pod[p].pc \in Places
      /\ pod[p].todo \in SUBSET Entries /\ pod[p].prev \in SUBSET Entries
      /\ pod[p].old \in SUBSET Commits
  BY <1>1 DEF Pod, Places
<1>3. REL(p) \in Release /\ REL(p) # NoLink /\ REL(p)[1] = pod[p].addon /\ REL(p)[2] = pod[p].commit
  BY <1>2 DEF REL, Release, NoLink
<1>4. ModulesOf[REL(p)] \in (SUBSET Modules) \ {{}}
  BY <1>3, ModulesOfAssumption DEF Release
<1>5. MODLIST(p) \in SUBSET Modules /\ MODLIST(p) # {}
  BY <1>4 DEF MODLIST, REL
<1> QED
  BY <1>2, <1>3, <1>5

LEMMA MovedByGoTo ==
  ASSUME pod \in [Pods -> Pod], NEW p \in Pods, NEW place \in Places, GoTo(p, place)
  PROVE  Moved(p, place, pod[p].todo, pod[p].prev, pod[p].old)
<1>1. pod[p] \in Pod /\ pod[p].todo \in SUBSET Entries /\ pod[p].prev \in SUBSET Entries
      /\ pod[p].old \in SUBSET Commits
  BY PodParts
<1>2. [pod[p] EXCEPT !.pc = place] =
      [pod[p] EXCEPT !.pc = place, !.todo = pod[p].todo, !.prev = pod[p].prev, !.old = pod[p].old]
  BY <1>1 DEF Pod
<1>3. pod' = [pod EXCEPT ![p] = [pod[p] EXCEPT !.pc = place]]
  BY DEF GoTo
<1> QED
  BY <1>1, <1>2, <1>3, MovedByExcept

LEMMA MovedByFails ==
  ASSUME pod \in [Pods -> Pod], NEW p \in Pods, Fails(p)
  PROVE  Moved(p, "failed", {}, {}, {})
<1>1. pod' = [pod EXCEPT ![p] = [pod[p] EXCEPT !.pc = "failed", !.todo = {}, !.prev = {}, !.old = {}]]
  BY DEF Fails
<1> QED
  BY <1>1, MovedByExcept DEF Places

LEMMA MovedByLoop ==
  ASSUME pod \in [Pods -> Pod], NEW p \in Pods, NEW place \in Places,
         NEW modules \in SUBSET Entries, Loop(p, place, modules)
  PROVE  Moved(p, place, modules, pod[p].prev, pod[p].old)
<1>1. pod[p] \in Pod /\ pod[p].prev \in SUBSET Entries /\ pod[p].old \in SUBSET Commits
  BY PodParts
<1>2. [pod[p] EXCEPT !.pc = place, !.todo = modules] =
      [pod[p] EXCEPT !.pc = place, !.todo = modules, !.prev = pod[p].prev, !.old = pod[p].old]
  BY <1>1 DEF Pod
<1>3. pod' = [pod EXCEPT ![p] = [pod[p] EXCEPT !.pc = place, !.todo = modules]]
  BY DEF Loop
<1> QED
  BY <1>1, <1>2, <1>3, MovedByExcept

\* The place of the loop over what is left, or what comes after it.
After(left, place, after) == IF left = {} THEN after ELSE place

LEMMA MovedByNextModule ==
  ASSUME pod \in [Pods -> Pod], NEW p \in Pods, NEW place \in Places, NEW after \in Places,
         NextModule(p, place, after)
  PROVE  Moved(p, After(pod[p].todo \ {Current(p)}, place, after), pod[p].todo \ {Current(p)},
               pod[p].prev, pod[p].old)
<1> DEFINE left == pod[p].todo \ {Current(p)}
<1>1. left \in SUBSET Entries
  BY PodParts
<1>2. After(left, place, after) \in Places
  BY DEF After
<1>3. Loop(p, After(left, place, after), left)
  BY DEF NextModule, After
<1> HIDE DEF left
<1>4. Moved(p, After(left, place, after), left, pod[p].prev, pod[p].old)
  BY <1>1, <1>2, <1>3, MovedByLoop
<1> QED
  BY <1>4 DEF left

LEMMA MovedByNextEntry ==
  ASSUME pod \in [Pods -> Pod], NEW p \in Pods, NEW e, NextEntry(p, e)
  PROVE  Moved(p, After(pod[p].todo \ {e}, "sweep", "purge"), pod[p].todo \ {e}, {}, pod[p].old)
<1> DEFINE left == pod[p].todo \ {e}
           place == After(left, "sweep", "purge")
<1>1. pod[p] \in Pod /\ left \in SUBSET Entries /\ pod[p].old \in SUBSET Commits
  BY PodParts
<1>2. place \in Places
  BY DEF After, Places
<1>3. pod' = [pod EXCEPT ![p] = [pod[p] EXCEPT !.pc = place, !.todo = left, !.prev = {}]]
  BY DEF NextEntry, After
<1> HIDE DEF left, place
<1>4. [pod[p] EXCEPT !.pc = place, !.todo = left, !.prev = {}] =
      [pod[p] EXCEPT !.pc = place, !.todo = left, !.prev = {}, !.old = pod[p].old]
  BY <1>1 DEF Pod
<1>5. Moved(p, place, left, {}, pod[p].old)
  BY <1>1, <1>2, <1>3, <1>4, MovedByExcept
<1> QED
  BY <1>5 DEF left, place

\* The other ways in which a pod goes on.
LEMMA MovedByMakeRelease ==
  ASSUME TypeOK, NEW p \in Pods, MakeRelease(p)
  PROVE  Moved(p, "publish", MODLIST(p), recorded[pod[p].addon], pod[p].old)
<1>1. pod \in [Pods -> Pod] /\ recorded \in [Addons -> SUBSET Modules]
  BY DEF TypeOK
<1>2. pod[p] \in Pod /\ MODLIST(p) \in SUBSET Entries /\ recorded[pod[p].addon] \in SUBSET Entries
      /\ pod[p].old \in SUBSET Commits
  BY <1>1, PodParts DEF Entries
<1> DEFINE modules == MODLIST(p)
           known == recorded[pod[p].addon]
<1>3. pod' = [pod EXCEPT ![p] = [pod[p] EXCEPT !.pc = "publish", !.todo = modules, !.prev = known]]
  BY DEF MakeRelease
<1> HIDE DEF modules, known
<1>4. [pod[p] EXCEPT !.pc = "publish", !.todo = modules, !.prev = known] =
      [pod[p] EXCEPT !.pc = "publish", !.todo = modules, !.prev = known, !.old = pod[p].old]
  BY <1>2 DEF Pod
<1>5. Moved(p, "publish", modules, known, pod[p].old)
  BY <1>1, <1>2, <1>3, <1>4, MovedByExcept DEF modules, known, Places
<1> QED
  BY <1>5 DEF modules, known

LEMMA MovedByRecord ==
  ASSUME pod \in [Pods -> Pod], NEW p \in Pods, Record(p)
  PROVE  Moved(p, "prune", pod[p].todo, {}, pod[p].old)
<1>1. pod[p] \in Pod /\ pod[p].todo \in SUBSET Entries /\ pod[p].old \in SUBSET Commits
  BY PodParts
<1>2. pod' = [pod EXCEPT ![p] = [pod[p] EXCEPT !.pc = "prune", !.prev = {}]]
  BY DEF Record
<1>3. [pod[p] EXCEPT !.pc = "prune", !.prev = {}] =
      [pod[p] EXCEPT !.pc = "prune", !.todo = pod[p].todo, !.prev = {}, !.old = pod[p].old]
  BY <1>1 DEF Pod
<1> QED
  BY <1>1, <1>2, <1>3, MovedByExcept DEF Places

LEMMA MovedByRemoval ==
  ASSUME pod \in [Pods -> Pod], NEW p \in Pods, NEW place \in Places, NEW gone \in SUBSET Commits,
         pod' = [pod EXCEPT ![p].pc = place, ![p].old = gone]
  PROVE  Moved(p, place, pod[p].todo, pod[p].prev, gone)
<1>1. pod[p] \in Pod /\ pod[p].todo \in SUBSET Entries /\ pod[p].prev \in SUBSET Entries
  BY PodParts
<1>2. pod' = [pod EXCEPT ![p] = [pod[p] EXCEPT !.pc = place, !.old = gone]]
  OBVIOUS
<1>3. [pod[p] EXCEPT !.pc = place, !.old = gone] =
      [pod[p] EXCEPT !.pc = place, !.todo = pod[p].todo, !.prev = pod[p].prev, !.old = gone]
  BY <1>1 DEF Pod
<1> QED
  BY <1>1, <1>2, <1>3, MovedByExcept

LEMMA MovedByFound ==
  ASSUME pod \in [Pods -> Pod], NEW p \in Pods, NEW e \in pod[p].todo,
         pod' = [pod EXCEPT ![p].pc = "unlinkOwn", ![p].prev = {e}]
  PROVE  Moved(p, "unlinkOwn", pod[p].todo, {e}, pod[p].old)
<1>1. pod[p] \in Pod /\ pod[p].todo \in SUBSET Entries /\ {e} \in SUBSET Entries
      /\ pod[p].old \in SUBSET Commits
  BY PodParts
<1>2. pod' = [pod EXCEPT ![p] = [pod[p] EXCEPT !.pc = "unlinkOwn", !.prev = {e}]]
  OBVIOUS
<1>3. [pod[p] EXCEPT !.pc = "unlinkOwn", !.prev = {e}] =
      [pod[p] EXCEPT !.pc = "unlinkOwn", !.todo = pod[p].todo, !.prev = {e}, !.old = pod[p].old]
  BY <1>1 DEF Pod
<1> QED
  BY <1>1, <1>2, <1>3, MovedByExcept DEF Places

-----------------------------------------------------------------------------
(* What each command does, in one place: the pod and the part of the volume. *)

\* Which release directories there are, and their order, after p has written to its own.
ToFront(p) == <<pod[p].commit>> \o RemoveFirst(releases[pod[p].addon], pod[p].commit)

LEMMA CheckEffect ==
  ASSUME TypeOK, NEW p \in Pods, CheckConflicts(p)
  PROVE  /\ pod[p].pc = "check" /\ UNCHANGED <<volume, started>>
         /\ \/ Foreign(p, link[Current(p)]) /\ Moved(p, "failed", {}, {}, {})
            \/ /\ ~Foreign(p, link[Current(p)])
               /\ Moved(p, After(pod[p].todo \ {Current(p)}, "check", "mkdir"),
                        pod[p].todo \ {Current(p)}, pod[p].prev, pod[p].old)
<1>1. pod \in [Pods -> Pod] /\ "check" \in Places /\ "mkdir" \in Places
  BY DEF TypeOK, Places
<1>2. CASE Foreign(p, link[Current(p)])
  BY <1>1, <1>2, MovedByFails DEF CheckConflicts
<1>3. CASE ~Foreign(p, link[Current(p)])
  BY <1>1, <1>3, MovedByNextModule DEF CheckConflicts
<1> QED
  BY <1>2, <1>3

LEMMA PublishEffect ==
  ASSUME TypeOK, NEW p \in Pods, Publish(p)
  PROVE  /\ pod[p].pc = "publish" /\ UNCHANGED <<link, tmp, content, recorded, started>>
         /\ \/ /\ content[REL(p)][Current(p)] # "none"
               /\ Moved(p, "ln", pod[p].todo, pod[p].prev, pod[p].old)
               /\ UNCHANGED <<partial, releases>>
            \/ /\ content[REL(p)][Current(p)] = "none"
               /\ Moved(p, "copying", pod[p].todo, pod[p].prev, pod[p].old)
               /\ partial' = [partial EXCEPT ![REL(p)][Current(p)] =
                                [by |-> p, content |-> "half"]]
               /\ releases' = [releases EXCEPT ![pod[p].addon] = ToFront(p)]
<1>1. pod \in [Pods -> Pod] /\ "ln" \in Places /\ "copying" \in Places
  BY DEF TypeOK, Places
<1>2. CASE content[REL(p)][Current(p)] # "none"
  BY <1>1, <1>2, MovedByGoTo DEF Publish
<1>3. CASE content[REL(p)][Current(p)] = "none"
  BY <1>1, <1>3, MovedByGoTo DEF Publish, Touched, ToFront
<1> QED
  BY <1>2, <1>3

LEMMA CopyEndsEffect ==
  ASSUME TypeOK, NEW p \in Pods, CopyEnds(p)
  PROVE  /\ pod[p].pc = "copying" /\ UNCHANGED <<link, tmp, content, releases, recorded, started>>
         /\ \/ /\ partial[REL(p)][Current(p)].by = p
               /\ Moved(p, "rename", pod[p].todo, pod[p].prev, pod[p].old)
               /\ partial' = [partial EXCEPT ![REL(p)][Current(p)].content = "whole"]
            \/ /\ partial[REL(p)][Current(p)].by # p
               /\ \/ Moved(p, "rename", pod[p].todo, pod[p].prev, pod[p].old)
                  \/ Moved(p, "failed", {}, {}, {})
               /\ UNCHANGED partial
<1>1. pod \in [Pods -> Pod] /\ "rename" \in Places
  BY DEF TypeOK, Places
<1>2. CASE partial[REL(p)][Current(p)].by = p
  BY <1>1, <1>2, MovedByGoTo DEF CopyEnds
<1>3. CASE partial[REL(p)][Current(p)].by # p
  BY <1>1, <1>3, MovedByGoTo, MovedByFails DEF CopyEnds
<1> QED
  BY <1>2, <1>3

LEMMA RenameEffect ==
  ASSUME TypeOK, NEW p \in Pods, Rename(p)
  PROVE  /\ pod[p].pc = "rename" /\ UNCHANGED <<link, tmp, recorded, started>>
         /\ \/ /\ partial[REL(p)][Current(p)] = NoCopy
               /\ Moved(p, "failed", {}, {}, {})
               /\ UNCHANGED <<content, partial, releases>>
            \/ /\ Moved(p, "ln", pod[p].todo, pod[p].prev, pod[p].old)
               /\ content' = [content EXCEPT ![REL(p)][Current(p)] =
                                IF content[REL(p)][Current(p)] = "none"
                                  THEN partial[REL(p)][Current(p)].content
                                  ELSE content[REL(p)][Current(p)]]
               /\ partial' = [partial EXCEPT ![REL(p)][Current(p)] = NoCopy]
               /\ releases' = [releases EXCEPT ![pod[p].addon] = ToFront(p)]
<1>1. pod \in [Pods -> Pod] /\ "ln" \in Places
  BY DEF TypeOK, Places
<1>2. CASE partial[REL(p)][Current(p)] = NoCopy
  BY <1>1, <1>2, MovedByFails DEF Rename
<1>3. CASE partial[REL(p)][Current(p)] # NoCopy
  BY <1>1, <1>3, MovedByGoTo DEF Rename, Touched, ToFront
<1> QED
  BY <1>2, <1>3

LEMMA SwitchEffect ==
  ASSUME TypeOK, NEW p \in Pods, Switch(p)
  PROVE  /\ pod[p].pc = "mv" /\ UNCHANGED <<content, partial, releases, recorded, started>>
         /\ \/ /\ tmp[Current(p)] = NoLink /\ Moved(p, "failed", {}, {}, {})
               /\ UNCHANGED <<link, tmp>>
            \/ /\ tmp[Current(p)] # NoLink
               /\ Moved(p, After(pod[p].todo \ {Current(p)}, "publish", "touch"),
                        pod[p].todo \ {Current(p)}, pod[p].prev, pod[p].old)
               /\ link' = [link EXCEPT ![Current(p)] = tmp[Current(p)]]
               /\ tmp' = [tmp EXCEPT ![Current(p)] = NoLink]
<1>1. pod \in [Pods -> Pod] /\ "publish" \in Places /\ "touch" \in Places
  BY DEF TypeOK, Places
<1>2. CASE tmp[Current(p)] = NoLink
  BY <1>1, <1>2, MovedByFails DEF Switch
<1>3. CASE tmp[Current(p)] # NoLink
  BY <1>1, <1>3, MovedByNextModule DEF Switch
<1> QED
  BY <1>2, <1>3

LEMMA TouchEffect ==
  ASSUME TypeOK, NEW p \in Pods, Touch(p)
  PROVE  /\ pod[p].pc = "touch" /\ UNCHANGED <<link, tmp, content, partial, recorded, started>>
         /\ Moved(p, After(pod[p].prev \ MODLIST(p), "stale", "record"), pod[p].prev \ MODLIST(p),
                  pod[p].prev, pod[p].old)
         /\ releases' = [releases EXCEPT ![pod[p].addon] = ToFront(p)]
<1> DEFINE left == pod[p].prev \ MODLIST(p)
<1>1. pod \in [Pods -> Pod] /\ left \in SUBSET Entries
  BY PodParts DEF TypeOK
<1>2. After(left, "stale", "record") \in Places
  BY DEF After, Places
<1>3. Loop(p, After(left, "stale", "record"), left)
  BY DEF Touch, After
<1>4. Moved(p, After(left, "stale", "record"), left, pod[p].prev, pod[p].old)
  <2> HIDE DEF left
  <2> QED BY <1>1, <1>2, <1>3, MovedByLoop
<1> QED
  BY <1>4 DEF Touch, Touched, ToFront

LEMMA ReadStaleEffect ==
  ASSUME TypeOK, NEW p \in Pods, ReadStale(p)
  PROVE  /\ pod[p].pc = "stale" /\ UNCHANGED <<volume, started>>
         /\ \/ /\ Own(p, link[Current(p)])
               /\ Moved(p, "unlinkStale", pod[p].todo, pod[p].prev, pod[p].old)
            \/ /\ ~Own(p, link[Current(p)])
               /\ Moved(p, After(pod[p].todo \ {Current(p)}, "stale", "record"),
                        pod[p].todo \ {Current(p)}, pod[p].prev, pod[p].old)
<1>1. pod \in [Pods -> Pod] /\ "stale" \in Places /\ "record" \in Places /\ "unlinkStale" \in Places
  BY DEF TypeOK, Places
<1>2. CASE Own(p, link[Current(p)])
  BY <1>1, <1>2, MovedByGoTo DEF ReadStale
<1>3. CASE ~Own(p, link[Current(p)])
  BY <1>1, <1>3, MovedByNextModule DEF ReadStale
<1> QED
  BY <1>2, <1>3

LEMMA UnlinkStaleEffect ==
  ASSUME TypeOK, NEW p \in Pods, UnlinkStale(p)
  PROVE  /\ pod[p].pc = "unlinkStale"
         /\ UNCHANGED <<tmp, content, partial, releases, recorded, started>>
         /\ Moved(p, After(pod[p].todo \ {Current(p)}, "stale", "record"),
                  pod[p].todo \ {Current(p)}, pod[p].prev, pod[p].old)
         /\ link' = [link EXCEPT ![Current(p)] = NoLink]
<1>1. pod \in [Pods -> Pod] /\ "stale" \in Places /\ "record" \in Places
  BY DEF TypeOK, Places
<1> QED
  BY <1>1, MovedByNextModule DEF UnlinkStale

\* The releases `gone` of p's addon, once their removal has begun.
Going(p, gone) ==
    [r \in Release |-> [m \in Modules |->
       IF r[1] = pod[p].addon /\ r[2] \in gone /\ content[r][m] # "none"
         THEN "going" ELSE content[r][m]]]

LEMMA PruneEffect ==
  ASSUME TypeOK, NEW p \in Pods, Prune(p)
  PROVE  /\ pod[p].pc = "prune" /\ UNCHANGED <<link, tmp, partial, recorded, started>>
         /\ \/ /\ Moved(p, "done", pod[p].todo, pod[p].prev, pod[p].old)
               /\ UNCHANGED <<content, releases>>
            \/ \E c \in Commits :
                 /\ Len(releases[pod[p].addon]) > 2 /\ c = releases[pod[p].addon][3]
                 /\ Moved(p, "rm", pod[p].todo, pod[p].prev, {c})
                 /\ content' = Going(p, {c})
                 /\ \/ UNCHANGED releases
                    \/ releases' = [releases EXCEPT ![pod[p].addon] =
                                      <<c>> \o RemoveFirst(releases[pod[p].addon], c)]
<1>1. pod \in [Pods -> Pod] /\ "rm" \in Places /\ "done" \in Places
      /\ pod[p].addon \in Addons /\ releases[pod[p].addon] \in Seq(Commits)
  BY PodParts DEF TypeOK, Places
<1>2. CASE Len(releases[pod[p].addon]) > 2
  <2> DEFINE c == releases[pod[p].addon][3]
  <2>1. c \in Commits /\ {c} \in SUBSET Commits
    BY <1>1, <1>2
  <2>2. RemovalBegins(p, {c})
    BY <1>2 DEF Prune
  <2>3. content' = Going(p, {c})
    BY <2>2 DEF RemovalBegins, Going
  <2>4. pod' = [pod EXCEPT ![p].pc = "rm", ![p].old = {c}]
    BY <2>2 DEF RemovalBegins
  <2>5. Moved(p, "rm", pod[p].todo, pod[p].prev, {c})
    <3> HIDE DEF c
    <3> QED BY <1>1, <2>1, <2>4, MovedByRemoval
  <2>6. \/ UNCHANGED releases
        \/ releases' = [releases EXCEPT ![pod[p].addon] =
                          <<c>> \o RemoveFirst(releases[pod[p].addon], c)]
    BY <1>2 DEF Prune
  <2>7. pod[p].pc = "prune" /\ UNCHANGED <<link, tmp, partial, recorded, started>>
    BY DEF Prune
  <2>8. Len(releases[pod[p].addon]) > 2 /\ c = releases[pod[p].addon][3]
    BY <1>2
  <2> HIDE DEF c
  <2> QED BY <2>1, <2>3, <2>5, <2>6, <2>7, <2>8
<1>3. CASE ~(Len(releases[pod[p].addon]) > 2)
  BY <1>1, <1>3, MovedByGoTo DEF Prune
<1> QED
  BY <1>2, <1>3

LEMMA MakeReleaseEffect ==
  ASSUME TypeOK, NEW p \in Pods, MakeRelease(p)
  PROVE  /\ pod[p].pc = "mkdir" /\ UNCHANGED <<link, tmp, content, partial, recorded, started>>
         /\ Moved(p, "publish", MODLIST(p), recorded[pod[p].addon], pod[p].old)
         /\ \/ UNCHANGED releases
            \/ releases' = [releases EXCEPT ![pod[p].addon] = ToFront(p)]
  BY MovedByMakeRelease DEF MakeRelease, Touched, ToFront

LEMMA LinkTemporaryEffect ==
  ASSUME TypeOK, NEW p \in Pods, LinkTemporary(p)
  PROVE  /\ pod[p].pc = "ln" /\ UNCHANGED <<link, content, partial, releases, recorded, started>>
         /\ Moved(p, "mv", pod[p].todo, pod[p].prev, pod[p].old)
         /\ tmp' = [tmp EXCEPT ![Current(p)] = REL(p)]
<1>1. pod \in [Pods -> Pod] /\ "mv" \in Places
  BY DEF TypeOK, Places
<1> QED
  BY <1>1, MovedByGoTo DEF LinkTemporary

LEMMA RecordEffect ==
  ASSUME TypeOK, NEW p \in Pods, Record(p)
  PROVE  /\ pod[p].pc = "record" /\ UNCHANGED <<link, tmp, content, partial, releases, started>>
         /\ Moved(p, "prune", pod[p].todo, {}, pod[p].old)
         /\ recorded' = [recorded EXCEPT ![pod[p].addon] = MODLIST(p)]
  BY MovedByRecord DEF TypeOK, Record

LEMMA FindEffect ==
  ASSUME TypeOK, NEW p \in Pods, FindLinks(p)
  PROVE  /\ pod[p].pc = "find" /\ UNCHANGED <<volume, started>>
         /\ \E links \in SUBSET Entries :
              /\ links = {e \in Entries : Target(e) # NoLink}
              /\ Moved(p, After(links, "sweep", "purge"), links, pod[p].prev, pod[p].old)
<1> DEFINE links == {e \in Entries : Target(e) # NoLink}
<1>1. pod \in [Pods -> Pod] /\ links \in SUBSET Entries
  BY DEF TypeOK
<1>2. After(links, "sweep", "purge") \in Places
  BY DEF After, Places
<1>3. Loop(p, After(links, "sweep", "purge"), links)
  BY DEF FindLinks, After
<1>4. Moved(p, After(links, "sweep", "purge"), links, pod[p].prev, pod[p].old)
  <2> HIDE DEF links
  <2> QED BY <1>1, <1>2, <1>3, MovedByLoop
<1> QED
  BY <1>1, <1>4 DEF FindLinks

LEMMA SweepEffect ==
  ASSUME TypeOK, NEW p \in Pods, SweepLinks(p)
  PROVE  /\ pod[p].pc = "sweep" /\ UNCHANGED <<volume, started>>
         /\ \E e \in pod[p].todo :
              \/ Own(p, Target(e)) /\ Moved(p, "unlinkOwn", pod[p].todo, {e}, pod[p].old)
              \/ /\ ~Own(p, Target(e))
                 /\ Moved(p, After(pod[p].todo \ {e}, "sweep", "purge"), pod[p].todo \ {e}, {},
                          pod[p].old)
<1>1. pod \in [Pods -> Pod]
  BY DEF TypeOK
<1>2. PICK e \in pod[p].todo : IF Own(p, Target(e))
                                 THEN pod' = [pod EXCEPT ![p].pc = "unlinkOwn", ![p].prev = {e}]
                                 ELSE NextEntry(p, e)
  BY DEF SweepLinks
<1>3. CASE Own(p, Target(e))
  <2>1. Moved(p, "unlinkOwn", pod[p].todo, {e}, pod[p].old)
    BY <1>1, <1>2, <1>3, MovedByFound
  <2> QED BY <1>3, <2>1 DEF SweepLinks
<1>4. CASE ~Own(p, Target(e))
  <2>1. NextEntry(p, e)
    BY <1>2, <1>4
  <2>2. Moved(p, After(pod[p].todo \ {e}, "sweep", "purge"), pod[p].todo \ {e}, {}, pod[p].old)
    BY <1>1, <2>1, MovedByNextEntry
  <2> QED BY <1>4, <2>2 DEF SweepLinks
<1> QED
  BY <1>3, <1>4

LEMMA UnlinkOwnEffect ==
  ASSUME TypeOK, NEW p \in Pods, UnlinkOwn(p)
  PROVE  /\ pod[p].pc = "unlinkOwn" /\ UNCHANGED <<content, partial, releases, recorded, started>>
         /\ \E e \in pod[p].prev :
              /\ Moved(p, After(pod[p].todo \ {e}, "sweep", "purge"), pod[p].todo \ {e}, {},
                       pod[p].old)
              /\ link' = [m \in Modules |-> IF m = e THEN NoLink ELSE link[m]]
              /\ tmp' = [m \in Modules |-> IF m = -e THEN NoLink ELSE tmp[m]]
<1>1. pod \in [Pods -> Pod]
  BY DEF TypeOK
<1>2. PICK e \in pod[p].prev :
        /\ link' = [m \in Modules |-> IF m = e THEN NoLink ELSE link[m]]
        /\ tmp' = [m \in Modules |-> IF m = -e THEN NoLink ELSE tmp[m]]
        /\ NextEntry(p, e)
  BY DEF UnlinkOwn
<1>3. Moved(p, After(pod[p].todo \ {e}, "sweep", "purge"), pod[p].todo \ {e}, {}, pod[p].old)
  BY <1>1, <1>2, MovedByNextEntry
<1> QED
  BY <1>2, <1>3 DEF UnlinkOwn

LEMMA PurgeEffect ==
  ASSUME TypeOK, NEW p \in Pods, Purge(p)
  PROVE  /\ pod[p].pc = "purge" /\ UNCHANGED <<link, tmp, partial, releases, started>>
         /\ \E gone \in SUBSET Commits :
              /\ gone = Range(releases[pod[p].addon])
              /\ Moved(p, "rm", pod[p].todo, pod[p].prev, gone)
              /\ content' = Going(p, gone)
         /\ recorded' \in {recorded, [recorded EXCEPT ![pod[p].addon] = {}]}
<1> DEFINE gone == Range(releases[pod[p].addon])
<1>1. pod \in [Pods -> Pod] /\ "rm" \in Places /\ pod[p].addon \in Addons
      /\ releases[pod[p].addon] \in Seq(Commits)
  BY PodParts DEF TypeOK, Places
<1>2. gone \in SUBSET Commits
  BY <1>1 DEF Range
<1>3. RemovalBegins(p, gone)
  BY DEF Purge
<1> HIDE DEF gone
<1>4. content' = Going(p, gone)
  BY <1>3 DEF RemovalBegins, Going
<1>5. pod' = [pod EXCEPT ![p].pc = "rm", ![p].old = gone]
  BY <1>3 DEF RemovalBegins
<1>6. Moved(p, "rm", pod[p].todo, pod[p].prev, gone)
  BY <1>1, <1>2, <1>5, MovedByRemoval
<1> QED
  BY <1>2, <1>4, <1>6 DEF Purge, gone

LEMMA PurgeEndsEffect ==
  ASSUME TypeOK, NEW p \in Pods, PurgeEnds(p)
  PROVE  /\ pod[p].pc = "rm" /\ pod[p].script = "cleanup" /\ pod[p].old = {}
         /\ UNCHANGED <<link, tmp, content, partial, releases, started>>
         /\ Moved(p, "done", pod[p].todo, pod[p].prev, pod[p].old)
         /\ recorded' = [recorded EXCEPT ![pod[p].addon] = {}]
<1>1. pod \in [Pods -> Pod] /\ "done" \in Places
  BY DEF TypeOK, Places
<1> QED
  BY <1>1, MovedByGoTo DEF PurgeEnds

LEMMA ReleaseGoneEffect ==
  ASSUME TypeOK, NEW p \in Pods, ReleaseGone(p)
  PROVE  /\ pod[p].pc = "rm" /\ UNCHANGED <<link, tmp, recorded, started>>
         /\ \E c \in pod[p].old :
              /\ Moved(p, IF pod[p].script = "sync" THEN "prune" ELSE "rm", pod[p].todo,
                       pod[p].prev, pod[p].old \ {c})
              /\ content' = [content EXCEPT ![<<pod[p].addon, c>>] = [m \in Modules |-> "none"]]
              /\ partial' = [partial EXCEPT ![<<pod[p].addon, c>>] = [m \in Modules |-> NoCopy]]
              /\ releases' = [releases EXCEPT ![pod[p].addon] =
                                RemoveFirst(releases[pod[p].addon], c)]
<1> DEFINE place == IF pod[p].script = "sync" THEN "prune" ELSE "rm"
<1>1. pod \in [Pods -> Pod] /\ place \in Places /\ pod[p].old \in SUBSET Commits
      /\ pod[p].addon \in Addons
  BY PodParts DEF TypeOK, Places
<1>2. PICK c \in pod[p].old :
        /\ content' = [content EXCEPT ![<<pod[p].addon, c>>] = [m \in Modules |-> "none"]]
        /\ partial' = [partial EXCEPT ![<<pod[p].addon, c>>] = [m \in Modules |-> NoCopy]]
        /\ releases' = [releases EXCEPT ![pod[p].addon] = RemoveFirst(@, c)]
        /\ pod' = [pod EXCEPT ![p].pc = place, ![p].old = @ \ {c}]
  BY DEF ReleaseGone
<1>3. pod' = [pod EXCEPT ![p].pc = place, ![p].old = pod[p].old \ {c}]
  <2> HIDE DEF place
  <2> QED BY <1>1, <1>2 DEF Pod
<1>4. Moved(p, place, pod[p].todo, pod[p].prev, pod[p].old \ {c})
  <2>1. pod[p].old \ {c} \in SUBSET Commits
    BY <1>1
  <2> HIDE DEF place
  <2> QED BY <1>1, <1>3, <2>1, MovedByRemoval
<1> QED
  BY <1>2, <1>4 DEF ReleaseGone

LEMMA KillEffect ==
  ASSUME TypeOK, NEW p \in Pods, Kill(p)
  PROVE  /\ Live(p) /\ (Kills = "anywhere" \/ (Kills = "outside rm" /\ pod[p].pc # "rm"))
         /\ Moved(p, "failed", {}, {}, {})
         /\ UNCHANGED <<volume, started>>
  BY MovedByFails DEF TypeOK, Kill

\* A new pod comes after all the others.
Fresh(q, script, addon, commit) ==
    /\ pod' \in [Pods -> Pod]
    /\ \A p \in Pods \ {q} : pod'[p] = pod[p]
    /\ pod'[q].script = script /\ pod'[q].addon = addon /\ pod'[q].commit = commit
    /\ pod'[q].pc = IF script = "sync" THEN "check" ELSE "find"
    /\ pod'[q].todo = IF script = "sync" THEN ModulesOf[<<addon, commit>>] ELSE {}
    /\ pod'[q].prev = {} /\ pod'[q].old = {} /\ pod'[q].beside = {p \in 1 .. started : Live(p)}

LEMMA StartEffect ==
  ASSUME TypeOK, NEW script \in {"sync", "cleanup"}, NEW addon \in Addons, NEW commit \in Commits,
         Start(script, addon, commit)
  PROVE  /\ started + 1 \in Pods /\ started' = started + 1 /\ UNCHANGED volume
         /\ Fresh(started + 1, script, addon, commit)
         /\ Overlap = "none" => \A q \in 1 .. started : ~Live(q)
         /\ Overlap = "addons" => \A q \in 1 .. started : Live(q) => pod[q].addon # addon
<1> DEFINE todo == IF script = "sync" THEN ModulesOf[addon, commit] ELSE {}
           place == IF script = "sync" THEN "check" ELSE "find"
           running == {q \in 1 .. started : Live(q)}
           new == [script |-> script, addon |-> addon, commit |-> commit,
                   pc |-> place, todo |-> todo, prev |-> {}, old |-> {}, beside |-> running]
<1>1. started + 1 \in Pods
  <2>1. started < MaxPods
    BY Zenon DEF Start
  <2> QED BY <2>1, MaxPodsAssumption DEF TypeOK, Pods
<1>2. ModulesOf[<<addon, commit>>] \in SUBSET Entries
  <2>1. <<addon, commit>> \in Addons \X Commits
    OBVIOUS
  <2> QED BY <2>1, ModulesOfAssumption DEF Entries
<1>3. todo \in SUBSET Entries
  <2>1. ModulesOf[addon, commit] \in SUBSET Entries
    BY <1>2
  <2>2. {} \in SUBSET Entries
    OBVIOUS
  <2> QED BY <2>1, <2>2, Zenon
<1>4. place \in {"check", "find"}
  OBVIOUS
<1>5. pod' = [pod EXCEPT ![started + 1] = new]
  BY DEF Start
<1>r. running \in SUBSET Pods
  BY MaxPodsAssumption DEF TypeOK, Pods
<1> HIDE DEF todo, place, running
<1>6. new \in Pod
  BY <1>3, <1>4, <1>r DEF Pod
<1>7. /\ new.script = script /\ new.addon = addon /\ new.commit = commit /\ new.pc = place
      /\ new.todo = todo /\ new.prev = {} /\ new.old = {} /\ new.beside = running
  OBVIOUS
<1> HIDE DEF new
<1>f. ModulesOf[addon, commit] = ModulesOf[<<addon, commit>>]
  OBVIOUS
<1>t. todo = IF script = "sync" THEN ModulesOf[<<addon, commit>>] ELSE {}
  BY <1>f, Zenon DEF todo
<1>8. pod' \in [Pods -> Pod] /\ pod'[started + 1] = new
      /\ \A p \in Pods \ {started + 1} : pod'[p] = pod[p]
  BY <1>1, <1>5, <1>6 DEF TypeOK
<1>9. Fresh(started + 1, script, addon, commit)
  BY <1>7, <1>8, <1>t DEF Fresh, place, running
<1>10. /\ Overlap = "none" => \A q \in 1 .. started : ~Live(q)
       /\ Overlap = "addons" => \A q \in 1 .. started : Live(q) => pod[q].addon # addon
  BY DEF Start
<1> QED
  BY <1>1, <1>9, <1>10 DEF Start

-----------------------------------------------------------------------------
(* Type correctness. *)

LEMMA ReleasesUpdate ==
  ASSUME TypeOK, NEW a \in Addons, NEW t \in Seq(Commits), IsInjective(t),
         releases' = [releases EXCEPT ![a] = t]
  PROVE  releases' \in [Addons -> Seq(Commits)] /\ \A b \in Addons : IsInjective(releases'[b])
<1>1. releases' \in [Addons -> Seq(Commits)]
  BY DEF TypeOK
<1>2. releases'[a] = t /\ \A b \in Addons \ {a} : releases'[b] = releases[b]
  BY DEF TypeOK
<1>3. \A b \in Addons : IsInjective(releases[b])
  BY DEF TypeOK
<1>4. \A b \in Addons : IsInjective(releases'[b])
  BY <1>2, <1>3
<1> QED
  BY <1>1, <1>4

LEMMA ToFrontUpdate ==
  ASSUME TypeOK, NEW p \in Pods, releases' = [releases EXCEPT ![pod[p].addon] = ToFront(p)]
  PROVE  releases' \in [Addons -> Seq(Commits)] /\ \A b \in Addons : IsInjective(releases'[b])
<1>1. pod[p].addon \in Addons /\ pod[p].commit \in Commits
  BY PodParts DEF TypeOK
<1>2. releases[pod[p].addon] \in Seq(Commits) /\ IsInjective(releases[pod[p].addon])
  BY <1>1 DEF TypeOK
<1>3. ToFront(p) \in Seq(Commits) /\ IsInjective(ToFront(p))
  BY <1>1, <1>2, ToFrontType DEF ToFront
<1> QED
  BY <1>1, <1>3, ReleasesUpdate

LEMMA TypeInit == Init => TypeOK
<1> SUFFICES ASSUME Init PROVE TypeOK
  OBVIOUS
<1>1. link \in [Modules -> Link] /\ tmp \in [Modules -> Link]
  BY DEF Init, Link
<1>2. content \in [Release -> [Modules -> Content]] /\ partial \in [Release -> [Modules -> Copy]]
  BY DEF Init, Content, Copy, NoCopy
<1>3. releases \in [Addons -> Seq(Commits)] /\ recorded \in [Addons -> SUBSET Modules]
  BY DEF Init
<1>4. \A a \in Addons : IsInjective(releases[a])
  BY DEF Init, IsInjective
<1>5. (CHOOSE a \in Addons : TRUE) \in Addons /\ (CHOOSE c \in Commits : TRUE) \in Commits
  BY SomeAddonAssumption
<1>6. pod \in [Pods -> Pod]
  BY <1>5 DEF Init, Pod
<1>7. started \in 0 .. MaxPods
  BY MaxPodsAssumption DEF Init
<1> QED
  BY <1>1, <1>2, <1>3, <1>4, <1>6, <1>7 DEF TypeOK

\* What a step of pod p does to the volume keeps its types.
VolumeTyped ==
    /\ link \in [Modules -> Link] /\ tmp \in [Modules -> Link]
    /\ content \in [Release -> [Modules -> Content]]
    /\ partial \in [Release -> [Modules -> Copy]]
    /\ releases \in [Addons -> Seq(Commits)] /\ recorded \in [Addons -> SUBSET Modules]
    /\ \A a \in Addons : IsInjective(releases[a])

LEMMA VolumeUnchanged ==
  ASSUME TypeOK, UNCHANGED volume
  PROVE  VolumeTyped'
  BY DEF TypeOK, VolumeTyped, volume

LEMMA TypePublishing ==
  ASSUME TypeOK, NEW p \in Pods,
         MakeRelease(p) \/ Publish(p) \/ CopyEnds(p) \/ Rename(p) \/ LinkTemporary(p) \/ Switch(p)
  PROVE  VolumeTyped' /\ pod' \in [Pods -> Pod] /\ started' = started
<1>0. /\ link \in [Modules -> Link] /\ tmp \in [Modules -> Link]
      /\ content \in [Release -> [Modules -> Content]]
      /\ partial \in [Release -> [Modules -> Copy]]
      /\ releases \in [Addons -> Seq(Commits)] /\ recorded \in [Addons -> SUBSET Modules]
      /\ \A a \in Addons : IsInjective(releases[a])
  BY DEF TypeOK
<1>p. pod[p].addon \in Addons /\ pod[p].commit \in Commits /\ REL(p) \in Release
  BY PodParts DEF TypeOK
<1>1. CASE MakeRelease(p)
  BY <1>0, <1>1, MakeReleaseEffect, ToFrontUpdate DEF VolumeTyped, Moved
<1>2. CASE Publish(p)
  <2>1. CASE UNCHANGED <<partial, releases>>
    BY <1>0, <1>2, <2>1, PublishEffect DEF VolumeTyped, Moved
  <2>2. CASE /\ partial' = [partial EXCEPT ![REL(p)][Current(p)] = [by |-> p, content |-> "half"]]
             /\ releases' = [releases EXCEPT ![pod[p].addon] = ToFront(p)]
    <3>1. [by |-> p, content |-> "half"] \in Copy
      BY DEF Copy, Content
    <3> DEFINE copy == [by |-> p, content |-> "half"]
    <3>2. partial' \in [Release -> [Modules -> Copy]]
      <4> HIDE DEF copy
      <4>1. copy \in Copy /\ partial' = [partial EXCEPT ![REL(p)][Current(p)] = copy]
        BY <3>1, <2>2 DEF copy
      <4> QED BY <1>0, <1>p, <4>1
    <3> QED BY <1>0, <1>2, <2>2, <3>2, PublishEffect, ToFrontUpdate DEF VolumeTyped, Moved
  <2> QED BY <1>2, <2>1, <2>2, PublishEffect
<1>3. CASE CopyEnds(p)
  <2>1. CASE UNCHANGED partial
    BY <1>0, <1>3, <2>1, CopyEndsEffect DEF VolumeTyped, Moved
  <2>2. CASE partial' = [partial EXCEPT ![REL(p)][Current(p)].content = "whole"]
    <3> DEFINE copy == [partial[REL(p)][Current(p)] EXCEPT !.content = "whole"]
    <3>1. partial' = [partial EXCEPT ![REL(p)][Current(p)] = copy]
      BY <2>2
    <3>2. ASSUME Current(p) \in Modules PROVE copy \in Copy
      <4>1. partial[REL(p)][Current(p)] \in Copy
        BY <1>0, <1>p, <3>2
      <4> QED BY <4>1 DEF Copy, Content
    <3>3. partial' \in [Release -> [Modules -> Copy]]
      <4> HIDE DEF copy
      <4> QED BY <1>0, <1>p, <3>1, <3>2
    <3> QED BY <1>0, <1>3, <3>3, CopyEndsEffect DEF VolumeTyped, Moved
  <2> QED BY <1>3, <2>1, <2>2, CopyEndsEffect
<1>4. CASE Rename(p)
  <2>1. CASE UNCHANGED <<content, partial, releases>>
    BY <1>0, <1>4, <2>1, RenameEffect DEF VolumeTyped, Moved
  <2>2. CASE ~UNCHANGED <<content, partial, releases>>
    <3> DEFINE whole == IF content[REL(p)][Current(p)] = "none"
                          THEN partial[REL(p)][Current(p)].content
                          ELSE content[REL(p)][Current(p)]
    <3>1. /\ content' = [content EXCEPT ![REL(p)][Current(p)] = whole]
          /\ partial' = [partial EXCEPT ![REL(p)][Current(p)] = NoCopy]
          /\ releases' = [releases EXCEPT ![pod[p].addon] = ToFront(p)]
          /\ UNCHANGED <<link, tmp, recorded, started>> /\ pod' \in [Pods -> Pod]
      BY <1>4, <2>2, RenameEffect DEF Moved
    <3>2. Current(p) \in Modules => whole \in Content
      <4>1. Current(p) \in Modules => partial[REL(p)][Current(p)] \in Copy
        BY <1>0, <1>p
      <4> QED BY <1>0, <1>p, <4>1 DEF Copy
    <3>3. content' \in [Release -> [Modules -> Content]]
      <4> HIDE DEF whole
      <4> QED BY <1>0, <1>p, <3>1, <3>2
    <3>4. NoCopy \in Copy
      BY DEF NoCopy, Copy, Content
    <3>5. partial' \in [Release -> [Modules -> Copy]]
      BY <1>0, <1>p, <3>1, <3>4
    <3> QED BY <1>0, <3>1, <3>3, <3>5, ToFrontUpdate DEF VolumeTyped
  <2> QED BY <2>1, <2>2
<1>5. CASE LinkTemporary(p)
  <2>1. tmp' \in [Modules -> Link]
    BY <1>0, <1>p, <1>5, LinkTemporaryEffect DEF Link
  <2> QED BY <1>0, <1>5, <2>1, LinkTemporaryEffect DEF VolumeTyped, Moved
<1>6. CASE Switch(p)
  <2>1. CASE UNCHANGED <<link, tmp>>
    BY <1>0, <1>6, <2>1, SwitchEffect DEF VolumeTyped, Moved
  <2>2. CASE /\ link' = [link EXCEPT ![Current(p)] = tmp[Current(p)]]
             /\ tmp' = [tmp EXCEPT ![Current(p)] = NoLink]
    <3>1. link' \in [Modules -> Link] /\ tmp' \in [Modules -> Link]
      BY <1>0, <2>2 DEF Link
    <3> QED BY <1>0, <1>6, <3>1, SwitchEffect DEF VolumeTyped, Moved
  <2> QED BY <1>6, <2>1, <2>2, SwitchEffect
<1> QED
  BY <1>1, <1>2, <1>3, <1>4, <1>5, <1>6

LEMMA TypeRest ==
  ASSUME TypeOK, NEW p \in Pods,
         \/ CheckConflicts(p) \/ Touch(p) \/ ReadStale(p) \/ UnlinkStale(p) \/ Record(p) \/ Prune(p)
         \/ FindLinks(p) \/ SweepLinks(p) \/ UnlinkOwn(p) \/ Purge(p) \/ PurgeEnds(p)
         \/ ReleaseGone(p) \/ Kill(p)
  PROVE  VolumeTyped' /\ pod' \in [Pods -> Pod] /\ started' = started
<1>0. /\ link \in [Modules -> Link] /\ tmp \in [Modules -> Link]
      /\ content \in [Release -> [Modules -> Content]]
      /\ partial \in [Release -> [Modules -> Copy]]
      /\ releases \in [Addons -> Seq(Commits)] /\ recorded \in [Addons -> SUBSET Modules]
      /\ \A a \in Addons : IsInjective(releases[a])
  BY DEF TypeOK
<1>p. /\ pod[p].addon \in Addons /\ pod[p].commit \in Commits /\ REL(p) \in Release
      /\ MODLIST(p) \in SUBSET Modules /\ pod[p].old \in SUBSET Commits
  BY PodParts DEF TypeOK
<1>g. ASSUME NEW gone PROVE Going(p, gone) \in [Release -> [Modules -> Content]]
  BY <1>0 DEF Going, Content
<1>r. ASSUME NEW c \in Commits
      PROVE  /\ RemoveFirst(releases[pod[p].addon], c) \in Seq(Commits)
             /\ IsInjective(RemoveFirst(releases[pod[p].addon], c))
             /\ <<c>> \o RemoveFirst(releases[pod[p].addon], c) \in Seq(Commits)
             /\ IsInjective(<<c>> \o RemoveFirst(releases[pod[p].addon], c))
  BY <1>0, <1>p, RemoveFirstType, ToFrontType
<1>1. CASE CheckConflicts(p)
  BY <1>1, VolumeUnchanged, CheckEffect DEF Moved
<1>2. CASE Touch(p)
  BY <1>0, <1>2, TouchEffect, ToFrontUpdate DEF VolumeTyped, Moved
<1>3. CASE ReadStale(p)
  BY <1>3, VolumeUnchanged, ReadStaleEffect DEF Moved
<1>4. CASE UnlinkStale(p)
  <2>1. link' \in [Modules -> Link]
    BY <1>0, <1>4, UnlinkStaleEffect DEF Link
  <2> QED BY <1>0, <1>4, <2>1, UnlinkStaleEffect DEF VolumeTyped, Moved
<1>5. CASE Record(p)
  <2>1. recorded' \in [Addons -> SUBSET Modules]
    BY <1>0, <1>p, <1>5, RecordEffect
  <2> QED BY <1>0, <1>5, <2>1, RecordEffect DEF VolumeTyped, Moved
<1>6. CASE Prune(p)
  <2>1. CASE UNCHANGED <<content, releases>>
    BY <1>0, <1>6, <2>1, PruneEffect DEF VolumeTyped, Moved
  <2>2. CASE \E c \in Commits :
               /\ Moved(p, "rm", pod[p].todo, pod[p].prev, {c})
               /\ content' = Going(p, {c})
               /\ \/ UNCHANGED releases
                  \/ releases' = [releases EXCEPT ![pod[p].addon] =
                                    <<c>> \o RemoveFirst(releases[pod[p].addon], c)]
    <3>1. PICK c \in Commits :
               /\ Moved(p, "rm", pod[p].todo, pod[p].prev, {c})
               /\ content' = Going(p, {c})
               /\ \/ UNCHANGED releases
                  \/ releases' = [releases EXCEPT ![pod[p].addon] =
                                    <<c>> \o RemoveFirst(releases[pod[p].addon], c)]
      BY <2>2
    <3>2. releases' \in [Addons -> Seq(Commits)] /\ \A b \in Addons : IsInjective(releases'[b])
      BY <1>0, <1>p, <1>r, <3>1, ReleasesUpdate
    <3> QED BY <1>0, <1>6, <1>g, <3>1, <3>2, PruneEffect DEF VolumeTyped, Moved
  <2> QED BY <1>6, <2>1, <2>2, PruneEffect
<1>7. CASE FindLinks(p)
  BY <1>7, VolumeUnchanged, FindEffect DEF Moved
<1>8. CASE SweepLinks(p)
  BY <1>8, VolumeUnchanged, SweepEffect DEF Moved
<1>9. CASE UnlinkOwn(p)
  <2>1. link' \in [Modules -> Link] /\ tmp' \in [Modules -> Link]
    BY <1>0, <1>9, UnlinkOwnEffect DEF Link
  <2> QED BY <1>0, <1>9, <2>1, UnlinkOwnEffect DEF VolumeTyped, Moved
<1>10. CASE Purge(p)
  <2>1. recorded' \in [Addons -> SUBSET Modules]
    BY <1>0, <1>10, PurgeEffect
  <2>2. content' \in [Release -> [Modules -> Content]]
    BY <1>g, <1>10, PurgeEffect
  <2> QED BY <1>0, <1>10, <2>1, <2>2, PurgeEffect DEF VolumeTyped, Moved
<1>11. CASE PurgeEnds(p)
  <2>1. recorded' \in [Addons -> SUBSET Modules]
    BY <1>0, <1>11, PurgeEndsEffect
  <2> QED BY <1>0, <1>11, <2>1, PurgeEndsEffect DEF VolumeTyped, Moved
<1>12. CASE ReleaseGone(p)
  <2>1. PICK c \in pod[p].old :
              /\ Moved(p, IF pod[p].script = "sync" THEN "prune" ELSE "rm", pod[p].todo,
                       pod[p].prev, pod[p].old \ {c})
              /\ content' = [content EXCEPT ![<<pod[p].addon, c>>] = [m \in Modules |-> "none"]]
              /\ partial' = [partial EXCEPT ![<<pod[p].addon, c>>] = [m \in Modules |-> NoCopy]]
              /\ releases' = [releases EXCEPT ![pod[p].addon] =
                                RemoveFirst(releases[pod[p].addon], c)]
    BY <1>12, ReleaseGoneEffect
  <2>2. releases' \in [Addons -> Seq(Commits)] /\ \A b \in Addons : IsInjective(releases'[b])
    BY <1>0, <1>p, <1>r, <2>1, ReleasesUpdate
  <2>3. NoCopy \in Copy /\ "none" \in Content
    BY DEF NoCopy, Copy, Content
  <2>4. content' \in [Release -> [Modules -> Content]] /\ partial' \in [Release -> [Modules -> Copy]]
    BY <1>0, <2>1, <2>3
  <2>5. pod' \in [Pods -> Pod]
    BY <2>1 DEF Moved
  <2> QED BY <1>0, <1>12, <2>2, <2>4, <2>5, ReleaseGoneEffect DEF VolumeTyped
<1>13. CASE Kill(p)
  BY <1>13, VolumeUnchanged, KillEffect DEF Moved
<1> QED
  BY <1>1, <1>2, <1>3, <1>4, <1>5, <1>6, <1>7, <1>8, <1>9, <1>10, <1>11, <1>12, <1>13

LEMMA TypeStep == TypeOK /\ [Next]_vars => TypeOK'
<1> SUFFICES ASSUME TypeOK, [Next]_vars PROVE TypeOK'
  OBVIOUS
<1>t. ASSUME VolumeTyped', pod' \in [Pods -> Pod], started' \in 0 .. MaxPods
      PROVE  TypeOK'
  BY <1>t DEF VolumeTyped, TypeOK
<1>1. ASSUME NEW script \in {"sync", "cleanup"}, NEW a \in Addons, NEW c \in Commits,
             Start(script, a, c)
      PROVE  TypeOK'
  <2>1. started' \in 0 .. MaxPods
    BY <1>1, StartEffect DEF TypeOK, Pods
  <2>2. VolumeTyped' /\ pod' \in [Pods -> Pod]
    BY <1>1, StartEffect, VolumeUnchanged DEF Fresh
  <2> QED BY <1>t, <2>1, <2>2
<1>2. ASSUME NEW p \in Pods, Step(p) \/ Kill(p) PROVE TypeOK'
  <2>1. VolumeTyped' /\ pod' \in [Pods -> Pod] /\ started' = started
    BY <1>2, TypePublishing, TypeRest DEF Step, Sync, Cleanup
  <2> QED BY <1>t, <2>1 DEF TypeOK
<1>3. CASE UNCHANGED vars
  BY <1>3 DEF vars, volume, TypeOK
<1>4. (CHOOSE c \in Commits : TRUE) \in Commits
  BY SomeAddonAssumption
<1> QED
  BY <1>1, <1>2, <1>3, <1>4 DEF Next

\* Type correctness, however pods overlap and wherever they are killed: links point at
\* releases, and no release is listed twice by `ls -1t`.
THEOREM TypeCorrect == Safety => []TypeOK
  BY TypeInit, TypeStep, PTL DEF Safety

-----------------------------------------------------------------------------
(* Pods that run one at a time. *)

LEMMA MovedKeeps ==
  ASSUME TypeOK, NEW p \in Pods, NEW place, NEW todo, NEW prev, NEW old,
         Moved(p, place, todo, prev, old)
  PROVE  /\ MODLIST(p)' = MODLIST(p) /\ REL(p)' = REL(p)
         /\ todo = pod[p].todo => Current(p)' = Current(p)
<1>1. pod'[p].addon = pod[p].addon /\ pod'[p].commit = pod[p].commit /\ pod'[p].todo = todo
  BY DEF Moved
<1>2. MODLIST(p)' = MODLIST(p)
  BY <1>1, Zenon DEF MODLIST
<1>3. REL(p)' = REL(p)
  BY <1>1, Zenon DEF REL
<1>4. todo = pod[p].todo => Current(p)' = Current(p)
  BY <1>1, Zenon DEF Current
<1> QED
  BY <1>2, <1>3, <1>4

\* While p runs nobody else does.
LEMMA OnlyOne ==
  ASSUME TypeOK, Solo, NEW p \in Pods, Live(p), NEW place, NEW todo, NEW prev, NEW old,
         Moved(p, place, todo, prev, old), started' = started
  PROVE  /\ Solo' /\ p \in 1 .. started /\ p = started
         /\ \A q \in 1 .. started' : Live(q)' => q = p
         /\ \A q \in 1 .. started : Live(q) => q = p
         /\ Live(p)' <=> place \notin {"done", "failed"}
<1>1. p \in 1 .. started /\ p = started /\ started \in Nat /\ 1 .. started \subseteq Pods
  BY MaxPodsAssumption DEF TypeOK, Pods, Live, Solo
<1>2. \A q \in 1 .. started : Live(q) => q = p
  BY <1>1 DEF Solo
<1>3. \A q \in 1 .. started' : Live(q)' => q = p
  <2> SUFFICES ASSUME NEW q \in 1 .. started, Live(q)', q # p PROVE FALSE
    OBVIOUS
  <2>1. pod'[q] = pod[q]
    BY <1>1 DEF Moved
  <2>2. Live(q)
    BY <2>1 DEF Live
  <2> QED BY <1>2, <2>2
<1>4. Live(p)' <=> place \notin {"done", "failed"}
  BY <1>1 DEF Live, Moved
<1>5. Solo'
  BY <1>1, <1>3 DEF Solo
<1> QED
  BY <1>1, <1>2, <1>3, <1>4, <1>5

\* A pod starts when all others have ended.
LEMMA OnlyFresh ==
  ASSUME TypeOK, Overlap = "none", NEW script \in {"sync", "cleanup"}, NEW addon \in Addons,
         NEW commit \in Commits, Start(script, addon, commit)
  PROVE  \E q \in Pods :
           /\ q = started + 1 /\ Fresh(q, script, addon, commit)
           /\ Solo' /\ Live(q)'
           /\ \A r \in 1 .. started' : Live(r)' => r = q
           /\ \A r \in 1 .. started : pod'[r] = pod[r] /\ ~Live(r)
           /\ 1 .. started' = (1 .. started) \cup {q}
<1>1. PICK q \in Pods :
        /\ q = started + 1 /\ started' = q /\ Fresh(q, script, addon, commit)
        /\ \A r \in 1 .. started : ~Live(r)
  BY StartEffect
<1>2. started \in Nat /\ 1 .. started \subseteq Pods /\ q \notin 1 .. started
      /\ 1 .. started' = (1 .. started) \cup {q}
  BY <1>1, MaxPodsAssumption DEF TypeOK, Pods
<1>3. \A r \in 1 .. started : pod'[r] = pod[r]
  BY <1>1, <1>2 DEF Fresh
<1>4. \A r \in 1 .. started' : Live(r)' => r = q
  <2> SUFFICES ASSUME NEW r \in 1 .. started, Live(r)' PROVE FALSE
    BY <1>2
  <2>1. Live(r)
    BY <1>2, <1>3 DEF Live
  <2> QED BY <1>1, <2>1
<1>5. Live(q)'
  BY <1>1, <1>2 DEF Live, Fresh
<1>6. Solo'
  BY <1>1, <1>4 DEF Solo
<1> QED
  BY <1>1, <1>2, <1>3, <1>4, <1>5, <1>6

\* What p's place says, after a step of p.
PlacedAfter(p, place, todo, prev) ==
    /\ place \in SyncPlaces => pod[p].script = "sync"
    /\ place \in CleanupPlaces => pod[p].script = "cleanup"
    /\ place \in {"check"} \cup PublishLoop => todo # {} /\ todo \subseteq MODLIST(p)
    /\ place \in StaleLoop => todo # {} /\ todo \subseteq Modules \ MODLIST(p)
    /\ pod[p].script = "sync" => prev \subseteq Modules

LEMMA PlacedByMoved ==
  ASSUME TypeOK, PlacesInv, NEW p \in Pods, Live(p), started' = started,
         NEW place, NEW todo, NEW prev, NEW old, Moved(p, place, todo, prev, old),
         place \notin {"done", "failed"} => PlacedAfter(p, place, todo, prev)
  PROVE  (Solo => Solo') /\ PlacesInv'
<1>1. /\ Solo => Solo'
      /\ started \in Nat /\ 1 .. started \subseteq Pods
  BY OnlyOne, MaxPodsAssumption DEF TypeOK, Pods
<1>2. ASSUME place \notin {"done", "failed"} PROVE Placed(p)'
  <2>1. MODLIST(p)' = MODLIST(p)
    BY MovedKeeps
  <2>2. PlacedAfter(p, place, todo, prev)
    BY <1>2
  <2> QED BY <2>1, <2>2, Zenon DEF PlacedAfter, Placed, Moved
<1>3. ASSUME NEW q \in 1 .. started, q # p, Live(q)' PROVE Placed(q)'
  <2>1. pod'[q] = pod[q]
    BY <1>1, <1>3 DEF Moved
  <2>2. Live(q) /\ Placed(q)
    BY <1>3, <2>1 DEF Live, PlacesInv
  <2>3. MODLIST(q)' = MODLIST(q)
    BY <2>1, Zenon DEF MODLIST
  <2> QED BY <2>1, <2>2, <2>3, Zenon DEF Placed
<1>4. Live(p)' => place \notin {"done", "failed"}
  BY DEF Live, Moved
<1> QED
  BY <1>1, <1>2, <1>3, <1>4 DEF PlacesInv

LEMMA PlacesInit == Init => Solo /\ PlacesInv
  BY DEF Init, Solo, PlacesInv, Live

LEMMA PlacesSync ==
  ASSUME TypeOK, PlacesInv, NEW p \in Pods, Live(p), Sync(p)
  PROVE  (Solo => Solo') /\ PlacesInv'
<1>0. started \in Nat /\ p \in 1 .. started /\ Placed(p) /\ MODLIST(p) \in SUBSET Modules
      /\ MODLIST(p) # {} /\ pod[p].addon \in Addons /\ recorded \in [Addons -> SUBSET Modules]
  BY PodParts DEF TypeOK, Live, Pods, PlacesInv
<1>1. CASE CheckConflicts(p)
  <2> DEFINE left == pod[p].todo \ {Current(p)}
  <2>1. PlacedAfter(p, After(left, "check", "mkdir"), left, pod[p].prev)
    BY <1>0, <1>1 DEF CheckConflicts, PlacedAfter, Placed, After, SyncPlaces, CleanupPlaces,
                      PublishLoop, StaleLoop
  <2> HIDE DEF left
  <2> QED BY <1>1, <2>1, CheckEffect, PlacedByMoved DEF left
<1>2. CASE MakeRelease(p)
  <2>1. PlacedAfter(p, "publish", MODLIST(p), recorded[pod[p].addon])
    BY <1>0, <1>2 DEF MakeRelease, PlacedAfter, Placed, SyncPlaces, CleanupPlaces,
                      PublishLoop, StaleLoop
  <2> QED BY <1>2, <2>1, MakeReleaseEffect, PlacedByMoved
<1>3. CASE Publish(p)
  <2>1. \A place \in {"ln", "copying"} : PlacedAfter(p, place, pod[p].todo, pod[p].prev)
    BY <1>0, <1>3 DEF Publish, PlacedAfter, Placed, SyncPlaces, CleanupPlaces,
                      PublishLoop, StaleLoop
  <2> QED BY <1>3, <2>1, PublishEffect, PlacedByMoved
<1>4. CASE CopyEnds(p)
  <2>1. PlacedAfter(p, "rename", pod[p].todo, pod[p].prev)
    BY <1>0, <1>4 DEF CopyEnds, PlacedAfter, Placed, SyncPlaces, CleanupPlaces,
                      PublishLoop, StaleLoop
  <2> QED BY <1>4, <2>1, CopyEndsEffect, PlacedByMoved
<1>5. CASE Rename(p)
  <2>1. PlacedAfter(p, "ln", pod[p].todo, pod[p].prev)
    BY <1>0, <1>5 DEF Rename, PlacedAfter, Placed, SyncPlaces, CleanupPlaces,
                      PublishLoop, StaleLoop
  <2> QED BY <1>5, <2>1, RenameEffect, PlacedByMoved
<1>6. CASE LinkTemporary(p)
  <2>1. PlacedAfter(p, "mv", pod[p].todo, pod[p].prev)
    BY <1>0, <1>6 DEF LinkTemporary, PlacedAfter, Placed, SyncPlaces, CleanupPlaces,
                      PublishLoop, StaleLoop
  <2> QED BY <1>6, <2>1, LinkTemporaryEffect, PlacedByMoved
<1>7. CASE Switch(p)
  <2> DEFINE left == pod[p].todo \ {Current(p)}
  <2>1. PlacedAfter(p, After(left, "publish", "touch"), left, pod[p].prev)
    BY <1>0, <1>7 DEF Switch, PlacedAfter, Placed, After, SyncPlaces, CleanupPlaces,
                      PublishLoop, StaleLoop
  <2> HIDE DEF left
  <2> QED BY <1>7, <2>1, SwitchEffect, PlacedByMoved DEF left
<1>8. CASE Touch(p)
  <2> DEFINE left == pod[p].prev \ MODLIST(p)
  <2>1. PlacedAfter(p, After(left, "stale", "record"), left, pod[p].prev)
    BY <1>0, <1>8 DEF Touch, PlacedAfter, Placed, After, SyncPlaces, CleanupPlaces,
                      PublishLoop, StaleLoop
  <2> HIDE DEF left
  <2> QED BY <1>8, <2>1, TouchEffect, PlacedByMoved DEF left
<1>9. CASE ReadStale(p)
  <2> DEFINE left == pod[p].todo \ {Current(p)}
  <2>1. PlacedAfter(p, After(left, "stale", "record"), left, pod[p].prev)
        /\ PlacedAfter(p, "unlinkStale", pod[p].todo, pod[p].prev)
    BY <1>0, <1>9 DEF ReadStale, PlacedAfter, Placed, After, SyncPlaces, CleanupPlaces,
                      PublishLoop, StaleLoop
  <2> HIDE DEF left
  <2> QED BY <1>9, <2>1, ReadStaleEffect, PlacedByMoved DEF left
<1>10. CASE UnlinkStale(p)
  <2> DEFINE left == pod[p].todo \ {Current(p)}
  <2>1. PlacedAfter(p, After(left, "stale", "record"), left, pod[p].prev)
    BY <1>0, <1>10 DEF UnlinkStale, PlacedAfter, Placed, After, SyncPlaces, CleanupPlaces,
                      PublishLoop, StaleLoop
  <2> HIDE DEF left
  <2> QED BY <1>10, <2>1, UnlinkStaleEffect, PlacedByMoved DEF left
<1>11. CASE Record(p)
  <2>1. PlacedAfter(p, "prune", pod[p].todo, {})
    BY <1>0, <1>11 DEF Record, PlacedAfter, Placed, SyncPlaces, CleanupPlaces,
                      PublishLoop, StaleLoop
  <2> QED BY <1>11, <2>1, RecordEffect, PlacedByMoved
<1>12. CASE Prune(p)
  <2>1. PlacedAfter(p, "rm", pod[p].todo, pod[p].prev)
    BY <1>0, <1>12 DEF Prune, PlacedAfter, Placed, SyncPlaces, CleanupPlaces,
                      PublishLoop, StaleLoop
  <2> QED BY <1>12, <2>1, PruneEffect, PlacedByMoved
<1> QED
  BY <1>1, <1>2, <1>3, <1>4, <1>5, <1>6, <1>7, <1>8, <1>9, <1>10, <1>11, <1>12 DEF Sync

LEMMA PlacesCleanup ==
  ASSUME TypeOK, PlacesInv, NEW p \in Pods, Live(p),
         Cleanup(p) \/ ReleaseGone(p) \/ Kill(p)
  PROVE  (Solo => Solo') /\ PlacesInv'
<1>0. started \in Nat /\ p \in 1 .. started /\ Placed(p)
  BY DEF TypeOK, Live, Pods, PlacesInv
<1>1. CASE FindLinks(p)
  <2>1. ASSUME NEW links
        PROVE  PlacedAfter(p, After(links, "sweep", "purge"), links, pod[p].prev)
    BY <1>0, <1>1 DEF FindLinks, PlacedAfter, Placed, After, SyncPlaces, CleanupPlaces,
                      PublishLoop, StaleLoop
  <2> QED BY <1>1, <2>1, FindEffect, PlacedByMoved
<1>2. CASE SweepLinks(p)
  <2>1. ASSUME NEW e
        PROVE  /\ PlacedAfter(p, After(pod[p].todo \ {e}, "sweep", "purge"), pod[p].todo \ {e}, {})
               /\ PlacedAfter(p, "unlinkOwn", pod[p].todo, {e})
    BY <1>0, <1>2 DEF SweepLinks, PlacedAfter, Placed, After, SyncPlaces, CleanupPlaces,
                      PublishLoop, StaleLoop
  <2> QED BY <1>2, <2>1, SweepEffect, PlacedByMoved
<1>3. CASE UnlinkOwn(p)
  <2>1. ASSUME NEW e
        PROVE  PlacedAfter(p, After(pod[p].todo \ {e}, "sweep", "purge"), pod[p].todo \ {e}, {})
    BY <1>0, <1>3 DEF UnlinkOwn, PlacedAfter, Placed, After, SyncPlaces, CleanupPlaces,
                      PublishLoop, StaleLoop
  <2> QED BY <1>3, <2>1, UnlinkOwnEffect, PlacedByMoved
<1>4. CASE Purge(p)
  <2>1. PlacedAfter(p, "rm", pod[p].todo, pod[p].prev)
    BY <1>0, <1>4 DEF Purge, PlacedAfter, Placed, SyncPlaces, CleanupPlaces,
                      PublishLoop, StaleLoop
  <2> QED BY <1>4, <2>1, PurgeEffect, PlacedByMoved
<1>5. CASE PurgeEnds(p)
  BY <1>5, PurgeEndsEffect, PlacedByMoved
<1>6. CASE ReleaseGone(p)
  <2> DEFINE place == IF pod[p].script = "sync" THEN "prune" ELSE "rm"
  <2>1. PlacedAfter(p, place, pod[p].todo, pod[p].prev)
    BY <1>0, <1>6 DEF ReleaseGone, PlacedAfter, Placed, SyncPlaces, CleanupPlaces,
                      PublishLoop, StaleLoop
  <2> HIDE DEF place
  <2> QED BY <1>6, <2>1, ReleaseGoneEffect, PlacedByMoved DEF place
<1>7. CASE Kill(p)
  BY <1>7, KillEffect, PlacedByMoved
<1> QED
  BY <1>1, <1>2, <1>3, <1>4, <1>5, <1>6, <1>7 DEF Cleanup

LEMMA PlacesStart ==
  ASSUME TypeOK, PlacesInv, NEW script \in {"sync", "cleanup"}, NEW addon \in Addons,
         NEW commit \in Commits, Start(script, addon, commit)
  PROVE  (Overlap = "none" => Solo') /\ PlacesInv'
<1>1. Overlap = "none" => Solo'
  BY OnlyFresh
<1>2. PICK q \in Pods : q = started + 1 /\ started' = q /\ Fresh(q, script, addon, commit)
  BY StartEffect
<1>3. MODLIST(q)' = ModulesOf[<<addon, commit>>]
  <2>1. pod'[q].addon = addon /\ pod'[q].commit = commit
    BY <1>2 DEF Fresh
  <2> QED BY <2>1 DEF MODLIST
<1>4. ModulesOf[<<addon, commit>>] # {}
  BY ModulesOfAssumption
<1>5. Placed(q)'
  BY <1>2, <1>3, <1>4 DEF Fresh, Placed, SyncPlaces, CleanupPlaces, PublishLoop, StaleLoop
<1>6. ASSUME NEW r \in 1 .. started, Live(r)' PROVE Placed(r)'
  <2>1. r \in Pods /\ r # q /\ r <= started
    BY <1>2, MaxPodsAssumption DEF TypeOK, Pods
  <2>2. pod'[r] = pod[r]
    BY <1>2, <2>1 DEF Fresh
  <2>3. Live(r) /\ Placed(r)
    BY <1>6, <2>1, <2>2 DEF Live, PlacesInv
  <2>4. MODLIST(r)' = MODLIST(r)
    BY <2>2, Zenon DEF MODLIST
  <2> QED BY <2>2, <2>3, <2>4, Zenon DEF Placed
<1>7. \A r \in 1 .. started' : r \in 1 .. started \/ r = q
  BY <1>2 DEF TypeOK
<1> QED
  BY <1>1, <1>5, <1>6, <1>7 DEF PlacesInv

\* Each pod is at a place of its own script.
LEMMA PlacesStep ==
  ASSUME TypeOK, PlacesInv, [Next]_vars
  PROVE  PlacesInv' /\ (Overlap = "none" /\ Solo => Solo')
<1>1. CASE UNCHANGED vars
  BY <1>1 DEF vars, volume, Solo, PlacesInv, Placed, Live, MODLIST
<1>2. (CHOOSE c \in Commits : TRUE) \in Commits
  BY SomeAddonAssumption
<1>3. ASSUME NEW p \in Pods, Step(p) \/ Kill(p) PROVE (Solo => Solo') /\ PlacesInv'
  BY <1>3, PlacesSync, PlacesCleanup DEF Step, Kill
<1> QED
  BY <1>1, <1>2, <1>3, PlacesStart DEF Next

\* Where a loop over modules is.
LEMMA CurrentModule ==
  ASSUME TypeOK, NEW p \in Pods, Placed(p)
  PROVE  /\ pod[p].pc \in {"check"} \cup PublishLoop =>
              Current(p) \in pod[p].todo /\ Current(p) \in MODLIST(p) /\ Current(p) \in Modules
         /\ pod[p].pc \in StaleLoop =>
              Current(p) \in pod[p].todo /\ Current(p) \in Modules \ MODLIST(p)
<1>1. MODLIST(p) \subseteq Modules
  BY PodParts DEF TypeOK
<1>2. pod[p].pc \in {"check"} \cup PublishLoop => pod[p].todo # {} /\ pod[p].todo \subseteq MODLIST(p)
  BY DEF Placed
<1>3. pod[p].pc \in StaleLoop => pod[p].todo # {} /\ pod[p].todo \subseteq Modules \ MODLIST(p)
  BY DEF Placed
<1>4. ASSUME pod[p].todo # {}, pod[p].todo \subseteq Modules PROVE Current(p) \in pod[p].todo
  BY <1>4, CurrentIsIn
<1> QED
  BY <1>1, <1>2, <1>3, <1>4

-----------------------------------------------------------------------------
(* No half-copied module. *)

NoneHalf == \A r \in Release, m \in Modules : content[r][m] # "half"

LEMMA CopyByMoved ==
  ASSUME TypeOK, Solo, NEW p \in Pods, Live(p), started' = started,
         NEW place, NEW todo, NEW prev, NEW old, Moved(p, place, todo, prev, old),
         NoneHalf',
         place \in {"copying", "rename"} => todo = pod[p].todo,
         place = "copying" => partial'[REL(p)][Current(p)].by = p,
         place = "rename" => partial'[REL(p)][Current(p)].content = "whole"
  PROVE  CopyInv'
<1>1. \A q \in 1 .. started' : Live(q)' => q = p
  BY OnlyOne
<1>2. REL(p)' = REL(p) /\ (todo = pod[p].todo => Current(p)' = Current(p))
  BY MovedKeeps
<1>3. pod'[p].pc = place
  BY DEF Moved
<1>4. Copied(p)'
  BY <1>2, <1>3 DEF Copied
<1> QED
  BY <1>1, <1>4 DEF CopyInv, NoneHalf

LEMMA CopyStep ==
  ASSUME TypeOK, Solo, PlacesInv, CopyInv, Overlap = "none", NEW p \in Pods, Live(p),
         Sync(p) \/ Cleanup(p) \/ ReleaseGone(p) \/ Kill(p)
  PROVE  CopyInv'
<1>0. /\ started \in Nat /\ p \in 1 .. started /\ Placed(p) /\ Copied(p) /\ NoneHalf
      /\ REL(p) \in Release
      /\ content \in [Release -> [Modules -> Content]]
      /\ partial \in [Release -> [Modules -> Copy]]
  BY PodParts DEF TypeOK, Live, Pods, PlacesInv, CopyInv, NoneHalf
<1>c. pod[p].pc \in PublishLoop => Current(p) \in Modules
  BY <1>0, CurrentModule
<1>s. UNCHANGED content => NoneHalf'
  BY <1>0 DEF NoneHalf
<1>1. CASE CheckConflicts(p)
  <2>1. After(pod[p].todo \ {Current(p)}, "check", "mkdir") \notin {"copying", "rename"}
    BY DEF After
  <2> QED BY <1>1, <1>s, <2>1, CheckEffect, CopyByMoved DEF volume
<1>2. CASE MakeRelease(p)
  BY <1>2, <1>s, MakeReleaseEffect, CopyByMoved
<1>3. CASE Publish(p)
  <2>1. CASE content[REL(p)][Current(p)] # "none"
    BY <1>3, <1>s, <2>1, PublishEffect, CopyByMoved
  <2>2. CASE content[REL(p)][Current(p)] = "none"
    <3> DEFINE copy == [by |-> p, content |-> "half"]
    <3>1. partial' = [partial EXCEPT ![REL(p)][Current(p)] = copy] /\ pod[p].pc = "publish"
      BY <1>3, <2>2, PublishEffect
    <3>2. Current(p) \in Modules
      BY <1>c, <3>1 DEF PublishLoop
    <3>3. copy.by = p
      OBVIOUS
    <3> HIDE DEF copy
    <3>4. partial'[REL(p)][Current(p)] = copy
      BY <1>0, <3>1, <3>2
    <3> QED BY <1>3, <1>s, <2>2, <3>3, <3>4, PublishEffect, CopyByMoved
  <2> QED BY <2>1, <2>2
<1>4. CASE CopyEnds(p)
  <2>1. pod[p].pc = "copying" /\ partial[REL(p)][Current(p)].by = p
    BY <1>0, <1>4 DEF CopyEnds, Copied
  <2>2. Current(p) \in Modules
    BY <1>c, <2>1 DEF PublishLoop
  <2> DEFINE copy == [partial[REL(p)][Current(p)] EXCEPT !.content = "whole"]
  <2>3. partial' = [partial EXCEPT ![REL(p)][Current(p)].content = "whole"]
    BY <1>4, <2>1, CopyEndsEffect
  <2>4. partial' = [partial EXCEPT ![REL(p)][Current(p)] = copy]
    BY <2>3
  <2>5. copy.content = "whole"
    <3>1. partial[REL(p)][Current(p)] \in Copy
      BY <1>0, <2>2
    <3> QED BY <3>1 DEF Copy
  <2> HIDE DEF copy
  <2>6. partial'[REL(p)][Current(p)] = copy
    BY <1>0, <2>2, <2>4
  <2> QED BY <1>4, <1>s, <2>1, <2>5, <2>6, CopyEndsEffect, CopyByMoved
<1>5. CASE Rename(p)
  <2>1. CASE UNCHANGED content
    BY <1>5, <1>s, <2>1, RenameEffect, CopyByMoved
  <2>2. CASE ~UNCHANGED content
    <3> DEFINE whole == IF content[REL(p)][Current(p)] = "none"
                          THEN partial[REL(p)][Current(p)].content
                          ELSE content[REL(p)][Current(p)]
    <3>1. content' = [content EXCEPT ![REL(p)][Current(p)] = whole] /\ pod[p].pc = "rename"
      BY <1>5, <2>2, RenameEffect
    <3>2. Current(p) \in Modules
      BY <1>c, <3>1 DEF PublishLoop
    <3>3. whole # "half"
      BY <1>0, <3>1, <3>2 DEF Copied, NoneHalf
    <3> HIDE DEF whole
    <3>4. NoneHalf'
      BY <1>0, <3>1, <3>2, <3>3 DEF NoneHalf
    <3> QED BY <1>5, <2>2, <3>4, RenameEffect, CopyByMoved
  <2> QED BY <2>1, <2>2
<1>6. CASE LinkTemporary(p)
  BY <1>6, <1>s, LinkTemporaryEffect, CopyByMoved
<1>7. CASE Switch(p)
  <2>1. After(pod[p].todo \ {Current(p)}, "publish", "touch") \notin {"copying", "rename"}
    BY DEF After
  <2> QED BY <1>7, <1>s, <2>1, SwitchEffect, CopyByMoved
<1>8. CASE Touch(p)
  <2>1. After(pod[p].prev \ MODLIST(p), "stale", "record") \notin {"copying", "rename"}
    BY DEF After
  <2> QED BY <1>8, <1>s, <2>1, TouchEffect, CopyByMoved
<1>9. CASE ReadStale(p)
  <2>1. After(pod[p].todo \ {Current(p)}, "stale", "record") \notin {"copying", "rename"}
    BY DEF After
  <2> QED BY <1>9, <1>s, <2>1, ReadStaleEffect, CopyByMoved DEF volume
<1>10. CASE UnlinkStale(p)
  <2>1. After(pod[p].todo \ {Current(p)}, "stale", "record") \notin {"copying", "rename"}
    BY DEF After
  <2> QED BY <1>10, <1>s, <2>1, UnlinkStaleEffect, CopyByMoved
<1>11. CASE Record(p)
  BY <1>11, <1>s, RecordEffect, CopyByMoved
<1>g. ASSUME NEW gone, content' = Going(p, gone) PROVE NoneHalf'
  BY <1>0, <1>g DEF NoneHalf, Going
<1>12. CASE Prune(p)
  <2>1. NoneHalf'
    BY <1>12, <1>s, <1>g, PruneEffect
  <2> QED BY <1>12, <2>1, PruneEffect, CopyByMoved
<1>13. CASE FindLinks(p)
  <2>1. ASSUME NEW links PROVE After(links, "sweep", "purge") \notin {"copying", "rename"}
    BY DEF After
  <2> QED BY <1>13, <1>s, <2>1, FindEffect, CopyByMoved DEF volume
<1>14. CASE SweepLinks(p)
  <2>1. ASSUME NEW e
        PROVE  After(pod[p].todo \ {e}, "sweep", "purge") \notin {"copying", "rename"}
    BY DEF After
  <2> QED BY <1>14, <1>s, <2>1, SweepEffect, CopyByMoved DEF volume
<1>15. CASE UnlinkOwn(p)
  <2>1. ASSUME NEW e
        PROVE  After(pod[p].todo \ {e}, "sweep", "purge") \notin {"copying", "rename"}
    BY DEF After
  <2> QED BY <1>15, <1>s, <2>1, UnlinkOwnEffect, CopyByMoved
<1>16. CASE Purge(p)
  <2>1. NoneHalf'
    BY <1>16, <1>g, PurgeEffect
  <2> QED BY <1>16, <2>1, PurgeEffect, CopyByMoved
<1>17. CASE PurgeEnds(p)
  BY <1>17, <1>s, PurgeEndsEffect, CopyByMoved
<1>18. CASE ReleaseGone(p)
  <2>1. PICK c \in pod[p].old :
              /\ Moved(p, IF pod[p].script = "sync" THEN "prune" ELSE "rm", pod[p].todo,
                       pod[p].prev, pod[p].old \ {c})
              /\ content' = [content EXCEPT ![<<pod[p].addon, c>>] = [m \in Modules |-> "none"]]
    BY <1>18, ReleaseGoneEffect
  <2>2. NoneHalf'
    BY <1>0, <2>1 DEF NoneHalf
  <2>3. (IF pod[p].script = "sync" THEN "prune" ELSE "rm") \notin {"copying", "rename"}
    OBVIOUS
  <2>4. started' = started
    BY <1>18, ReleaseGoneEffect
  <2> QED BY <2>1, <2>2, <2>3, <2>4, CopyByMoved
<1>19. CASE Kill(p)
  BY <1>19, <1>s, KillEffect, CopyByMoved DEF volume
<1> QED
  BY <1>1, <1>2, <1>3, <1>4, <1>5, <1>6, <1>7, <1>8, <1>9, <1>10, <1>11, <1>12, <1>13, <1>14,
     <1>15, <1>16, <1>17, <1>18, <1>19 DEF Sync, Cleanup

LEMMA CopyStart ==
  ASSUME TypeOK, CopyInv, Overlap = "none", NEW script \in {"sync", "cleanup"},
         NEW addon \in Addons, NEW commit \in Commits, Start(script, addon, commit)
  PROVE  CopyInv'
<1>1. PICK q \in Pods : /\ \A r \in 1 .. started' : Live(r)' => r = q
                        /\ Fresh(q, script, addon, commit)
  BY OnlyFresh
<1>2. Copied(q)'
  BY <1>1 DEF Copied, Fresh
<1>3. UNCHANGED content
  BY StartEffect DEF volume
<1> QED
  BY <1>1, <1>2, <1>3 DEF CopyInv

\* The invariants that hold wherever pods are killed.
Base == TypeOK /\ Solo /\ PlacesInv /\ CopyInv

LEMMA BaseInit == Init => Base
<1> SUFFICES ASSUME Init PROVE Base
  OBVIOUS
<1>1. CopyInv
  BY DEF Init, CopyInv, Live
<1> QED
  BY <1>1, TypeInit, PlacesInit DEF Base

LEMMA BaseStep ==
  ASSUME Overlap = "none", Base, [Next]_vars
  PROVE  Base'
<1>1. TypeOK' /\ Solo' /\ PlacesInv'
  BY TypeStep, PlacesStep DEF Base
<1>2. CASE UNCHANGED vars
  <2>1. CopyInv'
    BY <1>2 DEF Base, vars, volume, CopyInv, Copied, Live, REL, Current
  <2> QED BY <1>1, <2>1 DEF Base
<1>3. (CHOOSE c \in Commits : TRUE) \in Commits
  BY SomeAddonAssumption
<1>4. ASSUME NEW p \in Pods, Step(p) \/ Kill(p) PROVE CopyInv'
  BY <1>4, CopyStep DEF Step, Kill, Base
<1>5. CASE Next
  <2>1. CopyInv'
    BY <1>3, <1>4, <1>5, CopyStart DEF Next, Base
  <2> QED BY <1>1, <2>1 DEF Base
<1> QED
  BY <1>2, <1>5

LEMMA CopiesAreWhole == Base => NeverHalfCopied
<1> SUFFICES ASSUME Base, NEW m \in Modules, link[m] # NoLink
             PROVE  content[link[m]][m] # "half"
  BY DEF NeverHalfCopied
<1>1. link[m] \in Release
  BY DEF Base, TypeOK, Link
<1> QED
  BY <1>1 DEF Base, CopyInv

\* Odoo never sees a half-copied module (publish, odooaddon_sync.go), whatever the pods
\* before left in the release, also inside a removal, when pods do not overlap.
THEOREM NoHalfCopies == ASSUME Overlap = "none" PROVE Safety => []NeverHalfCopied
<1>1. Init => Base
  BY BaseInit
<1>2. Base /\ [Next]_vars => Base'
  BY BaseStep
<1> QED
  BY <1>1, <1>2, CopiesAreWhole, PTL DEF Safety

-----------------------------------------------------------------------------
(* A module has one provider. *)

LEMMA LookedByMoved ==
  ASSUME TypeOK, Solo, NEW p \in Pods, Live(p), started' = started,
         NEW place, NEW todo, NEW prev, NEW old, Moved(p, place, todo, prev, old),
         place = "check" => \A m \in MODLIST(p) \ todo : ~Foreign(p, link'[m]),
         place \in {"mkdir"} \cup PublishLoop => \A m \in MODLIST(p) : ~Foreign(p, link'[m]),
         place = "mv" => todo = pod[p].todo /\ tmp'[Current(p)] = REL(p),
         place = "unlinkStale" => todo = pod[p].todo /\ Own(p, link'[Current(p)]),
         place = "unlinkOwn" => UNCHANGED <<link, tmp>>
                                /\ \E e \in todo : prev = {e} /\ Own(p, Target(e))
  PROVE  LinkInv'
<1>1. \A q \in 1 .. started' : Live(q)' => q = p
  BY OnlyOne
<1>2. REL(p)' = REL(p) /\ MODLIST(p)' = MODLIST(p)
      /\ (todo = pod[p].todo => Current(p)' = Current(p))
  BY MovedKeeps
<1>3. /\ pod'[p].pc = place /\ pod'[p].todo = todo /\ pod'[p].prev = prev
      /\ pod'[p].addon = pod[p].addon
  BY DEF Moved
<1>4. pod'[p].pc = "check" => \A m \in MODLIST(p)' \ pod'[p].todo : ~Foreign(p, link[m])'
  BY <1>2, <1>3 DEF Foreign
<1>5. pod'[p].pc \in {"mkdir"} \cup PublishLoop => \A m \in MODLIST(p)' : ~Foreign(p, link[m])'
  BY <1>2, <1>3 DEF Foreign
<1>6. pod'[p].pc = "mv" => tmp'[Current(p)'] = REL(p)'
  BY <1>2, <1>3
<1>7. pod'[p].pc = "unlinkStale" => Own(p, link[Current(p)])'
  BY <1>2, <1>3 DEF Own
<1>8. pod'[p].pc = "unlinkOwn" =>
        \E e \in pod'[p].todo : pod'[p].prev = {e} /\ Own(p, Target(e))'
  BY <1>3 DEF Own, Target
<1>9. Looked(p)'
  BY <1>4, <1>5, <1>6, <1>7, <1>8 DEF Looked
<1> QED
  BY <1>1, <1>9 DEF LinkInv

LEMMA LinkStep ==
  ASSUME TypeOK, Solo, PlacesInv, LinkInv, NEW p \in Pods, Live(p),
         Sync(p) \/ Cleanup(p) \/ ReleaseGone(p) \/ Kill(p)
  PROVE  LinkInv'
<1> USE DEF PublishLoop
<1>0. /\ started \in Nat /\ p \in 1 .. started /\ Placed(p) /\ Looked(p)
      /\ REL(p) \in Release /\ link \in [Modules -> Link] /\ tmp \in [Modules -> Link]
      /\ MODLIST(p) \subseteq Modules /\ ~Foreign(p, REL(p))
  BY PodParts DEF TypeOK, Live, Pods, PlacesInv, LinkInv, Foreign
<1>c. pod[p].pc \in {"check"} \cup PublishLoop =>
        Current(p) \in Modules /\ Current(p) \in MODLIST(p) /\ Current(p) \in pod[p].todo
  BY <1>0, CurrentModule
<1>1. CASE CheckConflicts(p)
  <2>1. CASE Foreign(p, link[Current(p)])
    BY <1>1, <2>1, CheckEffect, LookedByMoved
  <2>2. CASE ~Foreign(p, link[Current(p)])
    <3> DEFINE left == pod[p].todo \ {Current(p)}
               place == After(left, "check", "mkdir")
    <3>1. UNCHANGED link /\ pod[p].pc = "check" /\ started' = started
          /\ Moved(p, place, left, pod[p].prev, pod[p].old)
      BY <1>1, <2>2, CheckEffect DEF volume
    <3>2. place \in {"check", "mkdir"} /\ (place = "mkdir" => left = {})
      BY DEF After
    <3>3. \A m \in MODLIST(p) \ left : ~Foreign(p, link[m])
      BY <1>0, <2>2, <3>1 DEF Looked
    <3> HIDE DEF left, place
    <3>4. place = "check" => \A m \in MODLIST(p) \ left : ~Foreign(p, link'[m])
      BY <3>1, <3>3
    <3>5. place \in {"mkdir"} \cup PublishLoop => \A m \in MODLIST(p) : ~Foreign(p, link'[m])
      BY <3>1, <3>2, <3>3
    <3> QED BY <3>1, <3>2, <3>4, <3>5, LookedByMoved
  <2> QED BY <2>1, <2>2
<1>l. pod[p].pc \in {"mkdir"} \cup PublishLoop => \A m \in MODLIST(p) : ~Foreign(p, link[m])
  BY <1>0 DEF Looked
<1>2. CASE MakeRelease(p)
  BY <1>2, <1>l, MakeReleaseEffect, LookedByMoved
<1>3. CASE Publish(p)
  BY <1>3, <1>l, PublishEffect, LookedByMoved
<1>4. CASE CopyEnds(p)
  BY <1>4, <1>l, CopyEndsEffect, LookedByMoved
<1>5. CASE Rename(p)
  BY <1>5, <1>l, RenameEffect, LookedByMoved
<1>6. CASE LinkTemporary(p)
  <2>1. tmp'[Current(p)] = REL(p)
    BY <1>0, <1>c, <1>6, LinkTemporaryEffect
  <2> QED BY <1>6, <1>l, <2>1, LinkTemporaryEffect, LookedByMoved
<1>7. CASE Switch(p)
  <2>1. CASE tmp[Current(p)] = NoLink
    BY <1>7, <2>1, SwitchEffect, LookedByMoved
  <2>2. CASE tmp[Current(p)] # NoLink
    <3> DEFINE left == pod[p].todo \ {Current(p)}
               place == After(left, "publish", "touch")
    <3>1. /\ pod[p].pc = "mv" /\ started' = started
          /\ Moved(p, place, left, pod[p].prev, pod[p].old)
          /\ link' = [link EXCEPT ![Current(p)] = tmp[Current(p)]]
      BY <1>7, <2>2, SwitchEffect
    <3>2. place \in {"publish", "touch"}
      BY DEF After
    <3>3. tmp[Current(p)] = REL(p)
      BY <1>0, <3>1 DEF Looked
    <3>4. \A m \in MODLIST(p) : ~Foreign(p, link'[m])
      <4> SUFFICES ASSUME NEW m \in MODLIST(p) PROVE ~Foreign(p, link'[m])
        OBVIOUS
      <4>1. link'[m] = REL(p) \/ link'[m] = link[m]
        BY <1>0, <3>1, <3>3
      <4> QED BY <1>0, <1>l, <3>1, <4>1
    <3> HIDE DEF left, place
    <3> QED BY <3>1, <3>2, <3>4, LookedByMoved
  <2> QED BY <2>1, <2>2
<1>8. CASE Touch(p)
  <2>1. After(pod[p].prev \ MODLIST(p), "stale", "record") \in {"stale", "record"}
    BY DEF After
  <2> QED BY <1>8, <2>1, TouchEffect, LookedByMoved
<1>9. CASE ReadStale(p)
  <2>1. After(pod[p].todo \ {Current(p)}, "stale", "record") \in {"stale", "record"}
    BY DEF After
  <2> QED BY <1>9, <2>1, ReadStaleEffect, LookedByMoved DEF volume
<1>10. CASE UnlinkStale(p)
  <2>1. After(pod[p].todo \ {Current(p)}, "stale", "record") \in {"stale", "record"}
    BY DEF After
  <2> QED BY <1>10, <2>1, UnlinkStaleEffect, LookedByMoved
<1>11. CASE Record(p)
  BY <1>11, RecordEffect, LookedByMoved
<1>12. CASE Prune(p)
  <2>1. started' = started
        /\ \/ Moved(p, "done", pod[p].todo, pod[p].prev, pod[p].old)
           \/ \E c \in Commits : Moved(p, "rm", pod[p].todo, pod[p].prev, {c})
    BY <1>12, PruneEffect
  <2>2. PICK place \in {"done", "rm"}, old \in SUBSET Commits :
          Moved(p, place, pod[p].todo, pod[p].prev, old)
    <3>1. pod[p].old \in SUBSET Commits
      BY PodParts DEF TypeOK
    <3> QED BY <2>1, <3>1
  <2> QED BY <2>1, <2>2, LookedByMoved
<1>13. CASE FindLinks(p)
  <2>1. ASSUME NEW links PROVE After(links, "sweep", "purge") \in {"sweep", "purge"}
    BY DEF After
  <2> QED BY <1>13, <2>1, FindEffect, LookedByMoved DEF volume
<1>a. ASSUME NEW e PROVE After(pod[p].todo \ {e}, "sweep", "purge") \in {"sweep", "purge"}
  BY DEF After
<1>14. CASE SweepLinks(p)
  <2>1. PICK e \in pod[p].todo :
          \/ Own(p, Target(e)) /\ Moved(p, "unlinkOwn", pod[p].todo, {e}, pod[p].old)
          \/ /\ ~Own(p, Target(e))
             /\ Moved(p, After(pod[p].todo \ {e}, "sweep", "purge"), pod[p].todo \ {e}, {},
                      pod[p].old)
    BY <1>14, SweepEffect
  <2>2. UNCHANGED <<link, tmp, started>>
    BY <1>14, SweepEffect DEF volume
  <2>3. CASE Moved(p, "unlinkOwn", pod[p].todo, {e}, pod[p].old) /\ Own(p, Target(e))
    <3>1. \E d \in pod[p].todo : {e} = {d} /\ Own(p, Target(d))
      BY <2>3
    <3> QED BY <2>2, <2>3, <3>1, LookedByMoved
  <2>4. CASE Moved(p, After(pod[p].todo \ {e}, "sweep", "purge"), pod[p].todo \ {e}, {},
                   pod[p].old)
    BY <1>a, <2>2, <2>4, LookedByMoved
  <2> QED BY <2>1, <2>3, <2>4
<1>15. CASE UnlinkOwn(p)
  BY <1>15, <1>a, UnlinkOwnEffect, LookedByMoved
<1>16. CASE Purge(p)
  BY <1>16, PurgeEffect, LookedByMoved
<1>17. CASE PurgeEnds(p)
  BY <1>17, PurgeEndsEffect, LookedByMoved
<1>18. CASE ReleaseGone(p)
  <2>1. (IF pod[p].script = "sync" THEN "prune" ELSE "rm") \in {"prune", "rm"}
    OBVIOUS
  <2> DEFINE place == IF pod[p].script = "sync" THEN "prune" ELSE "rm"
  <2>2. PICK c \in pod[p].old : Moved(p, place, pod[p].todo, pod[p].prev, pod[p].old \ {c})
    BY <1>18, ReleaseGoneEffect
  <2>3. started' = started
    BY <1>18, ReleaseGoneEffect
  <2> HIDE DEF place
  <2>4. place \in {"prune", "rm"}
    BY <2>1 DEF place
  <2> QED BY <2>2, <2>3, <2>4, LookedByMoved
<1>19. CASE Kill(p)
  BY <1>19, KillEffect, LookedByMoved
<1> QED
  BY <1>1, <1>2, <1>3, <1>4, <1>5, <1>6, <1>7, <1>8, <1>9, <1>10, <1>11, <1>12, <1>13, <1>14,
     <1>15, <1>16, <1>17, <1>18, <1>19 DEF Sync, Cleanup

LEMMA LinkStart ==
  ASSUME TypeOK, Overlap = "none", NEW script \in {"sync", "cleanup"},
         NEW addon \in Addons, NEW commit \in Commits, Start(script, addon, commit)
  PROVE  LinkInv'
<1>1. PICK q \in Pods : /\ \A r \in 1 .. started' : Live(r)' => r = q
                        /\ Fresh(q, script, addon, commit)
  BY OnlyFresh
<1>2. script = "sync" => MODLIST(q)' = pod'[q].todo
  <2>1. pod'[q].addon = addon /\ pod'[q].commit = commit
    BY <1>1 DEF Fresh
  <2>2. MODLIST(q)' = ModulesOf[<<addon, commit>>]
    BY <2>1 DEF MODLIST
  <2> QED BY <1>1, <2>2 DEF Fresh
<1>3. pod'[q].pc = IF script = "sync" THEN "check" ELSE "find"
  BY <1>1 DEF Fresh
<1>4. Looked(q)'
  BY <1>2, <1>3 DEF Looked, PublishLoop
<1> QED
  BY <1>1, <1>4 DEF LinkInv

\* What a pod does to the rest: it gives a link only to its own release and takes away
\* none of another addon, and it leaves the other addons' directories alone.
Framed(p) ==
    /\ \A m \in Modules :
         link'[m] # link[m] => ~Foreign(p, link[m]) /\ link'[m] \in {NoLink, REL(p)}
    /\ \A m \in Modules : tmp'[m] \in {tmp[m], NoLink, REL(p)}
    /\ link' # link => pod'[p].pc # pod[p].pc
    /\ \A r \in Release : r[1] # pod[p].addon => content'[r] = content[r]
    /\ \A b \in Addons \ {pod[p].addon} :
         releases'[b] = releases[b] /\ recorded'[b] = recorded[b]
    /\ \A q \in Pods \ {p} : pod'[q] = pod[q]
    /\ pod'[p].script = pod[p].script
    /\ pod'[p].addon = pod[p].addon
    /\ pod'[p].commit = pod[p].commit
    /\ started' = started

LEMMA FramedByMoved ==
  ASSUME TypeOK, NEW p \in Pods, started' = started,
         NEW place, NEW todo, NEW prev, NEW old, Moved(p, place, todo, prev, old),
         UNCHANGED <<link, tmp>>,
         \A r \in Release : r[1] # pod[p].addon => content'[r] = content[r],
         \A b \in Addons \ {pod[p].addon} : releases'[b] = releases[b] /\ recorded'[b] = recorded[b]
  PROVE  Framed(p)
  BY DEF Framed, Moved

LEMMA StepFramed ==
  ASSUME TypeOK, Solo, PlacesInv, LinkInv, NEW p \in Pods, Live(p),
         Sync(p) \/ Cleanup(p) \/ ReleaseGone(p) \/ Kill(p)
  PROVE  Framed(p)
<1>0. /\ started \in Nat /\ p \in 1 .. started /\ Placed(p) /\ Looked(p)
      /\ REL(p) \in Release /\ REL(p) # NoLink /\ REL(p)[1] = pod[p].addon
      /\ link \in [Modules -> Link] /\ tmp \in [Modules -> Link]
      /\ content \in [Release -> [Modules -> Content]]
      /\ releases \in [Addons -> Seq(Commits)] /\ recorded \in [Addons -> SUBSET Modules]
      /\ MODLIST(p) \subseteq Modules /\ pod[p].addon \in Addons
  BY PodParts DEF TypeOK, Live, Pods, PlacesInv, LinkInv
<1>u. UNCHANGED volume => UNCHANGED <<link, tmp, content, releases, recorded>>
  BY DEF volume
<1>1. CASE CheckConflicts(p)
  BY <1>1, <1>u, CheckEffect, FramedByMoved
<1>f. ASSUME NEW t, releases' = [releases EXCEPT ![pod[p].addon] = t]
      PROVE  \A b \in Addons \ {pod[p].addon} : releases'[b] = releases[b]
  BY <1>0, <1>f
<1>2. CASE MakeRelease(p)
  BY <1>2, <1>f, MakeReleaseEffect, FramedByMoved
<1>3. CASE Publish(p)
  BY <1>3, <1>f, PublishEffect, FramedByMoved
<1>4. CASE CopyEnds(p)
  BY <1>4, CopyEndsEffect, FramedByMoved
<1>5. CASE Rename(p)
  <2>1. CASE UNCHANGED <<content, partial, releases>>
    BY <1>5, <2>1, RenameEffect, FramedByMoved
  <2>2. CASE ~UNCHANGED <<content, partial, releases>>
    <3>1. PICK w : content' = [content EXCEPT ![REL(p)][Current(p)] = w]
      BY <1>5, <2>2, RenameEffect
    <3>2. \A r \in Release : r[1] # pod[p].addon => content'[r] = content[r]
      BY <1>0, <3>1
    <3> QED BY <1>5, <1>f, <2>2, <3>2, RenameEffect, FramedByMoved
  <2> QED BY <2>1, <2>2
<1>6. CASE LinkTemporary(p)
  <2>1. \A m \in Modules : tmp'[m] \in {tmp[m], NoLink, REL(p)}
    BY <1>0, <1>6, LinkTemporaryEffect
  <2> QED BY <1>6, <2>1, LinkTemporaryEffect DEF Framed, Moved
<1>7. CASE Switch(p)
  <2>1. CASE tmp[Current(p)] = NoLink
    BY <1>7, <2>1, SwitchEffect, FramedByMoved
  <2>2. CASE tmp[Current(p)] # NoLink
    <3> DEFINE left == pod[p].todo \ {Current(p)}
               place == After(left, "publish", "touch")
    <3>1. /\ pod[p].pc = "mv"
          /\ Moved(p, place, left, pod[p].prev, pod[p].old)
          /\ link' = [link EXCEPT ![Current(p)] = tmp[Current(p)]]
          /\ tmp' = [tmp EXCEPT ![Current(p)] = NoLink]
          /\ UNCHANGED <<content, partial, releases, recorded, started>>
      BY <1>7, <2>2, SwitchEffect
    <3>2. place # "mv"
      BY DEF After
    <3>3. tmp[Current(p)] = REL(p) /\ ~Foreign(p, link[Current(p)])
      BY <1>0, <3>1, CurrentModule DEF Looked, PublishLoop
    <3>4. \A m \in Modules :
            link'[m] # link[m] => ~Foreign(p, link[m]) /\ link'[m] \in {NoLink, REL(p)}
      BY <1>0, <3>1, <3>3
    <3>5. \A m \in Modules : tmp'[m] \in {tmp[m], NoLink, REL(p)}
      BY <1>0, <3>1
    <3> HIDE DEF left, place
    <3> QED BY <3>1, <3>2, <3>4, <3>5 DEF Framed, Moved
  <2> QED BY <2>1, <2>2
<1>8. CASE Touch(p)
  BY <1>8, <1>f, TouchEffect, FramedByMoved
<1>9. CASE ReadStale(p)
  BY <1>9, <1>u, ReadStaleEffect, FramedByMoved
<1>10. CASE UnlinkStale(p)
  <2> DEFINE left == pod[p].todo \ {Current(p)}
             place == After(left, "stale", "record")
  <2>1. /\ pod[p].pc = "unlinkStale" /\ Moved(p, place, left, pod[p].prev, pod[p].old)
        /\ link' = [link EXCEPT ![Current(p)] = NoLink]
        /\ UNCHANGED <<tmp, content, partial, releases, recorded, started>>
    BY <1>10, UnlinkStaleEffect
  <2>2. place # "unlinkStale"
    BY DEF After
  <2>3. ~Foreign(p, link[Current(p)])
    BY <1>0, <2>1 DEF Looked, Own, Foreign
  <2>4. \A m \in Modules :
          link'[m] # link[m] => ~Foreign(p, link[m]) /\ link'[m] \in {NoLink, REL(p)}
    BY <1>0, <2>1, <2>3
  <2> HIDE DEF left, place
  <2> QED BY <2>1, <2>2, <2>4 DEF Framed, Moved
<1>11. CASE Record(p)
  <2>1. \A b \in Addons \ {pod[p].addon} : recorded'[b] = recorded[b]
    BY <1>0, <1>11, RecordEffect
  <2> QED BY <1>11, <2>1, RecordEffect, FramedByMoved
<1>g. ASSUME NEW gone, content' = Going(p, gone)
      PROVE  \A r \in Release : r[1] # pod[p].addon => content'[r] = content[r]
  BY <1>0, <1>g DEF Going
<1>12. CASE Prune(p)
  <2>1. /\ \A r \in Release : r[1] # pod[p].addon => content'[r] = content[r]
        /\ \A b \in Addons \ {pod[p].addon} : releases'[b] = releases[b]
    BY <1>12, <1>f, <1>g, PruneEffect
  <2>2. UNCHANGED <<link, tmp, recorded, started>>
        /\ \E place, old : Moved(p, place, pod[p].todo, pod[p].prev, old)
    BY <1>12, PruneEffect
  <2> QED BY <2>1, <2>2, FramedByMoved
<1>13. CASE FindLinks(p)
  BY <1>13, <1>u, FindEffect, FramedByMoved
<1>14. CASE SweepLinks(p)
  BY <1>14, <1>u, SweepEffect, FramedByMoved
<1>15. CASE UnlinkOwn(p)
  <2>1. PICK e \in pod[p].prev :
              /\ Moved(p, After(pod[p].todo \ {e}, "sweep", "purge"), pod[p].todo \ {e}, {},
                       pod[p].old)
              /\ link' = [m \in Modules |-> IF m = e THEN NoLink ELSE link[m]]
              /\ tmp' = [m \in Modules |-> IF m = -e THEN NoLink ELSE tmp[m]]
    BY <1>15, UnlinkOwnEffect
  <2>2. pod[p].pc = "unlinkOwn" /\ UNCHANGED <<content, partial, releases, recorded, started>>
    BY <1>15, UnlinkOwnEffect
  <2>3. After(pod[p].todo \ {e}, "sweep", "purge") # "unlinkOwn"
    BY DEF After
  <2>4. Own(p, Target(e))
    BY <1>0, <2>2 DEF Looked
  <2>5. e \in Modules => ~Foreign(p, link[e])
    BY <2>4, ModulesAssumption DEF Target, Own, Foreign
  <2>6. \A m \in Modules :
          link'[m] # link[m] => ~Foreign(p, link[m]) /\ link'[m] \in {NoLink, REL(p)}
    BY <2>1, <2>5
  <2>7. \A m \in Modules : tmp'[m] \in {tmp[m], NoLink, REL(p)}
    BY <2>1
  <2> QED BY <2>1, <2>2, <2>3, <2>6, <2>7 DEF Framed, Moved
<1>16. CASE Purge(p)
  <2>1. \A b \in Addons \ {pod[p].addon} : recorded'[b] = recorded[b]
    BY <1>0, <1>16, PurgeEffect
  <2> QED BY <1>16, <1>g, <2>1, PurgeEffect, FramedByMoved
<1>17. CASE PurgeEnds(p)
  <2>1. \A b \in Addons \ {pod[p].addon} : recorded'[b] = recorded[b]
    BY <1>0, <1>17, PurgeEndsEffect
  <2> QED BY <1>17, <2>1, PurgeEndsEffect, FramedByMoved
<1>18. CASE ReleaseGone(p)
  <2>1. PICK c \in pod[p].old :
              /\ content' = [content EXCEPT ![<<pod[p].addon, c>>] = [m \in Modules |-> "none"]]
              /\ releases' = [releases EXCEPT ![pod[p].addon] =
                                RemoveFirst(releases[pod[p].addon], c)]
    BY <1>18, ReleaseGoneEffect
  <2>2. UNCHANGED <<link, tmp, recorded, started>>
        /\ \E place, old : Moved(p, place, pod[p].todo, pod[p].prev, old)
    BY <1>18, ReleaseGoneEffect
  <2>3. <<pod[p].addon, c>>[1] = pod[p].addon
    OBVIOUS
  <2>4. \A r \in Release : r[1] # pod[p].addon => content'[r] = content[r]
    BY <1>0, <2>1, <2>3
  <2> QED BY <1>f, <2>1, <2>2, <2>4, FramedByMoved
<1>19. CASE Kill(p)
  BY <1>19, <1>u, KillEffect, FramedByMoved
<1> QED
  BY <1>1, <1>2, <1>3, <1>4, <1>5, <1>6, <1>7, <1>8, <1>9, <1>10, <1>11, <1>12, <1>13, <1>14,
     <1>15, <1>16, <1>17, <1>18, <1>19 DEF Sync, Cleanup

\* The invariants so far, which hold wherever pods are killed.
Linked == Base /\ LinkInv

LEMMA LinkedInit == Init => Linked
<1> SUFFICES ASSUME Init PROVE Linked
  OBVIOUS
<1>1. LinkInv
  BY DEF Init, LinkInv, Live
<1> QED
  BY <1>1, BaseInit DEF Linked

LEMMA LinkedStep ==
  ASSUME Overlap = "none", Linked, [Next]_vars
  PROVE  Linked'
<1>1. Base'
  BY BaseStep DEF Linked
<1>2. CASE UNCHANGED vars
  <2>1. LinkInv'
    <3>1. link' = link /\ tmp' = tmp /\ pod' = pod /\ started' = started
      BY <1>2 DEF vars, volume
    <3>2. ASSUME NEW q \in 1 .. started, Live(q) PROVE Looked(q)'
      <4>1. Looked(q)
        BY <3>2 DEF Linked, LinkInv
      <4>2. Current(q)' = Current(q) /\ REL(q)' = REL(q) /\ MODLIST(q)' = MODLIST(q)
        BY <3>1 DEF Current, REL, MODLIST
      <4>3. \A e : Target(e)' = Target(e)
        BY <3>1 DEF Target
      <4> QED BY <3>1, <4>1, <4>2, <4>3 DEF Looked, Own, Foreign
    <3> QED BY <3>1, <3>2 DEF LinkInv, Live
  <2> QED BY <1>1, <2>1 DEF Linked
<1>3. (CHOOSE c \in Commits : TRUE) \in Commits
  BY SomeAddonAssumption
<1>4. ASSUME NEW p \in Pods, Step(p) \/ Kill(p) PROVE LinkInv'
  BY <1>4, LinkStep DEF Step, Kill, Linked, Base
<1>5. CASE Next
  <2>1. LinkInv'
    BY <1>3, <1>4, <1>5, LinkStart DEF Next, Linked, Base
  <2> QED BY <1>1, <2>1 DEF Linked
<1> QED
  BY <1>2, <1>5

-----------------------------------------------------------------------------
(* A module has one provider, also when addons are synced side by side. *)

\* Pods that run side by side know of each other and are of different addons.
Pairs ==
    \A p, q \in 1 .. started : p < q /\ Live(p) /\ Live(q) =>
        p \in pod[q].beside /\ pod[p].addon # pod[q].addon

\* What a pod has looked at is as it was, but for contested modules.
LookedBeside(p) ==
    /\ pod[p].pc = "check" =>
         \A m \in MODLIST(p) \ pod[p].todo : ~Foreign(p, link[m]) \/ Contested(m)
    /\ pod[p].pc \in {"mkdir"} \cup PublishLoop =>
         \A m \in MODLIST(p) : ~Foreign(p, link[m]) \/ Contested(m)
    /\ pod[p].pc = "mv" => tmp[Current(p)] \in {REL(p), NoLink} \/ Contested(Current(p))
    /\ pod[p].pc = "unlinkStale" => Own(p, link[Current(p)]) \/ Contested(Current(p))
    /\ pod[p].pc = "unlinkOwn" =>
         \A e \in pod[p].prev \cap Modules : Own(p, link[e]) \/ Contested(e)
BesideInv == \A p \in 1 .. started : Live(p) => LookedBeside(p)

\* What a step of pod p does to the links, but for contested modules: it takes away none of
\* another addon and gives a link only to its own release, for a module of its commit.
Provides(p, m) == pod[p].script = "sync" /\ m \in MODLIST(p)
Careful(p) ==
    /\ \A m \in Modules : link'[m] # link[m] =>
         \/ Contested(m)
         \/ ~Foreign(p, link[m]) /\ (link'[m] = NoLink \/ (link'[m] = REL(p) /\ Provides(p, m)))
    /\ \A m \in Modules : tmp'[m] # tmp[m] =>
         tmp'[m] = NoLink \/ (tmp'[m] = REL(p) /\ Provides(p, m))

\* OneProvider, for one step.
ProviderKept ==
    \A m \in Modules, p \in 1 .. started :
      /\ pod'[p] # pod[p] /\ link'[m] # link[m]
      /\ Foreign(p, link[m]) \/ Foreign(p, link'[m])
      => Contested(m)

LEMMA EntryIs ==
  ASSUME NEW e \in Entries
  PROVE  e \in Int /\ ((e > 0 /\ e \in Modules) \/ (~(e > 0) /\ -e \in Modules))
  BY ModulesAssumption DEF Entries

LEMMA ModuleTarget == \A m \in Modules : Target(m) = link[m]
<1>1. \A m \in Modules : m \in Nat /\ m > 0
  BY ModulesAssumption
<1> QED
  BY <1>1 DEF Target

LEMMA BothProvide ==
  ASSUME Pairs, NEW p \in 1 .. started, NEW q \in 1 .. started, started \in Nat, p # q,
         Live(p), Live(q), NEW m, Provides(p, m), Provides(q, m)
  PROVE  Contested(m)
<1>1. p < q \/ q < p
  OBVIOUS
<1> QED
  BY <1>1 DEF Pairs, Contested, Provides

LEMMA ContestedKept ==
  ASSUME TypeOK, NEW p \in Pods, NEW place, NEW todo, NEW prev, NEW old,
         Moved(p, place, todo, prev, old), started' = started
  PROVE  /\ \A m : Contested(m) => Contested(m)'
         /\ \A q \in 1 .. started : /\ MODLIST(q)' = MODLIST(q) /\ REL(q)' = REL(q)
                                    /\ pod'[q].addon = pod[q].addon
                                    /\ pod'[q].script = pod[q].script
                                    /\ pod'[q].beside = pod[q].beside
<1>1. 1 .. started \subseteq Pods
  BY MaxPodsAssumption DEF TypeOK, Pods
<1>2. ASSUME NEW q \in 1 .. started
      PROVE  /\ pod'[q].addon = pod[q].addon /\ pod'[q].commit = pod[q].commit
             /\ pod'[q].script = pod[q].script /\ pod'[q].beside = pod[q].beside
  BY <1>1 DEF Moved
<1>3. ASSUME NEW q \in 1 .. started PROVE MODLIST(q)' = MODLIST(q)
  BY <1>2, Zenon DEF MODLIST
<1>4. ASSUME NEW q \in 1 .. started PROVE REL(q)' = REL(q)
  BY <1>2, Zenon DEF REL
<1>5. ASSUME NEW m, Contested(m) PROVE Contested(m)'
  <2>1. PICK a \in 1 .. started, b \in 1 .. started :
          /\ b \in pod[a].beside /\ pod[a].addon # pod[b].addon
          /\ pod[a].script = "sync" /\ m \in MODLIST(a)
          /\ pod[b].script = "sync" /\ m \in MODLIST(b)
    BY <1>5 DEF Contested
  <2> QED BY <1>2, <1>3, <2>1 DEF Contested
<1> QED
  BY <1>2, <1>3, <1>4, <1>5

\* A careful step of pod p does not disturb what pod q has looked at.
LEMMA OthersUndisturbed ==
  ASSUME TypeOK, PlacesInv, Pairs, BesideInv, NEW p \in Pods, Live(p), started' = started,
         NEW place, NEW todo, NEW prev, NEW old, Moved(p, place, todo, prev, old), Careful(p),
         NEW q \in 1 .. started, q # p, Live(q)'
  PROVE  LookedBeside(q)'
<1>1. /\ started \in Nat /\ q \in Pods /\ p \in 1 .. started /\ pod'[q] = pod[q]
      /\ link \in [Modules -> Link] /\ tmp \in [Modules -> Link]
  BY MaxPodsAssumption DEF TypeOK, Pods, Moved, Live
<1>2. Live(q) /\ Placed(q) /\ LookedBeside(q)
  BY <1>1 DEF Live, PlacesInv, BesideInv
<1>3. /\ \A m : Contested(m) => Contested(m)'
      /\ MODLIST(q)' = MODLIST(q) /\ REL(q)' = REL(q)
  BY ContestedKept
<1>4. Current(q)' = Current(q)
  BY <1>1, Zenon DEF Current
<1>5. pod[p].addon # pod[q].addon
  BY <1>1, <1>2 DEF Pairs
<1>6. \A m : Provides(p, m) /\ Provides(q, m) => Contested(m)
  BY <1>1, <1>2, BothProvide
<1>7. /\ MODLIST(q) \subseteq Modules /\ REL(p)[1] = pod[p].addon /\ REL(p) # NoLink
  BY <1>1, PodParts DEF TypeOK
<1>8. pod[q].pc \in {"check", "mkdir"} \cup PublishLoop => \A m \in MODLIST(q) : Provides(q, m)
  BY <1>2 DEF Placed, SyncPlaces, Provides
<1>9. ASSUME NEW m \in Modules, Provides(q, m), ~Foreign(q, link[m]) \/ Contested(m)
      PROVE  ~Foreign(q, link'[m]) \/ Contested(m)
  <2>1. CASE link'[m] = link[m]
    BY <1>9, <2>1
  <2>2. CASE link'[m] = NoLink
    BY <2>2 DEF Foreign
  <2>3. CASE link'[m] # link[m] /\ link'[m] # NoLink
    BY <1>6, <1>9, <2>3 DEF Careful
  <2> QED BY <2>1, <2>2, <2>3
<1>10. ASSUME NEW m \in Modules, Own(q, link[m]) \/ Contested(m)
       PROVE  Own(q, link'[m]) \/ Contested(m)
  <2>1. CASE link'[m] = link[m]
    BY <1>10, <2>1
  <2>2. CASE link'[m] # link[m] /\ Own(q, link[m])
    <3>1. Foreign(p, link[m])
      BY <1>5, <2>2 DEF Own, Foreign
    <3> QED BY <2>2, <3>1 DEF Careful
  <2> QED BY <1>10, <2>1, <2>2
<1>11. \A x : Own(q, x)' <=> Own(q, x)
  BY <1>1 DEF Own
<1>12. \A x : Foreign(q, x)' <=> Foreign(q, x)
  BY <1>1 DEF Foreign
<1>13. ASSUME pod[q].pc = "check", NEW m \in MODLIST(q) \ pod[q].todo
       PROVE  ~Foreign(q, link'[m]) \/ Contested(m)
  BY <1>2, <1>7, <1>8, <1>9, <1>13 DEF LookedBeside
<1>14. ASSUME pod[q].pc \in {"mkdir"} \cup PublishLoop, NEW m \in MODLIST(q)
       PROVE  ~Foreign(q, link'[m]) \/ Contested(m)
  BY <1>2, <1>7, <1>8, <1>9, <1>14 DEF LookedBeside
<1>15. ASSUME pod[q].pc = "mv"
       PROVE  tmp'[Current(q)] \in {REL(q), NoLink} \/ Contested(Current(q))
  <2>1. Current(q) \in Modules /\ Provides(q, Current(q))
    BY <1>1, <1>2, <1>8, <1>15, CurrentModule DEF PublishLoop
  <2>2. tmp[Current(q)] \in {REL(q), NoLink} \/ Contested(Current(q))
    BY <1>2, <1>15 DEF LookedBeside
  <2>3. CASE tmp'[Current(q)] = tmp[Current(q)]
    BY <2>2, <2>3
  <2>4. CASE tmp'[Current(q)] # tmp[Current(q)]
    BY <1>6, <2>1, <2>4 DEF Careful
  <2> QED BY <2>3, <2>4
<1>16. ASSUME pod[q].pc = "unlinkStale"
       PROVE  Own(q, link'[Current(q)]) \/ Contested(Current(q))
  <2>1. Current(q) \in Modules
    BY <1>1, <1>2, <1>16, CurrentModule DEF StaleLoop
  <2> QED BY <1>2, <1>10, <1>16, <2>1 DEF LookedBeside
<1>17. ASSUME pod[q].pc = "unlinkOwn", NEW e \in pod[q].prev \cap Modules
       PROVE  Own(q, link'[e]) \/ Contested(e)
  BY <1>2, <1>10, <1>17 DEF LookedBeside
<1>18. /\ pod'[q].pc = "check" =>
             \A m \in MODLIST(q)' \ pod'[q].todo : ~Foreign(q, link[m])' \/ Contested(m)'
       /\ pod'[q].pc \in {"mkdir"} \cup PublishLoop =>
             \A m \in MODLIST(q)' : ~Foreign(q, link[m])' \/ Contested(m)'
  <2>1. \A x : Foreign(q, x)' => Foreign(q, x)
    BY <1>12
  <2>2. ASSUME NEW m, Foreign(q, link[m])' PROVE Foreign(q, link'[m])
    BY <1>1, <2>2 DEF Foreign
  <2> QED BY <1>1, <1>3, <1>13, <1>14, <2>2
<1>19. ASSUME NEW m, Own(q, link'[m]) PROVE Own(q, link[m])'
  BY <1>1, <1>19 DEF Own
<1>20. /\ pod'[q].pc = "mv" =>
             tmp'[Current(q)'] \in {REL(q)', NoLink} \/ Contested(Current(q))'
       /\ pod'[q].pc = "unlinkStale" => Own(q, link[Current(q)])' \/ Contested(Current(q))'
       /\ pod'[q].pc = "unlinkOwn" =>
             \A e \in pod'[q].prev \cap Modules : Own(q, link[e])' \/ Contested(e)'
  <2>1. Own(q, link'[Current(q)]) => Own(q, link[Current(q)])'
    BY <1>1, <1>4 DEF Own
  <2> QED BY <1>1, <1>3, <1>4, <1>15, <1>16, <1>17, <1>19, <2>1
<1> QED
  BY <1>18, <1>20 DEF LookedBeside

\* A careful step of pod p that has looked at what it is going to change next.
LEMMA BesideByMoved ==
  ASSUME TypeOK, PlacesInv, Pairs, BesideInv, NEW p \in Pods, Live(p), started' = started,
         NEW place, NEW todo, NEW prev, NEW old, Moved(p, place, todo, prev, old), Careful(p),
         place = "check" =>
           \A m \in MODLIST(p) \ todo : ~Foreign(p, link'[m]) \/ Contested(m),
         place \in {"mkdir"} \cup PublishLoop =>
           \A m \in MODLIST(p) : ~Foreign(p, link'[m]) \/ Contested(m),
         place = "mv" => todo = pod[p].todo /\ tmp'[Current(p)] = REL(p),
         place = "unlinkStale" => todo = pod[p].todo /\ Own(p, link'[Current(p)]),
         place = "unlinkOwn" => \A e \in prev \cap Modules : Own(p, link'[e])
  PROVE  Pairs' /\ BesideInv' /\ ProviderKept
<1>1. /\ started \in Nat /\ 1 .. started \subseteq Pods /\ p \in 1 .. started
      /\ pod'[p].pc = place /\ pod'[p].todo = todo /\ pod'[p].prev = prev
      /\ pod'[p].addon = pod[p].addon
      /\ \A q \in Pods \ {p} : pod'[q] = pod[q]
  BY MaxPodsAssumption DEF TypeOK, Pods, Moved, Live
<1>2. /\ \A m : Contested(m) => Contested(m)'
      /\ \A q \in 1 .. started : /\ pod'[q].addon = pod[q].addon
                                 /\ pod'[q].beside = pod[q].beside
      /\ MODLIST(p)' = MODLIST(p) /\ REL(p)' = REL(p)
  BY <1>1, ContestedKept
<1>3. todo = pod[p].todo => Current(p)' = Current(p)
  BY MovedKeeps
<1>4. \A q \in 1 .. started : Live(q)' => Live(q)
  <2> SUFFICES ASSUME NEW q \in 1 .. started, Live(q)' PROVE Live(q)
    OBVIOUS
  <2>1. CASE q = p
    BY <2>1
  <2>2. CASE q # p
    BY <1>1, <2>2 DEF Live
  <2> QED BY <2>1, <2>2
<1>5. Pairs'
  BY <1>2, <1>4 DEF Pairs
<1>6. LookedBeside(p)'
  <2>1. ASSUME NEW m, Foreign(p, link[m])' PROVE Foreign(p, link'[m])
    BY <1>1, <2>1 DEF Foreign
  <2>2. ASSUME NEW m, Own(p, link'[m]) PROVE Own(p, link[m])'
    BY <1>1, <2>2 DEF Own
  <2>3. /\ pod'[p].pc = "check" =>
             \A m \in MODLIST(p)' \ pod'[p].todo : ~Foreign(p, link[m])' \/ Contested(m)'
        /\ pod'[p].pc \in {"mkdir"} \cup PublishLoop =>
             \A m \in MODLIST(p)' : ~Foreign(p, link[m])' \/ Contested(m)'
    BY <1>1, <1>2, <2>1
  <2>4. pod'[p].pc = "mv" => tmp'[Current(p)'] \in {REL(p)', NoLink}
    BY <1>1, <1>2, <1>3
  <2>5. pod'[p].pc = "unlinkStale" => Own(p, link[Current(p)])'
    BY <1>1, <1>3 DEF Own
  <2>6. pod'[p].pc = "unlinkOwn" => \A e \in pod'[p].prev \cap Modules : Own(p, link[e])'
    BY <1>1, <2>2
  <2> QED BY <2>3, <2>4, <2>5, <2>6 DEF LookedBeside
<1>7. BesideInv'
  BY <1>6, OthersUndisturbed DEF BesideInv
<1>8. ProviderKept
  <2> SUFFICES ASSUME NEW m \in Modules, NEW q \in 1 .. started, pod'[q] # pod[q],
                      link'[m] # link[m], Foreign(q, link[m]) \/ Foreign(q, link'[m])
               PROVE  Contested(m)
    BY DEF ProviderKept
  <2>1. q = p
    BY <1>1
  <2>2. ~Foreign(p, REL(p)) /\ ~Foreign(p, NoLink)
    BY PodParts DEF TypeOK, Foreign
  <2> QED BY <2>1, <2>2 DEF Careful
<1> QED
  BY <1>5, <1>7, <1>8

LEMMA BesideStep ==
  ASSUME TypeOK, PlacesInv, Pairs, BesideInv, NEW p \in Pods, Live(p),
         Sync(p) \/ Cleanup(p) \/ ReleaseGone(p) \/ Kill(p)
  PROVE  Pairs' /\ BesideInv' /\ ProviderKept
<1> USE DEF PublishLoop
<1>0. /\ started \in Nat /\ p \in 1 .. started /\ Placed(p) /\ LookedBeside(p)
      /\ REL(p) \in Release /\ link \in [Modules -> Link] /\ tmp \in [Modules -> Link]
      /\ MODLIST(p) \subseteq Modules /\ ~Foreign(p, REL(p))
  BY PodParts DEF TypeOK, Live, Pods, PlacesInv, BesideInv, Foreign
<1>c. pod[p].pc \in {"check"} \cup PublishLoop =>
        Current(p) \in Modules /\ Current(p) \in MODLIST(p) /\ Current(p) \in pod[p].todo
  BY <1>0, CurrentModule
<1>s. pod[p].pc \in {"ln", "mv"} => Provides(p, Current(p))
  BY <1>0, <1>c DEF Provides, Placed, SyncPlaces
<1>q. UNCHANGED <<link, tmp>> => Careful(p)
  BY DEF Careful
<1>l. pod[p].pc \in {"mkdir"} \cup PublishLoop =>
        \A m \in MODLIST(p) : ~Foreign(p, link[m]) \/ Contested(m)
  BY <1>0 DEF LookedBeside
<1>1. CASE CheckConflicts(p)
  <2>0. UNCHANGED <<link, tmp, started>> /\ pod[p].pc = "check"
    BY <1>1, CheckEffect DEF volume
  <2>1. CASE Foreign(p, link[Current(p)])
    BY <1>1, <1>q, <2>0, <2>1, CheckEffect, BesideByMoved
  <2>2. CASE ~Foreign(p, link[Current(p)])
    <3> DEFINE left == pod[p].todo \ {Current(p)}
               place == After(left, "check", "mkdir")
    <3>1. Moved(p, place, left, pod[p].prev, pod[p].old)
      BY <1>1, <2>2, CheckEffect
    <3>2. place \in {"check", "mkdir"} /\ (place = "mkdir" => left = {})
      BY DEF After
    <3>3. \A m \in MODLIST(p) \ left : ~Foreign(p, link[m]) \/ Contested(m)
      BY <1>0, <2>0, <2>2 DEF LookedBeside
    <3> HIDE DEF left, place
    <3>4. place = "check" => \A m \in MODLIST(p) \ left : ~Foreign(p, link'[m]) \/ Contested(m)
      BY <2>0, <3>3
    <3>5. place \in {"mkdir"} \cup PublishLoop =>
            \A m \in MODLIST(p) : ~Foreign(p, link'[m]) \/ Contested(m)
      BY <2>0, <3>2, <3>3
    <3> QED BY <1>q, <2>0, <3>1, <3>2, <3>4, <3>5, BesideByMoved
  <2> QED BY <2>1, <2>2
<1>2. CASE MakeRelease(p)
  BY <1>2, <1>l, <1>q, MakeReleaseEffect, BesideByMoved
<1>3. CASE Publish(p)
  BY <1>3, <1>l, <1>q, PublishEffect, BesideByMoved
<1>4. CASE CopyEnds(p)
  BY <1>4, <1>l, <1>q, CopyEndsEffect, BesideByMoved
<1>5. CASE Rename(p)
  BY <1>5, <1>l, <1>q, RenameEffect, BesideByMoved
<1>6. CASE LinkTemporary(p)
  <2>1. tmp'[Current(p)] = REL(p)
    BY <1>0, <1>c, <1>6, LinkTemporaryEffect
  <2>2. Careful(p)
    BY <1>0, <1>c, <1>s, <1>6, LinkTemporaryEffect DEF Careful
  <2> QED BY <1>6, <1>l, <2>1, <2>2, LinkTemporaryEffect, BesideByMoved
<1>7. CASE Switch(p)
  <2>1. CASE tmp[Current(p)] = NoLink
    BY <1>7, <1>q, <2>1, SwitchEffect, BesideByMoved
  <2>2. CASE tmp[Current(p)] # NoLink
    <3> DEFINE left == pod[p].todo \ {Current(p)}
               place == After(left, "publish", "touch")
    <3>1. /\ pod[p].pc = "mv" /\ started' = started
          /\ Moved(p, place, left, pod[p].prev, pod[p].old)
          /\ link' = [link EXCEPT ![Current(p)] = tmp[Current(p)]]
          /\ tmp' = [tmp EXCEPT ![Current(p)] = NoLink]
      BY <1>7, <2>2, SwitchEffect
    <3>2. place \in {"publish", "touch"}
      BY DEF After
    <3>3. tmp[Current(p)] = REL(p) \/ Contested(Current(p))
      BY <1>0, <2>2, <3>1 DEF LookedBeside
    <3>4. \A m \in MODLIST(p) : ~Foreign(p, link'[m]) \/ Contested(m)
      <4> SUFFICES ASSUME NEW m \in MODLIST(p) PROVE ~Foreign(p, link'[m]) \/ Contested(m)
        OBVIOUS
      <4>1. link'[m] = REL(p) \/ link'[m] = link[m] \/ Contested(m)
        BY <1>0, <3>1, <3>3
      <4> QED BY <1>0, <1>l, <3>1, <4>1
    <3>5. Careful(p)
      <4>1. ~Foreign(p, link[Current(p)]) \/ Contested(Current(p))
        BY <1>c, <1>l, <3>1
      <4> QED BY <1>0, <1>c, <1>s, <3>1, <3>3, <4>1 DEF Careful
    <3> HIDE DEF left, place
    <3> QED BY <3>1, <3>2, <3>4, <3>5, BesideByMoved
  <2> QED BY <2>1, <2>2
<1>8. CASE Touch(p)
  <2>1. After(pod[p].prev \ MODLIST(p), "stale", "record") \in {"stale", "record"}
    BY DEF After
  <2> QED BY <1>8, <1>q, <2>1, TouchEffect, BesideByMoved
<1>9. CASE ReadStale(p)
  <2>1. After(pod[p].todo \ {Current(p)}, "stale", "record") \in {"stale", "record"}
    BY DEF After
  <2> QED BY <1>9, <1>q, <2>1, ReadStaleEffect, BesideByMoved DEF volume
<1>10. CASE UnlinkStale(p)
  <2>1. After(pod[p].todo \ {Current(p)}, "stale", "record") \in {"stale", "record"}
    BY DEF After
  <2>2. ~Foreign(p, link[Current(p)]) \/ Contested(Current(p))
    BY <1>0, <1>10, UnlinkStaleEffect DEF LookedBeside, Own, Foreign
  <2>3. Careful(p)
    BY <1>0, <1>10, <2>2, UnlinkStaleEffect DEF Careful
  <2> QED BY <1>10, <2>1, <2>3, UnlinkStaleEffect, BesideByMoved
<1>11. CASE Record(p)
  BY <1>11, <1>q, RecordEffect, BesideByMoved
<1>12. CASE Prune(p)
  <2>1. PICK place \in {"done", "rm"}, old \in SUBSET Commits :
          Moved(p, place, pod[p].todo, pod[p].prev, old)
    <3>1. pod[p].old \in SUBSET Commits
      BY PodParts DEF TypeOK
    <3> QED BY <1>12, <3>1, PruneEffect
  <2>2. UNCHANGED <<link, tmp, started>>
    BY <1>12, PruneEffect
  <2> QED BY <1>q, <2>1, <2>2, BesideByMoved
<1>13. CASE FindLinks(p)
  <2>1. ASSUME NEW links PROVE After(links, "sweep", "purge") \in {"sweep", "purge"}
    BY DEF After
  <2> QED BY <1>13, <1>q, <2>1, FindEffect, BesideByMoved DEF volume
<1>a. ASSUME NEW e PROVE After(pod[p].todo \ {e}, "sweep", "purge") \in {"sweep", "purge"}
  BY DEF After
<1>14. CASE SweepLinks(p)
  <2>1. PICK e \in pod[p].todo :
          \/ Own(p, Target(e)) /\ Moved(p, "unlinkOwn", pod[p].todo, {e}, pod[p].old)
          \/ Moved(p, After(pod[p].todo \ {e}, "sweep", "purge"), pod[p].todo \ {e}, {},
                   pod[p].old)
    BY <1>14, SweepEffect
  <2>2. UNCHANGED <<link, tmp, started>>
    BY <1>14, SweepEffect DEF volume
  <2>3. CASE Moved(p, "unlinkOwn", pod[p].todo, {e}, pod[p].old) /\ Own(p, Target(e))
    <3>1. \A d \in {e} \cap Modules : Own(p, link'[d])
      <4>1. e \in Modules => Target(e) = link'[e]
        BY <2>2, ModuleTarget, Zenon
      <4> QED BY <2>3, <4>1
    <3> QED BY <1>q, <2>2, <2>3, <3>1, BesideByMoved
  <2>4. CASE Moved(p, After(pod[p].todo \ {e}, "sweep", "purge"), pod[p].todo \ {e}, {},
                   pod[p].old)
    BY <1>a, <1>q, <2>2, <2>4, BesideByMoved
  <2> QED BY <2>1, <2>3, <2>4
<1>15. CASE UnlinkOwn(p)
  <2>1. PICK e \in pod[p].prev :
              /\ Moved(p, After(pod[p].todo \ {e}, "sweep", "purge"), pod[p].todo \ {e}, {},
                       pod[p].old)
              /\ link' = [m \in Modules |-> IF m = e THEN NoLink ELSE link[m]]
              /\ tmp' = [m \in Modules |-> IF m = -e THEN NoLink ELSE tmp[m]]
    BY <1>15, UnlinkOwnEffect
  <2>2. pod[p].pc = "unlinkOwn" /\ started' = started
    BY <1>15, UnlinkOwnEffect
  <2>3. e \in Modules => ~Foreign(p, link[e]) \/ Contested(e)
    BY <1>0, <2>1, <2>2 DEF LookedBeside, Own, Foreign
  <2>4. Careful(p)
    BY <2>1, <2>3 DEF Careful
  <2> QED BY <1>a, <2>1, <2>2, <2>4, BesideByMoved
<1>16. CASE Purge(p)
  BY <1>16, <1>q, PurgeEffect, BesideByMoved
<1>17. CASE PurgeEnds(p)
  BY <1>17, <1>q, PurgeEndsEffect, BesideByMoved
<1>18. CASE ReleaseGone(p)
  <2> DEFINE place == IF pod[p].script = "sync" THEN "prune" ELSE "rm"
  <2>1. PICK c \in pod[p].old : Moved(p, place, pod[p].todo, pod[p].prev, pod[p].old \ {c})
    BY <1>18, ReleaseGoneEffect
  <2>2. UNCHANGED <<link, tmp, started>>
    BY <1>18, ReleaseGoneEffect
  <2>3. place \in {"prune", "rm"}
    OBVIOUS
  <2> HIDE DEF place
  <2> QED BY <1>q, <2>1, <2>2, <2>3, BesideByMoved
<1>19. CASE Kill(p)
  BY <1>19, <1>q, KillEffect, BesideByMoved DEF volume
<1> QED
  BY <1>1, <1>2, <1>3, <1>4, <1>5, <1>6, <1>7, <1>8, <1>9, <1>10, <1>11, <1>12, <1>13, <1>14,
     <1>15, <1>16, <1>17, <1>18, <1>19 DEF Sync, Cleanup

LEMMA BesideStart ==
  ASSUME TypeOK, Pairs, BesideInv, Overlap # "any", NEW script \in {"sync", "cleanup"},
         NEW addon \in Addons, NEW commit \in Commits, Start(script, addon, commit)
  PROVE  Pairs' /\ BesideInv' /\ ProviderKept
<1>1. PICK n \in Pods : n = started + 1 /\ started' = n /\ Fresh(n, script, addon, commit)
  BY StartEffect
<1>2. /\ started \in Nat /\ n \in Nat /\ \A q \in 1 .. started : q \in Pods /\ q < n
      /\ \A q \in 1 .. started' : q \in 1 .. started \/ q = n
      /\ \A q \in 1 .. started : q \in 1 .. started'
  BY <1>1, MaxPodsAssumption DEF TypeOK, Pods
<1>3. \A q \in 1 .. started : pod'[q] = pod[q]
  BY <1>1, <1>2 DEF Fresh
<1>4. \A q \in 1 .. started : Live(q)' => Live(q)
  BY <1>2, <1>3 DEF Live
<1>5. \A q \in 1 .. started : Live(q) => pod[q].addon # addon /\ q \in pod'[n].beside
  <2>1. Overlap = "none" \/ Overlap = "addons"
    BY ModesAssumption
  <2>2. \A q \in 1 .. started : Live(q) => pod[q].addon # addon
    BY <2>1, StartEffect
  <2> QED BY <1>1, <2>2 DEF Fresh
<1>6. pod'[n].addon = addon /\ pod'[n].commit = commit
  BY <1>1 DEF Fresh
<1>7. Pairs'
  <2> SUFFICES ASSUME NEW p \in 1 .. started', NEW q \in 1 .. started', p < q, Live(p)', Live(q)'
               PROVE  p \in pod'[q].beside /\ pod'[p].addon # pod'[q].addon
    BY DEF Pairs
  <2>1. p \in 1 .. started /\ Live(p) /\ pod'[p] = pod[p]
    BY <1>1, <1>2, <1>3, <1>4
  <2>2. CASE q = n
    BY <1>5, <1>6, <2>1, <2>2
  <2>3. CASE q \in 1 .. started
    BY <1>3, <1>4, <2>1, <2>3 DEF Pairs
  <2> QED BY <1>2, <2>2, <2>3
<1>8. UNCHANGED <<link, tmp>>
  BY StartEffect DEF volume
<1>9. ASSUME NEW m, Contested(m) PROVE Contested(m)'
  <2>1. PICK a \in 1 .. started, b \in 1 .. started :
          /\ b \in pod[a].beside /\ pod[a].addon # pod[b].addon
          /\ pod[a].script = "sync" /\ m \in MODLIST(a)
          /\ pod[b].script = "sync" /\ m \in MODLIST(b)
    BY <1>9 DEF Contested
  <2>2. MODLIST(a)' = MODLIST(a)
    BY <1>3, Zenon DEF MODLIST
  <2>3. MODLIST(b)' = MODLIST(b)
    BY <1>3, Zenon DEF MODLIST
  <2> QED BY <1>2, <1>3, <2>1, <2>2, <2>3 DEF Contested
<1>10. LookedBeside(n)'
  <2>1. MODLIST(n)' = ModulesOf[<<addon, commit>>]
    BY <1>6 DEF MODLIST
  <2>2. script = "sync" => pod'[n].todo = ModulesOf[<<addon, commit>>]
    BY <1>1 DEF Fresh
  <2>3. pod'[n].pc = IF script = "sync" THEN "check" ELSE "find"
    BY <1>1 DEF Fresh
  <2> QED BY <2>1, <2>2, <2>3 DEF LookedBeside, PublishLoop
<1>11. ASSUME NEW q \in 1 .. started, Live(q) PROVE LookedBeside(q)'
  <2>1. LookedBeside(q) /\ pod'[q] = pod[q]
    BY <1>3, <1>11 DEF BesideInv
  <2>2. Current(q)' = Current(q)
    BY <2>1, Zenon DEF Current
  <2>3. MODLIST(q)' = MODLIST(q)
    BY <2>1, Zenon DEF MODLIST
  <2>4. REL(q)' = REL(q)
    BY <2>1, Zenon DEF REL
  <2>5. \A m : (Own(q, link[m])' <=> Own(q, link[m])) /\ (Foreign(q, link[m])' <=> Foreign(q, link[m]))
    BY <1>8, <2>1 DEF Own, Foreign
  <2>6. Own(q, link[Current(q)])' <=> Own(q, link[Current(q)])
    BY <1>8, <2>1, <2>2 DEF Own
  <2>7. Contested(Current(q)) => Contested(Current(q))'
    BY <1>9, <2>2
  <2> QED BY <1>8, <1>9, <2>1, <2>2, <2>3, <2>4, <2>5, <2>6, <2>7 DEF LookedBeside
<1>12. BesideInv'
  BY <1>2, <1>4, <1>10, <1>11 DEF BesideInv
<1> QED
  BY <1>7, <1>8, <1>12 DEF ProviderKept

LEMMA BesideNext ==
  ASSUME Overlap # "any", TypeOK, PlacesInv, Pairs, BesideInv, [Next]_vars
  PROVE  Pairs' /\ BesideInv' /\ [ProviderKept]_vars
<1>1. CASE UNCHANGED vars
  <2>1. UNCHANGED <<link, tmp, pod, started>>
    BY <1>1 DEF vars, volume
  <2>2. Pairs'
    BY <2>1 DEF Pairs, Live
  <2>3. BesideInv'
    <3>1. \A m : Contested(m)' <=> Contested(m)
      BY <2>1 DEF Contested, MODLIST
    <3>2. ASSUME NEW q \in 1 .. started, Live(q) PROVE LookedBeside(q)'
      <4>1. LookedBeside(q)
        BY <3>2 DEF BesideInv
      <4>2. Current(q)' = Current(q) /\ REL(q)' = REL(q) /\ MODLIST(q)' = MODLIST(q)
        BY <2>1 DEF Current, REL, MODLIST
      <4>3. Contested(Current(q))' <=> Contested(Current(q))
        BY <2>1, <4>2 DEF Contested, MODLIST
      <4> QED BY <2>1, <3>1, <4>1, <4>2, <4>3 DEF LookedBeside, Own, Foreign
    <3> QED BY <2>1, <3>2 DEF BesideInv, Live
  <2> QED BY <1>1, <2>2, <2>3
<1>2. (CHOOSE c \in Commits : TRUE) \in Commits
  BY SomeAddonAssumption
<1>3. ASSUME NEW p \in Pods, Step(p) \/ Kill(p) PROVE Pairs' /\ BesideInv' /\ ProviderKept
  BY <1>3, BesideStep DEF Step, Kill
<1> QED
  BY <1>1, <1>2, <1>3, BesideStart DEF Next

\* Conflicts are detected before anything changes (conflictCheck, odooaddon_sync.go:384),
\* also when different addons are synced side by side and wherever pods are killed: no pod
\* changes another addon's link of a module, until two syncs of different addons that both
\* have that module have run side by side.
THEOREM ProvidersKept == ASSUME Overlap # "any" PROVE Safety => OneProvider
<1> DEFINE Inv == TypeOK /\ PlacesInv /\ Pairs /\ BesideInv
<1>1. Init => Inv
  BY TypeInit, PlacesInit DEF Init, Pairs, BesideInv, Live
<1>2. Inv /\ [Next]_vars => Inv' /\ [ProviderKept]_vars
  BY TypeStep, PlacesStep, BesideNext
<1> QED
  BY <1>1, <1>2, PTL DEF Safety, OneProvider, ProviderKept

-----------------------------------------------------------------------------
(* A cleanup that ends well has cleaned up. *)

NoOwn(p) == \A e \in Entries : ~Own(p, Target(e))

LEMMA SweptByMoved ==
  ASSUME TypeOK, Solo, NEW p \in Pods, Live(p), started' = started,
         NEW place, NEW todo, NEW prev, NEW old, Moved(p, place, todo, prev, old),
         place \in {"sweep", "unlinkOwn"} => \A e \in Entries \ todo : ~Own(p, Target(e)'),
         place = "purge" => \A e \in Entries : ~Own(p, Target(e)'),
         place = "rm" /\ pod[p].script = "cleanup" =>
           /\ \A e \in Entries : ~Own(p, Target(e)')
           /\ Range(releases'[pod[p].addon]) \subseteq old
  PROVE  \A q \in 1 .. started' : Live(q)' => SweptSoFar(q)'
<1>1. \A q \in 1 .. started' : Live(q)' => q = p
  BY OnlyOne
<1>2. /\ pod'[p].pc = place /\ pod'[p].todo = todo /\ pod'[p].old = old
      /\ pod'[p].addon = pod[p].addon /\ pod'[p].script = pod[p].script
  BY DEF Moved
<1>3. \A e \in Entries : Own(p, Target(e))' <=> Own(p, Target(e)')
  BY <1>2 DEF Own
<1>4. SweptSoFar(p)'
  BY <1>2, <1>3 DEF SweptSoFar
<1> QED
  BY <1>1, <1>4

LEMMA SweepStep ==
  ASSUME TypeOK, Solo, PlacesInv, \A q \in 1 .. started : Live(q) => SweptSoFar(q),
         NEW p \in Pods, Live(p),
         Sync(p) \/ Cleanup(p) \/ ReleaseGone(p) \/ Kill(p)
  PROVE  \A q \in 1 .. started' : Live(q)' => SweptSoFar(q)'
<1>0. /\ started \in Nat /\ p \in 1 .. started /\ Placed(p) /\ SweptSoFar(p)
      /\ pod[p].addon \in Addons
      /\ releases[pod[p].addon] \in Seq(Commits) /\ IsInjective(releases[pod[p].addon])
      /\ releases \in [Addons -> Seq(Commits)] /\ pod[p].old \in SUBSET Commits
  BY PodParts DEF TypeOK, Live, Pods, PlacesInv
<1>u. UNCHANGED <<link, tmp>> => \A e \in Entries : Target(e)' = Target(e)
  BY DEF Target
<1>s. ASSUME Sync(p), NEW place, NEW todo, NEW prev, NEW old, Moved(p, place, todo, prev, old),
             place \notin {"sweep", "unlinkOwn", "purge"}, started' = started
      PROVE  \A q \in 1 .. started' : Live(q)' => SweptSoFar(q)'
  <2>1. pod[p].script = "sync"
    BY <1>0, <1>s DEF Placed, SyncPlaces, PublishLoop, StaleLoop, Sync, CheckConflicts,
         MakeRelease, Publish, CopyEnds, Rename, LinkTemporary, Switch, Touch, ReadStale,
         UnlinkStale, Record, Prune
  <2> QED BY <1>s, <2>1, SweptByMoved
<1>1. CASE Sync(p)
  <2>1. started' = started
        /\ \E place \in {"check", "mkdir", "publish", "copying", "rename", "ln", "mv", "touch",
                         "stale", "unlinkStale", "record", "prune", "rm", "done", "failed"} :
              \E todo, prev, old : Moved(p, place, todo, prev, old)
    <3>a. /\ After(pod[p].todo \ {Current(p)}, "check", "mkdir") \in {"check", "mkdir"}
          /\ After(pod[p].todo \ {Current(p)}, "publish", "touch") \in {"publish", "touch"}
          /\ After(pod[p].todo \ {Current(p)}, "stale", "record") \in {"stale", "record"}
          /\ After(pod[p].prev \ MODLIST(p), "stale", "record") \in {"stale", "record"}
      BY DEF After
    <3>1. CASE CheckConflicts(p)
      BY <3>1, <3>a, CheckEffect
    <3>2. CASE MakeRelease(p)
      BY <3>2, MakeReleaseEffect
    <3>3. CASE Publish(p)
      BY <3>3, PublishEffect
    <3>4. CASE CopyEnds(p)
      BY <3>4, CopyEndsEffect
    <3>5. CASE Rename(p)
      BY <3>5, RenameEffect
    <3>6. CASE LinkTemporary(p)
      BY <3>6, LinkTemporaryEffect
    <3>7. CASE Switch(p)
      BY <3>7, <3>a, SwitchEffect
    <3>8. CASE Touch(p)
      BY <3>8, <3>a, TouchEffect
    <3>9. CASE ReadStale(p)
      BY <3>9, <3>a, ReadStaleEffect
    <3>10. CASE UnlinkStale(p)
      BY <3>10, <3>a, UnlinkStaleEffect
    <3>11. CASE Record(p)
      BY <3>11, RecordEffect
    <3>12. CASE Prune(p)
      BY <3>12, PruneEffect
    <3> QED BY <1>1, <3>1, <3>2, <3>3, <3>4, <3>5, <3>6, <3>7, <3>8, <3>9, <3>10, <3>11, <3>12
            DEF Sync
  <2> QED BY <1>1, <1>s, <2>1
<1>2. CASE FindLinks(p)
  <2>1. PICK links \in SUBSET Entries :
              /\ links = {e \in Entries : Target(e) # NoLink}
              /\ Moved(p, After(links, "sweep", "purge"), links, pod[p].prev, pod[p].old)
    BY <1>2, FindEffect
  <2>2. UNCHANGED <<link, tmp>> /\ started' = started
    BY <1>2, FindEffect DEF volume
  <2>3. \A e \in Entries \ links : ~Own(p, Target(e)')
    BY <1>u, <2>1, <2>2 DEF Own
  <2>4. After(links, "sweep", "purge") \in {"sweep", "purge"}
        /\ (After(links, "sweep", "purge") = "purge" => links = {})
    BY DEF After
  <2> QED BY <2>1, <2>2, <2>3, <2>4, SweptByMoved
<1>a. ASSUME NEW e
      PROVE  /\ After(pod[p].todo \ {e}, "sweep", "purge") \in {"sweep", "purge"}
             /\ After(pod[p].todo \ {e}, "sweep", "purge") = "purge" => pod[p].todo \ {e} = {}
  BY DEF After
<1>3. CASE SweepLinks(p)
  <2>1. PICK e \in pod[p].todo :
          \/ Own(p, Target(e)) /\ Moved(p, "unlinkOwn", pod[p].todo, {e}, pod[p].old)
          \/ /\ ~Own(p, Target(e))
             /\ Moved(p, After(pod[p].todo \ {e}, "sweep", "purge"), pod[p].todo \ {e}, {},
                      pod[p].old)
    BY <1>3, SweepEffect
  <2>2. UNCHANGED <<link, tmp>> /\ started' = started
        /\ \A d \in Entries \ pod[p].todo : ~Own(p, Target(d)')
    BY <1>0, <1>3, <1>u, SweepEffect DEF volume, SweptSoFar
  <2>3. CASE Moved(p, "unlinkOwn", pod[p].todo, {e}, pod[p].old)
    BY <2>2, <2>3, SweptByMoved
  <2>4. CASE /\ ~Own(p, Target(e))
             /\ Moved(p, After(pod[p].todo \ {e}, "sweep", "purge"), pod[p].todo \ {e}, {},
                      pod[p].old)
    <3>1. \A d \in Entries \ (pod[p].todo \ {e}) : ~Own(p, Target(d)')
      BY <1>u, <2>2, <2>4
    <3> DEFINE left == pod[p].todo \ {e}
               place == After(left, "sweep", "purge")
    <3>2. place \in {"sweep", "purge"} /\ (place = "purge" => left = {})
      BY <1>a
    <3>3. \A d \in Entries \ left : ~Own(p, Target(d)')
      BY <3>1
    <3>4. Moved(p, place, left, {}, pod[p].old)
      BY <2>4
    <3> HIDE DEF left, place
    <3> QED BY <2>2, <3>2, <3>3, <3>4, SweptByMoved
  <2> QED BY <2>1, <2>3, <2>4
<1>4. CASE UnlinkOwn(p)
  <2>1. PICK e \in pod[p].prev :
              /\ Moved(p, After(pod[p].todo \ {e}, "sweep", "purge"), pod[p].todo \ {e}, {},
                       pod[p].old)
              /\ link' = [m \in Modules |-> IF m = e THEN NoLink ELSE link[m]]
              /\ tmp' = [m \in Modules |-> IF m = -e THEN NoLink ELSE tmp[m]]
    BY <1>4, UnlinkOwnEffect
  <2>2. pod[p].pc = "unlinkOwn" /\ started' = started
    BY <1>4, UnlinkOwnEffect
  <2>3. e \in Entries
    BY PodParts DEF TypeOK
  <2>4. \A d \in Entries : Target(d)' = IF d = e THEN NoLink ELSE Target(d)
    <3> SUFFICES ASSUME NEW d \in Entries
                 PROVE  Target(d)' = IF d = e THEN NoLink ELSE Target(d)
      OBVIOUS
    <3>1. d \in Int /\ e \in Int
      BY <2>3, EntryIs
    <3>2. CASE d > 0 /\ d \in Modules
      BY <2>1, <3>2 DEF Target
    <3>3. CASE ~(d > 0) /\ -d \in Modules
      <4>1. tmp'[-d] = IF -d = -e THEN NoLink ELSE tmp[-d]
        BY <2>1, <3>3
      <4>2. -d = -e <=> d = e
        BY <3>1
      <4> QED BY <3>3, <4>1, <4>2 DEF Target
    <3> QED BY <3>2, <3>3, EntryIs
  <2> DEFINE left == pod[p].todo \ {e}
             place == After(left, "sweep", "purge")
  <2>5. \A d \in Entries \ pod[p].todo : ~Own(p, Target(d))
    BY <1>0, <2>2 DEF SweptSoFar
  <2>6. \A d \in Entries \ left : ~Own(p, Target(d)')
    BY <2>4, <2>5 DEF Own
  <2>7. place \in {"sweep", "purge"} /\ (place = "purge" => left = {})
    BY <1>a
  <2>8. Moved(p, place, left, {}, pod[p].old)
    BY <2>1
  <2> HIDE DEF left, place
  <2> QED BY <2>2, <2>6, <2>7, <2>8, SweptByMoved
<1>5. CASE Purge(p)
  <2>1. PICK gone \in SUBSET Commits :
              /\ gone = Range(releases[pod[p].addon])
              /\ Moved(p, "rm", pod[p].todo, pod[p].prev, gone)
    BY <1>5, PurgeEffect
  <2>2. pod[p].pc = "purge" /\ UNCHANGED <<link, tmp, releases, started>>
    BY <1>5, PurgeEffect
  <2>3. \A e \in Entries : ~Own(p, Target(e)')
    BY <1>0, <1>u, <2>2 DEF SweptSoFar
  <2> QED BY <2>1, <2>2, <2>3, SweptByMoved
<1>6. CASE PurgeEnds(p)
  BY <1>6, PurgeEndsEffect, SweptByMoved
<1>7. CASE ReleaseGone(p)
  <2> DEFINE place == IF pod[p].script = "sync" THEN "prune" ELSE "rm"
  <2>1. PICK c \in pod[p].old :
              /\ Moved(p, place, pod[p].todo, pod[p].prev, pod[p].old \ {c})
              /\ releases' = [releases EXCEPT ![pod[p].addon] =
                                RemoveFirst(releases[pod[p].addon], c)]
    BY <1>7, ReleaseGoneEffect
  <2>2. pod[p].pc = "rm" /\ UNCHANGED <<link, tmp, started>>
    BY <1>7, ReleaseGoneEffect
  <2>3. place \in {"prune", "rm"} /\ (place = "rm" => pod[p].script # "sync")
    OBVIOUS
  <2>4. releases'[pod[p].addon] = RemoveFirst(releases[pod[p].addon], c)
    BY <1>0, <2>1
  <2>5. Range(releases'[pod[p].addon]) = Range(releases[pod[p].addon]) \ {c}
    BY <1>0, <2>4, RemoveFirstType
  <2>6. pod[p].script = "cleanup" =>
          /\ \A e \in Entries : ~Own(p, Target(e)')
          /\ Range(releases'[pod[p].addon]) \subseteq pod[p].old \ {c}
    BY <1>0, <1>u, <2>2, <2>5 DEF SweptSoFar
  <2> HIDE DEF place
  <2> QED BY <2>1, <2>2, <2>3, <2>6, SweptByMoved
<1>8. CASE Kill(p)
  BY <1>8, KillEffect, SweptByMoved
<1> QED
  BY <1>1, <1>2, <1>3, <1>4, <1>5, <1>6, <1>7, <1>8 DEF Cleanup

\* A pod that has ended and is the last of its addon was so before, and the running pod
\* is of another addon.
LEMMA LastOther ==
  ASSUME TypeOK, Solo, NEW p \in Pods, Live(p), Framed(p), NEW q \in Pods, q # p,
         NEW script, NEW places, LastIn(q, script, places)'
  PROVE  LastIn(q, script, places) /\ pod[p].addon # pod[q].addon /\ pod'[q] = pod[q]
<1>1. p = started /\ started \in Nat /\ 1 .. started \subseteq Pods /\ p \in Nat /\ q \in Nat
  BY MaxPodsAssumption DEF TypeOK, Pods, Live, Solo
<1>2. pod'[q] = pod[q] /\ started' = started /\ q <= started
  BY DEF Framed, LastIn
<1>3. p \in q + 1 .. started
  BY <1>1, <1>2
<1>4. \A r \in q + 1 .. started : pod'[r].addon # pod'[q].addon
  BY <1>2 DEF LastIn
<1>5. \A r \in q + 1 .. started : r \in Pods /\ pod'[r].addon = pod[r].addon
  <2> SUFFICES ASSUME NEW r \in q + 1 .. started
               PROVE  r \in Pods /\ pod'[r].addon = pod[r].addon
    OBVIOUS
  <2>1. r \in Pods
    BY <1>1
  <2> QED BY <2>1 DEF Framed
<1>6. pod[q].pc \in places /\ pod[q].script = script
  BY <1>2 DEF LastIn
<1> QED
  BY <1>2, <1>3, <1>4, <1>5, <1>6 DEF LastIn

LEMMA LastBefore ==
  ASSUME TypeOK, Overlap = "none", NEW s \in {"sync", "cleanup"}, NEW addon \in Addons,
         NEW commit \in Commits, Start(s, addon, commit), NEW q \in Pods, NEW script, NEW places,
         places \subseteq {"rm", "done"}, LastIn(q, script, places)'
  PROVE  LastIn(q, script, places) /\ pod'[q] = pod[q]
<1>1. PICK n \in Pods :
        /\ n = started + 1 /\ started' = n /\ Fresh(n, s, addon, commit)
  BY StartEffect
<1>2. started \in Nat /\ started <= MaxPods /\ n \in Nat /\ q \in Nat /\ q >= 1
  BY MaxPodsAssumption DEF TypeOK, Pods
<1>3. q # n
  BY <1>1 DEF LastIn, Fresh
<1>4. q <= started
  BY <1>1, <1>2, <1>3 DEF LastIn
<1>5. \A r \in Pods : r <= started => pod'[r] = pod[r]
  BY <1>1, <1>2 DEF Fresh
<1>6. pod'[q] = pod[q]
  BY <1>4, <1>5
<1>7. ASSUME NEW r \in q + 1 .. started
      PROVE  r \in Pods /\ r <= started /\ r \in q + 1 .. started'
  <2>1. started' = started + 1
    BY <1>1
  <2>2. r \in Int /\ q + 1 <= r /\ r <= started
    BY <1>2
  <2>3. r \in q + 1 .. started'
    BY <1>2, <2>1, <2>2
  <2>4. r \in 1 .. MaxPods
    BY <1>2, <2>2, MaxPodsAssumption
  <2> QED BY <2>2, <2>3, <2>4 DEF Pods
<1>8. \A r \in q + 1 .. started : pod[r].addon # pod[q].addon
  BY <1>5, <1>6, <1>7 DEF LastIn
<1> QED
  BY <1>4, <1>6, <1>8 DEF LastIn

LEMMA CleanedOther ==
  ASSUME TypeOK, Solo, AllClean, NEW p \in Pods, Live(p), Framed(p), NEW q \in Pods, q # p,
         LastIn(q, "cleanup", {"rm", "done"})'
  PROVE  /\ \A e \in Entries : ~Own(q, Target(e))'
         /\ pod'[q].pc = "done" => releases'[pod'[q].addon] = <<>>
<1>1. /\ LastIn(q, "cleanup", {"rm", "done"}) /\ pod[p].addon # pod[q].addon
      /\ pod'[q] = pod[q]
  BY LastOther
<1>2. /\ \A e \in Entries : ~Own(q, Target(e))
      /\ pod[q].pc = "done" => releases[pod[q].addon] = <<>>
  BY <1>1 DEF AllClean
<1>3. REL(p)[1] = pod[p].addon /\ pod[q].addon \in Addons
  BY PodParts DEF TypeOK
<1>4. releases'[pod[q].addon] = releases[pod[q].addon]
  BY <1>1, <1>3 DEF Framed
<1>5. ASSUME NEW e \in Entries PROVE Target(e)' \in {Target(e), NoLink, REL(p)}
  BY EntryIs DEF Target, Framed
<1>6. ASSUME NEW e \in Entries PROVE ~Own(q, Target(e))'
  BY <1>1, <1>2, <1>3, <1>5 DEF Own
<1> QED
  BY <1>1, <1>2, <1>4, <1>6

LEMMA CleanStep ==
  ASSUME TypeOK, Solo, PlacesInv, LinkInv, CleanInv, NEW p \in Pods, Live(p),
         Sync(p) \/ Cleanup(p) \/ ReleaseGone(p) \/ Kill(p)
  PROVE  CleanInv'
<1>1. \A q \in 1 .. started' : Live(q)' => SweptSoFar(q)'
  BY SweepStep DEF CleanInv
<1>2. Framed(p)
  BY StepFramed
<1>3. started \in Nat /\ p \in 1 .. started /\ Placed(p) /\ SweptSoFar(p) /\ started' = started
      /\ pod[p].addon \in Addons /\ releases \in [Addons -> Seq(Commits)]
  BY <1>2, PodParts DEF TypeOK, Live, Pods, PlacesInv, CleanInv, Framed
<1>4. ASSUME pod'[p].pc = "rm", pod'[p].script = "cleanup"
      PROVE  \A e \in Entries : ~Own(p, Target(e))'
  <2>1. Live(p)'
    BY <1>3, <1>4 DEF Live
  <2>2. SweptSoFar(p)'
    BY <1>1, <1>3, <2>1
  <2> QED BY <1>4, <2>2 DEF SweptSoFar
<1>5. ASSUME pod'[p].pc = "done", pod'[p].script = "cleanup"
      PROVE  /\ \A e \in Entries : ~Own(p, Target(e))'
             /\ releases'[pod'[p].addon] = <<>>
  <2>1. PurgeEnds(p)
    <3>0. pod[p].script = "cleanup"
      BY <1>2, <1>5 DEF Framed
    <3>1. ~Sync(p)
      BY <1>3, <3>0 DEF Placed, SyncPlaces, PublishLoop, StaleLoop, Sync, CheckConflicts,
         MakeRelease, Publish, CopyEnds, Rename, LinkTemporary, Switch, Touch, ReadStale,
         UnlinkStale, Record, Prune
    <3>2. ~Kill(p)
      BY <1>5, KillEffect DEF Moved
    <3>3. ~FindLinks(p) /\ ~SweepLinks(p) /\ ~UnlinkOwn(p)
      <4>1. ASSUME NEW x PROVE After(x, "sweep", "purge") # "done"
        BY DEF After
      <4>2. ~FindLinks(p)
        BY <1>5, <4>1, FindEffect DEF Moved
      <4>3. ASSUME SweepLinks(p) PROVE FALSE
        <5>1. PICK e \in pod[p].todo :
                \/ pod'[p].pc = "unlinkOwn"
                \/ pod'[p].pc = After(pod[p].todo \ {e}, "sweep", "purge")
          BY <4>3, SweepEffect DEF Moved
        <5> QED BY <1>5, <5>1 DEF After
      <4>4. ASSUME UnlinkOwn(p) PROVE FALSE
        <5>1. PICK e \in pod[p].prev :
                pod'[p].pc = After(pod[p].todo \ {e}, "sweep", "purge")
          BY <4>4, UnlinkOwnEffect DEF Moved
        <5> QED BY <1>5, <5>1 DEF After
      <4> QED BY <4>2, <4>3, <4>4
    <3>4. ~Purge(p)
      BY <1>5, PurgeEffect DEF Moved
    <3>5. ~ReleaseGone(p)
      BY <1>5, <3>0, ReleaseGoneEffect DEF Moved
    <3> QED BY <3>1, <3>2, <3>3, <3>4, <3>5 DEF Cleanup
  <2>2. /\ pod[p].pc = "rm" /\ pod[p].script = "cleanup" /\ pod[p].old = {}
        /\ UNCHANGED <<link, tmp, releases>>
    BY <2>1, PurgeEndsEffect
  <2>3. /\ \A e \in Entries : ~Own(p, Target(e))
        /\ Range(releases[pod[p].addon]) \subseteq {}
    BY <1>3, <2>2 DEF SweptSoFar
  <2>4. releases[pod[p].addon] = <<>>
    <3>1. releases[pod[p].addon] \in Seq(Commits)
      BY <1>3
    <3>2. ASSUME Len(releases[pod[p].addon]) > 0 PROVE FALSE
      <4>1. 1 \in DOMAIN releases[pod[p].addon]
        BY <3>1, <3>2
      <4>2. releases[pod[p].addon][1] \in Range(releases[pod[p].addon])
        BY <4>1 DEF Range
      <4> QED BY <2>3, <4>2
    <3> QED BY <3>1, <3>2
  <2>5. pod'[p].addon = pod[p].addon
    BY <1>2 DEF Framed
  <2> QED BY <2>2, <2>3, <2>4, <2>5 DEF Own, Target
<1>6. AllClean'
  <2> SUFFICES ASSUME NEW q \in Pods, LastIn(q, "cleanup", {"rm", "done"})'
               PROVE  /\ \A e \in Entries : ~Own(q, Target(e))'
                      /\ pod'[q].pc = "done" => releases'[pod'[q].addon] = <<>>
    BY DEF AllClean
  <2>1. CASE q # p
    BY <1>2, <2>1, CleanedOther DEF CleanInv
  <2>2. CASE q = p
    <3>1. pod'[p].pc \in {"rm", "done"} /\ pod'[p].script = "cleanup"
      BY <2>2 DEF LastIn
    <3> QED BY <1>4, <1>5, <2>2, <3>1
  <2> QED BY <2>1, <2>2
<1> QED
  BY <1>1, <1>6 DEF CleanInv

LEMMA CleanStart ==
  ASSUME TypeOK, CleanInv, Overlap = "none", NEW script \in {"sync", "cleanup"},
         NEW addon \in Addons, NEW commit \in Commits, Start(script, addon, commit)
  PROVE  CleanInv'
<1>1. PICK n \in Pods : /\ \A r \in 1 .. started' : Live(r)' => r = n
                        /\ Fresh(n, script, addon, commit)
  BY OnlyFresh
<1>2. pod'[n].pc \in {"check", "find"}
  BY <1>1 DEF Fresh
<1>3. SweptSoFar(n)'
  BY <1>2 DEF SweptSoFar
<1>4. AllClean'
  <2> SUFFICES ASSUME NEW q \in Pods, LastIn(q, "cleanup", {"rm", "done"})'
               PROVE  /\ \A e \in Entries : ~Own(q, Target(e))'
                      /\ pod'[q].pc = "done" => releases'[pod'[q].addon] = <<>>
    BY DEF AllClean
  <2>1. LastIn(q, "cleanup", {"rm", "done"}) /\ pod'[q] = pod[q]
    BY LastBefore
  <2>2. UNCHANGED <<link, tmp, releases>>
    BY StartEffect DEF volume
  <2> QED BY <2>1, <2>2 DEF CleanInv, AllClean, Own, Target
<1> QED
  BY <1>1, <1>3, <1>4 DEF CleanInv

LEMMA CleanInit == Init => CleanInv
<1> SUFFICES ASSUME Init PROVE CleanInv
  OBVIOUS
<1>1. \A p \in Pods : ~(p <= started)
  BY DEF Init, Pods
<1> QED
  BY <1>1 DEF Init, CleanInv, AllClean, LastIn, Live

LEMMA CleanNext ==
  ASSUME Overlap = "none", Linked, CleanInv, [Next]_vars
  PROVE  CleanInv'
<1>1. CASE UNCHANGED vars
  BY <1>1 DEF vars, volume, CleanInv, AllClean, SweptSoFar, LastIn, Live, Own, Target
<1>2. (CHOOSE c \in Commits : TRUE) \in Commits
  BY SomeAddonAssumption
<1>3. ASSUME NEW p \in Pods, Step(p) \/ Kill(p) PROVE CleanInv'
  BY <1>3, CleanStep DEF Step, Kill, Linked, Base
<1> QED
  BY <1>1, <1>2, <1>3, CleanStart DEF Next, Linked, Base

\* The cleanup script (buildCleanupScript, odooaddon_sync.go) removes an addon's releases
\* only when no link leads to them, and leaves neither links nor releases, whatever killed
\* pods have left; pods do not overlap.
THEOREM CleanupCleans == ASSUME Overlap = "none" PROVE Safety => []CleanedUp
<1>1. Init => Linked /\ CleanInv
  BY LinkedInit, CleanInit
<1>2. Linked /\ CleanInv /\ [Next]_vars => (Linked /\ CleanInv)'
  BY LinkedStep, CleanNext
<1>3. CleanInv => CleanedUp
  BY DEF CleanInv, AllClean, CleanedUp
<1> QED
  BY <1>1, <1>2, <1>3, PTL DEF Safety


-----------------------------------------------------------------------------
(* A sync publishes its commit. *)

LEMMA RemoveFirstHead ==
  ASSUME NEW s \in Seq(Commits), IsInjective(s), s # <<>>, NEW c \in Commits, s[1] # c
  PROVE  RemoveFirst(s, c) # <<>> /\ RemoveFirst(s, c)[1] = s[1]
<1>1. CASE c \notin Range(s)
  <2>1. RemoveFirst(s, c) = s
    BY <1>1 DEF RemoveFirst, Range
  <2> QED BY <2>1
<1>2. CASE c \in Range(s)
  <2>1. PICK i \in 1 .. Len(s) : c = s[i]
    BY <1>2 DEF Range
  <2>2. i > 1
    BY <2>1
  <2> DEFINE t == RemoveFirst(s, c)
  <2>3. /\ t \in Seq(Commits) /\ Len(t) = Len(s) - 1
        /\ \A j \in 1 .. Len(s) - 1 : t[j] = IF j < i THEN s[j] ELSE s[j + 1]
    BY <2>1, RemoveFirstAt
  <2> HIDE DEF t
  <2>4. Len(t) > 0 /\ t[1] = s[1]
    BY <2>2, <2>3
  <2>5. t # <<>>
    BY <2>3, <2>4
  <2> QED BY <2>4, <2>5 DEF t
<1> QED BY <1>1, <1>2

\* A release behind the newest is removed; the newest stays, first or behind the one
\* that is being removed.
LEMMA PrunedBehind ==
  ASSUME NEW s \in Seq(Commits), IsInjective(s), Len(s) > 2
  PROVE  /\ s[1] # s[3] /\ s # <<>>
         /\ Len(<<s[3]>> \o RemoveFirst(s, s[3])) > 1
         /\ (<<s[3]>> \o RemoveFirst(s, s[3]))[1] = s[3]
         /\ (<<s[3]>> \o RemoveFirst(s, s[3]))[2] = s[1]
<1>1. 3 \in 1 .. Len(s) /\ 1 \in 1 .. Len(s) /\ s[3] \in Commits
  OBVIOUS
<1>2. s[1] # s[3]
  BY <1>1 DEF IsInjective
<1> DEFINE c == s[3]
           t == RemoveFirst(s, s[3])
           u == <<s[3]>> \o t
<1>3. t \in Seq(Commits) /\ Len(t) = Len(s) - 1 /\ t[1] = s[1]
  <2>1. /\ t \in Seq(Commits) /\ Len(t) = Len(s) - 1
        /\ \A j \in 1 .. Len(s) - 1 : t[j] = IF j < 3 THEN s[j] ELSE s[j + 1]
    BY <1>1, RemoveFirstAt
  <2> HIDE DEF t
  <2> QED BY <2>1
<1>4. u[1] = c /\ Len(u) = Len(t) + 1 /\ \A i \in 1 .. Len(t) : u[i + 1] = t[i]
  BY <1>1, ToFrontType
<1> HIDE DEF t, u
<1>5. Len(u) > 1 /\ u[2] = s[1]
  <2>1. 1 \in 1 .. Len(t)
    BY <1>3
  <2>2. u[1 + 1] = t[1]
    BY <1>4, <2>1
  <2> QED BY <1>3, <1>4, <2>2
<1> QED
  BY <1>2, <1>4, <1>5 DEF t, u

\* The last release that was going is gone.
LEMMA GoneBehind ==
  ASSUME NEW s \in Seq(Commits), IsInjective(s), NEW commit \in Commits, NEW c \in Commits,
         FirstOrNext(s, commit, {c})
  PROVE  c # commit /\ First(RemoveFirst(s, c), commit)
<1>1. c # commit /\ (First(s, commit) \/ (Len(s) > 1 /\ s[1] = c /\ s[2] = commit))
  BY DEF FirstOrNext
<1>2. CASE First(s, commit)
  BY <1>1, <1>2, RemoveFirstHead DEF First
<1>3. CASE Len(s) > 1 /\ s[1] = c /\ s[2] = commit
  <2> DEFINE t == RemoveFirst(s, s[1])
  <2>1. /\ t \in Seq(Commits) /\ Len(t) = Len(s) - 1
        /\ \A j \in 1 .. Len(s) - 1 : t[j] = IF j < 1 THEN s[j] ELSE s[j + 1]
    <3>1. 1 \in 1 .. Len(s)
      BY <1>3
    <3> QED BY <3>1, RemoveFirstAt
  <2> HIDE DEF t
  <2>2. 1 \in 1 .. Len(s) - 1
    BY <1>3
  <2>3. t[1] = s[2] /\ Len(t) > 0
    BY <1>3, <2>1, <2>2
  <2>4. t # <<>>
    BY <2>1, <2>3
  <2> QED BY <1>1, <1>3, <2>3, <2>4 DEF First, t
<1> QED
  BY <1>1, <1>2, <1>3

\* What PublishInv says of p, after a step of p.
PublishedNext(p, m) == link'[m] = REL(p) /\ content'[REL(p)][m] = "whole"
AllPublishedNext(p) == \A m \in MODLIST(p) : PublishedNext(p, m)
Publishing(p, place, todo, old) ==
    /\ \A r \in Release, m \in Modules : content'[r][m] = "going" =>
         place = "rm" /\ r[1] = pod[p].addon /\ r[2] \in old
    /\ place \in PublishLoop => \A m \in MODLIST(p) \ todo : PublishedNext(p, m)
    /\ place \in {"ln", "mv"} =>
         todo = pod[p].todo /\ content'[REL(p)][Current(p)] = "whole"
    /\ pod[p].script = "sync" /\ place \in {"touch", "record", "prune", "rm", "done"} \cup StaleLoop =>
         AllPublishedNext(p)
    /\ place \in {"record", "prune"} \cup StaleLoop =>
         First(releases'[pod[p].addon], pod[p].commit)
    /\ pod[p].script = "sync" /\ place = "rm" =>
         FirstOrNext(releases'[pod[p].addon], pod[p].commit, old)

LEMMA PublishedOther ==
  ASSUME TypeOK, Solo, AllPublished, NEW p \in Pods, Live(p), Framed(p), NEW q \in Pods, q # p,
         LastIn(q, "sync", {"done"})'
  PROVE  \A m \in MODLIST(q)' : link'[m] = REL(q)' /\ content'[REL(q)'][m] = "whole"
<1>1. /\ LastIn(q, "sync", {"done"}) /\ pod[p].addon # pod[q].addon
      /\ pod'[q] = pod[q]
  BY LastOther
<1>2. \A m \in MODLIST(q) : link[m] = REL(q) /\ content[REL(q)][m] = "whole"
  BY <1>1 DEF AllPublished
<1>3. REL(q) \in Release /\ REL(q) # NoLink /\ REL(q)[1] = pod[q].addon /\ MODLIST(q) \subseteq Modules
  BY PodParts DEF TypeOK
<1>4. MODLIST(q)' = MODLIST(q)
  BY <1>1, Zenon DEF MODLIST
<1>5. REL(q)' = REL(q)
  BY <1>1, Zenon DEF REL
<1>6. content'[REL(q)] = content[REL(q)]
  BY <1>1, <1>3 DEF Framed
<1>7. \A m \in MODLIST(q) : link'[m] = link[m]
  BY <1>1, <1>2, <1>3 DEF Framed, Foreign
<1> QED
  BY <1>2, <1>4, <1>5, <1>6, <1>7

LEMMA PublishByMoved ==
  ASSUME TypeOK, Solo, AllPublished, NEW p \in Pods, Live(p), Framed(p),
         NEW place, NEW todo, NEW prev, NEW old, Moved(p, place, todo, prev, old),
         Publishing(p, place, todo, old)
  PROVE  PublishInv'
<1>1. started' = started
  BY DEF Framed
<1>2. /\ \A q \in 1 .. started' : Live(q)' => q = p
      /\ p \in 1 .. started' /\ (place = "rm" => Live(p)')
  BY <1>1, OnlyOne
<1>3. MODLIST(p)' = MODLIST(p) /\ REL(p)' = REL(p) /\ (todo = pod[p].todo => Current(p)' = Current(p))
  BY MovedKeeps
<1>4. /\ pod'[p].pc = place /\ pod'[p].todo = todo /\ pod'[p].old = old
      /\ pod'[p].addon = pod[p].addon /\ pod'[p].script = pod[p].script
      /\ pod'[p].commit = pod[p].commit
  BY DEF Moved
<1>5. GoingInv'
  BY <1>2, <1>4 DEF GoingInv, Publishing
<1>6. ASSUME NEW m PROVE Published(p, m)' <=> PublishedNext(p, m)
  BY <1>3 DEF Published, PublishedNext
<1>7. PublishedSoFar(p)'
  <2>1. pod'[p].pc \in PublishLoop => \A m \in MODLIST(p)' \ pod'[p].todo : Published(p, m)'
    BY <1>3, <1>4, <1>6 DEF Publishing
  <2>2. pod'[p].pc \in {"ln", "mv"} => content'[REL(p)'][Current(p)'] = "whole"
    BY <1>3, <1>4 DEF Publishing
  <2>3. pod'[p].script = "sync" /\ pod'[p].pc \in {"touch", "record", "prune", "rm"} \cup StaleLoop =>
         \A m \in MODLIST(p)' : Published(p, m)'
    BY <1>3, <1>4, <1>6 DEF Publishing, AllPublishedNext
  <2>4. pod'[p].pc \in {"record", "prune"} \cup StaleLoop =>
         First(releases'[pod'[p].addon], pod'[p].commit)
    BY <1>4 DEF Publishing
  <2>5. pod'[p].script = "sync" /\ pod'[p].pc = "rm" =>
         FirstOrNext(releases'[pod'[p].addon], pod'[p].commit, pod'[p].old)
    BY <1>4 DEF Publishing
  <2> QED BY <2>1, <2>2, <2>3, <2>4, <2>5 DEF PublishedSoFar
<1>8. AllPublished'
  <2> SUFFICES ASSUME NEW q \in Pods, LastIn(q, "sync", {"done"})'
               PROVE  \A m \in MODLIST(q)' : link'[m] = REL(q)' /\ content'[REL(q)'][m] = "whole"
    BY DEF AllPublished
  <2>1. CASE q # p
    BY <2>1, PublishedOther
  <2>2. CASE q = p
    <3>1. place = "done" /\ pod[p].script = "sync"
      BY <1>4, <2>2 DEF LastIn
    <3>2. AllPublishedNext(p)
      BY <3>1 DEF Publishing
    <3> QED BY <1>3, <2>2, <3>2 DEF AllPublishedNext, PublishedNext
  <2> QED BY <2>1, <2>2
<1> QED
  BY <1>2, <1>5, <1>7, <1>8 DEF PublishInv

LEMMA PublishSync ==
  ASSUME TypeOK, Solo, PlacesInv, CopyInv, LinkInv, PublishInv, NEW p \in Pods, Live(p), Framed(p),
         Sync(p)
  PROVE  PublishInv'
<1>0. /\ started \in Nat /\ p \in 1 .. started /\ Placed(p) /\ Copied(p) /\ Looked(p)
      /\ PublishedSoFar(p) /\ AllPublished /\ GoingInv
      /\ \A r \in Release, m \in Modules : content[r][m] # "half"
      /\ REL(p) \in Release /\ MODLIST(p) \subseteq Modules
      /\ content \in [Release -> [Modules -> Content]] /\ link \in [Modules -> Link]
      /\ pod[p].addon \in Addons /\ pod[p].commit \in Commits
  BY PodParts DEF TypeOK, Live, Pods, PlacesInv, CopyInv, LinkInv, PublishInv
<1>r. /\ releases \in [Addons -> Seq(Commits)]
      /\ releases[pod[p].addon] \in Seq(Commits) /\ IsInjective(releases[pod[p].addon])
  BY <1>0 DEF TypeOK
<1>g. pod[p].pc # "rm" => \A r \in Release, m \in Modules : content[r][m] # "going"
  BY <1>0 DEF GoingInv, Solo
<1>n. pod[p].pc # "rm" /\ UNCHANGED content =>
        \A r \in Release, m \in Modules : content'[r][m] # "going"
  BY <1>g
<1>c. pod[p].pc \in PublishLoop =>
        Current(p) \in pod[p].todo /\ Current(p) \in MODLIST(p) /\ Current(p) \in Modules
  BY <1>0, CurrentModule
<1>k. UNCHANGED <<link, content>> => \A m : Published(p, m) => PublishedNext(p, m)
  BY DEF Published, PublishedNext
<1>l. pod[p].pc \in PublishLoop /\ UNCHANGED <<link, content>> =>
        \A m \in MODLIST(p) \ pod[p].todo : PublishedNext(p, m)
  BY <1>0, <1>k DEF PublishedSoFar
<1>a. pod[p].pc \in {"touch", "record", "prune"} \cup StaleLoop /\ UNCHANGED <<link, content>> =>
        AllPublishedNext(p)
  <2>1. pod[p].pc \in {"touch", "record", "prune"} \cup StaleLoop => pod[p].script = "sync"
    BY <1>0 DEF Placed, SyncPlaces
  <2> QED BY <1>0, <1>k, <2>1 DEF PublishedSoFar, AllPublishedNext
<1>h. pod[p].pc \in {"record", "prune"} \cup StaleLoop =>
        First(releases[pod[p].addon], pod[p].commit)
  BY <1>0 DEF PublishedSoFar
<1>1. CASE CheckConflicts(p)
  <2> DEFINE left == pod[p].todo \ {Current(p)}
             place == After(left, "check", "mkdir")
  <2>1. pod[p].pc = "check" /\ UNCHANGED content
    BY <1>1, CheckEffect DEF volume
  <2>2. place \in {"check", "mkdir"}
    BY DEF After
  <2>3. Moved(p, "failed", {}, {}, {}) \/ Moved(p, place, left, pod[p].prev, pod[p].old)
    BY <1>1, CheckEffect
  <2> HIDE DEF left, place
  <2>4. Publishing(p, place, left, pod[p].old) /\ Publishing(p, "failed", {}, {})
    BY <1>n, <2>1, <2>2 DEF Publishing, PublishLoop, StaleLoop
  <2> QED BY <1>0, <2>3, <2>4, PublishByMoved
<1>2. CASE MakeRelease(p)
  <2>1. pod[p].pc = "mkdir" /\ UNCHANGED content
        /\ Moved(p, "publish", MODLIST(p), recorded[pod[p].addon], pod[p].old)
    BY <1>2, MakeReleaseEffect
  <2>2. Publishing(p, "publish", MODLIST(p), pod[p].old)
    BY <1>n, <2>1 DEF Publishing, PublishLoop, StaleLoop
  <2> QED BY <1>0, <2>1, <2>2, PublishByMoved
<1>3. CASE Publish(p)
  <2>1. pod[p].pc = "publish" /\ UNCHANGED <<link, content>>
    BY <1>3, PublishEffect
  <2>2. /\ \A m \in MODLIST(p) \ pod[p].todo : PublishedNext(p, m)
        /\ \A r \in Release, m \in Modules : content'[r][m] # "going"
        /\ Current(p) \in Modules
    BY <1>l, <1>n, <1>c, <2>1 DEF PublishLoop
  <2>3. CASE content[REL(p)][Current(p)] # "none"
    <3>1. content[REL(p)][Current(p)] \in Content
      BY <1>0, <2>2
    <3>2. content'[REL(p)][Current(p)] = "whole"
      BY <1>0, <1>g, <2>1, <2>2, <2>3, <3>1 DEF Content
    <3>3. Publishing(p, "ln", pod[p].todo, pod[p].old)
      BY <2>2, <3>2 DEF Publishing, PublishLoop, StaleLoop
    <3> QED BY <1>0, <1>3, <2>3, <3>3, PublishEffect, PublishByMoved
  <2>4. CASE content[REL(p)][Current(p)] = "none"
    <3>1. Publishing(p, "copying", pod[p].todo, pod[p].old)
      BY <2>2 DEF Publishing, PublishLoop, StaleLoop
    <3> QED BY <1>0, <1>3, <2>4, <3>1, PublishEffect, PublishByMoved
  <2> QED BY <2>3, <2>4
<1>4. CASE CopyEnds(p)
  <2>1. pod[p].pc = "copying" /\ UNCHANGED <<link, content>>
    BY <1>4, CopyEndsEffect
  <2>2. /\ \A m \in MODLIST(p) \ pod[p].todo : PublishedNext(p, m)
        /\ \A r \in Release, m \in Modules : content'[r][m] # "going"
    BY <1>l, <1>n, <2>1 DEF PublishLoop
  <2>3. Publishing(p, "rename", pod[p].todo, pod[p].old) /\ Publishing(p, "failed", {}, {})
    BY <2>2 DEF Publishing, PublishLoop, StaleLoop
  <2> QED BY <1>0, <1>4, <2>3, CopyEndsEffect, PublishByMoved
<1>5. CASE Rename(p)
  <2>1. pod[p].pc = "rename" /\ UNCHANGED link
    BY <1>5, RenameEffect
  <2>2. CASE Moved(p, "failed", {}, {}, {}) /\ UNCHANGED content
    <3>1. Publishing(p, "failed", {}, {})
      BY <1>n, <2>1, <2>2 DEF Publishing, PublishLoop, StaleLoop
    <3> QED BY <1>0, <2>2, <3>1, PublishByMoved
  <2> DEFINE whole == IF content[REL(p)][Current(p)] = "none"
                        THEN partial[REL(p)][Current(p)].content
                        ELSE content[REL(p)][Current(p)]
  <2>3. CASE /\ Moved(p, "ln", pod[p].todo, pod[p].prev, pod[p].old)
             /\ content' = [content EXCEPT ![REL(p)][Current(p)] = whole]
    <3>1. Current(p) \in Modules /\ Current(p) \in pod[p].todo
      BY <1>c, <2>1 DEF PublishLoop
    <3>2. content[REL(p)][Current(p)] \in Content
      BY <1>0, <3>1
    <3>3. whole = "whole"
      BY <1>0, <1>g, <2>1, <3>1, <3>2 DEF Copied, Content
    <3> HIDE DEF whole
    <3>4. /\ content'[REL(p)][Current(p)] = "whole"
          /\ \A r \in Release, m \in Modules : content'[r][m] \in {content[r][m], "whole"}
          /\ \A m \in Modules : content[REL(p)][m] = "whole" => content'[REL(p)][m] = "whole"
      BY <1>0, <2>3, <3>1, <3>3
    <3>5. \A r \in Release, m \in Modules : content'[r][m] # "going"
      BY <1>g, <2>1, <3>4
    <3>6. \A m \in MODLIST(p) \ pod[p].todo : PublishedNext(p, m)
      BY <1>0, <2>1, <3>4 DEF PublishedSoFar, PublishLoop, Published, PublishedNext
    <3>7. Publishing(p, "ln", pod[p].todo, pod[p].old)
      BY <3>4, <3>5, <3>6 DEF Publishing, PublishLoop, StaleLoop
    <3> QED BY <1>0, <2>3, <3>7, PublishByMoved
  <2> QED BY <1>5, <2>2, <2>3, RenameEffect
<1>6. CASE LinkTemporary(p)
  <2>1. pod[p].pc = "ln" /\ UNCHANGED <<link, content>>
        /\ Moved(p, "mv", pod[p].todo, pod[p].prev, pod[p].old)
    BY <1>6, LinkTemporaryEffect
  <2>2. content'[REL(p)][Current(p)] = "whole"
    BY <1>0, <2>1 DEF PublishedSoFar
  <2>3. Publishing(p, "mv", pod[p].todo, pod[p].old)
    BY <1>l, <1>n, <2>1, <2>2 DEF Publishing, PublishLoop, StaleLoop
  <2> QED BY <1>0, <2>1, <2>3, PublishByMoved
<1>7. CASE Switch(p)
  <2> DEFINE left == pod[p].todo \ {Current(p)}
             place == After(left, "publish", "touch")
  <2>1. pod[p].pc = "mv" /\ UNCHANGED content
    BY <1>7, SwitchEffect
  <2>2. tmp[Current(p)] = REL(p) /\ REL(p) # NoLink /\ Current(p) \in Modules
        /\ content[REL(p)][Current(p)] = "whole"
    BY <1>0, <1>c, <2>1, PodParts DEF Looked, PublishedSoFar, PublishLoop, TypeOK
  <2>3. /\ Moved(p, place, left, pod[p].prev, pod[p].old)
        /\ link' = [link EXCEPT ![Current(p)] = REL(p)]
    BY <1>7, <2>2, SwitchEffect
  <2>4. place \in {"publish", "touch"} /\ (place = "touch" => left = {})
    BY DEF After
  <2>5. \A m \in MODLIST(p) \ left : PublishedNext(p, m)
    <3> SUFFICES ASSUME NEW m \in MODLIST(p) \ left PROVE PublishedNext(p, m)
      OBVIOUS
    <3>1. CASE m = Current(p)
      BY <1>0, <2>1, <2>2, <2>3, <3>1 DEF PublishedNext
    <3>2. CASE m # Current(p)
      <4>1. m \in MODLIST(p) \ pod[p].todo /\ m \in Modules
        BY <1>0, <3>2
      <4>2. Published(p, m)
        BY <1>0, <2>1, <4>1 DEF PublishedSoFar, PublishLoop
      <4> QED BY <1>0, <2>1, <2>3, <3>2, <4>1, <4>2 DEF Published, PublishedNext
    <3> QED BY <3>1, <3>2
  <2> HIDE DEF left, place
  <2>6. place = "touch" => AllPublishedNext(p)
    BY <2>4, <2>5 DEF AllPublishedNext
  <2>7. Publishing(p, place, left, pod[p].old)
    BY <1>n, <2>1, <2>4, <2>5, <2>6 DEF Publishing, PublishLoop, StaleLoop
  <2> QED BY <1>0, <2>3, <2>7, PublishByMoved
<1>8. CASE Touch(p)
  <2> DEFINE left == pod[p].prev \ MODLIST(p)
             place == After(left, "stale", "record")
  <2>1. /\ pod[p].pc = "touch" /\ UNCHANGED <<link, content>>
        /\ Moved(p, place, left, pod[p].prev, pod[p].old)
        /\ releases' = [releases EXCEPT ![pod[p].addon] = ToFront(p)]
    BY <1>8, TouchEffect
  <2>2. place \in {"stale", "record"}
    BY DEF After
  <2>3. First(releases'[pod[p].addon], pod[p].commit)
    <3>1. releases'[pod[p].addon] = ToFront(p)
      BY <1>0, <1>r, <2>1
    <3>2. First(ToFront(p), pod[p].commit)
      BY <1>0, <1>r, ToFrontType DEF First, ToFront
    <3> QED BY <3>1, <3>2
  <2> HIDE DEF left, place
  <2>4. Publishing(p, place, left, pod[p].old)
    BY <1>a, <1>n, <2>1, <2>2, <2>3 DEF Publishing, PublishLoop, StaleLoop
  <2> QED BY <1>0, <2>1, <2>4, PublishByMoved
<1>9. CASE ReadStale(p)
  <2> DEFINE left == pod[p].todo \ {Current(p)}
             place == After(left, "stale", "record")
  <2>1. /\ pod[p].pc = "stale" /\ UNCHANGED <<link, content, releases>>
        /\ \/ Moved(p, "unlinkStale", pod[p].todo, pod[p].prev, pod[p].old)
           \/ Moved(p, place, left, pod[p].prev, pod[p].old)
    BY <1>9, ReadStaleEffect DEF volume
  <2>2. place \in {"stale", "record"}
    BY DEF After
  <2> HIDE DEF left, place
  <2>3. Publishing(p, place, left, pod[p].old) /\ Publishing(p, "unlinkStale", pod[p].todo, pod[p].old)
    BY <1>a, <1>h, <1>n, <2>1, <2>2 DEF Publishing, PublishLoop, StaleLoop
  <2> QED BY <1>0, <2>1, <2>3, PublishByMoved
<1>10. CASE UnlinkStale(p)
  <2> DEFINE left == pod[p].todo \ {Current(p)}
             place == After(left, "stale", "record")
  <2>1. /\ pod[p].pc = "unlinkStale" /\ UNCHANGED <<content, releases>>
        /\ Moved(p, place, left, pod[p].prev, pod[p].old)
        /\ link' = [link EXCEPT ![Current(p)] = NoLink]
    BY <1>10, UnlinkStaleEffect
  <2>2. place \in {"stale", "record"}
    BY DEF After
  <2>3. Current(p) \notin MODLIST(p) /\ pod[p].script = "sync"
    BY <1>0, <2>1, CurrentModule DEF StaleLoop, Placed, SyncPlaces
  <2>4. AllPublishedNext(p)
    BY <1>0, <2>1, <2>3 DEF PublishedSoFar, StaleLoop, Published, AllPublishedNext, PublishedNext
  <2> HIDE DEF left, place
  <2>5. Publishing(p, place, left, pod[p].old)
    BY <1>h, <1>n, <2>1, <2>2, <2>4 DEF Publishing, PublishLoop, StaleLoop
  <2> QED BY <1>0, <2>1, <2>5, PublishByMoved
<1>11. CASE Record(p)
  <2>1. /\ pod[p].pc = "record" /\ UNCHANGED <<link, content, releases>>
        /\ Moved(p, "prune", pod[p].todo, {}, pod[p].old)
    BY <1>11, RecordEffect
  <2>2. Publishing(p, "prune", pod[p].todo, pod[p].old)
    BY <1>a, <1>h, <1>n, <2>1 DEF Publishing, PublishLoop, StaleLoop
  <2> QED BY <1>0, <2>1, <2>2, PublishByMoved
<1>12. CASE Prune(p)
  <2> DEFINE mine == releases[pod[p].addon]
  <2>1. /\ pod[p].pc = "prune" /\ UNCHANGED link /\ First(mine, pod[p].commit)
        /\ \A m \in MODLIST(p) : Published(p, m)
    BY <1>0, <1>12, <1>h, PruneEffect DEF PublishedSoFar, Placed, SyncPlaces
  <2>2. CASE Moved(p, "done", pod[p].todo, pod[p].prev, pod[p].old) /\ UNCHANGED <<content, releases>>
    <3>1. Publishing(p, "done", pod[p].todo, pod[p].old)
      BY <1>a, <1>n, <2>1, <2>2 DEF Publishing, PublishLoop, StaleLoop
    <3> QED BY <1>0, <2>2, <3>1, PublishByMoved
  <2>3. ASSUME NEW c \in Commits, Len(mine) > 2, c = mine[3],
               Moved(p, "rm", pod[p].todo, pod[p].prev, {c}), content' = Going(p, {c}),
               \/ UNCHANGED releases
               \/ releases' = [releases EXCEPT ![pod[p].addon] = <<c>> \o RemoveFirst(mine, c)]
        PROVE  PublishInv'
    <3>1. /\ mine[1] # c /\ Len(<<c>> \o RemoveFirst(mine, c)) > 1
          /\ (<<c>> \o RemoveFirst(mine, c))[1] = c
          /\ (<<c>> \o RemoveFirst(mine, c))[2] = mine[1]
      BY <1>r, <2>3, PrunedBehind
    <3>2. c # pod[p].commit
      BY <2>1, <3>1 DEF First
    <3>3. releases'[pod[p].addon] \in {mine, <<c>> \o RemoveFirst(mine, c)}
      BY <1>0, <1>r, <2>3
    <3>4. FirstOrNext(releases'[pod[p].addon], pod[p].commit, {c})
      BY <2>1, <3>1, <3>2, <3>3 DEF FirstOrNext, First
    <3>5. \A m \in Modules : content'[REL(p)][m] = content[REL(p)][m]
      <4>1. REL(p)[2] = pod[p].commit
        BY PodParts DEF TypeOK
      <4> QED BY <1>0, <2>3, <3>2, <4>1 DEF Going
    <3>6. \A r \in Release, m \in Modules : content'[r][m] = "going" =>
             r[1] = pod[p].addon /\ r[2] \in {c}
      BY <1>g, <2>1, <2>3 DEF Going
    <3>7. AllPublishedNext(p)
      BY <1>0, <2>1, <3>5 DEF Published, AllPublishedNext, PublishedNext
    <3>8. Publishing(p, "rm", pod[p].todo, {c})
      BY <3>4, <3>6, <3>7 DEF Publishing, PublishLoop, StaleLoop
    <3> QED BY <1>0, <2>3, <3>8, PublishByMoved
  <2> QED BY <1>12, <2>2, <2>3, PruneEffect
<1> QED
  BY <1>1, <1>2, <1>3, <1>4, <1>5, <1>6, <1>7, <1>8, <1>9, <1>10, <1>11, <1>12 DEF Sync

LEMMA PublishRest ==
  ASSUME TypeOK, Solo, PlacesInv, PublishInv, Kills # "anywhere",
         NEW p \in Pods, Live(p), Framed(p), Cleanup(p) \/ ReleaseGone(p) \/ Kill(p)
  PROVE  PublishInv'
<1>0. /\ started \in Nat /\ p \in 1 .. started /\ Placed(p) /\ PublishedSoFar(p)
      /\ AllPublished /\ GoingInv
      /\ REL(p) \in Release /\ MODLIST(p) \subseteq Modules
      /\ content \in [Release -> [Modules -> Content]]
      /\ pod[p].addon \in Addons /\ pod[p].commit \in Commits /\ pod[p].old \in SUBSET Commits
      /\ pod[p].script \in {"sync", "cleanup"}
  <2>1. started \in Nat /\ p \in 1 .. started
    BY DEF TypeOK, Live, Pods
  <2>2. Placed(p) /\ PublishedSoFar(p) /\ AllPublished /\ GoingInv
    BY <2>1 DEF PlacesInv, PublishInv
  <2> QED BY <2>1, <2>2, PodParts DEF TypeOK
<1>r. /\ releases \in [Addons -> Seq(Commits)]
      /\ releases[pod[p].addon] \in Seq(Commits) /\ IsInjective(releases[pod[p].addon])
  BY <1>0 DEF TypeOK
<1>g. \A r \in Release, m \in Modules : content[r][m] = "going" =>
        pod[p].pc = "rm" /\ r[1] = pod[p].addon /\ r[2] \in pod[p].old
  BY <1>0 DEF GoingInv, Solo
<1>f. ASSUME NEW place, NEW todo, NEW old, pod[p].script = "cleanup",
             place \in {"sweep", "purge", "unlinkOwn", "rm", "done"},
             \A r \in Release, m \in Modules : content'[r][m] = "going" =>
               place = "rm" /\ r[1] = pod[p].addon /\ r[2] \in old
      PROVE  Publishing(p, place, todo, old)
  BY <1>f DEF Publishing, PublishLoop, StaleLoop
<1>p. pod[p].pc \in CleanupPlaces => pod[p].script = "cleanup"
  BY <1>0 DEF Placed
<1>1. CASE FindLinks(p)
  <2>1. PICK links \in SUBSET Entries :
              Moved(p, After(links, "sweep", "purge"), links, pod[p].prev, pod[p].old)
    BY <1>1, FindEffect
  <2>2. pod[p].pc = "find" /\ UNCHANGED content
    BY <1>1, FindEffect DEF volume
  <2>3. After(links, "sweep", "purge") \in {"sweep", "purge"}
    BY DEF After
  <2>4. Publishing(p, After(links, "sweep", "purge"), links, pod[p].old)
    BY <1>f, <1>g, <1>p, <2>2, <2>3 DEF CleanupPlaces
  <2> QED BY <1>0, <2>1, <2>4, PublishByMoved
<1>2. CASE SweepLinks(p)
  <2>1. PICK e \in pod[p].todo :
          \/ Moved(p, "unlinkOwn", pod[p].todo, {e}, pod[p].old)
          \/ Moved(p, After(pod[p].todo \ {e}, "sweep", "purge"), pod[p].todo \ {e}, {}, pod[p].old)
    BY <1>2, SweepEffect
  <2>2. pod[p].pc = "sweep" /\ UNCHANGED content
    BY <1>2, SweepEffect DEF volume
  <2>3. After(pod[p].todo \ {e}, "sweep", "purge") \in {"sweep", "purge"}
    BY DEF After
  <2>4. /\ Publishing(p, After(pod[p].todo \ {e}, "sweep", "purge"), pod[p].todo \ {e}, pod[p].old)
        /\ Publishing(p, "unlinkOwn", pod[p].todo, pod[p].old)
    BY <1>f, <1>g, <1>p, <2>2, <2>3 DEF CleanupPlaces
  <2> QED BY <1>0, <2>1, <2>4, PublishByMoved
<1>3. CASE UnlinkOwn(p)
  <2>1. PICK e \in pod[p].prev :
          Moved(p, After(pod[p].todo \ {e}, "sweep", "purge"), pod[p].todo \ {e}, {}, pod[p].old)
    BY <1>3, UnlinkOwnEffect
  <2>2. pod[p].pc = "unlinkOwn" /\ UNCHANGED content
    BY <1>3, UnlinkOwnEffect
  <2>3. After(pod[p].todo \ {e}, "sweep", "purge") \in {"sweep", "purge"}
    BY DEF After
  <2>4. Publishing(p, After(pod[p].todo \ {e}, "sweep", "purge"), pod[p].todo \ {e}, pod[p].old)
    BY <1>f, <1>g, <1>p, <2>2, <2>3 DEF CleanupPlaces
  <2> QED BY <1>0, <2>1, <2>4, PublishByMoved
<1>4. CASE Purge(p)
  <2>1. PICK gone \in SUBSET Commits :
              /\ Moved(p, "rm", pod[p].todo, pod[p].prev, gone)
              /\ content' = Going(p, gone)
    BY <1>4, PurgeEffect
  <2>2. pod[p].pc = "purge"
    BY <1>4, PurgeEffect
  <2>3. \A r \in Release, m \in Modules : content'[r][m] = "going" =>
          r[1] = pod[p].addon /\ r[2] \in gone
    BY <1>g, <2>1, <2>2 DEF Going
  <2>4. Publishing(p, "rm", pod[p].todo, gone)
    BY <1>f, <1>p, <2>2, <2>3 DEF CleanupPlaces
  <2> QED BY <1>0, <2>1, <2>4, PublishByMoved
<1>5. CASE PurgeEnds(p)
  <2>1. /\ pod[p].script = "cleanup" /\ pod[p].old = {} /\ UNCHANGED content
        /\ Moved(p, "done", pod[p].todo, pod[p].prev, pod[p].old)
    BY <1>5, PurgeEndsEffect
  <2>2. Publishing(p, "done", pod[p].todo, pod[p].old)
    BY <1>f, <1>g, <2>1
  <2> QED BY <1>0, <2>1, <2>2, PublishByMoved
<1>6. CASE ReleaseGone(p)
  <2> DEFINE place == IF pod[p].script = "sync" THEN "prune" ELSE "rm"
  <2>1. PICK c \in pod[p].old :
              /\ Moved(p, place, pod[p].todo, pod[p].prev, pod[p].old \ {c})
              /\ content' = [content EXCEPT ![<<pod[p].addon, c>>] = [m \in Modules |-> "none"]]
              /\ releases' = [releases EXCEPT ![pod[p].addon] =
                                RemoveFirst(releases[pod[p].addon], c)]
    BY <1>6, ReleaseGoneEffect
  <2>2. pod[p].pc = "rm" /\ UNCHANGED link
    BY <1>6, ReleaseGoneEffect
  <2>3. /\ releases'[pod[p].addon] = RemoveFirst(releases[pod[p].addon], c)
        /\ c \in Commits /\ <<pod[p].addon, c>> \in Release
    BY <1>0, <1>r, <2>1 DEF Release
  <2>4. \A r \in Release, m \in Modules : content'[r][m] = "going" =>
          r[1] = pod[p].addon /\ r[2] \in pod[p].old \ {c}
    <3> SUFFICES ASSUME NEW r \in Release, NEW m \in Modules, content'[r][m] = "going"
                 PROVE  r[1] = pod[p].addon /\ r[2] \in pod[p].old \ {c}
      OBVIOUS
    <3>1. r # <<pod[p].addon, c>> /\ content'[r] = content[r]
      BY <1>0, <2>1, <2>3
    <3>2. r[1] = pod[p].addon /\ r[2] \in pod[p].old
      BY <1>g, <3>1
    <3>3. r = <<r[1], r[2]>>
      BY DEF Release
    <3> QED BY <3>1, <3>2, <3>3
  <2>5. CASE pod[p].script = "cleanup"
    <3>1. place = "rm"
      BY <2>5
    <3> HIDE DEF place
    <3>2. Publishing(p, place, pod[p].todo, pod[p].old \ {c})
      BY <1>f, <2>4, <2>5, <3>1
    <3> QED BY <1>0, <2>1, <3>2, PublishByMoved
  <2>6. CASE pod[p].script = "sync"
    <3>1. place = "prune"
      BY <2>6
    <3>2. FirstOrNext(releases[pod[p].addon], pod[p].commit, pod[p].old)
          /\ \A m \in MODLIST(p) : Published(p, m)
      BY <1>0, <2>2, <2>6 DEF PublishedSoFar
    <3>3. pod[p].old = {c}
      BY <2>1, <3>2 DEF FirstOrNext
    <3>4. c # pod[p].commit /\ First(releases'[pod[p].addon], pod[p].commit)
      BY <1>0, <1>r, <2>3, <3>2, <3>3, GoneBehind
    <3>5. REL(p) # <<pod[p].addon, c>>
      BY <3>4 DEF REL
    <3>6. content'[REL(p)] = content[REL(p)]
      BY <1>0, <2>1, <2>3, <3>5
    <3>7. AllPublishedNext(p)
      BY <2>2, <3>2, <3>6 DEF AllPublishedNext, PublishedNext, Published
    <3> HIDE DEF place
    <3>8. Publishing(p, place, pod[p].todo, pod[p].old \ {c})
      BY <2>4, <3>1, <3>3, <3>4, <3>7 DEF Publishing, PublishLoop, StaleLoop
    <3> QED BY <1>0, <2>1, <3>8, PublishByMoved
  <2> QED BY <1>0, <2>5, <2>6
<1>7. CASE Kill(p)
  <2>1. Moved(p, "failed", {}, {}, {}) /\ UNCHANGED content /\ pod[p].pc # "rm"
    BY <1>7, KillEffect DEF volume
  <2>2. Publishing(p, "failed", {}, {})
    BY <1>g, <2>1 DEF Publishing, PublishLoop, StaleLoop
  <2> QED BY <1>0, <2>1, <2>2, PublishByMoved
<1> QED
  BY <1>1, <1>2, <1>3, <1>4, <1>5, <1>6, <1>7 DEF Cleanup

LEMMA PublishStart ==
  ASSUME TypeOK, PublishInv, Overlap = "none", NEW script \in {"sync", "cleanup"},
         NEW addon \in Addons, NEW commit \in Commits, Start(script, addon, commit)
  PROVE  PublishInv'
<1>1. PICK n \in Pods : /\ \A r \in 1 .. started' : Live(r)' => r = n
                        /\ \A r \in 1 .. started : ~Live(r)
                        /\ Fresh(n, script, addon, commit)
  BY OnlyFresh
<1>2. pod'[n].pc \in {"check", "find"}
  BY <1>1 DEF Fresh
<1>3. PublishedSoFar(n)'
  BY <1>2 DEF PublishedSoFar, PublishLoop, StaleLoop
<1>4. UNCHANGED <<link, content>>
  BY StartEffect DEF volume
<1>5. GoingInv'
  BY <1>1, <1>4 DEF PublishInv, GoingInv
<1>6. AllPublished'
  <2> SUFFICES ASSUME NEW q \in Pods, LastIn(q, "sync", {"done"})'
               PROVE  \A m \in MODLIST(q)' : link'[m] = REL(q)' /\ content'[REL(q)'][m] = "whole"
    BY DEF AllPublished
  <2>1. LastIn(q, "sync", {"done"}) /\ pod'[q] = pod[q]
    BY LastBefore
  <2>2. MODLIST(q)' = MODLIST(q)
    BY <2>1, Zenon DEF MODLIST
  <2>3. REL(q)' = REL(q)
    BY <2>1, Zenon DEF REL
  <2> QED BY <1>4, <2>1, <2>2, <2>3 DEF PublishInv, AllPublished
<1> QED
  BY <1>1, <1>3, <1>5, <1>6 DEF PublishInv

LEMMA PublishInit == Init => PublishInv
<1> SUFFICES ASSUME Init PROVE PublishInv
  OBVIOUS
<1>1. \A p \in Pods : ~(p <= started)
  BY DEF Init, Pods
<1>2. GoingInv
  BY DEF Init, GoingInv
<1>3. AllPublished
  BY <1>1 DEF AllPublished, LastIn
<1>4. \A p \in 1 .. started : ~Live(p)
  BY DEF Init, Live
<1> QED
  BY <1>2, <1>3, <1>4 DEF PublishInv

LEMMA PublishNext ==
  ASSUME Overlap = "none", Kills # "anywhere", Linked, PublishInv, [Next]_vars
  PROVE  PublishInv'
<1>1. CASE UNCHANGED vars
  <2>1. \A p \in Pods : MODLIST(p)' = MODLIST(p) /\ REL(p)' = REL(p)
    BY <1>1, Zenon DEF MODLIST, REL, vars
  <2>2. UNCHANGED <<link, content, releases, pod, started>>
    BY <1>1 DEF vars, volume
  <2>3. AllPublished'
    BY <2>1, <2>2 DEF PublishInv, AllPublished, LastIn
  <2>4. GoingInv'
    BY <2>2 DEF PublishInv, GoingInv, Live
  <2>5. ASSUME NEW p \in 1 .. started', Live(p)' PROVE PublishedSoFar(p)'
    BY <1>1, <2>5 DEF vars, volume, PublishInv, PublishedSoFar, Live, Published, First, FirstOrNext,
       MODLIST, REL, Current
  <2> QED BY <2>3, <2>4, <2>5 DEF PublishInv
<1>2. (CHOOSE c \in Commits : TRUE) \in Commits
  BY SomeAddonAssumption
<1>3. ASSUME NEW p \in Pods, Step(p) \/ Kill(p) PROVE PublishInv'
  <2>1. Live(p) /\ (Sync(p) \/ Cleanup(p) \/ ReleaseGone(p) \/ Kill(p))
    BY <1>3 DEF Step, Kill
  <2>2. Framed(p)
    BY <2>1, StepFramed DEF Linked, Base
  <2> QED BY <2>1, <2>2, PublishSync, PublishRest DEF Linked, Base
<1> QED
  BY <1>1, <1>2, <1>3, PublishStart DEF Next, Linked, Base

\* A sync script that ends well (buildSyncScript, odooaddon_sync.go) has published every
\* module of its commit, whatever earlier pods have left on the volume, as long as pods
\* do not overlap and none was killed inside the `rm -rf` of a release.
THEOREM SyncPublishesAll ==
  ASSUME Overlap = "none", Kills # "anywhere" PROVE Safety => []SyncPublishes
<1>1. Init => Linked /\ PublishInv
  BY LinkedInit, PublishInit
<1>2. Linked /\ PublishInv /\ [Next]_vars => (Linked /\ PublishInv)'
  BY LinkedStep, PublishNext
<1>3. PublishInv => SyncPublishes
  BY DEF PublishInv, AllPublished, SyncPublishes
<1> QED
  BY <1>1, <1>2, <1>3, PTL DEF Safety

-----------------------------------------------------------------------------
(* What .modules knows: removed modules disappear and recorded links resolve. *)

\* The places between reading and writing .modules.
Recording == PublishLoop \cup StaleLoop \cup {"touch", "record"}

\* The link of m was made by a sync that has not written .modules: it still runs, or has
\* failed before.
Unrecorded(m) ==
    \E q \in 1 .. started : /\ pod[q].script = "sync" /\ pod[q].pc \in Recording \cup {"failed"}
                            /\ link[m] = REL(q) /\ m \in MODLIST(q)
LinksKnown ==
    \A m \in Modules : link[m] # NoLink => m \in recorded[link[m][1]] \/ Unrecorded(m)

\* $PREV is what .modules says, and the stale loop removes what is in it and gone.
Known(p) ==
    /\ pod[p].pc \in Recording => pod[p].prev = recorded[pod[p].addon]
    /\ pod[p].pc \in StaleLoop =>
         \A m \in pod[p].prev \ MODLIST(p) : m \in pod[p].todo \/ ~Own(p, link[m])
    /\ pod[p].pc = "record" => \A m \in pod[p].prev \ MODLIST(p) : ~Own(p, link[m])
    /\ pod[p].script = "sync" /\ pod[p].pc \in {"prune", "rm"} =>
         recorded[pod[p].addon] = MODLIST(p)
RecordInv ==
    /\ LinksKnown
    /\ \A p \in 1 .. started : Live(p) => Known(p)
    /\ RemovedModulesDisappear

\* What RecordInv says of p and its addon's links, after a step of p.
UnrecordedNext(p, place, m) ==
    \E q \in 1 .. started : /\ pod[q].script = "sync"
                            /\ (IF q = p THEN place ELSE pod[q].pc) \in Recording \cup {"failed"}
                            /\ link'[m] = REL(q) /\ m \in MODLIST(q)
OwnKnown(p, place) ==
    \A m \in Modules : Own(p, link'[m]) =>
        m \in recorded'[pod[p].addon] \/ UnrecordedNext(p, place, m)
Recorded(p, place, todo, prev) ==
    /\ place \in Recording => prev = recorded'[pod[p].addon]
    /\ place \in StaleLoop => \A m \in prev \ MODLIST(p) : m \in todo \/ ~Own(p, link'[m])
    /\ place = "record" => \A m \in prev \ MODLIST(p) : ~Own(p, link'[m])
    /\ pod[p].script = "sync" /\ place \in {"prune", "rm", "done"} =>
         recorded'[pod[p].addon] = MODLIST(p)
    /\ OwnKnown(p, place)

\* A pod that is recording is alive.
LEMMA RecordingLives ==
  ASSUME NEW q, q <= started, pod[q].pc \in Recording
  PROVE  Live(q)
  BY DEF Recording, PublishLoop, StaleLoop, Live

\* A step of pod p leaves the links of the other addons as they are, or takes them away.
LEMMA OthersKept ==
  ASSUME TypeOK, NEW p \in Pods, Framed(p), NEW m \in Modules, link'[m] # NoLink, ~Own(p, link'[m])
  PROVE  link'[m] = link[m]
<1>1. Own(p, REL(p))
  BY PodParts DEF TypeOK, Own
<1> QED
  BY <1>1 DEF Framed

LEMMA RecordByMoved ==
  ASSUME TypeOK, Solo, RecordInv, NEW p \in Pods, Live(p), Framed(p),
         NEW place, NEW todo, NEW prev, NEW old, Moved(p, place, todo, prev, old),
         Recorded(p, place, todo, prev)
  PROVE  RecordInv'
<1>1. started' = started /\ started \in Nat /\ 1 .. started \subseteq Pods
  BY MaxPodsAssumption DEF Framed, TypeOK, Pods
<1>2. /\ \A q \in 1 .. started' : Live(q)' => q = p
      /\ \A q \in 1 .. started : Live(q) => q = p
      /\ p \in 1 .. started /\ p = started
  BY <1>1, OnlyOne
<1>3. \A q \in 1 .. started : MODLIST(q)' = MODLIST(q) /\ REL(q)' = REL(q)
                              /\ pod'[q].addon = pod[q].addon /\ pod'[q].script = pod[q].script
  BY <1>1, ContestedKept
<1>4. /\ pod'[p].pc = place /\ pod'[p].todo = todo /\ pod'[p].prev = prev
      /\ \A q \in 1 .. started : q # p => pod'[q] = pod[q]
  BY <1>1 DEF Moved
<1>5. \A q \in 1 .. started : /\ REL(q) # NoLink /\ REL(q)[1] = pod[q].addon
                              /\ pod[q].addon \in Addons
  BY <1>1, PodParts DEF TypeOK
<1>6. ASSUME NEW m \in Modules, link'[m] # NoLink
      PROVE  m \in recorded'[link'[m][1]] \/ Unrecorded(m)'
  <2>1. CASE Own(p, link'[m])
    <3>1. m \in recorded'[pod[p].addon] \/ UnrecordedNext(p, place, m)
      BY <2>1 DEF Recorded, OwnKnown
    <3>2. link'[m][1] = pod[p].addon
      BY <2>1 DEF Own
    <3>3. ASSUME UnrecordedNext(p, place, m) PROVE Unrecorded(m)'
      <4>1. PICK q \in 1 .. started :
                   /\ pod[q].script = "sync"
                   /\ (IF q = p THEN place ELSE pod[q].pc) \in Recording \cup {"failed"}
                   /\ link'[m] = REL(q) /\ m \in MODLIST(q)
        BY <3>3 DEF UnrecordedNext
      <4>2. pod'[q].pc \in Recording \cup {"failed"}
        BY <1>4, <4>1
      <4> QED BY <1>1, <1>3, <4>1, <4>2 DEF Unrecorded
    <3> QED BY <3>1, <3>2, <3>3
  <2>2. CASE ~Own(p, link'[m])
    <3>1. link'[m] = link[m]
      BY <1>6, <2>2, OthersKept
    <3>2. link[m] \in Release /\ link[m][1] \in Addons /\ link[m][1] # pod[p].addon
      BY <1>6, <2>2, <3>1 DEF TypeOK, Link, Release, Own
    <3>3. recorded'[link[m][1]] = recorded[link[m][1]]
      BY <3>2 DEF Framed
    <3>4. m \in recorded[link[m][1]] \/ Unrecorded(m)
      BY <1>6, <3>1 DEF RecordInv, LinksKnown
    <3>5. ASSUME Unrecorded(m) PROVE Unrecorded(m)'
      <4>1. PICK q \in 1 .. started :
                   /\ pod[q].script = "sync" /\ pod[q].pc \in Recording \cup {"failed"}
                   /\ link[m] = REL(q) /\ m \in MODLIST(q)
        BY <3>5 DEF Unrecorded
      <4>2. q # p
        BY <1>5, <3>2, <4>1
      <4> QED BY <1>1, <1>3, <1>4, <3>1, <4>1, <4>2 DEF Unrecorded
    <3> QED BY <3>1, <3>3, <3>4, <3>5
  <2> QED BY <2>1, <2>2
<1>7. Known(p)'
  <2>1. \A m : Own(p, link[m])' <=> Own(p, link'[m])
    BY <1>2, <1>3 DEF Own
  <2>2. MODLIST(p)' = MODLIST(p) /\ pod'[p].addon = pod[p].addon /\ pod'[p].script = pod[p].script
    BY <1>2, <1>3
  <2> QED BY <1>4, <2>1, <2>2 DEF Known, Recorded
<1>8. RemovedModulesDisappear'
  <2> SUFFICES ASSUME NEW q \in Pods, LastIn(q, "sync", {"done"})',
                      NEW m \in Modules \ MODLIST(q)', Own(q, link[m])'
               PROVE  \E r \in 1 .. q - 1 : /\ pod'[r].script = "sync" /\ pod'[r].pc = "failed"
                                            /\ link'[m] = REL(r)' /\ m \in MODLIST(r)'
    BY DEF RemovedModulesDisappear
  <2>0. link'[m] # NoLink /\ link'[m][1] = pod'[q].addon /\ q \in 1 .. started
    BY <1>1 DEF Own, LastIn, Pods
  <2>1. CASE q # p
    <3>1. /\ LastIn(q, "sync", {"done"}) /\ pod[p].addon # pod[q].addon
          /\ pod'[q] = pod[q]
      BY <2>1, LastOther
    <3>2. link'[m] = link[m]
      BY <2>0, <3>1, OthersKept DEF Own
    <3>3. m \in Modules \ MODLIST(q) /\ Own(q, link[m])
      BY <1>3, <2>0, <3>1, <3>2 DEF Own
    <3>4. PICK r \in 1 .. q - 1 : /\ pod[r].script = "sync" /\ pod[r].pc = "failed"
                                  /\ link[m] = REL(r) /\ m \in MODLIST(r)
      BY <3>1, <3>3 DEF RecordInv, RemovedModulesDisappear
    <3>5. r \in 1 .. started
      BY <1>1, <2>0
    <3>6. r # p
      BY <1>5, <2>0, <3>1, <3>2, <3>4, <3>5
    <3> QED BY <1>3, <1>4, <3>2, <3>4, <3>5, <3>6
  <2>2. CASE q = p
    <3>1. place = "done" /\ pod[p].script = "sync" /\ MODLIST(p)' = MODLIST(p)
      BY <1>2, <1>3, <1>4, <2>2 DEF LastIn
    <3>2. Own(p, link'[m]) /\ m \notin MODLIST(p)
      BY <1>2, <1>3, <2>0, <2>2, <3>1 DEF Own
    <3>3. UnrecordedNext(p, place, m)
      BY <3>1, <3>2 DEF Recorded, OwnKnown
    <3>4. PICK r \in 1 .. started :
                 /\ pod[r].script = "sync"
                 /\ (IF r = p THEN place ELSE pod[r].pc) \in Recording \cup {"failed"}
                 /\ link'[m] = REL(r) /\ m \in MODLIST(r)
      BY <3>3 DEF UnrecordedNext
    <3>5. r # p
      BY <3>2, <3>4
    <3>6. pod[r].pc = "failed"
      BY <1>2, <3>4, <3>5, RecordingLives
    <3>7. r \in 1 .. q - 1
      BY <1>1, <1>2, <2>2, <3>5
    <3> QED BY <1>3, <1>4, <3>4, <3>5, <3>6, <3>7
  <2> QED BY <2>1, <2>2
<1> QED
  BY <1>1, <1>2, <1>6, <1>7, <1>8 DEF RecordInv, LinksKnown

\* A step that changes neither the links nor .modules.
LEMMA RecordQuiet ==
  ASSUME TypeOK, Solo, RecordInv, NEW p \in Pods, Live(p), NEW place,
         pod[p].pc \in Recording => place \in Recording \cup {"failed"},
         \A m \in Modules : link'[m] \in {link[m], NoLink}, UNCHANGED recorded
  PROVE  OwnKnown(p, place)
<1> SUFFICES ASSUME NEW m \in Modules, Own(p, link'[m])
             PROVE  m \in recorded[pod[p].addon] \/ UnrecordedNext(p, place, m)
  BY DEF OwnKnown
<1>1. link'[m] = link[m] /\ link[m] # NoLink /\ link[m][1] = pod[p].addon
  BY DEF Own
<1>2. m \in recorded[pod[p].addon] \/ Unrecorded(m)
  BY <1>1 DEF RecordInv, LinksKnown
<1>3. ASSUME Unrecorded(m) PROVE UnrecordedNext(p, place, m)
  <2>1. PICK q \in 1 .. started :
               /\ pod[q].script = "sync" /\ pod[q].pc \in Recording \cup {"failed"}
               /\ link[m] = REL(q) /\ m \in MODLIST(q)
    BY <1>3 DEF Unrecorded
  <2>2. q = p => place \in Recording \cup {"failed"}
    BY <2>1 DEF Live
  <2> QED BY <1>1, <2>1, <2>2 DEF UnrecordedNext
<1> QED
  BY <1>2, <1>3

LEMMA RecordStep ==
  ASSUME TypeOK, Solo, PlacesInv, LinkInv, CleanInv, RecordInv, NEW p \in Pods, Live(p), Framed(p),
         Sync(p) \/ Cleanup(p) \/ ReleaseGone(p) \/ Kill(p)
  PROVE  RecordInv'
<1>0. /\ p \in 1 .. started /\ Placed(p) /\ Looked(p) /\ SweptSoFar(p) /\ Known(p)
      /\ REL(p) # NoLink /\ REL(p)[1] = pod[p].addon /\ MODLIST(p) \subseteq Modules
      /\ link \in [Modules -> Link] /\ pod[p].addon \in Addons
      /\ recorded \in [Addons -> SUBSET Modules]
  BY PodParts DEF TypeOK, Live, Pods, PlacesInv, LinkInv, CleanInv, RecordInv
<1>s. pod[p].pc \in SyncPlaces => pod[p].script = "sync"
  BY <1>0 DEF Placed
<1>q. ASSUME NEW place, pod[p].pc \in Recording => place \in Recording \cup {"failed"},
             UNCHANGED <<link, recorded>>
      PROVE  OwnKnown(p, place)
  BY <1>q, RecordQuiet
<1>f. ASSUME UNCHANGED <<link, recorded>>, Moved(p, "failed", {}, {}, {})
      PROVE  RecordInv'
  <2>1. OwnKnown(p, "failed")
    BY <1>f, <1>q
  <2>2. Recorded(p, "failed", {}, {})
    BY <2>1 DEF Recorded, Recording, PublishLoop, StaleLoop
  <2> QED BY <1>f, <2>2, RecordByMoved
<1>l. ASSUME NEW place \in PublishLoop \cup {"touch"}, pod[p].pc \in PublishLoop,
             UNCHANGED <<link, recorded>>, Moved(p, place, pod[p].todo, pod[p].prev, pod[p].old)
      PROVE  RecordInv'
  <2>1. pod[p].pc \in Recording /\ place \in Recording
    BY <1>l DEF Recording
  <2>2. OwnKnown(p, place) /\ pod[p].prev = recorded[pod[p].addon]
    BY <1>0, <1>l, <1>q, <2>1 DEF Known
  <2>3. Recorded(p, place, pod[p].todo, pod[p].prev)
    BY <1>l, <2>2 DEF Recorded, PublishLoop, StaleLoop
  <2> QED BY <1>l, <2>3, RecordByMoved
<1>1. CASE CheckConflicts(p)
  <2> DEFINE left == pod[p].todo \ {Current(p)}
             place == After(left, "check", "mkdir")
  <2>1. pod[p].pc = "check" /\ UNCHANGED <<link, recorded>>
    BY <1>1, CheckEffect DEF volume
  <2>2. place \in {"check", "mkdir"}
    BY DEF After
  <2>3. CASE Moved(p, "failed", {}, {}, {})
    BY <1>f, <2>1, <2>3
  <2>4. CASE Moved(p, place, left, pod[p].prev, pod[p].old)
    <3> HIDE DEF left, place
    <3>1. OwnKnown(p, place)
      BY <1>q, <2>1 DEF Recording, PublishLoop, StaleLoop
    <3>2. Recorded(p, place, left, pod[p].prev)
      BY <2>2, <3>1 DEF Recorded, Recording, PublishLoop, StaleLoop
    <3> QED BY <2>4, <3>2, RecordByMoved
  <2> QED BY <1>1, <2>3, <2>4, CheckEffect
<1>2. CASE MakeRelease(p)
  <2>1. /\ pod[p].pc = "mkdir" /\ UNCHANGED <<link, recorded>>
        /\ Moved(p, "publish", MODLIST(p), recorded[pod[p].addon], pod[p].old)
    BY <1>2, MakeReleaseEffect
  <2>2. OwnKnown(p, "publish")
    BY <1>q, <2>1 DEF Recording, PublishLoop, StaleLoop
  <2>3. Recorded(p, "publish", MODLIST(p), recorded[pod[p].addon])
    BY <2>1, <2>2 DEF Recorded, StaleLoop
  <2> QED BY <2>1, <2>3, RecordByMoved
<1>3. CASE Publish(p)
  BY <1>3, <1>l, PublishEffect DEF PublishLoop
<1>4. CASE CopyEnds(p)
  BY <1>4, <1>f, <1>l, CopyEndsEffect DEF PublishLoop
<1>5. CASE Rename(p)
  BY <1>5, <1>f, <1>l, RenameEffect DEF PublishLoop
<1>6. CASE LinkTemporary(p)
  BY <1>6, <1>l, LinkTemporaryEffect DEF PublishLoop
<1>7. CASE Switch(p)
  <2> DEFINE left == pod[p].todo \ {Current(p)}
             place == After(left, "publish", "touch")
  <2>1. pod[p].pc = "mv" /\ UNCHANGED recorded
    BY <1>7, SwitchEffect
  <2>2. CASE tmp[Current(p)] = NoLink
    BY <1>7, <1>f, <2>2, SwitchEffect
  <2>3. CASE tmp[Current(p)] # NoLink
    <3>1. /\ Moved(p, place, left, pod[p].prev, pod[p].old)
          /\ link' = [link EXCEPT ![Current(p)] = REL(p)]
      BY <1>0, <1>7, <2>1, <2>3, SwitchEffect DEF Looked
    <3>2. place \in {"publish", "touch"} /\ place \in Recording
      BY DEF After, Recording, PublishLoop
    <3>3. Current(p) \in MODLIST(p) /\ Current(p) \in Modules /\ pod[p].script = "sync"
      BY <1>0, <1>s, <2>1, CurrentModule DEF PublishLoop, SyncPlaces
    <3> HIDE DEF left, place
    <3>4. OwnKnown(p, place)
      <4> SUFFICES ASSUME NEW m \in Modules, Own(p, link'[m])
                   PROVE  m \in recorded[pod[p].addon] \/ UnrecordedNext(p, place, m)
        BY <2>1 DEF OwnKnown
      <4>1. CASE m = Current(p)
        <5>1. link'[m] = REL(p)
          BY <1>0, <3>1, <3>3, <4>1
        <5> QED BY <1>0, <3>2, <3>3, <4>1, <5>1 DEF UnrecordedNext
      <4>2. CASE m # Current(p)
        <5>1. link'[m] = link[m] /\ link[m] # NoLink /\ link[m][1] = pod[p].addon
          BY <1>0, <3>1, <4>2 DEF Own
        <5>2. m \in recorded[pod[p].addon] \/ Unrecorded(m)
          BY <5>1 DEF RecordInv, LinksKnown
        <5>3. ASSUME Unrecorded(m) PROVE UnrecordedNext(p, place, m)
          <6>1. PICK q \in 1 .. started :
                       /\ pod[q].script = "sync" /\ pod[q].pc \in Recording \cup {"failed"}
                       /\ link[m] = REL(q) /\ m \in MODLIST(q)
            BY <5>3 DEF Unrecorded
          <6> QED BY <3>2, <5>1, <6>1 DEF UnrecordedNext
        <5> QED BY <5>2, <5>3
      <4> QED BY <4>1, <4>2
    <3>5. pod[p].prev = recorded[pod[p].addon]
      BY <1>0, <2>1 DEF Known, Recording, PublishLoop
    <3>6. Recorded(p, place, left, pod[p].prev)
      BY <2>1, <3>2, <3>4, <3>5 DEF Recorded, PublishLoop, StaleLoop
    <3> QED BY <3>1, <3>6, RecordByMoved
  <2> QED BY <2>2, <2>3
<1>8. CASE Touch(p)
  <2> DEFINE left == pod[p].prev \ MODLIST(p)
             place == After(left, "stale", "record")
  <2>1. /\ pod[p].pc = "touch" /\ UNCHANGED <<link, recorded>>
        /\ Moved(p, place, left, pod[p].prev, pod[p].old)
    BY <1>8, TouchEffect
  <2>2. place \in {"stale", "record"} /\ (place = "record" => left = {})
    BY DEF After
  <2>3. pod[p].prev = recorded[pod[p].addon]
    BY <1>0, <2>1 DEF Known, Recording
  <2>4. (place = "record" => pod[p].prev \ MODLIST(p) = {})
        /\ \A m \in pod[p].prev \ MODLIST(p) : m \in left
    BY <2>2
  <2> HIDE DEF left, place
  <2>5. OwnKnown(p, place)
    BY <1>q, <2>1, <2>2 DEF Recording, StaleLoop
  <2>6. Recorded(p, place, left, pod[p].prev)
    BY <2>1, <2>2, <2>3, <2>4, <2>5 DEF Recorded
  <2> QED BY <2>1, <2>6, RecordByMoved
<1>st. ASSUME pod[p].pc \in StaleLoop, UNCHANGED recorded, ~Own(p, link'[Current(p)]),
              \A m \in Modules : link'[m] \in {link[m], NoLink},
              Moved(p, After(pod[p].todo \ {Current(p)}, "stale", "record"),
                    pod[p].todo \ {Current(p)}, pod[p].prev, pod[p].old)
       PROVE  RecordInv'
  <2> DEFINE left == pod[p].todo \ {Current(p)}
             place == After(left, "stale", "record")
  <2>1. place \in {"stale", "record"} /\ (place = "record" => left = {}) /\ place \in Recording
    BY DEF After, Recording, StaleLoop
  <2>2. /\ pod[p].prev = recorded[pod[p].addon] /\ pod[p].prev \subseteq Modules
        /\ \A m \in pod[p].prev \ MODLIST(p) : m \in pod[p].todo \/ ~Own(p, link[m])
    BY <1>0, <1>s, <1>st DEF Known, Recording, Placed, SyncPlaces
  <2>3. ASSUME NEW m \in pod[p].prev \ MODLIST(p) PROVE m \in left \/ ~Own(p, link'[m])
    <3>1. link'[m] \in {link[m], NoLink}
      BY <1>st, <2>2
    <3> QED BY <1>st, <2>2, <3>1 DEF Own
  <2>4. OwnKnown(p, place)
    BY <1>st, <2>1, RecordQuiet
  <2> HIDE DEF left, place
  <2>5. Recorded(p, place, left, pod[p].prev)
    BY <1>st, <2>1, <2>2, <2>3, <2>4 DEF Recorded, StaleLoop
  <2> QED BY <1>st, <2>5, RecordByMoved DEF left, place
<1>9. CASE ReadStale(p)
  <2>1. pod[p].pc = "stale" /\ UNCHANGED <<link, recorded>>
    BY <1>9, ReadStaleEffect DEF volume
  <2>2. CASE Own(p, link[Current(p)])
    <3>1. Moved(p, "unlinkStale", pod[p].todo, pod[p].prev, pod[p].old)
      BY <1>9, <2>2, ReadStaleEffect
    <3>2. OwnKnown(p, "unlinkStale")
      BY <1>q, <2>1 DEF Recording, StaleLoop
    <3>3. pod[p].prev = recorded[pod[p].addon]
          /\ \A m \in pod[p].prev \ MODLIST(p) : m \in pod[p].todo \/ ~Own(p, link[m])
      BY <1>0, <2>1 DEF Known, Recording, StaleLoop
    <3>4. Recorded(p, "unlinkStale", pod[p].todo, pod[p].prev)
      BY <2>1, <3>2, <3>3 DEF Recorded
    <3> QED BY <3>1, <3>4, RecordByMoved
  <2>3. CASE ~Own(p, link[Current(p)])
    BY <1>9, <1>st, <2>1, <2>3, ReadStaleEffect DEF StaleLoop
  <2> QED BY <2>2, <2>3
<1>10. CASE UnlinkStale(p)
  <2>1. /\ pod[p].pc = "unlinkStale" /\ UNCHANGED recorded
        /\ link' = [link EXCEPT ![Current(p)] = NoLink]
    BY <1>10, UnlinkStaleEffect
  <2>2. Current(p) \in Modules
    BY <1>0, <2>1, CurrentModule DEF StaleLoop
  <2>3. link'[Current(p)] = NoLink /\ \A m \in Modules : link'[m] \in {link[m], NoLink}
    BY <1>0, <2>1, <2>2
  <2> QED BY <1>10, <1>st, <2>1, <2>3, UnlinkStaleEffect DEF StaleLoop, Own
<1>11. CASE Record(p)
  <2>1. /\ pod[p].pc = "record" /\ UNCHANGED link
        /\ Moved(p, "prune", pod[p].todo, {}, pod[p].old)
        /\ recorded' = [recorded EXCEPT ![pod[p].addon] = MODLIST(p)]
    BY <1>11, RecordEffect
  <2>2. /\ pod[p].prev = recorded[pod[p].addon]
        /\ \A m \in pod[p].prev \ MODLIST(p) : ~Own(p, link[m])
    BY <1>0, <2>1 DEF Known, Recording
  <2>3. recorded'[pod[p].addon] = MODLIST(p)
    BY <1>0, <2>1
  <2>4. OwnKnown(p, "prune")
    <3> SUFFICES ASSUME NEW m \in Modules, Own(p, link[m]), m \notin MODLIST(p)
                 PROVE  UnrecordedNext(p, "prune", m)
      BY <2>1, <2>3 DEF OwnKnown
    <3>1. link[m] # NoLink /\ link[m][1] = pod[p].addon /\ m \notin recorded[pod[p].addon]
      BY <2>2 DEF Own
    <3>2. Unrecorded(m)
      BY <3>1 DEF RecordInv, LinksKnown
    <3>3. PICK q \in 1 .. started :
                 /\ pod[q].script = "sync" /\ pod[q].pc \in Recording \cup {"failed"}
                 /\ link[m] = REL(q) /\ m \in MODLIST(q)
      BY <3>2 DEF Unrecorded
    <3>4. q # p
      BY <3>3
    <3> QED BY <2>1, <3>3, <3>4 DEF UnrecordedNext
  <2>5. Recorded(p, "prune", pod[p].todo, {})
    BY <2>3, <2>4 DEF Recorded, Recording, PublishLoop, StaleLoop
  <2> QED BY <2>1, <2>5, RecordByMoved
<1>n. ASSUME NEW place \in {"prune", "rm", "done"}, pod[p].pc \in {"prune", "rm"},
             pod[p].script = "sync", UNCHANGED <<link, recorded>>
      PROVE  \A todo, prev : Recorded(p, place, todo, prev)
  <2>1. OwnKnown(p, place)
    BY <1>n, <1>q DEF Recording, PublishLoop, StaleLoop
  <2>2. recorded[pod[p].addon] = MODLIST(p)
    BY <1>0, <1>n DEF Known
  <2> QED BY <1>n, <2>1, <2>2 DEF Recorded, Recording, PublishLoop, StaleLoop
<1>12. CASE Prune(p)
  <2>1. PICK place \in {"done", "rm"}, old \in SUBSET Commits :
          Moved(p, place, pod[p].todo, pod[p].prev, old)
    <3>1. pod[p].old \in SUBSET Commits
      BY PodParts DEF TypeOK
    <3> QED BY <1>12, <3>1, PruneEffect
  <2>2. pod[p].pc = "prune" /\ UNCHANGED <<link, recorded>> /\ pod[p].script = "sync"
    BY <1>s, <1>12, PruneEffect DEF SyncPlaces
  <2>3. Recorded(p, place, pod[p].todo, pod[p].prev)
    BY <1>n, <2>2
  <2> QED BY <2>1, <2>3, RecordByMoved
<1>c. ASSUME pod[p].script = "cleanup", NEW place \in {"sweep", "purge", "unlinkOwn", "rm", "done"},
             OwnKnown(p, place)
      PROVE  \A todo, prev : Recorded(p, place, todo, prev)
  BY <1>c DEF Recorded, Recording, PublishLoop, StaleLoop
<1>p. pod[p].pc \in CleanupPlaces =>
        pod[p].script = "cleanup" /\ pod[p].pc \notin Recording
  BY <1>0 DEF Placed, CleanupPlaces, Recording, PublishLoop, StaleLoop
<1>13. CASE FindLinks(p)
  <2>1. PICK links \in SUBSET Entries :
              Moved(p, After(links, "sweep", "purge"), links, pod[p].prev, pod[p].old)
    BY <1>13, FindEffect
  <2>2. pod[p].pc \in CleanupPlaces /\ UNCHANGED <<link, recorded>>
    BY <1>13, FindEffect DEF volume, CleanupPlaces
  <2>3. After(links, "sweep", "purge") \in {"sweep", "purge"}
    BY DEF After
  <2>4. Recorded(p, After(links, "sweep", "purge"), links, pod[p].prev)
    BY <1>c, <1>p, <1>q, <2>2, <2>3
  <2> QED BY <2>1, <2>4, RecordByMoved
<1>14. CASE SweepLinks(p)
  <2>1. PICK e \in pod[p].todo :
          \/ Moved(p, "unlinkOwn", pod[p].todo, {e}, pod[p].old)
          \/ Moved(p, After(pod[p].todo \ {e}, "sweep", "purge"), pod[p].todo \ {e}, {}, pod[p].old)
    BY <1>14, SweepEffect
  <2>2. pod[p].pc \in CleanupPlaces /\ UNCHANGED <<link, recorded>>
    BY <1>14, SweepEffect DEF volume, CleanupPlaces
  <2>3. After(pod[p].todo \ {e}, "sweep", "purge") \in {"sweep", "purge"}
    BY DEF After
  <2>4. /\ Recorded(p, After(pod[p].todo \ {e}, "sweep", "purge"), pod[p].todo \ {e}, {})
        /\ Recorded(p, "unlinkOwn", pod[p].todo, {e})
    BY <1>c, <1>p, <1>q, <2>2, <2>3
  <2> QED BY <2>1, <2>4, RecordByMoved
<1>15. CASE UnlinkOwn(p)
  <2>1. PICK e \in pod[p].prev :
          /\ Moved(p, After(pod[p].todo \ {e}, "sweep", "purge"), pod[p].todo \ {e}, {}, pod[p].old)
          /\ link' = [m \in Modules |-> IF m = e THEN NoLink ELSE link[m]]
    BY <1>15, UnlinkOwnEffect
  <2>2. pod[p].pc \in CleanupPlaces /\ UNCHANGED recorded
    BY <1>15, UnlinkOwnEffect DEF CleanupPlaces
  <2>3. After(pod[p].todo \ {e}, "sweep", "purge") \in {"sweep", "purge"}
    BY DEF After
  <2>4. \A m \in Modules : link'[m] \in {link[m], NoLink}
    BY <2>1
  <2>5. OwnKnown(p, After(pod[p].todo \ {e}, "sweep", "purge"))
    BY <1>p, <2>2, <2>4, RecordQuiet
  <2>6. Recorded(p, After(pod[p].todo \ {e}, "sweep", "purge"), pod[p].todo \ {e}, {})
    BY <1>c, <1>p, <2>2, <2>3, <2>5
  <2> QED BY <2>1, <2>6, RecordByMoved
<1>e. ASSUME NEW place, \A e \in Entries : ~Own(p, Target(e)), UNCHANGED link
      PROVE  OwnKnown(p, place)
  <2>1. \A m \in Modules : m \in Entries
    BY DEF Entries
  <2>2. \A m \in Modules : ~Own(p, link[m])
    BY <1>e, <2>1, ModuleTarget, Zenon
  <2> QED BY <1>e, <2>2 DEF OwnKnown
<1>16. CASE Purge(p)
  <2>1. PICK gone \in SUBSET Commits : Moved(p, "rm", pod[p].todo, pod[p].prev, gone)
    BY <1>16, PurgeEffect
  <2>2. pod[p].pc = "purge" /\ UNCHANGED link /\ pod[p].script = "cleanup"
    BY <1>16, <1>p, PurgeEffect DEF CleanupPlaces
  <2>3. OwnKnown(p, "rm")
    BY <1>0, <1>e, <2>2 DEF SweptSoFar
  <2>4. Recorded(p, "rm", pod[p].todo, pod[p].prev)
    BY <1>c, <2>2, <2>3
  <2> QED BY <2>1, <2>4, RecordByMoved
<1>17. CASE PurgeEnds(p)
  <2>1. /\ pod[p].pc = "rm" /\ pod[p].script = "cleanup" /\ UNCHANGED link
        /\ Moved(p, "done", pod[p].todo, pod[p].prev, pod[p].old)
    BY <1>17, PurgeEndsEffect
  <2>2. OwnKnown(p, "done")
    BY <1>0, <1>e, <2>1 DEF SweptSoFar
  <2>3. Recorded(p, "done", pod[p].todo, pod[p].prev)
    BY <1>c, <2>1, <2>2
  <2> QED BY <2>1, <2>3, RecordByMoved
<1>18. CASE ReleaseGone(p)
  <2> DEFINE place == IF pod[p].script = "sync" THEN "prune" ELSE "rm"
  <2>1. PICK c \in pod[p].old : Moved(p, place, pod[p].todo, pod[p].prev, pod[p].old \ {c})
    BY <1>18, ReleaseGoneEffect
  <2>2. pod[p].pc = "rm" /\ UNCHANGED <<link, recorded>> /\ pod[p].script \in {"sync", "cleanup"}
    BY <1>18, ReleaseGoneEffect, PodParts DEF TypeOK
  <2>3. Recorded(p, place, pod[p].todo, pod[p].prev)
    <3>1. CASE pod[p].script = "sync"
      <4>1. place = "prune"
        BY <3>1
      <4> HIDE DEF place
      <4> QED BY <1>n, <2>2, <3>1, <4>1
    <3>2. CASE pod[p].script = "cleanup"
      <4>1. place = "rm"
        BY <3>2
      <4> HIDE DEF place
      <4>2. OwnKnown(p, place)
        BY <1>q, <2>2 DEF Recording, PublishLoop, StaleLoop
      <4> QED BY <1>c, <3>2, <4>1, <4>2
    <3> QED BY <2>2, <3>1, <3>2
  <2> HIDE DEF place
  <2> QED BY <2>1, <2>3, RecordByMoved
<1>19. CASE Kill(p)
  BY <1>19, <1>f, KillEffect DEF volume
<1> QED
  BY <1>1, <1>2, <1>3, <1>4, <1>5, <1>6, <1>7, <1>8, <1>9, <1>10, <1>11, <1>12, <1>13, <1>14,
     <1>15, <1>16, <1>17, <1>18, <1>19 DEF Sync, Cleanup

LEMMA RecordStart ==
  ASSUME TypeOK, RecordInv, Overlap = "none", NEW script \in {"sync", "cleanup"},
         NEW addon \in Addons, NEW commit \in Commits, Start(script, addon, commit)
  PROVE  RecordInv'
<1>1. PICK n \in Pods : /\ n = started + 1 /\ \A r \in 1 .. started' : Live(r)' => r = n
                        /\ \A r \in 1 .. started : pod'[r] = pod[r]
                        /\ Fresh(n, script, addon, commit)
                        /\ 1 .. started' = (1 .. started) \cup {n}
  BY OnlyFresh
<1>2. pod'[n].pc \in {"check", "find"}
  BY <1>1 DEF Fresh
<1>3. Known(n)'
  BY <1>2 DEF Known, Recording, PublishLoop, StaleLoop
<1>4. UNCHANGED <<link, recorded>>
  BY StartEffect DEF volume
<1>5. \A q \in 1 .. started : MODLIST(q)' = MODLIST(q) /\ REL(q)' = REL(q)
  BY <1>1, Zenon DEF MODLIST, REL
<1>6. LinksKnown'
  <2> SUFFICES ASSUME NEW m \in Modules, link[m] # NoLink
               PROVE  m \in recorded[link[m][1]] \/ Unrecorded(m)'
    BY <1>4 DEF LinksKnown
  <2>1. ASSUME Unrecorded(m) PROVE Unrecorded(m)'
    <3>1. PICK q \in 1 .. started :
                 /\ pod[q].script = "sync" /\ pod[q].pc \in Recording \cup {"failed"}
                 /\ link[m] = REL(q) /\ m \in MODLIST(q)
      BY <2>1 DEF Unrecorded
    <3>2. q \in 1 .. started' /\ pod'[q] = pod[q] /\ REL(q)' = REL(q) /\ MODLIST(q)' = MODLIST(q)
      BY <1>1, <1>5
    <3> QED BY <1>4, <3>1, <3>2 DEF Unrecorded
  <2> QED BY <2>1 DEF RecordInv, LinksKnown
<1>7. RemovedModulesDisappear'
  <2> SUFFICES ASSUME NEW q \in Pods, LastIn(q, "sync", {"done"})',
                      NEW m \in Modules \ MODLIST(q)', Own(q, link[m])'
               PROVE  \E r \in 1 .. q - 1 : /\ pod'[r].script = "sync" /\ pod'[r].pc = "failed"
                                            /\ link'[m] = REL(r)' /\ m \in MODLIST(r)'
    BY DEF RemovedModulesDisappear
  <2>1. LastIn(q, "sync", {"done"}) /\ pod'[q] = pod[q]
    BY LastBefore
  <2>2. started \in Nat /\ q \in 1 .. started
    BY <2>1 DEF LastIn, TypeOK, Pods
  <2>3. m \in Modules \ MODLIST(q) /\ Own(q, link[m])
    BY <1>4, <1>5, <2>1, <2>2 DEF Own
  <2>4. PICK r \in 1 .. q - 1 : /\ pod[r].script = "sync" /\ pod[r].pc = "failed"
                                /\ link[m] = REL(r) /\ m \in MODLIST(r)
    BY <2>1, <2>3 DEF RecordInv, RemovedModulesDisappear
  <2>5. r \in 1 .. started
    BY <2>2
  <2>6. pod'[r] = pod[r] /\ REL(r)' = REL(r) /\ MODLIST(r)' = MODLIST(r)
    BY <1>1, <1>5, <2>5
  <2> QED BY <1>4, <2>4, <2>6
<1> QED
  BY <1>1, <1>3, <1>6, <1>7 DEF RecordInv

LEMMA RecordInit == Init => RecordInv
<1> SUFFICES ASSUME Init PROVE RecordInv
  OBVIOUS
<1>1. \A p \in Pods : ~(p <= started)
  BY DEF Init, Pods
<1>2. LinksKnown
  BY DEF Init, LinksKnown
<1>3. RemovedModulesDisappear
  BY <1>1 DEF RemovedModulesDisappear, LastIn
<1>4. \A p \in 1 .. started : ~Live(p)
  BY DEF Init, Live
<1> QED
  BY <1>2, <1>3, <1>4 DEF RecordInv

LEMMA RecordNext ==
  ASSUME Overlap = "none", Linked, CleanInv, RecordInv, [Next]_vars
  PROVE  RecordInv'
<1>1. CASE UNCHANGED vars
  <2>1. \A p : MODLIST(p)' = MODLIST(p) /\ REL(p)' = REL(p)
    BY <1>1, Zenon DEF MODLIST, REL, vars
  <2>2. UNCHANGED <<link, recorded, pod, started>>
    BY <1>1 DEF vars, volume
  <2>3. LinksKnown'
    BY <2>1, <2>2 DEF RecordInv, LinksKnown, Unrecorded
  <2>4. RemovedModulesDisappear'
    BY <2>1, <2>2 DEF RecordInv, RemovedModulesDisappear, LastIn, Own
  <2>5. ASSUME NEW p \in 1 .. started', Live(p)' PROVE Known(p)'
    <3>1. Known(p)
      BY <2>2, <2>5 DEF RecordInv, Live
    <3> QED BY <2>1, <2>2, <3>1 DEF Known, Own
  <2> QED BY <2>3, <2>4, <2>5 DEF RecordInv
<1>2. (CHOOSE c \in Commits : TRUE) \in Commits
  BY SomeAddonAssumption
<1>3. ASSUME NEW p \in Pods, Step(p) \/ Kill(p) PROVE RecordInv'
  <2>1. Live(p) /\ (Sync(p) \/ Cleanup(p) \/ ReleaseGone(p) \/ Kill(p))
    BY <1>3 DEF Step, Kill
  <2>2. Framed(p)
    BY <2>1, StepFramed DEF Linked, Base
  <2> QED BY <2>1, <2>2, RecordStep DEF Linked, Base
<1> QED
  BY <1>1, <1>2, <1>3, RecordStart DEF Next, Linked, Base

\* Modules removed upstream disappear on the next successful sync (staleRemoval of
\* buildSyncScript, odooaddon_sync.go), wherever earlier pods were killed, but for the
\* modules that only a failed sync had linked; pods do not overlap.
THEOREM RemovedModulesGo ==
  ASSUME Overlap = "none" PROVE Safety => []RemovedModulesDisappear
<1>1. Init => Linked /\ CleanInv /\ RecordInv
  BY LinkedInit, CleanInit, RecordInit
<1>2. Linked /\ CleanInv /\ RecordInv /\ [Next]_vars => (Linked /\ CleanInv /\ RecordInv)'
  BY LinkedStep, CleanNext, RecordNext
<1>3. RecordInv => RemovedModulesDisappear
  BY DEF RecordInv
<1> QED
  BY <1>1, <1>2, <1>3, PTL DEF Safety

-----------------------------------------------------------------------------
(* Recorded links resolve. *)

\* LinksResolve with no exception for contested modules.
AllResolve ==
    \A m \in Modules : link[m] # NoLink /\ m \in recorded[link[m][1]] =>
        content[link[m]][m] = "whole"

\* Only the links of p's own addon have to be looked at after a step of p.
LEMMA ResolveByOwn ==
  ASSUME TypeOK, AllResolve, NEW p \in Pods, Framed(p),
         \A m \in Modules : Own(p, link'[m]) /\ m \in recorded'[pod[p].addon] =>
             content'[link'[m]][m] = "whole"
  PROVE  AllResolve'
<1> SUFFICES ASSUME NEW m \in Modules, link'[m] # NoLink, m \in recorded'[link'[m][1]]
             PROVE  content'[link'[m]][m] = "whole"
  BY DEF AllResolve
<1>1. CASE Own(p, link'[m])
  BY <1>1 DEF Own
<1>2. CASE ~Own(p, link'[m])
  <2>1. link'[m] = link[m]
    BY <1>2, OthersKept
  <2>2. link[m] \in Release /\ link[m][1] \in Addons /\ link[m][1] # pod[p].addon
    BY <1>2, <2>1 DEF TypeOK, Link, Release, Own
  <2>3. recorded'[link[m][1]] = recorded[link[m][1]] /\ content'[link[m]] = content[link[m]]
    BY <2>2 DEF Framed
  <2> QED BY <2>1, <2>3 DEF AllResolve
<1> QED
  BY <1>1, <1>2

\* A step that takes nothing away but links.
LEMMA ResolveQuiet ==
  ASSUME TypeOK, AllResolve, UNCHANGED recorded,
         \A m \in Modules : link'[m] \in {link[m], NoLink},
         \A r \in Release, m \in Modules : content[r][m] = "whole" => content'[r][m] = "whole"
  PROVE  AllResolve'
<1> SUFFICES ASSUME NEW m \in Modules, link'[m] # NoLink, m \in recorded'[link'[m][1]]
             PROVE  content'[link'[m]][m] = "whole"
  BY DEF AllResolve
<1>1. link'[m] = link[m] /\ link[m] \in Release
  BY DEF TypeOK, Link
<1>2. content[link[m]][m] = "whole"
  BY <1>1 DEF AllResolve
<1> QED
  BY <1>1, <1>2

\* A step of p, after which the rest of the invariant holds.
LEMMA ResolveStep ==
  ASSUME TypeOK, PlacesInv, CopyInv, LinkInv, AllResolve, CleanInv', PublishInv', RecordInv',
         NEW p \in Pods, Live(p), Framed(p), Sync(p) \/ Cleanup(p) \/ ReleaseGone(p) \/ Kill(p)
  PROVE  AllResolve'
<1>0. /\ p \in 1 .. started /\ Placed(p) /\ Copied(p) /\ Looked(p)
      /\ REL(p) \in Release /\ REL(p) # NoLink /\ REL(p)[1] = pod[p].addon
      /\ MODLIST(p) \subseteq Modules
      /\ link \in [Modules -> Link] /\ pod[p].addon \in Addons
      /\ recorded \in [Addons -> SUBSET Modules]
      /\ content \in [Release -> [Modules -> Content]] /\ started' = started
  BY PodParts DEF TypeOK, Live, Pods, PlacesInv, CopyInv, LinkInv, Framed
<1>s. pod[p].pc \in SyncPlaces => pod[p].script = "sync"
  BY <1>0 DEF Placed
<1>q. ASSUME UNCHANGED <<link, content, recorded>> PROVE AllResolve'
  BY <1>q, ResolveQuiet
<1>k. ASSUME NEW place, NEW todo, NEW prev, NEW old, Moved(p, place, todo, prev, old)
      PROVE  /\ MODLIST(p)' = MODLIST(p) /\ REL(p)' = REL(p) /\ pod'[p].script = pod[p].script
             /\ pod'[p].pc = place /\ pod'[p].todo = todo /\ pod'[p].addon = pod[p].addon
             /\ place \notin {"done", "failed"} =>
                  PublishedSoFar(p)' /\ SweptSoFar(p)' /\ Known(p)'
  <2>1. /\ MODLIST(p)' = MODLIST(p) /\ REL(p)' = REL(p) /\ pod'[p].script = pod[p].script
        /\ pod'[p].pc = place /\ pod'[p].todo = todo /\ pod'[p].addon = pod[p].addon
    BY <1>k, MovedKeeps DEF Moved
  <2>2. place \notin {"done", "failed"} => Live(p)'
    BY <1>0, <2>1 DEF Live
  <2> QED BY <1>0, <2>1, <2>2 DEF PublishInv, CleanInv, RecordInv
\* A sync that has published and recorded its commit.
<1>m. ASSUME NEW place \in {"prune", "rm"}, pod[p].script = "sync",
             NEW todo, NEW prev, NEW old, Moved(p, place, todo, prev, old)
      PROVE  AllResolve'
  <2>1. \A m \in MODLIST(p) : link'[m] = REL(p) /\ content'[REL(p)][m] = "whole"
    <3>1. \A m \in MODLIST(p) : Published(p, m)'
      BY <1>k, <1>m DEF PublishedSoFar
    <3> QED BY <1>k, <1>m, <3>1 DEF Published
  <2>2. recorded'[pod[p].addon] = MODLIST(p)
    BY <1>k, <1>m DEF Known
  <2> QED BY <2>1, <2>2, ResolveByOwn
\* A cleanup that removes the releases.
<1>c. ASSUME pod[p].script = "cleanup", NEW todo, NEW prev, NEW old, Moved(p, "rm", todo, prev, old)
      PROVE  AllResolve'
  <2>1. \A e \in Entries : ~Own(p, Target(e))'
    BY <1>k, <1>c DEF SweptSoFar
  <2>2. \A m \in Modules : m \in Entries /\ Target(m)' = link'[m]
    <3>1. \A m \in Modules : m \in Entries /\ m > 0
      BY ModulesAssumption DEF Entries
    <3> QED BY <3>1 DEF Target
  <2>3. \A m \in Modules : ~Own(p, link'[m])
    BY <1>k, <1>c, <2>1, <2>2 DEF Own
  <2> QED BY <2>3, ResolveByOwn
<1>1. CASE CheckConflicts(p)
  BY <1>1, <1>q, CheckEffect DEF volume
<1>2. CASE MakeRelease(p)
  BY <1>2, <1>q, MakeReleaseEffect
<1>3. CASE Publish(p)
  BY <1>3, <1>q, PublishEffect
<1>4. CASE CopyEnds(p)
  BY <1>4, <1>q, CopyEndsEffect
<1>5. CASE Rename(p)
  <2> DEFINE whole == IF content[REL(p)][Current(p)] = "none"
                        THEN partial[REL(p)][Current(p)].content
                        ELSE content[REL(p)][Current(p)]
  <2>1. pod[p].pc = "rename" /\ UNCHANGED <<link, recorded>>
    BY <1>5, RenameEffect
  <2>2. partial[REL(p)][Current(p)].content = "whole" /\ Current(p) \in Modules
    BY <1>0, <2>1, CurrentModule DEF Copied, PublishLoop
  <2>3. partial[REL(p)][Current(p)] # NoCopy
    BY <2>2 DEF NoCopy
  <2>4. content' = [content EXCEPT ![REL(p)][Current(p)] = whole]
    BY <1>5, <2>3, RenameEffect
  <2>5. whole \in {content[REL(p)][Current(p)], "whole"}
    BY <2>2
  <2> HIDE DEF whole
  <2>6. \A r \in Release, m \in Modules : content'[r][m] \in {content[r][m], "whole"}
    BY <1>0, <2>2, <2>4, <2>5
  <2> QED BY <2>1, <2>6, ResolveQuiet
<1>6. CASE LinkTemporary(p)
  BY <1>6, <1>q, LinkTemporaryEffect
<1>7. CASE Switch(p)
  <2> DEFINE left == pod[p].todo \ {Current(p)}
             place == After(left, "publish", "touch")
  <2>1. pod[p].pc = "mv" /\ UNCHANGED <<content, recorded>>
    BY <1>7, SwitchEffect
  <2>2. CASE UNCHANGED link
    BY <1>q, <2>1, <2>2
  <2>3. CASE link' = [link EXCEPT ![Current(p)] = tmp[Current(p)]]
             /\ Moved(p, place, left, pod[p].prev, pod[p].old)
    <3>1. place \in {"publish", "touch"} /\ Current(p) \notin left
      BY DEF After
    <3>2. Current(p) \in MODLIST(p) /\ Current(p) \in Modules /\ pod[p].script = "sync"
      BY <1>0, <1>s, <2>1, CurrentModule DEF PublishLoop, SyncPlaces
    <3> HIDE DEF left, place
    <3>3. \A m \in MODLIST(p) \ left : Published(p, m)'
      BY <1>k, <2>3, <3>1, <3>2 DEF PublishedSoFar, PublishLoop
    <3>4. link'[Current(p)] = REL(p) /\ content'[REL(p)][Current(p)] = "whole"
      BY <1>k, <2>3, <3>1, <3>2, <3>3 DEF Published
    <3>5. ASSUME NEW m \in Modules, Own(p, link'[m]), m \in recorded'[pod[p].addon]
          PROVE  content'[link'[m]][m] = "whole"
      <4>1. CASE m = Current(p)
        BY <3>4, <4>1
      <4>2. CASE m # Current(p)
        <5>1. link'[m] = link[m]
          BY <1>0, <2>3, <4>2
        <5> QED BY <2>1, <3>5, <5>1 DEF AllResolve, Own
      <4> QED BY <4>1, <4>2
    <3> QED BY <3>5, ResolveByOwn
  <2> QED BY <1>7, <2>2, <2>3, SwitchEffect
<1>8. CASE Touch(p)
  BY <1>8, <1>q, TouchEffect
<1>9. CASE ReadStale(p)
  BY <1>9, <1>q, ReadStaleEffect DEF volume
<1>10. CASE UnlinkStale(p)
  <2>1. link' = [link EXCEPT ![Current(p)] = NoLink] /\ UNCHANGED <<content, recorded>>
    BY <1>10, UnlinkStaleEffect
  <2>2. \A m \in Modules : link'[m] \in {link[m], NoLink}
    BY <1>0, <2>1
  <2> QED BY <2>1, <2>2, ResolveQuiet
<1>11. CASE Record(p)
  BY <1>11, <1>m, <1>s, RecordEffect DEF SyncPlaces
<1>12. CASE Prune(p)
  <2>1. pod[p].script = "sync" /\ UNCHANGED <<link, recorded>>
    BY <1>12, <1>s, PruneEffect DEF SyncPlaces
  <2>2. CASE UNCHANGED content
    BY <1>q, <2>1, <2>2
  <2>3. ASSUME NEW c, Moved(p, "rm", pod[p].todo, pod[p].prev, {c}) PROVE AllResolve'
    BY <1>m, <2>1, <2>3
  <2> QED BY <1>12, <2>2, <2>3, PruneEffect
<1>13. CASE FindLinks(p)
  BY <1>13, <1>q, FindEffect DEF volume
<1>14. CASE SweepLinks(p)
  BY <1>14, <1>q, SweepEffect DEF volume
<1>15. CASE UnlinkOwn(p)
  <2>1. PICK e \in pod[p].prev : link' = [m \in Modules |-> IF m = e THEN NoLink ELSE link[m]]
    BY <1>15, UnlinkOwnEffect
  <2>2. UNCHANGED <<content, recorded>>
    BY <1>15, UnlinkOwnEffect
  <2>3. \A m \in Modules : link'[m] \in {link[m], NoLink}
    BY <2>1
  <2> QED BY <2>2, <2>3, ResolveQuiet
<1>16. CASE Purge(p)
  <2>1. pod[p].script = "cleanup"
    BY <1>0, <1>16, PurgeEffect DEF Placed, CleanupPlaces
  <2> QED BY <1>16, <1>c, <2>1, PurgeEffect
<1>17. CASE PurgeEnds(p)
  <2>1. recorded' = [recorded EXCEPT ![pod[p].addon] = {}]
    BY <1>17, PurgeEndsEffect
  <2>2. recorded'[pod[p].addon] = {}
    BY <1>0, <2>1
  <2> QED BY <2>2, ResolveByOwn
<1>18. CASE ReleaseGone(p)
  <2> DEFINE place == IF pod[p].script = "sync" THEN "prune" ELSE "rm"
  <2>1. PICK c \in pod[p].old : Moved(p, place, pod[p].todo, pod[p].prev, pod[p].old \ {c})
    BY <1>18, ReleaseGoneEffect
  <2>2. pod[p].script \in {"sync", "cleanup"}
    BY PodParts DEF TypeOK
  <2>3. CASE pod[p].script = "sync"
    <3>1. place = "prune"
      BY <2>3
    <3> HIDE DEF place
    <3> QED BY <1>m, <2>1, <2>3, <3>1
  <2>4. CASE pod[p].script = "cleanup"
    <3>1. place = "rm"
      BY <2>4
    <3> HIDE DEF place
    <3> QED BY <1>c, <2>1, <2>4, <3>1
  <2> QED BY <2>2, <2>3, <2>4
<1>19. CASE Kill(p)
  BY <1>19, <1>q, KillEffect DEF volume
<1> QED
  BY <1>1, <1>2, <1>3, <1>4, <1>5, <1>6, <1>7, <1>8, <1>9, <1>10, <1>11, <1>12, <1>13, <1>14,
     <1>15, <1>16, <1>17, <1>18, <1>19 DEF Sync, Cleanup

LEMMA ResolveNext ==
  ASSUME Overlap = "none", Linked, AllResolve, [Next]_vars, CleanInv', PublishInv', RecordInv'
  PROVE  AllResolve'
<1>1. CASE UNCHANGED <<link, content, recorded>>
  BY <1>1 DEF AllResolve
<1>2. (CHOOSE c \in Commits : TRUE) \in Commits
  BY SomeAddonAssumption
<1>3. ASSUME NEW p \in Pods, Step(p) \/ Kill(p) PROVE AllResolve'
  <2>1. Live(p) /\ (Sync(p) \/ Cleanup(p) \/ ReleaseGone(p) \/ Kill(p))
    BY <1>3 DEF Step, Kill
  <2>2. Framed(p)
    BY <2>1, StepFramed DEF Linked, Base
  <2> QED BY <2>1, <2>2, ResolveStep DEF Linked, Base
<1>4. ASSUME NEW script \in {"sync", "cleanup"}, NEW addon \in Addons, NEW commit \in Commits,
             Start(script, addon, commit)
      PROVE  UNCHANGED <<link, content, recorded>>
  BY <1>4, StartEffect DEF volume, Linked, Base
<1>5. UNCHANGED vars => UNCHANGED <<link, content, recorded>>
  BY DEF vars, volume
<1> QED
  BY <1>1, <1>2, <1>3, <1>4, <1>5 DEF Next

\* A link that .modules names leads to a whole module (prune of buildSyncScript and the
\* removals of buildCleanupScript, odooaddon_sync.go), wherever earlier pods were killed
\* outside the `rm -rf` of a release; pods do not overlap.
THEOREM LinksLead ==
  ASSUME Overlap = "none", Kills # "anywhere" PROVE Safety => []LinksResolve
<1> DEFINE Inv == Linked /\ CleanInv /\ PublishInv /\ RecordInv /\ AllResolve
<1>1. Init => Inv
  <2>1. Init => AllResolve
    BY DEF Init, AllResolve
  <2> QED BY <2>1, LinkedInit, CleanInit, PublishInit, RecordInit
<1>2. Inv /\ [Next]_vars => Inv'
  BY LinkedStep, CleanNext, PublishNext, RecordNext, ResolveNext
<1>3. Inv => LinksResolve
  BY DEF AllResolve, LinksResolve
<1> QED
  BY <1>1, <1>2, <1>3, PTL DEF Safety
=============================================================================
