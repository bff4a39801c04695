---------------------------- MODULE AddonsVolume ----------------------------
(***************************************************************************)
(* The addons volume of one OdooInstance and the pods that write to it:    *)
(* the sync script of each OdooAddon's Job (buildSyncScript) and the       *)
(* cleanup script of a deleted one (buildCleanupScript).                   *)
(*                                                                         *)
(* A script is split at each command that reads or changes the volume, so  *)
(* pods interleave command by command, and a pod can be killed between any *)
(* two: by the Job's deadline, by the deletion of its Job or with its node. *)
(* Odoo reads the volume all the time.                                     *)
(***************************************************************************)
EXTENDS Integers, Sequences, SequencesExt

CONSTANTS
    Addons,     \* OdooAddons of the instance
    Commits,    \* commits of their repositories
    Modules,    \* module folder names, in the order of `sort`
    ModulesOf,  \* the modules in an addon's repository at a commit
    MaxPods,    \* bound: pods started in a behaviour
    Overlap,    \* which pods run side by side: "none", "addons" (one each) or "any"
    Kills       \* pods are killed "never", "anywhere" or only "outside rm" of a release

ASSUME SomeAddonAssumption == Addons # {} /\ Commits # {}
ASSUME ModulesAssumption == Modules \subseteq Nat \ {0}
ASSUME ModulesOfAssumption == ModulesOf \in [Addons \X Commits -> (SUBSET Modules) \ {{}}]
ASSUME MaxPodsAssumption == MaxPods \in Nat \ {0}
ASSUME ModesAssumption == Overlap \in {"none", "addons", "any"}
                           /\ Kills \in {"never", "outside rm", "anywhere"}

Pods == 1 .. MaxPods

\* Where a link points: the release of an addon at a commit.  Release directories of a
\* module are named by the same triple.
Release == Addons \X Commits
NoLink == <<>>
Link == Release \cup {NoLink}

\* The state of a module's directory in a release, and of the `.partial` one it is
\* copied to first; the copy belongs to the pod that (re)started it.  Some of a "half"
\* directory was never copied; some of a "going" one is removed already.
Content == {"none", "half", "whole", "going"}
NoCopy == [by |-> 0, content |-> "none"]
Copy == [by : Pods \cup {0}, content : Content]

VARIABLES
    link,      \* $ADDONS/<module>
    tmp,       \* $ADDONS/.<module>.tmp, the link that is renamed over it
    content,   \* $ADDONS/.releases/<addon>/<commit>/<module>
    partial,   \* .../.<module>.partial
    releases,  \* the release directories of an addon, newest first (ls -1t)
    recorded,  \* its .modules file, empty when missing
    pod,       \* the pods: what they run and where they are
    started    \* the pods started so far

volume == <<link, tmp, content, partial, releases, recorded>>
vars == <<volume, pod, started>>

\* Directory entries at the top of the volume: a module's link and, as the negative
\* number, its temporary link.
Entries == Modules \cup {-m : m \in Modules}
Target(e) == IF e > 0 THEN link[e] ELSE tmp[-e]

\* A pod: its script, addon and commit (MODLIST follows from these), the modules or
\* entries its current loop still has to visit, $PREV of a sync or $link of a cleanup,
\* the releases an `rm -rf` is at, and the pods that were running when it started.
Pod == [script : {"sync", "cleanup"}, addon : Addons, commit : Commits,
        pc : {"check", "mkdir", "publish", "copying", "rename", "ln", "mv", "touch",
              "stale", "unlinkStale", "record", "prune",
              "find", "sweep", "unlinkOwn", "purge", "rm", "done", "failed"},
        todo : SUBSET Entries, prev : SUBSET Entries, old : SUBSET Commits,
        beside : SUBSET Pods]

MODLIST(p) == ModulesOf[pod[p].addon, pod[p].commit]
REL(p) == <<pod[p].addon, pod[p].commit>>
Current(p) == CHOOSE m \in pod[p].todo : \A n \in pod[p].todo : m <= n
Live(p) == p <= started /\ pod[p].pc \notin {"done", "failed"}

GoTo(p, place) == pod' = [pod EXCEPT ![p].pc = place]
\* set -e: the script ends at the first command that fails.
Fails(p) == pod' = [pod EXCEPT ![p].pc = "failed", ![p].todo = {}, ![p].prev = {},
                              ![p].old = {}]
Loop(p, place, modules) == pod' = [pod EXCEPT ![p].pc = place, ![p].todo = modules]
\* The loop of `place` goes on with the next module, or the script with `after`.
NextModule(p, place, after) ==
    LET left == pod[p].todo \ {Current(p)} IN
    Loop(p, IF left = {} THEN after ELSE place, left)

\* The release directory becomes the newest of its addon.
Touched(p) ==
    releases' = [releases EXCEPT ![pod[p].addon] =
                   <<pod[p].commit>> \o RemoveFirst(@, pod[p].commit)]

Own(p, place) == place # NoLink /\ place[1] = pod[p].addon
Foreign(p, place) == place # NoLink /\ place[1] # pod[p].addon

-----------------------------------------------------------------------------
(* The sync script. *)

\* Mutant of CheckConflicts: other addons' modules are not looked for.
CheckConflicts_Skipped(p) ==
    /\ pod[p].pc = "check"
    /\ NextModule(p, "check", "mkdir")
    /\ UNCHANGED <<volume, started>>

\* conflictCheck: fail, before anything is changed, if another addon provides a module.
CheckConflicts(p) ==
    /\ pod[p].pc = "check"
    /\ IF Foreign(p, link[Current(p)]) THEN Fails(p) ELSE NextModule(p, "check", "mkdir")
    /\ UNCHANGED <<volume, started>>

\* Save the previous .modules, create the release directory.
MakeRelease(p) ==
    /\ pod[p].pc = "mkdir"
    /\ pod' = [pod EXCEPT ![p].pc = "publish", ![p].todo = MODLIST(p),
                          ![p].prev = recorded[pod[p].addon]]
    /\ IF pod[p].commit \in Range(releases[pod[p].addon])
         THEN UNCHANGED releases ELSE Touched(p)
    /\ UNCHANGED <<link, tmp, content, partial, recorded, started>>

\* Mutant of Publish: the module is copied in place.
Publish_InPlace(p) ==
    /\ pod[p].pc = "publish"
    /\ content' = [content EXCEPT ![REL(p)][Current(p)] = IF @ = "none" THEN "half" ELSE @]
    /\ GoTo(p, "ln")
    /\ UNCHANGED <<link, tmp, partial, releases, recorded, started>>

\* Mutant of Publish: a copy that an earlier pod left behind is used as it is.
Publish_ReusesPartial(p) ==
    /\ pod[p].pc = "publish"
    /\ IF content[REL(p)][Current(p)] # "none" THEN GoTo(p, "ln") /\ UNCHANGED <<partial, releases>>
       ELSE IF partial[REL(p)][Current(p)] # NoCopy
              THEN GoTo(p, "rename") /\ UNCHANGED <<partial, releases>>
              ELSE /\ partial' = [partial EXCEPT ![REL(p)][Current(p)] =
                                    [by |-> p, content |-> "half"]]
                   /\ Touched(p)
                   /\ GoTo(p, "copying")
    /\ UNCHANGED <<link, tmp, content, recorded, started>>

\* publish(): a module the release lacks is copied to `.partial`, afresh.
Publish(p) ==
    /\ pod[p].pc = "publish"
    /\ IF content[REL(p)][Current(p)] # "none"
         THEN GoTo(p, "ln") /\ UNCHANGED <<partial, releases>>
         ELSE /\ partial' = [partial EXCEPT ![REL(p)][Current(p)] =
                               [by |-> p, content |-> "half"]]
              /\ Touched(p)
              /\ GoTo(p, "copying")
    /\ UNCHANGED <<link, tmp, content, recorded, started>>

\* cp ends.  Only a copy that nobody removed or restarted in the meantime is whole; a
\* disturbed cp may or may not notice.
CopyEnds(p) ==
    /\ pod[p].pc = "copying"
    /\ IF partial[REL(p)][Current(p)].by = p
         THEN /\ partial' = [partial EXCEPT ![REL(p)][Current(p)].content = "whole"]
              /\ GoTo(p, "rename")
         ELSE /\ GoTo(p, "rename") \/ Fails(p)
              /\ UNCHANGED partial
    /\ UNCHANGED <<link, tmp, content, releases, recorded, started>>

\* mv .partial: into place, or into the directory that another pod has put there; it
\* fails when there is nothing to move or the release is gone.
Rename(p) ==
    /\ pod[p].pc = "rename"
    /\ LET copy == partial[REL(p)][Current(p)] IN
         IF copy = NoCopy
           THEN Fails(p) /\ UNCHANGED <<content, partial, releases>>
           ELSE /\ content' = [content EXCEPT ![REL(p)][Current(p)] =
                                 IF @ = "none" THEN copy.content ELSE @]
                /\ partial' = [partial EXCEPT ![REL(p)][Current(p)] = NoCopy]
                /\ Touched(p)
                /\ GoTo(p, "ln")
    /\ UNCHANGED <<link, tmp, recorded, started>>

\* ln -sfn to the temporary name.
LinkTemporary(p) ==
    /\ pod[p].pc = "ln"
    /\ tmp' = [tmp EXCEPT ![Current(p)] = REL(p)]
    /\ GoTo(p, "mv")
    /\ UNCHANGED <<link, content, partial, releases, recorded, started>>

\* mv -T of the temporary link over the module's, if it is still there.
Switch(p) ==
    /\ pod[p].pc = "mv"
    /\ IF tmp[Current(p)] = NoLink
         THEN Fails(p) /\ UNCHANGED <<link, tmp>>
         ELSE /\ link' = [link EXCEPT ![Current(p)] = tmp[Current(p)]]
              /\ tmp' = [tmp EXCEPT ![Current(p)] = NoLink]
              /\ NextModule(p, "publish", "touch")
    /\ UNCHANGED <<content, partial, releases, recorded, started>>

\* Mutant of Touch: links of modules that are gone are not looked at.
Touch_NoStaleRemoval(p) ==
    /\ pod[p].pc = "touch"
    /\ Touched(p)
    /\ Loop(p, "record", {})
    /\ UNCHANGED <<link, tmp, content, partial, recorded, started>>

\* touch "$REL", and on to the modules of $PREV that are no longer there.
Touch(p) ==
    /\ pod[p].pc = "touch"
    /\ Touched(p)
    /\ LET old == pod[p].prev \ MODLIST(p) IN Loop(p, IF old = {} THEN "record" ELSE "stale", old)
    /\ UNCHANGED <<link, tmp, content, partial, recorded, started>>

\* staleRemoval: look at the link, and remove it when it points into the addon's releases.
ReadStale(p) ==
    /\ pod[p].pc = "stale"
    /\ IF Own(p, link[Current(p)]) THEN GoTo(p, "unlinkStale") ELSE NextModule(p, "stale", "record")
    /\ UNCHANGED <<volume, started>>

UnlinkStale(p) ==
    /\ pod[p].pc = "unlinkStale"
    /\ link' = [link EXCEPT ![Current(p)] = NoLink]
    /\ NextModule(p, "stale", "record")
    /\ UNCHANGED <<tmp, content, partial, releases, recorded, started>>

\* Mutant of Record: .modules lists the addon's links on the volume, so temporary ones too.
Record_FromLinks(p) ==
    /\ pod[p].pc = "record"
    /\ recorded' = [recorded EXCEPT ![pod[p].addon] = {e \in Entries : Own(p, Target(e))}]
    /\ pod' = [pod EXCEPT ![p].pc = "prune", ![p].prev = {}]
    /\ UNCHANGED <<link, tmp, content, partial, releases, started>>

\* Write .modules, by a rename.
Record(p) ==
    /\ pod[p].pc = "record"
    /\ recorded' = [recorded EXCEPT ![pod[p].addon] = MODLIST(p)]
    /\ pod' = [pod EXCEPT ![p].pc = "prune", ![p].prev = {}]
    /\ UNCHANGED <<link, tmp, content, partial, releases, started>>

\* rm -rf of the releases `gone` begins: their modules are no longer complete.
RemovalBegins(p, gone) ==
    /\ content' = [r \in Release |-> [m \in Modules |->
                     IF r[1] = pod[p].addon /\ r[2] \in gone /\ content[r][m] # "none"
                       THEN "going" ELSE content[r][m]]]
    /\ pod' = [pod EXCEPT ![p].pc = "rm", ![p].old = gone]

\* One of the releases is gone, in any order.  For each release behind the newest the
\* prune loop has an `rm -rf` of its own; the cleanup's goes on.
ReleaseGone(p) ==
    /\ pod[p].pc = "rm"
    /\ \E c \in pod[p].old :
         LET gone == <<pod[p].addon, c>> IN
         /\ content' = [content EXCEPT ![gone] = [m \in Modules |-> "none"]]
         /\ partial' = [partial EXCEPT ![gone] = [m \in Modules |-> NoCopy]]
         /\ releases' = [releases EXCEPT ![pod[p].addon] = RemoveFirst(@, c)]
         /\ pod' = [pod EXCEPT ![p].pc = IF pod[p].script = "sync" THEN "prune" ELSE "rm",
                               ![p].old = @ \ {c}]
    /\ UNCHANGED <<link, tmp, recorded, started>>

\* Mutant of Prune: the oldest release is kept.
Prune_KeepsOldest(p) ==
    /\ pod[p].pc = "prune"
    /\ IF Len(releases[pod[p].addon]) > 2
         THEN RemovalBegins(p, {releases[pod[p].addon][1]})
         ELSE GoTo(p, "done") /\ UNCHANGED content
    /\ UNCHANGED <<link, tmp, partial, releases, recorded, started>>

\* Remove the next release behind the two newest; then print the modules and the commit.
\* What is removed from a directory may make it the newest, until it is gone.
Prune(p) ==
    /\ pod[p].pc = "prune"
    /\ LET mine == releases[pod[p].addon] IN
         IF Len(mine) > 2
           THEN /\ RemovalBegins(p, {mine[3]})
                /\ \/ UNCHANGED releases
                   \/ releases' = [releases EXCEPT ![pod[p].addon] =
                                     <<mine[3]>> \o RemoveFirst(mine, mine[3])]
           ELSE GoTo(p, "done") /\ UNCHANGED <<content, releases>>
    /\ UNCHANGED <<link, tmp, partial, recorded, started>>

-----------------------------------------------------------------------------
(* The cleanup script. *)

\* find -type l: the links there are.
FindLinks(p) ==
    /\ pod[p].pc = "find"
    /\ LET links == {e \in Entries : Target(e) # NoLink} IN
         Loop(p, IF links = {} THEN "purge" ELSE "sweep", links)
    /\ UNCHANGED <<volume, started>>

\* The loop over `find` goes on, in any order of the entries.
NextEntry(p, e) ==
    LET left == pod[p].todo \ {e} IN
    pod' = [pod EXCEPT ![p].pc = IF left = {} THEN "purge" ELSE "sweep",
                       ![p].todo = left, ![p].prev = {}]

\* Mutant of SweepLinks: only recorded modules are looked at.
SweepLinks_OnlyRecorded(p) ==
    /\ pod[p].pc = "sweep"
    /\ \E e \in pod[p].todo :
         IF Own(p, Target(e)) /\ e \in recorded[pod[p].addon]
           THEN pod' = [pod EXCEPT ![p].pc = "unlinkOwn", ![p].prev = {e}]
           ELSE NextEntry(p, e)
    /\ UNCHANGED <<volume, started>>

\* Every link on the volume that points into the addon's releases is removed, the
\* temporary ones too.
SweepLinks(p) ==
    /\ pod[p].pc = "sweep"
    /\ \E e \in pod[p].todo :
         IF Own(p, Target(e))
           THEN pod' = [pod EXCEPT ![p].pc = "unlinkOwn", ![p].prev = {e}]
           ELSE NextEntry(p, e)
    /\ UNCHANGED <<volume, started>>

\* rm -f "$link".
UnlinkOwn(p) ==
    /\ pod[p].pc = "unlinkOwn"
    /\ \E e \in pod[p].prev :
         /\ link' = [m \in Modules |-> IF m = e THEN NoLink ELSE link[m]]
         /\ tmp' = [m \in Modules |-> IF m = -e THEN NoLink ELSE tmp[m]]
         /\ NextEntry(p, e)
    /\ UNCHANGED <<content, partial, releases, recorded, started>>

\* rm -rf "$RELROOT": .modules may go before or after the releases.
Purge(p) ==
    /\ pod[p].pc = "purge"
    /\ RemovalBegins(p, Range(releases[pod[p].addon]))
    /\ recorded' \in {recorded, [recorded EXCEPT ![pod[p].addon] = {}]}
    /\ UNCHANGED <<link, tmp, partial, releases, started>>

\* ... until $RELROOT is gone.
PurgeEnds(p) ==
    /\ pod[p].pc = "rm" /\ pod[p].script = "cleanup" /\ pod[p].old = {}
    /\ recorded' = [recorded EXCEPT ![pod[p].addon] = {}]
    /\ GoTo(p, "done")
    /\ UNCHANGED <<link, tmp, content, partial, releases, started>>

-----------------------------------------------------------------------------

\* A Job starts a pod.  A sync pod has fetched its commit and found its modules.
Start(script, addon, commit) ==
    /\ started < MaxPods
    /\ \A q \in 1 .. started : Live(q) =>
         Overlap = "any" \/ (Overlap = "addons" /\ pod[q].addon # addon)
    /\ started' = started + 1
    /\ pod' = [pod EXCEPT ![started + 1] =
                 [script |-> script, addon |-> addon, commit |-> commit,
                  pc |-> IF script = "sync" THEN "check" ELSE "find",
                  todo |-> IF script = "sync" THEN ModulesOf[addon, commit] ELSE {},
                  prev |-> {}, old |-> {}, beside |-> {q \in 1 .. started : Live(q)}]]
    /\ UNCHANGED volume

\* The pod is killed; what it did stays.
Kill(p) ==
    /\ Live(p) /\ (Kills = "anywhere" \/ (Kills = "outside rm" /\ pod[p].pc # "rm"))
    /\ Fails(p)
    /\ UNCHANGED <<volume, started>>

Sync(p) ==
    \/ CheckConflicts(p) \/ MakeRelease(p) \/ Publish(p) \/ CopyEnds(p) \/ Rename(p)
    \/ LinkTemporary(p) \/ Switch(p) \/ Touch(p) \/ ReadStale(p) \/ UnlinkStale(p)
    \/ Record(p) \/ Prune(p)
Cleanup(p) == FindLinks(p) \/ SweepLinks(p) \/ UnlinkOwn(p) \/ Purge(p) \/ PurgeEnds(p)

\* An empty volume; the entries of pods that are not started yet have no meaning.
Init ==
    /\ link = [m \in Modules |-> NoLink] /\ tmp = link
    /\ content = [r \in Release |-> [m \in Modules |-> "none"]]
    /\ partial = [r \in Release |-> [m \in Modules |-> NoCopy]]
    /\ releases = [a \in Addons |-> <<>>] /\ recorded = [a \in Addons |-> {}]
    /\ pod = [p \in Pods |-> [script |-> "sync", addon |-> CHOOSE a \in Addons : TRUE,
                              commit |-> CHOOSE c \in Commits : TRUE, pc |-> "done",
                              todo |-> {}, prev |-> {}, old |-> {}, beside |-> {}]]
    /\ started = 0

\* A pod runs its next command.
Step(p) == Live(p) /\ (Sync(p) \/ Cleanup(p) \/ ReleaseGone(p))

Next ==
    \/ \E a \in Addons, c \in Commits : Start("sync", a, c)
    \/ \E a \in Addons : Start("cleanup", a, CHOOSE c \in Commits : TRUE)
    \/ \E p \in Pods : Step(p)
    \/ \E p \in Pods : Kill(p)

\* A pod that is not killed runs to its end; no one has to start or kill one.
Fairness == \A p \in Pods : WF_vars(Step(p))

Safety == Init /\ [][Next]_vars
Spec == Safety /\ Fairness

-----------------------------------------------------------------------------
(* Correctness. *)

TypeOK ==
    /\ link \in [Modules -> Link] /\ tmp \in [Modules -> Link]
    /\ content \in [Release -> [Modules -> Content]]
    /\ partial \in [Release -> [Modules -> Copy]]
    /\ releases \in [Addons -> Seq(Commits)] /\ recorded \in [Addons -> SUBSET Modules]
    /\ pod \in [Pods -> Pod] /\ started \in 0 .. MaxPods
    /\ \A a \in Addons : IsInjective(releases[a])

\* "Odoo never sees a half-copied module" (docs/odooaddon.md:182), wherever pods were
\* killed before: no link points at a directory that was not copied to the end.
NeverHalfCopied ==
    \A m \in Modules : link[m] # NoLink => content[link[m]][m] # "half"

\* Two syncs of different addons that both have module m ran side by side: each may have
\* looked for the other's link before it was there.
Contested(m) ==
    \E p, q \in 1 .. started :
        /\ q \in pod[p].beside /\ pod[p].addon # pod[q].addon
        /\ pod[p].script = "sync" /\ m \in MODLIST(p)
        /\ pod[q].script = "sync" /\ m \in MODLIST(q)

\* "Conflicts are detected before anything changes" (docs/odooaddon.md:211), as long as the
\* addons that have the module are not synced side by side: until then no pod changes the
\* link of another addon, or makes one for it.
OneProvider ==
    [][\A m \in Modules, p \in 1 .. started :
         /\ pod'[p] # pod[p] /\ link'[m] # link[m]
         /\ Foreign(p, link[m]) \/ Foreign(p, link'[m])
         => Contested(m)]_vars

\* The last pod of its addon is p, and it is at one of these places of its script.
LastIn(p, script, places) ==
    /\ p <= started /\ pod[p].pc \in places /\ pod[p].script = script
    /\ \A q \in p + 1 .. started : pod[q].addon # pod[p].addon

\* A sync that ends well has published every module of its commit, whatever earlier pods
\* of any addon left on the volume; another addon can have taken the link of a contested
\* one only.
SyncPublishes ==
    \A p \in Pods : LastIn(p, "sync", {"done"}) =>
        \A m \in MODLIST(p) : /\ content[REL(p)][m] = "whole"
                              /\ link[m] = REL(p) \/ Contested(m)

\* "Modules removed upstream disappear ... on the next successful sync"
\* (docs/odooaddon.md:210), but for those that only a sync that failed half-way had linked:
\* .modules never named them.
RemovedModulesDisappear ==
    \A p \in Pods : LastIn(p, "sync", {"done"}) =>
        \A m \in Modules \ MODLIST(p) : Own(p, link[m]) =>
            \E q \in 1 .. p - 1 : /\ pod[q].script = "sync" /\ pod[q].pc = "failed"
                                  /\ link[m] = REL(q) /\ m \in MODLIST(q)

\* The link of a module that its addon's .modules names leads to a complete module, however
\* syncs were killed: pruning and cleanup keep what is linked and recorded.
LinksResolve ==
    \A m \in Modules : link[m] # NoLink /\ m \in recorded[link[m][1]] =>
        content[link[m]][m] = "whole" \/ Contested(m)

\* "Deleting an OdooAddon cleans up" (docs/odooaddon.md:212): the addon's releases are
\* removed when no link leads to them any more, and a cleanup that ends well leaves no
\* link and no release, also after killed syncs; a sync of another addon can have put back
\* the link of a contested module only.
CleanedUp ==
    \A p \in Pods : LastIn(p, "cleanup", {"rm", "done"}) =>
        /\ \A e \in Entries : Own(p, Target(e)) => Contested(IF e > 0 THEN e ELSE -e)
        /\ pod[p].pc = "done" => releases[pod[p].addon] = <<>>
=============================================================================
