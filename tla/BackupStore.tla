----------------------------- MODULE BackupStore -----------------------------
(***************************************************************************)
(* The scripts of the backup pods and the destination they share: a claim  *)
(* (PVC) or a bucket prefix (S3) that holds the dumps of one database and  *)
(* the archives of its filestore.                                          *)
(*                                                                         *)
(* The pods come from one-shot Jobs and from CronJobs and may overlap.  A  *)
(* pod is split where another pod's commands can fall between its own; it  *)
(* may fail at a command (set -e) or be killed at its deadline.            *)
(***************************************************************************)
EXTENDS Integers, FiniteSets, Sequences

CONSTANTS
    Pods,          \* the backup pods of a behaviour
    MaxStamp,      \* bound: seconds in which a pod starts
    Destinations,  \* the kinds of destination, of {"pvc", "s3"}
    Overlapping,   \* the pairs <<destination, retention>> at which two pods may run at once
    Retentions,    \* the values of spec.retention; 0: unset
    Ties,          \* the destinations at which a pod may start in the second of an ended one
    MaxFaults      \* bound: failed commands and killed pods

ASSUME DestinationsAssumption == /\ Destinations \subseteq {"pvc", "s3"}
                                 /\ Overlapping \subseteq Destinations \X Retentions
                                 /\ Ties \subseteq Destinations
ASSUME BoundsAssumption == /\ MaxStamp \in Nat /\ MaxFaults \in Nat
                           /\ Retentions \subseteq Nat

Stamp == 1 .. MaxStamp
Kind == {"dump", "filestore"}
\* A file is named after the database, the second its pod started in and its kind.
Name == Stamp \X Kind

(***************************************************************************)
(* A pod: where its script is, STAMP, the files it has finished ($FILES),  *)
(* and, while it prunes, the dumps it has still to look at, how many it    *)
(* has counted (i) of how many to drop, and the dump it is removing.       *)
(* History: sees, the dumps there were when it counted or listed them, and *)
(* after, the pods that had ended when it started.                         *)
(***************************************************************************)
Ended == {"succeeded", "failed", "killed"}
Pruning == {"glob", "prune", "archive"}
Pc == {"new", "dump", "tar", "upload", "count", "list"} \cup Pruning \cup Ended
Pod == [pc : Pc, stamp : 0 .. MaxStamp, files : Seq(Kind), todo : SUBSET Stamp,
        seen : Nat, drop : Int, victim : 0 .. MaxStamp, sees : SUBSET Stamp,
        after : SUBSET Pods]
NewPod == [pc |-> "new", stamp |-> 0, files |-> <<>>, todo |-> {}, seen |-> 0,
           drop |-> 0, victim |-> 0, sees |-> {}, after |-> {}]

VARIABLES
    dest,       \* the kind of the destination
    keep,       \* BACKUP_RETENTION
    pod,        \* the pods
    files,      \* the files at the destination: absent, whole or torn
    partial,    \* PVC: who has written the temporary file of a name, {}: there is none
    clock,      \* the current second
    published,  \* history: the stamps of all dumps ever published
    faults      \* faults so far

conf == <<dest, keep>>
vars == <<conf, pod, files, partial, clock, published, faults>>

Live(p) == pod[p].pc \notin Ended \cup {"new"}
Present(n) == files[n] # "absent"
Dumps == {s \in Stamp : Present(<<s, "dump">>)}

-----------------------------------------------------------------------------
(* backupDumpSteps: each file is written under a temporary name, then renamed. *)

\* Mutant of Open: the file is written under its own name.
Open_InPlace(p, n) ==
    /\ files' = [files EXCEPT ![n] = "torn"]
    /\ partial' = [partial EXCEPT ![n] = {q \in @ : Live(q)} \cup {p}]

\* pg_dump and tar truncate what has the temporary name; a live writer goes on.
Open(p, n) ==
    /\ partial' = [partial EXCEPT ![n] = {q \in @ : Live(q)} \cup {p}]
    /\ UNCHANGED files

Names(p) == [dump |-> <<pod[p].stamp, "dump">>, filestore |-> <<pod[p].stamp, "filestore">>]

\* Mutant of AfterFiles: the script of a bucket ends with the tail of a claim's.
AfterFiles_ClaimTail == IF keep > 0 THEN "count" ELSE "glob"

\* Where the script goes once its files are written.
AfterFiles == IF dest = "s3" THEN "upload" ELSE IF keep > 0 THEN "count" ELSE "glob"

Start(p) ==
    /\ pod[p].pc = "new"
    /\ <<dest, keep>> \in Overlapping \/ \A q \in Pods : ~Live(q)
    /\ \E s \in clock .. clock + 1 :
         /\ s \in Stamp /\ (s = clock => dest \in Ties /\ \A q \in Pods : ~Live(q))
         /\ pod' = [pod EXCEPT ![p].pc = "dump", ![p].stamp = s,
                               ![p].after = {q \in Pods : pod[q].pc \in Ended}]
         /\ clock' = s
         /\ IF dest = "pvc" THEN Open(p, <<s, "dump">>) ELSE UNCHANGED <<files, partial>>
    /\ UNCHANGED <<conf, published, faults>>

\* The rename of a finished file; there is none to rename when a trap removed it.
Rename(p, n) ==
    /\ partial[n] # {}
    /\ files' = [files EXCEPT ![n] = IF partial[n] = {p} THEN "whole" ELSE "torn"]
    /\ published' = published \cup ({n[1]} \cap {s \in Stamp : n[2] = "dump"})

\* The dump is complete; the filestore follows when it is included and exists.
DumpEnds(p) ==
    /\ pod[p].pc = "dump"
    /\ IF dest = "pvc" THEN Rename(p, Names(p).dump) ELSE UNCHANGED <<files, published>>
    /\ \E next \in {"tar", AfterFiles} :
         /\ pod' = [pod EXCEPT ![p].pc = next, ![p].files = <<"dump">>]
         /\ partial' = IF dest = "s3" THEN partial ELSE
            [n \in Name |->
               CASE n = Names(p).dump -> {}
                 [] n = Names(p).filestore /\ next = "tar" ->
                      {q \in partial[n] : Live(q)} \cup {p}
                 [] OTHER -> partial[n]]
    /\ UNCHANGED <<conf, clock, faults>>

TarEnds(p) ==
    /\ pod[p].pc = "tar"
    /\ IF dest = "pvc"
         THEN /\ Rename(p, Names(p).filestore)
              /\ partial' = [partial EXCEPT ![Names(p).filestore] = {}]
         ELSE UNCHANGED <<files, published, partial>>
    /\ pod' = [pod EXCEPT ![p].pc = AfterFiles, ![p].files = <<"dump", "filestore">>]
    /\ UNCHANGED <<conf, clock, faults>>

-----------------------------------------------------------------------------
(* The exits.  The trap that removes every temporary file of the claim is set *)
(* after the files are written, so it runs on the later exits only.           *)

TrapSet(p) == dest = "pvc" /\ pod[p].pc \in {"count"} \cup Pruning

\* Mutant of Exit: nothing is removed when the script ends.
Exit_NoTrap(p, outcome) ==
    /\ pod' = [pod EXCEPT ![p].pc = outcome]
    /\ UNCHANGED partial

Exit(p, outcome) ==
    /\ pod' = [pod EXCEPT ![p].pc = outcome]
    /\ partial' = IF TrapSet(p) THEN [n \in Name |-> {}] ELSE partial

Fault == faults < MaxFaults /\ faults' = faults + 1

\* A command fails (pg_dump, tar, aws s3 cp, rm) and set -e ends the script.
CommandFails(p) ==
    /\ Fault
    /\ Live(p)
    /\ Exit(p, "failed")
    /\ UNCHANGED <<conf, files, clock, published>>

\* The temporary file is gone, so mv fails.
RenameFails(p) ==
    /\ dest = "pvc"
    /\ \/ pod[p].pc = "dump" /\ partial[Names(p).dump] = {}
       \/ pod[p].pc = "tar" /\ partial[Names(p).filestore] = {}
    /\ Exit(p, "failed")
    /\ UNCHANGED <<conf, files, clock, published, faults>>

\* The deadline or the loss of the node: no trap runs.
Kill(p) ==
    /\ Fault
    /\ Live(p)
    /\ pod' = [pod EXCEPT ![p].pc = "killed"]
    /\ UNCHANGED <<conf, files, partial, clock, published>>

-----------------------------------------------------------------------------
(* buildBackupPVCScript: prune_dumps expands the glob twice, first to count  *)
(* the dumps, then to walk them from the oldest, skipping what is gone.      *)

\* Mutant of Drop: one fewer is dropped.
Drop_OneFewer(total) == total - keep - 1

Drop(total) == total - keep

Count(p) ==
    /\ pod[p].pc = "count"
    /\ pod' = [pod EXCEPT ![p].pc = "glob", ![p].drop = Drop(Cardinality(Dumps)),
                          ![p].sees = Dumps]
    /\ UNCHANGED <<conf, files, partial, clock, published, faults>>

\* The second expansion; without a retention there is nothing to walk.
Glob(p) ==
    /\ pod[p].pc = "glob"
    /\ IF keep > 0 THEN /\ pod' = [pod EXCEPT ![p].pc = "prune", ![p].todo = Dumps]
                        /\ UNCHANGED partial
                   ELSE Exit(p, "succeeded")
    /\ UNCHANGED <<conf, files, clock, published, faults>>

Oldest(S) == CHOOSE s \in S : \A t \in S : s <= t
Newest(S) == CHOOSE s \in S : \A t \in S : t <= s

\* One turn of the loop: a dump that is there is counted, and removed if it is due.
Walk(p) ==
    /\ dest = "pvc" /\ pod[p].pc = "prune" /\ pod[p].todo # {}
    /\ LET s == Oldest(pod[p].todo)
           i == pod[p].seen + 1
           due == Present(<<s, "dump">>) /\ i <= pod[p].drop
       IN /\ pod' = [pod EXCEPT ![p].todo = @ \ {s},
                                ![p].seen = IF Present(<<s, "dump">>) THEN i ELSE @,
                                ![p].pc = IF due THEN "archive" ELSE "prune",
                                ![p].victim = IF due THEN s ELSE @]
          /\ files' = IF due THEN [files EXCEPT ![<<s, "dump">>] = "absent"] ELSE files
    /\ UNCHANGED <<conf, partial, clock, published, faults>>

\* Mutant of RemoveArchive: only the dump is removed.
RemoveArchive_Kept(p) ==
    /\ pod[p].pc = "archive"
    /\ pod' = [pod EXCEPT ![p].pc = "prune"]
    /\ UNCHANGED <<conf, files, partial, clock, published, faults>>

\* The filestore archive goes after its dump.
RemoveArchive(p) ==
    /\ pod[p].pc = "archive"
    /\ files' = [files EXCEPT ![<<pod[p].victim, "filestore">>] = "absent"]
    /\ pod' = [pod EXCEPT ![p].pc = "prune"]
    /\ UNCHANGED <<conf, partial, clock, published, faults>>

PruneEnds(p) ==
    /\ pod[p].pc = "prune" /\ pod[p].todo = {}
    /\ Exit(p, "succeeded")
    /\ UNCHANGED <<conf, files, clock, published, faults>>

-----------------------------------------------------------------------------
(* buildBackupUploadScript: the files of the manifest are copied one by one, *)
(* then the dumps beyond the newest ones of one listing are deleted.         *)

\* The lines of the manifest that the loop gets: printf wrote no newline at its end,
\* so `read` fails on the last line and the loop ends before it.
ReadLines(manifest) == SubSeq(manifest, 1, Len(manifest) - 1)

\* seen is the number of files copied so far; $FILES names these, not the manifest.
Upload(p) ==
    /\ pod[p].pc = "upload"
    /\ LET lines == ReadLines(pod[p].files)
           i == pod[p].seen + 1
       IN IF i <= Len(lines)
            THEN /\ files' = [files EXCEPT ![<<pod[p].stamp, lines[i]>>] = "whole"]
                 /\ published' = published \cup ({pod[p].stamp} \cap {s \in Stamp : lines[i] = "dump"})
                 /\ pod' = [pod EXCEPT ![p].seen = i]
            ELSE /\ pod' = [pod EXCEPT ![p].pc = IF keep > 0 THEN "list" ELSE "succeeded",
                                       ![p].files = lines]
                 /\ UNCHANGED <<files, published>>
    /\ UNCHANGED <<conf, partial, clock, faults>>

\* Mutant of Excess: the oldest are kept.
Excess_KeepsOldest(S) == {s \in S : Cardinality({t \in S : t < s}) >= keep}

\* The dumps beyond the newest `keep`.
Excess(S) == {s \in S : Cardinality({t \in S : t > s}) >= keep}

List(p) ==
    /\ pod[p].pc = "list"
    /\ pod' = [pod EXCEPT ![p].pc = "prune", ![p].todo = Excess(Dumps), ![p].sees = Dumps]
    /\ UNCHANGED <<conf, files, partial, clock, published, faults>>

\* The listing is the first command of a pipeline: its failure goes unnoticed.
ListFails(p) ==
    /\ Fault
    /\ pod[p].pc = "list"
    /\ pod' = [pod EXCEPT ![p].pc = "prune"]
    /\ UNCHANGED <<conf, files, partial, clock, published>>

\* delete-object succeeds whether or not the key is there.
DeleteObject(p) ==
    /\ dest = "s3" /\ pod[p].pc = "prune" /\ pod[p].todo # {}
    /\ LET s == Newest(pod[p].todo)
       IN /\ pod' = [pod EXCEPT ![p].todo = @ \ {s}, ![p].pc = "archive", ![p].victim = s]
          /\ files' = [files EXCEPT ![<<s, "dump">>] = "absent"]
    /\ UNCHANGED <<conf, partial, clock, published, faults>>

-----------------------------------------------------------------------------
Init ==
    /\ dest \in Destinations /\ keep \in Retentions
    /\ pod = [p \in Pods |-> NewPod]
    /\ files = [n \in Name |-> "absent"] /\ partial = [n \in Name |-> {}]
    /\ clock = 0 /\ published = {} /\ faults = 0

Script(p) ==
    \/ DumpEnds(p) \/ TarEnds(p) \/ RenameFails(p)
    \/ Count(p) \/ Glob(p) \/ Walk(p) \/ RemoveArchive(p) \/ PruneEnds(p)
    \/ Upload(p) \/ List(p) \/ DeleteObject(p)

Next == \E p \in Pods : Start(p) \/ Script(p) \/ CommandFails(p) \/ ListFails(p) \/ Kill(p)

Spec == Init /\ [][Next]_vars

-----------------------------------------------------------------------------
\* The types, and which steps belong to the script of a claim and to that of a bucket.
TypeOK ==
    /\ dest \in Destinations /\ keep \in Retentions
    /\ pod \in [Pods -> Pod]
    /\ files \in [Name -> {"absent", "whole", "torn"}]
    /\ partial \in [Name -> SUBSET Pods]
    /\ clock \in 0 .. MaxStamp /\ published \subseteq Stamp /\ faults \in 0 .. MaxFaults
    /\ \A p \in Pods : /\ pod[p].pc \in {"count", "glob"} => dest = "pvc"
                       /\ pod[p].pc \in {"upload", "list"} => dest = "s3"

\* The newest backups survive every pruning (prune_dumps, delete-object): of all dumps
\* ever published, the newest `retention` ones are at the destination, and all of them
\* when no retention is set, whatever pods fail at or are killed in, and whatever others
\* of a bucket prune meanwhile.  On a claim with a retention it needs one pod at a time
\* (Overlapping): the two globs of prune_dumps count twice what another pod removes.
NewestKept ==
    \A s \in published :
        keep = 0 \/ Cardinality({t \in published : t > s}) < keep => s \in Dumps

\* A successful run leaves at most `retention` of the dumps it counted or listed.
OldOnesPruned ==
    \A p \in Pods :
        keep > 0 /\ pod[p].pc = "succeeded" => Cardinality(Dumps \cap pod[p].sees) <= keep

\* What has a backup's name is complete: no reader of the destination, and no restore,
\* meets a dump or an archive that pg_dump or tar was still writing.
NeverTorn == \A n \in Name : files[n] # "torn"

\* Pruning takes a dump's archive with it: an archive without its dump is left only by
\* a run that ended between the two removals.
ArchiveFollowsDump ==
    \A s \in published :
        Present(<<s, "filestore">>) /\ s \notin Dumps
            => \E p \in Pods : pod[p].victim = s /\ pod[p].pc \in {"archive", "failed", "killed"}

\* The exit trap clears what ended runs left: once a run has succeeded, no temporary file
\* of a run that had ended before it started is on the claim.
LeftoversRemoved ==
    \A n \in Name : \A p \in partial[n] :
        ~\E q \in Pods : pod[q].pc = "succeeded" /\ p \in pod[q].after

\* A run that ends successfully has stored its dump at the destination at some time (the
\* upload container copies the files of the manifest).
SucceededMeansStored ==
    \A p \in Pods : pod[p].pc = "succeeded" => pod[p].stamp \in published
=============================================================================
