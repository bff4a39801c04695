-------------------------- MODULE BackupStoreProofs --------------------------
(***************************************************************************)
(* Theorems about BackupStore for every number of pods and seconds, every  *)
(* retention and every choice of destinations, overlaps and ties.          *)
(***************************************************************************)
EXTENDS BackupStore, FiniteSetTheorems, WellFoundedInduction, TLAPS

-----------------------------------------------------------------------------
(* The parts of a step. *)

LEMMA PcType ==
  /\ {"dump", "tar", "upload", "count", "list", "glob", "prune", "archive"} \subseteq Pc
  /\ Ended \subseteq Pc /\ {"succeeded", "failed", "killed"} = Ended
  /\ AfterFiles \in Pc
  BY DEF Pc, Pruning, Ended, AfterFiles

LEMMA NewPodType == NewPod \in Pod
  BY BoundsAssumption DEF NewPod, Pod, Pc, Pruning, Ended

LEMMA PodType ==
  ASSUME TypeOK, NEW p \in Pods
  PROVE  pod[p] \in Pod
  BY DEF TypeOK

LEMMA DumpsType == Dumps \in SUBSET Stamp /\ Cardinality(Dumps) \in Nat
<1>1. IsFiniteSet(Stamp)
  BY FS_Interval, BoundsAssumption DEF Stamp
<1>2. Dumps \in SUBSET Stamp
  BY DEF Dumps
<1> QED
  BY <1>1, <1>2, FS_Subset, FS_CardinalityType

\* A set of naturals that is not empty has a least element.
LEMMA LeastNatural ==
  ASSUME NEW S \in SUBSET Nat, S # {}
  PROVE  \E s \in S : \A t \in S : s <= t
<1> DEFINE Less == {ss \in Nat \X Nat : ss[1] < ss[2]}
<1>1. IsWellFoundedOn(Less, Nat)
  BY NatLessThanWellFounded, Zenon DEF OpToRel
<1>2. PICK s \in S : \A t \in S : ~(<<t, s>> \in Less)
  <2> HIDE DEF Less
  <2> QED BY <1>1, WFMin
<1>3. \A t \in S : <<t, s>> \in Nat \X Nat /\ <<t, s>>[1] = t /\ <<t, s>>[2] = s
  OBVIOUS
<1>4. \A t \in S : ~(t < s)
  BY <1>2, <1>3, Zenon
<1>5. \A t \in S : s <= t
  BY <1>4
<1> QED
  BY <1>5

\* A set of seconds that is not empty has an oldest one.
LEMMA OldestType ==
  ASSUME NEW S \in SUBSET Stamp, S # {}
  PROVE  Oldest(S) \in S
<1>1. \E s \in S : \A t \in S : s <= t
  BY LeastNatural DEF Stamp
<1> QED
  BY <1>1 DEF Oldest

\* And a newest one.
LEMMA NewestType ==
  ASSUME NEW S \in SUBSET Stamp, S # {}
  PROVE  Newest(S) \in S
<1> DEFINE T == {MaxStamp - s : s \in S}
<1>1. T \in SUBSET Nat /\ T # {}
  BY BoundsAssumption DEF Stamp
<1>2. PICK t \in T : \A u \in T : t <= u
  <2> HIDE DEF T
  <2> QED BY <1>1, LeastNatural
<1>3. PICK s \in S : t = MaxStamp - s
  OBVIOUS
<1>4. \A r \in S : r <= s
  <2> SUFFICES ASSUME NEW r \in S PROVE r <= s
    OBVIOUS
  <2>1. t <= MaxStamp - r
    BY <1>2
  <2> QED
    BY <1>3, <2>1, BoundsAssumption DEF Stamp
<1> QED
  BY <1>4 DEF Newest

\* How a script ends.
LEMMA ExitType ==
  ASSUME TypeOK, NEW p \in Pods, NEW outcome \in Ended, Exit(p, outcome)
  PROVE  pod' \in [Pods -> Pod] /\ partial' \in [Name -> SUBSET Pods]
<1>1. [pod[p] EXCEPT !.pc = outcome] \in Pod
  BY PodType, PcType DEF Pod
<1> QED
  BY <1>1 DEF TypeOK, Exit

-----------------------------------------------------------------------------
(* Type correctness. *)

Types ==
    /\ dest \in Destinations /\ keep \in Retentions
    /\ pod \in [Pods -> Pod]
    /\ files \in [Name -> {"absent", "whole", "torn"}]
    /\ partial \in [Name -> SUBSET Pods]
    /\ clock \in 0 .. MaxStamp /\ published \subseteq Stamp /\ faults \in 0 .. MaxFaults

\* A step is one of the script that the destination asks for.
Fits(pc, d) ==
    /\ pc \in {"count", "glob"} => d = "pvc"
    /\ pc \in {"upload", "list"} => d = "s3"

LEMMA TypeInit == Init => TypeOK
  BY NewPodType, BoundsAssumption DEF Init, TypeOK, NewPod

LEMMA TypeStart ==
  ASSUME TypeOK, NEW p \in Pods, Start(p)
  PROVE  Types'
<1>1. PICK s \in Stamp :
        /\ pod' = [pod EXCEPT ![p].pc = "dump", ![p].stamp = s,
                              ![p].after = {q \in Pods : pod[q].pc \in Ended}]
        /\ clock' = s
        /\ IF dest = "pvc" THEN Open(p, <<s, "dump">>) ELSE UNCHANGED <<files, partial>>
  BY DEF Start
<1>2. pod' \in [Pods -> Pod]
  <2> DEFINE ended == {q \in Pods : pod[q].pc \in Ended}
  <2>0. /\ pod[p] \in Pod /\ "dump" \in Pc /\ ended \in SUBSET Pods
        /\ s \in 0 .. MaxStamp
    BY PodType, PcType DEF Stamp
  <2> HIDE DEF ended
  <2>1. [pod[p] EXCEPT !.pc = "dump", !.stamp = s, !.after = ended] \in Pod
    BY <2>0 DEF Pod
  <2> USE DEF ended
  <2> QED
    BY <1>1, <2>1 DEF TypeOK, Types
<1>3. files' = files /\ partial' \in [Name -> SUBSET Pods]
  BY <1>1 DEF TypeOK, Types, Open
<1> QED
  BY <1>1, <1>2, <1>3 DEF Start, TypeOK, Types, conf, Stamp

LEMMA RenameType ==
  ASSUME TypeOK, NEW p \in Pods, NEW n, Rename(p, n)
  PROVE  files' \in [Name -> {"absent", "whole", "torn"}] /\ published' \subseteq Stamp
  BY DEF TypeOK, Types, Rename

LEMMA TypeDumpEnds ==
  ASSUME TypeOK, NEW p \in Pods, DumpEnds(p)
  PROVE  Types'
<1>1. PICK next \in {"tar", AfterFiles} :
        /\ pod' = [pod EXCEPT ![p].pc = next, ![p].files = <<"dump">>]
        /\ partial' = IF dest = "s3" THEN partial ELSE
           [n \in Name |->
              CASE n = Names(p).dump -> {}
                [] n = Names(p).filestore /\ next = "tar" ->
                     {q \in partial[n] : Live(q)} \cup {p}
                [] OTHER -> partial[n]]
  BY DEF DumpEnds
<1>2. next \in Pc /\ <<"dump">> \in Seq(Kind)
  BY <1>1, PcType DEF Kind
<1>3. pod' \in [Pods -> Pod]
  <2>0. pod[p] \in Pod /\ next \in Pc /\ <<"dump">> \in Seq(Kind)
    BY <1>2, PodType
  <2>1. [pod[p] EXCEPT !.pc = next, !.files = <<"dump">>] \in Pod
    BY <2>0 DEF Pod
  <2> QED
    BY <1>1, <2>1 DEF TypeOK, Types
<1>4. partial' \in [Name -> SUBSET Pods]
  BY <1>1 DEF TypeOK, Types
<1>5. files' \in [Name -> {"absent", "whole", "torn"}] /\ published' \subseteq Stamp
  BY RenameType DEF DumpEnds, TypeOK, Types
<1> QED
  BY <1>3, <1>4, <1>5 DEF DumpEnds, TypeOK, Types, conf

LEMMA TypeTarEnds ==
  ASSUME TypeOK, NEW p \in Pods, TarEnds(p)
  PROVE  Types'
<1>1. AfterFiles \in Pc /\ <<"dump", "filestore">> \in Seq(Kind)
  BY PcType DEF Kind
<1>2. pod' \in [Pods -> Pod]
  <2>0. pod[p] \in Pod /\ AfterFiles \in Pc
    BY PodType, PcType
  <2>1. [pod[p] EXCEPT !.pc = AfterFiles, !.files = <<"dump", "filestore">>] \in Pod
    BY <2>0, <1>1 DEF Pod
  <2> QED
    BY <2>1 DEF TarEnds, TypeOK, Types
<1>3. partial' \in [Name -> SUBSET Pods]
  BY DEF TarEnds, TypeOK, Types
<1>4. files' \in [Name -> {"absent", "whole", "torn"}] /\ published' \subseteq Stamp
  BY RenameType DEF TarEnds, TypeOK, Types
<1> QED
  BY <1>2, <1>3, <1>4 DEF TarEnds, TypeOK, Types, conf

\* The exits: a failed command, a failed rename, a kill, the end of the pruning.
LEMMA TypeExits ==
  ASSUME TypeOK, NEW p \in Pods,
         CommandFails(p) \/ RenameFails(p) \/ Kill(p) \/ PruneEnds(p)
  PROVE  Types'
<1>1. pod' \in [Pods -> Pod] /\ partial' \in [Name -> SUBSET Pods]
  <2>1. CASE Kill(p)
    <3>1. [pod[p] EXCEPT !.pc = "killed"] \in Pod
      BY PodType, PcType DEF Pod
    <3> QED
      BY <2>1, <3>1 DEF Kill, TypeOK, Types
  <2>2. CASE CommandFails(p)
    BY <2>2, ExitType DEF CommandFails, Ended
  <2>3. CASE RenameFails(p)
    BY <2>3, ExitType DEF RenameFails, Ended
  <2>4. CASE PruneEnds(p)
    BY <2>4, ExitType DEF PruneEnds, Ended
  <2> QED
    BY <2>1, <2>2, <2>3, <2>4
<1>2. faults' \in 0 .. MaxFaults
  BY BoundsAssumption DEF CommandFails, RenameFails, Kill, PruneEnds, Fault, TypeOK, Types
<1>3. UNCHANGED <<dest, keep, files, clock, published>>
  BY DEF CommandFails, RenameFails, Kill, PruneEnds, conf
<1> QED
  BY <1>1, <1>2, <1>3 DEF TypeOK, Types

\* The pruning on a claim.
LEMMA TypeClaim ==
  ASSUME TypeOK, NEW p \in Pods,
         Count(p) \/ Glob(p) \/ Walk(p) \/ RemoveArchive(p)
  PROVE  Types'
<1>1. CASE Count(p)
  <2>1. Drop(Cardinality(Dumps)) \in Int
    BY DumpsType, BoundsAssumption DEF Drop, TypeOK, Types
  <2>2. pod' \in [Pods -> Pod]
    <3>0. pod[p] \in Pod /\ "glob" \in Pc /\ Dumps \in SUBSET Stamp
      BY PodType, PcType, DumpsType
    <3>1. [pod[p] EXCEPT !.pc = "glob", !.drop = Drop(Cardinality(Dumps)),
                         !.sees = Dumps] \in Pod
      BY <3>0, <2>1 DEF Pod
    <3> QED
      BY <1>1, <3>1 DEF Count, TypeOK, Types
  <2> QED
    BY <1>1, <2>2 DEF Count, TypeOK, Types, conf
<1>2. CASE Glob(p)
  <2>1. pod' \in [Pods -> Pod] /\ partial' \in [Name -> SUBSET Pods]
    <3>1. CASE keep > 0
      <4>0. pod[p] \in Pod /\ "prune" \in Pc /\ Dumps \in SUBSET Stamp
        BY PodType, PcType, DumpsType
      <4>1. [pod[p] EXCEPT !.pc = "prune", !.todo = Dumps] \in Pod
        BY <4>0 DEF Pod
      <4> QED
        BY <1>2, <3>1, <4>1 DEF Glob, TypeOK, Types
    <3>2. CASE ~(keep > 0)
      BY <1>2, <3>2, ExitType DEF Glob, Ended
    <3> QED
      BY <3>1, <3>2
  <2> QED
    BY <1>2, <2>1 DEF Glob, TypeOK, Types, conf
<1>3. CASE Walk(p)
  <2> DEFINE s == Oldest(pod[p].todo)
             i == pod[p].seen + 1
             due == Present(<<s, "dump">>) /\ i <= pod[p].drop
  <2>1. s \in Stamp /\ s \in 0 .. MaxStamp
    <3>1. pod[p].todo \in SUBSET Stamp /\ pod[p].todo # {}
      BY <1>3, PodType DEF Walk, Pod
    <3> QED
      BY <3>1, OldestType DEF Stamp
  <2>2. i \in Nat
    BY DEF TypeOK, Types, Pod
  <2>3. /\ pod' = [pod EXCEPT ![p].todo = @ \ {s},
                              ![p].seen = IF Present(<<s, "dump">>) THEN i ELSE @,
                              ![p].pc = IF due THEN "archive" ELSE "prune",
                              ![p].victim = IF due THEN s ELSE @]
        /\ files' = IF due THEN [files EXCEPT ![<<s, "dump">>] = "absent"] ELSE files
    BY <1>3 DEF Walk
  <2> HIDE DEF s, i, due
  <2>4. pod' \in [Pods -> Pod]
    <3>0. pod[p] \in Pod /\ "archive" \in Pc /\ "prune" \in Pc
      BY PodType, PcType
    <3>1. [pod[p] EXCEPT !.todo = @ \ {s},
                         !.seen = IF Present(<<s, "dump">>) THEN i ELSE @,
                         !.pc = IF due THEN "archive" ELSE "prune",
                         !.victim = IF due THEN s ELSE @] \in Pod
      BY <3>0, <2>1, <2>2 DEF Pod
    <3> QED
      BY <2>3, <3>1 DEF TypeOK, Types
  <2>5. files' \in [Name -> {"absent", "whole", "torn"}]
    BY <2>3 DEF TypeOK, Types
  <2> QED
    BY <1>3, <2>4, <2>5 DEF Walk, TypeOK, Types, conf
<1>4. CASE RemoveArchive(p)
  <2>1. pod' \in [Pods -> Pod]
    <3>1. [pod[p] EXCEPT !.pc = "prune"] \in Pod
      BY PodType, PcType DEF Pod
    <3> QED
      BY <1>4, <3>1 DEF RemoveArchive, TypeOK, Types
  <2> QED
    BY <1>4, <2>1 DEF RemoveArchive, TypeOK, Types, conf
<1> QED
  BY <1>1, <1>2, <1>3, <1>4

\* The upload and the pruning in a bucket.
LEMMA TypeBucket ==
  ASSUME TypeOK, NEW p \in Pods,
         Upload(p) \/ List(p) \/ ListFails(p) \/ DeleteObject(p)
  PROVE  Types'
<1>1. CASE Upload(p)
  <2> DEFINE lines == ReadLines(pod[p].files)
             i == pod[p].seen + 1
  <2>1. pod[p].files \in Seq(Kind) /\ i \in Nat
    BY DEF TypeOK, Types, Pod
  <2>2. lines \in Seq(Kind)
    BY <2>1 DEF ReadLines
  <2>3. CASE i <= Len(lines)
    <3>1. /\ files' = [files EXCEPT ![<<pod[p].stamp, lines[i]>>] = "whole"]
          /\ published' = published \cup ({pod[p].stamp} \cap {s \in Stamp : lines[i] = "dump"})
          /\ pod' = [pod EXCEPT ![p].seen = i]
      BY <1>1, <2>3 DEF Upload
    <3> HIDE DEF lines, i
    <3>2. [pod[p] EXCEPT !.seen = i] \in Pod
      BY <2>1, PodType DEF Pod
    <3>3. pod' \in [Pods -> Pod]
      BY <3>1, <3>2 DEF TypeOK, Types
    <3> QED
      BY <1>1, <3>1, <3>3 DEF Upload, TypeOK, Types, conf
  <2>4. CASE ~(i <= Len(lines))
    <3>1. /\ pod' = [pod EXCEPT ![p].pc = IF keep > 0 THEN "list" ELSE "succeeded",
                                ![p].files = lines]
          /\ UNCHANGED <<files, published>>
      BY <1>1, <2>4 DEF Upload
    <3> HIDE DEF lines, i
    <3>2. pod' \in [Pods -> Pod]
      <4>0. pod[p] \in Pod /\ "list" \in Pc /\ "succeeded" \in Pc
        BY PodType, PcType
      <4>1. [pod[p] EXCEPT !.pc = IF keep > 0 THEN "list" ELSE "succeeded",
                           !.files = lines] \in Pod
        BY <4>0, <2>2 DEF Pod
      <4> QED
        BY <3>1, <4>1 DEF TypeOK, Types
    <3> QED
      BY <1>1, <3>1, <3>2 DEF Upload, TypeOK, Types, conf
  <2> QED
    BY <2>3, <2>4
<1>2. CASE List(p)
  <2>1. Excess(Dumps) \in SUBSET Stamp
    BY DumpsType DEF Excess
  <2>2. pod' \in [Pods -> Pod]
    <3>0. pod[p] \in Pod /\ "prune" \in Pc /\ Dumps \in SUBSET Stamp
      BY PodType, PcType, DumpsType
    <3>1. [pod[p] EXCEPT !.pc = "prune", !.todo = Excess(Dumps), !.sees = Dumps] \in Pod
      BY <3>0, <2>1 DEF Pod
    <3> QED
      BY <1>2, <3>1 DEF List, TypeOK, Types
  <2> QED
    BY <1>2, <2>2 DEF List, TypeOK, Types, conf
<1>3. CASE ListFails(p)
  <2>1. pod' \in [Pods -> Pod]
    <3>1. [pod[p] EXCEPT !.pc = "prune"] \in Pod
      BY PodType, PcType DEF Pod
    <3> QED
      BY <1>3, <3>1 DEF ListFails, TypeOK, Types
  <2> QED
    BY <1>3, <2>1, BoundsAssumption DEF ListFails, Fault, TypeOK, Types, conf
<1>4. CASE DeleteObject(p)
  <2> DEFINE s == Newest(pod[p].todo)
  <2>1. s \in 0 .. MaxStamp
    BY <1>4, NewestType DEF DeleteObject, TypeOK, Types, Pod, Stamp
  <2>2. /\ pod' = [pod EXCEPT ![p].todo = @ \ {s}, ![p].pc = "archive", ![p].victim = s]
        /\ files' = [files EXCEPT ![<<s, "dump">>] = "absent"]
    BY <1>4 DEF DeleteObject
  <2> HIDE DEF s
  <2>3. pod' \in [Pods -> Pod]
    <3>0. pod[p] \in Pod /\ "archive" \in Pc
      BY PodType, PcType
    <3>1. [pod[p] EXCEPT !.todo = @ \ {s}, !.pc = "archive", !.victim = s] \in Pod
      BY <3>0, <2>1 DEF Pod
    <3> QED
      BY <2>2, <3>1 DEF TypeOK, Types
  <2> QED
    BY <1>4, <2>2, <2>3 DEF DeleteObject, TypeOK, Types, conf
<1> QED
  BY <1>1, <1>2, <1>3, <1>4

LEMMA FitsStep ==
  ASSUME TypeOK, NEW p \in Pods,
         Start(p) \/ Script(p) \/ CommandFails(p) \/ ListFails(p) \/ Kill(p)
  PROVE  dest' = dest /\ \A q \in Pods : Fits(pod'[q].pc, dest)
<1>0. /\ pod \in [Pods -> Pod] /\ pod[p] \in Pod /\ dest \in {"pvc", "s3"}
      /\ \A q \in Pods : Fits(pod[q].pc, dest)
  BY DestinationsAssumption DEF TypeOK, Fits
<1>1. Fits(AfterFiles, dest) /\ Fits("tar", dest)
  BY <1>0 DEF AfterFiles, Fits
<1>2. ASSUME NEW q \in Pods, pod'[q].pc = pod[q].pc PROVE Fits(pod'[q].pc, dest)
  BY <1>0, <1>2
<1>3. ASSUME NEW pc, Fits(pc, dest), \A q \in Pods \ {p} : pod'[q] = pod[q], pod'[p].pc = pc
      PROVE  \A q \in Pods : Fits(pod'[q].pc, dest)
  BY <1>0, <1>3
<1>4. dest' = dest
  BY DEF Start, Script, CommandFails, ListFails, Kill, DumpEnds, TarEnds, RenameFails, Count,
         Glob, Walk, RemoveArchive, PruneEnds, Upload, List, DeleteObject, conf
<1>5. \A q \in Pods \ {p} : pod'[q] = pod[q]
  BY <1>0 DEF Start, Script, CommandFails, ListFails, Kill, DumpEnds, TarEnds, RenameFails,
         Count, Glob, Walk, RemoveArchive, PruneEnds, Upload, List, DeleteObject, Exit
<1>6. \/ pod'[p].pc \in {"tar", AfterFiles, pod[p].pc}
      \/ pod'[p].pc \in {"dump", "prune", "archive", "succeeded", "failed", "killed"}
      \/ pod'[p].pc = "glob" /\ pod[p].pc = "count"
      \/ pod'[p].pc = "list" /\ pod[p].pc = "upload"
  <2>1. CASE Start(p) \/ DumpEnds(p) \/ TarEnds(p)
    <3>1. CASE Start(p)
      <4> DEFINE ended == {q \in Pods : pod[q].pc \in Ended}
      <4>1. PICK s \in Stamp :
              pod' = [pod EXCEPT ![p].pc = "dump", ![p].stamp = s, ![p].after = ended]
        BY <3>1 DEF Start
      <4> HIDE DEF ended
      <4>2. pod'[p].pc = "dump"
        BY <1>0, <4>1 DEF Pod
      <4> QED BY <4>2
    <3>2. CASE DumpEnds(p)
      <4>1. PICK next \in {"tar", AfterFiles} :
              pod' = [pod EXCEPT ![p].pc = next, ![p].files = <<"dump">>]
        BY <3>2 DEF DumpEnds
      <4>2. pod'[p].pc = next
        BY <1>0, <4>1 DEF Pod
      <4> QED BY <4>1, <4>2
    <3>3. CASE TarEnds(p)
      <4>1. pod' = [pod EXCEPT ![p].pc = AfterFiles, ![p].files = <<"dump", "filestore">>]
        BY <3>3 DEF TarEnds
      <4>2. pod'[p].pc = AfterFiles
        BY <1>0, <4>1 DEF Pod
      <4> QED BY <4>2
    <3> QED BY <2>1, <3>1, <3>2, <3>3
  <2>2. CASE RenameFails(p) \/ PruneEnds(p) \/ CommandFails(p) \/ Kill(p) \/ ListFails(p)
    BY <1>0, <2>2 DEF RenameFails, PruneEnds, CommandFails, Kill, ListFails, Exit, Pod
  <2>3. CASE Count(p) \/ Glob(p)
    BY <1>0, <2>3 DEF Count, Glob, Exit, Pod
  <2>4. CASE Walk(p) \/ RemoveArchive(p)
    BY <1>0, <2>4 DEF Walk, RemoveArchive, Pod
  <2>5. CASE List(p) \/ DeleteObject(p)
    BY <1>0, <2>5 DEF List, DeleteObject, Pod
  <2>6. CASE Upload(p)
    BY <1>0, <2>6 DEF Upload, Pod
  <2> QED BY <2>1, <2>2, <2>3, <2>4, <2>5, <2>6 DEF Script
<1>7. Fits(pod'[p].pc, dest)
  BY <1>0, <1>1, <1>6 DEF Fits
<1> QED BY <1>3, <1>4, <1>5, <1>7

LEMMA TypeNext == TypeOK /\ [Next]_vars => TypeOK'
<1> SUFFICES ASSUME TypeOK, [Next]_vars PROVE TypeOK'
  OBVIOUS
<1>0. ASSUME Types', dest' = dest, \A q \in Pods : Fits(pod'[q].pc, dest)
      PROVE  TypeOK'
  BY <1>0 DEF Types, TypeOK, Fits
<1>1. CASE Next
  <2>1. PICK p \in Pods : Start(p) \/ Script(p) \/ CommandFails(p) \/ ListFails(p) \/ Kill(p)
    BY <1>1 DEF Next
  <2> QED
    <3>1. Types'
      BY <2>1, TypeStart, TypeDumpEnds, TypeTarEnds, TypeExits, TypeClaim, TypeBucket DEF Script
    <3> QED BY <1>0, <2>1, <3>1, FitsStep
<1>2. CASE UNCHANGED vars
  BY <1>2 DEF vars, conf, TypeOK
<1> QED
  BY <1>1, <1>2

\* Every pod, file and temporary name stays well formed, whatever the number of pods.
THEOREM TypeCorrect == Spec => []TypeOK
<1> QED
  BY TypeInit, TypeNext, PTL DEF Spec

-----------------------------------------------------------------------------
(* Why nothing torn gets a backup's name: a temporary name is written by one *)
(* live pod at most, the one whose start second it carries.                  *)

\* Live pods have started in different seconds, none later than now.
OwnSecond ==
    /\ \A p \in Pods : Live(p) => pod[p].stamp \in 1 .. clock
    /\ \A p, q \in Pods : Live(p) /\ Live(q) /\ pod[p].stamp = pod[q].stamp => p = q

\* Who has written a temporary file has started in the second of its name.
WritersStarted ==
    \A n \in Name : \A q \in partial[n] : pod[q].pc # "new" /\ pod[q].stamp = n[1]

\* While a pod writes a file, nobody else has written what it will rename.
SoleWriter ==
    \A p \in Pods :
        /\ pod[p].pc = "dump" => partial[<<pod[p].stamp, "dump">>] \subseteq {p}
        /\ pod[p].pc = "tar" => partial[<<pod[p].stamp, "filestore">>] \subseteq {p}

\* On a claim; in a bucket there are no temporary names.
Writers == OwnSecond /\ WritersStarted /\ (dest = "pvc" => SoleWriter)

TornInv == TypeOK /\ Writers /\ NeverTorn

\* A step that takes a live pod past its files, or ends it, and writes no temporary file.
LEMMA QuietStep ==
  ASSUME TypeOK, Writers, NEW p \in Pods, Live(p),
         \A q \in Pods \ {p} : pod'[q] = pod[q],
         pod'[p].stamp = pod[p].stamp, pod'[p].pc \notin {"new", "dump", "tar"},
         \A n \in Name : partial'[n] \subseteq partial[n],
         clock' = clock, dest' = dest
  PROVE  Writers'
<1>1. \A q \in Pods : /\ pod'[q].stamp = pod[q].stamp
                      /\ Live(q)' => Live(q)
                      /\ pod[q].pc # "new" => pod'[q].pc # "new"
                      /\ pod'[q].pc \in {"dump", "tar"} => pod'[q] = pod[q]
  BY DEF Live
<1>2. OwnSecond'
  BY <1>1 DEF Writers, OwnSecond
<1>3. WritersStarted'
  BY <1>1 DEF Writers, WritersStarted, TypeOK
<1>4. dest = "pvc" => SoleWriter'
  <2> SUFFICES ASSUME dest = "pvc", NEW q \in Pods
               PROVE  /\ pod'[q].pc = "dump" => partial'[<<pod'[q].stamp, "dump">>] \subseteq {q}
                      /\ pod'[q].pc = "tar" => partial'[<<pod'[q].stamp, "filestore">>] \subseteq {q}
    BY DEF SoleWriter
  <2>1. pod'[q].pc \in {"dump", "tar"} => Live(q) /\ pod[q].stamp \in Stamp
    BY <1>1, BoundsAssumption DEF Writers, OwnSecond, Live, Ended, TypeOK, Stamp
  <2>2. pod'[q].pc \in {"dump", "tar"} =>
          /\ partial'[<<pod[q].stamp, "dump">>] \subseteq partial[<<pod[q].stamp, "dump">>]
          /\ partial'[<<pod[q].stamp, "filestore">>] \subseteq partial[<<pod[q].stamp, "filestore">>]
    BY <2>1 DEF Name, Kind
  <2> QED
    BY <1>1, <2>2 DEF Writers, SoleWriter
<1> QED
  BY <1>2, <1>3, <1>4 DEF Writers

\* A pod starts: its second is new, or nobody else is running.
LEMMA WritersStart ==
  ASSUME TypeOK, Writers, NEW p \in Pods, Start(p)
  PROVE  Writers'
<1>1. PICK s \in Stamp :
        /\ s \in clock .. clock + 1
        /\ s = clock => \A q \in Pods : ~Live(q)
        /\ pod' = [pod EXCEPT ![p].pc = "dump", ![p].stamp = s,
                              ![p].after = {q \in Pods : pod[q].pc \in Ended}]
        /\ clock' = s
        /\ IF dest = "pvc" THEN Open(p, <<s, "dump">>) ELSE UNCHANGED <<files, partial>>
  BY DEF Start
<1>2. /\ pod'[p].pc = "dump" /\ pod'[p].stamp = s
      /\ \A q \in Pods \ {p} : pod'[q] = pod[q]
  <2>1. pod[p] \in Pod /\ pod \in [Pods -> Pod]
    BY DEF TypeOK
  <2> QED
    BY <1>1, <2>1 DEF Pod
<1>3. pod[p].pc = "new" /\ ~Live(p) /\ dest' = dest
  BY DEF Start, Live, conf
<1>4. \A q \in Pods : Live(q) => q # p /\ pod[q].stamp # s /\ pod[q].stamp \in 1 .. s
  <2> SUFFICES ASSUME NEW q \in Pods, Live(q)
               PROVE  q # p /\ pod[q].stamp # s /\ pod[q].stamp \in 1 .. s
    OBVIOUS
  <2>1. s = clock + 1 /\ clock \in Nat
    BY <1>1 DEF TypeOK
  <2>2. pod[q].stamp \in 1 .. clock
    BY DEF Writers, OwnSecond
  <2> QED
    BY <1>3, <2>1, <2>2
<1>5. \A q \in Pods \ {p} : Live(q)' <=> Live(q)
  BY <1>2 DEF Live
<1>6. OwnSecond'
  <2>1. s \in 1 .. s
    BY DEF Stamp
  <2> QED
    BY <1>1, <1>2, <1>4, <1>5, <2>1 DEF OwnSecond, Writers
<1>7. \A n \in Name : /\ p \notin partial[n]
                      /\ n # <<s, "dump">> => partial'[n] = partial[n]
  BY <1>1, <1>3 DEF Writers, WritersStarted, Open, TypeOK
<1>8. dest = "pvc" => partial'[<<s, "dump">>] = {p}
  <2> SUFFICES ASSUME dest = "pvc" PROVE partial'[<<s, "dump">>] = {p}
    OBVIOUS
  <2>1. <<s, "dump">> \in Name
    BY DEF Name, Kind
  <2>2. partial'[<<s, "dump">>] = {q \in partial[<<s, "dump">>] : Live(q)} \cup {p}
    BY <1>1, <2>1 DEF Open, TypeOK
  <2>3. \A q \in partial[<<s, "dump">>] : q \in Pods /\ pod[q].stamp = s
    BY <2>1 DEF Writers, WritersStarted, TypeOK
  <2> QED
    BY <1>4, <2>2, <2>3
<1>9. WritersStarted'
  <2> SUFFICES ASSUME NEW n \in Name, NEW q \in partial'[n]
               PROVE  pod'[q].pc # "new" /\ pod'[q].stamp = n[1]
    BY DEF WritersStarted
  <2>1. CASE q \in partial[n]
    BY <1>2, <1>7, <2>1 DEF Writers, WritersStarted, TypeOK
  <2>2. CASE q \notin partial[n]
    <3>1. n = <<s, "dump">> /\ dest = "pvc"
      BY <1>1, <1>7, <2>2
    <3> QED
      BY <1>2, <1>8, <3>1
  <2> QED
    BY <2>1, <2>2
<1>10. dest = "pvc" => SoleWriter'
  <2> SUFFICES ASSUME dest = "pvc", NEW q \in Pods
               PROVE  /\ pod'[q].pc = "dump" => partial'[<<pod'[q].stamp, "dump">>] \subseteq {q}
                      /\ pod'[q].pc = "tar" => partial'[<<pod'[q].stamp, "filestore">>] \subseteq {q}
    BY DEF SoleWriter
  <2>1. CASE q = p
    BY <1>2, <1>8, <2>1
  <2>2. CASE q # p
    <3> SUFFICES ASSUME pod[q].pc \in {"dump", "tar"}
                 PROVE  /\ pod[q].pc = "dump" => partial'[<<pod[q].stamp, "dump">>] \subseteq {q}
                        /\ pod[q].pc = "tar" => partial'[<<pod[q].stamp, "filestore">>] \subseteq {q}
      BY <1>2, <2>2
    <3>1. Live(q) /\ pod[q].stamp \in Stamp /\ pod[q].stamp # s
      BY <1>4, PodType, BoundsAssumption DEF Live, Ended, Stamp
    <3>2. /\ <<pod[q].stamp, "dump">> \in Name /\ <<pod[q].stamp, "dump">> # <<s, "dump">>
          /\ <<pod[q].stamp, "filestore">> \in Name
          /\ <<pod[q].stamp, "filestore">> # <<s, "dump">>
      BY <3>1 DEF Name, Kind
    <3> QED
      BY <1>7, <3>2 DEF Writers, SoleWriter
  <2> QED
    BY <2>1, <2>2
<1> QED
  BY <1>3, <1>6, <1>9, <1>10 DEF Writers

\* The dump is renamed; the archive, if one follows, is opened.
LEMMA WritersDumpEnds ==
  ASSUME TypeOK, Writers, NEW p \in Pods, DumpEnds(p)
  PROVE  Writers'
<1> DEFINE archive == <<pod[p].stamp, "filestore">>
<1>1. PICK next \in {"tar", AfterFiles} :
        /\ pod' = [pod EXCEPT ![p].pc = next, ![p].files = <<"dump">>]
        /\ partial' = IF dest = "s3" THEN partial ELSE
           [n \in Name |->
              CASE n = Names(p).dump -> {}
                [] n = Names(p).filestore /\ next = "tar" ->
                     {q \in partial[n] : Live(q)} \cup {p}
                [] OTHER -> partial[n]]
  BY DEF DumpEnds
<1>2. /\ pod'[p].pc = next /\ pod'[p].stamp = pod[p].stamp
      /\ \A q \in Pods \ {p} : pod'[q] = pod[q]
  <2>1. pod[p] \in Pod /\ pod \in [Pods -> Pod]
    BY DEF TypeOK
  <2> QED
    BY <1>1, <2>1 DEF Pod
<1>3. pod[p].pc = "dump" /\ Live(p) /\ dest' = dest /\ clock' = clock
  BY DEF DumpEnds, Live, Ended, conf
<1>4. CASE next # "tar" \/ dest = "s3"
  <2>1. \A n \in Name : partial'[n] \subseteq partial[n]
    BY <1>1, <1>4
  <2>2. CASE next # "tar"
    <3>1. pod'[p].pc \notin {"new", "dump", "tar"}
      BY <1>1, <1>2, <2>2 DEF AfterFiles
    <3> QED
      BY <1>2, <1>3, <2>1, <3>1, QuietStep
  <2>3. CASE dest = "s3"
    <3>1. next # "new" /\ next \notin Ended
      BY <1>1, <2>3 DEF AfterFiles, Ended
    <3>2. \A q \in Pods : /\ Live(q)' <=> Live(q)
                          /\ pod'[q].stamp = pod[q].stamp
                          /\ pod[q].pc # "new" => pod'[q].pc # "new"
      BY <1>2, <1>3, <3>1 DEF Live
    <3>3. OwnSecond' /\ WritersStarted'
      BY <1>3, <2>1, <3>2 DEF Writers, OwnSecond, WritersStarted, TypeOK
    <3> QED
      BY <1>3, <2>3, <3>3 DEF Writers
  <2> QED
    BY <1>4, <2>2, <2>3
<1>5. CASE next = "tar" /\ dest # "s3"
  <2>1. \A q \in Pods : /\ Live(q)' <=> Live(q)
                        /\ pod'[q].stamp = pod[q].stamp
                        /\ pod[q].pc # "new" => pod'[q].pc # "new"
    BY <1>2, <1>3, <1>5 DEF Live, Ended
  <2>2. archive \in Name /\ archive # Names(p).dump /\ archive = Names(p).filestore
    <3>1. pod[p].stamp \in Stamp
      BY <1>3, BoundsAssumption DEF Writers, OwnSecond, TypeOK, Stamp
    <3> QED
      BY <3>1 DEF Name, Kind, Names
  <2>3. \A n \in Name : n # archive => partial'[n] \subseteq partial[n]
    BY <1>1, <2>2
  <2>4. partial'[archive] = {p}
    <3>1. partial'[archive] = {q \in partial[archive] : Live(q)} \cup {p}
      BY <1>1, <1>5, <2>2
    <3>2. \A q \in partial[archive] : q \in Pods /\ pod[q].stamp = pod[p].stamp
      BY <2>2 DEF Writers, WritersStarted, TypeOK
    <3> QED
      BY <1>3, <3>1, <3>2 DEF Writers, OwnSecond
  <2>5. OwnSecond'
    BY <1>3, <2>1 DEF Writers, OwnSecond
  <2>6. WritersStarted'
    <3> SUFFICES ASSUME NEW n \in Name, NEW q \in partial'[n]
                 PROVE  pod'[q].pc # "new" /\ pod'[q].stamp = n[1]
      BY DEF WritersStarted
    <3>1. CASE n = archive
      BY <1>2, <1>5, <2>4, <3>1
    <3>2. CASE n # archive
      <4>1. q \in partial[n] /\ q \in Pods
        BY <2>3, <3>2 DEF TypeOK
      <4> QED
        BY <2>1, <4>1 DEF Writers, WritersStarted
    <3> QED
      BY <3>1, <3>2
  <2>7. SoleWriter'
    <3> SUFFICES ASSUME NEW q \in Pods
                 PROVE  /\ pod'[q].pc = "dump" => partial'[<<pod'[q].stamp, "dump">>] \subseteq {q}
                        /\ pod'[q].pc = "tar" => partial'[<<pod'[q].stamp, "filestore">>] \subseteq {q}
      BY DEF SoleWriter
    <3>1. CASE q = p
      BY <1>2, <1>5, <2>4, <3>1
    <3>2. CASE q # p
      <4> SUFFICES ASSUME pod[q].pc \in {"dump", "tar"}
                   PROVE  /\ pod[q].pc = "dump" => partial'[<<pod[q].stamp, "dump">>] \subseteq {q}
                          /\ pod[q].pc = "tar" => partial'[<<pod[q].stamp, "filestore">>] \subseteq {q}
        BY <1>2, <3>2
      <4>1. Live(q)
        BY DEF Live, Ended
      <4>2. pod[q].stamp \in Stamp /\ pod[q].stamp # pod[p].stamp
        BY <1>3, <3>2, <4>1, BoundsAssumption DEF Writers, OwnSecond, TypeOK, Stamp
      <4>3. /\ <<pod[q].stamp, "dump">> \in Name /\ <<pod[q].stamp, "dump">> # archive
            /\ <<pod[q].stamp, "filestore">> \in Name
            /\ <<pod[q].stamp, "filestore">> # archive
        BY <4>2 DEF Name, Kind
      <4>4. dest = "pvc"
        BY <1>5, DestinationsAssumption DEF TypeOK
      <4> QED
        BY <2>3, <4>3, <4>4 DEF Writers, SoleWriter
    <3> QED
      BY <3>1, <3>2
  <2> QED
    BY <1>3, <2>5, <2>6, <2>7 DEF Writers
<1> QED
  BY <1>4, <1>5

\* Every other step of a script is quiet.
LEMMA WritersQuiet ==
  ASSUME TypeOK, Writers, NEW p \in Pods,
         \/ TarEnds(p) \/ CommandFails(p) \/ RenameFails(p) \/ Kill(p) \/ PruneEnds(p)
         \/ Count(p) \/ Glob(p) \/ Walk(p) \/ RemoveArchive(p)
         \/ Upload(p) \/ List(p) \/ ListFails(p) \/ DeleteObject(p)
  PROVE  Writers'
<1>1. pod \in [Pods -> Pod] /\ pod[p] \in Pod
  BY DEF TypeOK
<1>2. Live(p) /\ dest' = dest /\ clock' = clock
  BY DEF TarEnds, CommandFails, RenameFails, Kill, PruneEnds, Count, Glob, Walk,
         RemoveArchive, Upload, List, ListFails, DeleteObject, Live, Ended, conf
<1>3. /\ \A q \in Pods \ {p} : pod'[q] = pod[q]
      /\ pod'[p].stamp = pod[p].stamp /\ pod'[p].pc \notin {"new", "dump", "tar"}
  <2>1. CASE TarEnds(p)
    BY <1>1, <2>1 DEF TarEnds, AfterFiles, Pod
  <2>2. CASE CommandFails(p) \/ RenameFails(p) \/ Kill(p) \/ PruneEnds(p)
    BY <1>1, <2>2 DEF CommandFails, RenameFails, Kill, PruneEnds, Exit, Pod
  <2>3. CASE Count(p)
    BY <1>1, <2>3 DEF Count, Pod
  <2>4. CASE Glob(p)
    BY <1>1, <2>4 DEF Glob, Exit, Pod
  <2>5. CASE Walk(p)
    BY <1>1, <2>5 DEF Walk, Pod
  <2>6. CASE RemoveArchive(p)
    BY <1>1, <2>6 DEF RemoveArchive, Pod
  <2>7. CASE Upload(p)
    BY <1>1, <2>7 DEF Upload, Pod
  <2>8. CASE List(p) \/ ListFails(p)
    BY <1>1, <2>8 DEF List, ListFails, Pod
  <2>9. CASE DeleteObject(p)
    BY <1>1, <2>9 DEF DeleteObject, Pod
  <2> QED
    BY <2>1, <2>2, <2>3, <2>4, <2>5, <2>6, <2>7, <2>8, <2>9
<1>4. \A n \in Name : partial'[n] \subseteq partial[n]
  BY DEF TarEnds, CommandFails, RenameFails, Kill, PruneEnds, Count, Glob, Walk,
         RemoveArchive, Upload, List, ListFails, DeleteObject, Exit, TypeOK
<1> QED
  BY <1>2, <1>3, <1>4, QuietStep

\* A rename gives a backup's name to the sole writer's file, which is complete; the other
\* steps write complete objects or remove files.
LEMMA NeverTornNext ==
  ASSUME TypeOK, Writers, NeverTorn, NEW p \in Pods,
         Start(p) \/ Script(p) \/ CommandFails(p) \/ ListFails(p) \/ Kill(p)
  PROVE  NeverTorn'
<1> SUFFICES \A n \in Name : files'[n] \in {"absent", "whole", files[n]}
  BY DEF NeverTorn
<1>1. CASE DumpEnds(p)
  <2>1. CASE dest = "pvc"
    <3>1. partial[Names(p).dump] = {p}
      <4>1. Names(p).dump = <<pod[p].stamp, "dump">>
        BY DEF Names
      <4>2. partial[Names(p).dump] # {}
        BY <1>1, <2>1 DEF DumpEnds, Rename
      <4>3. partial[<<pod[p].stamp, "dump">>] \subseteq {p}
        BY <1>1, <2>1 DEF DumpEnds, Writers, SoleWriter
      <4> QED
        BY <4>1, <4>2, <4>3
    <3> QED
      BY <1>1, <2>1, <3>1 DEF DumpEnds, Rename, TypeOK
  <2>2. CASE dest # "pvc"
    BY <1>1, <2>2 DEF DumpEnds
  <2> QED
    BY <2>1, <2>2
<1>2. CASE TarEnds(p)
  <2>1. CASE dest = "pvc"
    <3>1. partial[Names(p).filestore] = {p}
      <4>1. Names(p).filestore = <<pod[p].stamp, "filestore">>
        BY DEF Names
      <4>2. partial[Names(p).filestore] # {}
        BY <1>2, <2>1 DEF TarEnds, Rename
      <4>3. partial[<<pod[p].stamp, "filestore">>] \subseteq {p}
        BY <1>2, <2>1 DEF TarEnds, Writers, SoleWriter
      <4> QED
        BY <4>1, <4>2, <4>3
    <3> QED
      BY <1>2, <2>1, <3>1 DEF TarEnds, Rename, TypeOK
  <2>2. CASE dest # "pvc"
    BY <1>2, <2>2 DEF TarEnds
  <2> QED
    BY <2>1, <2>2
<1>3. CASE Start(p)
  BY <1>3 DEF Start, Open
<1>4. CASE Walk(p) \/ RemoveArchive(p) \/ DeleteObject(p)
  BY <1>4 DEF Walk, RemoveArchive, DeleteObject, TypeOK
<1>5. CASE Upload(p)
  BY <1>5 DEF Upload, TypeOK
<1>6. CASE \/ RenameFails(p) \/ Count(p) \/ Glob(p) \/ PruneEnds(p) \/ List(p)
           \/ CommandFails(p) \/ ListFails(p) \/ Kill(p)
  BY <1>6 DEF RenameFails, Count, Glob, PruneEnds, List, CommandFails, ListFails, Kill
<1> QED
  BY <1>1, <1>2, <1>3, <1>4, <1>5, <1>6 DEF Script

LEMMA TornInit == Init => TornInv
<1> SUFFICES ASSUME Init PROVE TornInv
  OBVIOUS
<1>1. TypeOK
  BY TypeInit
<1>2. \A p \in Pods : pod[p].pc = "new"
  BY DEF Init, NewPod
<1>3. Writers
  BY <1>2 DEF Init, Writers, OwnSecond, WritersStarted, SoleWriter, Live
<1>4. NeverTorn
  BY DEF Init, NeverTorn
<1> QED
  BY <1>1, <1>3, <1>4 DEF TornInv

LEMMA TornNext == TornInv /\ [Next]_vars => TornInv'
<1> SUFFICES ASSUME TornInv, [Next]_vars PROVE TornInv'
  OBVIOUS
<1>1. TypeOK'
  BY TypeNext DEF TornInv
<1>2. CASE Next
  <2>1. PICK p \in Pods : Start(p) \/ Script(p) \/ CommandFails(p) \/ ListFails(p) \/ Kill(p)
    BY <1>2 DEF Next
  <2>2. Writers'
    BY <2>1, WritersStart, WritersDumpEnds, WritersQuiet DEF TornInv, Script
  <2>3. NeverTorn'
    BY <2>1, NeverTornNext DEF TornInv
  <2> QED
    BY <1>1, <2>2, <2>3 DEF TornInv
<1>3. CASE UNCHANGED vars
  <2>1. Writers' /\ NeverTorn'
    BY <1>3 DEF TornInv, vars, conf, Writers, OwnSecond, WritersStarted, SoleWriter, Live,
                NeverTorn
  <2> QED
    BY <1>1, <2>1 DEF TornInv
<1> QED
  BY <1>2, <1>3

\* What has a backup's name is complete, for any number of pods that overlap, fail and are
\* killed on a claim or in a bucket, as long as pods that overlap start in different
\* seconds (the temporary name of backupDumpSteps carries the second).
THEOREM NothingTorn == Spec => []NeverTorn
<1>1. Spec => []TornInv
  BY TornInit, TornNext, PTL DEF Spec
<1>2. TornInv => NeverTorn
  BY DEF TornInv
<1> QED
  BY <1>1, <1>2, PTL
=============================================================================
