----------------------- MODULE BackupRetentionProofs -----------------------
(***************************************************************************)
(* Retention, for every number of pods and seconds: what pruning may take  *)
(* and what it leaves, in a bucket whose pods overlap and on a claim whose *)
(* pods run one at a time.                                                 *)
(***************************************************************************)
EXTENDS BackupStoreProofs

Archives == {s \in Stamp : Present(<<s, "filestore">>)}
Newer(s) == {t \in published : t > s}

-----------------------------------------------------------------------------
(* Sets of seconds. *)

LEMMA StampSets ==
  ASSUME NEW S \in SUBSET Stamp
  PROVE  /\ IsFiniteSet(S) /\ Cardinality(S) \in Nat
         /\ \A T \in SUBSET S : Cardinality(T) <= Cardinality(S) /\ Cardinality(T) \in Nat
<1>1. IsFiniteSet(Stamp)
  BY FS_Interval, BoundsAssumption DEF Stamp
<1>2. IsFiniteSet(S)
  BY <1>1, FS_Subset
<1> QED BY <1>2, FS_Subset, FS_CardinalityType

LEMMA RemoveOne ==
  ASSUME NEW S \in SUBSET Stamp, NEW s \in S
  PROVE  Cardinality(S \ {s}) = Cardinality(S) - 1
  BY StampSets, FS_RemoveElement

LEMMA OldestFirst ==
  ASSUME NEW S \in SUBSET Stamp, S # {}
  PROVE  Oldest(S) \in S /\ \A t \in S \ {Oldest(S)} : t > Oldest(S)
<1>1. \E s \in S : \A t \in S : s <= t
  BY LeastNatural DEF Stamp
<1>2. Oldest(S) \in S /\ \A t \in S : Oldest(S) <= t
  BY <1>1 DEF Oldest
<1>3. \A t \in S : t \in Int
  BY DEF Stamp
<1> QED BY <1>2, <1>3

\* At most `keep` dumps of a listing have fewer than `keep` newer ones.
LEMMA FewKept ==
  ASSUME NEW S \in SUBSET Stamp, keep \in Nat \ {0}
  PROVE  Cardinality(S \ Excess(S)) <= keep
<1> DEFINE K == S \ Excess(S)
<1>1. K \in SUBSET Stamp /\ K \in SUBSET S
  OBVIOUS
<1>2. CASE K = {}
  BY <1>2, FS_EmptySet
<1>3. CASE K # {}
  <2> DEFINE m == Oldest(K)
             N == {t \in S : t > m}
  <2>1. m \in K /\ \A t \in K \ {m} : t > m
    <3> HIDE DEF K
    <3> QED BY <1>1, <1>3, OldestFirst
  <2>2. K \ {m} \in SUBSET N /\ N \in SUBSET Stamp
    BY <1>1, <2>1
  <2>3. Cardinality(N) \in Nat /\ ~(Cardinality(N) >= keep)
    <3>1. Cardinality(N) \in Nat
      BY <2>2, StampSets
    <3>2. m \in S /\ m \notin Excess(S)
      BY <2>1
    <3> QED BY <3>1, <3>2 DEF Excess
  <2> HIDE DEF K, m, N
  <2>4. Cardinality(K \ {m}) <= Cardinality(N)
    BY <2>2, StampSets
  <2>5. Cardinality(K \ {m}) = Cardinality(K) - 1 /\ Cardinality(K) \in Nat
    BY <1>1, <2>1, RemoveOne, StampSets
  <2> QED BY <2>3, <2>4, <2>5 DEF K
<1> QED BY <1>2, <1>3

-----------------------------------------------------------------------------
(* The steps of a pod: its fields, the dumps, the archives and the record of *)
(* what was published.                                                       *)

\* Only pod p moves; its second stays.
Fields(p, pc, manifest, seen, todo, drop, victim, sees) ==
    /\ \A q \in Pods \ {p} : pod'[q] = pod[q]
    /\ pod'[p].pc = pc /\ pod'[p].files = manifest /\ pod'[p].seen = seen
    /\ pod'[p].todo = todo /\ pod'[p].drop = drop /\ pod'[p].victim = victim
    /\ pod'[p].sees = sees /\ pod'[p].stamp = pod[p].stamp

\* The pod goes to another place and changes nothing else.
Goes(p, pc) == Fields(p, pc, pod[p].files, pod[p].seen, pod[p].todo, pod[p].drop,
                      pod[p].victim, pod[p].sees)

FilesKept == Dumps' = Dumps /\ Archives' = Archives /\ published' = published
DumpStored(s) ==
    Dumps' = Dumps \cup {s} /\ Archives' = Archives /\ published' = published \cup {s}
DumpRemoved(s) == Dumps' = Dumps \ {s} /\ Archives' = Archives /\ published' = published

Begins(p) ==
    /\ pod[p].pc = "new" /\ FilesKept
    /\ <<dest, keep>> \in Overlapping \/ \A q \in Pods : ~Live(q)
    /\ \A q \in Pods \ {p} : pod'[q] = pod[q]
    /\ pod'[p].pc = "dump" /\ pod'[p].stamp = clock' /\ pod'[p].files = pod[p].files
    /\ pod'[p].seen = pod[p].seen /\ pod'[p].todo = pod[p].todo
    /\ pod'[p].drop = pod[p].drop /\ pod'[p].victim = pod[p].victim
    /\ pod'[p].sees = pod[p].sees
    /\ clock' \in Stamp /\ clock' \in {clock, clock + 1}
    /\ clock' = clock => dest \in Ties /\ \A q \in Pods : ~Live(q)
Dumped(p) ==
    /\ pod[p].pc = "dump"
    /\ \E next \in {"tar", AfterFiles} :
         Fields(p, next, <<"dump">>, pod[p].seen, pod[p].todo, pod[p].drop, pod[p].victim,
                pod[p].sees)
    /\ IF dest = "pvc" THEN DumpStored(pod[p].stamp) ELSE FilesKept
Tarred(p) ==
    /\ pod[p].pc = "tar"
    /\ Fields(p, AfterFiles, <<"dump", "filestore">>, pod[p].seen, pod[p].todo, pod[p].drop,
              pod[p].victim, pod[p].sees)
    /\ Dumps' = Dumps /\ published' = published
    /\ Archives' = IF dest = "pvc" THEN Archives \cup {pod[p].stamp} ELSE Archives
Exits(p) ==
    /\ Live(p) /\ FilesKept
    /\ \/ Goes(p, "failed") \/ Goes(p, "killed")
       \/ /\ Goes(p, "succeeded")
          /\ \/ pod[p].pc = "glob" /\ ~(keep > 0)
             \/ pod[p].pc = "prune" /\ pod[p].todo = {}
Counts(p) ==
    /\ pod[p].pc = "count" /\ FilesKept
    /\ Fields(p, "glob", pod[p].files, pod[p].seen, pod[p].todo, Cardinality(Dumps) - keep,
              pod[p].victim, Dumps)
Globs(p) ==
    /\ pod[p].pc = "glob" /\ keep > 0 /\ FilesKept
    /\ Fields(p, "prune", pod[p].files, pod[p].seen, Dumps, pod[p].drop, pod[p].victim,
              pod[p].sees)
Walks(p, s) ==
    /\ dest = "pvc" /\ pod[p].pc = "prune" /\ pod[p].todo # {} /\ s = Oldest(pod[p].todo)
    /\ \/ /\ s \in Dumps /\ pod[p].seen + 1 <= pod[p].drop /\ DumpRemoved(s)
          /\ Fields(p, "archive", pod[p].files, pod[p].seen + 1, pod[p].todo \ {s},
                    pod[p].drop, s, pod[p].sees)
       \/ /\ s \notin Dumps \/ ~(pod[p].seen + 1 <= pod[p].drop)
          /\ FilesKept
          /\ Fields(p, "prune", pod[p].files, IF s \in Dumps THEN pod[p].seen + 1 ELSE pod[p].seen,
                    pod[p].todo \ {s}, pod[p].drop, pod[p].victim, pod[p].sees)
Clears(p) ==
    /\ pod[p].pc = "archive" /\ Goes(p, "prune")
    /\ Dumps' = Dumps /\ published' = published /\ Archives' = Archives \ {pod[p].victim}
Uploads(p) ==
    /\ pod[p].pc = "upload"
    /\ \/ /\ pod[p].seen = 0 /\ DumpStored(pod[p].stamp)
          /\ Fields(p, "upload", pod[p].files, 1, pod[p].todo, pod[p].drop,
                    pod[p].victim, pod[p].sees)
       \/ /\ FilesKept
          /\ Fields(p, IF keep > 0 THEN "list" ELSE "succeeded", ReadLines(pod[p].files),
                    pod[p].seen, pod[p].todo, pod[p].drop, pod[p].victim, pod[p].sees)
Lists(p) ==
    /\ pod[p].pc = "list" /\ FilesKept
    /\ \/ Fields(p, "prune", pod[p].files, pod[p].seen, Excess(Dumps), pod[p].drop,
                 pod[p].victim, Dumps)
       \/ Goes(p, "prune")
Deletes(p, s) ==
    /\ dest = "s3" /\ pod[p].pc = "prune" /\ pod[p].todo # {} /\ s = Newest(pod[p].todo)
    /\ DumpRemoved(s)
    /\ Fields(p, "archive", pod[p].files, pod[p].seen, pod[p].todo \ {s}, pod[p].drop, s,
              pod[p].sees)

\* Where the steps of the two scripts belong, and what the manifest holds.
Stages ==
    \A p \in Pods :
        /\ pod[p].pc \in {"upload", "list"} => dest = "s3"
        /\ pod[p].pc \in {"count", "glob"} => dest = "pvc"
        /\ pod[p].pc \in {"count", "list", "prune", "archive"} => keep > 0
        /\ dest = "pvc" /\ pod[p].pc \in {"new", "dump", "tar", "count", "glob"} =>
             pod[p].seen = 0
        /\ pod[p].pc = "upload" => pod[p].files \in {<<"dump">>, <<"dump", "filestore">>}

\* What a write of one file does to the dumps and archives.
LEMMA FileWritten ==
  ASSUME TypeOK, NEW s, NEW k, NEW x, files' = [files EXCEPT ![<<s, k>>] = x]
  PROVE  /\ s \in Stamp /\ k = "dump" /\ x # "absent" => Dumps' = Dumps \cup {s}
         /\ k = "dump" /\ x = "absent" => Dumps' = Dumps \ {s}
         /\ k = "dump" => Archives' = Archives
         /\ s \in Stamp /\ k = "filestore" /\ x # "absent" => Archives' = Archives \cup {s}
         /\ k = "filestore" /\ x = "absent" => Archives' = Archives \ {s}
         /\ k = "filestore" => Dumps' = Dumps
<1>1. \A t \in Stamp, j \in Kind :
        /\ <<t, j>> = <<s, k>> <=> t = s /\ j = k
        /\ files'[<<t, j>>] = IF <<t, j>> = <<s, k>> THEN x ELSE files[<<t, j>>]
  <2>1. \A t \in Stamp, j \in Kind : <<t, j>> \in Name
    BY DEF Name
  <2>2. DOMAIN files = Name
    BY DEF TypeOK
  <2> QED BY <2>1, <2>2
<1>2. "dump" \in Kind /\ "filestore" \in Kind /\ "dump" # "filestore"
  BY DEF Kind
<1> QED BY <1>1, <1>2 DEF Dumps, Archives, Present

LEMMA Untouched == UNCHANGED <<files, published>> => FilesKept
  BY DEF FilesKept, Dumps, Archives, Present

LEMMA BeginsEffect ==
  ASSUME TypeOK, NEW p \in Pods, Start(p)
  PROVE  Begins(p)
<1>1. pod \in [Pods -> Pod] /\ pod[p] \in Pod
  BY DEF TypeOK
<1>2. PICK s \in clock .. clock + 1 :
        /\ s \in Stamp /\ (s = clock => dest \in Ties /\ \A q \in Pods : ~Live(q))
        /\ pod' = [pod EXCEPT ![p].pc = "dump", ![p].stamp = s,
                              ![p].after = {q \in Pods : pod[q].pc \in Ended}]
        /\ clock' = s
        /\ IF dest = "pvc" THEN Open(p, <<s, "dump">>) ELSE UNCHANGED <<files, partial>>
  BY DEF Start
<1>3. FilesKept
  BY <1>2, Untouched DEF Start, Open
<1>4. /\ \A q \in Pods \ {p} : pod'[q] = pod[q]
      /\ pod'[p].pc = "dump" /\ pod'[p].stamp = s /\ pod'[p].files = pod[p].files
      /\ pod'[p].seen = pod[p].seen /\ pod'[p].todo = pod[p].todo
      /\ pod'[p].drop = pod[p].drop /\ pod'[p].victim = pod[p].victim
      /\ pod'[p].sees = pod[p].sees
  BY <1>1, <1>2 DEF Pod
<1>5. s \in {clock, clock + 1}
  BY <1>2 DEF TypeOK
<1> QED BY <1>2, <1>3, <1>4, <1>5 DEF Start, Begins

LEMMA DumpedEffect ==
  ASSUME TypeOK, Writers, NEW p \in Pods, DumpEnds(p)
  PROVE  Dumped(p)
<1>1. pod \in [Pods -> Pod] /\ pod[p] \in Pod
  BY DEF TypeOK
<1>2. pod[p].pc = "dump"
  BY DEF DumpEnds
<1>3. PICK next \in {"tar", AfterFiles} : pod' = [pod EXCEPT ![p].pc = next, ![p].files = <<"dump">>]
  BY DEF DumpEnds
<1>4. Fields(p, next, <<"dump">>, pod[p].seen, pod[p].todo, pod[p].drop, pod[p].victim,
             pod[p].sees)
  BY <1>1, <1>3 DEF Fields, Pod
<1>5. CASE dest = "pvc"
  <2>1. pod[p].stamp \in Stamp
    BY <1>1, <1>2, BoundsAssumption DEF Writers, OwnSecond, Live, Ended, TypeOK, Stamp
  <2>2. Names(p).dump = <<pod[p].stamp, "dump">>
    BY DEF Names
  <2> DEFINE x == IF partial[<<pod[p].stamp, "dump">>] = {p} THEN "whole" ELSE "torn"
  <2>3. /\ files' = [files EXCEPT ![<<pod[p].stamp, "dump">>] = x]
        /\ published' = published \cup ({<<pod[p].stamp, "dump">>[1]} \cap
                                        {s \in Stamp : <<pod[p].stamp, "dump">>[2] = "dump"})
    BY <1>5, <2>2 DEF DumpEnds, Rename
  <2>4. x # "absent"
    OBVIOUS
  <2> HIDE DEF x
  <2>5. Dumps' = Dumps \cup {pod[p].stamp} /\ Archives' = Archives
    BY <2>1, <2>3, <2>4, FileWritten
  <2>6. published' = published \cup {pod[p].stamp}
    BY <2>1, <2>3
  <2> QED BY <1>2, <1>4, <1>5, <2>5, <2>6 DEF Dumped, DumpStored
<1>6. CASE dest # "pvc"
  <2>1. FilesKept
    BY <1>6, Untouched DEF DumpEnds
  <2> QED BY <1>2, <1>4, <1>6, <2>1 DEF Dumped
<1> QED BY <1>5, <1>6

LEMMA TarredEffect ==
  ASSUME TypeOK, Writers, NEW p \in Pods, TarEnds(p)
  PROVE  Tarred(p)
<1>1. pod \in [Pods -> Pod] /\ pod[p] \in Pod
  BY DEF TypeOK
<1>2. pod[p].pc = "tar"
  BY DEF TarEnds
<1>3. Fields(p, AfterFiles, <<"dump", "filestore">>, pod[p].seen, pod[p].todo, pod[p].drop,
             pod[p].victim, pod[p].sees)
  BY <1>1 DEF TarEnds, Fields, Pod
<1>4. CASE dest = "pvc"
  <2>1. pod[p].stamp \in Stamp
    BY <1>1, <1>2, BoundsAssumption DEF Writers, OwnSecond, Live, Ended, TypeOK, Stamp
  <2>2. Names(p).filestore = <<pod[p].stamp, "filestore">>
    BY DEF Names
  <2> DEFINE x == IF partial[<<pod[p].stamp, "filestore">>] = {p} THEN "whole" ELSE "torn"
  <2>3. /\ files' = [files EXCEPT ![<<pod[p].stamp, "filestore">>] = x]
        /\ published' = published \cup ({<<pod[p].stamp, "filestore">>[1]} \cap
                                        {s \in Stamp : <<pod[p].stamp, "filestore">>[2] = "dump"})
    BY <1>4, <2>2 DEF TarEnds, Rename
  <2>4. x # "absent"
    OBVIOUS
  <2> HIDE DEF x
  <2>5. Archives' = Archives \cup {pod[p].stamp} /\ Dumps' = Dumps
    BY <2>1, <2>3, <2>4, FileWritten
  <2>6. published' = published
    BY <2>3
  <2> QED BY <1>2, <1>3, <1>4, <2>5, <2>6 DEF Tarred
<1>5. CASE dest # "pvc"
  <2>1. FilesKept
    BY <1>5, Untouched DEF TarEnds
  <2> QED BY <1>2, <1>3, <1>5, <2>1 DEF Tarred, FilesKept
<1> QED BY <1>4, <1>5

LEMMA ExitsEffect ==
  ASSUME TypeOK, NEW p \in Pods,
         \/ CommandFails(p) \/ RenameFails(p) \/ Kill(p) \/ PruneEnds(p)
         \/ Glob(p) /\ ~(keep > 0)
  PROVE  Exits(p)
<1>1. pod \in [Pods -> Pod] /\ pod[p] \in Pod
  BY DEF TypeOK
<1>2. ASSUME NEW outcome, pod' = [pod EXCEPT ![p].pc = outcome] PROVE Goes(p, outcome)
  BY <1>1, <1>2 DEF Goes, Fields, Pod
<1>3. FilesKept
  <2>1. UNCHANGED <<files, published>>
    BY DEF CommandFails, RenameFails, Kill, PruneEnds, Glob
  <2> QED BY <2>1, Untouched
<1>4. Live(p)
  BY DEF CommandFails, RenameFails, Kill, PruneEnds, Glob, Live, Ended
<1>5. CASE CommandFails(p) \/ RenameFails(p) \/ Kill(p)
  BY <1>2, <1>3, <1>4, <1>5 DEF CommandFails, RenameFails, Kill, Exit, Exits
<1>6. CASE PruneEnds(p)
  BY <1>2, <1>3, <1>4, <1>6 DEF PruneEnds, Exit, Exits
<1>7. CASE Glob(p) /\ ~(keep > 0)
  <2>1. pod[p].pc = "glob" /\ Exit(p, "succeeded")
    BY <1>7 DEF Glob
  <2>2. Goes(p, "succeeded")
    BY <1>2, <2>1 DEF Exit
  <2> QED BY <1>3, <1>4, <1>7, <2>1, <2>2 DEF Exits
<1> QED BY <1>5, <1>6, <1>7

LEMMA ClaimEffect ==
  ASSUME TypeOK, NEW p \in Pods
  PROVE  /\ Count(p) => Counts(p)
         /\ Glob(p) /\ keep > 0 => Globs(p)
         /\ Walk(p) => \E s : Walks(p, s)
         /\ RemoveArchive(p) => Clears(p)
<1>1. pod \in [Pods -> Pod] /\ pod[p] \in Pod /\ files \in [Name -> {"absent", "whole", "torn"}]
  BY DEF TypeOK
<1>2. ASSUME Count(p) PROVE Counts(p)
  <2>1. FilesKept
    BY <1>2, Untouched DEF Count
  <2> QED BY <1>1, <1>2, <2>1 DEF Count, Counts, Drop, Fields, Pod
<1>3. ASSUME Glob(p), keep > 0 PROVE Globs(p)
  <2>1. FilesKept
    BY <1>3, Untouched DEF Glob
  <2> QED BY <1>1, <1>3, <2>1 DEF Glob, Globs, Fields, Pod
<1>4. ASSUME Walk(p) PROVE \E s : Walks(p, s)
  <2> DEFINE s == Oldest(pod[p].todo)
             due == s \in Dumps /\ pod[p].seen + 1 <= pod[p].drop
  <2>1. s \in pod[p].todo /\ pod[p].todo \subseteq Stamp
    BY <1>1, <1>4, OldestType DEF Walk, Pod
  <2>2. Present(<<s, "dump">>) <=> s \in Dumps
    BY <2>1 DEF Dumps
  <2> HIDE DEF s
  <2>3. /\ pod' = [pod EXCEPT ![p].todo = @ \ {s},
                              ![p].seen = IF s \in Dumps THEN pod[p].seen + 1 ELSE @,
                              ![p].pc = IF due THEN "archive" ELSE "prune",
                              ![p].victim = IF due THEN s ELSE @]
        /\ files' = IF due THEN [files EXCEPT ![<<s, "dump">>] = "absent"] ELSE files
        /\ dest = "pvc" /\ pod[p].pc = "prune" /\ pod[p].todo # {} /\ published' = published
    BY <1>4, <2>2 DEF Walk, s
  <2>4. Fields(p, IF due THEN "archive" ELSE "prune", pod[p].files,
               IF s \in Dumps THEN pod[p].seen + 1 ELSE pod[p].seen, pod[p].todo \ {s},
               pod[p].drop, IF due THEN s ELSE pod[p].victim, pod[p].sees)
    <3> HIDE DEF due
    <3> QED BY <1>1, <2>3 DEF Fields, Pod
  <2>5. IF due THEN DumpRemoved(s) ELSE FilesKept
    BY <2>3, FileWritten, Untouched DEF DumpRemoved
  <2>6. Walks(p, s)
    BY <2>3, <2>4, <2>5 DEF Walks, s
  <2> QED BY <2>6
<1>5. ASSUME RemoveArchive(p) PROVE Clears(p)
  <2>1. /\ files' = [files EXCEPT ![<<pod[p].victim, "filestore">>] = "absent"]
        /\ pod' = [pod EXCEPT ![p].pc = "prune"] /\ pod[p].pc = "archive"
        /\ published' = published
    BY <1>5 DEF RemoveArchive
  <2>2. Dumps' = Dumps /\ Archives' = Archives \ {pod[p].victim}
    BY <2>1, FileWritten
  <2> QED BY <1>1, <2>1, <2>2 DEF Clears, Goes, Fields, Pod
<1> QED BY <1>2, <1>3, <1>4, <1>5

LEMMA BucketEffect ==
  ASSUME TypeOK, Writers, Stages, NEW p \in Pods
  PROVE  /\ Upload(p) => Uploads(p)
         /\ List(p) \/ ListFails(p) => Lists(p)
         /\ DeleteObject(p) => \E s : Deletes(p, s)
<1>1. pod \in [Pods -> Pod] /\ pod[p] \in Pod /\ files \in [Name -> {"absent", "whole", "torn"}]
  BY DEF TypeOK
<1>2. ASSUME Upload(p) PROVE Uploads(p)
  <2> DEFINE lines == ReadLines(pod[p].files)
             i == pod[p].seen + 1
  <2>1. pod[p].pc = "upload" /\ pod[p].files \in {<<"dump">>, <<"dump", "filestore">>}
    BY <1>2 DEF Upload, Stages
  <2>2. Len(lines) \in {0, 1} /\ (Len(lines) = 1 => lines[1] = "dump")
    BY <2>1 DEF ReadLines
  <2>3. pod[p].seen \in Nat
    BY <1>1 DEF Pod
  <2>4. pod[p].stamp \in Stamp
    BY <1>1, <2>1, BoundsAssumption DEF Writers, OwnSecond, Live, Ended, TypeOK, Stamp
  <2>5. IF i <= Len(lines)
          THEN /\ files' = [files EXCEPT ![<<pod[p].stamp, lines[i]>>] = "whole"]
               /\ published' = published \cup ({pod[p].stamp} \cap {s \in Stamp : lines[i] = "dump"})
               /\ pod' = [pod EXCEPT ![p].seen = i]
          ELSE /\ pod' = [pod EXCEPT ![p].pc = IF keep > 0 THEN "list" ELSE "succeeded",
                                     ![p].files = lines]
               /\ UNCHANGED <<files, published>>
    BY <1>2 DEF Upload
  <2> HIDE DEF lines
  <2>6. CASE i <= Len(lines)
    <3>1. pod[p].seen = 0 /\ i = 1 /\ lines[i] = "dump"
      BY <2>2, <2>3, <2>6
    <3>2. /\ files' = [files EXCEPT ![<<pod[p].stamp, "dump">>] = "whole"]
          /\ published' = published \cup {pod[p].stamp}
          /\ pod' = [pod EXCEPT ![p].seen = 1]
      BY <2>4, <2>5, <2>6, <3>1
    <3>3. DumpStored(pod[p].stamp)
      <4>0. files' = [files EXCEPT ![<<pod[p].stamp, "dump">>] = "whole"] /\ "whole" # "absent"
        BY <3>2
      <4>1. Dumps' = Dumps \cup {pod[p].stamp} /\ Archives' = Archives
        BY <2>4, <4>0, FileWritten
      <4> QED BY <3>2, <4>1 DEF DumpStored
    <3>4. Fields(p, "upload", pod[p].files, 1, pod[p].todo, pod[p].drop, pod[p].victim,
                 pod[p].sees)
      BY <1>1, <2>1, <3>2 DEF Fields, Pod
    <3> QED BY <2>1, <3>1, <3>3, <3>4 DEF Uploads
  <2>7. CASE ~(i <= Len(lines))
    <3>1. /\ pod' = [pod EXCEPT ![p].pc = IF keep > 0 THEN "list" ELSE "succeeded",
                                ![p].files = lines]
          /\ UNCHANGED <<files, published>>
      BY <2>5, <2>7
    <3>2. Fields(p, IF keep > 0 THEN "list" ELSE "succeeded", lines, pod[p].seen,
                 pod[p].todo, pod[p].drop, pod[p].victim, pod[p].sees)
      BY <1>1, <3>1 DEF Fields, Pod
    <3> QED BY <2>1, <3>1, <3>2, Untouched DEF Uploads, lines
  <2> QED BY <2>6, <2>7
<1>3. ASSUME List(p) \/ ListFails(p) PROVE Lists(p)
  <2>1. FilesKept /\ pod[p].pc = "list"
    BY <1>3, Untouched DEF List, ListFails
  <2>2. CASE List(p)
    BY <1>1, <2>1, <2>2 DEF List, Lists, Fields, Pod
  <2>3. CASE ListFails(p)
    <3>1. Goes(p, "prune")
      BY <1>1, <2>3 DEF ListFails, Goes, Fields, Pod
    <3> QED BY <2>1, <3>1 DEF Lists
  <2> QED BY <1>3, <2>2, <2>3
<1>4. ASSUME DeleteObject(p) PROVE \E s : Deletes(p, s)
  <2> DEFINE s == Newest(pod[p].todo)
  <2>1. /\ pod' = [pod EXCEPT ![p].todo = @ \ {s}, ![p].pc = "archive", ![p].victim = s]
        /\ files' = [files EXCEPT ![<<s, "dump">>] = "absent"]
        /\ dest = "s3" /\ pod[p].pc = "prune" /\ pod[p].todo # {} /\ published' = published
    BY <1>4 DEF DeleteObject
  <2> HIDE DEF s
  <2>2. Fields(p, "archive", pod[p].files, pod[p].seen, pod[p].todo \ {s}, pod[p].drop, s,
               pod[p].sees)
    BY <1>1, <2>1 DEF Fields, Pod
  <2>3. DumpRemoved(s)
    BY <2>1, FileWritten DEF DumpRemoved
  <2>4. Deletes(p, s)
    BY <2>1, <2>2, <2>3 DEF Deletes, s
  <2> QED BY <2>4
<1> QED BY <1>2, <1>3, <1>4

\* Every step is one of these.
Moves(p) ==
    \/ Dumped(p) \/ Tarred(p) \/ Exits(p) \/ Counts(p) \/ Globs(p) \/ Clears(p)
    \/ Uploads(p) \/ Lists(p) \/ \E s : Walks(p, s) \/ Deletes(p, s)

LEMMA StepEffect ==
  ASSUME TypeOK, Writers, Stages, NEW p \in Pods,
         Start(p) \/ Script(p) \/ CommandFails(p) \/ ListFails(p) \/ Kill(p)
  PROVE  /\ dest' = dest /\ keep' = keep
         /\ Begins(p) \/ (clock' = clock /\ Moves(p))
<1>1. dest' = dest /\ keep' = keep
  BY DEF Script, Start, DumpEnds, TarEnds, RenameFails, Count, Glob, Walk, RemoveArchive,
         PruneEnds, Upload, List, DeleteObject, CommandFails, ListFails, Kill, conf
<1>2. Start(p) \/ clock' = clock
  BY DEF Script, DumpEnds, TarEnds, RenameFails, Count, Glob, Walk, RemoveArchive,
         PruneEnds, Upload, List, DeleteObject, CommandFails, ListFails, Kill
<1>4. CASE Start(p)
  BY <1>1, <1>4, BeginsEffect
<1>5. CASE ~Start(p)
  <2>1. Moves(p)
    BY <1>5, DumpedEffect, TarredEffect, ExitsEffect, ClaimEffect, BucketEffect
       DEF Script, Moves
  <2> QED BY <1>1, <1>2, <1>5, <2>1
<1> QED BY <1>4, <1>5

-----------------------------------------------------------------------------
(* What a run may remove. *)

\* On a claim that has a retention the pods run one at a time.
ClaimsSerial == \A k \in Retentions : k > 0 => <<"pvc", k>> \notin Overlapping
Alone == dest = "pvc" /\ keep > 0 => \A p, q \in Pods : Live(p) /\ Live(q) => p = q

\* Every dump was published, none of them later than now.
Stored == Dumps \subseteq published /\ published \subseteq 1 .. clock

\* What a run of a bucket has still to delete has `keep` newer dumps.
DueInv == dest = "s3" => \A p \in Pods : \A s \in pod[p].todo : Cardinality(Newer(s)) >= keep

\* The walk on a claim: it meets every dump it has counted, so that its two counters tell
\* how many are left; either all that it has passed are gone, or no more than `keep` dumps
\* are there.
ClaimInv ==
    dest = "pvc" /\ keep > 0 =>
        \A p \in Pods :
            /\ pod[p].pc = "glob" => pod[p].drop = Cardinality(Dumps) - keep
            /\ pod[p].pc \in {"prune", "archive"} =>
                 /\ pod[p].todo \subseteq Dumps
                 /\ pod[p].seen + Cardinality(pod[p].todo) = pod[p].drop + keep
                 /\ \/ pod[p].seen <= pod[p].drop /\ Dumps = pod[p].todo
                    \/ Cardinality(Dumps) <= keep

Scripts == TypeOK /\ Writers /\ Stages /\ Alone /\ Stored

LEMMA ScriptTypes ==
  ASSUME TypeOK
  PROVE  /\ dest \in {"pvc", "s3"} /\ keep \in Nat /\ clock \in Nat
         /\ \A p \in Pods : /\ pod[p].todo \in SUBSET Stamp /\ pod[p].seen \in Nat
                            /\ pod[p].drop \in Int /\ pod[p].sees \in SUBSET Stamp
         /\ published \in SUBSET Stamp
<1>1. \A p \in Pods : pod[p] \in Pod
  BY DEF TypeOK
<1>2. \A p \in Pods : /\ pod[p].todo \in SUBSET Stamp /\ pod[p].seen \in Nat
                      /\ pod[p].drop \in Int /\ pod[p].sees \in SUBSET Stamp
  BY <1>1 DEF Pod
<1> QED BY <1>2, DestinationsAssumption, BoundsAssumption DEF TypeOK

LEMMA StagesStep ==
  ASSUME TypeOK, Stages, NEW p \in Pods, dest' = dest, keep' = keep, Begins(p) \/ Moves(p)
  PROVE  Stages'
<1>0. dest \in {"pvc", "s3"} /\ keep \in Nat
  BY ScriptTypes
<1> DEFINE Fit(q) ==
        /\ pod'[q].pc \in {"upload", "list"} => dest = "s3"
        /\ pod'[q].pc \in {"count", "glob"} => dest = "pvc"
        /\ pod'[q].pc \in {"count", "list", "prune", "archive"} => keep > 0
        /\ dest = "pvc" /\ pod'[q].pc \in {"new", "dump", "tar", "count", "glob"} =>
             pod'[q].seen = 0
        /\ pod'[q].pc = "upload" => pod'[q].files \in {<<"dump">>, <<"dump", "filestore">>}
<1>1. \A q \in Pods \ {p} : pod'[q] = pod[q]
  BY DEF Begins, Moves, Dumped, Tarred, Exits, Counts, Globs, Walks, Clears, Uploads, Lists,
         Deletes, Goes, Fields
<1>2. \A q \in Pods \ {p} : Fit(q)
  BY <1>1 DEF Stages
<1>3. Fit(p)
  <2>1. CASE Begins(p)
    BY <2>1 DEF Begins, Stages
  <2>2. CASE Dumped(p)
    <3>1. PICK next \in {"tar", AfterFiles} :
            Fields(p, next, <<"dump">>, pod[p].seen, pod[p].todo, pod[p].drop, pod[p].victim,
                   pod[p].sees)
      BY <2>2 DEF Dumped
    <3>2. /\ pod'[p].pc \in {"tar", AfterFiles} /\ pod'[p].files = <<"dump">>
          /\ pod'[p].seen = pod[p].seen /\ pod[p].pc = "dump"
      BY <2>2, <3>1 DEF Fields, Dumped
    <3> QED BY <1>0, <3>2 DEF AfterFiles, Stages
  <2>3. CASE Tarred(p)
    <3>1. /\ pod'[p].pc = AfterFiles /\ pod'[p].files = <<"dump", "filestore">>
          /\ pod'[p].seen = pod[p].seen /\ pod[p].pc = "tar"
      BY <2>3 DEF Fields, Tarred
    <3> QED BY <1>0, <3>1 DEF AfterFiles, Stages
  <2>4. CASE Exits(p)
    BY <2>4 DEF Exits, Goes, Fields
  <2>5. CASE Counts(p) \/ Globs(p)
    BY <2>5 DEF Counts, Globs, Fields, Stages
  <2>6. CASE Clears(p) \/ \E s : Walks(p, s) \/ Deletes(p, s)
    BY <2>6 DEF Clears, Walks, Deletes, Goes, Fields, Stages
  <2>7. CASE Uploads(p)
    BY <2>7 DEF Uploads, Fields, Stages
  <2>8. CASE Lists(p)
    BY <2>8 DEF Lists, Goes, Fields, Stages
  <2> QED BY <2>1, <2>2, <2>3, <2>4, <2>5, <2>6, <2>7, <2>8 DEF Moves
<1> QED BY <1>2, <1>3 DEF Stages

LEMMA Movers ==
  ASSUME NEW p \in Pods, Moves(p)
  PROVE  Live(p) /\ pod'[p].stamp = pod[p].stamp /\ \A q \in Pods \ {p} : pod'[q] = pod[q]
<1>1. Live(p)
  BY DEF Moves, Dumped, Tarred, Exits, Counts, Globs, Walks, Clears, Uploads, Lists,
         Deletes, Live, Ended
<1>2. pod'[p].stamp = pod[p].stamp /\ \A q \in Pods \ {p} : pod'[q] = pod[q]
  BY DEF Moves, Dumped, Tarred, Exits, Counts, Globs, Walks, Clears, Uploads, Lists,
         Deletes, Goes, Fields
<1> QED BY <1>1, <1>2

LEMMA AloneStep ==
  ASSUME TypeOK, Alone, ClaimsSerial, NEW p \in Pods, dest' = dest, keep' = keep,
         Begins(p) \/ Moves(p)
  PROVE  Alone'
<1> SUFFICES ASSUME dest = "pvc", keep > 0, NEW q \in Pods, NEW r \in Pods, Live(q)', Live(r)'
             PROVE  q = r
  BY DEF Alone
<1>1. CASE Begins(p)
  <2>1. <<dest, keep>> \notin Overlapping
    BY DEF ClaimsSerial, TypeOK
  <2>2. \A o \in Pods : ~Live(o)
    BY <1>1, <2>1 DEF Begins
  <2>3. \A o \in Pods \ {p} : ~Live(o)'
    BY <1>1, <2>2 DEF Begins, Live
  <2> QED BY <2>3
<1>2. CASE Moves(p)
  <2>1. \A o \in Pods \ {p} : Live(o)' => Live(o)
    BY <1>2, Movers DEF Live
  <2> QED BY <1>2, <2>1, Movers DEF Alone
<1> QED BY <1>1, <1>2

LEMMA StoredStep ==
  ASSUME TypeOK, Writers, Stored, NEW p \in Pods, Begins(p) \/ (clock' = clock /\ Moves(p))
  PROVE  Stored'
<1>0. clock \in Nat
  BY ScriptTypes
<1>1. CASE Begins(p)
  <2>1. FilesKept /\ (clock' = clock \/ clock' = clock + 1)
    BY <1>1 DEF Begins
  <2>2. 1 .. clock \subseteq 1 .. clock'
    BY <1>0, <2>1
  <2> QED BY <2>1, <2>2 DEF FilesKept, Stored
<1>2. CASE clock' = clock /\ Moves(p)
  <2>1. pod[p].stamp \in 1 .. clock
    BY <1>2, Movers DEF Writers, OwnSecond
  <2>2. \/ Dumps' = Dumps /\ published' = published
        \/ DumpStored(pod[p].stamp) \/ \E s : DumpRemoved(s)
    BY <1>2 DEF Moves, Dumped, Tarred, Exits, Counts, Globs, Walks, Clears, Uploads, Lists,
         Deletes, FilesKept
  <2> QED BY <1>2, <2>1, <2>2 DEF DumpStored, DumpRemoved, Stored
<1> QED BY <1>1, <1>2

\* Who has that many newer dumps keeps them.
LEMMA NewerGrows ==
  ASSUME TypeOK, published \subseteq published', published' \in SUBSET Stamp, NEW s
  PROVE  /\ Cardinality(Newer(s)) \in Nat /\ Cardinality(Newer(s)') \in Nat
         /\ Cardinality(Newer(s)) <= Cardinality(Newer(s)')
<1>1. Newer(s)' \in SUBSET Stamp /\ Newer(s) \in SUBSET Newer(s)'
  BY DEF Newer
<1> QED BY <1>1, StampSets

\* A step stores a dump of its own second, removes one that has `keep` newer ones, or
\* leaves the dumps alone.
Removable(s) == keep > 0 /\ Cardinality(Newer(s)) >= keep /\ DumpRemoved(s)

LEMMA DumpsChange ==
  ASSUME Scripts, DueInv, ClaimInv, NEW p \in Pods, Moves(p)
  PROVE  \/ Dumps' = Dumps /\ published' = published
         \/ DumpStored(pod[p].stamp) /\ pod[p].stamp \in Stamp
         \/ \E s : Removable(s)
<1>0. TypeOK /\ keep \in Nat /\ pod[p].todo \in SUBSET Stamp /\ pod[p].seen \in Nat
      /\ pod[p].drop \in Int /\ published \in SUBSET Stamp
  BY ScriptTypes DEF Scripts
<1>1. ASSUME NEW s, Walks(p, s), DumpRemoved(s), pod[p].seen + 1 <= pod[p].drop
      PROVE  Removable(s)
  <2> DEFINE T == pod[p].todo
  <2>1. dest = "pvc" /\ pod[p].pc = "prune" /\ T # {} /\ s = Oldest(T)
    BY <1>1 DEF Walks
  <2>2. keep > 0
    BY <2>1 DEF Scripts, Stages
  <2>3. T \subseteq Dumps /\ pod[p].seen + Cardinality(T) = pod[p].drop + keep
    BY <2>1, <2>2 DEF ClaimInv
  <2>4. s \in T /\ \A t \in T \ {s} : t > s
    BY <1>0, <2>1, OldestFirst
  <2>5. T \ {s} \in SUBSET Newer(s) /\ Newer(s) \in SUBSET Stamp
    BY <1>0, <2>3, <2>4 DEF Scripts, Stored, Newer
  <2>6. Cardinality(T \ {s}) = Cardinality(T) - 1 /\ Cardinality(T) \in Nat
    BY <1>0, <2>4, RemoveOne, StampSets
  <2> HIDE DEF T
  <2>7. Cardinality(T \ {s}) <= Cardinality(Newer(s)) /\ Cardinality(Newer(s)) \in Nat
    BY <2>5, StampSets
  <2>8. Cardinality(Newer(s)) >= keep
    BY <1>0, <1>1, <2>3, <2>6, <2>7
  <2> QED BY <1>1, <2>2, <2>8 DEF Removable
<1>2. ASSUME NEW s, Deletes(p, s) PROVE Removable(s)
  <2>1. /\ dest = "s3" /\ pod[p].pc = "prune" /\ pod[p].todo # {} /\ s = Newest(pod[p].todo)
        /\ DumpRemoved(s)
    BY <1>2 DEF Deletes
  <2>2. keep > 0
    BY <2>1 DEF Scripts, Stages
  <2>3. s \in pod[p].todo
    BY <1>0, <2>1, NewestType
  <2>4. Cardinality(Newer(s)) >= keep
    BY <2>1, <2>3 DEF DueInv
  <2> QED BY <2>1, <2>2, <2>4 DEF Removable
<1>3. ASSUME NEW s, Walks(p, s)
      PROVE  \/ Dumps' = Dumps /\ published' = published
             \/ Removable(s)
  BY <1>1, <1>3 DEF Walks, FilesKept
<1>4. CASE Dumped(p) \/ Uploads(p)
  <2>1. pod[p].stamp \in Stamp
    BY <1>0, Movers, BoundsAssumption DEF Scripts, Writers, OwnSecond, TypeOK, Stamp
  <2> QED BY <1>4, <2>1 DEF Dumped, Uploads, FilesKept
<1>5. CASE Tarred(p) \/ Exits(p) \/ Counts(p) \/ Globs(p) \/ Clears(p) \/ Lists(p)
  BY <1>5 DEF Tarred, Exits, Counts, Globs, Clears, Lists, FilesKept
<1> QED BY <1>2, <1>3, <1>4, <1>5 DEF Moves

LEMMA PublishedGrows ==
  ASSUME Scripts, DueInv, ClaimInv, NEW p \in Pods, Begins(p) \/ Moves(p)
  PROVE  published \subseteq published' /\ published' \in SUBSET Stamp
<1>1. published \in SUBSET Stamp
  BY ScriptTypes DEF Scripts
<1> QED BY <1>1, DumpsChange DEF Begins, FilesKept, DumpStored, Removable, DumpRemoved

LEMMA NewestKeptStep ==
  ASSUME Scripts, DueInv, ClaimInv, NewestKept, NEW p \in Pods, keep' = keep,
         Begins(p) \/ Moves(p)
  PROVE  NewestKept'
<1>0. TypeOK /\ keep \in Nat /\ published \in SUBSET Stamp
  BY ScriptTypes DEF Scripts
<1>1. published \subseteq published' /\ published' \in SUBSET Stamp
  BY PublishedGrows
<1> SUFFICES ASSUME NEW s \in published', keep = 0 \/ Cardinality(Newer(s)') < keep
             PROVE  s \in Dumps'
  BY DEF NewestKept, Newer
<1>2. s \in published => s \in Dumps
  <2> SUFFICES ASSUME s \in published PROVE s \in Dumps
    OBVIOUS
  <2>1. keep = 0 \/ Cardinality(Newer(s)) < keep
    BY <1>0, <1>1, NewerGrows
  <2> QED BY <2>1 DEF NewestKept, Newer
<1>3. CASE Dumps' = Dumps /\ published' = published
  BY <1>2, <1>3
<1>4. CASE DumpStored(pod[p].stamp)
  BY <1>2, <1>4 DEF DumpStored
<1>5. ASSUME NEW t, Removable(t) PROVE s \in Dumps'
  <2>1. published' = published /\ Dumps' = Dumps \ {t} /\ keep > 0 /\ Cardinality(Newer(t)) >= keep
    BY <1>5 DEF Removable, DumpRemoved
  <2>2. Newer(t)' = Newer(t)
    BY <2>1 DEF Newer
  <2>3. s # t
    BY <1>0, <1>1, <2>1, <2>2, NewerGrows
  <2> QED BY <1>2, <2>1, <2>3
<1> QED BY <1>3, <1>4, <1>5, DumpsChange DEF Begins, FilesKept

LEMMA DueStep ==
  ASSUME Scripts, DueInv, ClaimInv, NEW p \in Pods, dest' = dest, keep' = keep,
         Begins(p) \/ Moves(p)
  PROVE  DueInv'
<1>0. TypeOK /\ keep \in Nat /\ published \in SUBSET Stamp
      /\ \A q \in Pods : pod[q].todo \in SUBSET Stamp
  BY ScriptTypes DEF Scripts
<1>1. published \subseteq published' /\ published' \in SUBSET Stamp
  BY PublishedGrows
<1> SUFFICES ASSUME dest = "s3", NEW q \in Pods, NEW s \in pod'[q].todo
             PROVE  Cardinality(Newer(s)') >= keep
  BY DEF DueInv, Newer
<1>2. s \in pod[q].todo => Cardinality(Newer(s)') >= keep
  BY <1>0, <1>1, NewerGrows DEF DueInv
<1>3. CASE Lists(p) /\ q = p /\ pod'[p].todo = Excess(Dumps)
  <2>1. s \in Excess(Dumps) /\ published' = published
    BY <1>3 DEF Lists, FilesKept
  <2>2. Cardinality({t \in Dumps : t > s}) >= keep
    BY <2>1 DEF Excess
  <2>3. {t \in Dumps : t > s} \in SUBSET Newer(s)' /\ Newer(s)' \in SUBSET Stamp
    BY <1>1, <2>1 DEF Scripts, Stored, Newer
  <2>4. Cardinality({t \in Dumps : t > s}) <= Cardinality(Newer(s)')
        /\ Cardinality({t \in Dumps : t > s}) \in Nat /\ Cardinality(Newer(s)') \in Nat
    BY <2>3, StampSets
  <2> QED BY <1>0, <2>2, <2>4
<1>4. CASE ~(Lists(p) /\ q = p /\ pod'[p].todo = Excess(Dumps))
  <2>1. ~Globs(p)
    BY DEF Globs, Scripts, Stages
  <2>2. pod'[q].todo \subseteq pod[q].todo
    <3>1. CASE q # p
      BY <3>1, Movers DEF Begins
    <3>2. CASE q = p
      BY <1>4, <2>1, <3>2 DEF Begins, Moves, Dumped, Tarred, Exits, Counts, Walks, Clears,
         Uploads, Lists, Deletes, Goes, Fields
    <3> QED BY <3>1, <3>2
  <2> QED BY <1>2, <2>2
<1> QED BY <1>3, <1>4

LEMMA ClaimStep ==
  ASSUME Scripts, ClaimInv, NEW p \in Pods, dest' = dest, keep' = keep, Begins(p) \/ Moves(p)
  PROVE  ClaimInv'
<1> DEFINE In(q) ==
      /\ pod'[q].pc = "glob" => pod'[q].drop = Cardinality(Dumps') - keep
      /\ pod'[q].pc \in {"prune", "archive"} =>
           /\ pod'[q].todo \subseteq Dumps'
           /\ pod'[q].seen + Cardinality(pod'[q].todo) = pod'[q].drop + keep
           /\ \/ pod'[q].seen <= pod'[q].drop /\ Dumps' = pod'[q].todo
              \/ Cardinality(Dumps') <= keep
<1> SUFFICES ASSUME dest = "pvc", keep > 0, NEW q \in Pods PROVE In(q)
  BY DEF ClaimInv
<1>0. /\ TypeOK /\ keep \in Nat \ {0} /\ pod[p].todo \in SUBSET Stamp /\ pod[p].seen \in Nat
      /\ pod[p].drop \in Int /\ Dumps \in SUBSET Stamp /\ Cardinality(Dumps) \in Nat
  BY ScriptTypes, DumpsType DEF Scripts
<1>1. CASE q # p
  <2>1. pod'[q] = pod[q]
    BY <1>1, Movers DEF Begins
  <2>2. CASE pod[q].pc \in {"glob", "prune", "archive"}
    <3>1. Live(q)
      BY <2>2 DEF Live, Ended
    <3>2. ~Moves(p)
      BY <1>1, <3>1, Movers DEF Scripts, Alone
    <3>3. Dumps' = Dumps
      BY <3>2 DEF Begins, FilesKept
    <3> QED BY <2>1, <3>3 DEF ClaimInv
  <2> QED BY <2>1, <2>2
<1>2. CASE q = p
  <2>1. CASE pod'[p].pc \notin {"glob", "prune", "archive"}
    BY <1>2, <2>1
  <2>2. CASE Counts(p)
    <3>1. /\ pod'[p].pc = "glob" /\ pod'[p].drop = Cardinality(Dumps) - keep /\ Dumps' = Dumps
      BY <2>2 DEF Counts, Fields, FilesKept
    <3> QED BY <1>2, <3>1
  <2>3. CASE Globs(p)
    <3>1. /\ pod'[p].pc = "prune" /\ pod'[p].todo = Dumps /\ Dumps' = Dumps
          /\ pod'[p].drop = pod[p].drop /\ pod'[p].seen = pod[p].seen
      BY <2>3 DEF Globs, Fields, FilesKept
    <3>2. pod[p].seen = 0 /\ pod[p].drop = Cardinality(Dumps) - keep
      BY <2>3 DEF Globs, Scripts, Stages, ClaimInv
    <3>3. 0 + Cardinality(Dumps) = (Cardinality(Dumps) - keep) + keep
      BY <1>0
    <3>4. 0 <= pod[p].drop \/ Cardinality(Dumps) <= keep
      BY <1>0, <3>2
    <3> QED BY <1>2, <3>1, <3>2, <3>3, <3>4
  <2>4. CASE Clears(p) \/ Exits(p)
    <3>1. /\ pod'[p].pc \in {"prune", "failed", "killed", "succeeded"} /\ Dumps' = Dumps
          /\ pod'[p].pc = "prune" => pod[p].pc = "archive"
          /\ pod'[p].todo = pod[p].todo
          /\ pod'[p].drop = pod[p].drop /\ pod'[p].seen = pod[p].seen
      BY <2>4 DEF Clears, Exits, Goes, Fields, FilesKept
    <3> QED BY <1>2, <3>1 DEF ClaimInv
  <2>5. ASSUME NEW s, Walks(p, s) PROVE In(p)
    <3> DEFINE T == pod[p].todo
    <3>1. pod[p].pc = "prune" /\ T # {} /\ s = Oldest(T)
      BY <2>5 DEF Walks
    <3>2. /\ T \subseteq Dumps /\ pod[p].seen + Cardinality(T) = pod[p].drop + keep
          /\ \/ pod[p].seen <= pod[p].drop /\ Dumps = T
             \/ Cardinality(Dumps) <= keep
      BY <3>1 DEF ClaimInv
    <3>3. s \in T /\ s \in Dumps
      BY <1>0, <3>1, <3>2, OldestType
    <3>4. Cardinality(T \ {s}) = Cardinality(T) - 1 /\ Cardinality(T) \in Nat
      BY <1>0, <3>3, RemoveOne, StampSets
    <3>5. Cardinality(Dumps \ {s}) = Cardinality(Dumps) - 1
      BY <1>0, <3>3, RemoveOne
    <3>6. CASE pod[p].seen + 1 <= pod[p].drop
      <4>1. /\ pod'[p].pc = "archive" /\ pod'[p].todo = T \ {s} /\ Dumps' = Dumps \ {s}
            /\ pod'[p].seen = pod[p].seen + 1 /\ pod'[p].drop = pod[p].drop
        BY <2>5, <3>3, <3>6 DEF Walks, Fields, DumpRemoved
      <4>2. pod[p].seen + 1 + Cardinality(T \ {s}) = pod[p].drop + keep
        BY <1>0, <3>2, <3>4
      <4>3. \/ Dumps' = T \ {s} \/ Cardinality(Dumps') <= keep
        BY <1>0, <3>2, <3>5, <4>1
      <4> QED BY <3>2, <3>6, <4>1, <4>2, <4>3
    <3>7. CASE ~(pod[p].seen + 1 <= pod[p].drop)
      <4>1. /\ pod'[p].pc = "prune" /\ pod'[p].todo = T \ {s} /\ Dumps' = Dumps
            /\ pod'[p].seen = pod[p].seen + 1 /\ pod'[p].drop = pod[p].drop
        BY <2>5, <3>3, <3>7 DEF Walks, Fields, FilesKept
      <4>2. pod[p].seen + 1 + Cardinality(T \ {s}) = pod[p].drop + keep
        BY <1>0, <3>2, <3>4
      <4>3. Cardinality(Dumps) <= keep
        <5>1. CASE pod[p].seen <= pod[p].drop /\ Dumps = T
          <6>1. Cardinality(T) <= keep
            BY <1>0, <3>2, <3>4, <3>7, <5>1
          <6> QED BY <5>1, <6>1
        <5> QED BY <3>2, <5>1
      <4> QED BY <3>2, <4>1, <4>2, <4>3
    <3> QED BY <3>6, <3>7
  <2>6. CASE Begins(p) \/ Dumped(p) \/ Tarred(p)
    <3>1. pod'[p].pc \in {"dump", "tar", AfterFiles}
      BY <2>6 DEF Begins, Dumped, Tarred, Fields
    <3>2. AfterFiles = "count"
      BY DEF AfterFiles
    <3> QED BY <2>1, <3>1, <3>2
  <2>7. ~(Uploads(p) \/ Lists(p) \/ \E s : Deletes(p, s))
    BY DEF Uploads, Lists, Deletes, Scripts, Stages
  <2> QED BY <1>2, <2>2, <2>3, <2>4, <2>5, <2>6, <2>7 DEF Moves
<1> QED BY <1>1, <1>2

RetentionInv == Scripts /\ DueInv /\ ClaimInv /\ NewestKept

LEMMA RetentionInit == Init => RetentionInv
<1> SUFFICES ASSUME Init PROVE RetentionInv OBVIOUS
<1>1. TypeOK /\ Writers
  BY TornInit DEF TornInv
<1>2. \A p \in Pods : pod[p].pc = "new" /\ pod[p].seen = 0 /\ pod[p].todo = {}
  BY DEF Init, NewPod
<1>3. published = {} /\ Dumps = {}
  <2>1. \A s \in Stamp : <<s, "dump">> \in Name
    BY DEF Name, Kind
  <2> QED BY <2>1 DEF Init, Dumps, Present
<1>4. Stages /\ Alone
  BY <1>2 DEF Stages, Alone, Live
<1>5. Stored /\ NewestKept
  BY <1>3 DEF Stored, NewestKept
<1>6. DueInv /\ ClaimInv
  BY <1>2 DEF DueInv, ClaimInv
<1> QED BY <1>1, <1>4, <1>5, <1>6 DEF RetentionInv, Scripts

LEMMA RetentionNext ==
  ASSUME ClaimsSerial
  PROVE  RetentionInv /\ [Next]_vars => RetentionInv'
<1> SUFFICES ASSUME RetentionInv, [Next]_vars PROVE RetentionInv'
  OBVIOUS
<1>1. Scripts /\ TypeOK /\ Writers /\ Stages /\ Alone /\ Stored /\ DueInv /\ ClaimInv /\ NewestKept
  BY DEF RetentionInv, Scripts
<1>2. TypeOK'
  BY <1>1, TypeNext
<1>3. CASE Next
  <2>1. PICK p \in Pods : Start(p) \/ Script(p) \/ CommandFails(p) \/ ListFails(p) \/ Kill(p)
    BY <1>3 DEF Next
  <2>2. Writers'
    BY <1>1, <2>1, WritersStart, WritersDumpEnds, WritersQuiet DEF Script
  <2>3. dest' = dest /\ keep' = keep /\ (Begins(p) \/ (clock' = clock /\ Moves(p)))
    BY <1>1, <2>1, StepEffect
  <2>4. Stages' /\ Alone' /\ Stored'
    BY <1>1, <2>3, StagesStep, AloneStep, StoredStep
  <2>5. DueInv' /\ ClaimInv' /\ NewestKept'
    BY <1>1, <2>3, DueStep, ClaimStep, NewestKeptStep
  <2> QED BY <1>2, <2>2, <2>4, <2>5 DEF RetentionInv, Scripts
<1>4. CASE UNCHANGED vars
  <2>1. Writers'
    BY <1>1, <1>4 DEF vars, conf, Writers, OwnSecond, WritersStarted, SoleWriter, Live
  <2>2. Stages' /\ Alone'
    BY <1>1, <1>4 DEF vars, conf, Stages, Alone, Live
  <2>3. Dumps' = Dumps
    BY <1>4 DEF vars, Dumps, Present
  <2>4. Stored' /\ NewestKept' /\ DueInv' /\ ClaimInv'
    BY <1>1, <1>4, <2>3 DEF vars, conf, Stored, NewestKept, DueInv, ClaimInv, Newer
  <2> QED BY <1>2, <2>1, <2>2, <2>4 DEF RetentionInv, Scripts
<1> QED BY <1>3, <1>4

\* The newest `retention` dumps survive every pruning, in a bucket whose pods overlap and
\* on a claim whose pods do not, whatever fails or is killed: a dump is only removed when
\* that many newer ones have been published (prune_dumps, delete-object).
THEOREM NewestSurvive ==
  ASSUME ClaimsSerial
  PROVE  Spec => []NewestKept
<1>1. Spec => []RetentionInv
  BY RetentionInit, RetentionNext, PTL DEF Spec
<1>2. RetentionInv => NewestKept
  BY DEF RetentionInv
<1> QED BY <1>1, <1>2, PTL

-----------------------------------------------------------------------------
(* What a successful run leaves. *)

\* Nobody stores a dump twice: in a bucket a second belongs to one pod, and on a claim a
\* pod that writes its dump has the current second.
FreshInv ==
    /\ dest = "s3" =>
         /\ \A p \in Pods : pod[p].pc # "new" => pod[p].stamp <= clock
         /\ \A p, q \in Pods : pod[p].pc # "new" /\ pod[q].pc # "new" /\ pod[p].stamp = pod[q].stamp
                                  => p = q
         /\ \A p \in Pods :
              pod[p].pc \in {"dump", "tar"} \/ (pod[p].pc = "upload" /\ pod[p].seen = 0)
                  => pod[p].stamp \notin published
    /\ dest = "pvc" /\ keep > 0 =>
         \A p \in Pods : pod[p].pc = "dump" => pod[p].stamp = clock

SeesInv ==
    \A p \in Pods :
        /\ pod[p].sees \subseteq published
        /\ dest = "s3" /\ pod[p].pc \in {"new", "dump", "tar", "upload", "list"} =>
             pod[p].sees = {}

\* Of the dumps a run has listed, no more than `keep` are neither gone nor due.
LeftInv ==
    keep > 0 =>
        \A p \in Pods :
            /\ pod[p].pc = "succeeded" => Cardinality(Dumps \cap pod[p].sees) <= keep
            /\ dest = "s3" /\ pod[p].pc \in {"prune", "archive"} =>
                 Cardinality((Dumps \cap pod[p].sees) \ pod[p].todo) <= keep

LEMMA FreshStep ==
  ASSUME Scripts, FreshInv, ClaimsSerial, "s3" \notin Ties, NEW p \in Pods,
         dest' = dest, keep' = keep, Begins(p) \/ (clock' = clock /\ Moves(p))
  PROVE  FreshInv'
<1>0. TypeOK /\ clock \in Nat /\ \A q \in Pods : pod[q].stamp \in Nat
  <2>1. \A q \in Pods : pod[q] \in Pod
    BY DEF Scripts, TypeOK
  <2>2. \A q \in Pods : pod[q].stamp \in 0 .. MaxStamp
    BY <2>1 DEF Pod
  <2> QED BY <2>2, ScriptTypes, BoundsAssumption DEF Scripts
<1>1. CASE Begins(p)
  <2>1. /\ published' = published /\ pod'[p].pc = "dump" /\ pod'[p].stamp = clock'
        /\ \A q \in Pods \ {p} : pod'[q] = pod[q]
    BY <1>1 DEF Begins, FilesKept
  <2>2. CASE dest = "s3"
    <3>1. clock' = clock + 1
      BY <1>1, <2>2 DEF Begins
    <3>2. /\ \A q \in Pods \ {p} : pod[q].pc # "new" => pod[q].stamp <= clock
      BY <2>2 DEF FreshInv
    <3>3. \A q \in Pods \ {p} : pod[q].pc # "new" => pod[q].stamp # clock' /\ pod[q].stamp <= clock'
      BY <1>0, <3>1, <3>2
    <3>4. clock' <= clock' /\ clock' \notin published
      BY <1>0, <3>1 DEF Scripts, Stored
    <3> QED BY <2>1, <2>2, <3>3, <3>4 DEF FreshInv
  <2>3. CASE dest = "pvc" /\ keep > 0
    <3>1. <<dest, keep>> \notin Overlapping
      BY <1>0, <2>3 DEF ClaimsSerial, TypeOK
    <3>2. \A q \in Pods : ~Live(q)
      BY <1>1, <3>1 DEF Begins
    <3>3. \A q \in Pods \ {p} : pod'[q].pc # "dump"
      BY <2>1, <3>2 DEF Live, Ended
    <3> QED BY <2>1, <2>3, <3>3 DEF FreshInv
  <2> QED BY <2>2, <2>3 DEF FreshInv
<1>2. CASE clock' = clock /\ Moves(p)
  <2>1. /\ Live(p) /\ pod'[p].stamp = pod[p].stamp /\ \A q \in Pods \ {p} : pod'[q] = pod[q]
        /\ pod[p].pc # "new"
    BY <1>2, Movers DEF Live
  <2>2. CASE dest = "s3"
    <3>1. \/ published' = published
          \/ /\ published' = published \cup {pod[p].stamp}
             /\ pod'[p].pc = "upload" /\ pod'[p].seen = 1
      BY <1>2, <2>2 DEF Moves, Dumped, Tarred, Exits, Counts, Globs, Walks, Clears, Uploads,
         Lists, Deletes, FilesKept, DumpStored, DumpRemoved, Fields
    <3>2. pod'[p].pc \in {"dump", "tar"} \/ (pod'[p].pc = "upload" /\ pod'[p].seen = 0)
            => pod[p].stamp \notin published
      <4>1. CASE Dumped(p) \/ Tarred(p)
        BY <2>2, <4>1 DEF Dumped, Tarred, FreshInv
      <4>2. CASE Uploads(p)
        BY <4>2 DEF Uploads, Fields
      <4>3. CASE \/ Exits(p) \/ Counts(p) \/ Globs(p) \/ Clears(p) \/ Lists(p)
                 \/ \E s : Walks(p, s) \/ Deletes(p, s)
        BY <4>3 DEF Exits, Counts, Globs, Walks, Clears, Lists, Deletes, Goes, Fields
      <4> QED BY <1>2, <4>1, <4>2, <4>3 DEF Moves
    <3>3. \A q \in Pods :
            pod'[q].pc \in {"dump", "tar"} \/ (pod'[q].pc = "upload" /\ pod'[q].seen = 0)
              => pod'[q].stamp \notin published'
      <4> SUFFICES ASSUME NEW q \in Pods,
                     pod'[q].pc \in {"dump", "tar"} \/ (pod'[q].pc = "upload" /\ pod'[q].seen = 0)
                   PROVE  pod'[q].stamp \notin published'
        OBVIOUS
      <4>1. CASE q = p
        BY <2>1, <3>1, <3>2, <4>1
      <4>2. CASE q # p
        <5>1. pod'[q] = pod[q] /\ pod[q].pc # "new"
          BY <2>1, <4>2
        <5>2. pod[q].stamp # pod[p].stamp
          BY <2>1, <2>2, <4>2, <5>1 DEF FreshInv
        <5>3. pod[q].stamp \notin published
          BY <2>2, <5>1 DEF FreshInv
        <5> QED BY <3>1, <5>1, <5>2, <5>3
      <4> QED BY <4>1, <4>2
    <3>4. \A q \in Pods : pod'[q].stamp = pod[q].stamp /\ (pod'[q].pc # "new" => pod[q].pc # "new")
      BY <2>1
    <3> QED BY <1>2, <2>2, <3>3, <3>4 DEF FreshInv
  <2>3. CASE dest = "pvc"
    <3>1. pod'[p].pc # "dump"
      <4>1. AfterFiles # "dump"
        BY DEF AfterFiles
      <4> QED BY <1>2, <4>1 DEF Moves, Dumped, Tarred, Exits, Counts, Globs, Walks, Clears,
             Uploads, Lists, Deletes, Goes, Fields
    <3> QED BY <1>2, <2>1, <2>3, <3>1 DEF FreshInv
  <2> QED BY <1>0, <2>2, <2>3, ScriptTypes
<1> QED BY <1>1, <1>2

LEMMA SeesStep ==
  ASSUME Scripts, DueInv, ClaimInv, SeesInv, NEW p \in Pods, dest' = dest,
         Begins(p) \/ Moves(p)
  PROVE  SeesInv'
<1>1. published \subseteq published'
  BY PublishedGrows
<1>2. \A q \in Pods \ {p} : pod'[q] = pod[q]
  BY Movers DEF Begins
<1>3. /\ pod'[p].sees \subseteq published
      /\ dest = "s3" /\ pod'[p].pc \in {"new", "dump", "tar", "upload", "list"} =>
           pod'[p].sees = {}
  <2>1. CASE Counts(p)
    BY <2>1 DEF Counts, Fields, Scripts, Stored
  <2>2. CASE Lists(p)
    <3>1. pod'[p].pc = "prune" /\ pod'[p].sees \in {Dumps, pod[p].sees}
      BY <2>2 DEF Lists, Goes, Fields
    <3> QED BY <3>1 DEF Scripts, Stored, SeesInv
  <2>3. CASE Begins(p)
    BY <2>3 DEF Begins, SeesInv
  <2>4. CASE Dumped(p) \/ Tarred(p) \/ Uploads(p)
    BY <2>4 DEF Dumped, Tarred, Uploads, Fields, SeesInv
  <2>5. CASE \/ Exits(p) \/ Globs(p) \/ Clears(p) \/ \E s : Walks(p, s) \/ Deletes(p, s)
    BY <2>5 DEF Exits, Globs, Walks, Clears, Deletes, Goes, Fields, SeesInv
  <2> QED BY <2>1, <2>2, <2>3, <2>4, <2>5 DEF Moves
<1> QED BY <1>1, <1>2, <1>3 DEF SeesInv

\* No dump that was published before comes back.
LEMMA NothingBack ==
  ASSUME Scripts, DueInv, ClaimInv, NewestKept, FreshInv, keep > 0, NEW p \in Pods,
         Begins(p) \/ Moves(p), NEW S \in SUBSET published
  PROVE  Dumps' \cap S \subseteq Dumps \cap S
<1>1. CASE DumpStored(pod[p].stamp) /\ Moves(p)
  <2>1. dest \in {"pvc", "s3"} /\ keep \in Nat /\ clock \in Nat
    BY ScriptTypes DEF Scripts
  <2>2. Dumps' = Dumps \cup {pod[p].stamp}
    BY <1>1 DEF DumpStored
  <2>3. CASE pod[p].stamp \in published
    <3>1. pod[p].stamp \in Dumps \/ Dumps' = Dumps
      <4>1. CASE Dumped(p) /\ dest = "pvc"
        <5>1. pod[p].stamp = clock
          BY <4>1 DEF Dumped, FreshInv
        <5>2. {t \in published : t > clock} = {}
          <6>1. published \subseteq 1 .. clock
            BY DEF Scripts, Stored
          <6>2. \A t \in 1 .. clock : ~(t > clock)
            BY <2>1
          <6> QED BY <6>1, <6>2
        <5>3. Cardinality({t \in published : t > clock}) < keep
          BY <2>1, <5>2, FS_EmptySet
        <5> QED BY <2>3, <5>1, <5>3 DEF NewestKept
      <4>2. CASE Dumped(p) /\ dest = "s3"
        BY <4>2 DEF Dumped, FilesKept
      <4>3. CASE Uploads(p)
        <5>1. dest = "s3"
          BY <4>3 DEF Uploads, Scripts, Stages
        <5>2. pod[p].seen # 0
          BY <2>3, <4>3, <5>1 DEF Uploads, FreshInv
        <5> QED BY <4>3, <5>2 DEF Uploads, FilesKept
      <4>4. CASE \/ Tarred(p) \/ Exits(p) \/ Counts(p) \/ Globs(p) \/ Clears(p) \/ Lists(p)
        BY <4>4 DEF Tarred, Exits, Counts, Globs, Clears, Lists, FilesKept
      <4>5. CASE \E s : Walks(p, s) \/ Deletes(p, s)
        <5>1. Dumps' \subseteq Dumps
          BY <4>5 DEF Walks, Deletes, FilesKept, DumpRemoved
        <5>2. pod[p].stamp \in Dumps'
          BY <2>2
        <5> QED BY <5>1, <5>2
      <4> QED BY <1>1, <2>1, <4>1, <4>2, <4>3, <4>4, <4>5 DEF Moves
    <3> QED BY <2>2, <3>1
  <2> QED BY <2>2, <2>3
<1>2. CASE Dumps' \subseteq Dumps
  BY <1>2
<1> QED BY <1>1, <1>2, DumpsChange DEF Begins, FilesKept, Removable, DumpRemoved

LEMMA LeftStep ==
  ASSUME Scripts, DueInv, ClaimInv, NewestKept, FreshInv, SeesInv, LeftInv, NEW p \in Pods,
         dest' = dest, keep' = keep, Begins(p) \/ Moves(p)
  PROVE  LeftInv'
<1> SUFFICES ASSUME keep > 0, NEW q \in Pods
             PROVE  /\ pod'[q].pc = "succeeded" => Cardinality(Dumps' \cap pod'[q].sees) <= keep
                    /\ dest = "s3" /\ pod'[q].pc \in {"prune", "archive"} =>
                         Cardinality((Dumps' \cap pod'[q].sees) \ pod'[q].todo) <= keep
  BY DEF LeftInv
<1>0. /\ TypeOK /\ keep \in Nat \ {0} /\ Dumps \in SUBSET Stamp /\ Cardinality(Dumps) \in Nat
      /\ dest \in {"pvc", "s3"}
  BY ScriptTypes, DumpsType DEF Scripts
<1> DEFINE D == Dumps \cap pod[q].sees
           E == Dumps' \cap pod[q].sees
<1>1. E \subseteq D /\ D \in SUBSET Stamp
  BY <1>0, NothingBack DEF SeesInv
<1>2. ASSUME NEW S \in SUBSET Stamp, NEW T \in SUBSET S, Cardinality(S) <= keep
      PROVE  Cardinality(T) <= keep
  <2>1. Cardinality(T) <= Cardinality(S) /\ Cardinality(S) \in Nat /\ Cardinality(T) \in Nat
    BY StampSets
  <2> QED BY <1>0, <1>2, <2>1
<1>3. Cardinality(D) <= keep => Cardinality(E) <= keep
  <2> HIDE DEF D, E
  <2> QED BY <1>1, <1>2
<1>4. \A T : Cardinality(D \ T) <= keep => Cardinality(E \ T) <= keep
  <2> HIDE DEF D, E
  <2> SUFFICES ASSUME NEW T, Cardinality(D \ T) <= keep PROVE Cardinality(E \ T) <= keep
    OBVIOUS
  <2>1. D \ T \in SUBSET Stamp /\ E \ T \in SUBSET (D \ T)
    BY <1>1
  <2> QED BY <1>2, <2>1
<1>5. CASE /\ pod'[q].pc = pod[q].pc \/ (pod'[q].pc = "prune" /\ pod[q].pc = "archive")
           /\ pod'[q].sees = pod[q].sees /\ pod'[q].todo = pod[q].todo
  BY <1>3, <1>4, <1>5 DEF LeftInv
<1>6. CASE q # p
  <2>1. pod'[q] = pod[q]
    BY <1>6, Movers DEF Begins
  <2> QED BY <1>5, <2>1
<1>7. CASE q = p /\ Exits(p)
  <2>1. /\ Dumps' = Dumps /\ pod'[p].sees = pod[p].sees
        /\ pod'[p].pc \in {"failed", "killed", "succeeded"}
        /\ pod'[p].pc = "succeeded" => pod[p].pc = "prune" /\ pod[p].todo = {}
    BY <1>7 DEF Exits, Goes, Fields, FilesKept
  <2>2. pod'[p].pc = "succeeded" => Cardinality(Dumps \cap pod[p].sees) <= keep
    <3> SUFFICES ASSUME pod[p].pc = "prune", pod[p].todo = {}
                 PROVE  Cardinality(Dumps \cap pod[p].sees) <= keep
      BY <2>1
    <3>1. CASE dest = "s3"
      BY <3>1 DEF LeftInv
    <3>2. CASE dest = "pvc"
      <4>1. Dumps = {} \/ Cardinality(Dumps) <= keep
        BY <3>2 DEF ClaimInv
      <4>2. Cardinality(Dumps) <= keep
        BY <1>0, <4>1, FS_EmptySet
      <4> QED BY <1>0, <1>2, <4>2
    <3> QED BY <1>0, <3>1, <3>2
  <2> QED BY <1>7, <2>1, <2>2
<1>8. CASE q = p /\ Lists(p)
  <2>1. pod'[p].pc = "prune" /\ Dumps' = Dumps /\ pod[p].pc = "list"
    BY <1>8 DEF Lists, Goes, Fields, FilesKept
  <2>2. CASE pod'[p].sees = Dumps /\ pod'[p].todo = Excess(Dumps)
    <3>1. (Dumps \cap Dumps) \ Excess(Dumps) = Dumps \ Excess(Dumps)
      OBVIOUS
    <3>2. Cardinality(Dumps \ Excess(Dumps)) <= keep
      BY <1>0, FewKept
    <3> QED BY <1>8, <2>1, <2>2, <3>1, <3>2
  <2>3. CASE Goes(p, "prune")
    <3>1. dest = "s3" => pod'[p].sees = {}
      BY <2>1, <2>3 DEF Goes, Fields, SeesInv
    <3>2. \A T : ({} \ T) = {} /\ Dumps' \cap {} = {}
      OBVIOUS
    <3>3. Cardinality({}) <= keep
      BY <1>0, FS_EmptySet
    <3> QED BY <1>8, <2>1, <3>1, <3>2, <3>3
  <2> QED BY <1>8, <2>2, <2>3 DEF Lists, Fields
<1>9. ASSUME q = p, NEW s, Deletes(p, s)
      PROVE  /\ pod'[q].pc = "archive"
             /\ Cardinality((Dumps' \cap pod'[q].sees) \ pod'[q].todo) <= keep
  <2>1. /\ dest = "s3" /\ pod[p].pc = "prune" /\ Dumps' = Dumps \ {s}
        /\ pod'[p].pc = "archive" /\ pod'[p].sees = pod[p].sees
        /\ pod'[p].todo = pod[p].todo \ {s}
    BY <1>9 DEF Deletes, DumpRemoved, Fields
  <2>2. Cardinality(D \ pod[p].todo) <= keep
    BY <1>9, <2>1 DEF LeftInv
  <2>3. E \ (pod[p].todo \ {s}) \subseteq D \ pod[p].todo /\ D \ pod[p].todo \in SUBSET Stamp
    BY <1>1, <2>1
  <2>4. Cardinality(E \ (pod[p].todo \ {s})) <= keep
    <3> HIDE DEF D, E
    <3> QED BY <1>2, <2>2, <2>3
  <2> QED BY <1>9, <2>1, <2>4
<1>10. CASE q = p /\ (Begins(p) \/ Dumped(p) \/ Tarred(p) \/ Counts(p) \/ Uploads(p))
  <2>1. AfterFiles \in {"upload", "count", "glob"}
    BY DEF AfterFiles
  <2>2. pod'[p].pc \notin {"succeeded", "prune", "archive"}
    BY <1>10, <2>1 DEF Begins, Dumped, Tarred, Counts, Uploads, Fields
  <2> QED BY <1>10, <2>2
<1>11. CASE q = p /\ (Globs(p) \/ \E s : Walks(p, s))
  <2>1. dest = "pvc" /\ pod'[p].pc \in {"prune", "archive"}
    BY <1>11 DEF Globs, Walks, Fields, Scripts, Stages
  <2> QED BY <1>11, <2>1
<1>12. CASE q = p /\ Clears(p)
  <2>1. /\ pod[p].pc = "archive" /\ pod'[p].pc = "prune"
        /\ pod'[p].sees = pod[p].sees /\ pod'[p].todo = pod[p].todo
    BY <1>12 DEF Clears, Goes, Fields
  <2> QED BY <1>5, <1>12, <2>1
<1> QED BY <1>6, <1>7, <1>8, <1>9, <1>10, <1>11, <1>12 DEF Moves

PrunedInv == FreshInv /\ SeesInv /\ LeftInv

\* A successful run leaves at most `retention` of the dumps it has counted or listed, also
\* when other pods store dumps afterwards; pods of a claim with a retention run one at a
\* time, and two pods of a bucket do not start in the same second.
THEOREM OldOnesGo ==
  ASSUME ClaimsSerial, "s3" \notin Ties
  PROVE  Spec => []OldOnesPruned
<1>1. Init => PrunedInv
  <2> SUFFICES ASSUME Init PROVE PrunedInv OBVIOUS
  <2>1. \A p \in Pods : pod[p].pc = "new" /\ pod[p].sees = {}
    BY DEF Init, NewPod
  <2> QED BY <2>1 DEF PrunedInv, FreshInv, SeesInv, LeftInv
<1>2. RetentionInv /\ PrunedInv /\ [Next]_vars => PrunedInv'
  <2> SUFFICES ASSUME RetentionInv, PrunedInv, [Next]_vars PROVE PrunedInv'
    OBVIOUS
  <2>1. /\ Scripts /\ TypeOK /\ Writers /\ Stages /\ DueInv /\ ClaimInv /\ NewestKept
        /\ FreshInv /\ SeesInv /\ LeftInv
    BY DEF RetentionInv, Scripts, PrunedInv
  <2>2. CASE Next
    <3>1. PICK p \in Pods : Start(p) \/ Script(p) \/ CommandFails(p) \/ ListFails(p) \/ Kill(p)
      BY <2>2 DEF Next
    <3>2. dest' = dest /\ keep' = keep /\ (Begins(p) \/ (clock' = clock /\ Moves(p)))
      BY <2>1, <3>1, StepEffect
    <3>3. FreshInv'
      BY <2>1, <3>2, FreshStep
    <3>4. SeesInv' /\ LeftInv'
      BY <2>1, <3>2, SeesStep, LeftStep
    <3> QED BY <3>3, <3>4 DEF PrunedInv
  <2>3. CASE UNCHANGED vars
    <3>1. Dumps' = Dumps
      BY <2>3 DEF vars, Dumps, Present
    <3> QED BY <2>1, <2>3, <3>1 DEF vars, conf, PrunedInv, FreshInv, SeesInv, LeftInv
  <2> QED BY <2>2, <2>3
<1>3. PrunedInv => OldOnesPruned
  BY DEF PrunedInv, LeftInv, OldOnesPruned
<1> QED BY <1>1, <1>2, <1>3, RetentionInit, RetentionNext, PTL DEF Spec

-----------------------------------------------------------------------------
(* Archives and leftovers. *)

\* In a bucket there are no archives (the manifest's last line is never read), and on a
\* claim an archive is written while its dump is there.
ArchiveInv ==
    /\ dest = "s3" => Archives = {}
    /\ dest = "pvc" => \A p \in Pods : pod[p].pc = "tar" => pod[p].stamp \in Dumps
    /\ ArchiveFollowsDump

LEMMA TarringStep ==
  ASSUME Scripts, DueInv, ClaimInv, ArchiveInv, NEW p \in Pods, dest' = dest,
         Begins(p) \/ Moves(p)
  PROVE  dest = "pvc" => \A q \in Pods : pod'[q].pc = "tar" => pod'[q].stamp \in Dumps'
<1> SUFFICES ASSUME dest = "pvc", NEW q \in Pods, pod'[q].pc = "tar"
             PROVE  pod'[q].stamp \in Dumps'
  OBVIOUS
<1>1. CASE q = p
  <2>1. Dumped(p)
    <3>1. AfterFiles # "tar"
      BY DEF AfterFiles
    <3> QED BY <1>1, <3>1 DEF Begins, Moves, Tarred, Exits, Counts, Globs, Walks, Clears,
           Uploads, Lists, Deletes, Goes, Fields
  <2> QED BY <1>1, <2>1 DEF Dumped, DumpStored, Fields
<1>2. CASE q # p
  <2>1. pod'[q] = pod[q] /\ Live(q)
    BY <1>2, Movers DEF Begins, Live, Ended
  <2>2. pod[q].stamp \in Dumps
    BY <2>1 DEF ArchiveInv
  <2>3. CASE Begins(p)
    BY <2>1, <2>2, <2>3 DEF Begins, FilesKept
  <2>4. CASE Moves(p)
    <3>1. ~(keep > 0)
      BY <1>2, <2>1, <2>4, Movers DEF Scripts, Alone
    <3>2. Dumps \subseteq Dumps'
      BY <2>4, <3>1, DumpsChange DEF Removable, DumpStored
    <3> QED BY <2>1, <2>2, <3>2
  <2> QED BY <2>3, <2>4
<1> QED BY <1>1, <1>2

LEMMA ArchiveStep ==
  ASSUME Scripts, DueInv, ClaimInv, ArchiveInv, NEW p \in Pods, dest' = dest,
         Begins(p) \/ Moves(p)
  PROVE  ArchiveInv'
<1>0. dest \in {"pvc", "s3"}
  BY ScriptTypes DEF Scripts
<1>1. CASE dest = "s3"
  <2>1. Archives' \subseteq Archives
    BY <1>1 DEF Begins, Moves, Dumped, Tarred, Exits, Counts, Globs, Walks, Clears, Uploads,
         Lists, Deletes, FilesKept, DumpStored, DumpRemoved
  <2>2. Archives' = {}
    BY <1>1, <2>1 DEF ArchiveInv
  <2>3. published' \in SUBSET Stamp
    BY PublishedGrows
  <2> QED BY <1>1, <2>2, <2>3 DEF ArchiveInv, ArchiveFollowsDump, Archives
<1>2. CASE dest = "pvc"
  <2> DEFINE Left(q, s) == pod[q].victim = s /\ pod[q].pc \in {"archive", "failed", "killed"}
             LeftAfter(q, s) == pod'[q].victim = s /\ pod'[q].pc \in {"archive", "failed", "killed"}
  <2>1. \A q \in Pods : pod'[q].pc = "tar" => pod'[q].stamp \in Dumps'
    BY <1>2, TarringStep
  <2>2. published \in SUBSET Stamp /\ published' \in SUBSET Stamp
    BY PublishedGrows, ScriptTypes DEF Scripts
  <2>3. \A s \in published : s \in Archives /\ s \notin Dumps => \E q \in Pods : Left(q, s)
    BY <2>2 DEF ArchiveInv, ArchiveFollowsDump, Archives
  <2> SUFFICES ASSUME NEW s \in published', s \in Archives', s \notin Dumps'
               PROVE  \E q \in Pods : LeftAfter(q, s)
    BY <1>2, <2>1, <2>2 DEF ArchiveInv, ArchiveFollowsDump, Archives
  <2>4. \A q \in Pods \ {p} : Left(q, s) => LeftAfter(q, s)
    BY Movers DEF Begins
  <2>5. CASE /\ s \in published /\ s \in Archives /\ s \notin Dumps
             /\ Left(p, s) => LeftAfter(p, s)
    <3>1. PICK q \in Pods : Left(q, s)
      BY <2>3, <2>5
    <3>2. LeftAfter(q, s)
      <4> HIDE DEF Left, LeftAfter
      <4> QED BY <2>4, <2>5, <3>1
    <3> QED BY <3>2
  <2>6. CASE Begins(p) \/ Counts(p) \/ Globs(p)
    BY <2>5, <2>6 DEF Begins, Counts, Globs, FilesKept
  <2>7. CASE Dumped(p)
    BY <1>2, <2>5, <2>7 DEF Dumped, DumpStored
  <2>8. CASE Tarred(p)
    <3>1. pod[p].stamp \in Dumps
      BY <1>2, <2>8 DEF Tarred, ArchiveInv
    <3> QED BY <1>2, <2>5, <2>8, <3>1 DEF Tarred
  <2>9. CASE Exits(p)
    <3>1. s \in published /\ s \in Archives /\ s \notin Dumps
      BY <2>9 DEF Exits, FilesKept
    <3>2. Left(p, s) => LeftAfter(p, s)
      BY <2>9 DEF Exits, Goes, Fields, Live, Ended
    <3> QED BY <2>5, <3>1, <3>2
  <2>10. CASE Clears(p)
    <3>1. /\ s \in published /\ s \in Archives /\ s \notin Dumps /\ pod[p].victim # s
      BY <2>10 DEF Clears
    <3> QED BY <2>5, <3>1
  <2>11. ASSUME NEW t, Walks(p, t) PROVE \E q \in Pods : LeftAfter(q, s)
    <3>1. pod[p].pc = "prune" /\ s \in published /\ s \in Archives
      BY <2>11 DEF Walks, FilesKept, DumpRemoved
    <3>2. CASE s \notin Dumps
      BY <2>5, <3>1, <3>2
    <3>3. CASE s \in Dumps
      <4>1. s = t /\ LeftAfter(p, s)
        BY <2>11, <3>3 DEF Walks, FilesKept, DumpRemoved, Fields
      <4> QED BY <4>1
    <3> QED BY <3>2, <3>3
  <2>12. ~(Uploads(p) \/ Lists(p) \/ \E t : Deletes(p, t))
    BY <1>2 DEF Uploads, Lists, Deletes, Scripts, Stages
  <2> QED BY <2>6, <2>7, <2>8, <2>9, <2>10, <2>11, <2>12 DEF Moves
<1> QED BY <1>0, <1>1, <1>2

\* An archive whose dump was pruned is left only by a run that failed or was killed
\* between the two removals; pods of a claim with a retention run one at a time.
THEOREM ArchivesFollow ==
  ASSUME ClaimsSerial
  PROVE  Spec => []ArchiveFollowsDump
<1>1. Init => ArchiveInv
  <2> SUFFICES ASSUME Init PROVE ArchiveInv OBVIOUS
  <2>1. \A p \in Pods : pod[p].pc = "new"
    BY DEF Init, NewPod
  <2>2. published = {} /\ \A s \in Stamp : <<s, "filestore">> \in Name
    BY DEF Init, Name, Kind
  <2>3. Archives = {}
    BY <2>2 DEF Init, Archives, Present
  <2> QED BY <2>1, <2>2, <2>3 DEF ArchiveInv, ArchiveFollowsDump
<1>2. RetentionInv /\ ArchiveInv /\ [Next]_vars => ArchiveInv'
  <2> SUFFICES ASSUME RetentionInv, ArchiveInv, [Next]_vars PROVE ArchiveInv'
    OBVIOUS
  <2>1. /\ Scripts /\ TypeOK /\ Writers /\ Stages /\ DueInv /\ ClaimInv /\ ArchiveInv
    BY DEF RetentionInv, Scripts
  <2>2. CASE Next
    <3>1. PICK p \in Pods : Start(p) \/ Script(p) \/ CommandFails(p) \/ ListFails(p) \/ Kill(p)
      BY <2>2 DEF Next
    <3> QED BY <2>1, <3>1, StepEffect, ArchiveStep
  <2>3. CASE UNCHANGED vars
    <3>1. Dumps' = Dumps /\ Archives' = Archives /\ \A n : Present(n)' <=> Present(n)
      BY <2>3 DEF vars, Dumps, Archives, Present
    <3> QED BY <2>1, <2>3, <3>1 DEF vars, conf, ArchiveInv, ArchiveFollowsDump
  <2> QED BY <2>2, <2>3
<1>3. ArchiveInv => ArchiveFollowsDump
  BY DEF ArchiveInv
<1> QED BY <1>1, <1>2, <1>3, RetentionInit, RetentionNext, PTL DEF Spec

\* Who had ended before a pod started stays ended; a bucket has no temporary names.
LeftoverInv ==
    /\ \A q \in Pods : \A p \in pod[q].after : pod[p].pc \in Ended
    /\ dest = "s3" => \A n \in Name : partial[n] = {}
    /\ LeftoversRemoved

\* Who writes a temporary file is live; who succeeds leaves none on a claim.
LEMMA PartialEffect ==
  ASSUME TypeOK, Stages, NEW p \in Pods,
         Start(p) \/ Script(p) \/ CommandFails(p) \/ ListFails(p) \/ Kill(p)
  PROVE  /\ \A n \in Name : partial'[n] \subseteq partial[n] \cup {p}
         /\ dest = "s3" => partial' = partial
         /\ dest = "pvc" /\ pod'[p].pc = "succeeded" => \A n \in Name : partial'[n] = {}
         /\ pod[p].pc \notin Ended
         /\ ~Start(p) => pod'[p].after = pod[p].after
<1>0. pod \in [Pods -> Pod] /\ pod[p] \in Pod /\ partial \in [Name -> SUBSET Pods]
      /\ dest \in {"pvc", "s3"}
  BY ScriptTypes DEF TypeOK
<1>1. ASSUME NEW outcome, Exit(p, outcome)
      PROVE  /\ \A n \in Name : partial'[n] \subseteq partial[n]
             /\ dest = "s3" => partial' = partial
             /\ pod'[p].after = pod[p].after /\ pod'[p].pc = outcome
             /\ dest = "pvc" /\ pod[p].pc \in Pruning => \A n \in Name : partial'[n] = {}
  BY <1>0, <1>1 DEF Exit, TrapSet, Pod
<1>2. CASE CommandFails(p) \/ RenameFails(p)
  <2>1. Exit(p, "failed")
    BY <1>2 DEF CommandFails, RenameFails
  <2>2. pod[p].pc \notin Ended
    BY <1>2 DEF CommandFails, RenameFails, Live, Ended
  <2> QED BY <1>1, <2>1, <2>2
<1>3. CASE PruneEnds(p) \/ (Glob(p) /\ ~(keep > 0))
  <2>1. Exit(p, "succeeded") /\ pod[p].pc \in Pruning /\ pod[p].pc \notin Ended
    BY <1>3 DEF PruneEnds, Glob, Pruning, Ended
  <2> QED BY <1>1, <2>1
<1>4. CASE Start(p)
  <2>1. pod'[p].pc = "dump" /\ pod[p].pc = "new"
    BY <1>4, BeginsEffect DEF Begins
  <2>2. PICK s : IF dest = "pvc" THEN Open(p, <<s, "dump">>) ELSE UNCHANGED <<files, partial>>
    BY <1>4 DEF Start
  <2>3. /\ \A n \in Name : partial'[n] \subseteq partial[n] \cup {p}
        /\ dest = "s3" => partial' = partial
    BY <1>0, <2>2 DEF Open
  <2> QED BY <1>4, <2>1, <2>3 DEF Ended
<1>5. CASE DumpEnds(p)
  <2>1. pod'[p].after = pod[p].after /\ pod'[p].pc \in {"tar", AfterFiles}
        /\ pod[p].pc = "dump"
    BY <1>0, <1>5 DEF DumpEnds, Pod
  <2>2. /\ \A n \in Name : partial'[n] \subseteq partial[n] \cup {p}
        /\ dest = "s3" => partial' = partial
    BY <1>0, <1>5 DEF DumpEnds
  <2> QED BY <2>1, <2>2 DEF AfterFiles, Ended
<1>6. CASE TarEnds(p)
  <2>1. pod'[p].after = pod[p].after /\ pod'[p].pc = AfterFiles /\ pod[p].pc = "tar"
    BY <1>0, <1>6 DEF TarEnds, Pod
  <2>2. /\ \A n \in Name : partial'[n] \subseteq partial[n]
        /\ dest = "s3" => partial' = partial
    BY <1>0, <1>6 DEF TarEnds
  <2> QED BY <2>1, <2>2 DEF AfterFiles, Ended
<1>7. CASE Upload(p)
  <2>1. dest = "s3" /\ pod[p].pc \notin Ended /\ partial' = partial
    BY <1>7 DEF Upload, Stages, Ended
  <2>2. pod'[p].after = pod[p].after
    BY <1>0, <1>7 DEF Upload, Pod
  <2> QED BY <2>1, <2>2
<1>8. CASE \/ Count(p) \/ (Glob(p) /\ keep > 0) \/ Walk(p) \/ RemoveArchive(p)
           \/ List(p) \/ ListFails(p) \/ DeleteObject(p) \/ Kill(p)
  <2>1. pod[p].pc \notin Ended /\ partial' = partial
    BY <1>8 DEF Count, Glob, Walk, RemoveArchive, List, ListFails, DeleteObject, Kill,
       Live, Ended
  <2>2. pod'[p].after = pod[p].after /\ pod'[p].pc \in {"glob", "prune", "archive", "killed"}
    <3>1. CASE Count(p) \/ (Glob(p) /\ keep > 0) \/ RemoveArchive(p) \/ Kill(p)
      BY <1>0, <3>1 DEF Count, Glob, RemoveArchive, Kill, Pod
    <3>2. CASE List(p) \/ ListFails(p)
      BY <1>0, <3>2 DEF List, ListFails, Pod
    <3>3. CASE Walk(p)
      BY <1>0, <3>3 DEF Walk, Pod
    <3>4. CASE DeleteObject(p)
      BY <1>0, <3>4 DEF DeleteObject, Pod
    <3> QED BY <1>8, <3>1, <3>2, <3>3, <3>4
  <2> QED BY <2>1, <2>2
<1> QED BY <1>2, <1>3, <1>4, <1>5, <1>6, <1>7, <1>8 DEF Script

LEMMA LeftoverStep ==
  ASSUME TypeOK, Stages, LeftoverInv, NEW p \in Pods, dest' = dest,
         Start(p) \/ Script(p) \/ CommandFails(p) \/ ListFails(p) \/ Kill(p),
         \A q \in Pods \ {p} : pod'[q] = pod[q]
  PROVE  LeftoverInv'
<1>0. /\ partial \in [Name -> SUBSET Pods] /\ dest \in {"pvc", "s3"}
      /\ \A q \in Pods : pod[q].after \subseteq Pods
  <2>1. \A q \in Pods : pod[q] \in Pod
    BY DEF TypeOK
  <2> QED BY <2>1, ScriptTypes DEF TypeOK, Pod
<1>1. pod[p].pc \notin Ended /\ \A q \in Pods : p \notin pod[q].after
  BY PartialEffect DEF LeftoverInv
<1>2. \A q \in Pods :
        /\ q # p => pod'[q].after = pod[q].after
        /\ ~Start(p) => pod'[q].after = pod[q].after
  BY PartialEffect
<1>3. ASSUME Start(p)
      PROVE  pod'[p].after = {q \in Pods : pod[q].pc \in Ended} /\ pod'[p].pc = "dump"
  <2>1. pod \in [Pods -> Pod] /\ pod[p] \in Pod
    BY DEF TypeOK
  <2>2. PICK s : pod' = [pod EXCEPT ![p].pc = "dump", ![p].stamp = s,
                                    ![p].after = {q \in Pods : pod[q].pc \in Ended}]
    BY <1>3 DEF Start
  <2> DEFINE E == {q \in Pods : pod[q].pc \in Ended}
  <2> HIDE DEF E
  <2>3. pod'[p].after = E /\ pod'[p].pc = "dump"
    BY <2>1, <2>2 DEF Pod, E
  <2> QED BY <2>3 DEF E
<1>4. \A q \in Pods : pod[q].pc \in Ended => pod'[q].pc \in Ended
  BY <1>1
<1>5. \A q \in Pods : \A r \in pod'[q].after : pod'[r].pc \in Ended
  <2> SUFFICES ASSUME NEW q \in Pods, NEW r \in pod'[q].after PROVE pod'[r].pc \in Ended
    OBVIOUS
  <2>1. CASE q = p /\ Start(p)
    BY <1>3, <1>4, <2>1
  <2>2. CASE ~(q = p /\ Start(p))
    BY <1>0, <1>2, <1>4, <2>2 DEF LeftoverInv
  <2> QED BY <2>1, <2>2
<1>6. dest = "s3" => \A n \in Name : partial'[n] = {}
  BY PartialEffect DEF LeftoverInv
<1>7. LeftoversRemoved'
  <2> SUFFICES ASSUME NEW n \in Name, NEW r \in partial'[n], NEW q \in Pods,
                      pod'[q].pc = "succeeded", r \in pod'[q].after
               PROVE  FALSE
    BY DEF LeftoversRemoved
  <2>1. dest = "pvc"
    BY <1>0, <1>6
  <2>2. q # p
    BY <2>1, PartialEffect
  <2>3. pod[q].pc = "succeeded" /\ r \in pod[q].after
    BY <1>2, <2>2
  <2>4. r \in partial[n]
    BY <1>1, <2>3, PartialEffect
  <2> QED BY <2>3, <2>4 DEF LeftoverInv, LeftoversRemoved
<1> QED BY <1>5, <1>6, <1>7 DEF LeftoverInv

\* Once a run has succeeded, no temporary file of a run that had ended before it started
\* is on the claim (the trap set by buildBackupPVCScript), for any overlap and retention.
\* It rests on the type invariant, the single writer of a temporary name and the stages of
\* the scripts.
THEOREM LeftoversGo == Spec => []LeftoversRemoved
<1> DEFINE Inv == TypeOK /\ Writers /\ Stages /\ LeftoverInv
<1>1. Init => Inv
  <2> SUFFICES ASSUME Init PROVE Inv OBVIOUS
  <2>1. \A p \in Pods : pod[p].pc = "new" /\ pod[p].seen = 0 /\ pod[p].after = {}
    BY DEF Init, NewPod
  <2>2. \A n \in Name : partial[n] = {}
    BY DEF Init
  <2>3. Stages /\ LeftoverInv
    BY <2>1, <2>2 DEF Stages, LeftoverInv, LeftoversRemoved
  <2> QED BY <2>3, TornInit DEF TornInv
<1>2. Inv /\ [Next]_vars => Inv'
  <2> SUFFICES ASSUME TypeOK, Writers, Stages, LeftoverInv, [Next]_vars PROVE Inv'
    OBVIOUS
  <2>1. TypeOK'
    BY TypeNext
  <2>2. CASE Next
    <3>1. PICK p \in Pods : Start(p) \/ Script(p) \/ CommandFails(p) \/ ListFails(p) \/ Kill(p)
      BY <2>2 DEF Next
    <3>2. Writers'
      BY <3>1, WritersStart, WritersDumpEnds, WritersQuiet DEF Script
    <3>3. dest' = dest /\ keep' = keep /\ (Begins(p) \/ Moves(p))
      BY <3>1, StepEffect
    <3>4. \A q \in Pods \ {p} : pod'[q] = pod[q]
      BY <3>3, Movers DEF Begins
    <3>5. Stages' /\ LeftoverInv'
      BY <3>1, <3>3, <3>4, StagesStep, LeftoverStep
    <3> QED BY <2>1, <3>2, <3>5
  <2>3. CASE UNCHANGED vars
    <3>1. Writers' /\ Stages'
      BY <2>3 DEF vars, conf, Writers, OwnSecond, WritersStarted, SoleWriter, Live, Stages
    <3>2. LeftoverInv'
      BY <2>3 DEF vars, conf, LeftoverInv, LeftoversRemoved
    <3> QED BY <2>1, <3>1, <3>2
  <2> QED BY <2>2, <2>3
<1>3. Inv => LeftoversRemoved
  BY DEF LeftoverInv
<1> QED BY <1>1, <1>2, <1>3, PTL DEF Spec
=============================================================================
