--------------------------- MODULE MCBackupStore ---------------------------
(* Small instances of BackupStore; the pods are interchangeable. *)
EXTENDS BackupStore, TLC

\* Backups overlap in a bucket at every retention, on a claim only while none is set.
MCOverlapping == (Destinations \cap {"s3"}) \X Retentions \cup {<<"pvc", 0>>}
NoOverlap == {}

PodSymmetry == Permutations(Pods)
=============================================================================
