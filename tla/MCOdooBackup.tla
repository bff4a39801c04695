---------------------------- MODULE MCOdooBackup ----------------------------
(* Small instances of OdooBackup for TLC. *)
EXTENDS OdooBackup

\* Every backup names the same instance.
OneInstance == [n \in Names |-> CHOOSE i \in Instances : TRUE]

Plan(schedule, suspend, body) == [schedule |-> schedule, suspend |-> suspend, body |-> body]

\* One-shot backups; the first names its database, the others inherit it.
OneShots == [n \in Names |-> {Plan("", FALSE, IF n = 1 THEN "own" ELSE "inherit")}]

\* A scheduled backup with the specs it is edited to, or a one-shot one.
Schedules == [n \in Names |->
    {Plan("daily", FALSE, body) : body \in {"own", "other", "inherit", "invalid"}}
      \cup {Plan("refused", FALSE, "other"), Plan("hourly", TRUE, "own"),
            Plan("", FALSE, "inherit")}]
=============================================================================
