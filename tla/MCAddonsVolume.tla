--------------------------- MODULE MCAddonsVolume ---------------------------
(* Two addons whose repositories share a module name, for TLC. *)
EXTENDS AddonsVolume

\* Addon 1 drops module 2 and takes it back; addon 2 has module 2 from its second
\* commit on.
Repositories ==
    [r \in Addons \X Commits |->
       CASE r[1] = 1 -> IF r[2] = 1 THEN {1, 2} ELSE {1}
         [] OTHER    -> IF r[2] = 1 THEN {3} ELSE {2, 3}]
=============================================================================
