---------------------------- MODULE MCJobQueue ----------------------------
(* Small instances of JobQueue for TLC. *)
EXTENDS JobQueueContract, JobQueueInvariants, TLC

CONSTANT j1

EqualPriority(j) == 0
FirstHigher(j) == IF j = j1 THEN 1 ELSE 0

NoCircumstances == {}
OneDaemon == {"cli", "late", "reopen"}
CliBeside == {"cli"}

Interchangeable == Permutations(Daemons)
=============================================================================
