-------------------------- MODULE JobQueueContract --------------------------
(***************************************************************************)
(* JobQueue implements JobContract when Env is empty.  A claimed or running*)
(* row without a pending execution (its process died) is pending to the    *)
(* contract: whether it carries a lease that still has to run out is the   *)
(* queue's own business.                                                   *)
(***************************************************************************)
EXTENDS JobQueue

Executing == {r.job : r \in runs}

PhaseOf(j) ==
    CASE status[j] \in {"queued", "retry_wait"} -> "pending"
      [] status[j] \in Active -> IF j \in Executing THEN "active" ELSE "pending"
      [] OTHER -> status[j]

Contract == INSTANCE JobContract WITH
    phase <- [j \in Jobs |-> PhaseOf(j)],
    busy <- Executing

(* Every step of the queue is a step of the contract or leaves it unchanged:
   one executor per job, terminal phases left on request only.             *)
ImplementsContract == Contract!Spec

(* The contract's fairness too: a pending job is eventually taken and an
   executor's job is eventually settled, across crash, lease expiry,
   restart and retry.                                                      *)
KeepsContract == Contract!FairSpec
=============================================================================
