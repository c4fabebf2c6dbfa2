------------------------- MODULE JobQueueInvariants -------------------------
(***************************************************************************)
(* Inductive strengthenings of the invariants of JobQueue, in the order    *)
(* JobQueueProofs establishes them.  Each relies on the ones before it.    *)
(***************************************************************************)
EXTENDS JobQueue

(* One process at a time, and only a process that has finished starting has
   executions or is in the middle of a run of code ("overlap" \notin Env).   *)
Solo ==
    /\ \A d, e \in Daemons : Live(d) /\ Live(e) => d = e
    /\ \A r \in runs : proc[r.daemon] \in {"up", "stopping", "exiting"}
    /\ \A d \in Daemons : loop[d] # Idle => proc[d] \in {"up", "stopping", "exiting"}
    /\ \A d \in Daemons : loop[d].pc = "deny" => proc[d] = "up"

(* The statement before MapRoot has written a claim and a lease. *)
ClaimBeforeRoot ==
    \A d \in Daemons : loop[d].pc = "root" =>
        /\ owner[loop[d].run.job] # NoDaemon
        /\ lease[loop[d].run.job] # NoLease

(* The root a pending execution works for is the one its job is mapped to,
   except between the claim and MapRoot, when the job has none yet.        *)
RootKnown ==
    \A r \in runs :
        \/ root[r.job] = r.root
        \/ /\ loop[r.daemon].pc \in {"start", "root"}
           /\ loop[r.daemon].run = r
           /\ root[r.job] = NoRoot

MapsOnce ==
    \A d \in Daemons :
        /\ loop[d].pc \in {"start", "root", "write"} =>
              loop[d].run \in runs /\ loop[d].run.daemon = d
        /\ loop[d].pc = "start" => (loop[d].run.mapped <=> root[loop[d].run.job] # NoRoot)
        /\ loop[d].pc = "root" => root[loop[d].run.job] = NoRoot

RootInv == RootKnown /\ MapsOnce

(* No job is cancelled under a run of code that is about to write it
   ("cli" \notin Env as well).                                             *)
NotCancelled ==
    \A d \in Daemons :
        /\ loop[d].pc \in {"start", "root", "write"} => status[loop[d].run.job] # "cancelled"
        /\ loop[d].pc = "deny" => status[loop[d].job] # "cancelled"

(* A run of code that is about to write a job works for a pending execution
   whose job is still active, or denies a job that is still waiting.
   (Env = {}, like the rest.)                                              *)
WritesOwnJob ==
    \A d \in Daemons :
        /\ loop[d].pc \in {"start", "root", "write"} =>
              /\ loop[d].run \in runs
              /\ loop[d].run.daemon = d
              /\ status[loop[d].run.job] \in Active
        /\ loop[d].pc = "deny" => status[loop[d].job] = "waiting"

ExclusiveInv == ClaimHeld /\ SingleExecution /\ WritesOwnJob

(* A job that can be claimed, now or later, still has an attempt left. *)
Unsettled == {"absent", "queued", "retry_wait", "waiting"} \cup Active
AttemptsLeft ==
    \A j \in Jobs : status[j] \in Unsettled /\ RunsFor(j) = {}
                      => attempt[j] < MaxAttempts + interrupted[j]

BudgetInv ==
    /\ AttemptBudget
    /\ AttemptsLeft
    /\ \A r \in runs : r.attempt > 0
=============================================================================
