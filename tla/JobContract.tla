---------------------------- MODULE JobContract ----------------------------
(***************************************************************************)
(* What the job queue promises to whoever enqueues work, without leases,   *)
(* clocks, processes or attempts: a job is executed by at most one         *)
(* executor, an executor that disappears gives the job back, a terminal    *)
(* phase is left only on an operator's request, and nothing stays pending  *)
(* or executing for ever.  JobQueueContract shows that JobQueue keeps it.  *)
(***************************************************************************)
CONSTANT Jobs

VARIABLES
    phase,   \* [Jobs -> Phase]
    busy     \* the jobs an executor is working on

vars == <<phase, busy>>

Phase == {"absent", "pending", "active", "waiting", "completed", "failed", "cancelled"}

Init ==
    /\ phase = [j \in Jobs |-> "absent"]
    /\ busy = {}

Move(j, from, to) ==
    /\ phase[j] \in from
    /\ phase' = [phase EXCEPT ![j] = to]

Submit(j) == Move(j, {"absent"}, "pending") /\ UNCHANGED busy

Begin(j) ==
    /\ j \notin busy
    /\ Move(j, {"pending"}, "active")
    /\ busy' = busy \cup {j}

(* The executor reports: done, or to be tried again, or waiting for a decision. *)
Settle(j) ==
    /\ j \in busy
    /\ \E p \in {"pending", "waiting", "completed", "failed", "cancelled"} :
           Move(j, {"active"}, p)
    /\ busy' = busy \ {j}

(* The executor of a cancelled job returns and is ignored. *)
Ignore(j) ==
    /\ j \in busy
    /\ phase[j] = "cancelled"
    /\ busy' = busy \ {j}
    /\ UNCHANGED phase

(* Executors disappear; the jobs they held are pending again. *)
Abandon(S) ==
    /\ S \subseteq busy
    /\ busy' = busy \ S
    /\ phase' = [j \in Jobs |-> IF j \in S /\ phase[j] = "active"
                                  THEN "pending" ELSE phase[j]]

Cancel(j) == Move(j, {"pending", "active", "waiting"}, "cancelled") /\ UNCHANGED busy
Reopen(j) == j \notin busy /\ Move(j, {"failed", "cancelled"}, "pending") /\ UNCHANGED busy
Decide(j) == \E p \in {"pending", "failed"} : Move(j, {"waiting"}, p) /\ UNCHANGED busy

Next ==
    \/ \E j \in Jobs : \/ Submit(j) \/ Begin(j) \/ Settle(j) \/ Ignore(j)
                      \/ Cancel(j) \/ Reopen(j) \/ Decide(j)
    \/ \E S \in SUBSET busy : Abandon(S)

Spec == Init /\ [][Next]_vars

FairSpec ==
    /\ Spec
    /\ \A j \in Jobs : /\ WF_vars(Begin(j))
                       /\ WF_vars(Settle(j) \/ Ignore(j) \/ Abandon({j}))
=============================================================================
