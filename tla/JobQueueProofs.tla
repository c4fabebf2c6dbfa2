--------------------------- MODULE JobQueueProofs ---------------------------
(***************************************************************************)
(* Theorems about JobQueue for every value of its constants: first those   *)
(* that hold in all circumstances or where processes do not overlap, then  *)
(* those where operators use the control plane only ("cli" \notin Env), and *)
(* where no unfavourable circumstance arises at all (Env = {}; processes   *)
(* still crash, leases still expire).                                      *)
(***************************************************************************)
EXTENDS JobQueueInvariants, JobQueueContract, FiniteSetTheorems, TLAPS

(* TypeOK with the finiteness that lets Cardinality(RunsOf(d)) be a number. *)
TypeInv == TypeOK /\ IsFiniteSet(runs)

LEMMA BackoffType == ASSUME NEW n \in Nat PROVE Backoff(n) \in Nat
BY ConstantsAssumption DEF Backoff

LEMMA GrantedType == Granted \in NoLease .. LeaseTime
BY ConstantsAssumption DEF Granted, NoLease

LEMMA InitType == Init => TypeInv
<1> SUFFICES ASSUME Init PROVE TypeInv
  OBVIOUS
<1>1. IsFiniteSet(runs)
  BY FS_EmptySet DEF Init
<1>2. TypeOK
  BY ConstantsAssumption DEF Init, TypeOK, JobStatus, NoLease, NoRoot, NoRequest, Idle, Position
<1> QED BY <1>1, <1>2 DEF TypeInv

LEMMA LoseRunsType ==
    ASSUME TypeInv, NEW d \in Daemons, LoseRuns(d)
    PROVE  /\ runs' \subseteq Run /\ asked' \subseteq runs'
           /\ IsFiniteSet(runs')
           /\ interrupted' \in [Jobs -> Nat]
           /\ loop' \in [Daemons -> Position]
<1>1. IsFiniteSet(runs')
  BY FS_Subset DEF LoseRuns, TypeInv
<1>2. ASSUME NEW j \in Jobs PROVE Cardinality(RunsOf(d) \cap RunsFor(j)) \in Nat
  <2>1. IsFiniteSet(RunsOf(d) \cap RunsFor(j))
    BY FS_Subset DEF TypeInv, RunsOf, RunsFor
  <2> QED BY <2>1, FS_CardinalityType
<1>3. interrupted' \in [Jobs -> Nat]
  BY <1>2 DEF LoseRuns, TypeInv, TypeOK
<1> QED BY <1>1, <1>3 DEF LoseRuns, TypeInv, TypeOK, Position, RunsOf

(* What a daemon in the middle of a run of code holds in its locals. *)
LEMMA PositionType ==
    ASSUME TypeInv, NEW d \in Daemons
    PROVE  /\ loop[d].pc \in {"start", "root", "write"} => loop[d].run \in Run
           /\ loop[d].pc = "write" => /\ loop[d].outcome \in Outcome
                                     /\ loop[d].ref \in Approvals \cup {NoApproval}
           /\ loop[d].pc = "deny" => loop[d].job \in Jobs
BY DEF TypeInv, TypeOK, Position, Idle

LEMMA RunType ==
    ASSUME NEW r \in Run
    PROVE  /\ r.job \in Jobs /\ r.daemon \in Daemons /\ r.claim \in Nat \ {0}
           /\ r.attempt \in Nat /\ r.root \in Nat \ {0} /\ r.mapped \in BOOLEAN
BY DEF Run

LEMMA NextType == TypeInv /\ [Next]_vars => TypeInv'
<1> SUFFICES ASSUME TypeInv, [Next]_vars PROVE TypeInv'
  OBVIOUS
<1> USE ConstantsAssumption DEF TypeInv, TypeOK, JobStatus, Active, NoLease, NoRoot
<1>1. ASSUME NEW j \in Jobs, Enqueue(j) PROVE TypeInv'
  BY <1>1 DEF Enqueue, jobVars, daemonVars, runVars, historyVars
<1>2. ASSUME NEW d \in Daemons, CheckActiveDaemon(d) PROVE TypeInv'
  BY <1>2 DEF CheckActiveDaemon, jobVars, daemonVars, runVars, historyVars
<1>3. ASSUME NEW d \in Daemons, InsertDaemonRow(d) PROVE TypeInv'
  BY <1>3 DEF InsertDaemonRow, jobVars, daemonVars, runVars, historyVars
<1>4. ASSUME NEW d \in Daemons, RecoverStaleJobs(d) PROVE TypeInv'
  BY <1>4 DEF RecoverStaleJobs, jobVars, daemonVars, runVars, historyVars
<1>5. ASSUME NEW d \in Daemons, FinishStart(d) PROVE TypeInv'
  BY <1>5 DEF FinishStart, jobVars, daemonVars, runVars, historyVars
<1>6. ASSUME NEW d \in Daemons, FailStart(d) PROVE TypeInv'
  BY <1>6 DEF FailStart, jobVars, daemonVars, runVars, historyVars
<1>7. ASSUME NEW d \in Daemons, BeginStop(d) PROVE TypeInv'
  BY <1>7 DEF BeginStop, jobVars, daemonVars, runVars, historyVars
<1>8. ASSUME NEW d \in Daemons, FinishStop(d) PROVE TypeInv'
  BY <1>8 DEF FinishStop, jobVars, daemonVars, runVars, historyVars
<1>9. ASSUME NEW d \in Daemons, Exit(d) PROVE TypeInv'
  BY <1>9, LoseRunsType DEF Exit, LoseRuns, jobVars
<1>10. ASSUME NEW d \in Daemons, Crash(d) PROVE TypeInv'
  BY <1>10, LoseRunsType DEF Crash, LoseRuns, jobVars
<1>11. ASSUME NEW d \in Daemons, Heartbeat(d) PROVE TypeInv'
  BY <1>11 DEF Heartbeat, jobVars, daemonVars, runVars, historyVars
<1>12. ASSUME NEW d \in Daemons, NEW j \in Jobs, ClaimNextJob(d, j) PROVE TypeInv'
  <2>1. ClaimedRun(d, j) \in Run
    BY <1>12 DEF ClaimedRun, Run
  <2>2. IsFiniteSet(runs')
    BY <1>12, FS_AddElement DEF ClaimNextJob
  <2> QED BY <1>12, <2>1, <2>2, GrantedType DEF ClaimNextJob, Position, jobVars, daemonVars, runVars, historyVars
<1>13. ASSUME NEW d \in Daemons, StartRun(d) PROVE TypeInv'
  <2>1. loop[d].run.job \in Jobs /\ loop[d].run \in Run
    BY <1>13, PositionType, RunType DEF StartRun
  <2>2. loop' \in [Daemons -> Position]
    BY <1>13, <2>1 DEF StartRun, Position
  <2> QED BY <1>13, <2>1, <2>2, GrantedType DEF StartRun, jobVars, daemonVars, runVars, historyVars
<1>14. ASSUME NEW d \in Daemons, MapRoot(d) PROVE TypeInv'
  <2>1. loop[d].run.job \in Jobs /\ loop[d].run \in Run /\ loop[d].run.root \in Nat
    BY <1>14, PositionType, RunType DEF MapRoot
  <2>2. loop' \in [Daemons -> Position]
    BY <1>14, <2>1 DEF MapRoot, Position
  <2> QED BY <1>14, <2>1, <2>2, GrantedType DEF MapRoot, jobVars, daemonVars, runVars, historyVars
<1>15. ASSUME NEW d \in Daemons, NEW j \in Jobs, RenewJobLease(d, j) PROVE TypeInv'
  BY <1>15, GrantedType DEF RenewJobLease, jobVars, daemonVars, runVars, historyVars
<1>16. ASSUME NEW d \in Daemons, WriteWaiting(d) PROVE TypeInv'
  <2>1. loop[d].run.job \in Jobs /\ loop[d].ref \in Approvals \cup {NoApproval}
    BY <1>16, PositionType, RunType DEF WriteWaiting
  <2>2. /\ IsFiniteSet(runs') /\ runs' \subseteq Run /\ asked' \subseteq runs'
        /\ loop' \in [Daemons -> Position]
    BY <1>16, FS_RemoveElement DEF WriteWaiting, EndRun, Position
  <2> QED BY <1>16, <2>1, <2>2 DEF WriteWaiting, Refunded, jobVars, daemonVars, runVars, historyVars
<1>17. ASSUME NEW d \in Daemons, WriteOutcome(d) PROVE TypeInv'
  <2>1. /\ loop[d].run \in Run
        /\ loop[d].outcome \in Outcome \ {"waiting"}
    BY <1>17, PositionType DEF WriteOutcome
  <2>2. SettledStatus(loop[d].run, loop[d].outcome) \in JobStatus
    BY <2>1 DEF SettledStatus, Outcome
  <2>3. /\ IsFiniteSet(runs') /\ runs' \subseteq Run /\ asked' \subseteq runs'
        /\ loop' \in [Daemons -> Position]
    BY <1>17, FS_RemoveElement DEF WriteOutcome, EndRun, Position
  <2>4. /\ root' \in [Jobs -> Nat]
        /\ delay' \in [Jobs -> Nat]
        /\ status' \in [Jobs -> JobStatus \cup {"absent"}]
    BY <1>17, <2>1, <2>2, RunType, BackoffType DEF WriteOutcome
  <2> QED BY <1>17, <2>3, <2>4 DEF WriteOutcome, jobVars, daemonVars, runVars, historyVars
<1>18. ASSUME NEW r \in runs, NEW a \in Approvals, RequestApproval(r, a) PROVE TypeInv'
  BY <1>18, RunType DEF RequestApproval, jobVars, daemonVars, runVars, historyVars
<1>19. ASSUME NEW r \in runs, NEW o \in Outcome, NEW b \in Approvals \cup {NoApproval}, RunnerReturns(r, o, b) PROVE TypeInv'
  <2>1. CASE Discarded(r)
    BY <1>19, <2>1, FS_RemoveElement DEF RunnerReturns, jobVars, daemonVars, runVars, historyVars
  <2>2. CASE ~Discarded(r)
    <3>1. [pc |-> "write", run |-> r, outcome |-> o, ref |-> b] \in Position
      BY DEF Position
    <3> QED BY <1>19, <2>2, <3>1 DEF RunnerReturns, jobVars, daemonVars, runVars, historyVars
  <2> QED BY <2>1, <2>2
<1>20. ASSUME NEW d \in Daemons, NEW j \in Jobs, WakeWaitingJob(d, j) PROVE TypeInv'
  BY <1>20 DEF WakeWaitingJob, jobVars, daemonVars, runVars, historyVars
<1>21. ASSUME NEW d \in Daemons, NEW j \in Jobs, ReadDenial(d, j) PROVE TypeInv'
  BY <1>21 DEF ReadDenial, Position, jobVars, daemonVars, runVars, historyVars
<1>22. ASSUME NEW d \in Daemons, WriteDenial(d) PROVE TypeInv'
  <2>1. loop[d].job \in Jobs
    BY <1>22, PositionType, RunType DEF WriteDenial
  <2>2. loop' \in [Daemons -> Position]
    BY <1>22, <2>1 DEF WriteDenial, Position
  <2> QED BY <1>22, <2>1, <2>2, GrantedType DEF WriteDenial, jobVars, daemonVars, runVars, historyVars
<1>23. ASSUME NEW d \in Daemons, NEW j \in Jobs, CancelJob(d, j) PROVE TypeInv'
  BY <1>23 DEF CancelJob, jobVars, daemonVars, runVars, historyVars
<1>24. ASSUME NEW d \in Daemons, NEW j \in Jobs, RetryJob(d, j) PROVE TypeInv'
  BY <1>24 DEF RetryJob, Reopen, jobVars, daemonVars, runVars, historyVars
<1>25. ASSUME NEW d \in Daemons, NEW a \in Approvals, NEW decision \in {"approved", "denied"}, DecideApproval(d, a, decision) PROVE TypeInv'
  <2>1. approval[a] \in [job : Jobs, root : Nat \ {0},
                           status : {"pending", "approved", "denied"}]
    BY <1>25 DEF DecideApproval, NoRequest
  <2> QED BY <1>25, <2>1 DEF DecideApproval, jobVars, daemonVars, runVars, historyVars
<1>26. ASSUME NEW j \in Jobs, CliCancel(j) PROVE TypeInv'
  BY <1>26 DEF CliCancel, jobVars, daemonVars, runVars, historyVars
<1>27. ASSUME NEW j \in Jobs, CliRetry(j) PROVE TypeInv'
  BY <1>27 DEF CliRetry, Reopen, jobVars, daemonVars, runVars, historyVars
<1>28. ASSUME NEW a \in Approvals, NEW decision \in {"approved", "denied"}, CliDecide(a, decision) PROVE TypeInv'
  <2>1. approval[a] \in [job : Jobs, root : Nat \ {0},
                           status : {"pending", "approved", "denied"}]
    BY <1>28 DEF CliDecide, NoRequest
  <2> QED BY <1>28, <2>1 DEF CliDecide, jobVars, daemonVars, runVars, historyVars
<1>29. ASSUME NEW d \in Daemons, CliDaemonStop(d) PROVE TypeInv'
  BY <1>29 DEF CliDaemonStop, jobVars, daemonVars, runVars, historyVars
<1>30. ASSUME Tick PROVE TypeInv'
  BY <1>30 DEF Tick, jobVars, daemonVars, runVars, historyVars
<1>31. CASE UNCHANGED vars
  BY <1>31 DEF vars, jobVars, daemonVars, runVars, historyVars
<1> HIDE DEF TypeInv, TypeOK, JobStatus, Active, NoLease, NoRoot
<1>32. ASSUME NEW d \in Daemons, Lifecycle(d) PROVE TypeInv'
  BY <1>32, <1>2, <1>3, <1>4, <1>5, <1>6, <1>7, <1>8, <1>9, <1>10, <1>11 DEF Lifecycle
<1>33. ASSUME NEW d \in Daemons, Execution(d) PROVE TypeInv'
  BY <1>33, <1>12, <1>13, <1>14, <1>15, <1>16, <1>17 DEF Execution
<1>34. CASE Runner
  BY <1>34, <1>18, <1>19 DEF Runner
<1>35. ASSUME NEW d \in Daemons, Wakeups(d) PROVE TypeInv'
  BY <1>35, <1>20, <1>21, <1>22 DEF Wakeups
<1>36. CASE Operator
  BY <1>36, <1>23, <1>24, <1>25, <1>26, <1>27, <1>28, <1>29 DEF Operator
<1> QED BY <1>1, <1>30, <1>31, <1>32, <1>33, <1>34, <1>35, <1>36 DEF Next

(* Every reachable state is well typed, whatever the circumstances. *)
THEOREM TypeCorrect == Spec => []TypeOK
<1>1. TypeInv => TypeOK
  BY DEF TypeInv
<1> QED BY <1>1, InitType, NextType, PTL DEF Spec

-----------------------------------------------------------------------------
(* One process at a time (circumstances without "overlap").                  *)

LEMMA SoloInit == Init => Solo
BY DEF Init, Solo, Live, Idle

LEMMA SoloNext ==
    ASSUME "overlap" \notin Env, TypeInv, Solo, [Next]_vars PROVE Solo'
<1> USE DEF TypeInv, TypeOK, Solo, Live
<1>1. ASSUME NEW j \in Jobs, Enqueue(j) PROVE Solo'
  BY <1>1 DEF Enqueue, Listening, Idle, Run, jobVars, daemonVars, runVars, historyVars
<1>2. ASSUME NEW d \in Daemons, CheckActiveDaemon(d) PROVE Solo'
  BY <1>2 DEF CheckActiveDaemon, Listening, Idle, Run, jobVars, daemonVars, runVars, historyVars
<1>3. ASSUME NEW d \in Daemons, InsertDaemonRow(d) PROVE Solo'
  BY <1>3 DEF InsertDaemonRow, Listening, Idle, Run, jobVars, daemonVars, runVars, historyVars
<1>4. ASSUME NEW d \in Daemons, RecoverStaleJobs(d) PROVE Solo'
  BY <1>4 DEF RecoverStaleJobs, Listening, Idle, Run, jobVars, daemonVars, runVars, historyVars
<1>5. ASSUME NEW d \in Daemons, FinishStart(d) PROVE Solo'
  BY <1>5 DEF FinishStart, Listening, Idle, Run, jobVars, daemonVars, runVars, historyVars
<1>6. ASSUME NEW d \in Daemons, FailStart(d) PROVE Solo'
  BY <1>6 DEF FailStart, Listening, Idle, Run, jobVars, daemonVars, runVars, historyVars
<1>7. ASSUME NEW d \in Daemons, BeginStop(d) PROVE Solo'
  BY <1>7 DEF BeginStop, Listening, Idle, Run, jobVars, daemonVars, runVars, historyVars
<1>8. ASSUME NEW d \in Daemons, FinishStop(d) PROVE Solo'
  BY <1>8 DEF FinishStop, Listening, Idle, Run, jobVars, daemonVars, runVars, historyVars
<1>9. ASSUME NEW d \in Daemons, Exit(d) PROVE Solo'
  BY <1>9 DEF Exit, LoseRuns, RunsOf, Run, Idle, jobVars, daemonVars, runVars, historyVars
<1>10. ASSUME NEW d \in Daemons, Crash(d) PROVE Solo'
  BY <1>10 DEF Crash, LoseRuns, RunsOf, Run, Idle, jobVars, daemonVars, runVars, historyVars
<1>11. ASSUME NEW d \in Daemons, Heartbeat(d) PROVE Solo'
  BY <1>11 DEF Heartbeat, Listening, Idle, Run, jobVars, daemonVars, runVars, historyVars
<1>12. ASSUME NEW d \in Daemons, NEW j \in Jobs, ClaimNextJob(d, j) PROVE Solo'
  BY <1>12 DEF ClaimNextJob, ClaimedRun, Listening, Idle, jobVars, daemonVars, runVars, historyVars
<1>13. ASSUME NEW d \in Daemons, StartRun(d) PROVE Solo'
  BY <1>13 DEF StartRun, Idle, jobVars, daemonVars, runVars, historyVars
<1>14. ASSUME NEW d \in Daemons, MapRoot(d) PROVE Solo'
  BY <1>14 DEF MapRoot, Idle, jobVars, daemonVars, runVars, historyVars
<1>15. ASSUME NEW d \in Daemons, NEW j \in Jobs, RenewJobLease(d, j) PROVE Solo'
  BY <1>15 DEF RenewJobLease, Listening, Idle, Run, jobVars, daemonVars, runVars, historyVars
<1>16. ASSUME NEW d \in Daemons, WriteWaiting(d) PROVE Solo'
  BY <1>16 DEF WriteWaiting, EndRun, Idle, jobVars, daemonVars, runVars, historyVars
<1>17. ASSUME NEW d \in Daemons, WriteOutcome(d) PROVE Solo'
  BY <1>17 DEF WriteOutcome, EndRun, Idle, jobVars, daemonVars, runVars, historyVars
<1>18. ASSUME NEW r \in runs, NEW a \in Approvals, RequestApproval(r, a) PROVE Solo'
  BY <1>18 DEF RequestApproval, Listening, Idle, Run, jobVars, daemonVars, runVars, historyVars
<1>19. ASSUME NEW r \in runs, NEW o \in Outcome, NEW b \in Approvals \cup {NoApproval}, RunnerReturns(r, o, b) PROVE Solo'
  <2>1. proc' = proc /\ runs' \subseteq runs
    BY <1>19 DEF RunnerReturns, runVars
  <2>2. \/ loop' = loop
        \/ loop' = [loop EXCEPT ![r.daemon] = [pc |-> "write", run |-> r, outcome |-> o, ref |-> b]]
    BY <1>19 DEF RunnerReturns
  <2>3. r \in runs /\ r.daemon \in Daemons /\ proc[r.daemon] \in {"up", "stopping", "exiting"}
    BY <1>19 DEF Run
  <2> QED BY <2>1, <2>2, <2>3 DEF Idle
<1>20. ASSUME NEW d \in Daemons, NEW j \in Jobs, WakeWaitingJob(d, j) PROVE Solo'
  BY <1>20 DEF WakeWaitingJob, Listening, Idle, Run, jobVars, daemonVars, runVars, historyVars
<1>21. ASSUME NEW d \in Daemons, NEW j \in Jobs, ReadDenial(d, j) PROVE Solo'
  BY <1>21 DEF ReadDenial, Listening, Idle, jobVars, daemonVars, runVars, historyVars
<1>22. ASSUME NEW d \in Daemons, WriteDenial(d) PROVE Solo'
  BY <1>22 DEF WriteDenial, Idle, jobVars, daemonVars, runVars, historyVars
<1>23. ASSUME NEW d \in Daemons, NEW j \in Jobs, CancelJob(d, j) PROVE Solo'
  BY <1>23 DEF CancelJob, Listening, Idle, Run, jobVars, daemonVars, runVars, historyVars
<1>24. ASSUME NEW d \in Daemons, NEW j \in Jobs, RetryJob(d, j) PROVE Solo'
  BY <1>24 DEF RetryJob, Listening, Idle, Run, jobVars, daemonVars, runVars, historyVars
<1>25. ASSUME NEW d \in Daemons, NEW a \in Approvals, NEW decision \in {"approved", "denied"}, DecideApproval(d, a, decision) PROVE Solo'
  BY <1>25 DEF DecideApproval, Listening, Idle, Run, jobVars, daemonVars, runVars, historyVars
<1>26. ASSUME NEW j \in Jobs, CliCancel(j) PROVE Solo'
  BY <1>26 DEF CliCancel, Listening, Idle, Run, jobVars, daemonVars, runVars, historyVars
<1>27. ASSUME NEW j \in Jobs, CliRetry(j) PROVE Solo'
  BY <1>27 DEF CliRetry, Listening, Idle, Run, jobVars, daemonVars, runVars, historyVars
<1>28. ASSUME NEW a \in Approvals, NEW decision \in {"approved", "denied"}, CliDecide(a, decision) PROVE Solo'
  BY <1>28 DEF CliDecide, Listening, Idle, Run, jobVars, daemonVars, runVars, historyVars
<1>29. ASSUME NEW d \in Daemons, CliDaemonStop(d) PROVE Solo'
  BY <1>29 DEF CliDaemonStop, Listening, Idle, Run, jobVars, daemonVars, runVars, historyVars
<1>30. ASSUME Tick PROVE Solo'
  BY <1>30 DEF Tick, Listening, Idle, Run, jobVars, daemonVars, runVars, historyVars
<1>31. CASE UNCHANGED vars
  BY <1>31 DEF vars, Listening, Idle, Run, jobVars, daemonVars, runVars, historyVars
<1> HIDE DEF TypeInv, TypeOK, Solo, Live
<1>32. ASSUME NEW d \in Daemons, Lifecycle(d) PROVE Solo'
  BY <1>32, <1>2, <1>3, <1>4, <1>5, <1>6, <1>7, <1>8, <1>9, <1>10, <1>11 DEF Lifecycle
<1>33. ASSUME NEW d \in Daemons, Execution(d) PROVE Solo'
  BY <1>33, <1>12, <1>13, <1>14, <1>15, <1>16, <1>17 DEF Execution
<1>34. CASE Runner
  BY <1>34, <1>18, <1>19 DEF Runner
<1>35. ASSUME NEW d \in Daemons, Wakeups(d) PROVE Solo'
  BY <1>35, <1>20, <1>21, <1>22 DEF Wakeups
<1>36. CASE Operator
  BY <1>36, <1>23, <1>24, <1>25, <1>26, <1>27, <1>28, <1>29 DEF Operator
<1> QED BY <1>1, <1>30, <1>31, <1>32, <1>33, <1>34, <1>35, <1>36 DEF Next

(* What the next-state relation leaves to prove when no event loop but d's is
   busy: the others are idle.                                              *)
LEMMA OthersIdle ==
    ASSUME TypeInv, Solo, NEW d \in Daemons, Live(d)
    PROVE  \A e \in Daemons : e # d => loop[e] = Idle
BY DEF Solo, Live

LEMMA BusyIsLive ==
    ASSUME TypeInv, Solo, NEW d \in Daemons, loop[d].pc # "idle" PROVE Live(d)
BY DEF Solo, Live, Idle

(* A process that is about to recover stale jobs is the only one alive. *)
LEMMA NothingRunsAtStart ==
    ASSUME TypeInv, Solo, NEW d \in Daemons, RecoverStaleJobs(d)
    PROVE  runs = {} /\ \A e \in Daemons : loop[e] = Idle
<1>1. proc[d] = "inserted" /\ Live(d)
  BY DEF RecoverStaleJobs, Live
<1>2. \A e \in Daemons : proc[e] \notin {"up", "stopping", "exiting"}
  BY <1>1 DEF Solo, Live
<1>3. \A r \in runs : r.daemon \in Daemons
  BY DEF TypeInv, TypeOK, Run
<1>4. runs = {}
  BY <1>2, <1>3 DEF Solo
<1> QED BY <1>2, <1>4 DEF Solo

(* While one event loop is listening none is busy. *)
LEMMA ListeningAlone ==
    ASSUME TypeInv, Solo, NEW d \in Daemons, Listening(d)
    PROVE  \A e \in Daemons : loop[e] = Idle
<1>1. Live(d) /\ loop[d] = Idle
  BY DEF Listening, Live
<1> QED BY <1>1, OthersIdle

-----------------------------------------------------------------------------
(* Active jobs stay recoverable (circumstances without "overlap").          *)

LEMMA RecoverableInit == Init => RecoverableClaim /\ ClaimBeforeRoot
BY DEF Init, RecoverableClaim, ClaimBeforeRoot, Active, Idle

LEMMA RecoverableNext ==
    ASSUME "overlap" \notin Env, TypeInv, Solo, RecoverableClaim, ClaimBeforeRoot, [Next]_vars
    PROVE  RecoverableClaim' /\ ClaimBeforeRoot'
<1> USE ConstantsAssumption, PositionType, RunType DEF TypeInv, TypeOK, RecoverableClaim, ClaimBeforeRoot, Active
<1>1. ASSUME NEW j \in Jobs, Enqueue(j) PROVE RecoverableClaim' /\ ClaimBeforeRoot'
  BY <1>1 DEF Enqueue, Idle, jobVars, daemonVars, runVars, historyVars
<1>2. ASSUME NEW d \in Daemons, CheckActiveDaemon(d) PROVE RecoverableClaim' /\ ClaimBeforeRoot'
  BY <1>2 DEF CheckActiveDaemon, Idle, jobVars, daemonVars, runVars, historyVars
<1>3. ASSUME NEW d \in Daemons, InsertDaemonRow(d) PROVE RecoverableClaim' /\ ClaimBeforeRoot'
  BY <1>3 DEF InsertDaemonRow, Idle, jobVars, daemonVars, runVars, historyVars
<1>4. ASSUME NEW d \in Daemons, RecoverStaleJobs(d) PROVE RecoverableClaim' /\ ClaimBeforeRoot'
  <2>1. \A e \in Daemons : loop[e].pc # "root"
    BY <1>4, NothingRunsAtStart DEF Idle
  <2> QED BY <1>4, <2>1 DEF RecoverStaleJobs, jobVars, daemonVars, runVars, historyVars
<1>5. ASSUME NEW d \in Daemons, FinishStart(d) PROVE RecoverableClaim' /\ ClaimBeforeRoot'
  BY <1>5 DEF FinishStart, Idle, jobVars, daemonVars, runVars, historyVars
<1>6. ASSUME NEW d \in Daemons, FailStart(d) PROVE RecoverableClaim' /\ ClaimBeforeRoot'
  BY <1>6 DEF FailStart, Idle, jobVars, daemonVars, runVars, historyVars
<1>7. ASSUME NEW d \in Daemons, BeginStop(d) PROVE RecoverableClaim' /\ ClaimBeforeRoot'
  BY <1>7 DEF BeginStop, Idle, jobVars, daemonVars, runVars, historyVars
<1>8. ASSUME NEW d \in Daemons, FinishStop(d) PROVE RecoverableClaim' /\ ClaimBeforeRoot'
  BY <1>8 DEF FinishStop, Idle, jobVars, daemonVars, runVars, historyVars
<1>9. ASSUME NEW d \in Daemons, Exit(d) PROVE RecoverableClaim' /\ ClaimBeforeRoot'
  BY <1>9 DEF Exit, LoseRuns, Idle, jobVars, daemonVars, runVars, historyVars
<1>10. ASSUME NEW d \in Daemons, Crash(d) PROVE RecoverableClaim' /\ ClaimBeforeRoot'
  BY <1>10 DEF Crash, LoseRuns, Idle, jobVars, daemonVars, runVars, historyVars
<1>11. ASSUME NEW d \in Daemons, Heartbeat(d) PROVE RecoverableClaim' /\ ClaimBeforeRoot'
  BY <1>11 DEF Heartbeat, Idle, jobVars, daemonVars, runVars, historyVars
<1>12. ASSUME NEW d \in Daemons, NEW j \in Jobs, ClaimNextJob(d, j) PROVE RecoverableClaim' /\ ClaimBeforeRoot'
  BY <1>12 DEF ClaimNextJob, Granted, NoLease, jobVars, daemonVars, runVars, historyVars
<1>13. ASSUME NEW d \in Daemons, StartRun(d) PROVE RecoverableClaim' /\ ClaimBeforeRoot'
  <2>1. loop[d].run.job \in Jobs
    BY <1>13, PositionType, RunType DEF StartRun
  <2> QED BY <1>13, <2>1 DEF StartRun, Granted, NoLease, Idle, jobVars, daemonVars, runVars, historyVars
<1>14. ASSUME NEW d \in Daemons, MapRoot(d) PROVE RecoverableClaim' /\ ClaimBeforeRoot'
  <2>1. loop[d].run.job \in Jobs
    BY <1>14, PositionType, RunType DEF MapRoot
  <2> QED BY <1>14, <2>1 DEF MapRoot, Idle, jobVars, daemonVars, runVars, historyVars
<1>15. ASSUME NEW d \in Daemons, NEW j \in Jobs, RenewJobLease(d, j) PROVE RecoverableClaim' /\ ClaimBeforeRoot'
  BY <1>15 DEF RenewJobLease, Granted, NoLease, jobVars, daemonVars, runVars, historyVars
<1>16. ASSUME NEW d \in Daemons, WriteWaiting(d) PROVE RecoverableClaim' /\ ClaimBeforeRoot'
  <2>1. loop[d].run.job \in Jobs
    BY <1>16, PositionType, RunType DEF WriteWaiting
  <2>2. \A e \in Daemons : e # d => loop[e] = Idle
    BY <1>16 DEF WriteWaiting, Solo, Live, Idle
  <2> QED BY <1>16, <2>1, <2>2 DEF WriteWaiting, EndRun, Idle, jobVars, daemonVars, runVars, historyVars
<1>17. ASSUME NEW d \in Daemons, WriteOutcome(d) PROVE RecoverableClaim' /\ ClaimBeforeRoot'
  <2>1. loop[d].run.job \in Jobs
    BY <1>17, PositionType, RunType DEF WriteOutcome
  <2>2. status'[loop[d].run.job] \notin Active
    BY <1>17, <2>1 DEF WriteOutcome, SettledStatus
  <2> QED BY <1>17, <2>1, <2>2 DEF WriteOutcome, EndRun, Idle, jobVars, daemonVars, runVars, historyVars
<1>18. ASSUME NEW r \in runs, NEW a \in Approvals, RequestApproval(r, a) PROVE RecoverableClaim' /\ ClaimBeforeRoot'
  BY <1>18 DEF RequestApproval, Idle, jobVars, daemonVars, runVars, historyVars
<1>19. ASSUME NEW r \in runs, NEW o \in Outcome, NEW b \in Approvals \cup {NoApproval}, RunnerReturns(r, o, b) PROVE RecoverableClaim' /\ ClaimBeforeRoot'
  BY <1>19 DEF RunnerReturns, Idle, jobVars, daemonVars, runVars, historyVars
<1>20. ASSUME NEW d \in Daemons, NEW j \in Jobs, WakeWaitingJob(d, j) PROVE RecoverableClaim' /\ ClaimBeforeRoot'
  BY <1>20 DEF WakeWaitingJob, Idle, jobVars, daemonVars, runVars, historyVars
<1>21. ASSUME NEW d \in Daemons, NEW j \in Jobs, ReadDenial(d, j) PROVE RecoverableClaim' /\ ClaimBeforeRoot'
  BY <1>21 DEF ReadDenial, Idle, jobVars, daemonVars, runVars, historyVars
<1>22. ASSUME NEW d \in Daemons, WriteDenial(d) PROVE RecoverableClaim' /\ ClaimBeforeRoot'
  <2>1. loop[d].job \in Jobs
    BY <1>22, PositionType DEF WriteDenial
  <2> QED BY <1>22, <2>1 DEF WriteDenial, Idle, jobVars, daemonVars, runVars, historyVars
<1>23. ASSUME NEW d \in Daemons, NEW j \in Jobs, CancelJob(d, j) PROVE RecoverableClaim' /\ ClaimBeforeRoot'
  BY <1>23 DEF CancelJob, Idle, jobVars, daemonVars, runVars, historyVars
<1>24. ASSUME NEW d \in Daemons, NEW j \in Jobs, RetryJob(d, j) PROVE RecoverableClaim' /\ ClaimBeforeRoot'
  <2>1. \A e \in Daemons : loop[e].pc # "root"
    BY <1>24 DEF RetryJob, Listening, Solo, Live, Idle
  <2> QED BY <1>24, <2>1 DEF RetryJob, Reopen, jobVars, daemonVars, runVars, historyVars
<1>25. ASSUME NEW d \in Daemons, NEW a \in Approvals, NEW decision \in {"approved", "denied"}, DecideApproval(d, a, decision) PROVE RecoverableClaim' /\ ClaimBeforeRoot'
  BY <1>25 DEF DecideApproval, Idle, jobVars, daemonVars, runVars, historyVars
<1>26. ASSUME NEW j \in Jobs, CliCancel(j) PROVE RecoverableClaim' /\ ClaimBeforeRoot'
  BY <1>26 DEF CliCancel, Idle, jobVars, daemonVars, runVars, historyVars
<1>27. ASSUME NEW j \in Jobs, CliRetry(j) PROVE RecoverableClaim' /\ ClaimBeforeRoot'
  BY <1>27 DEF CliRetry, Reopen, jobVars, daemonVars, runVars, historyVars
<1>28. ASSUME NEW a \in Approvals, NEW decision \in {"approved", "denied"}, CliDecide(a, decision) PROVE RecoverableClaim' /\ ClaimBeforeRoot'
  BY <1>28 DEF CliDecide, Idle, jobVars, daemonVars, runVars, historyVars
<1>29. ASSUME NEW d \in Daemons, CliDaemonStop(d) PROVE RecoverableClaim' /\ ClaimBeforeRoot'
  BY <1>29 DEF CliDaemonStop, Idle, jobVars, daemonVars, runVars, historyVars
<1>30. ASSUME Tick PROVE RecoverableClaim' /\ ClaimBeforeRoot'
  <2>1. \A e \in Daemons : loop[e].pc # "root"
    BY <1>30 DEF Tick, Idle
  <2>2. \A j \in Jobs : lease[j] # NoLease => lease'[j] # NoLease
    BY <1>30 DEF Tick, NoLease
  <2> QED BY <1>30, <2>1, <2>2 DEF Tick
<1>31. CASE UNCHANGED vars
  BY <1>31 DEF vars, Idle, jobVars, daemonVars, runVars, historyVars
<1> HIDE DEF TypeInv, TypeOK, RecoverableClaim, ClaimBeforeRoot, Active
<1>32. ASSUME NEW d \in Daemons, Lifecycle(d) PROVE RecoverableClaim' /\ ClaimBeforeRoot'
  BY <1>32, <1>2, <1>3, <1>4, <1>5, <1>6, <1>7, <1>8, <1>9, <1>10, <1>11 DEF Lifecycle
<1>33. ASSUME NEW d \in Daemons, Execution(d) PROVE RecoverableClaim' /\ ClaimBeforeRoot'
  BY <1>33, <1>12, <1>13, <1>14, <1>15, <1>16, <1>17 DEF Execution
<1>34. CASE Runner
  BY <1>34, <1>18, <1>19 DEF Runner
<1>35. ASSUME NEW d \in Daemons, Wakeups(d) PROVE RecoverableClaim' /\ ClaimBeforeRoot'
  BY <1>35, <1>20, <1>21, <1>22 DEF Wakeups
<1>36. CASE Operator
  BY <1>36, <1>23, <1>24, <1>25, <1>26, <1>27, <1>28, <1>29 DEF Operator
<1> QED BY <1>1, <1>30, <1>31, <1>32, <1>33, <1>34, <1>35, <1>36 DEF Next

(* While one daemon process runs at a time, no claimed or running job is ever
   left without the claim and the lease by which it can be taken over.      *)
THEOREM ClaimsRecoverable ==
    ASSUME "overlap" \notin Env PROVE Spec => []RecoverableClaim
<1> QED BY InitType, NextType, SoloInit, SoloNext, RecoverableInit, RecoverableNext, PTL DEF Spec

-----------------------------------------------------------------------------
(* The root of a job never changes (circumstances without "overlap").       *)

LEMMA RootInit == Init => RootInv
BY DEF Init, RootInv, RootKnown, MapsOnce, Idle

LEMMA RootNext ==
    ASSUME "overlap" \notin Env, TypeInv, Solo, RootInv, [Next]_vars
    PROVE  RootInv'
<1> USE ConstantsAssumption, PositionType, RunType DEF TypeInv, TypeOK, RootInv, RootKnown, MapsOnce
<1>1. ASSUME NEW j \in Jobs, Enqueue(j) PROVE RootInv'
  BY <1>1 DEF Enqueue, jobVars, daemonVars, runVars, historyVars
<1>2. ASSUME NEW d \in Daemons, CheckActiveDaemon(d) PROVE RootInv'
  BY <1>2 DEF CheckActiveDaemon, jobVars, daemonVars, runVars, historyVars
<1>3. ASSUME NEW d \in Daemons, InsertDaemonRow(d) PROVE RootInv'
  BY <1>3 DEF InsertDaemonRow, jobVars, daemonVars, runVars, historyVars
<1>4. ASSUME NEW d \in Daemons, RecoverStaleJobs(d) PROVE RootInv'
  BY <1>4 DEF RecoverStaleJobs, jobVars, daemonVars, runVars, historyVars
<1>5. ASSUME NEW d \in Daemons, FinishStart(d) PROVE RootInv'
  BY <1>5 DEF FinishStart, jobVars, daemonVars, runVars, historyVars
<1>6. ASSUME NEW d \in Daemons, FailStart(d) PROVE RootInv'
  BY <1>6 DEF FailStart, jobVars, daemonVars, runVars, historyVars
<1>7. ASSUME NEW d \in Daemons, BeginStop(d) PROVE RootInv'
  BY <1>7 DEF BeginStop, jobVars, daemonVars, runVars, historyVars
<1>8. ASSUME NEW d \in Daemons, FinishStop(d) PROVE RootInv'
  BY <1>8 DEF FinishStop, jobVars, daemonVars, runVars, historyVars
<1>9. ASSUME NEW d \in Daemons, Exit(d) PROVE RootInv'
  BY <1>9 DEF Exit, LoseRuns, RunsOf, Idle, jobVars, daemonVars, runVars, historyVars
<1>10. ASSUME NEW d \in Daemons, Crash(d) PROVE RootInv'
  BY <1>10 DEF Crash, LoseRuns, RunsOf, Idle, jobVars, daemonVars, runVars, historyVars
<1>11. ASSUME NEW d \in Daemons, Heartbeat(d) PROVE RootInv'
  BY <1>11 DEF Heartbeat, jobVars, daemonVars, runVars, historyVars
<1>12. ASSUME NEW d \in Daemons, NEW j \in Jobs, ClaimNextJob(d, j) PROVE RootInv'
  <2>1. ClaimedRun(d, j) \in Run
    BY <1>12 DEF ClaimedRun, Run, NoRoot
  <2>2. \A e \in Daemons : loop[e] = Idle
    BY <1>12, ListeningAlone DEF ClaimNextJob
  <2>3. runs' = runs \cup {ClaimedRun(d, j)} /\ root' = root
    BY <1>12 DEF ClaimNextJob
  <2>4. loop' = [loop EXCEPT ![d] = [pc |-> "start", run |-> ClaimedRun(d, j)]]
    BY <1>12 DEF ClaimNextJob
  <2>5. /\ ClaimedRun(d, j).job = j /\ ClaimedRun(d, j).daemon = d
        /\ ClaimedRun(d, j).mapped <=> root[j] # NoRoot
        /\ root[j] # NoRoot => ClaimedRun(d, j).root = root[j]
    BY DEF ClaimedRun
  <2>6. \A r \in runs : root[r.job] = r.root
    BY <2>2 DEF Idle
  <2> QED BY <2>1, <2>2, <2>3, <2>4, <2>5, <2>6 DEF Idle
<1>13. ASSUME NEW d \in Daemons, StartRun(d) PROVE RootInv'
  <2>1. loop[d].run.job \in Jobs
    BY <1>13, PositionType, RunType DEF StartRun
  <2>2. \A e \in Daemons : e # d => loop[e] = Idle
    BY <1>13 DEF StartRun, Solo, Live, Idle
  <2>3. /\ runs' = runs /\ root' = root
        /\ loop' = [loop EXCEPT ![d] = IF loop[d].run.mapped THEN Idle
                                        ELSE [pc |-> "root", run |-> loop[d].run]]
    BY <1>13 DEF StartRun, runVars
  <2>4. loop[d].pc = "start" /\ loop[d].run.mapped \in BOOLEAN
    BY <1>13 DEF StartRun
  <2> QED BY <2>1, <2>2, <2>3, <2>4 DEF Idle
<1>14. ASSUME NEW d \in Daemons, MapRoot(d) PROVE RootInv'
  <2>1. loop[d].run.job \in Jobs
    BY <1>14, PositionType, RunType DEF MapRoot
  <2>2. \A e \in Daemons : e # d => loop[e] = Idle
    BY <1>14, BusyIsLive, OthersIdle DEF MapRoot
  <2>3. /\ runs' = runs /\ loop[d].pc = "root"
        /\ loop' = [loop EXCEPT ![d] = Idle]
        /\ root' = [root EXCEPT ![loop[d].run.job] = loop[d].run.root]
    BY <1>14 DEF MapRoot, runVars
  <2>a. \A r \in runs : r.root # NoRoot /\ r.daemon \in Daemons
    BY RunType DEF NoRoot
  <2>4. \A r \in runs : r = loop[d].run \/ r.job # loop[d].run.job
    <3> SUFFICES ASSUME NEW r \in runs, r.job = loop[d].run.job PROVE r = loop[d].run
      OBVIOUS
    <3>1. root[r.job] # r.root
      BY <2>3, <2>a
    <3>2. loop[r.daemon].pc \in {"start", "root"} /\ loop[r.daemon].run = r
      BY <3>1
    <3>3. r.daemon = d
      BY <2>2, <2>a, <3>2 DEF Idle
    <3> QED BY <3>2, <3>3
  <2> QED BY <2>1, <2>2, <2>3, <2>4 DEF Idle
<1>15. ASSUME NEW d \in Daemons, NEW j \in Jobs, RenewJobLease(d, j) PROVE RootInv'
  BY <1>15 DEF RenewJobLease, jobVars, daemonVars, runVars, historyVars
<1>16. ASSUME NEW d \in Daemons, WriteWaiting(d) PROVE RootInv'
  <2>1. loop[d].run.job \in Jobs
    BY <1>16, PositionType, RunType DEF WriteWaiting
  <2>2. \A e \in Daemons : e # d => loop[e] = Idle
    BY <1>16 DEF WriteWaiting, Solo, Live, Idle
  <2>3. /\ runs' = runs \ {loop[d].run} /\ root' = root
        /\ loop' = [loop EXCEPT ![d] = Idle]
    BY <1>16 DEF WriteWaiting, EndRun
  <2> QED BY <2>1, <2>2, <2>3 DEF Idle
<1>17. ASSUME NEW d \in Daemons, WriteOutcome(d) PROVE RootInv'
  <2>1. loop[d].run.job \in Jobs
    BY <1>17, PositionType, RunType DEF WriteOutcome
  <2>2. \A e \in Daemons : e # d => loop[e] = Idle
    BY <1>17 DEF WriteOutcome, Solo, Live, Idle
  <2>3. /\ runs' = runs \ {loop[d].run} /\ loop[d].pc = "write"
        /\ loop' = [loop EXCEPT ![d] = Idle]
        /\ root' = [root EXCEPT ![loop[d].run.job] =
                       IF loop[d].outcome = "threw" THEN @ ELSE loop[d].run.root]
    BY <1>17 DEF WriteOutcome, EndRun
  <2>4. root[loop[d].run.job] = loop[d].run.root
    BY <2>2, <2>3
  <2>5. root' = root
    BY <2>1, <2>3, <2>4
  <2> QED BY <2>1, <2>2, <2>3, <2>5 DEF Idle
<1>18. ASSUME NEW r \in runs, NEW a \in Approvals, RequestApproval(r, a) PROVE RootInv'
  BY <1>18 DEF RequestApproval, jobVars, daemonVars, runVars, historyVars
<1>19. ASSUME NEW r \in runs, NEW o \in Outcome, NEW b \in Approvals \cup {NoApproval}, RunnerReturns(r, o, b) PROVE RootInv'
  <2>1. CASE Discarded(r)
    BY <1>19, <2>1 DEF RunnerReturns, Idle, jobVars, daemonVars, runVars, historyVars
  <2>2. CASE ~Discarded(r)
    <3>1. r.daemon \in Daemons /\ loop[r.daemon] = Idle
      BY <1>19 DEF RunnerReturns
    <3>2. runs' = runs /\ root' = root
      BY <1>19, <2>2 DEF RunnerReturns, jobVars, daemonVars, runVars, historyVars
    <3>3. loop' = [loop EXCEPT ![r.daemon] =
                     [pc |-> "write", run |-> r, outcome |-> o, ref |-> b]]
      BY <1>19, <2>2 DEF RunnerReturns
    <3>4. \A q \in runs : loop[q.daemon] = Idle => root[q.job] = q.root
      BY DEF Idle
    <3> QED BY <3>1, <3>2, <3>3, <3>4 DEF Idle
  <2> QED BY <2>1, <2>2
<1>20. ASSUME NEW d \in Daemons, NEW j \in Jobs, WakeWaitingJob(d, j) PROVE RootInv'
  BY <1>20 DEF WakeWaitingJob, jobVars, daemonVars, runVars, historyVars
<1>21. ASSUME NEW d \in Daemons, NEW j \in Jobs, ReadDenial(d, j) PROVE RootInv'
  BY <1>21 DEF ReadDenial, Listening, Idle, jobVars, daemonVars, runVars, historyVars
<1>22. ASSUME NEW d \in Daemons, WriteDenial(d) PROVE RootInv'
  BY <1>22 DEF WriteDenial, Idle, jobVars, daemonVars, runVars, historyVars
<1>23. ASSUME NEW d \in Daemons, NEW j \in Jobs, CancelJob(d, j) PROVE RootInv'
  BY <1>23 DEF CancelJob, jobVars, daemonVars, runVars, historyVars
<1>24. ASSUME NEW d \in Daemons, NEW j \in Jobs, RetryJob(d, j) PROVE RootInv'
  BY <1>24 DEF RetryJob, Reopen, jobVars, daemonVars, runVars, historyVars
<1>25. ASSUME NEW d \in Daemons, NEW a \in Approvals, NEW decision \in {"approved", "denied"}, DecideApproval(d, a, decision) PROVE RootInv'
  BY <1>25 DEF DecideApproval, jobVars, daemonVars, runVars, historyVars
<1>26. ASSUME NEW j \in Jobs, CliCancel(j) PROVE RootInv'
  BY <1>26 DEF CliCancel, jobVars, daemonVars, runVars, historyVars
<1>27. ASSUME NEW j \in Jobs, CliRetry(j) PROVE RootInv'
  BY <1>27 DEF CliRetry, Reopen, jobVars, daemonVars, runVars, historyVars
<1>28. ASSUME NEW a \in Approvals, NEW decision \in {"approved", "denied"}, CliDecide(a, decision) PROVE RootInv'
  BY <1>28 DEF CliDecide, jobVars, daemonVars, runVars, historyVars
<1>29. ASSUME NEW d \in Daemons, CliDaemonStop(d) PROVE RootInv'
  BY <1>29 DEF CliDaemonStop, jobVars, daemonVars, runVars, historyVars
<1>30. ASSUME Tick PROVE RootInv'
  BY <1>30 DEF Tick, jobVars, daemonVars, runVars, historyVars
<1>31. CASE UNCHANGED vars
  BY <1>31 DEF vars, jobVars, daemonVars, runVars, historyVars
<1> HIDE DEF TypeInv, TypeOK, RootInv, RootKnown, MapsOnce
<1>32. ASSUME NEW d \in Daemons, Lifecycle(d) PROVE RootInv'
  BY <1>32, <1>2, <1>3, <1>4, <1>5, <1>6, <1>7, <1>8, <1>9, <1>10, <1>11 DEF Lifecycle
<1>33. ASSUME NEW d \in Daemons, Execution(d) PROVE RootInv'
  BY <1>33, <1>12, <1>13, <1>14, <1>15, <1>16, <1>17 DEF Execution
<1>34. CASE Runner
  BY <1>34, <1>18, <1>19 DEF Runner
<1>35. ASSUME NEW d \in Daemons, Wakeups(d) PROVE RootInv'
  BY <1>35, <1>20, <1>21, <1>22 DEF Wakeups
<1>36. CASE Operator
  BY <1>36, <1>23, <1>24, <1>25, <1>26, <1>27, <1>28, <1>29 DEF Operator
<1> QED BY <1>1, <1>30, <1>31, <1>32, <1>33, <1>34, <1>35, <1>36 DEF Next

LEMMA RootStep ==
    ASSUME TypeInv, RootInv, [Next]_vars
    PROVE  [\A j \in Jobs : root[j] # NoRoot => root'[j] = root[j]]_vars
<1> SUFFICES ASSUME NEW j \in Jobs, root[j] # NoRoot, root' # root
             PROVE  root'[j] = root[j]
  OBVIOUS
<1>1. PICK d \in Daemons : MapRoot(d) \/ WriteOutcome(d)
  <2>1. ~ \E e \in Daemons : Lifecycle(e)
    BY DEF Lifecycle, jobVars, CheckActiveDaemon, InsertDaemonRow, RecoverStaleJobs,
       FinishStart, FailStart, BeginStop, FinishStop, Exit, Crash, Heartbeat
  <2>2. ~ \E e \in Daemons : Wakeups(e)
    BY DEF Wakeups, jobVars, WakeWaitingJob, ReadDenial, WriteDenial
  <2>3. ~ Operator
    BY DEF Operator, jobVars, CancelJob, RetryJob, DecideApproval, CliCancel, CliRetry,
       CliDecide, CliDaemonStop
  <2>4. ~ Runner
    BY DEF Runner, jobVars, RequestApproval, RunnerReturns
  <2>5. ~ (\E k \in Jobs : Enqueue(k)) /\ ~ Tick /\ ~ UNCHANGED vars
    BY DEF Enqueue, Tick, vars, jobVars
  <2>6. PICK e \in Daemons : Execution(e)
    BY <2>1, <2>2, <2>3, <2>4, <2>5 DEF Next
  <2>7. MapRoot(e) \/ WriteOutcome(e)
    BY <2>6 DEF Execution, jobVars, ClaimNextJob, StartRun, RenewJobLease, WriteWaiting
  <2> QED BY <2>7
<1>2. loop[d].run \in Run /\ loop[d].run.job \in Jobs
  BY <1>1, PositionType, RunType DEF MapRoot, WriteOutcome
<1>3. CASE MapRoot(d)
  BY <1>2, <1>3 DEF MapRoot, RootInv, MapsOnce, TypeInv, TypeOK
<1>4. CASE WriteOutcome(d)
  <2>1. root[loop[d].run.job] = loop[d].run.root
    BY <1>4 DEF WriteOutcome, RootInv, RootKnown, MapsOnce
  <2> QED BY <1>2, <1>4, <2>1 DEF WriteOutcome, TypeInv, TypeOK
<1> QED BY <1>1, <1>3, <1>4

(* While one daemon process runs at a time, retries, lost executions and
   re-claims of an expired lease all resume the root the job got first.     *)
THEOREM RootNeverReplaced ==
    ASSUME "overlap" \notin Env PROVE Spec => RootIsStable
<1> QED BY InitType, NextType, SoloInit, SoloNext, RootInit, RootNext, RootStep, PTL
        DEF Spec, RootIsStable

-----------------------------------------------------------------------------
(* The claim of a pending execution keeps its job from being claimed again. *)
LEMMA ClaimableIsFree ==
    ASSUME TypeInv, ClaimHeld, NEW j \in Jobs, Claimable(j) PROVE RunsFor(j) = {}
<1> SUFFICES ASSUME NEW r \in runs, r.job = j PROVE FALSE
  BY DEF RunsFor
<1>1. lease[j] \in Int
  BY ConstantsAssumption DEF TypeInv, TypeOK, NoLease
<1> QED BY <1>1 DEF ClaimHeld, Claimable, Expired, Active

-----------------------------------------------------------------------------
(* Cancellation.                                                           *)

LEMMA NotCancelledInit == Init => NotCancelled
BY DEF Init, NotCancelled, Idle

LEMMA NotCancelledNext ==
    ASSUME "overlap" \notin Env, "cli" \notin Env, TypeInv, Solo, NotCancelled, [Next]_vars
    PROVE  NotCancelled'
<1> USE ConstantsAssumption, PositionType, RunType, OthersIdle, BusyIsLive DEF TypeInv, TypeOK, NotCancelled
<1>1. ASSUME NEW j \in Jobs, Enqueue(j) PROVE NotCancelled'
  BY <1>1 DEF Enqueue, Idle, jobVars, daemonVars, runVars, historyVars
<1>2. ASSUME NEW d \in Daemons, CheckActiveDaemon(d) PROVE NotCancelled'
  BY <1>2 DEF CheckActiveDaemon, Idle, jobVars, daemonVars, runVars, historyVars
<1>3. ASSUME NEW d \in Daemons, InsertDaemonRow(d) PROVE NotCancelled'
  BY <1>3 DEF InsertDaemonRow, Idle, jobVars, daemonVars, runVars, historyVars
<1>4. ASSUME NEW d \in Daemons, RecoverStaleJobs(d) PROVE NotCancelled'
  <2>1. \A e \in Daemons : loop[e] = Idle
    BY <1>4 DEF RecoverStaleJobs, Solo, Live
  <2> QED BY <1>4, <2>1 DEF RecoverStaleJobs, Idle, jobVars, daemonVars, runVars, historyVars
<1>5. ASSUME NEW d \in Daemons, FinishStart(d) PROVE NotCancelled'
  BY <1>5 DEF FinishStart, Idle, jobVars, daemonVars, runVars, historyVars
<1>6. ASSUME NEW d \in Daemons, FailStart(d) PROVE NotCancelled'
  BY <1>6 DEF FailStart, Idle, jobVars, daemonVars, runVars, historyVars
<1>7. ASSUME NEW d \in Daemons, BeginStop(d) PROVE NotCancelled'
  BY <1>7 DEF BeginStop, Idle, jobVars, daemonVars, runVars, historyVars
<1>8. ASSUME NEW d \in Daemons, FinishStop(d) PROVE NotCancelled'
  BY <1>8 DEF FinishStop, Idle, jobVars, daemonVars, runVars, historyVars
<1>9. ASSUME NEW d \in Daemons, Exit(d) PROVE NotCancelled'
  BY <1>9 DEF Exit, LoseRuns, Idle, jobVars, daemonVars, runVars, historyVars
<1>10. ASSUME NEW d \in Daemons, Crash(d) PROVE NotCancelled'
  BY <1>10 DEF Crash, LoseRuns, Idle, jobVars, daemonVars, runVars, historyVars
<1>11. ASSUME NEW d \in Daemons, Heartbeat(d) PROVE NotCancelled'
  BY <1>11 DEF Heartbeat, Idle, jobVars, daemonVars, runVars, historyVars
<1>12. ASSUME NEW d \in Daemons, NEW j \in Jobs, ClaimNextJob(d, j) PROVE NotCancelled'
  <2>1. \A e \in Daemons : loop[e] = Idle
    BY <1>12, ListeningAlone DEF ClaimNextJob
  <2> QED BY <1>12, <2>1 DEF ClaimNextJob, ClaimedRun, Idle, jobVars, daemonVars, runVars, historyVars
<1>13. ASSUME NEW d \in Daemons, StartRun(d) PROVE NotCancelled'
  <2>1. loop[d].run.job \in Jobs
    BY <1>13, PositionType, RunType DEF StartRun
  <2> QED BY <1>13, <2>1 DEF StartRun, Idle, jobVars, daemonVars, runVars, historyVars
<1>14. ASSUME NEW d \in Daemons, MapRoot(d) PROVE NotCancelled'
  <2>1. loop[d].run.job \in Jobs
    BY <1>14, PositionType, RunType DEF MapRoot
  <2> QED BY <1>14, <2>1 DEF MapRoot, Idle, jobVars, daemonVars, runVars, historyVars
<1>15. ASSUME NEW d \in Daemons, NEW j \in Jobs, RenewJobLease(d, j) PROVE NotCancelled'
  BY <1>15 DEF RenewJobLease, Idle, jobVars, daemonVars, runVars, historyVars
<1>16. ASSUME NEW d \in Daemons, WriteWaiting(d) PROVE NotCancelled'
  <2>1. loop[d].run.job \in Jobs
    BY <1>16, PositionType, RunType DEF WriteWaiting
  <2>2. \A e \in Daemons : loop'[e] = Idle
    BY <1>16 DEF WriteWaiting, EndRun, Idle
  <2> QED BY <1>16, <2>2 DEF Idle
<1>17. ASSUME NEW d \in Daemons, WriteOutcome(d) PROVE NotCancelled'
  <2>1. loop[d].run.job \in Jobs
    BY <1>17, PositionType, RunType DEF WriteOutcome
  <2>2. \A e \in Daemons : loop'[e] = Idle
    BY <1>17 DEF WriteOutcome, EndRun, Idle
  <2> QED BY <1>17, <2>2 DEF Idle
<1>18. ASSUME NEW r \in runs, NEW a \in Approvals, RequestApproval(r, a) PROVE NotCancelled'
  BY <1>18 DEF RequestApproval, Idle, jobVars, daemonVars, runVars, historyVars
<1>19. ASSUME NEW r \in runs, NEW o \in Outcome, NEW b \in Approvals \cup {NoApproval}, RunnerReturns(r, o, b) PROVE NotCancelled'
  BY <1>19 DEF RunnerReturns, Discarded, Run, Idle, jobVars, daemonVars, runVars, historyVars
<1>20. ASSUME NEW d \in Daemons, NEW j \in Jobs, WakeWaitingJob(d, j) PROVE NotCancelled'
  BY <1>20 DEF WakeWaitingJob, Idle, jobVars, daemonVars, runVars, historyVars
<1>21. ASSUME NEW d \in Daemons, NEW j \in Jobs, ReadDenial(d, j) PROVE NotCancelled'
  BY <1>21 DEF ReadDenial, Decided, Idle, jobVars, daemonVars, runVars, historyVars
<1>22. ASSUME NEW d \in Daemons, WriteDenial(d) PROVE NotCancelled'
  <2>2. \A e \in Daemons : loop'[e] = Idle
    BY <1>22 DEF WriteDenial, Idle
  <2> QED BY <1>22, <2>2 DEF Idle
<1>23. ASSUME NEW d \in Daemons, NEW j \in Jobs, CancelJob(d, j) PROVE NotCancelled'
  <2>1. \A e \in Daemons : loop[e] = Idle
    BY <1>23 DEF CancelJob, Listening, Live
  <2> QED BY <1>23, <2>1 DEF CancelJob, Idle, jobVars, daemonVars, runVars, historyVars
<1>24. ASSUME NEW d \in Daemons, NEW j \in Jobs, RetryJob(d, j) PROVE NotCancelled'
  BY <1>24 DEF RetryJob, Reopen, jobVars, daemonVars, runVars, historyVars
<1>25. ASSUME NEW d \in Daemons, NEW a \in Approvals, NEW decision \in {"approved", "denied"}, DecideApproval(d, a, decision) PROVE NotCancelled'
  BY <1>25 DEF DecideApproval, Idle, jobVars, daemonVars, runVars, historyVars
<1>26. ASSUME NEW j \in Jobs, CliCancel(j) PROVE NotCancelled'
  BY <1>26 DEF CliCancel, Idle, jobVars, daemonVars, runVars, historyVars
<1>27. ASSUME NEW j \in Jobs, CliRetry(j) PROVE NotCancelled'
  BY <1>27 DEF CliRetry, Reopen, jobVars, daemonVars, runVars, historyVars
<1>28. ASSUME NEW a \in Approvals, NEW decision \in {"approved", "denied"}, CliDecide(a, decision) PROVE NotCancelled'
  BY <1>28 DEF CliDecide, Idle, jobVars, daemonVars, runVars, historyVars
<1>29. ASSUME NEW d \in Daemons, CliDaemonStop(d) PROVE NotCancelled'
  BY <1>29 DEF CliDaemonStop, Idle, jobVars, daemonVars, runVars, historyVars
<1>30. ASSUME Tick PROVE NotCancelled'
  BY <1>30 DEF Tick, Idle, jobVars, daemonVars, runVars, historyVars
<1>31. CASE UNCHANGED vars
  BY <1>31 DEF vars, Idle, jobVars, daemonVars, runVars, historyVars
<1> HIDE DEF TypeInv, TypeOK, NotCancelled
<1>32. ASSUME NEW d \in Daemons, Lifecycle(d) PROVE NotCancelled'
  BY <1>32, <1>2, <1>3, <1>4, <1>5, <1>6, <1>7, <1>8, <1>9, <1>10, <1>11 DEF Lifecycle
<1>33. ASSUME NEW d \in Daemons, Execution(d) PROVE NotCancelled'
  BY <1>33, <1>12, <1>13, <1>14, <1>15, <1>16, <1>17 DEF Execution
<1>34. CASE Runner
  BY <1>34, <1>18, <1>19 DEF Runner
<1>35. ASSUME NEW d \in Daemons, Wakeups(d) PROVE NotCancelled'
  BY <1>35, <1>20, <1>21, <1>22 DEF Wakeups
<1>36. CASE Operator
  BY <1>36, <1>23, <1>24, <1>25, <1>26, <1>27, <1>28, <1>29 DEF Operator
<1> QED BY <1>1, <1>30, <1>31, <1>32, <1>33, <1>34, <1>35, <1>36 DEF Next

CancelledKept == \A j \in Jobs : status[j] = "cancelled" /\ status'[j] # "cancelled"
                                    => reopens'[j] > reopens[j]

LEMMA CancelStep ==
    ASSUME "overlap" \notin Env, "cli" \notin Env, TypeInv, Solo, NotCancelled, [Next]_vars
    PROVE  [CancelledKept]_vars
<1> USE ConstantsAssumption, PositionType, RunType DEF TypeInv, TypeOK, NotCancelled, CancelledKept
<1>1. ASSUME NEW j \in Jobs, Enqueue(j) PROVE CancelledKept
  BY <1>1 DEF Enqueue, jobVars, daemonVars, runVars, historyVars
<1>2. ASSUME NEW d \in Daemons, CheckActiveDaemon(d) PROVE CancelledKept
  BY <1>2 DEF CheckActiveDaemon, jobVars, daemonVars, runVars, historyVars
<1>3. ASSUME NEW d \in Daemons, InsertDaemonRow(d) PROVE CancelledKept
  BY <1>3 DEF InsertDaemonRow, jobVars, daemonVars, runVars, historyVars
<1>4. ASSUME NEW d \in Daemons, RecoverStaleJobs(d) PROVE CancelledKept
  BY <1>4 DEF RecoverStaleJobs, Active
<1>5. ASSUME NEW d \in Daemons, FinishStart(d) PROVE CancelledKept
  BY <1>5 DEF FinishStart, jobVars, daemonVars, runVars, historyVars
<1>6. ASSUME NEW d \in Daemons, FailStart(d) PROVE CancelledKept
  BY <1>6 DEF FailStart, jobVars, daemonVars, runVars, historyVars
<1>7. ASSUME NEW d \in Daemons, BeginStop(d) PROVE CancelledKept
  BY <1>7 DEF BeginStop, jobVars, daemonVars, runVars, historyVars
<1>8. ASSUME NEW d \in Daemons, FinishStop(d) PROVE CancelledKept
  BY <1>8 DEF FinishStop, jobVars, daemonVars, runVars, historyVars
<1>9. ASSUME NEW d \in Daemons, Exit(d) PROVE CancelledKept
  BY <1>9 DEF Exit, jobVars, daemonVars, runVars, historyVars
<1>10. ASSUME NEW d \in Daemons, Crash(d) PROVE CancelledKept
  BY <1>10 DEF Crash, jobVars, daemonVars, runVars, historyVars
<1>11. ASSUME NEW d \in Daemons, Heartbeat(d) PROVE CancelledKept
  BY <1>11 DEF Heartbeat, jobVars, daemonVars, runVars, historyVars
<1>12. ASSUME NEW d \in Daemons, NEW j \in Jobs, ClaimNextJob(d, j) PROVE CancelledKept
  BY <1>12 DEF ClaimNextJob, Claimable, Active
<1>13. ASSUME NEW d \in Daemons, StartRun(d) PROVE CancelledKept
  <2>1. loop[d].run.job \in Jobs
    BY <1>13, PositionType, RunType DEF StartRun
  <2> QED BY <1>13, <2>1 DEF StartRun
<1>14. ASSUME NEW d \in Daemons, MapRoot(d) PROVE CancelledKept
  <2>1. loop[d].run.job \in Jobs
    BY <1>14, PositionType, RunType DEF MapRoot
  <2> QED BY <1>14, <2>1 DEF MapRoot
<1>15. ASSUME NEW d \in Daemons, NEW j \in Jobs, RenewJobLease(d, j) PROVE CancelledKept
  BY <1>15 DEF RenewJobLease, jobVars, daemonVars, runVars, historyVars
<1>16. ASSUME NEW d \in Daemons, WriteWaiting(d) PROVE CancelledKept
  <2>1. loop[d].run.job \in Jobs
    BY <1>16, PositionType, RunType DEF WriteWaiting
  <2> QED BY <1>16, <2>1 DEF WriteWaiting
<1>17. ASSUME NEW d \in Daemons, WriteOutcome(d) PROVE CancelledKept
  <2>1. loop[d].run.job \in Jobs
    BY <1>17, PositionType, RunType DEF WriteOutcome
  <2> QED BY <1>17, <2>1 DEF WriteOutcome
<1>18. ASSUME NEW r \in runs, NEW a \in Approvals, RequestApproval(r, a) PROVE CancelledKept
  BY <1>18 DEF RequestApproval, jobVars, daemonVars, runVars, historyVars
<1>19. ASSUME NEW r \in runs, NEW o \in Outcome, NEW b \in Approvals \cup {NoApproval}, RunnerReturns(r, o, b) PROVE CancelledKept
  BY <1>19 DEF RunnerReturns, jobVars, daemonVars, runVars, historyVars
<1>20. ASSUME NEW d \in Daemons, NEW j \in Jobs, WakeWaitingJob(d, j) PROVE CancelledKept
  BY <1>20 DEF WakeWaitingJob, Decided
<1>21. ASSUME NEW d \in Daemons, NEW j \in Jobs, ReadDenial(d, j) PROVE CancelledKept
  BY <1>21 DEF ReadDenial, jobVars, daemonVars, runVars, historyVars
<1>22. ASSUME NEW d \in Daemons, WriteDenial(d) PROVE CancelledKept
  <2>1. loop[d].job \in Jobs
    BY <1>22, PositionType DEF WriteDenial
  <2> QED BY <1>22, <2>1 DEF WriteDenial
<1>23. ASSUME NEW d \in Daemons, NEW j \in Jobs, CancelJob(d, j) PROVE CancelledKept
  BY <1>23 DEF CancelJob, jobVars, daemonVars, runVars, historyVars
<1>24. ASSUME NEW d \in Daemons, NEW j \in Jobs, RetryJob(d, j) PROVE CancelledKept
  <2>1. reopens[j] \in Nat /\ reopens'[j] = reopens[j] + 1
    BY <1>24 DEF RetryJob, Reopen
  <2> QED BY <1>24, <2>1 DEF RetryJob, Reopen
<1>25. ASSUME NEW d \in Daemons, NEW a \in Approvals, NEW decision \in {"approved", "denied"}, DecideApproval(d, a, decision) PROVE CancelledKept
  BY <1>25 DEF DecideApproval, jobVars, daemonVars, runVars, historyVars
<1>26. ASSUME NEW j \in Jobs, CliCancel(j) PROVE CancelledKept
  BY <1>26 DEF CliCancel, jobVars, daemonVars, runVars, historyVars
<1>27. ASSUME NEW j \in Jobs, CliRetry(j) PROVE CancelledKept
  BY <1>27 DEF CliRetry
<1>28. ASSUME NEW a \in Approvals, NEW decision \in {"approved", "denied"}, CliDecide(a, decision) PROVE CancelledKept
  BY <1>28 DEF CliDecide, jobVars, daemonVars, runVars, historyVars
<1>29. ASSUME NEW d \in Daemons, CliDaemonStop(d) PROVE CancelledKept
  BY <1>29 DEF CliDaemonStop, jobVars, daemonVars, runVars, historyVars
<1>30. ASSUME Tick PROVE CancelledKept
  BY <1>30 DEF Tick, jobVars, daemonVars, runVars, historyVars
<1>31. CASE UNCHANGED vars
  BY <1>31 DEF vars, jobVars, daemonVars, runVars, historyVars
<1> HIDE DEF TypeInv, TypeOK, NotCancelled, CancelledKept
<1>32. ASSUME NEW d \in Daemons, Lifecycle(d) PROVE CancelledKept
  BY <1>32, <1>2, <1>3, <1>4, <1>5, <1>6, <1>7, <1>8, <1>9, <1>10, <1>11 DEF Lifecycle
<1>33. ASSUME NEW d \in Daemons, Execution(d) PROVE CancelledKept
  BY <1>33, <1>12, <1>13, <1>14, <1>15, <1>16, <1>17 DEF Execution
<1>34. CASE Runner
  BY <1>34, <1>18, <1>19 DEF Runner
<1>35. ASSUME NEW d \in Daemons, Wakeups(d) PROVE CancelledKept
  BY <1>35, <1>20, <1>21, <1>22 DEF Wakeups
<1>36. CASE Operator
  BY <1>36, <1>23, <1>24, <1>25, <1>26, <1>27, <1>28, <1>29 DEF Operator
<1> QED BY <1>1, <1>30, <1>31, <1>32, <1>33, <1>34, <1>35, <1>36 DEF Next

(* While one daemon process runs at a time and operators act through it, only
   an operator's retry takes a job out of `cancelled`, even when leases are
   missed or the cancelled execution is still running.                     *)
THEOREM CancellationSticks ==
    ASSUME "overlap" \notin Env, "cli" \notin Env PROVE Spec => CancelSticks
<1> QED BY InitType, NextType, SoloInit, SoloNext, NotCancelledInit, NotCancelledNext, CancelStep, PTL
        DEF Spec, CancelSticks, CancelledKept

-----------------------------------------------------------------------------
(* One execution per job (Env = {}).                                        *)

LEMMA ExclusiveInit == Init => ExclusiveInv
BY DEF Init, ExclusiveInv, ClaimHeld, SingleExecution, WritesOwnJob, Idle

LEMMA ExclusiveNext ==
    ASSUME Env = {}, TypeInv, Solo, ExclusiveInv, [Next]_vars PROVE ExclusiveInv'
<1> USE ConstantsAssumption, PositionType, RunType, OthersIdle, BusyIsLive
    DEF TypeInv, TypeOK, ExclusiveInv, ClaimHeld, SingleExecution, WritesOwnJob, Active
<1>1. ASSUME NEW j \in Jobs, Enqueue(j) PROVE ExclusiveInv'
  BY <1>1 DEF Enqueue, jobVars, daemonVars, runVars, historyVars
<1>2. ASSUME NEW d \in Daemons, CheckActiveDaemon(d) PROVE ExclusiveInv'
  BY <1>2 DEF CheckActiveDaemon, Idle, jobVars, daemonVars, runVars, historyVars
<1>3. ASSUME NEW d \in Daemons, InsertDaemonRow(d) PROVE ExclusiveInv'
  BY <1>3 DEF InsertDaemonRow, Idle, jobVars, daemonVars, runVars, historyVars
<1>4. ASSUME NEW d \in Daemons, RecoverStaleJobs(d) PROVE ExclusiveInv'
  <2>1. \A e \in Daemons : loop[e] = Idle
    BY <1>4, NothingRunsAtStart
  <2>2. runs = {}
    BY <1>4, NothingRunsAtStart
  <2> QED BY <1>4, <2>1, <2>2 DEF RecoverStaleJobs, Idle, jobVars, daemonVars, runVars, historyVars
<1>5. ASSUME NEW d \in Daemons, FinishStart(d) PROVE ExclusiveInv'
  BY <1>5 DEF FinishStart, Idle, jobVars, daemonVars, runVars, historyVars
<1>6. ASSUME NEW d \in Daemons, FailStart(d) PROVE ExclusiveInv'
  BY <1>6 DEF FailStart, Idle, jobVars, daemonVars, runVars, historyVars
<1>7. ASSUME NEW d \in Daemons, BeginStop(d) PROVE ExclusiveInv'
  BY <1>7 DEF BeginStop, Idle, jobVars, daemonVars, runVars, historyVars
<1>8. ASSUME NEW d \in Daemons, FinishStop(d) PROVE ExclusiveInv'
  BY <1>8 DEF FinishStop, Idle, jobVars, daemonVars, runVars, historyVars
<1>9. ASSUME NEW d \in Daemons, Exit(d) PROVE ExclusiveInv'
  BY <1>9 DEF Exit, LoseRuns, RunsOf, Idle, jobVars, daemonVars, runVars, historyVars
<1>10. ASSUME NEW d \in Daemons, Crash(d) PROVE ExclusiveInv'
  BY <1>10 DEF Crash, LoseRuns, RunsOf, Idle, jobVars, daemonVars, runVars, historyVars
<1>11. ASSUME NEW d \in Daemons, Heartbeat(d) PROVE ExclusiveInv'
  BY <1>11 DEF Heartbeat, Idle, jobVars, daemonVars, runVars, historyVars
<1>12. ASSUME NEW d \in Daemons, NEW j \in Jobs, ClaimNextJob(d, j) PROVE ExclusiveInv'
  <2>2. \A e \in Daemons : loop[e] = Idle
    BY <1>12, ListeningAlone DEF ClaimNextJob
  <2>3. \A r \in runs : r.job # j
    BY <1>12 DEF ClaimNextJob, Claimable, Expired
  <2>4. /\ ClaimedRun(d, j).job = j /\ ClaimedRun(d, j).daemon = d
        /\ ClaimedRun(d, j).attempt = attempt[j] + 1
    BY DEF ClaimedRun
  <2>5. ClaimHeld'
    BY <1>12, <2>3, <2>4 DEF ClaimNextJob, Granted
  <2>6. SingleExecution'
    BY <1>12, <2>3, <2>4 DEF ClaimNextJob
  <2>7. WritesOwnJob'
    BY <1>12, <2>2, <2>4 DEF ClaimNextJob, Idle
  <2> QED BY <2>5, <2>6, <2>7
<1>13. ASSUME NEW d \in Daemons, StartRun(d) PROVE ExclusiveInv'
  <2>1. loop[d].run.job \in Jobs
    BY <1>13, PositionType, RunType DEF StartRun
  <2>2. \A e \in Daemons : e # d => loop[e] = Idle
    BY <1>13 DEF StartRun
  <2>3. /\ loop[d].run \in runs /\ loop[d].run.daemon = d
        /\ status[loop[d].run.job] \in Active
    BY <1>13 DEF StartRun
  <2>4. ClaimHeld'
    BY <1>13, <2>1, <2>3 DEF StartRun, Granted, runVars
  <2>5. WritesOwnJob'
    <3>1. status'[loop[d].run.job] = "running" /\ runs' = runs
      BY <1>13, <2>1 DEF StartRun, runVars
    <3>2. \/ loop' = [loop EXCEPT ![d] = Idle]
          \/ loop' = [loop EXCEPT ![d] = [pc |-> "root", run |-> loop[d].run]]
      BY <1>13 DEF StartRun
    <3> QED BY <2>2, <2>3, <3>1, <3>2 DEF Idle
  <2>6. SingleExecution'
    BY <1>13 DEF StartRun, runVars
  <2> QED BY <2>4, <2>5, <2>6
<1>14. ASSUME NEW d \in Daemons, MapRoot(d) PROVE ExclusiveInv'
  <2>1. loop[d].run.job \in Jobs
    BY <1>14, PositionType, RunType DEF MapRoot
  <2>2. \A e \in Daemons : loop'[e] = Idle
    BY <1>14 DEF MapRoot, Idle
  <2>3. /\ loop[d].run \in runs /\ loop[d].run.daemon = d
        /\ status[loop[d].run.job] \in Active
    BY <1>14 DEF MapRoot
  <2>4. ClaimHeld'
    BY <1>14, <2>1, <2>3 DEF MapRoot, runVars
  <2> QED BY <1>14, <2>2, <2>4 DEF MapRoot, Idle, runVars
<1>15. ASSUME NEW d \in Daemons, NEW j \in Jobs, RenewJobLease(d, j) PROVE ExclusiveInv'
  BY <1>15 DEF RenewJobLease, Granted, jobVars, daemonVars, runVars, historyVars
<1>16. ASSUME NEW d \in Daemons, WriteWaiting(d) PROVE ExclusiveInv'
  <2>1. loop[d].run.job \in Jobs
    BY <1>16, PositionType, RunType DEF WriteWaiting
  <2>3. \A e \in Daemons : loop'[e] = Idle
    BY <1>16 DEF WriteWaiting, EndRun, Idle
  <2>4. /\ loop[d].run \in runs /\ runs' = runs \ {loop[d].run}
    BY <1>16 DEF WriteWaiting, EndRun
  <2>5. \A r \in runs' : r.job # loop[d].run.job
    BY <2>4
  <2>6. ClaimHeld'
    BY <1>16, <2>1, <2>4, <2>5 DEF WriteWaiting
  <2> QED BY <2>3, <2>4, <2>6 DEF Idle
<1>17. ASSUME NEW d \in Daemons, WriteOutcome(d) PROVE ExclusiveInv'
  <2>1. loop[d].run.job \in Jobs
    BY <1>17, PositionType, RunType DEF WriteOutcome
  <2>3. \A e \in Daemons : loop'[e] = Idle
    BY <1>17 DEF WriteOutcome, EndRun, Idle
  <2>4. /\ loop[d].run \in runs /\ runs' = runs \ {loop[d].run}
    BY <1>17 DEF WriteOutcome, EndRun
  <2>5. \A r \in runs' : r.job # loop[d].run.job
    BY <2>4
  <2>6. ClaimHeld'
    BY <1>17, <2>1, <2>4, <2>5 DEF WriteOutcome
  <2> QED BY <2>3, <2>4, <2>6 DEF Idle
<1>18. ASSUME NEW r \in runs, NEW a \in Approvals, RequestApproval(r, a) PROVE ExclusiveInv'
  BY <1>18 DEF RequestApproval, Idle, jobVars, daemonVars, runVars, historyVars
<1>19. ASSUME NEW r \in runs, NEW o \in Outcome, NEW b \in Approvals \cup {NoApproval}, RunnerReturns(r, o, b) PROVE ExclusiveInv'
  <2>1. CASE Discarded(r)
    <3>1. runs' = runs \ {r} /\ UNCHANGED <<loop, jobVars>>
      BY <1>19, <2>1 DEF RunnerReturns
    <3>2. \A e \in Daemons : loop[e].pc \in {"start", "root", "write"} => loop[e].run # r
      BY <1>19 DEF RunnerReturns, Idle
    <3> QED BY <3>1, <3>2 DEF jobVars
  <2>2. CASE ~Discarded(r)
    <3>1. r.daemon \in Daemons /\ loop[r.daemon] = Idle /\ status[r.job] \in Active
      BY <1>19, <2>2 DEF RunnerReturns, Discarded
    <3>2. runs' = runs /\ UNCHANGED jobVars
      BY <1>19, <2>2 DEF RunnerReturns, runVars
    <3>3. loop' = [loop EXCEPT ![r.daemon] =
                     [pc |-> "write", run |-> r, outcome |-> o, ref |-> b]]
      BY <1>19, <2>2 DEF RunnerReturns
    <3> QED BY <3>1, <3>2, <3>3 DEF jobVars
  <2> QED BY <2>1, <2>2
<1>20. ASSUME NEW d \in Daemons, NEW j \in Jobs, WakeWaitingJob(d, j) PROVE ExclusiveInv'
  <2>2. \A e \in Daemons : loop[e] = Idle
    BY <1>20, ListeningAlone DEF WakeWaitingJob
  <2>4. \A r \in runs : r.job # j
    BY <1>20 DEF WakeWaitingJob, Decided, Claimable, Expired, NoLease
  <2> QED BY <1>20, <2>2, <2>4 DEF WakeWaitingJob, Idle, jobVars, daemonVars, runVars, historyVars
<1>21. ASSUME NEW d \in Daemons, NEW j \in Jobs, ReadDenial(d, j) PROVE ExclusiveInv'
  BY <1>21 DEF ReadDenial, Decided, Idle, jobVars, daemonVars, runVars, historyVars
<1>22. ASSUME NEW d \in Daemons, WriteDenial(d) PROVE ExclusiveInv'
  <2>1. loop[d].job \in Jobs
    BY <1>22, PositionType DEF WriteDenial
  <2>3. \A e \in Daemons : loop'[e] = Idle
    BY <1>22 DEF WriteDenial, EndRun, Idle
  <2>4. \A r \in runs : r.job # loop[d].job
    BY <1>22, <2>1 DEF WriteDenial
  <2>5. ClaimHeld'
    BY <1>22, <2>1, <2>4 DEF WriteDenial, runVars
  <2> QED BY <1>22, <2>3, <2>5 DEF WriteDenial, Idle, runVars
<1>23. ASSUME NEW d \in Daemons, NEW j \in Jobs, CancelJob(d, j) PROVE ExclusiveInv'
  <2>2. \A e \in Daemons : loop[e] = Idle
    BY <1>23 DEF CancelJob, Listening, Live
  <2> QED BY <1>23, <2>2 DEF CancelJob, Idle, jobVars, daemonVars, runVars, historyVars
<1>24. ASSUME NEW d \in Daemons, NEW j \in Jobs, RetryJob(d, j) PROVE ExclusiveInv'
  <2>2. \A e \in Daemons : loop[e] = Idle
    BY <1>24, ListeningAlone DEF RetryJob
  <2>4. \A r \in runs : r.job # j
    BY <1>24 DEF RetryJob, RunsFor
  <2> QED BY <1>24, <2>2, <2>4 DEF RetryJob, Reopen, Idle, jobVars, daemonVars, runVars, historyVars
<1>25. ASSUME NEW d \in Daemons, NEW a \in Approvals, NEW decision \in {"approved", "denied"}, DecideApproval(d, a, decision) PROVE ExclusiveInv'
  BY <1>25 DEF DecideApproval, Idle, jobVars, daemonVars, runVars, historyVars
<1>26. ASSUME NEW j \in Jobs, CliCancel(j) PROVE ExclusiveInv'
  BY <1>26 DEF CliCancel, Idle, jobVars, daemonVars, runVars, historyVars
<1>27. ASSUME NEW j \in Jobs, CliRetry(j) PROVE ExclusiveInv'
  BY <1>27 DEF CliRetry, Idle, jobVars, daemonVars, runVars, historyVars
<1>28. ASSUME NEW a \in Approvals, NEW decision \in {"approved", "denied"}, CliDecide(a, decision) PROVE ExclusiveInv'
  BY <1>28 DEF CliDecide, Idle, jobVars, daemonVars, runVars, historyVars
<1>29. ASSUME NEW d \in Daemons, CliDaemonStop(d) PROVE ExclusiveInv'
  BY <1>29 DEF CliDaemonStop, Idle, jobVars, daemonVars, runVars, historyVars
<1>30. ASSUME Tick PROVE ExclusiveInv'
  <2>2. \A e \in Daemons : loop[e] = Idle
    BY <1>30 DEF Tick
  <2>3. ClaimHeld'
    BY <1>30 DEF Tick, OnTime, runVars
  <2> QED BY <1>30, <2>2, <2>3 DEF Tick, Idle, runVars
<1>31. CASE UNCHANGED vars
  BY <1>31 DEF vars, Idle, jobVars, daemonVars, runVars, historyVars
<1> HIDE DEF TypeInv, TypeOK, ExclusiveInv, ClaimHeld, SingleExecution, WritesOwnJob, Active
<1>32. ASSUME NEW d \in Daemons, Lifecycle(d) PROVE ExclusiveInv'
  BY <1>32, <1>2, <1>3, <1>4, <1>5, <1>6, <1>7, <1>8, <1>9, <1>10, <1>11 DEF Lifecycle
<1>33. ASSUME NEW d \in Daemons, Execution(d) PROVE ExclusiveInv'
  BY <1>33, <1>12, <1>13, <1>14, <1>15, <1>16, <1>17 DEF Execution
<1>34. CASE Runner
  BY <1>34, <1>18, <1>19 DEF Runner
<1>35. ASSUME NEW d \in Daemons, Wakeups(d) PROVE ExclusiveInv'
  BY <1>35, <1>20, <1>21, <1>22 DEF Wakeups
<1>36. CASE Operator
  BY <1>36, <1>23, <1>24, <1>25, <1>26, <1>27, <1>28, <1>29 DEF Operator
<1> QED BY <1>1, <1>30, <1>31, <1>32, <1>33, <1>34, <1>35, <1>36 DEF Next

(* With no unfavourable circumstance a job has at most one pending execution,
   across crashes, restarts, lease expiry, cancellation and retry.          *)
THEOREM OneExecutionPerJob ==
    ASSUME Env = {} PROVE Spec => []SingleExecution
<1>1. ExclusiveInv => SingleExecution
  BY DEF ExclusiveInv
<1>2. "overlap" \notin Env
  OBVIOUS
<1>3. TypeInv /\ Solo /\ [Next]_vars => Solo'
  BY <1>2, SoloNext
<1>4. TypeInv /\ Solo /\ ExclusiveInv /\ [Next]_vars => ExclusiveInv'
  BY ExclusiveNext
<1> QED BY <1>1, <1>3, <1>4, InitType, NextType, SoloInit, ExclusiveInit, PTL DEF Spec

(* ... and that execution still holds the claim it started with whenever it
   writes, unless an operator cancelled the job.                           *)
THEOREM ExecutionsHoldClaims ==
    ASSUME Env = {} PROVE Spec => []ClaimHeld
<1>1. ExclusiveInv => ClaimHeld
  BY DEF ExclusiveInv
<1>2. "overlap" \notin Env
  OBVIOUS
<1>3. TypeInv /\ Solo /\ [Next]_vars => Solo'
  BY <1>2, SoloNext
<1>4. TypeInv /\ Solo /\ ExclusiveInv /\ [Next]_vars => ExclusiveInv'
  BY ExclusiveNext
<1> QED BY <1>1, <1>3, <1>4, InitType, NextType, SoloInit, ExclusiveInit, PTL DEF Spec

CompletedKept == \A j \in Jobs : status[j] = "completed" => status'[j] = "completed"

LEMMA CompletedStep ==
    ASSUME Env = {}, TypeInv, ExclusiveInv, [Next]_vars PROVE [CompletedKept]_vars
<1> USE PositionType, RunType
    DEF TypeInv, TypeOK, ExclusiveInv, WritesOwnJob, CompletedKept, Active
<1>1. ASSUME NEW j \in Jobs, Enqueue(j) PROVE CompletedKept
  BY <1>1 DEF Enqueue, jobVars, daemonVars, runVars, historyVars
<1>2. ASSUME NEW d \in Daemons, CheckActiveDaemon(d) PROVE CompletedKept
  BY <1>2 DEF CheckActiveDaemon, jobVars, daemonVars, runVars, historyVars
<1>3. ASSUME NEW d \in Daemons, InsertDaemonRow(d) PROVE CompletedKept
  BY <1>3 DEF InsertDaemonRow, jobVars, daemonVars, runVars, historyVars
<1>4. ASSUME NEW d \in Daemons, RecoverStaleJobs(d) PROVE CompletedKept
  BY <1>4 DEF RecoverStaleJobs, jobVars, daemonVars, runVars, historyVars
<1>5. ASSUME NEW d \in Daemons, FinishStart(d) PROVE CompletedKept
  BY <1>5 DEF FinishStart, jobVars, daemonVars, runVars, historyVars
<1>6. ASSUME NEW d \in Daemons, FailStart(d) PROVE CompletedKept
  BY <1>6 DEF FailStart, jobVars, daemonVars, runVars, historyVars
<1>7. ASSUME NEW d \in Daemons, BeginStop(d) PROVE CompletedKept
  BY <1>7 DEF BeginStop, jobVars, daemonVars, runVars, historyVars
<1>8. ASSUME NEW d \in Daemons, FinishStop(d) PROVE CompletedKept
  BY <1>8 DEF FinishStop, jobVars, daemonVars, runVars, historyVars
<1>9. ASSUME NEW d \in Daemons, Exit(d) PROVE CompletedKept
  BY <1>9 DEF Exit, jobVars, daemonVars, runVars, historyVars
<1>10. ASSUME NEW d \in Daemons, Crash(d) PROVE CompletedKept
  BY <1>10 DEF Crash, jobVars, daemonVars, runVars, historyVars
<1>11. ASSUME NEW d \in Daemons, Heartbeat(d) PROVE CompletedKept
  BY <1>11 DEF Heartbeat, jobVars, daemonVars, runVars, historyVars
<1>12. ASSUME NEW d \in Daemons, NEW j \in Jobs, ClaimNextJob(d, j) PROVE CompletedKept
  BY <1>12 DEF ClaimNextJob, Claimable
<1>13. ASSUME NEW d \in Daemons, StartRun(d) PROVE CompletedKept
  <2>1. loop[d].run.job \in Jobs
    BY <1>13, PositionType, RunType DEF StartRun
  <2> QED BY <1>13, <2>1 DEF StartRun
<1>14. ASSUME NEW d \in Daemons, MapRoot(d) PROVE CompletedKept
  <2>1. loop[d].run.job \in Jobs
    BY <1>14, PositionType, RunType DEF MapRoot
  <2> QED BY <1>14, <2>1 DEF MapRoot
<1>15. ASSUME NEW d \in Daemons, NEW j \in Jobs, RenewJobLease(d, j) PROVE CompletedKept
  BY <1>15 DEF RenewJobLease, jobVars, daemonVars, runVars, historyVars
<1>16. ASSUME NEW d \in Daemons, WriteWaiting(d) PROVE CompletedKept
  <2>1. loop[d].run.job \in Jobs
    BY <1>16, PositionType, RunType DEF WriteWaiting
  <2> QED BY <1>16, <2>1 DEF WriteWaiting
<1>17. ASSUME NEW d \in Daemons, WriteOutcome(d) PROVE CompletedKept
  <2>1. loop[d].run.job \in Jobs
    BY <1>17, PositionType, RunType DEF WriteOutcome
  <2> QED BY <1>17, <2>1 DEF WriteOutcome
<1>18. ASSUME NEW r \in runs, NEW a \in Approvals, RequestApproval(r, a) PROVE CompletedKept
  BY <1>18 DEF RequestApproval, jobVars, daemonVars, runVars, historyVars
<1>19. ASSUME NEW r \in runs, NEW o \in Outcome, NEW b \in Approvals \cup {NoApproval}, RunnerReturns(r, o, b) PROVE CompletedKept
  BY <1>19 DEF RunnerReturns, jobVars, daemonVars, runVars, historyVars
<1>20. ASSUME NEW d \in Daemons, NEW j \in Jobs, WakeWaitingJob(d, j) PROVE CompletedKept
  BY <1>20 DEF WakeWaitingJob, Decided
<1>21. ASSUME NEW d \in Daemons, NEW j \in Jobs, ReadDenial(d, j) PROVE CompletedKept
  BY <1>21 DEF ReadDenial, jobVars, daemonVars, runVars, historyVars
<1>22. ASSUME NEW d \in Daemons, WriteDenial(d) PROVE CompletedKept
  <2>1. loop[d].job \in Jobs
    BY <1>22, PositionType DEF WriteDenial
  <2> QED BY <1>22, <2>1 DEF WriteDenial
<1>23. ASSUME NEW d \in Daemons, NEW j \in Jobs, CancelJob(d, j) PROVE CompletedKept
  BY <1>23 DEF CancelJob, Cancellable
<1>24. ASSUME NEW d \in Daemons, NEW j \in Jobs, RetryJob(d, j) PROVE CompletedKept
  BY <1>24 DEF RetryJob, Reopen
<1>25. ASSUME NEW d \in Daemons, NEW a \in Approvals, NEW decision \in {"approved", "denied"}, DecideApproval(d, a, decision) PROVE CompletedKept
  BY <1>25 DEF DecideApproval, jobVars, daemonVars, runVars, historyVars
<1>26. ASSUME NEW j \in Jobs, CliCancel(j) PROVE CompletedKept
  BY <1>26 DEF CliCancel, jobVars, daemonVars, runVars, historyVars
<1>27. ASSUME NEW j \in Jobs, CliRetry(j) PROVE CompletedKept
  BY <1>27 DEF CliRetry, jobVars, daemonVars, runVars, historyVars
<1>28. ASSUME NEW a \in Approvals, NEW decision \in {"approved", "denied"}, CliDecide(a, decision) PROVE CompletedKept
  BY <1>28 DEF CliDecide, jobVars, daemonVars, runVars, historyVars
<1>29. ASSUME NEW d \in Daemons, CliDaemonStop(d) PROVE CompletedKept
  BY <1>29 DEF CliDaemonStop, jobVars, daemonVars, runVars, historyVars
<1>30. ASSUME Tick PROVE CompletedKept
  BY <1>30 DEF Tick, jobVars, daemonVars, runVars, historyVars
<1>31. CASE UNCHANGED vars
  BY <1>31 DEF vars, jobVars, daemonVars, runVars, historyVars
<1> HIDE DEF TypeInv, TypeOK, ExclusiveInv, WritesOwnJob, CompletedKept, Active
<1>32. ASSUME NEW d \in Daemons, Lifecycle(d) PROVE CompletedKept
  BY <1>32, <1>2, <1>3, <1>4, <1>5, <1>6, <1>7, <1>8, <1>9, <1>10, <1>11 DEF Lifecycle
<1>33. ASSUME NEW d \in Daemons, Execution(d) PROVE CompletedKept
  BY <1>33, <1>12, <1>13, <1>14, <1>15, <1>16, <1>17 DEF Execution
<1>34. CASE Runner
  BY <1>34, <1>18, <1>19 DEF Runner
<1>35. ASSUME NEW d \in Daemons, Wakeups(d) PROVE CompletedKept
  BY <1>35, <1>20, <1>21, <1>22 DEF Wakeups
<1>36. CASE Operator
  BY <1>36, <1>23, <1>24, <1>25, <1>26, <1>27, <1>28, <1>29 DEF Operator
<1> QED BY <1>1, <1>30, <1>31, <1>32, <1>33, <1>34, <1>35, <1>36 DEF Next

(* With no unfavourable circumstance a completed job stays completed. *)
THEOREM CompletionIsFinal ==
    ASSUME Env = {} PROVE Spec => CompletedIsFinal
<1>2. "overlap" \notin Env
  OBVIOUS
<1>3. TypeInv /\ Solo /\ [Next]_vars => Solo'
  BY <1>2, SoloNext
<1>4. TypeInv /\ Solo /\ ExclusiveInv /\ [Next]_vars => ExclusiveInv'
  BY ExclusiveNext
<1>5. TypeInv /\ ExclusiveInv /\ [Next]_vars => [CompletedKept]_vars
  BY CompletedStep
<1> QED BY <1>3, <1>4, <1>5, InitType, NextType, SoloInit, ExclusiveInit, PTL
        DEF Spec, CompletedIsFinal, CompletedKept

-----------------------------------------------------------------------------
(* The retry budget (Env = {}).                                             *)

(* A process that ends with an execution of j pending counts against j. *)
LEMMA LostRunsCount ==
    ASSUME TypeInv, NEW d \in Daemons, LoseRuns(d), NEW j \in Jobs
    PROVE  /\ interrupted'[j] >= interrupted[j]
           /\ \A r \in runs : r.daemon = d /\ r.job = j => interrupted'[j] > interrupted[j]
<1> DEFINE lost == RunsOf(d) \cap RunsFor(j)
<1>1. IsFiniteSet(lost)
  BY FS_Subset DEF TypeInv, RunsOf, RunsFor
<1>2. Cardinality(lost) \in Nat /\ (Cardinality(lost) = 0 <=> lost = {})
  BY <1>1, FS_CardinalityType, FS_EmptySet
<1>3. interrupted'[j] = interrupted[j] + Cardinality(lost) /\ interrupted[j] \in Nat
  BY DEF LoseRuns, TypeInv, TypeOK
<1>4. (\E r \in runs : r.daemon = d /\ r.job = j) => lost # {}
  BY DEF RunsOf, RunsFor
<1> HIDE DEF lost
<1>5. lost # {} => Cardinality(lost) > 0
  BY <1>2
<1> QED BY <1>2, <1>3, <1>4, <1>5

LEMMA BudgetInit == Init => BudgetInv
BY ConstantsAssumption DEF Init, BudgetInv, AttemptBudget, AttemptsLeft, Unsettled, Active

LEMMA BudgetNext ==
    ASSUME Env = {}, TypeInv, Solo, ExclusiveInv, BudgetInv, [Next]_vars PROVE BudgetInv'
<1> USE ConstantsAssumption, PositionType, RunType, OthersIdle, BusyIsLive
    DEF TypeInv, TypeOK, BudgetInv, AttemptBudget, AttemptsLeft, Unsettled, Active
<1>a. \A j \in Jobs : attempt[j] \in Nat /\ interrupted[j] \in Nat /\ MaxAttempts \in Nat \ {0}
  OBVIOUS
<1>1. ASSUME NEW j \in Jobs, Enqueue(j) PROVE BudgetInv'
  BY <1>1 DEF Enqueue, RunsFor, jobVars, daemonVars, runVars, historyVars
<1>2. ASSUME NEW d \in Daemons, CheckActiveDaemon(d) PROVE BudgetInv'
  BY <1>2 DEF CheckActiveDaemon, RunsFor, jobVars, daemonVars, runVars, historyVars
<1>3. ASSUME NEW d \in Daemons, InsertDaemonRow(d) PROVE BudgetInv'
  BY <1>3 DEF InsertDaemonRow, RunsFor, jobVars, daemonVars, runVars, historyVars
<1>4. ASSUME NEW d \in Daemons, RecoverStaleJobs(d) PROVE BudgetInv'
  <2>1. runs = {}
    BY <1>4, NothingRunsAtStart
  <2> QED BY <1>4, <2>1 DEF RecoverStaleJobs, RunsFor, jobVars, daemonVars, runVars, historyVars
<1>5. ASSUME NEW d \in Daemons, FinishStart(d) PROVE BudgetInv'
  BY <1>5 DEF FinishStart, RunsFor, jobVars, daemonVars, runVars, historyVars
<1>6. ASSUME NEW d \in Daemons, FailStart(d) PROVE BudgetInv'
  BY <1>6 DEF FailStart, RunsFor, jobVars, daemonVars, runVars, historyVars
<1>7. ASSUME NEW d \in Daemons, BeginStop(d) PROVE BudgetInv'
  BY <1>7 DEF BeginStop, RunsFor, jobVars, daemonVars, runVars, historyVars
<1>8. ASSUME NEW d \in Daemons, FinishStop(d) PROVE BudgetInv'
  BY <1>8 DEF FinishStop, RunsFor, jobVars, daemonVars, runVars, historyVars
<1>9. ASSUME NEW d \in Daemons, Exit(d) PROVE BudgetInv'
  <2>1. /\ runs' = {r \in runs : r.daemon # d}
        /\ UNCHANGED jobVars
    BY <1>9 DEF Exit, LoseRuns, RunsOf
  <2>2. \A j \in Jobs : /\ interrupted'[j] \in Nat /\ interrupted'[j] >= interrupted[j]
                       /\ \A r \in runs : r.daemon = d /\ r.job = j
                                             => interrupted'[j] > interrupted[j]
    BY <1>9, LostRunsCount, LoseRunsType DEF Exit
  <2>3. AttemptBudget'
    BY <2>1, <2>2, <1>a DEF jobVars
  <2>4. AttemptsLeft'
    <3> SUFFICES ASSUME NEW j \in Jobs, status[j] \in Unsettled, RunsFor(j)' = {}
                 PROVE  attempt[j] < MaxAttempts + interrupted'[j]
      BY <2>1 DEF jobVars
    <3>1. CASE RunsFor(j) = {}
      BY <3>1, <2>2, <1>a
    <3>2. CASE RunsFor(j) # {}
      <4>1. PICK r \in runs : r.job = j
        BY <3>2 DEF RunsFor
      <4>2. r.daemon = d
        BY <2>1, <4>1 DEF RunsFor
      <4> QED BY <4>1, <4>2, <2>2, <1>a
    <3> QED BY <3>1, <3>2
  <2> QED BY <2>1, <2>3, <2>4
<1>10. ASSUME NEW d \in Daemons, Crash(d) PROVE BudgetInv'
  <2>1. /\ runs' = {r \in runs : r.daemon # d}
        /\ UNCHANGED jobVars
    BY <1>10 DEF Crash, LoseRuns, RunsOf
  <2>2. \A j \in Jobs : /\ interrupted'[j] \in Nat /\ interrupted'[j] >= interrupted[j]
                       /\ \A r \in runs : r.daemon = d /\ r.job = j
                                             => interrupted'[j] > interrupted[j]
    BY <1>10, LostRunsCount, LoseRunsType DEF Crash
  <2>3. AttemptBudget'
    BY <2>1, <2>2, <1>a DEF jobVars
  <2>4. AttemptsLeft'
    <3> SUFFICES ASSUME NEW j \in Jobs, status[j] \in Unsettled, RunsFor(j)' = {}
                 PROVE  attempt[j] < MaxAttempts + interrupted'[j]
      BY <2>1 DEF jobVars
    <3>1. CASE RunsFor(j) = {}
      BY <3>1, <2>2, <1>a
    <3>2. CASE RunsFor(j) # {}
      <4>1. PICK r \in runs : r.job = j
        BY <3>2 DEF RunsFor
      <4>2. r.daemon = d
        BY <2>1, <4>1 DEF RunsFor
      <4> QED BY <4>1, <4>2, <2>2, <1>a
    <3> QED BY <3>1, <3>2
  <2> QED BY <2>1, <2>3, <2>4
<1>11. ASSUME NEW d \in Daemons, Heartbeat(d) PROVE BudgetInv'
  BY <1>11 DEF Heartbeat, RunsFor, jobVars, daemonVars, runVars, historyVars
<1>12. ASSUME NEW d \in Daemons, NEW j \in Jobs, ClaimNextJob(d, j) PROVE BudgetInv'
  <2>1. RunsFor(j) = {}
    BY <1>12, ClaimableIsFree DEF ClaimNextJob, ExclusiveInv
  <2>2. attempt[j] < MaxAttempts + interrupted[j]
    BY <1>12, <2>1 DEF ClaimNextJob, Claimable
  <2>3. ClaimedRun(d, j).job = j /\ ClaimedRun(d, j).attempt = attempt[j] + 1
    BY DEF ClaimedRun
  <2>4. AttemptBudget'
    BY <1>12, <2>2, <1>a DEF ClaimNextJob
  <2>5. AttemptsLeft'
    BY <1>12, <2>3, <1>a DEF ClaimNextJob, RunsFor
  <2>6. \A r \in runs' : r.attempt > 0
    BY <1>12, <2>3, <1>a DEF ClaimNextJob
  <2> QED BY <2>4, <2>5, <2>6
<1>13. ASSUME NEW d \in Daemons, StartRun(d) PROVE BudgetInv'
  <2>1. loop[d].run.job \in Jobs
    BY <1>13, PositionType, RunType DEF StartRun
  <2>2. loop[d].run \in RunsFor(loop[d].run.job)
    BY <1>13 DEF StartRun, ExclusiveInv, WritesOwnJob, RunsFor
  <2> QED BY <1>13, <2>1, <2>2 DEF StartRun, RunsFor, jobVars, daemonVars, runVars, historyVars
<1>14. ASSUME NEW d \in Daemons, MapRoot(d) PROVE BudgetInv'
  <2>1. loop[d].run.job \in Jobs
    BY <1>14, PositionType, RunType DEF MapRoot
  <2>2. loop[d].run \in RunsFor(loop[d].run.job)
    BY <1>14 DEF MapRoot, ExclusiveInv, WritesOwnJob, RunsFor
  <2> QED BY <1>14, <2>1, <2>2 DEF MapRoot, RunsFor, jobVars, daemonVars, runVars, historyVars
<1>15. ASSUME NEW d \in Daemons, NEW j \in Jobs, RenewJobLease(d, j) PROVE BudgetInv'
  BY <1>15 DEF RenewJobLease, RunsFor, jobVars, daemonVars, runVars, historyVars
<1>16. ASSUME NEW d \in Daemons, WriteWaiting(d) PROVE BudgetInv'
  <2>1. loop[d].run.job \in Jobs
    BY <1>16, PositionType, RunType DEF WriteWaiting
  <2>2. /\ loop[d].run \in runs /\ runs' = runs \ {loop[d].run}
        /\ attempt[loop[d].run.job] = loop[d].run.attempt
    BY <1>16 DEF WriteWaiting, EndRun, ExclusiveInv, WritesOwnJob, ClaimHeld
  <2>3. /\ Refunded(attempt[loop[d].run.job]) < attempt[loop[d].run.job]
        /\ Refunded(attempt[loop[d].run.job]) \in Nat
    BY <2>1, <2>2 DEF Refunded
  <2>4. /\ attempt' = [attempt EXCEPT ![loop[d].run.job] = Refunded(attempt[loop[d].run.job])]
        /\ status' = [status EXCEPT ![loop[d].run.job] = "waiting"]
        /\ interrupted' = interrupted
    BY <1>16 DEF WriteWaiting, historyVars
  <2>5. \A k \in Jobs : k # loop[d].run.job => RunsFor(k)' = RunsFor(k)
    BY <2>2 DEF RunsFor
  <2>6. AttemptsLeft'
    BY <2>1, <2>3, <2>4, <2>5, <1>a
  <2>7. AttemptBudget'
    BY <2>1, <2>3, <2>4, <1>a
  <2> QED BY <2>2, <2>6, <2>7
<1>17. ASSUME NEW d \in Daemons, WriteOutcome(d) PROVE BudgetInv'
  <2>1. loop[d].run.job \in Jobs
    BY <1>17, PositionType, RunType DEF WriteOutcome
  <2>2. /\ loop[d].run \in runs /\ runs' = runs \ {loop[d].run}
        /\ attempt[loop[d].run.job] = loop[d].run.attempt
    BY <1>17 DEF WriteOutcome, EndRun, ExclusiveInv, WritesOwnJob, ClaimHeld
  <2>3. status'[loop[d].run.job] \in Unsettled => attempt[loop[d].run.job] < MaxAttempts
    BY <1>17, <2>1, <2>2 DEF WriteOutcome, SettledStatus, Retries
  <2>4. /\ attempt' = attempt /\ interrupted' = interrupted
        /\ \A k \in Jobs : k # loop[d].run.job => status'[k] = status[k]
    BY <1>17 DEF WriteOutcome, historyVars
  <2>5. \A k \in Jobs : k # loop[d].run.job => RunsFor(k)' = RunsFor(k)
    BY <2>2 DEF RunsFor
  <2>6. AttemptsLeft'
    BY <2>1, <2>3, <2>4, <2>5, <1>a
  <2> QED BY <2>2, <2>4, <2>6
<1>18. ASSUME NEW r \in runs, NEW a \in Approvals, RequestApproval(r, a) PROVE BudgetInv'
  BY <1>18 DEF RequestApproval, RunsFor, jobVars, daemonVars, runVars, historyVars
<1>19. ASSUME NEW r \in runs, NEW o \in Outcome, NEW b \in Approvals \cup {NoApproval}, RunnerReturns(r, o, b) PROVE BudgetInv'
  <2>1. CASE Discarded(r)
    <3>1. /\ status[r.job] = "cancelled" /\ runs' = runs \ {r}
          /\ UNCHANGED <<jobVars, interrupted>>
      BY <1>19, <2>1 DEF RunnerReturns, Discarded, historyVars
    <3>2. \A k \in Jobs : k # r.job => RunsFor(k)' = RunsFor(k)
      BY <3>1 DEF RunsFor
    <3> QED BY <3>1, <3>2 DEF jobVars
  <2>2. CASE ~Discarded(r)
    BY <1>19, <2>2 DEF RunnerReturns, RunsFor, jobVars, daemonVars, runVars, historyVars
  <2> QED BY <2>1, <2>2
<1>20. ASSUME NEW d \in Daemons, NEW j \in Jobs, WakeWaitingJob(d, j) PROVE BudgetInv'
  BY <1>20 DEF WakeWaitingJob, Decided, RunsFor, jobVars, daemonVars, runVars, historyVars
<1>21. ASSUME NEW d \in Daemons, NEW j \in Jobs, ReadDenial(d, j) PROVE BudgetInv'
  BY <1>21 DEF ReadDenial, RunsFor, jobVars, daemonVars, runVars, historyVars
<1>22. ASSUME NEW d \in Daemons, WriteDenial(d) PROVE BudgetInv'
  <2>1. loop[d].job \in Jobs
    BY <1>22, PositionType DEF WriteDenial
  <2> QED BY <1>22, <2>1 DEF WriteDenial, RunsFor, jobVars, daemonVars, runVars, historyVars
<1>23. ASSUME NEW d \in Daemons, NEW j \in Jobs, CancelJob(d, j) PROVE BudgetInv'
  BY <1>23 DEF CancelJob, RunsFor, jobVars, daemonVars, runVars, historyVars
<1>24. ASSUME NEW d \in Daemons, NEW j \in Jobs, RetryJob(d, j) PROVE BudgetInv'
  BY <1>24, <1>a DEF RetryJob, Reopen, RunsFor, jobVars, daemonVars, runVars, historyVars
<1>25. ASSUME NEW d \in Daemons, NEW a \in Approvals, NEW decision \in {"approved", "denied"}, DecideApproval(d, a, decision) PROVE BudgetInv'
  BY <1>25 DEF DecideApproval, RunsFor, jobVars, daemonVars, runVars, historyVars
<1>26. ASSUME NEW j \in Jobs, CliCancel(j) PROVE BudgetInv'
  BY <1>26 DEF CliCancel, RunsFor, jobVars, daemonVars, runVars, historyVars
<1>27. ASSUME NEW j \in Jobs, CliRetry(j) PROVE BudgetInv'
  BY <1>27 DEF CliRetry, RunsFor, jobVars, daemonVars, runVars, historyVars
<1>28. ASSUME NEW a \in Approvals, NEW decision \in {"approved", "denied"}, CliDecide(a, decision) PROVE BudgetInv'
  BY <1>28 DEF CliDecide, RunsFor, jobVars, daemonVars, runVars, historyVars
<1>29. ASSUME NEW d \in Daemons, CliDaemonStop(d) PROVE BudgetInv'
  BY <1>29 DEF CliDaemonStop, RunsFor, jobVars, daemonVars, runVars, historyVars
<1>30. ASSUME Tick PROVE BudgetInv'
  BY <1>30 DEF Tick, RunsFor, jobVars, daemonVars, runVars, historyVars
<1>31. CASE UNCHANGED vars
  BY <1>31 DEF vars, RunsFor, jobVars, daemonVars, runVars, historyVars
<1> HIDE DEF TypeInv, TypeOK, BudgetInv, AttemptBudget, AttemptsLeft, Unsettled, Active
<1>32. ASSUME NEW d \in Daemons, Lifecycle(d) PROVE BudgetInv'
  BY <1>32, <1>2, <1>3, <1>4, <1>5, <1>6, <1>7, <1>8, <1>9, <1>10, <1>11 DEF Lifecycle
<1>33. ASSUME NEW d \in Daemons, Execution(d) PROVE BudgetInv'
  BY <1>33, <1>12, <1>13, <1>14, <1>15, <1>16, <1>17 DEF Execution
<1>34. CASE Runner
  BY <1>34, <1>18, <1>19 DEF Runner
<1>35. ASSUME NEW d \in Daemons, Wakeups(d) PROVE BudgetInv'
  BY <1>35, <1>20, <1>21, <1>22 DEF Wakeups
<1>36. CASE Operator
  BY <1>36, <1>23, <1>24, <1>25, <1>26, <1>27, <1>28, <1>29 DEF Operator
<1> QED BY <1>1, <1>30, <1>31, <1>32, <1>33, <1>34, <1>35, <1>36 DEF Next

(* With no unfavourable circumstance only executions cut off by the end of
   their process run a job more than max_attempts times.                    *)
THEOREM RetryBudget ==
    ASSUME Env = {} PROVE Spec => []AttemptBudget
<1>1. BudgetInv => AttemptBudget
  BY DEF BudgetInv
<1>2. "overlap" \notin Env
  OBVIOUS
<1>3. TypeInv /\ Solo /\ [Next]_vars => Solo'
  BY <1>2, SoloNext
<1>4. TypeInv /\ Solo /\ ExclusiveInv /\ [Next]_vars => ExclusiveInv'
  BY ExclusiveNext
<1>5. TypeInv /\ Solo /\ ExclusiveInv /\ BudgetInv /\ [Next]_vars => BudgetInv'
  BY BudgetNext
<1> QED BY <1>1, <1>3, <1>4, <1>5, InitType, NextType, SoloInit, ExclusiveInit, BudgetInit, PTL DEF Spec

(* An execution is the only one of its job and still holds the claim it was started
   with (claimNextJob, renewJobLease, recoverStaleJobs, Daemon.execute).    *)
THEOREM ExecutionsAreSafe ==
    ASSUME Env = {} PROVE Spec => []ExecutionSafe
<1> QED BY OneExecutionPerJob, ExecutionsHoldClaims, PTL DEF ExecutionSafe

(* No late execution, poll or recovery changes a cancelled or completed job
   (Daemon.execute, Daemon.wakeWaitingJobs, recoverStaleJobs).              *)
THEOREM OutcomesStand ==
    ASSUME Env = {} PROVE Spec => OutcomeStands
<1>1. "overlap" \notin Env /\ "cli" \notin Env
  OBVIOUS
<1>2. Spec => CancelSticks
  BY <1>1, CancellationSticks
<1> QED BY <1>2, CompletionIsFinal DEF OutcomeStands

-----------------------------------------------------------------------------
(* JobQueue implements JobContract, step by step, when no unfavourable
   circumstance arises (Env = {}; processes still crash, leases still expire),
   and what holds of one step: the bound on pending executions, and the
   attempt an execution gives back when it comes to wait.                  *)

(* Executions are added by claims only. *)
LEMMA OnlyClaimsAddRuns ==
    ASSUME [Next]_vars
    PROVE  runs' \subseteq runs \/ \E d \in Daemons, j \in Jobs : ClaimNextJob(d, j)
<1> USE DEF jobVars, daemonVars, runVars, historyVars
<1>1. ASSUME NEW j \in Jobs, Enqueue(j) PROVE runs' \subseteq runs
  BY <1>1 DEF Enqueue
<1>2. ASSUME NEW d \in Daemons, Lifecycle(d) PROVE runs' \subseteq runs
  BY <1>2 DEF Lifecycle, CheckActiveDaemon, InsertDaemonRow, RecoverStaleJobs, FinishStart,
              FailStart, BeginStop, FinishStop, Exit, Crash, LoseRuns, Heartbeat
<1>3. ASSUME NEW d \in Daemons, Execution(d), \A j \in Jobs : ~ClaimNextJob(d, j)
      PROVE  runs' \subseteq runs
  BY <1>3 DEF Execution, RenewJobLease, StartRun, MapRoot, WriteWaiting, WriteOutcome, EndRun
<1>4. ASSUME NEW d \in Daemons, Wakeups(d) PROVE runs' \subseteq runs
  BY <1>4 DEF Wakeups, WakeWaitingJob, ReadDenial, WriteDenial
<1>5. ASSUME Runner PROVE runs' \subseteq runs
  BY <1>5 DEF Runner, RequestApproval, RunnerReturns
<1>6. ASSUME Operator PROVE runs' \subseteq runs
  BY <1>6 DEF Operator, CancelJob, RetryJob, DecideApproval, CliCancel, CliRetry, CliDecide, CliDaemonStop
<1>7. ASSUME Tick PROVE runs' \subseteq runs
  BY <1>7 DEF Tick
<1>8. CASE UNCHANGED vars
  BY <1>8 DEF vars
<1> QED BY <1>1, <1>2, <1>3, <1>4, <1>5, <1>6, <1>7, <1>8 DEF Next

(* A job comes to wait by the outcome of its execution only. *)
LEMMA OnlyOutcomesWait ==
    ASSUME TypeInv, [Next]_vars, NEW j \in Jobs, status[j] # "waiting", status'[j] = "waiting"
    PROVE  \E d \in Daemons : WriteWaiting(d) /\ loop[d].run.job = j
<1> USE DEF TypeInv, TypeOK, jobVars, daemonVars, runVars, historyVars
<1>1. ASSUME NEW k \in Jobs, Enqueue(k) PROVE FALSE
  BY <1>1 DEF Enqueue
<1>2. ASSUME NEW d \in Daemons, Lifecycle(d) PROVE FALSE
  BY <1>2 DEF Lifecycle, CheckActiveDaemon, InsertDaemonRow, RecoverStaleJobs, FinishStart,
              FailStart, BeginStop, FinishStop, Exit, Crash, Heartbeat
<1>3. ASSUME NEW d \in Daemons, NEW k \in Jobs, ClaimNextJob(d, k) \/ RenewJobLease(d, k) PROVE FALSE
  BY <1>3 DEF ClaimNextJob, RenewJobLease
<1>4. ASSUME NEW d \in Daemons, StartRun(d) \/ MapRoot(d) PROVE FALSE
  BY <1>4 DEF StartRun, MapRoot
<1>5. ASSUME NEW d \in Daemons, WriteOutcome(d) PROVE FALSE
  <2>1. status' = [status EXCEPT ![loop[d].run.job] = SettledStatus(loop[d].run, loop[d].outcome)]
    BY <1>5 DEF WriteOutcome
  <2>2. SettledStatus(loop[d].run, loop[d].outcome) # "waiting"
    BY DEF SettledStatus
  <2> QED BY <2>1, <2>2
<1>6. ASSUME NEW d \in Daemons, WriteWaiting(d) PROVE loop[d].run.job = j
  BY <1>6 DEF WriteWaiting
<1>7. ASSUME NEW d \in Daemons, Wakeups(d) PROVE FALSE
  BY <1>7 DEF Wakeups, WakeWaitingJob, ReadDenial, WriteDenial
<1>8. ASSUME Runner PROVE FALSE
  BY <1>8 DEF Runner, RequestApproval, RunnerReturns
<1>9. ASSUME Operator PROVE FALSE
  BY <1>9 DEF Operator, CancelJob, RetryJob, Reopen, DecideApproval, CliCancel, CliRetry, CliDecide, CliDaemonStop
<1>10. ASSUME Tick PROVE FALSE
  BY <1>10 DEF Tick
<1>11. CASE UNCHANGED vars
  BY <1>11 DEF vars
<1> HIDE DEF TypeInv
<1> QED BY <1>1, <1>2, <1>3, <1>4, <1>5, <1>6, <1>7, <1>8, <1>9, <1>10, <1>11 DEF Next, Execution

-----------------------------------------------------------------------------
(* Waiting gives the attempt back (Env = {}).                                *)

RefundGiven ==
    \A j \in Jobs : status[j] # "waiting" /\ status'[j] = "waiting"
        => \E r \in runs \ runs' : r.job = j /\ attempt'[j] = r.attempt - 1

LEMMA RefundStep ==
    ASSUME TypeInv, ExclusiveInv, BudgetInv, [Next]_vars PROVE RefundGiven
<1> SUFFICES ASSUME NEW j \in Jobs, status[j] # "waiting", status'[j] = "waiting"
             PROVE  \E r \in runs \ runs' : r.job = j /\ attempt'[j] = r.attempt - 1
  BY DEF RefundGiven
<1>1. PICK d \in Daemons : WriteWaiting(d) /\ loop[d].run.job = j
  BY OnlyOutcomesWait
<1> DEFINE r == loop[d].run
<1>2. /\ loop[d].pc = "write"
      /\ attempt' = [attempt EXCEPT ![j] = Refunded(@)]
      /\ runs' = runs \ {r}
  BY <1>1 DEF WriteWaiting, EndRun
<1>3. r \in runs /\ r.job = j /\ status[j] \in Active
  BY <1>1, <1>2 DEF ExclusiveInv, WritesOwnJob
<1>4. attempt[j] = r.attempt
  BY <1>3 DEF ExclusiveInv, ClaimHeld, Active
<1>5. r.attempt \in Nat /\ r.attempt > 0
  BY <1>3 DEF TypeInv, TypeOK, Run, BudgetInv
<1>6. attempt'[j] = Refunded(attempt[j])
  BY <1>2 DEF TypeInv, TypeOK
<1>7. attempt'[j] = r.attempt - 1
  BY <1>4, <1>5, <1>6 DEF Refunded
<1>8. r \in runs \ runs'
  BY <1>2, <1>3
<1> QED BY <1>3, <1>7, <1>8

(* The execution that comes to wait gives its attempt back: the decrement of
   setJobWaiting meets the row its claim incremented, never another's and never
   one that an operator reset.                                              *)
THEOREM WaitingCostsNothing == ASSUME Env = {} PROVE Spec => WaitingRefunds
<1>1. TypeInv /\ Solo /\ [Next]_vars => Solo'
  BY SoloNext
<1>2. TypeInv /\ Solo /\ ExclusiveInv /\ [Next]_vars => ExclusiveInv'
  BY ExclusiveNext
<1>3. TypeInv /\ Solo /\ ExclusiveInv /\ BudgetInv /\ [Next]_vars => BudgetInv'
  BY BudgetNext
<1>4. TypeInv /\ ExclusiveInv /\ BudgetInv /\ [Next]_vars => [RefundGiven]_vars
  BY RefundStep
<1> QED BY <1>1, <1>2, <1>3, <1>4, InitType, NextType, SoloInit, ExclusiveInit, BudgetInit, PTL
        DEF Spec, WaitingRefunds, RefundGiven

-----------------------------------------------------------------------------
(* The refinement (Env = {}).  To the contract a job is pending, active or as
   its row says, and an executor is a pending execution.                     *)

Maps == [Contract!Next]_Contract!vars

(* A step that leaves the phases and the executors alone is a stutter. *)
LEMMA SamePhases ==
    ASSUME Executing' = Executing, \A j \in Jobs : PhaseOf(j)' = PhaseOf(j) PROVE Maps
BY DEF Maps, Contract!vars

LEMMA SameRows == ASSUME UNCHANGED <<status, runs>> PROVE Maps
BY SamePhases DEF PhaseOf, Executing

(* A step that moves one job to another phase. *)
LEMMA MovesTo ==
    ASSUME NEW j \in Jobs, NEW from, NEW to, PhaseOf(j) \in from, PhaseOf(j)' = to,
           \A k \in Jobs \ {j} : PhaseOf(k)' = PhaseOf(k)
    PROVE  Contract!Move(j, from, to)
<1> DEFINE old == [k \in Jobs |-> PhaseOf(k)]
           new == [k \in Jobs |-> PhaseOf(k)']
<1>1. old[j] \in from
  OBVIOUS
<1>2. new = [old EXCEPT ![j] = to]
  OBVIOUS
<1> QED BY <1>1, <1>2 DEF Contract!Move

(* A job has one executor: it leaves the executors with that execution. *)
LEMMA ExecutorLeaves ==
    ASSUME TypeInv, SingleExecution, NEW r \in runs, runs' = runs \ {r}
    PROVE  Executing' = Executing \ {r.job}
BY DEF Executing, SingleExecution

LEMMA ContractInit == Init => Contract!Init
<1> SUFFICES ASSUME Init PROVE Contract!Init
  OBVIOUS
<1>1. Executing = {} /\ \A j \in Jobs : PhaseOf(j) = "absent"
  BY DEF Init, Executing, PhaseOf, Active
<1> QED BY <1>1 DEF Contract!Init

(* A claim of a free job is the contract's Begin. *)
LEMMA ClaimBegins ==
    ASSUME TypeInv, ExclusiveInv, NEW d \in Daemons, NEW j \in Jobs, ClaimNextJob(d, j) PROVE Maps
<1>1. /\ status' = [status EXCEPT ![j] = "claimed"]
      /\ runs' = runs \cup {ClaimedRun(d, j)}
      /\ Claimable(j)
  BY DEF ClaimNextJob
<1>2. j \notin Executing
  BY <1>1, ClaimableIsFree DEF ExclusiveInv, Executing, RunsFor
<1>3. Executing' = Executing \cup {j}
  <2>1. ClaimedRun(d, j).job = j
    BY DEF ClaimedRun
  <2> QED BY <1>1, <2>1 DEF Executing
<1>4. PhaseOf(j) = "pending"
  BY <1>1, <1>2 DEF Claimable, PhaseOf, Active
<1>5. status'[j] = "claimed" /\ \A k \in Jobs \ {j} : status'[k] = status[k]
  BY <1>1 DEF TypeInv, TypeOK
<1>6. PhaseOf(j)' = "active" /\ \A k \in Jobs \ {j} : PhaseOf(k)' = PhaseOf(k)
  BY <1>3, <1>5 DEF PhaseOf, Active
<1>7. Contract!Move(j, {"pending"}, "active")
  BY <1>4, <1>6, MovesTo
<1>8. Contract!Begin(j)
  BY <1>2, <1>3, <1>7 DEF Contract!Begin
<1> QED BY <1>8 DEF Maps, Contract!Next

(* The outcome of an execution is written to its own, still active job. *)
LEMMA OutcomeSettles ==
    ASSUME TypeInv, ExclusiveInv, NEW d \in Daemons, loop[d].pc = "write",
           NEW s \in {"retry_wait", "waiting", "completed", "failed", "cancelled"},
           status' = [status EXCEPT ![loop[d].run.job] = s], EndRun(d)
    PROVE  Maps
<1> DEFINE p == IF s = "retry_wait" THEN "pending" ELSE s
<1>1. PICK r \in runs : r = loop[d].run /\ status[r.job] \in Active
  BY DEF ExclusiveInv, WritesOwnJob
<1>2. PICK j \in Jobs : j = r.job
  BY <1>1 DEF TypeInv, TypeOK, Run
<1>3. j \in Executing
  BY <1>1, <1>2 DEF Executing
<1>4. Executing' = Executing \ {j}
  BY <1>1, <1>2, ExecutorLeaves DEF EndRun, ExclusiveInv
<1>5. PhaseOf(j) = "active"
  BY <1>1, <1>2, <1>3 DEF PhaseOf, Active
<1>6. status'[j] = s /\ \A k \in Jobs \ {j} : status'[k] = status[k]
  BY <1>1, <1>2 DEF TypeInv, TypeOK
<1>7. PhaseOf(j)' = p
  BY <1>2, <1>6 DEF PhaseOf, Active
<1>8. \A k \in Jobs \ {j} : PhaseOf(k)' = PhaseOf(k)
  BY <1>4, <1>6 DEF PhaseOf
<1>9. Contract!Move(j, {"active"}, p)
  BY <1>2, <1>5, <1>7, <1>8, MovesTo
<1>10. p \in {"pending", "waiting", "completed", "failed", "cancelled"}
  OBVIOUS
<1>11. Contract!Settle(j)
  BY <1>3, <1>4, <1>9, <1>10 DEF Contract!Settle
<1> QED BY <1>2, <1>11 DEF Maps, Contract!Next

(* A process that ends abandons the jobs of its executions, and no other's. *)
LEMMA EndAbandons ==
    ASSUME TypeInv, ExclusiveInv, NEW d \in Daemons, LoseRuns(d), status' = status PROVE Maps
<1> DEFINE S == {r.job : r \in RunsOf(d)}
<1>1. S \in SUBSET Executing
  BY DEF Executing, RunsOf
<1>2. Executing' = Executing \ S
  BY DEF LoseRuns, Executing, ExclusiveInv, SingleExecution, RunsOf
<1> HIDE DEF S
<1>3. ASSUME NEW j \in Jobs
      PROVE  PhaseOf(j)' = IF j \in S /\ PhaseOf(j) = "active" THEN "pending" ELSE PhaseOf(j)
  <2>1. CASE status[j] \in Active
    <3>1. PhaseOf(j) = IF j \in Executing THEN "active" ELSE "pending"
      BY <2>1 DEF PhaseOf, Active
    <3>2. PhaseOf(j)' = IF j \in Executing' THEN "active" ELSE "pending"
      BY <2>1 DEF PhaseOf, Active
    <3> QED BY <1>1, <1>2, <3>1, <3>2
  <2>2. CASE status[j] \notin Active
    <3>1. status[j] \in JobStatus \cup {"absent"}
      BY DEF TypeInv, TypeOK
    <3> QED BY <2>2, <3>1 DEF PhaseOf, Active, JobStatus
  <2> QED BY <2>1, <2>2
<1>4. Contract!Abandon(S)
  BY <1>1, <1>2, <1>3 DEF Contract!Abandon
<1> QED BY <1>1, <1>4 DEF Maps, Contract!Next

(* The steps that write the row of a job without an execution's outcome. *)
LEMMA RowMoves ==
    ASSUME TypeInv, NEW j \in Jobs, NEW s, status' = [status EXCEPT ![j] = s], runs' = runs
    PROVE  /\ Executing' = Executing
           /\ status'[j] = s
           /\ \A k \in Jobs \ {j} : PhaseOf(k)' = PhaseOf(k)
BY DEF TypeInv, TypeOK, Executing, PhaseOf

LEMMA ContractNext ==
    ASSUME Env = {}, TypeInv, Solo, ExclusiveInv, [Next]_vars PROVE Maps
<1>1. ASSUME NEW j \in Jobs, Enqueue(j) PROVE Maps
  <2>1. status[j] = "absent" /\ status' = [status EXCEPT ![j] = "queued"] /\ runs' = runs
    BY <1>1 DEF Enqueue, runVars
  <2>2. /\ Executing' = Executing
        /\ status'[j] = "queued"
        /\ \A k \in Jobs \ {j} : PhaseOf(k)' = PhaseOf(k)
    BY <2>1, RowMoves
  <2>3. PhaseOf(j) = "absent" /\ PhaseOf(j)' = "pending"
    BY <2>1, <2>2 DEF PhaseOf, Active
  <2>4. Contract!Move(j, {"absent"}, "pending")
    BY <2>2, <2>3, MovesTo
  <2>5. Contract!Submit(j)
    BY <2>2, <2>4 DEF Contract!Submit
  <2> QED BY <2>5 DEF Maps, Contract!Next
<1>2. ASSUME NEW d \in Daemons, CheckActiveDaemon(d) PROVE Maps
  BY <1>2, SameRows DEF CheckActiveDaemon, jobVars, daemonVars, runVars, historyVars
<1>3. ASSUME NEW d \in Daemons, InsertDaemonRow(d) PROVE Maps
  BY <1>3, SameRows DEF InsertDaemonRow, jobVars, daemonVars, runVars, historyVars
<1>4. ASSUME NEW d \in Daemons, RecoverStaleJobs(d) PROVE Maps
  <2>1. Executing = {} /\ Executing' = {}
    BY <1>4, NothingRunsAtStart DEF RecoverStaleJobs, runVars, Executing
  <2>2. \A j \in Jobs : \/ status'[j] = status[j]
                        \/ status[j] \in Active /\ status'[j] = "queued"
    BY <1>4 DEF RecoverStaleJobs, TypeInv, TypeOK
  <2>3. \A j \in Jobs : PhaseOf(j)' = PhaseOf(j)
    BY <2>1, <2>2 DEF PhaseOf, Active
  <2> QED BY <2>1, <2>3, SamePhases
<1>5. ASSUME NEW d \in Daemons, FinishStart(d) PROVE Maps
  BY <1>5, SameRows DEF FinishStart, jobVars, daemonVars, runVars, historyVars
<1>6. ASSUME NEW d \in Daemons, FailStart(d) PROVE Maps
  BY <1>6, SameRows DEF FailStart, jobVars, daemonVars, runVars, historyVars
<1>7. ASSUME NEW d \in Daemons, BeginStop(d) PROVE Maps
  BY <1>7, SameRows DEF BeginStop, jobVars, daemonVars, runVars, historyVars
<1>8. ASSUME NEW d \in Daemons, FinishStop(d) PROVE Maps
  BY <1>8, SameRows DEF FinishStop, jobVars, daemonVars, runVars, historyVars
<1>9. ASSUME NEW d \in Daemons, Exit(d) PROVE Maps
  BY <1>9, EndAbandons DEF Exit, jobVars
<1>10. ASSUME NEW d \in Daemons, Crash(d) PROVE Maps
  BY <1>10, EndAbandons DEF Crash, jobVars
<1>11. ASSUME NEW d \in Daemons, Heartbeat(d) PROVE Maps
  BY <1>11, SameRows DEF Heartbeat, jobVars, daemonVars, runVars, historyVars
<1>12. ASSUME NEW d \in Daemons, NEW j \in Jobs, ClaimNextJob(d, j) PROVE Maps
  BY <1>12, ClaimBegins
<1>13. ASSUME NEW d \in Daemons, StartRun(d) PROVE Maps
  <2>1. loop[d].run \in runs /\ status[loop[d].run.job] \in Active
    BY <1>13 DEF StartRun, ExclusiveInv, WritesOwnJob
  <2>2. PICK j \in Jobs : j = loop[d].run.job /\ j \in Executing
    BY <2>1 DEF TypeInv, TypeOK, Run, Executing
  <2>3. status' = [status EXCEPT ![j] = "running"] /\ runs' = runs
    BY <1>13, <2>2 DEF StartRun, runVars
  <2>4. /\ Executing' = Executing
        /\ status'[j] = "running"
        /\ \A k \in Jobs \ {j} : PhaseOf(k)' = PhaseOf(k)
    BY <2>3, RowMoves
  <2>5. PhaseOf(j) = "active" /\ PhaseOf(j)' = "active"
    BY <2>1, <2>2, <2>4 DEF PhaseOf, Active
  <2>6. \A k \in Jobs : PhaseOf(k)' = PhaseOf(k)
    BY <2>4, <2>5
  <2> QED BY <2>4, <2>6, SamePhases
<1>14. ASSUME NEW d \in Daemons, MapRoot(d) PROVE Maps
  <2>1. loop[d].run \in runs /\ status[loop[d].run.job] \in Active
    BY <1>14 DEF MapRoot, ExclusiveInv, WritesOwnJob
  <2>2. PICK j \in Jobs : j = loop[d].run.job /\ j \in Executing
    BY <2>1 DEF TypeInv, TypeOK, Run, Executing
  <2>3. status' = [status EXCEPT ![j] = "claimed"] /\ runs' = runs
    BY <1>14, <2>2 DEF MapRoot, runVars
  <2>4. /\ Executing' = Executing
        /\ status'[j] = "claimed"
        /\ \A k \in Jobs \ {j} : PhaseOf(k)' = PhaseOf(k)
    BY <2>3, RowMoves
  <2>5. PhaseOf(j) = "active" /\ PhaseOf(j)' = "active"
    BY <2>1, <2>2, <2>4 DEF PhaseOf, Active
  <2>6. \A k \in Jobs : PhaseOf(k)' = PhaseOf(k)
    BY <2>4, <2>5
  <2> QED BY <2>4, <2>6, SamePhases
<1>15. ASSUME NEW d \in Daemons, NEW j \in Jobs, RenewJobLease(d, j) PROVE Maps
  BY <1>15, SameRows DEF RenewJobLease, jobVars, daemonVars, runVars, historyVars
<1>16. ASSUME NEW d \in Daemons, WriteWaiting(d) PROVE Maps
  <2>1. status' = [status EXCEPT ![loop[d].run.job] = "waiting"]
    BY <1>16 DEF WriteWaiting
  <2> QED BY <1>16, <2>1, OutcomeSettles DEF WriteWaiting
<1>17. ASSUME NEW d \in Daemons, WriteOutcome(d) PROVE Maps
  <2> DEFINE s == SettledStatus(loop[d].run, loop[d].outcome)
  <2>1. status' = [status EXCEPT ![loop[d].run.job] = s] /\ loop[d].pc = "write" /\ EndRun(d)
    BY <1>17 DEF WriteOutcome
  <2>2. s \in {"retry_wait", "waiting", "completed", "failed", "cancelled"}
    BY DEF SettledStatus
  <2> HIDE DEF s
  <2> QED BY <2>1, <2>2, OutcomeSettles
<1>18. ASSUME NEW r \in runs, NEW a \in Approvals, RequestApproval(r, a) PROVE Maps
  BY <1>18, SameRows DEF RequestApproval, jobVars, daemonVars, runVars, historyVars
<1>19. ASSUME NEW r \in runs, NEW o \in Outcome, NEW b \in Approvals \cup {NoApproval}, RunnerReturns(r, o, b)
      PROVE  Maps
  <2>1. status' = status
    BY <1>19 DEF RunnerReturns, jobVars
  <2>2. CASE Discarded(r)
    <3>1. r.job \in Executing /\ r.job \in Jobs
      BY DEF Executing, TypeInv, TypeOK, Run
    <3>2. Executing' = Executing \ {r.job}
      BY <1>19, <2>2, ExecutorLeaves DEF RunnerReturns, ExclusiveInv
    <3>3. PhaseOf(r.job) = "cancelled" /\ PhaseOf(r.job)' = "cancelled"
      BY <2>1, <2>2 DEF Discarded, PhaseOf, Active
    <3>4. \A k \in Jobs : PhaseOf(k)' = PhaseOf(k)
      BY <2>1, <3>2, <3>3 DEF PhaseOf
    <3>5. Contract!Ignore(r.job)
      BY <3>1, <3>2, <3>3, <3>4 DEF Contract!Ignore
    <3> QED BY <3>1, <3>5 DEF Maps, Contract!Next
  <2>3. CASE ~Discarded(r)
    BY <1>19, <2>1, <2>3, SameRows DEF RunnerReturns, runVars
  <2> QED BY <2>2, <2>3
<1>20. ASSUME NEW d \in Daemons, NEW j \in Jobs, WakeWaitingJob(d, j) PROVE Maps
  <2>1. status[j] = "waiting" /\ status' = [status EXCEPT ![j] = "queued"] /\ runs' = runs
    BY <1>20 DEF WakeWaitingJob, Decided, runVars
  <2>2. /\ Executing' = Executing
        /\ status'[j] = "queued"
        /\ \A k \in Jobs \ {j} : PhaseOf(k)' = PhaseOf(k)
    BY <2>1, RowMoves
  <2>3. PhaseOf(j) = "waiting" /\ PhaseOf(j)' = "pending"
    BY <2>1, <2>2 DEF PhaseOf, Active
  <2>4. Contract!Move(j, {"waiting"}, "pending")
    BY <2>2, <2>3, MovesTo
  <2>5. Contract!Decide(j)
    BY <2>2, <2>4 DEF Contract!Decide
  <2> QED BY <2>5 DEF Maps, Contract!Next
<1>21. ASSUME NEW d \in Daemons, NEW j \in Jobs, ReadDenial(d, j) PROVE Maps
  BY <1>21, SameRows DEF ReadDenial, jobVars, daemonVars, runVars, historyVars
<1>22. ASSUME NEW d \in Daemons, WriteDenial(d) PROVE Maps
  <2>1. PICK j \in Jobs : j = loop[d].job /\ status[j] = "waiting"
    BY <1>22, PositionType DEF WriteDenial, ExclusiveInv, WritesOwnJob
  <2>2. status' = [status EXCEPT ![j] = "failed"] /\ runs' = runs
    BY <1>22, <2>1 DEF WriteDenial, runVars
  <2>3. /\ Executing' = Executing
        /\ status'[j] = "failed"
        /\ \A k \in Jobs \ {j} : PhaseOf(k)' = PhaseOf(k)
    BY <2>1, <2>2, RowMoves
  <2>4. PhaseOf(j) = "waiting" /\ PhaseOf(j)' = "failed"
    BY <2>1, <2>3 DEF PhaseOf, Active
  <2>5. Contract!Move(j, {"waiting"}, "failed")
    BY <2>1, <2>3, <2>4, MovesTo
  <2>6. Contract!Decide(j)
    BY <2>3, <2>5 DEF Contract!Decide
  <2> QED BY <2>1, <2>6 DEF Maps, Contract!Next
<1>23. ASSUME NEW d \in Daemons, NEW j \in Jobs, CancelJob(d, j) PROVE Maps
  <2>1. status[j] \in Cancellable /\ status' = [status EXCEPT ![j] = "cancelled"] /\ runs' = runs
    BY <1>23 DEF CancelJob, runVars
  <2>2. /\ Executing' = Executing
        /\ status'[j] = "cancelled"
        /\ \A k \in Jobs \ {j} : PhaseOf(k)' = PhaseOf(k)
    BY <2>1, RowMoves
  <2>3. PhaseOf(j) \in {"pending", "active", "waiting"} /\ PhaseOf(j)' = "cancelled"
    BY <2>1, <2>2 DEF PhaseOf, Active, Cancellable
  <2>4. Contract!Move(j, {"pending", "active", "waiting"}, "cancelled")
    BY <2>2, <2>3, MovesTo
  <2>5. Contract!Cancel(j)
    BY <2>2, <2>4 DEF Contract!Cancel
  <2> QED BY <2>5 DEF Maps, Contract!Next
<1>24. ASSUME NEW d \in Daemons, NEW j \in Jobs, RetryJob(d, j) PROVE Maps
  <2>1. /\ status[j] \in {"failed", "cancelled"}
        /\ status' = [status EXCEPT ![j] = "queued"]
        /\ runs' = runs
        /\ RunsFor(j) = {}
    BY <1>24 DEF RetryJob, Reopen, runVars
  <2>2. /\ Executing' = Executing
        /\ status'[j] = "queued"
        /\ \A k \in Jobs \ {j} : PhaseOf(k)' = PhaseOf(k)
    BY <2>1, RowMoves
  <2>3. PhaseOf(j) \in {"failed", "cancelled"} /\ PhaseOf(j)' = "pending"
    BY <2>1, <2>2 DEF PhaseOf, Active
  <2>4. Contract!Move(j, {"failed", "cancelled"}, "pending")
    BY <2>2, <2>3, MovesTo
  <2>5. j \notin Executing
    BY <2>1 DEF Executing, RunsFor
  <2>6. Contract!Reopen(j)
    BY <2>2, <2>4, <2>5 DEF Contract!Reopen
  <2> QED BY <2>6 DEF Maps, Contract!Next
<1>25. ASSUME NEW d \in Daemons, NEW a \in Approvals, NEW decision \in {"approved", "denied"},
             DecideApproval(d, a, decision)
      PROVE  Maps
  BY <1>25, SameRows DEF DecideApproval, jobVars, daemonVars, runVars, historyVars
<1>26. ASSUME NEW j \in Jobs, CliCancel(j) PROVE Maps
  BY <1>26 DEF CliCancel
<1>27. ASSUME NEW j \in Jobs, CliRetry(j) PROVE Maps
  BY <1>27 DEF CliRetry
<1>28. ASSUME NEW a \in Approvals, NEW decision \in {"approved", "denied"}, CliDecide(a, decision) PROVE Maps
  BY <1>28 DEF CliDecide
<1>29. ASSUME NEW d \in Daemons, CliDaemonStop(d) PROVE Maps
  BY <1>29 DEF CliDaemonStop
<1>30. ASSUME Tick PROVE Maps
  BY <1>30, SameRows DEF Tick, jobVars, daemonVars, runVars, historyVars
<1>31. CASE UNCHANGED vars
  BY <1>31, SameRows DEF vars, jobVars, daemonVars, runVars, historyVars
<1>32. ASSUME NEW d \in Daemons, Lifecycle(d) PROVE Maps
  BY <1>32, <1>2, <1>3, <1>4, <1>5, <1>6, <1>7, <1>8, <1>9, <1>10, <1>11 DEF Lifecycle
<1>33. ASSUME NEW d \in Daemons, Execution(d) PROVE Maps
  BY <1>33, <1>12, <1>13, <1>14, <1>15, <1>16, <1>17 DEF Execution
<1>34. CASE Runner
  BY <1>34, <1>18, <1>19 DEF Runner
<1>35. ASSUME NEW d \in Daemons, Wakeups(d) PROVE Maps
  BY <1>35, <1>20, <1>21, <1>22 DEF Wakeups
<1>36. CASE Operator
  BY <1>36, <1>23, <1>24, <1>25, <1>26, <1>27, <1>28, <1>29 DEF Operator
<1> QED BY <1>1, <1>30, <1>31, <1>32, <1>33, <1>34, <1>35, <1>36 DEF Next

(* The queue is the contract with leases, clocks, processes and attempts added:
   one executor per job, settled by that executor, given back when its process
   ends, and a terminal phase left on an operator's request only.  (That the
   queue keeps the contract's fairness too, KeepsContract, is model-checked.) *)
THEOREM QueueImplementsContract == ASSUME Env = {} PROVE Spec => ImplementsContract
<1>1. TypeInv /\ Solo /\ [Next]_vars => Solo'
  BY SoloNext
<1>2. TypeInv /\ Solo /\ ExclusiveInv /\ [Next]_vars => ExclusiveInv'
  BY ExclusiveNext
<1>3. TypeInv /\ Solo /\ ExclusiveInv /\ [Next]_vars => [Contract!Next]_Contract!vars
  BY ContractNext DEF Maps
<1> QED BY <1>1, <1>2, <1>3, InitType, NextType, SoloInit, ExclusiveInit, ContractInit, PTL
        DEF Spec, ImplementsContract, Contract!Spec
=============================================================================
