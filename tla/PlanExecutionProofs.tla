------------------------- MODULE PlanExecutionProofs -------------------------
(* What crashes, retries, approvals and repairs cannot do to the execution of a
   plan, for any task graph, any set of tool calls and any budgets.

   EffectOnce and DoneStaysDone are not inductive.  The first needs that the
   ledger knows of every effect (LedgerKnows) and holds the call being made
   (CallUnderway).  The second needs that the list the loop is going through
   names open tasks only (ListIsReady), that the task in hand is open and off
   that list (TaskIsOpen), and that a plan being written has nothing done
   (PlanBegins).  What a completed plan rests on needs more of every state: what is
   done, in hand or listed stands on completed tasks unless it was overtaken, and
   what is done or in hand on replaced work has its excuse (Based, ReviewInHand). *)
EXTENDS PlanExecution, WellFoundedInduction, TLAPS

USE DEF history

LedgerKnows ==
    \A t \in Tasks, c \in Calls :
        effects[t][c] = 0 \/ (effects[t][c] = 1 /\ ledger[t][c] \in {"executing", "succeeded"})

CallUnderway ==
    /\ proc.pc \in {"tool", "effect"} => ledger[proc.t][proc.call] = "executing"
    /\ proc.pc = "tool" => effects[proc.t][proc.call] = 0

PlanBegins ==
    /\ plan = "none" => proc.pc \in {"off", "planning"} /\ \A t \in Tasks : status[t] = "absent"
    /\ proc.pc = "planning" => plan = "none"
    /\ proc.pc \in {"revise", "insert"} => \A t \in Tasks : status[t] \in {"absent", "pending"}

TaskStates == {"exec", "tool", "effect", "review", "rejected", "reopened"}

ListIsReady == proc.pc \in TaskStates \cup {"next"} => \A t \in todo : status[t] = "ready"

TaskIsOpen == proc.pc \in TaskStates => proc.t \notin todo /\ status[proc.t] # "completed"

PlanInv == TypeOK /\ RetryBudget /\ LedgerKnows /\ CallUnderway /\ PlanBegins /\ ListIsReady /\ TaskIsOpen

-----------------------------------------------------------------------------
(* The first of a list is on it, before all others. *)
LEMMA FirstIsListed ==
    ASSUME NEW S, S \subseteq Nat, S # {}
    PROVE  NextOf(S) \in S /\ \A y \in S : NextOf(S) <= y
  <1> DEFINE R == OpToRel(<, Nat)
  <1>1. IsWellFoundedOn(R, Nat)
    BY NatLessThanWellFounded
  <1>2. \A x, y \in Nat : x < y => <<x, y>> \in R
    BY DEF OpToRel
  <1> HIDE DEF R
  <1>3. PICK x \in S : \A y \in S : ~ (<<y, x>> \in R)
    BY <1>1, WFMin
  <1>4. ASSUME NEW y \in S
        PROVE  x <= y
    <2>1. x \in Nat /\ y \in Nat
      OBVIOUS
    <2>2. ~ (y < x)
      BY <2>1, <1>2, <1>3, Zenon
    <2> QED
      BY <2>1, <2>2
  <1> QED
    BY <1>4 DEF NextOf

(* What the process holds while it works on a task. *)
LEMMA InHand ==
    ASSUME proc \in ProcStates
    PROVE  /\ proc.pc = "exec" => /\ proc.t \in Tasks /\ proc.left \in SUBSET Calls
                                  /\ proc = [pc |-> "exec", t |-> proc.t, left |-> proc.left]
           /\ proc.pc \in {"tool", "effect"} =>
                  /\ proc.t \in Tasks /\ proc.left \in SUBSET Calls /\ proc.call \in Calls
                  /\ proc = [pc |-> proc.pc, t |-> proc.t, left |-> proc.left, call |-> proc.call]
           /\ proc.pc = "review" => proc.t \in Tasks /\ proc = [pc |-> proc.pc, t |-> proc.t]
           /\ proc.pc \in {"rejected", "reopened"} =>
                  /\ proc.t \in Tasks /\ proc.policy \in {"retryable", "needs_human"}
                  /\ proc = [pc |-> proc.pc, t |-> proc.t, policy |-> proc.policy]
  BY DEF ProcStates, Off

(* A failure within the budget makes the task ready again and uses the budget; any
   other ends the run.  Neither finishes the task nor begins a plan.       *)
LEMMA FailureKeeps ==
    ASSUME TypeOK, RetryBudget, NEW t \in Tasks,
           NEW policy \in {"retryable", "needs_human", "needs_approval", "non_retryable"},
           HandleFailure(t, policy)
    PROVE  /\ proc' \in {Off, At("next")} /\ executed' = executed
           /\ plan' = plan \/ plan' \in {"waiting", "failed"}
           /\ agent' \in PlanStatus \cup {"created"}
           /\ \E s \in {"ready", "needs_approval", "blocked", "failed"} :
                  /\ status' = [status EXCEPT ![t] = s]
                  /\ proc' = At("next") => s = "ready"
           /\ retries' \in [Tasks -> Nat] /\ RetryBudget'
  <1>1. CASE HasBudget(t, policy)
    <2>1. /\ status' = [status EXCEPT ![t] = "ready"] /\ retries' = [retries EXCEPT ![t] = @ + 1]
          /\ proc' = At("next") /\ plan' = plan /\ agent' = agent /\ executed' = executed
      BY <1>1 DEF HandleFailure, Retried
    <2>2. retries[t] < MaxRetries /\ retries[t] \in Nat /\ MaxRetries \in Nat
      BY <1>1, PlanAssumption DEF HasBudget, TypeOK, PlanTypeOK
    <2>3. retries' \in [Tasks -> Nat] /\ RetryBudget'
      BY <2>1, <2>2 DEF TypeOK, PlanTypeOK, RetryBudget
    <2> QED
      BY <2>1, <2>3 DEF TypeOK, PlanTypeOK
  <1>2. CASE ~HasBudget(t, policy)
    <2>1. /\ status' = [status EXCEPT ![t] = FailedStatus(policy)] /\ retries' = retries
          /\ proc' = Off /\ plan' \in {"waiting", "failed"} /\ agent' = plan' /\ executed' = executed
      BY <1>2 DEF HandleFailure
    <2>2. FailedStatus(policy) \in {"needs_approval", "blocked", "failed"}
      BY DEF FailedStatus
    <2>3. Off # At("next")
      BY DEF Off, At
    <2> QED
      BY <2>1, <2>2, <2>3 DEF TypeOK, PlanTypeOK, PlanStatus, RetryBudget
  <1> QED
    BY <1>1, <1>2

-----------------------------------------------------------------------------
(* The lesser of two numbers is one of them. *)
LEMMA LesserIsNat ==
    ASSUME NEW a \in Nat, NEW b \in Nat
    PROVE  Min({a, b}) \in Nat
  <1>1. \E x \in {a, b} : \A y \in {a, b} : x =< y
    OBVIOUS
  <1> QED
    BY <1>1 DEF Min

(* A failed task leaves the plan in order, if its ledger is. *)
LEMMA FailureIsSafe ==
    ASSUME PlanInv, proc.pc \in TaskStates, proc.t \in Tasks,
           NEW policy \in {"retryable", "needs_human", "needs_approval", "non_retryable"},
           HandleFailure(proc.t, policy), UNCHANGED <<revised, reviews, todo, runs, stale, overtaken>>,
           ToolTypeOK', LedgerKnows'
    PROVE  PlanInv' /\ DoneIsKept
  <1>1. /\ proc' \in {Off, At("next")} /\ executed' = executed
        /\ plan' = plan \/ plan' \in {"waiting", "failed"}
        /\ agent' \in PlanStatus \cup {"created"}
        /\ retries' \in [Tasks -> Nat] /\ RetryBudget'
    BY FailureKeeps DEF PlanInv
  <1>2. PICK s \in {"ready", "needs_approval", "blocked", "failed"} :
            status' = [status EXCEPT ![proc.t] = s] /\ (proc' = At("next") => s = "ready")
    BY FailureKeeps DEF PlanInv
  <1>3. TypeOK'
    <2>1. PlanTypeOK'
      BY <1>1, <1>2 DEF PlanInv, TypeOK, PlanTypeOK, StatusNames, PlanStatus
    <2>2. RunTypeOK'
      BY <1>1 DEF PlanInv, TypeOK, RunTypeOK, ProcStates, At
    <2> QED
      BY <2>1, <2>2 DEF PlanInv, TypeOK
  <1>4. CallUnderway' /\ TaskIsOpen'
    BY <1>1 DEF CallUnderway, TaskIsOpen, TaskStates, Off, At
  <1>5. PlanBegins'
    <2>1. plan # "none"
      BY DEF PlanInv, PlanBegins, TaskStates
    <2> QED
      BY <1>1, <2>1 DEF PlanBegins, Off, At
  <1>6. ListIsReady'
    BY <1>1, <1>2 DEF PlanInv, ListIsReady, TaskStates, Off, At, TypeOK, PlanTypeOK
  <1>7. DoneIsKept
    BY <1>2 DEF PlanInv, TaskIsOpen, DoneIsKept, TypeOK, PlanTypeOK
  <1> QED
    BY <1>1, <1>3, <1>4, <1>5, <1>6, <1>7 DEF PlanInv

(* Nothing has begun. *)
LEMMA InitPlan == Init => PlanInv
  <1> SUFFICES ASSUME Init
               PROVE  PlanInv
    OBVIOUS
  <1>0. /\ approval = [t \in Tasks |-> [c \in Calls |-> "none"]]
        /\ ledger = [t \in Tasks |-> [c \in Calls |-> "none"]]
        /\ effects = [t \in Tasks |-> [c \in Calls |-> 0]]
    BY Zenon DEF Init, Each
  <1>1. TypeOK
    <2>1. PlanTypeOK /\ stale \subseteq Tasks /\ overtaken \subseteq Tasks
      BY DEF Init, PlanTypeOK, StatusNames
    <2>2. ToolTypeOK
      BY <1>0 DEF ToolTypeOK
    <2>3. RunTypeOK
      BY PlanAssumption DEF Init, RunTypeOK, ProcStates
    <2> QED
      BY <2>1, <2>2, <2>3 DEF TypeOK
  <1>2. RetryBudget /\ LedgerKnows
    <2>1. RetryBudget
      BY PlanAssumption DEF Init, RetryBudget
    <2>2. ASSUME NEW t \in Tasks, NEW c \in Calls
          PROVE  effects[t][c] = 0
      BY <1>0
    <2> QED
      BY <2>1, <2>2 DEF LedgerKnows
  <1>3. CallUnderway /\ PlanBegins /\ ListIsReady /\ TaskIsOpen
    BY DEF Init, CallUnderway, PlanBegins, ListIsReady, TaskIsOpen, TaskStates, Off
  <1> QED
    BY <1>1, <1>2, <1>3 DEF PlanInv

(* The process is started: where it begins depends on what was written. *)
LEMMA StartKeeps ==
    ASSUME PlanInv, Start
    PROVE  PlanInv' /\ DoneIsKept
  <1>1. /\ proc = Off /\ runs < MaxRuns /\ runs' = runs + 1
        /\ proc' = At(IF plan = "none" THEN "planning" ELSE IF Inserted = {} /\ revised THEN "insert" ELSE "begin")
        /\ UNCHANGED <<plan, agent, revised, status, retries, reviews, toolVars, todo, executed, stale, overtaken>>
    BY DEF Start, planVars
  <1>2. TypeOK'
    BY <1>1, PlanAssumption DEF PlanInv, TypeOK, PlanTypeOK, ToolTypeOK, RunTypeOK, toolVars,
       ProcStates, At
  <1>3. RetryBudget' /\ LedgerKnows'
    BY <1>1 DEF PlanInv, RetryBudget, LedgerKnows, toolVars
  <1>4. CallUnderway' /\ TaskIsOpen'
    BY <1>1 DEF CallUnderway, TaskIsOpen, TaskStates, At
  <1>5. PlanBegins'
    BY <1>1 DEF PlanInv, PlanBegins, Inserted, Off, At
  <1>6. ListIsReady'
    BY <1>1 DEF PlanInv, ListIsReady, TaskStates, At
  <1>7. DoneIsKept
    BY <1>1 DEF DoneIsKept
  <1> QED
    BY <1>2, <1>3, <1>4, <1>5, <1>6, <1>7 DEF PlanInv

(* A plan is begun: nothing of it is there. *)
LEMMA CreatePlanKeeps ==
    ASSUME PlanInv, CreatePlan
    PROVE  PlanInv' /\ DoneIsKept
  <1>1. /\ proc.pc = "planning" /\ plan' = "running" /\ proc' = At("revise")
        /\ UNCHANGED <<agent, revised, status, retries, reviews, toolVars, todo, executed, runs, stale, overtaken>>
    BY DEF CreatePlan
  <1>2. TypeOK'
    BY <1>1 DEF PlanInv, TypeOK, PlanTypeOK, ToolTypeOK, RunTypeOK, toolVars, ProcStates, At,
       PlanStatus
  <1>3. RetryBudget' /\ LedgerKnows'
    BY <1>1 DEF PlanInv, RetryBudget, LedgerKnows, toolVars
  <1>4. CallUnderway' /\ TaskIsOpen'
    BY <1>1 DEF CallUnderway, TaskIsOpen, TaskStates, At
  <1>5. PlanBegins'
    BY <1>1 DEF PlanInv, PlanBegins, At
  <1>6. ListIsReady'
    BY <1>1 DEF PlanInv, ListIsReady, TaskStates, At
  <1>7. DoneIsKept
    BY <1>1 DEF DoneIsKept
  <1> QED
    BY <1>2, <1>3, <1>4, <1>5, <1>6, <1>7 DEF PlanInv

(* Its revision is recorded. *)
LEMMA RecordPlanRevisionKeeps ==
    ASSUME PlanInv, RecordPlanRevision
    PROVE  PlanInv' /\ DoneIsKept
  <1>1. /\ proc.pc = "revise" /\ revised' = TRUE /\ proc' = At("insert")
        /\ UNCHANGED <<plan, agent, status, retries, reviews, toolVars, todo, executed, runs, stale, overtaken>>
    BY DEF RecordPlanRevision
  <1>2. TypeOK'
    BY <1>1 DEF PlanInv, TypeOK, PlanTypeOK, ToolTypeOK, RunTypeOK, toolVars, ProcStates, At
  <1>3. RetryBudget' /\ LedgerKnows'
    BY <1>1 DEF PlanInv, RetryBudget, LedgerKnows, toolVars
  <1>4. CallUnderway' /\ TaskIsOpen'
    BY <1>1 DEF CallUnderway, TaskIsOpen, TaskStates, At
  <1>5. PlanBegins'
    BY <1>1 DEF PlanInv, PlanBegins, At
  <1>6. ListIsReady'
    BY <1>1 DEF PlanInv, ListIsReady, TaskStates, At
  <1>7. DoneIsKept
    BY <1>1 DEF DoneIsKept
  <1> QED
    BY <1>2, <1>3, <1>4, <1>5, <1>6, <1>7 DEF PlanInv

(* Its tasks are inserted one by one, none of them done. *)
LEMMA AddPlanTaskKeeps ==
    ASSUME PlanInv, AddPlanTask
    PROVE  PlanInv' /\ DoneIsKept
  <1>1. /\ proc.pc = "insert" /\ proc' \in {proc, At("begin")}
        /\ status' \in {status, [status EXCEPT ![Cardinality(Inserted) + 1] = "pending"]}
        /\ UNCHANGED <<plan, agent, revised, retries, reviews, toolVars, todo, executed, runs, stale, overtaken>>
    BY DEF AddPlanTask
  <1>2. PlanTypeOK'
    <2> DEFINE k == Cardinality(Inserted) + 1
    <2> HIDE DEF k
    <2>1. status' \in {status, [status EXCEPT ![k] = "pending"]}
      BY <1>1 DEF k
    <2> QED
      BY <1>1, <2>1 DEF PlanInv, TypeOK, PlanTypeOK, StatusNames
  <1>3. TypeOK'
    BY <1>1, <1>2 DEF PlanInv, TypeOK, ToolTypeOK, RunTypeOK, toolVars, ProcStates, At
  <1>4. RetryBudget' /\ LedgerKnows'
    BY <1>1 DEF PlanInv, RetryBudget, LedgerKnows, toolVars
  <1>5. CallUnderway' /\ TaskIsOpen'
    BY <1>1 DEF CallUnderway, TaskIsOpen, TaskStates, At
  <1>6. PlanBegins'
    BY <1>1 DEF PlanInv, PlanBegins, TypeOK, PlanTypeOK, At
  <1>7. ListIsReady'
    BY <1>1 DEF PlanInv, ListIsReady, TaskStates, At
  <1>8. DoneIsKept
    BY <1>1 DEF PlanInv, PlanBegins, DoneIsKept
  <1> QED
    BY <1>2, <1>3, <1>4, <1>5, <1>6, <1>7, <1>8 DEF PlanInv

(* A resumption takes no finished task up. *)
LEMMA ResumeKeeps ==
    ASSUME PlanInv, Resume
    PROVE  PlanInv' /\ DoneIsKept
  <1>1. /\ proc.pc = "begin" /\ status' = [t \in Tasks |-> Resumed(t)] /\ executed' = 0
        /\ \/ plan' = "failed" /\ agent' = "failed" /\ proc' = Off
           \/ plan' = "running" /\ agent' = "running" /\ proc' = At("loop")
        /\ UNCHANGED <<revised, retries, reviews, toolVars, todo, runs, stale, overtaken>>
    BY DEF Resume
  <1>2. \A t \in Tasks : Resumed(t) \in StatusNames /\ (status[t] = "completed" => Resumed(t) = "completed")
    BY DEF PlanInv, TypeOK, PlanTypeOK, StatusNames, Resumed, Requeued
  <1>3. TypeOK'
    BY <1>1, <1>2 DEF PlanInv, TypeOK, PlanTypeOK, ToolTypeOK, RunTypeOK, toolVars, ProcStates,
       At, PlanStatus
  <1>4. RetryBudget' /\ LedgerKnows'
    BY <1>1 DEF PlanInv, RetryBudget, LedgerKnows, toolVars
  <1>5. CallUnderway' /\ TaskIsOpen'
    BY <1>1 DEF CallUnderway, TaskIsOpen, TaskStates, Off, At
  <1>6. PlanBegins'
    BY <1>1 DEF PlanInv, PlanBegins, Off, At
  <1>7. ListIsReady'
    BY <1>1 DEF PlanInv, ListIsReady, TaskStates, Off, At
  <1>8. DoneIsKept
    BY <1>1, <1>2 DEF DoneIsKept
  <1> QED
    BY <1>2, <1>3, <1>4, <1>5, <1>6, <1>7, <1>8 DEF PlanInv

(* What is listed is ready. *)
LEMMA ListRunnableKeeps ==
    ASSUME PlanInv, ListRunnable
    PROVE  PlanInv' /\ DoneIsKept
  <1>1. /\ proc.pc = "loop" /\ status' = [t \in Tasks |-> Runnable(t)]
        /\ todo' = {t \in Tasks : Runnable(t) = "ready"}
        /\ proc' \in {Off, At("next")}
        /\ (plan' = plan /\ agent' = agent) \/ (plan' = "completed" /\ agent' = "completed")
        /\ UNCHANGED <<revised, retries, reviews, toolVars, executed, runs, stale, overtaken>>
    <2>1. CASE todo' = {}
      BY <2>1 DEF ListRunnable
    <2>2. CASE todo' # {}
      BY <2>2 DEF ListRunnable
    <2> QED
      BY <2>1, <2>2
  <1>2. \A t \in Tasks : Runnable(t) \in StatusNames /\ (status[t] = "completed" => Runnable(t) = "completed")
    BY DEF PlanInv, TypeOK, PlanTypeOK, StatusNames, Runnable
  <1>3. TypeOK'
    BY <1>1, <1>2 DEF PlanInv, TypeOK, PlanTypeOK, ToolTypeOK, RunTypeOK, toolVars, ProcStates,
       At, PlanStatus
  <1>4. RetryBudget' /\ LedgerKnows'
    BY <1>1 DEF PlanInv, RetryBudget, LedgerKnows, toolVars
  <1>5. CallUnderway' /\ TaskIsOpen'
    BY <1>1 DEF CallUnderway, TaskIsOpen, TaskStates, Off, At
  <1>6. PlanBegins'
    BY <1>1 DEF PlanInv, PlanBegins, Off, At
  <1>7. ListIsReady'
    BY <1>1 DEF ListIsReady
  <1>8. DoneIsKept
    BY <1>1, <1>2 DEF DoneIsKept
  <1> QED
    BY <1>2, <1>3, <1>4, <1>5, <1>6, <1>7, <1>8 DEF PlanInv

(* The task that is begun was on the list, so it was not done. *)
LEMMA BeginTaskKeeps ==
    ASSUME PlanInv, BeginTask
    PROVE  PlanInv' /\ DoneIsKept
  <1>0. NextOf(todo) \in todo /\ todo \subseteq Tasks
    <2>1. todo # {} /\ todo \subseteq Tasks
      BY DEF PlanInv, TypeOK, RunTypeOK, BeginTask
    <2>2. Tasks \subseteq Nat
      BY DEF Tasks
    <2>3. todo \subseteq Nat
      BY <2>1, <2>2
    <2> QED
      BY <2>1, <2>3, FirstIsListed
  <1>1. /\ proc.pc = "next" /\ NextOf(todo) \in Tasks /\ status[NextOf(todo)] = "ready"
        /\ todo' = todo \ {NextOf(todo)} /\ status' = [status EXCEPT ![NextOf(todo)] = "running"]
        /\ proc' \in {On("review", NextOf(todo)), [pc |-> "exec", t |-> NextOf(todo), left |-> Calls]}
        /\ stale' \subseteq Tasks /\ overtaken' \subseteq Tasks
        /\ UNCHANGED <<plan, agent, revised, retries, reviews, toolVars, executed, runs>>
    BY <1>0 DEF PlanInv, ListIsReady, TaskStates, BeginTask, TypeOK, Inserted
  <1>2. TypeOK'
    BY <1>1 DEF PlanInv, TypeOK, PlanTypeOK, ToolTypeOK, RunTypeOK, toolVars, ProcStates, On,
       StatusNames
  <1>3. RetryBudget' /\ LedgerKnows'
    BY <1>1 DEF PlanInv, RetryBudget, LedgerKnows, toolVars
  <1>4. CallUnderway' /\ TaskIsOpen'
    BY <1>1 DEF PlanInv, TypeOK, PlanTypeOK, CallUnderway, TaskIsOpen, TaskStates, On
  <1>5. PlanBegins'
    BY <1>1 DEF PlanInv, PlanBegins, On
  <1>6. ListIsReady'
    BY <1>1 DEF PlanInv, TypeOK, PlanTypeOK, ListIsReady, TaskStates
  <1>7. DoneIsKept
    BY <1>1 DEF PlanInv, TypeOK, PlanTypeOK, DoneIsKept
  <1> QED
    BY <1>2, <1>3, <1>4, <1>5, <1>6, <1>7 DEF PlanInv

(* The limit of tasks ends the run. *)
LEMMA PauseKeeps ==
    ASSUME PlanInv, Pause
    PROVE  PlanInv' /\ DoneIsKept
  <1>1. /\ proc.pc = "next" /\ plan' = "paused" /\ agent' = "paused" /\ proc' = Off
        /\ UNCHANGED <<revised, status, retries, reviews, toolVars, todo, executed, runs, stale, overtaken>>
    BY DEF Pause
  <1>2. TypeOK'
    BY <1>1 DEF PlanInv, TypeOK, PlanTypeOK, ToolTypeOK, RunTypeOK, toolVars, ProcStates, PlanStatus
  <1>3. RetryBudget' /\ LedgerKnows'
    BY <1>1 DEF PlanInv, RetryBudget, LedgerKnows, toolVars
  <1>4. CallUnderway' /\ TaskIsOpen'
    BY <1>1 DEF CallUnderway, TaskIsOpen, TaskStates, Off
  <1>5. PlanBegins'
    BY <1>1 DEF PlanInv, PlanBegins, Off
  <1>6. ListIsReady'
    BY <1>1 DEF PlanInv, ListIsReady, TaskStates, Off
  <1>7. DoneIsKept
    BY <1>1 DEF DoneIsKept
  <1> QED
    BY <1>2, <1>3, <1>4, <1>5, <1>6, <1>7 DEF PlanInv

(* An exhausted list is made anew. *)
LEMMA ListAgainKeeps ==
    ASSUME PlanInv, ListAgain
    PROVE  PlanInv' /\ DoneIsKept
  <1>1. /\ proc.pc = "next" /\ proc' = At("loop")
        /\ UNCHANGED <<plan, agent, revised, status, retries, reviews, toolVars, todo, executed, runs, stale, overtaken>>
    BY DEF ListAgain, planVars
  <1>2. TypeOK'
    BY <1>1 DEF PlanInv, TypeOK, PlanTypeOK, ToolTypeOK, RunTypeOK, toolVars, ProcStates, At
  <1>3. RetryBudget' /\ LedgerKnows'
    BY <1>1 DEF PlanInv, RetryBudget, LedgerKnows, toolVars
  <1>4. CallUnderway' /\ TaskIsOpen'
    BY <1>1 DEF CallUnderway, TaskIsOpen, TaskStates, At
  <1>5. PlanBegins'
    BY <1>1 DEF PlanInv, PlanBegins, At
  <1>6. ListIsReady'
    BY <1>1 DEF PlanInv, ListIsReady, TaskStates, At
  <1>7. DoneIsKept
    BY <1>1 DEF DoneIsKept
  <1> QED
    BY <1>2, <1>3, <1>4, <1>5, <1>6, <1>7 DEF PlanInv

(* A task is done that was not on the list. *)
LEMMA FinishTaskKeeps ==
    ASSUME PlanInv, FinishTask
    PROVE  PlanInv' /\ DoneIsKept
  <1>1. /\ proc.pc = "exec" /\ proc.t \in Tasks /\ status' = [status EXCEPT ![proc.t] = "completed"]
        /\ executed' = executed + 1 /\ proc' = At("next")
        /\ UNCHANGED <<plan, agent, revised, retries, reviews, toolVars, todo, runs, stale, overtaken>>
    BY InHand DEF PlanInv, TypeOK, RunTypeOK, FinishTask, Complete
  <1>2. TypeOK'
    BY <1>1 DEF PlanInv, TypeOK, PlanTypeOK, ToolTypeOK, RunTypeOK, toolVars, ProcStates, At,
       StatusNames
  <1>3. RetryBudget' /\ LedgerKnows'
    BY <1>1 DEF PlanInv, RetryBudget, LedgerKnows, toolVars
  <1>4. CallUnderway' /\ TaskIsOpen'
    BY <1>1 DEF CallUnderway, TaskIsOpen, TaskStates, At
  <1>5. PlanBegins'
    BY <1>1 DEF PlanInv, PlanBegins, At
  <1>6. ListIsReady'
    BY <1>1 DEF PlanInv, TypeOK, PlanTypeOK, ListIsReady, TaskIsOpen, TaskStates
  <1>7. DoneIsKept
    BY <1>1 DEF PlanInv, TypeOK, PlanTypeOK, DoneIsKept
  <1> QED
    BY <1>2, <1>3, <1>4, <1>5, <1>6, <1>7 DEF PlanInv

(* So is a verification. *)
LEMMA AcceptKeeps ==
    ASSUME PlanInv, Accept
    PROVE  PlanInv' /\ DoneIsKept
  <1>0. MaxRepair \in Nat
    BY PlanAssumption
  <1>1. /\ proc.pc = "review" /\ proc.t \in Tasks /\ status' = [status EXCEPT ![proc.t] = "completed"]
        /\ executed' = executed + 1 /\ proc' = At("next")
        /\ reviews' \in [Tasks -> Nat]
        /\ UNCHANGED <<plan, agent, revised, retries, toolVars, todo, runs, stale, overtaken>>
    BY <1>0, InHand, LesserIsNat DEF PlanInv, TypeOK, RunTypeOK, Accept, Complete,
       PlanTypeOK, Reviewed
  <1>2. TypeOK'
    BY <1>1 DEF PlanInv, TypeOK, PlanTypeOK, ToolTypeOK, RunTypeOK, toolVars, ProcStates, At,
       StatusNames
  <1>3. RetryBudget' /\ LedgerKnows'
    BY <1>1 DEF PlanInv, RetryBudget, LedgerKnows, toolVars
  <1>4. CallUnderway' /\ TaskIsOpen'
    BY <1>1 DEF CallUnderway, TaskIsOpen, TaskStates, At
  <1>5. PlanBegins'
    BY <1>1 DEF PlanInv, PlanBegins, At
  <1>6. ListIsReady'
    BY <1>1 DEF PlanInv, TypeOK, PlanTypeOK, ListIsReady, TaskIsOpen, TaskStates
  <1>7. DoneIsKept
    BY <1>1 DEF PlanInv, TypeOK, PlanTypeOK, DoneIsKept
  <1> QED
    BY <1>2, <1>3, <1>4, <1>5, <1>6, <1>7 DEF PlanInv

(* A call is made that the ledger knows no effect of. *)
LEMMA CallToolKeeps ==
    ASSUME PlanInv, CallTool
    PROVE  PlanInv' /\ DoneIsKept
  <1>0. PICK c \in proc.left :
            /\ proc.pc = "exec"
            /\ ledger[proc.t][c] # "succeeded" /\ ~Refused(proc.t, c)
            /\ ledger' = [ledger EXCEPT ![proc.t][c] = "executing"]
            /\ proc' = [pc |-> "tool", t |-> proc.t, left |-> proc.left \ {c}, call |-> c]
            /\ UNCHANGED <<planVars, approval, effects, todo, executed, runs, stale, overtaken>>
    BY DEF CallTool
  <1>1. /\ proc.pc = "exec" /\ proc.t \in Tasks /\ c \in Calls /\ proc.left \in SUBSET Calls
        /\ ledger[proc.t][c] \notin {"executing", "succeeded"}
        /\ ledger' = [ledger EXCEPT ![proc.t][c] = "executing"]
        /\ proc' = [pc |-> "tool", t |-> proc.t, left |-> proc.left \ {c}, call |-> c]
        /\ UNCHANGED <<plan, agent, revised, status, retries, reviews, approval, effects, todo, executed, runs, stale, overtaken>>
    BY <1>0, InHand DEF PlanInv, TypeOK, RunTypeOK, Refused, planVars
  <1>2. TypeOK'
    BY <1>1 DEF PlanInv, TypeOK, PlanTypeOK, ToolTypeOK, RunTypeOK, ProcStates
  <1>3. RetryBudget' /\ LedgerKnows'
    BY <1>1 DEF PlanInv, TypeOK, ToolTypeOK, RetryBudget, LedgerKnows
  <1>4. CallUnderway'
    BY <1>1 DEF PlanInv, TypeOK, ToolTypeOK, LedgerKnows, CallUnderway
  <1>5. PlanBegins' /\ ListIsReady' /\ TaskIsOpen'
    BY <1>1 DEF PlanInv, PlanBegins, ListIsReady, TaskIsOpen, TaskStates
  <1>6. DoneIsKept
    BY <1>1 DEF DoneIsKept
  <1> QED
    BY <1>2, <1>3, <1>4, <1>5, <1>6 DEF PlanInv

(* A call takes effect once. *)
LEMMA TakeEffectKeeps ==
    ASSUME PlanInv, TakeEffect
    PROVE  PlanInv' /\ DoneIsKept
  <1>0. /\ proc.pc = "tool" /\ proc.t \in Tasks /\ proc.call \in Calls /\ proc.left \in SUBSET Calls
        /\ proc = [pc |-> "tool", t |-> proc.t, left |-> proc.left, call |-> proc.call]
    BY InHand DEF PlanInv, TypeOK, RunTypeOK, TakeEffect
  <1>1. /\ proc.pc = "tool" /\ proc.t \in Tasks /\ proc.call \in Calls /\ proc.left \in SUBSET Calls
        /\ effects' = [effects EXCEPT ![proc.t][proc.call] = @ + 1]
        /\ proc' = [pc |-> "effect", t |-> proc.t, left |-> proc.left, call |-> proc.call]
        /\ UNCHANGED <<plan, agent, revised, status, retries, reviews, approval, ledger, todo, executed, runs, stale, overtaken>>
    BY <1>0 DEF TakeEffect, planVars
  <1>2. effects[proc.t][proc.call] = 0 /\ ledger[proc.t][proc.call] = "executing"
    BY <1>1 DEF PlanInv, CallUnderway
  <1>3. effects' \in [Tasks -> [Calls -> Nat]] /\ effects'[proc.t][proc.call] = 1
    BY <1>1, <1>2 DEF PlanInv, TypeOK, ToolTypeOK
  <1>4. TypeOK'
    BY <1>1, <1>3 DEF PlanInv, TypeOK, PlanTypeOK, ToolTypeOK, RunTypeOK, ProcStates
  <1>5. LedgerKnows'
    BY <1>1, <1>2, <1>3 DEF PlanInv, TypeOK, ToolTypeOK, LedgerKnows
  <1>6. RetryBudget' /\ CallUnderway'
    BY <1>1, <1>2 DEF PlanInv, RetryBudget, CallUnderway
  <1>7. PlanBegins' /\ ListIsReady' /\ TaskIsOpen'
    BY <1>1 DEF PlanInv, PlanBegins, ListIsReady, TaskIsOpen, TaskStates
  <1>8. DoneIsKept
    BY <1>1 DEF DoneIsKept
  <1> QED
    BY <1>2, <1>3, <1>4, <1>5, <1>6, <1>7, <1>8 DEF PlanInv

(* And is recorded. *)
LEMMA RecordSuccessKeeps ==
    ASSUME PlanInv, RecordSuccess
    PROVE  PlanInv' /\ DoneIsKept
  <1>1. /\ proc.pc = "effect" /\ proc.t \in Tasks /\ proc.call \in Calls /\ proc.left \in SUBSET Calls
        /\ ledger' = [ledger EXCEPT ![proc.t][proc.call] = "succeeded"]
        /\ proc' = [pc |-> "exec", t |-> proc.t, left |-> proc.left]
        /\ UNCHANGED <<plan, agent, revised, status, retries, reviews, approval, effects, todo, executed, runs, stale, overtaken>>
    BY InHand DEF PlanInv, TypeOK, RunTypeOK, RecordSuccess, planVars
  <1>2. TypeOK'
    BY <1>1 DEF PlanInv, TypeOK, PlanTypeOK, ToolTypeOK, RunTypeOK, ProcStates
  <1>3. RetryBudget' /\ LedgerKnows'
    BY <1>1 DEF PlanInv, TypeOK, ToolTypeOK, RetryBudget, LedgerKnows
  <1>4. CallUnderway'
    BY <1>1 DEF CallUnderway
  <1>5. PlanBegins' /\ ListIsReady' /\ TaskIsOpen'
    BY <1>1 DEF PlanInv, PlanBegins, ListIsReady, TaskIsOpen, TaskStates
  <1>6. DoneIsKept
    BY <1>1 DEF DoneIsKept
  <1> QED
    BY <1>2, <1>3, <1>4, <1>5, <1>6 DEF PlanInv

(* A verification is rejected. *)
LEMMA RejectKeeps ==
    ASSUME PlanInv, Reject
    PROVE  PlanInv' /\ DoneIsKept
  <1>0. MaxRepair \in Nat
    BY PlanAssumption
  <1>1. /\ proc.pc = "review" /\ proc.t \in Tasks /\ status' = [status EXCEPT ![proc.t] = "failed"]
        /\ reviews' \in [Tasks -> Nat]
        /\ \E p \in {"retryable", "needs_human"} : proc' = [pc |-> "rejected", t |-> proc.t, policy |-> p]
        /\ UNCHANGED <<plan, agent, revised, retries, toolVars, todo, executed, runs, stale, overtaken>>
    <2>1. proc.pc = "review" /\ proc.t \in Tasks
      BY InHand DEF PlanInv, TypeOK, RunTypeOK, Reject
    <2>2. reviews' \in [Tasks -> Nat]
      BY <1>0, <2>1, LesserIsNat DEF PlanInv, TypeOK, PlanTypeOK, Reject, Reviewed
    <2>3. \E p \in {"retryable", "needs_human"} : proc' = [pc |-> "rejected", t |-> proc.t, policy |-> p]
      BY DEF Reject
    <2> QED BY <2>1, <2>2, <2>3 DEF Reject
  <1>2. TypeOK'
    BY <1>1 DEF PlanInv, TypeOK, PlanTypeOK, ToolTypeOK, RunTypeOK, toolVars, ProcStates,
       StatusNames
  <1>3. RetryBudget' /\ LedgerKnows'
    BY <1>1 DEF PlanInv, RetryBudget, LedgerKnows, toolVars
  <1>4. CallUnderway' /\ TaskIsOpen'
    BY <1>1 DEF PlanInv, TypeOK, PlanTypeOK, CallUnderway, TaskIsOpen, TaskStates
  <1>5. PlanBegins'
    BY <1>1 DEF PlanInv, PlanBegins, TaskStates
  <1>6. ListIsReady'
    BY <1>1 DEF PlanInv, TypeOK, PlanTypeOK, ListIsReady, TaskIsOpen, TaskStates
  <1>7. DoneIsKept
    BY <1>1 DEF PlanInv, TypeOK, PlanTypeOK, TaskIsOpen, TaskStates, DoneIsKept
  <1> QED
    BY <1>2, <1>3, <1>4, <1>5, <1>6, <1>7 DEF PlanInv

(* It takes a dependency up again, out of that one's budget. *)
LEMMA ReopenDependencyKeeps ==
    ASSUME PlanInv, ReopenDependency
    PROVE  PlanInv' /\ DoneIsKept
  <1> DEFINE d == Last[proc.t]
  <1>1. /\ proc.pc = "rejected" /\ proc.t \in Tasks /\ proc.policy \in {"retryable", "needs_human"}
        /\ retries[d] < MaxRetries
        /\ status' = [status EXCEPT ![d] = "ready"] /\ retries' = [retries EXCEPT ![d] = @ + 1]
        /\ proc' = [pc |-> "reopened", t |-> proc.t, policy |-> proc.policy]
        /\ UNCHANGED <<plan, agent, revised, reviews, toolVars, todo, executed, runs, stale>>
        /\ overtaken' \subseteq Tasks
    BY InHand DEF PlanInv, TypeOK, RunTypeOK, ReopenDependency, Repairable, Retried, Overtaken, Inserted
  <1> HIDE DEF d
  <1>2. retries' \in [Tasks -> Nat]
    <2>1. retries' = [u \in Tasks |-> IF u = d THEN retries[d] + 1 ELSE retries[u]]
      BY <1>1 DEF PlanInv, TypeOK, PlanTypeOK
    <2>2. \A u \in Tasks : retries[u] \in Nat
      BY DEF PlanInv, TypeOK, PlanTypeOK
    <2> QED
      BY <2>1, <2>2
  <1>3. RetryBudget'
    BY <1>1, PlanAssumption DEF PlanInv, TypeOK, PlanTypeOK, RetryBudget
  <1>4. DoneIsKept
    BY <1>1 DEF PlanInv, TypeOK, PlanTypeOK, DoneIsKept
  <1>5. TypeOK'
    BY <1>1, <1>2 DEF PlanInv, TypeOK, PlanTypeOK, ToolTypeOK, RunTypeOK, toolVars, ProcStates,
       StatusNames
  <1>6. LedgerKnows'
    BY <1>1 DEF PlanInv, LedgerKnows, toolVars
  <1>7. CallUnderway' /\ TaskIsOpen'
    BY <1>1 DEF PlanInv, TypeOK, PlanTypeOK, CallUnderway, TaskIsOpen, TaskStates
  <1>8. PlanBegins'
    BY <1>1 DEF PlanInv, PlanBegins, TaskStates
  <1>9. ListIsReady'
    BY <1>1 DEF PlanInv, TypeOK, PlanTypeOK, ListIsReady, TaskStates, RunTypeOK
  <1> QED
    BY <1>2, <1>3, <1>4, <1>5, <1>6, <1>7, <1>8, <1>9 DEF PlanInv

(* And waits for it. *)
LEMMA AwaitRepairKeeps ==
    ASSUME PlanInv, AwaitRepair
    PROVE  PlanInv' /\ DoneIsKept
  <1>1. /\ proc.pc = "reopened" /\ proc.t \in Tasks /\ status' = [status EXCEPT ![proc.t] = "pending"]
        /\ executed' = executed + 1 /\ proc' = At("next")
        /\ UNCHANGED <<plan, agent, revised, retries, reviews, toolVars, todo, runs, stale, overtaken>>
    BY InHand DEF PlanInv, TypeOK, RunTypeOK, AwaitRepair
  <1>2. TypeOK'
    BY <1>1 DEF PlanInv, TypeOK, PlanTypeOK, ToolTypeOK, RunTypeOK, toolVars, ProcStates, At,
       StatusNames
  <1>3. RetryBudget' /\ LedgerKnows'
    BY <1>1 DEF PlanInv, RetryBudget, LedgerKnows, toolVars
  <1>4. CallUnderway' /\ TaskIsOpen'
    BY <1>1 DEF CallUnderway, TaskIsOpen, TaskStates, At
  <1>5. PlanBegins'
    BY <1>1 DEF PlanInv, PlanBegins, At
  <1>6. ListIsReady'
    BY <1>1 DEF PlanInv, TypeOK, PlanTypeOK, ListIsReady, TaskIsOpen, TaskStates
  <1>7. DoneIsKept
    BY <1>1 DEF PlanInv, TypeOK, PlanTypeOK, TaskIsOpen, TaskStates, DoneIsKept
  <1> QED
    BY <1>2, <1>3, <1>4, <1>5, <1>6, <1>7 DEF PlanInv

(* A decision changes the approvals only. *)
LEMMA ResolveApprovalKeeps ==
    ASSUME PlanInv, ResolveApproval
    PROVE  PlanInv' /\ DoneIsKept
  <1>1. /\ approval' \in [Tasks -> [Calls -> {"none", "pending", "approved", "denied"}]]
        /\ UNCHANGED <<plan, agent, revised, status, retries, reviews, ledger, effects, proc, todo, executed, runs, stale, overtaken>>
    BY DEF PlanInv, TypeOK, ToolTypeOK, ResolveApproval, planVars, runVars
  <1>2. TypeOK'
    BY <1>1 DEF PlanInv, TypeOK, PlanTypeOK, ToolTypeOK, RunTypeOK
  <1>3. RetryBudget' /\ LedgerKnows' /\ CallUnderway'
    BY <1>1 DEF PlanInv, RetryBudget, LedgerKnows, CallUnderway
  <1>4. PlanBegins' /\ ListIsReady' /\ TaskIsOpen'
    BY <1>1 DEF PlanInv, PlanBegins, ListIsReady, TaskIsOpen
  <1>5. DoneIsKept
    BY <1>1 DEF DoneIsKept
  <1> QED
    BY <1>2, <1>3, <1>4, <1>5 DEF PlanInv

(* The death of the process loses its list and what it held. *)
LEMMA CrashKeeps ==
    ASSUME PlanInv, Crash
    PROVE  PlanInv' /\ DoneIsKept
  <1>1. /\ proc' = Off /\ todo' = {}
        /\ UNCHANGED <<plan, agent, revised, status, retries, reviews, toolVars, executed, runs, stale, overtaken>>
    BY DEF Crash, planVars
  <1>2. TypeOK'
    BY <1>1 DEF PlanInv, TypeOK, PlanTypeOK, ToolTypeOK, RunTypeOK, toolVars, ProcStates
  <1>3. RetryBudget' /\ LedgerKnows'
    BY <1>1 DEF PlanInv, RetryBudget, LedgerKnows, toolVars
  <1>4. CallUnderway' /\ TaskIsOpen'
    BY <1>1 DEF CallUnderway, TaskIsOpen, TaskStates, Off
  <1>5. PlanBegins'
    BY <1>1 DEF PlanInv, PlanBegins, Off
  <1>6. ListIsReady'
    BY <1>1 DEF PlanInv, ListIsReady, TaskStates, Off
  <1>7. DoneIsKept
    BY <1>1 DEF DoneIsKept
  <1> QED
    BY <1>2, <1>3, <1>4, <1>5, <1>6, <1>7 DEF PlanInv

(* An execution fails, or a limit of it is reached. *)
LEMMA FailTaskKeeps ==
    ASSUME PlanInv, FailTask
    PROVE  PlanInv' /\ DoneIsKept
  <1>1. PICK policy \in {"retryable", "needs_human"} :
            /\ proc.pc = "exec" /\ HandleFailure(proc.t, policy)
            /\ UNCHANGED <<revised, reviews, toolVars, todo, runs, stale, overtaken>>
    BY InHand DEF PlanInv, TypeOK, RunTypeOK, FailTask
  <1>2. proc.t \in Tasks
    BY <1>1, InHand DEF PlanInv, TypeOK, RunTypeOK
  <1>3. ToolTypeOK' /\ LedgerKnows'
    BY <1>1 DEF PlanInv, TypeOK, ToolTypeOK, LedgerKnows, toolVars
  <1> QED
    BY <1>1, <1>2, <1>3, FailureIsSafe DEF TaskStates

(* The reviewer fails. *)
LEMMA ReviewFailsKeeps ==
    ASSUME PlanInv, ReviewFails
    PROVE  PlanInv' /\ DoneIsKept
  <1>1. PICK policy \in {"retryable"} :
            /\ proc.pc = "review" /\ HandleFailure(proc.t, policy)
            /\ UNCHANGED <<revised, reviews, toolVars, todo, runs, stale, overtaken>>
    BY InHand DEF PlanInv, TypeOK, RunTypeOK, ReviewFails
  <1>2. proc.t \in Tasks
    BY <1>1, InHand DEF PlanInv, TypeOK, RunTypeOK
  <1>3. ToolTypeOK' /\ LedgerKnows'
    BY <1>1 DEF PlanInv, TypeOK, ToolTypeOK, LedgerKnows, toolVars
  <1> QED
    BY <1>1, <1>2, <1>3, FailureIsSafe DEF TaskStates

(* A rejection is not repaired. *)
LEMMA GiveUpRepairKeeps ==
    ASSUME PlanInv, GiveUpRepair
    PROVE  PlanInv' /\ DoneIsKept
  <1>1. PICK policy \in {"retryable", "needs_human"} :
            /\ proc.pc = "rejected" /\ HandleFailure(proc.t, policy)
            /\ UNCHANGED <<revised, reviews, toolVars, todo, runs, stale, overtaken>>
    BY InHand DEF PlanInv, TypeOK, RunTypeOK, GiveUpRepair
  <1>2. proc.t \in Tasks
    BY <1>1, InHand DEF PlanInv, TypeOK, RunTypeOK
  <1>3. ToolTypeOK' /\ LedgerKnows'
    BY <1>1 DEF PlanInv, TypeOK, ToolTypeOK, LedgerKnows, toolVars
  <1> QED
    BY <1>1, <1>2, <1>3, FailureIsSafe DEF TaskStates

(* The tool may not be used, or not yet. *)
LEMMA AskApprovalKeeps ==
    ASSUME PlanInv, AskApproval
    PROVE  PlanInv' /\ DoneIsKept
  <1>1. /\ proc.pc = "exec" /\ proc.t \in Tasks
        /\ \E policy \in {"non_retryable", "needs_approval"} : HandleFailure(proc.t, policy)
        /\ approval' \in [Tasks -> [Calls -> {"none", "pending", "approved", "denied"}]]
        /\ UNCHANGED <<revised, reviews, ledger, effects, todo, runs, stale, overtaken>>
    <2>1. proc.pc = "exec" /\ proc.t \in Tasks /\ proc.left \in SUBSET Calls
      BY InHand DEF PlanInv, TypeOK, RunTypeOK, AskApproval
    <2>2. PICK c \in proc.left :
              \/ HandleFailure(proc.t, "non_retryable") /\ approval' = approval
              \/ /\ approval' = [approval EXCEPT ![proc.t][c] = "pending"]
                 /\ HandleFailure(proc.t, "needs_approval")
      BY DEF AskApproval
    <2>3. approval' \in [Tasks -> [Calls -> {"none", "pending", "approved", "denied"}]]
      <3>1. CASE approval' = approval
        BY <3>1 DEF PlanInv, TypeOK, ToolTypeOK
      <3>2. CASE approval' = [approval EXCEPT ![proc.t][c] = "pending"]
        BY <2>1, <3>2 DEF PlanInv, TypeOK, ToolTypeOK
      <3> QED
        BY <2>2, <3>1, <3>2
    <2> QED
      BY <2>1, <2>2, <2>3 DEF AskApproval
  <1>2. ToolTypeOK' /\ LedgerKnows'
    BY <1>1 DEF PlanInv, TypeOK, ToolTypeOK, LedgerKnows
  <1> QED
    BY <1>1, <1>2, FailureIsSafe DEF TaskStates

(* A recorded result is used again, or a call under way is refused. *)
LEMMA ReuseOrRefuseKeeps ==
    ASSUME PlanInv, ReuseOrRefuse
    PROVE  PlanInv' /\ DoneIsKept
  <1>1. /\ proc.pc = "exec" /\ proc.t \in Tasks /\ proc.left \in SUBSET Calls
        /\ proc = [pc |-> "exec", t |-> proc.t, left |-> proc.left]
        /\ UNCHANGED <<revised, reviews, toolVars, todo, runs, stale, overtaken>>
    BY InHand DEF PlanInv, TypeOK, RunTypeOK, ReuseOrRefuse
  <1>2. ToolTypeOK' /\ LedgerKnows'
    BY <1>1 DEF PlanInv, TypeOK, ToolTypeOK, LedgerKnows, toolVars
  <1>3. CASE HandleFailure(proc.t, "retryable")
    BY <1>1, <1>2, <1>3, FailureIsSafe DEF TaskStates
  <1>4. CASE /\ \E c \in proc.left : proc' = [proc EXCEPT !.left = @ \ {c}]
             /\ UNCHANGED <<plan, agent, status, retries, executed>>
    <2>1. \E left \in SUBSET Calls : proc' = [pc |-> "exec", t |-> proc.t, left |-> left]
      BY <1>1, <1>4
    <2>2. TypeOK'
      BY <1>1, <1>2, <1>4, <2>1 DEF PlanInv, TypeOK, PlanTypeOK, RunTypeOK, ProcStates
    <2>3. RetryBudget' /\ CallUnderway' /\ DoneIsKept
      BY <1>4, <2>1 DEF PlanInv, RetryBudget, CallUnderway, DoneIsKept
    <2>4. PlanBegins' /\ ListIsReady' /\ TaskIsOpen'
      BY <1>1, <1>4, <2>1 DEF PlanInv, PlanBegins, ListIsReady, TaskIsOpen, TaskStates
    <2> QED
      BY <1>2, <2>2, <2>3, <2>4 DEF PlanInv
  <1> QED
    BY <1>3, <1>4 DEF ReuseOrRefuse

(* A call has failed: what comes after counts anew. *)
LEMMA RecordFailureKeeps ==
    ASSUME PlanInv, RecordFailure
    PROVE  PlanInv' /\ DoneIsKept
  <1>1. /\ proc.pc \in {"tool", "effect"} /\ proc.t \in Tasks /\ proc.call \in Calls
        /\ ledger' = [ledger EXCEPT ![proc.t][proc.call] = "failed"]
        /\ effects' = [effects EXCEPT ![proc.t][proc.call] = 0]
        /\ HandleFailure(proc.t, "retryable")
        /\ UNCHANGED <<revised, reviews, approval, todo, runs, stale, overtaken>>
    BY InHand DEF PlanInv, TypeOK, RunTypeOK, RecordFailure
  <1>2. ToolTypeOK' /\ LedgerKnows'
    <2>1. ToolTypeOK'
      BY <1>1 DEF PlanInv, TypeOK, ToolTypeOK
    <2>2. LedgerKnows'
      <3> SUFFICES ASSUME NEW t \in Tasks, NEW c \in Calls
                   PROVE  \/ effects'[t][c] = 0
                          \/ effects'[t][c] = 1 /\ ledger'[t][c] \in {"executing", "succeeded"}
        BY DEF LedgerKnows
      <3>1. CASE t = proc.t /\ c = proc.call
        BY <1>1, <3>1 DEF PlanInv, TypeOK, ToolTypeOK
      <3>2. CASE t # proc.t \/ c # proc.call
        <4>1. effects'[t][c] = effects[t][c]
          BY <1>1, <3>2 DEF PlanInv, TypeOK, ToolTypeOK
        <4>2. ledger'[t][c] = ledger[t][c]
          BY <1>1, <3>2 DEF PlanInv, TypeOK, ToolTypeOK
        <4> QED
          BY <4>1, <4>2 DEF PlanInv, LedgerKnows
      <3> QED
        BY <3>1, <3>2
    <2> QED
      BY <2>1, <2>2
  <1> QED
    BY <1>1, <1>2, FailureIsSafe DEF TaskStates

-----------------------------------------------------------------------------
(* Every step keeps the invariant and what is done. *)
LEMMA NextPlan == PlanInv /\ [Next]_vars => PlanInv' /\ [DoneIsKept]_vars
  <1> SUFFICES ASSUME PlanInv, [Next]_vars
               PROVE  PlanInv' /\ [DoneIsKept]_vars
    OBVIOUS
  <1>1. CASE Planning
    BY <1>1, CreatePlanKeeps, RecordPlanRevisionKeeps, AddPlanTaskKeeps, ResumeKeeps
    DEF Planning
  <1>2. CASE Graph
    BY <1>2, ListRunnableKeeps, BeginTaskKeeps, PauseKeeps, ListAgainKeeps
    DEF Graph
  <1>3. CASE Execute
    BY <1>3, FinishTaskKeeps, FailTaskKeeps, AskApprovalKeeps, ReuseOrRefuseKeeps, CallToolKeeps,
       TakeEffectKeeps, RecordSuccessKeeps, RecordFailureKeeps
    DEF Execute
  <1>4. CASE Verify
    BY <1>4, AcceptKeeps, ReviewFailsKeeps, RejectKeeps, ReopenDependencyKeeps, AwaitRepairKeeps,
       GiveUpRepairKeeps
    DEF Verify
  <1>5. CASE Start \/ ResolveApproval \/ Crash
    BY <1>5, StartKeeps, ResolveApprovalKeeps, CrashKeeps
  <1>6. CASE UNCHANGED vars
    <2>1. /\ UNCHANGED <<plan, agent, revised, status, retries, reviews>>
          /\ UNCHANGED <<approval, ledger, effects, proc, todo, executed, runs, stale, overtaken>>
      BY <1>6 DEF vars, planVars, toolVars, runVars
    <2>2. TypeOK' /\ RetryBudget' /\ LedgerKnows'
      BY <2>1 DEF PlanInv, TypeOK, PlanTypeOK, ToolTypeOK, RunTypeOK, RetryBudget, LedgerKnows
    <2>3. CallUnderway' /\ PlanBegins' /\ ListIsReady' /\ TaskIsOpen'
      BY <2>1 DEF PlanInv, CallUnderway, PlanBegins, ListIsReady, TaskIsOpen
    <2> QED
      BY <1>6, <2>2, <2>3 DEF PlanInv
  <1> QED
    BY <1>1, <1>2, <1>3, <1>4, <1>5, <1>6 DEF Next

LEMMA PlanIsInvariant == Spec => []PlanInv
  BY InitPlan, NextPlan, PTL DEF Spec

(* Whatever failure, rejection or crash sends a task back, its retries stay within
   maxRetries (handleFailure() and the repair of verifyTask()).            *)
THEOREM RetriesStayInBudget == Spec => []RetryBudget
  <1>1. PlanInv => RetryBudget
    BY DEF PlanInv
  <1> QED
    BY <1>1, PlanIsInvariant, PTL

(* A tool call takes effect once without a recorded failure between, over crashes
   at any statement, retries and approvals: what the ledger of ToolExecutor is for. *)
THEOREM CallsTakeEffectOnce == Spec => [](TypeOK /\ EffectOnce)
  <1>1. PlanInv => TypeOK /\ EffectOnce
    BY DEF PlanInv, LedgerKnows, EffectOnce
  <1> QED
    BY <1>1, PlanIsInvariant, PTL

(* Only a rejection, paid from its budget, reopens a completed task: no restart,
   resumption, decision or later failure does.                             *)
THEOREM FinishedWorkStays == Spec => DoneStaysDone
  <1>1. Spec => [][DoneIsKept]_vars
    BY PlanIsInvariant, NextPlan, PTL DEF Spec
  <1> QED
    BY <1>1 DEF DoneStaysDone

-----------------------------------------------------------------------------
(* A completed plan.  What is done, in hand or may be taken up has its dependencies
   completed unless it was overtaken; what is done or in hand although work it rests
   on was replaced is overtaken or rests on what is.                       *)
DepsDone(t) == \A d \in Deps[t] : status[d] = "completed"

Sound(t) == t \in overtaken \/ DepsDone(t)

Excused(t) == t \in stale => t \in overtaken \/ Deps[t] \cap stale # {}

Begun == {"ready", "running", "needs_approval", "completed"}

Holding == {"exec", "tool", "effect", "review", "rejected"}

Based ==
    /\ stale \subseteq Inserted
    /\ \A t \in Tasks : status[t] \in Begun => Sound(t)
    /\ \A t \in Tasks : status[t] = "completed" => Excused(t)
    /\ proc.pc \in Holding => Sound(proc.t) /\ Excused(proc.t)
    /\ plan = "completed" => CompletedRestsOn /\ proc.pc \in {"off", "begin", "insert"}

(* Completed tasks stay so; tasks begin and are completed on completed dependencies;
   nobody takes a task in hand.                                            *)
LEMMA BasedSame ==
    ASSUME PlanInv, Based, stale' = stale, overtaken' = overtaken,
           \A t \in Tasks : status[t] = "completed" => status'[t] = "completed",
           \A t \in Tasks : status[t] # "absent" => status'[t] # "absent",
           \A t \in Tasks : status'[t] \in Begun => Sound(t),
           \A t \in Tasks : status'[t] = "completed" => Excused(t),
           proc'.pc \in Holding => proc.pc \in Holding /\ proc'.t = proc.t,
           plan' = "completed" => (\A t \in stale : Excused(t)) /\ proc'.pc \in {"off", "begin", "insert"}
    PROVE  Based'
<1>1. \A t \in Tasks : Sound(t) => Sound(t)'
  BY PlanAssumption DEF DepsDone, Sound
<1>2. \A t : Excused(t)' <=> Excused(t)
  BY DEF Excused
<1>3. proc.pc \in Holding => proc.t \in Tasks
  BY InHand DEF Holding, PlanInv, TypeOK, RunTypeOK
<1>4. stale' \subseteq Inserted'
  <2>1. \A t \in stale : t \in Tasks
    BY DEF PlanInv, TypeOK
  <2> QED BY <2>1 DEF Based, Inserted
<1>5. \A t \in Tasks : status'[t] \in Begun => Sound(t)'
  BY <1>1
<1>6. \A t \in Tasks : status'[t] = "completed" => Excused(t)'
  BY <1>2
<1>7. proc'.pc \in Holding => Sound(proc.t)' /\ Excused(proc.t)' /\ proc'.t = proc.t
  BY <1>1, <1>2, <1>3 DEF Based
<1>8. plan' = "completed" => CompletedRestsOn' /\ proc'.pc \in {"off", "begin", "insert"}
  BY DEF CompletedRestsOn, Excused
<1>9. proc'.pc \in Holding => Sound(proc.t)' /\ Excused(proc.t)'
  BY <1>7
<1>10. (proc.pc \in Holding => Sound(proc.t) /\ Excused(proc.t))'
  BY <1>7 DEF Sound, Excused, DepsDone
<1> QED BY <1>4, <1>5, <1>6, <1>8, <1>10 DEF Based

(* The same of a step that changes no task. *)
LEMMA BasedUnchanged ==
    ASSUME PlanInv, Based, stale' = stale, overtaken' = overtaken, status' = status,
           proc'.pc \in Holding => proc.pc \in Holding /\ proc'.t = proc.t,
           plan' = "completed" => (\A t \in stale : Excused(t)) /\ proc'.pc \in {"off", "begin", "insert"}
    PROVE  Based'
<1>1. \A t \in Tasks : status'[t] \in Begun => Sound(t)
  BY DEF Based
<1>2. \A t \in Tasks : status'[t] = "completed" => Excused(t)
  BY DEF Based
<1> QED BY <1>1, <1>2, BasedSame

(* A task that fails goes back to what it stood on, or stops. *)
LEMMA BasedFailure ==
    ASSUME PlanInv, Based, proc.pc \in Holding, stale' = stale, overtaken' = overtaken,
           NEW policy \in {"retryable", "needs_human", "needs_approval", "non_retryable"},
           HandleFailure(proc.t, policy)
    PROVE  Based'
<1>1. proc.t \in Tasks /\ Sound(proc.t) /\ status[proc.t] # "completed"
  BY InHand DEF Holding, TaskStates, PlanInv, TypeOK, RunTypeOK, TaskIsOpen, Based
<1>2. /\ proc' \in {Off, At("next")}
      /\ plan' = plan \/ plan' \in {"waiting", "failed"}
  BY <1>1, FailureKeeps DEF PlanInv
<1>3. PICK s \in {"ready", "needs_approval", "blocked", "failed"} : status' = [status EXCEPT ![proc.t] = s]
  BY <1>1, FailureKeeps DEF PlanInv
<1>4. \A t \in Tasks : status'[t] = IF t = proc.t THEN s ELSE status[t]
  BY <1>1, <1>3 DEF PlanInv, TypeOK, PlanTypeOK
<1>5. \A t \in Tasks : status'[t] \in Begun => Sound(t)
  BY <1>1, <1>4 DEF Based
<1>6. plan # "completed"
  BY DEF Based, Holding
<1>7. proc'.pc \notin Holding
  BY <1>2 DEF Holding, Off, At
<1> QED BY <1>1, <1>2, <1>4, <1>5, <1>6, <1>7, BasedSame DEF Based

(* The plan is written and taken up again. *)
LEMMA BasedPlanning ==
    ASSUME PlanInv, Based, Planning PROVE Based'
<1>1. ASSUME CreatePlan \/ RecordPlanRevision PROVE Based'
  <2>1. /\ proc'.pc \in {"revise", "insert"} /\ status' = status /\ stale' = stale /\ overtaken' = overtaken
        /\ plan' = "running" \/ (plan' = plan /\ proc.pc = "revise")
    BY <1>1 DEF CreatePlan, RecordPlanRevision, At
  <2>2. plan' # "completed"
    BY <2>1 DEF Based
  <2> QED BY <2>1, <2>2, BasedUnchanged DEF Holding
<1>2. ASSUME AddPlanTask PROVE Based'
  <2>1. CASE Inserted = Tasks
    BY <1>2, <2>1, BasedUnchanged DEF AddPlanTask, At, Holding, Based, CompletedRestsOn, Excused
  <2>2. CASE Inserted # Tasks
    <3> DEFINE n == Cardinality(Inserted) + 1
    <3>1. status' = [status EXCEPT ![n] = "pending"] /\ UNCHANGED <<plan, proc, stale, overtaken>> /\ proc.pc = "insert"
      BY <1>2, <2>2 DEF AddPlanTask
    <3>2. \A t \in Tasks : status[t] \in {"absent", "pending"}
      BY <3>1 DEF PlanInv, PlanBegins
    <3> HIDE DEF n
    <3>3. \A t \in Tasks : status'[t] = status[t] \/ status'[t] = "pending"
      BY <3>1 DEF PlanInv, TypeOK, PlanTypeOK
    <3>4. \A t \in Tasks : status'[t] \notin Begun
      BY <3>2, <3>3 DEF Begun
    <3>5. \A t \in Tasks : status'[t] # "completed" /\ status[t] # "completed"
      BY <3>2, <3>3
    <3>6. \A t \in Tasks : status[t] # "absent" => status'[t] # "absent"
      BY <3>3
    <3> QED BY <3>1, <3>4, <3>5, <3>6, BasedSame DEF Based, Holding, CompletedRestsOn, Excused
  <2> QED BY <2>1, <2>2
<1>3. ASSUME Resume PROVE Based'
  <2>1. /\ status' = [t \in Tasks |-> Resumed(t)] /\ stale' = stale /\ overtaken' = overtaken
        /\ plan' \in {"failed", "running"} /\ proc'.pc \in {"off", "loop"}
    BY <1>3 DEF Resume, Off, At
  <2>2. \A t \in Tasks : status'[t] = status[t] \/ (status[t] \in Begun \ {"completed"} /\ status'[t] \in {"ready", "failed"})
    BY <2>1 DEF Resumed, Requeued, Begun
  <2>3. \A t \in Tasks : status'[t] \in Begun => Sound(t)
    BY <2>2 DEF Based
  <2>4. \A t \in Tasks : status'[t] = "completed" <=> status[t] = "completed"
    BY <2>2 DEF Begun
  <2>5. \A t \in Tasks : status[t] # "absent" => status'[t] # "absent"
    BY <2>2
  <2> QED BY <2>1, <2>3, <2>4, <2>5, BasedSame DEF Based, Holding
<1> QED BY <1>1, <1>2, <1>3 DEF Planning

(* The runnable tasks of the graph are those whose dependencies are completed; a
   task is begun on them, and what rests on it is not done.                *)
LEMMA BasedGraph ==
    ASSUME PlanInv, Based, Graph PROVE Based'
<1>1. ASSUME ListRunnable PROVE Based'
  <2>1. /\ status' = [t \in Tasks |-> Runnable(t)] /\ stale' = stale /\ overtaken' = overtaken /\ proc.pc = "loop"
        /\ proc'.pc \in {"next", "off"}
        /\ plan' = plan \/ (proc'.pc = "off" /\ \A t \in Inserted : status'[t] = "completed")
    BY <1>1 DEF ListRunnable, Off, At
  <2>2. \A t \in Tasks : \/ status'[t] = status[t]
                         \/ status[t] = "pending" /\ status'[t] = "blocked"
                         \/ status[t] = "pending" /\ status'[t] = "ready" /\ DepsDone(t)
    BY <2>1 DEF Runnable, DepsDone
  <2>3. \A t \in Tasks : status'[t] \in Begun => Sound(t)
    BY <2>2 DEF Based, Begun, Sound
  <2>4. \A t \in Tasks : status'[t] = "completed" <=> status[t] = "completed"
    BY <2>2
  <2>5. \A t \in Tasks : status[t] # "absent" => status'[t] # "absent"
    BY <2>2
  <2>6. plan' = "completed" => (\A t \in stale : Excused(t)) /\ proc'.pc = "off"
    <3>1. plan # "completed"
      BY <2>1 DEF Based
    <3>2. (\A t \in Inserted : status'[t] = "completed") => \A t \in stale : Excused(t)
      BY <2>4 DEF Based, Inserted
    <3> QED BY <2>1, <3>1, <3>2
  <2> QED BY <2>1, <2>3, <2>4, <2>5, <2>6, BasedSame DEF Based, Holding
<1>2. ASSUME Pause \/ ListAgain PROVE Based'
  <2>1. /\ status' = status /\ stale' = stale /\ overtaken' = overtaken /\ proc'.pc \in {"off", "loop"}
        /\ plan' = "paused" \/ (plan' = plan /\ proc.pc = "next")
    BY <1>2 DEF Pause, ListAgain, planVars, Off, At
  <2>2. plan' # "completed"
    BY <2>1 DEF Based
  <2> QED BY <2>1, <2>2, BasedUnchanged DEF Holding
<1>3. ASSUME BeginTask PROVE Based'
  <2>1. PICK t \in todo : /\ status' = [status EXCEPT ![t] = "running"]
                          /\ proc'.t = t /\ proc'.pc \in Holding
                          /\ plan' = plan /\ proc.pc = "next"
                          /\ LET outdated == \E d \in Deps[t] : status[d] # "completed" \/ d \in stale
                                 outcome(S) == (S \ {t}) \cup (IF outdated THEN {t} ELSE {})
                             IN  /\ stale' = outcome(stale) \cup {u \in Inserted : t \in Deps[u]}
                                 /\ overtaken' = IF outdated THEN overtaken ELSE overtaken \ {t}
    <3>1. NextOf(todo) \in todo
      <4>1. todo # {} /\ todo \subseteq Nat
        BY <1>3 DEF BeginTask, PlanInv, TypeOK, RunTypeOK, Tasks
      <4> QED BY <4>1, FirstIsListed
    <3>2. proc' \in {On("review", NextOf(todo)), [pc |-> "exec", t |-> NextOf(todo), left |-> Calls]}
      BY <1>3 DEF BeginTask
    <3>3. proc'.t = NextOf(todo) /\ proc'.pc \in Holding
      BY <3>2 DEF On, Holding
    <3> QED BY <1>3, <3>1, <3>3 DEF BeginTask
  <2>2. t \in Tasks /\ status[t] = "ready" /\ t \in Inserted
    BY <2>1 DEF PlanInv, TypeOK, RunTypeOK, ListIsReady, Inserted
  <2>3. \A u \in Tasks : status'[u] = IF u = t THEN "running" ELSE status[u]
    BY <2>1, <2>2 DEF PlanInv, TypeOK, PlanTypeOK
  <2>4. Sound(t)
    BY <2>2 DEF Based, Begun
  <2> DEFINE outdated == \E d \in Deps[t] : status[d] # "completed" \/ d \in stale
  <2>5. /\ stale' = ((stale \ {t}) \cup (IF outdated THEN {t} ELSE {})) \cup {u \in Inserted : t \in Deps[u]}
        /\ overtaken' = IF outdated THEN overtaken ELSE overtaken \ {t}
    BY <2>1
  <2>6. t \notin Deps[t] /\ Deps[t] \subseteq Tasks
    BY <2>2, PlanAssumption
  <2>7. ASSUME NEW u \in Tasks, Sound(u) PROVE u \in overtaken \/ (DepsDone(u)' /\ t \notin Deps[u])
    BY <2>2, <2>3, <2>7, PlanAssumption DEF DepsDone, Sound
  <2>8. ASSUME NEW u \in Tasks, Sound(u) PROVE Sound(u)'
    <3>1. CASE u = t
      <4>1. CASE outdated
        BY <2>4, <2>5, <2>7, <3>1, <4>1 DEF Sound
      <4>2. CASE ~outdated
        <5>1. DepsDone(t)'
          BY <2>2, <2>3, <2>6, <4>2 DEF DepsDone
        <5> QED BY <3>1, <5>1 DEF Sound
      <4> QED BY <4>1, <4>2
    <3>2. CASE u # t
      BY <2>5, <2>7, <2>8, <3>2 DEF Sound
    <3> QED BY <3>1, <3>2
  <2>9. \A u \in Tasks : status'[u] \in Begun => Sound(u)'
    BY <2>3, <2>4, <2>8 DEF Based
  <2>10. Excused(t)'
    <3>1. CASE outdated
      <4>1. CASE t \in overtaken
        BY <2>5, <3>1, <4>1 DEF Excused
      <4>2. CASE t \notin overtaken
        <5>1. PICK d \in Deps[t] : d \in stale
          BY <2>4, <3>1, <4>2 DEF Sound, DepsDone
        <5>2. d # t /\ d \in stale'
          BY <2>5, <2>6, <5>1
        <5> QED BY <5>1, <5>2 DEF Excused
      <4> QED BY <4>1, <4>2
    <3>2. CASE ~outdated
      BY <2>5, <2>6, <3>2 DEF Excused
    <3> QED BY <3>1, <3>2
  <2>11. ASSUME NEW u \in Tasks, status'[u] = "completed" PROVE Excused(u)'
    <3>1. u # t /\ status[u] = "completed" /\ Sound(u) /\ Excused(u)
      BY <2>3, <2>11 DEF Based, Begun
    <3>2. CASE u \in overtaken
      BY <2>5, <3>1, <3>2 DEF Excused
    <3>3. CASE u \notin overtaken
      <4>1. t \notin Deps[u]
        BY <2>7, <3>1, <3>3
      <4> SUFFICES ASSUME u \in stale' PROVE Deps[u] \cap stale' # {}
        BY DEF Excused
      <4>2. u \in stale
        BY <2>5, <3>1, <4>1
      <4>3. PICK d \in Deps[u] : d \in stale
        BY <3>1, <3>3, <4>2 DEF Excused
      <4>4. d \in stale'
        BY <2>5, <4>1, <4>3
      <4> QED BY <4>3, <4>4
    <3> QED BY <3>2, <3>3
  <2>12. stale' \subseteq Inserted'
    <3>1. Inserted' = Inserted
      BY <2>2, <2>3 DEF Inserted
    <3> QED BY <2>2, <2>5, <3>1 DEF Based
  <2>13. Sound(t)'
    BY <2>2, <2>4, <2>8
  <2>14. plan' # "completed"
    BY <2>1 DEF Based
  <2>15. (proc.pc \in Holding => Sound(proc.t) /\ Excused(proc.t))'
    BY <2>1, <2>10, <2>13 DEF Sound, Excused, DepsDone
  <2>16. \A u \in Tasks : status'[u] = "completed" => Excused(u)'
    BY <2>11
  <2> QED BY <2>9, <2>12, <2>14, <2>15, <2>16 DEF Based
<1> QED BY <1>1, <1>2, <1>3 DEF Graph

LEMMA CompletedIsBased ==
    ASSUME PlanInv, Based, proc.pc \in {"exec", "review"}, Complete(proc.t), stale' = stale, overtaken' = overtaken
    PROVE  Based'
<1>1. /\ proc.t \in Tasks /\ Sound(proc.t) /\ Excused(proc.t)
  BY InHand DEF Holding, PlanInv, TypeOK, RunTypeOK, Based
<1>2. /\ status' = [status EXCEPT ![proc.t] = "completed"] /\ proc'.pc = "next" /\ plan' = plan
  BY DEF Complete, At
<1>3. \A t \in Tasks : status'[t] = IF t = proc.t THEN "completed" ELSE status[t]
  BY <1>1, <1>2 DEF PlanInv, TypeOK, PlanTypeOK
<1>4. \A t \in Tasks : status'[t] \in Begun => Sound(t)
  BY <1>1, <1>3 DEF Based
<1>5. plan' # "completed" /\ proc'.pc \notin Holding
  BY <1>2 DEF Based, Holding
<1> QED BY <1>1, <1>3, <1>4, <1>5, BasedSame DEF Based

(* Work on a task: it ends, fails, or changes no task. *)
LEMMA BasedExecute ==
    ASSUME PlanInv, Based, Execute PROVE Based'
<1>0. proc.pc \in Holding /\ stale' = stale /\ overtaken' = overtaken
  BY DEF Execute, FinishTask, FailTask, AskApproval, ReuseOrRefuse, CallTool, TakeEffect, RecordSuccess,
         RecordFailure, Holding
<1>1. plan # "completed"
  BY <1>0 DEF Based, Holding
<1>2. CASE FinishTask
  BY <1>2, CompletedIsBased DEF FinishTask, Holding
<1>3. CASE \E policy \in {"retryable", "needs_human", "needs_approval", "non_retryable"} : HandleFailure(proc.t, policy)
  BY <1>0, <1>3, BasedFailure
<1>4. CASE UNCHANGED <<plan, status>> /\ proc'.pc \in Holding /\ proc'.t = proc.t
  BY <1>0, <1>1, <1>4, BasedUnchanged
<1>5. FailTask \/ AskApproval \/ RecordFailure =>
        \E policy \in {"retryable", "needs_human", "needs_approval", "non_retryable"} : HandleFailure(proc.t, policy)
  BY DEF FailTask, AskApproval, RecordFailure
<1>6. CallTool \/ TakeEffect \/ RecordSuccess =>
        UNCHANGED <<plan, status>> /\ proc'.pc \in Holding /\ proc'.t = proc.t
  <2>1. proc.pc = "tool" => [proc EXCEPT !.pc = "effect"].pc = "effect" /\ [proc EXCEPT !.pc = "effect"].t = proc.t
    BY InHand DEF PlanInv, TypeOK, RunTypeOK
  <2>2. CallTool => proc'.pc = "tool" /\ proc'.t = proc.t /\ UNCHANGED planVars
    BY DEF CallTool
  <2>3. TakeEffect => proc'.pc = "effect" /\ proc'.t = proc.t /\ UNCHANGED planVars
    BY <2>1 DEF TakeEffect
  <2>4. RecordSuccess => proc'.pc = "exec" /\ proc'.t = proc.t /\ UNCHANGED planVars
    BY DEF RecordSuccess
  <2> QED BY <2>2, <2>3, <2>4 DEF planVars, Holding
<1>7. ReuseOrRefuse =>
        \/ HandleFailure(proc.t, "retryable")
        \/ UNCHANGED <<plan, status>> /\ proc'.pc \in Holding /\ proc'.t = proc.t
  <2>1. proc.pc = "exec" => \A c \in Calls : /\ [proc EXCEPT !.left = @ \ {c}].pc = "exec"
                                             /\ [proc EXCEPT !.left = @ \ {c}].t = proc.t
    BY InHand DEF PlanInv, TypeOK, RunTypeOK
  <2>2. proc.pc = "exec" => proc.left \in SUBSET Calls
    BY InHand DEF PlanInv, TypeOK, RunTypeOK
  <2> QED BY <2>1, <2>2 DEF ReuseOrRefuse, Holding
<1> QED BY <1>2, <1>3, <1>4, <1>5, <1>6, <1>7 DEF Execute

(* Verifications.  A rejected task has failed until its repair is decided. *)
RejectedHasFailed == proc.pc \in {"rejected", "reopened"} => status[proc.t] = "failed"

LEMMA BasedReopens ==
    ASSUME PlanInv, Based, RejectedHasFailed, ReopenDependency
    PROVE  Based' /\ RejectedHasFailed'
<1> DEFINE v == proc.t
           d == Last[v]
<1>1. /\ proc.pc = "rejected" /\ v \in Tasks /\ Deps[v] # {}
      /\ status' = [status EXCEPT ![d] = "ready"] /\ UNCHANGED <<plan, stale>>
      /\ overtaken' = overtaken \cup Overtaken(v)
      /\ proc'.pc = "reopened" /\ proc'.t = v
  BY InHand DEF PlanInv, TypeOK, RunTypeOK, ReopenDependency, Repairable
<1>2. d \in Deps[v] /\ d \in Tasks /\ d # v
  BY <1>1, PlanAssumption
<1>3. status[v] = "failed"
  BY <1>1 DEF RejectedHasFailed
<1>4. Overtaken(v) = {u \in Tasks \ {v} : \/ d \in Deps[u] /\ status[u] \notin {"absent", "pending"}
                                          \/ u = d /\ \E e \in Deps[u] : status[e] # "completed"}
  BY DEF Overtaken
<1> HIDE DEF d, v
<1>5. \A u \in Tasks : status'[u] = IF u = d THEN "ready" ELSE status[u]
  BY <1>1, <1>2 DEF PlanInv, TypeOK, PlanTypeOK
<1>6. ASSUME NEW u \in Tasks, status'[u] \in Begun PROVE Sound(u)'
  <2>1. u # v
    BY <1>2, <1>3, <1>5, <1>6 DEF Begun
  <2>2. CASE u = d
    <3>1. d \notin Deps[d]
      BY <1>2, PlanAssumption
    <3>2. CASE DepsDone(d)
      BY <1>2, <1>5, <2>2, <3>1, <3>2, PlanAssumption DEF DepsDone, Sound
    <3>3. CASE ~DepsDone(d)
      BY <1>1, <1>2, <1>4, <2>2, <3>3 DEF DepsDone, Sound
    <3> QED BY <3>2, <3>3
  <2>3. CASE u # d
    <3>1. status[u] \in Begun /\ u \in Inserted /\ Sound(u)
      BY <1>5, <1>6, <2>3 DEF Based, Begun, Inserted
    <3>2. CASE d \in Deps[u]
      <4>1. u \in Overtaken(v)
        BY <1>4, <2>1, <3>1, <3>2 DEF Begun
      <4> QED BY <1>1, <4>1 DEF Sound
    <3>3. CASE d \notin Deps[u]
      BY <1>1, <1>5, <3>1, <3>3, PlanAssumption DEF Sound, DepsDone
    <3> QED BY <3>2, <3>3
  <2> QED BY <2>2, <2>3
<1>7. \A u \in Tasks : status'[u] = "completed" => Excused(u)'
  BY <1>1, <1>5 DEF Based, Excused
<1>8. stale' \subseteq Inserted'
  BY <1>1, <1>2, <1>5 DEF Based, Inserted
<1>9. plan' # "completed"
  BY <1>1 DEF Based
<1>10. status'[proc'.t] = "failed"
  BY <1>1, <1>2, <1>3, <1>5
<1>11. \A u \in Tasks : status'[u] \in Begun => Sound(u)'
  BY <1>6
<1> QED BY <1>1, <1>7, <1>8, <1>9, <1>10, <1>11 DEF Based, RejectedHasFailed, Holding

(* The task a verification is at is one; it has failed while its repair is decided. *)
ReviewInHand ==
    /\ proc.pc \in {"review", "rejected", "reopened"} => proc.t \in Verifying
    /\ RejectedHasFailed

BasedInv == PlanInv /\ Based /\ ReviewInHand

LEMMA BasedVerify ==
    ASSUME BasedInv, Verify PROVE Based'
<1>1. CASE Accept
  BY <1>1, CompletedIsBased DEF Accept, BasedInv
<1>2. CASE ReviewFails
  BY <1>2, BasedFailure DEF ReviewFails, BasedInv, Holding
<1>3. CASE Reject
  <2>1. /\ proc.pc = "review" /\ proc.t \in Tasks /\ stale' = stale /\ overtaken' = overtaken /\ plan' = plan
        /\ status' = [status EXCEPT ![proc.t] = "failed"]
        /\ proc'.pc = "rejected" /\ proc'.t = proc.t
    BY <1>3, InHand DEF Reject, BasedInv, PlanInv, TypeOK, RunTypeOK
  <2>2. \A t \in Tasks : status'[t] = IF t = proc.t THEN "failed" ELSE status[t]
    BY <2>1 DEF BasedInv, PlanInv, TypeOK, PlanTypeOK
  <2>3. \A t \in Tasks : status'[t] \in Begun => Sound(t)
    BY <2>2 DEF BasedInv, Based, Begun
  <2>4. status[proc.t] # "completed" /\ plan' # "completed"
    BY <2>1 DEF BasedInv, Based, PlanInv, TaskIsOpen, TaskStates
  <2> QED BY <2>1, <2>2, <2>3, <2>4, BasedSame DEF BasedInv, Based, Holding
<1>4. CASE ReopenDependency
  BY <1>4, BasedReopens DEF BasedInv, ReviewInHand, ReopenDependency
<1>5. CASE AwaitRepair
  <2>1. /\ proc.pc = "reopened" /\ proc.t \in Tasks /\ stale' = stale /\ overtaken' = overtaken /\ plan' = plan
        /\ status' = [status EXCEPT ![proc.t] = "pending"]
        /\ proc'.pc = "next"
    BY <1>5, InHand DEF AwaitRepair, At, BasedInv, PlanInv, TypeOK, RunTypeOK
  <2>2. \A t \in Tasks : status'[t] = IF t = proc.t THEN "pending" ELSE status[t]
    BY <2>1 DEF BasedInv, PlanInv, TypeOK, PlanTypeOK
  <2>3. \A t \in Tasks : status'[t] \in Begun => Sound(t)
    BY <2>2 DEF BasedInv, Based, Begun
  <2>4. status[proc.t] = "failed" /\ plan' # "completed"
    BY <2>1 DEF BasedInv, Based, ReviewInHand, RejectedHasFailed
  <2> QED BY <2>1, <2>2, <2>3, <2>4, BasedSame DEF BasedInv, Based, Holding
<1>6. CASE GiveUpRepair
  <2>1. proc.policy \in {"retryable", "needs_human"} /\ proc.pc = "rejected"
    BY <1>6, InHand DEF GiveUpRepair, BasedInv, PlanInv, TypeOK, RunTypeOK
  <2> QED BY <1>6, <2>1, BasedFailure DEF GiveUpRepair, BasedInv, Holding
<1> QED BY <1>1, <1>2, <1>3, <1>4, <1>5, <1>6 DEF Verify

(* Only verifications come to a review, and only a rejected one stays failed in hand. *)
LEMMA ReviewKept ==
    ASSUME BasedInv, PlanInv', Next PROVE ReviewInHand'
<1>1. CASE Planning
  <2>1. proc'.pc \in {"off", "revise", "insert", "begin", "loop"}
    BY <1>1 DEF Planning, CreatePlan, RecordPlanRevision, AddPlanTask, Resume, At, Off
  <2> QED BY <2>1 DEF ReviewInHand, RejectedHasFailed
<1>2. CASE Graph
  <2>1. CASE BeginTask
    <3>1. \/ proc' = [pc |-> "review", t |-> NextOf(todo)] /\ NextOf(todo) \in Verifying
          \/ proc'.pc = "exec"
      BY <2>1 DEF BeginTask, On
    <3> QED BY <3>1 DEF ReviewInHand, RejectedHasFailed
  <2>2. CASE ListRunnable \/ Pause \/ ListAgain
    <3>1. proc'.pc \in {"off", "loop", "next"}
      BY <2>2 DEF ListRunnable, Pause, ListAgain, At, Off
    <3> QED BY <3>1 DEF ReviewInHand, RejectedHasFailed
  <2> QED BY <1>2, <2>1, <2>2 DEF Graph
<1>3. ASSUME NEW t, NEW policy, HandleFailure(t, policy) PROVE ReviewInHand'
  <2>1. proc'.pc \in {"off", "next"}
    BY <1>3 DEF HandleFailure, At, Off
  <2> QED BY <2>1 DEF ReviewInHand, RejectedHasFailed
<1>4. CASE Execute
  <2>1. CASE FinishTask \/ CallTool \/ RecordSuccess
    <3>1. proc'.pc \in {"next", "tool", "exec"}
      <4>1. FinishTask => proc'.pc = "next"
        BY DEF FinishTask, Complete, At
      <4>2. CallTool => proc'.pc = "tool"
        BY DEF CallTool
      <4>3. RecordSuccess => proc'.pc = "exec"
        BY DEF RecordSuccess
      <4> QED BY <2>1, <4>1, <4>2, <4>3
    <3> QED BY <3>1 DEF ReviewInHand, RejectedHasFailed
  <2>2. CASE TakeEffect
    <3>1. proc'.pc = "effect"
      BY <2>2, InHand DEF TakeEffect, BasedInv, PlanInv, TypeOK, RunTypeOK
    <3> QED BY <3>1 DEF ReviewInHand, RejectedHasFailed
  <2>3. CASE ReuseOrRefuse
    <3>1. CASE \E c \in proc.left : proc' = [proc EXCEPT !.left = @ \ {c}]
      <4>1. proc'.pc = "exec"
        BY <2>3, <3>1, InHand DEF ReuseOrRefuse, BasedInv, PlanInv, TypeOK, RunTypeOK
      <4> QED BY <4>1 DEF ReviewInHand, RejectedHasFailed
    <3> QED BY <1>3, <2>3, <3>1 DEF ReuseOrRefuse
  <2>4. CASE FailTask \/ AskApproval \/ RecordFailure
    BY <1>3, <2>4 DEF FailTask, AskApproval, RecordFailure
  <2> QED BY <1>4, <2>1, <2>2, <2>3, <2>4 DEF Execute
<1>5. CASE Verify
  <2>1. CASE Accept \/ AwaitRepair
    <3>1. proc'.pc = "next"
      BY <2>1 DEF Accept, AwaitRepair, Complete, At
    <3> QED BY <3>1 DEF ReviewInHand, RejectedHasFailed
  <2>2. CASE ReviewFails \/ GiveUpRepair
    BY <1>3, <2>2 DEF ReviewFails, GiveUpRepair
  <2>3. CASE Reject
    <3>1. /\ proc.pc = "review" /\ proc.t \in Tasks /\ proc'.pc = "rejected" /\ proc'.t = proc.t
          /\ status' = [status EXCEPT ![proc.t] = "failed"]
      BY <2>3, InHand DEF Reject, BasedInv, PlanInv, TypeOK, RunTypeOK
    <3>2. status'[proc.t] = "failed"
      BY <3>1 DEF BasedInv, PlanInv, TypeOK, PlanTypeOK
    <3> QED BY <3>1, <3>2 DEF ReviewInHand, RejectedHasFailed, BasedInv
  <2>4. CASE ReopenDependency
    <3> DEFINE d == Last[proc.t]
    <3>1. /\ proc.pc = "rejected" /\ proc.t \in Tasks /\ Deps[proc.t] # {}
          /\ status' = [status EXCEPT ![d] = "ready"]
          /\ proc'.pc = "reopened" /\ proc'.t = proc.t
      BY <2>4, InHand DEF BasedInv, PlanInv, TypeOK, RunTypeOK, ReopenDependency, Repairable
    <3>2. d \in Deps[proc.t] /\ d \in Tasks
      BY <3>1, PlanAssumption
    <3>3. status[proc.t] = "failed"
      BY <3>1 DEF BasedInv, ReviewInHand, RejectedHasFailed
    <3>4. d # proc.t
      BY <3>1, <3>2, PlanAssumption
    <3> HIDE DEF d
    <3>5. status'[proc.t] = "failed"
      BY <3>1, <3>2, <3>3, <3>4 DEF BasedInv, PlanInv, TypeOK, PlanTypeOK
    <3> QED BY <3>1, <3>5 DEF ReviewInHand, RejectedHasFailed, BasedInv
  <2> QED BY <1>5, <2>1, <2>2, <2>3, <2>4 DEF Verify
<1>6. CASE Start \/ Crash
  <2>1. proc'.pc \in {"off", "planning", "insert", "begin"}
    BY <1>6 DEF Start, Crash, At, Off
  <2> QED BY <2>1 DEF ReviewInHand, RejectedHasFailed
<1>7. CASE ResolveApproval
  BY <1>7 DEF ResolveApproval, planVars, runVars, ReviewInHand, RejectedHasFailed, BasedInv
<1> QED BY <1>1, <1>2, <1>4, <1>5, <1>6, <1>7 DEF Next

LEMMA NextBased == BasedInv /\ [Next]_vars => BasedInv'
<1> SUFFICES ASSUME BasedInv, [Next]_vars PROVE BasedInv'
  OBVIOUS
<1>1. PlanInv'
  BY NextPlan DEF BasedInv
<1>2. CASE Next
  <2>1. ReviewInHand'
    BY <1>1, <1>2, ReviewKept
  <2>2. CASE Planning \/ Graph \/ Execute \/ Verify
    BY <1>1, <2>1, <2>2, BasedPlanning, BasedGraph, BasedExecute, BasedVerify DEF BasedInv
  <2>3. CASE Start \/ ResolveApproval \/ Crash
    <3>1. UNCHANGED <<status, stale, overtaken, plan>> /\ (proc' = proc \/ proc'.pc \in {"off", "planning", "insert", "begin"})
      BY <2>3 DEF Start, ResolveApproval, Crash, planVars, runVars, At, Off
    <3>2. proc'.pc \in {"off", "planning", "insert", "begin"} => proc'.pc \notin Holding
      BY DEF Holding
    <3>3. plan = "completed" => proc'.pc \in {"off", "begin", "insert"}
      BY <2>3, <3>1 DEF BasedInv, Based, PlanInv, PlanBegins, Start, Crash, ResolveApproval, runVars, At, Off
    <3>4. Based'
      BY <3>1, <3>2, <3>3, BasedUnchanged DEF BasedInv, Based, CompletedRestsOn, Excused
    <3> QED BY <1>1, <2>1, <3>4 DEF BasedInv
  <2> QED BY <1>2, <2>2, <2>3 DEF Next
<1>3. CASE UNCHANGED vars
  <2>1. UNCHANGED <<status, stale, overtaken, plan, proc>>
    BY <1>3 DEF vars, planVars, runVars
  <2>2. Based'
    BY <2>1, BasedUnchanged DEF BasedInv, Based, CompletedRestsOn, Excused
  <2>3. ReviewInHand'
    BY <2>1 DEF BasedInv, ReviewInHand, RejectedHasFailed
  <2> QED BY <1>1, <2>2, <2>3 DEF BasedInv
<1> QED BY <1>2, <1>3

LEMMA InitBased == Init => BasedInv
<1> SUFFICES ASSUME Init PROVE BasedInv
  OBVIOUS
<1>1. proc.pc = "off" /\ stale = {} /\ plan = "none" /\ \A t \in Tasks : status[t] = "absent"
  BY DEF Init, Off
<1> QED BY <1>1, InitPlan DEF BasedInv, Based, ReviewInHand, RejectedHasFailed, Holding, Begun, Excused, CompletedRestsOn

(* No call takes effect twice without a recorded failure between, and a completed
   plan counts nothing that rests on replaced work but what the rejection of another
   task overtook (dependencies.at(-1), verifyTask()) and what rests on that: for any
   plan without a task that depends on itself, any tools, and crashes at any statement. *)
THEOREM WorkDoneOnce == Spec => []WorkIsDoneOnce
<1>1. BasedInv => WorkIsDoneOnce
  <2>1. BasedInv => TypeOK /\ EffectOnce
    BY DEF BasedInv, PlanInv, LedgerKnows, EffectOnce
  <2>2. BasedInv => CompletedRestsOn
    BY DEF BasedInv, Based, CompletedRestsOn
  <2> QED BY <2>1, <2>2 DEF WorkIsDoneOnce
<1>2. BasedInv /\ [Next]_vars => BasedInv'
  BY NextBased
<1> QED BY <1>1, <1>2, InitBased, PTL DEF Spec
=============================================================================
