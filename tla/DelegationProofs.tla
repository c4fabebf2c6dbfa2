-------------------------- MODULE DelegationProofs --------------------------
(***************************************************************************)
(* Theorems about Delegation, for any plan, any number of children and any *)
(* stages at which the process may die.                                    *)
(*                                                                         *)
(* ChildrenAgree is not inductive.  A child that was cancelled while it    *)
(* works comes back and may take its delegation up again by asking, so its *)
(* task must have no other active delegation while it is in flight (Owned);*)
(* and that nobody else starts one then rests on the batch being the only  *)
(* source of children, which come and go with it (Staged).                 *)
(*                                                                         *)
(* A result is consumed once because acknowledging it and completing its   *)
(* task are one step when the process does not die between them (Counted). *)
(* What a completed plan rests on needs the same of every state and task:  *)
(* what is finished or waits for its end rests on finished, fresh work, or *)
(* was overtaken by a rejection (Fresh, Open).  What is to be repaired is  *)
(* found by a search back through the plan (RepairEquation).               *)
(***************************************************************************)
EXTENDS Delegation, FiniteSetTheorems, SequenceTheorems, WellFoundedInduction, TLAPS

(* Children work, and tasks are left to be started, between the beginning of a
   batch and its end only; the batch and the children are within the bound. *)
InFlight == {t \in Tasks : flight[t] # Idle}

Staged ==
    /\ proc.at \notin {"launch", "await"} => AllIdle
    /\ proc.at = "launch" => batch # {}
    /\ proc.at # "launch" => batch = {}
    /\ \A t \in batch : flight[t] = Idle /\ status[t] = "ready"
    /\ Cardinality(batch \cup InFlight) <= MaxConcurrent

(* A child in flight works for its own task, whose other delegations have all
   ended; a lease is held for the task it leases.                          *)
Owned ==
    /\ \A t \in InFlight :
          /\ dels[flight[t].d].task = t
          /\ \A e \in Ids \ {flight[t].d} : dels[e].task = t => dels[e].status \in Ended
    /\ \A t \in Tasks : lease[t] # 0 => dels[lease[t]].task = t

(* A child at work holds the lease of its task unless it was cancelled, and nobody
   who was cancelled holds one.                                            *)
LeaseHeld ==
    /\ \A t \in Tasks : flight[t].at = "work" =>
         lease[t] = flight[t].d \/ dels[flight[t].d].status = "cancelled"
    /\ \A t \in Tasks : lease[t] # 0 => dels[lease[t]].status # "cancelled"

AgreeInv == Owned /\ OneActiveDelegation /\ LeaseHeld

-----------------------------------------------------------------------------
(* Sequences as functions, least and greatest ids.                           *)

LEMMA RowsAreFunctions ==
    ASSUME NEW S, NEW s \in Seq(S)
    PROVE  Len(s) \in Nat /\ s \in [1 .. Len(s) -> S]
BY LenProperties

LEMMA FunctionsAreRows ==
    ASSUME NEW S, NEW n \in Nat, NEW f \in [1 .. n -> S]
    PROVE  f \in Seq(S) /\ Len(f) = n
OBVIOUS

LEMMA AppendedRow ==
    ASSUME NEW S, NEW s \in Seq(S), NEW x \in S
    PROVE  /\ Append(s, x) \in Seq(S)
           /\ Len(Append(s, x)) = Len(s) + 1
           /\ \A i \in 1 .. Len(s) : Append(s, x)[i] = s[i]
           /\ Append(s, x)[Len(s) + 1] = x
OBVIOUS

LEMMA LeastExists ==
    ASSUME NEW S, S \subseteq Nat, S # {}
    PROVE  \E x \in S : \A y \in S : x <= y
<1> DEFINE R == OpToRel(<, Nat)
<1>1. IsWellFoundedOn(R, Nat)
  BY NatLessThanWellFounded
<1>2. \A x, y \in Nat : x < y => <<x, y>> \in R
  BY DEF OpToRel
<1> HIDE DEF R
<1>3. PICK x \in S : \A y \in S : ~(<<y, x>> \in R)
  BY <1>1, WFMin
<1>4. ASSUME NEW y \in S PROVE x <= y
  <2>1. x \in Nat /\ y \in Nat
    OBVIOUS
  <2>2. ~(y < x)
    BY <2>1, <1>2, <1>3, Zenon
  <2> QED BY <2>1, <2>2
<1> QED BY <1>4

LEMMA FirstIsIn ==
    ASSUME NEW S, S \subseteq Nat, S # {}
    PROVE  First(S) \in S /\ \A y \in S : First(S) <= y
BY LeastExists DEF First

LEMMA LatestIsIn ==
    ASSUME NEW n \in Nat, NEW S, S \subseteq 1 .. n, S # {}
    PROVE  Latest(S) \in S /\ \A y \in S : y <= Latest(S)
<1> DEFINE T == {n - x : x \in S}
<1>1. T \subseteq Nat /\ T # {}
  <2>1. \A x \in S : n - x \in Nat
    OBVIOUS
  <2> QED BY <2>1
<1>2. PICK u \in T : \A y \in T : u <= y
  BY <1>1, LeastExists
<1>3. PICK x \in S : u = n - x
  OBVIOUS
<1>4. ASSUME NEW y \in S PROVE y <= x
  <2>1. n - y \in T /\ x \in 1 .. n /\ y \in 1 .. n
    OBVIOUS
  <2>2. n - x <= n - y
    BY <1>2, <1>3, <2>1
  <2> QED BY <2>1, <2>2
<1> QED BY <1>4 DEF Latest

LEMMA TasksAreFinite == IsFiniteSet(Tasks) /\ Tasks \subseteq Nat /\ NTasks \in Nat
BY DelegationAssumption, FS_Interval DEF Tasks

(* The first n of a set are n at most, and some if the set and n are not empty. *)
LEMMA FewAreFew ==
    ASSUME NEW S \in SUBSET Tasks, NEW n \in Nat
    PROVE  /\ FirstFew(S, n) \subseteq S
           /\ Cardinality(FirstFew(S, n)) <= n
           /\ (S # {}) /\ (n > 0) => FirstFew(S, n) # {}
<1> DEFINE F == FirstFew(S, n)
           Below(m) == {u \in S : u < m}
<1>1. F \subseteq S /\ IsFiniteSet(F) /\ IsFiniteSet(S) /\ Cardinality(F) \in Nat
  BY TasksAreFinite, FS_Subset, FS_CardinalityType DEF FirstFew
<1>2. \A m \in F : Cardinality(Below(m)) < n
  BY DEF FirstFew
<1>3. \A m \in S : Cardinality(Below(m)) < n => m \in F
  BY DEF FirstFew
<1>4. \A m \in S : m \in Nat
  BY TasksAreFinite
<1> HIDE DEF F
<1>5. ASSUME F # {} PROVE Cardinality(F) <= n
  <2>1. PICK m \in F : \A y \in F : y <= m
    <3>1. F \subseteq 1 .. NTasks
      BY <1>1 DEF Tasks
    <3> QED BY <1>5, <3>1, LatestIsIn, TasksAreFinite
  <2> DEFINE B == Below(m)
  <2>2. IsFiniteSet(B) /\ Cardinality(B) \in Nat
    BY <1>1, FS_Subset, FS_CardinalityType
  <2>3. \A y \in F : y = m \/ y \in B
    BY <1>1, <1>4, <2>1
  <2>4. Cardinality(B) < n
    BY <1>2, <2>1
  <2> HIDE DEF B
  <2>5. F \subseteq B \cup {m}
    BY <2>3
  <2>6. IsFiniteSet(B \cup {m}) /\ (\/ Cardinality(B \cup {m}) = Cardinality(B) + 1
                                     \/ Cardinality(B \cup {m}) = Cardinality(B))
    BY <2>2, FS_AddElement
  <2>7. Cardinality(F) <= Cardinality(B \cup {m})
    BY <2>5, <2>6, FS_Subset
  <2> QED BY <1>1, <2>2, <2>4, <2>6, <2>7
<1>6. ASSUME F = {} PROVE Cardinality(F) <= n
  BY <1>6, FS_EmptySet
<1>7. ASSUME S # {}, n > 0 PROVE F # {}
  <2>1. First(S) \in S /\ \A y \in S : First(S) <= y
    BY <1>7, FirstIsIn, TasksAreFinite
  <2>2. \A y \in S : ~(y < First(S))
    BY <1>4, <2>1
  <2>3. Below(First(S)) = {}
    BY <2>2
  <2>4. Cardinality(Below(First(S))) < n
    BY <2>3, <1>7, FS_EmptySet
  <2> QED BY <1>3, <2>1, <2>4
<1> QED BY <1>1, <1>5, <1>6, <1>7 DEF F

-----------------------------------------------------------------------------
(* Repairs.  Repair is defined by recursion along the dependencies, which lead
   to earlier tasks: the function exists, and names a task or none.         *)
RepairStep(f, t) ==
    IF t \in Executing THEN t
    ELSE LET found == {u \in Deps[t] : f[u] # 0} IN IF found = {} THEN 0 ELSE f[First(found)]

LEMMA DepsAreEarlier ==
    ASSUME NEW t \in Tasks
    PROVE  t \in Nat /\ t >= 1 /\ t <= NTasks /\ Deps[t] \subseteq 1 .. (t - 1) /\ Deps[t] \subseteq Tasks
BY TasksAreFinite, DelegationAssumption DEF Tasks

LEMMA RepairLooksBack ==
    ASSUME NEW t \in Tasks, NEW f, NEW g, \A u \in Deps[t] : f[u] = g[u]
    PROVE  RepairStep(f, t) = RepairStep(g, t)
<1> DEFINE F == {u \in Deps[t] : f[u] # 0}
           G == {u \in Deps[t] : g[u] # 0}
<1>1. F = G /\ F \subseteq Deps[t]
  OBVIOUS
<1>2. F # {} => First(F) \in F
  <2>1. F \subseteq Nat
    BY DepsAreEarlier, TasksAreFinite
  <2> QED BY <2>1, FirstIsIn
<1>3. RepairStep(f, t) = IF t \in Executing THEN t ELSE IF F = {} THEN 0 ELSE f[First(F)]
  BY DEF RepairStep
<1>4. RepairStep(g, t) = IF t \in Executing THEN t ELSE IF G = {} THEN 0 ELSE g[First(G)]
  BY DEF RepairStep
<1> HIDE DEF F, G
<1> QED BY <1>1, <1>2, <1>3, <1>4

LEMMA RepairExists == \E f : f = [t \in Tasks |-> RepairStep(f, t)]
<1> DEFINE Defined(n) == \E f : f = [t \in 1 .. n |-> RepairStep(f, t)]
           C == {n \in Nat : n <= NTasks /\ ~Defined(n)}
<1>1. SUFFICES ASSUME C # {} PROVE FALSE
  <2>1. NTasks \notin C => Defined(NTasks)
    BY TasksAreFinite
  <2> QED BY <2>1 DEF Tasks
<1>2. PICK m \in C : \A n \in C : m <= n
  BY <1>1, LeastExists
<1>3. m \in Nat /\ m <= NTasks /\ ~Defined(m)
  BY <1>2
<1>4. m # 0
  <2> DEFINE f == [t \in 1 .. 0 |-> 0]
  <2>1. f = [t \in 1 .. 0 |-> RepairStep(f, t)]
    OBVIOUS
  <2>2. Defined(0)
    BY <2>1
  <2> QED BY <1>3, <2>2
<1>5. m - 1 \in Nat /\ m - 1 <= NTasks /\ ~(m <= m - 1)
  BY <1>3, <1>4, TasksAreFinite
<1>6. Defined(m - 1)
  BY <1>2, <1>5
<1>7. PICK f : f = [t \in 1 .. (m - 1) |-> RepairStep(f, t)]
  BY <1>6
<1> DEFINE g == [t \in 1 .. m |-> IF t < m THEN f[t] ELSE RepairStep(f, m)]
<1>8. ASSUME NEW t \in 1 .. m PROVE g[t] = RepairStep(g, t)
  <2>1. t \in Tasks /\ t \in Nat /\ t <= m
    BY <1>3, TasksAreFinite DEF Tasks
  <2>2. \A u \in Deps[t] : u \in 1 .. (t - 1)
    BY <2>1, DepsAreEarlier
  <2>3. \A u \in Deps[t] : f[u] = g[u]
    BY <1>3, <2>1, <2>2
  <2>4. RepairStep(f, t) = RepairStep(g, t)
    BY <2>1, <2>3, RepairLooksBack
  <2>5. g[t] = RepairStep(f, t)
    <3>1. CASE t < m
      <4>1. t \in 1 .. (m - 1)
        BY <1>3, <2>1, <3>1
      <4> QED BY <1>7, <3>1, <4>1
    <3>2. CASE t = m
      BY <1>3, <3>2
    <3> QED BY <1>3, <2>1, <3>1, <3>2
  <2> QED BY <2>4, <2>5
<1>9. g = [t \in 1 .. m |-> RepairStep(g, t)]
  BY <1>8
<1> QED BY <1>3, <1>9

LEMMA RepairEquation == Repair = [t \in Tasks |-> RepairStep(Repair, t)]
<1>1. \A f : f = [t \in Tasks |-> RepairStep(f, t)]
          <=> f = [t \in Tasks |-> IF t \in Executing THEN t
                                   ELSE LET found == {u \in Deps[t] : f[u] # 0}
                                        IN  IF found = {} THEN 0 ELSE f[First(found)]]
  BY DEF RepairStep
<1>2. \E f : f = [t \in Tasks |-> IF t \in Executing THEN t
                                   ELSE LET found == {u \in Deps[t] : f[u] # 0}
                                        IN  IF found = {} THEN 0 ELSE f[First(found)]]
  BY <1>1, RepairExists
<1>3. Repair = [t \in Tasks |-> IF t \in Executing THEN t
                               ELSE LET found == {u \in Deps[t] : Repair[u] # 0}
                                    IN  IF found = {} THEN 0 ELSE Repair[First(found)]]
  BY <1>2 DEF Repair
<1> QED BY <1>1, <1>3

(* What a rejection reopens is a task of the plan, and none without one. *)
LEMMA RepairIsATask == \A t \in Tasks : Repair[t] \in 0 .. NTasks
<1> DEFINE C == {t \in Tasks : Repair[t] \notin 0 .. NTasks}
<1>1. SUFFICES ASSUME C # {} PROVE FALSE
  OBVIOUS
<1>2. PICK m \in C : \A n \in C : m <= n
  BY <1>1, LeastExists, TasksAreFinite
<1>3. m \in Tasks /\ m \in Nat /\ m >= 1 /\ m <= NTasks
  BY <1>2, DepsAreEarlier
<1>4. Repair[m] = RepairStep(Repair, m)
  BY <1>3, RepairEquation
<1>5. \A u \in Deps[m] : Repair[u] \in 0 .. NTasks
  <2> SUFFICES ASSUME NEW u \in Deps[m] PROVE u \notin C
    BY <1>3, DepsAreEarlier
  <2>1. u \in 1 .. (m - 1)
    BY <1>3, DepsAreEarlier
  <2> QED BY <1>2, <1>3, <2>1
<1> DEFINE F == {u \in Deps[m] : Repair[u] # 0}
<1>6. F # {} => First(F) \in Deps[m]
  <2>1. F \subseteq Nat
    BY <1>3, DepsAreEarlier, TasksAreFinite
  <2>2. F # {} => First(F) \in F
    BY <2>1, FirstIsIn
  <2> QED BY <2>2
<1>7. Repair[m] = IF m \in Executing THEN m ELSE IF F = {} THEN 0 ELSE Repair[First(F)]
  BY <1>4 DEF RepairStep
<1> HIDE DEF F
<1>8. Repair[m] \in 0 .. NTasks
  BY <1>3, <1>5, <1>6, <1>7, TasksAreFinite
<1> QED BY <1>2, <1>8

-----------------------------------------------------------------------------
(* What the actions do to the rows.                                          *)

LEMMA TypeFacts ==
    ASSUME TypeOK
    PROVE  /\ Len(dels) \in Nat
           /\ dels \in [Ids -> Row]
           /\ consumed \in [Ids -> Nat]
BY RowsAreFunctions DEF TypeOK, Ids

(* An update of rows creates none. *)
LEMMA UpdatedRows ==
    ASSUME TypeOK, dels' \in [Ids -> Row]
    PROVE  dels' \in Seq(Row) /\ Len(dels') = Len(dels) /\ Ids' = Ids
<1>1. dels' \in Seq(Row) /\ Len(dels') = Len(dels)
  BY TypeFacts, FunctionsAreRows DEF Ids
<1> QED BY <1>1 DEF Ids

Answers == {"pending", "approved", "denied"}

(* Each field of a row keeps its type. *)
LEMMA FieldsType ==
    ASSUME NEW row \in Row
    PROVE  /\ \A s \in {"assigned", "running", "waiting"} \cup Ended : [row EXCEPT !.status = s] \in Row
           /\ [row EXCEPT !.acked = TRUE] \in Row
           /\ \A S \in Seq(Answers) : [row EXCEPT !.asked = S] \in Row
           /\ \A o \in {"completed", "failed"} : [row EXCEPT !.result = o, !.status = o] \in Row
           /\ \A S \in Seq(Answers) :
                 [row EXCEPT !.status = "waiting", !.asked = S] \in Row
BY DEF Row, Ended, Answers

(* One row changes. *)
LEMMA OneRowType ==
    ASSUME TypeOK, NEW d \in Ids, NEW row \in Row, dels' = [dels EXCEPT ![d] = row]
    PROVE  dels' \in Seq(Row) /\ Len(dels') = Len(dels) /\ Ids' = Ids
BY TypeFacts, UpdatedRows

(* A child that asks writes its delegation's status and what was asked; a decision
   writes the latter.                                                      *)
LEMMA AsksEffect ==
    ASSUME TypeOK, NEW t \in Tasks, NEW d \in Ids, d = flight[t].d, ChildAsks(t)
    PROVE  \E asked \in Seq(Answers) : dels' = [dels EXCEPT ![d].status = "waiting", ![d].asked = asked]
<1>1. dels[d] \in Row
  BY TypeFacts
<1>2. dels[d].asked \in Seq(Answers)
  BY <1>1 DEF Row, Answers
<1>3. Asking(dels[d].asked) \subseteq Seq(Answers)
  <2>1. Append(dels[d].asked, "pending") \in Seq(Answers)
    BY <1>2, AppendedRow DEF Answers
  <2> QED BY <1>2, <2>1 DEF Asking
<1> QED BY <1>3 DEF ChildAsks

LEMMA ResolveEffect ==
    ASSUME TypeOK, ResolveApproval
    PROVE  \E d \in Ids, asked \in Seq(Answers) : dels' = [dels EXCEPT ![d].asked = asked]
<1>1. PICK d \in Ids, decision \in {"approved", "denied"} : \E i \in DOMAIN dels[d].asked :
         dels' = [dels EXCEPT ![d].asked = [@ EXCEPT ![i] = decision]]
  BY DEF ResolveApproval
<1>2. dels \in [Ids -> Row]
  BY TypeFacts
<1>3. PICK i \in DOMAIN dels[d].asked : dels' = [dels EXCEPT ![d].asked = [dels[d].asked EXCEPT ![i] = decision]]
  BY <1>1, <1>2
<1>4. dels[d].asked \in Seq(Answers)
  BY <1>2 DEF Row, Answers
<1> DEFINE f == [dels[d].asked EXCEPT ![i] = decision]
<1>5. /\ Len(dels[d].asked) \in Nat
      /\ dels[d].asked \in [1 .. Len(dels[d].asked) -> Answers]
  BY <1>4, RowsAreFunctions
<1>6. f \in [1 .. Len(dels[d].asked) -> Answers]
  BY <1>5 DEF Answers
<1>7. f \in Seq(Answers)
  BY <1>5, <1>6, FunctionsAreRows
<1> QED BY <1>3, <1>7

LEMMA SameRows ==
    ASSUME UNCHANGED dels PROVE Ids' = Ids
BY DEF Ids

(* A child writes the row of its own delegation, neither acknowledging nor cancelling. *)
LEMMA ChildWrites ==
    ASSUME TypeOK, NEW t \in Tasks, NEW d \in Ids, d = flight[t].d, Child(t)
    PROVE  /\ dels' \in Seq(Row) /\ Len(dels') = Len(dels) /\ Ids' = Ids
           /\ \A e \in Ids \ {d} : dels'[e] = dels[e]
           /\ dels'[d].task = dels[d].task /\ dels'[d].acked = dels[d].acked
           /\ dels'[d] = dels[d] \/ dels'[d].status # "cancelled"
<1>1. dels \in [Ids -> Row] /\ dels[d] \in Row /\ dels \in Seq(Row)
  BY TypeFacts DEF TypeOK
<1>2. \/ dels' = dels
      \/ \E o \in {"completed", "failed"} : dels' = [dels EXCEPT ![d].result = o, ![d].status = o]
      \/ \E asked \in Seq(Answers) : dels' = [dels EXCEPT ![d].status = "waiting", ![d].asked = asked]
  BY AsksEffect DEF Child, ChildSucceeds, ChildFails, HandleFailure, ReleaseTaskLease, Persist
<1>3. CASE dels' = dels
  BY <1>1, <1>3, SameRows
<1>4. ASSUME NEW row \in Row, dels' = [dels EXCEPT ![d] = row], row.task = dels[d].task,
             row.acked = dels[d].acked, row.status # "cancelled"
      PROVE  /\ dels' \in Seq(Row) /\ Len(dels') = Len(dels) /\ Ids' = Ids
             /\ \A e \in Ids \ {d} : dels'[e] = dels[e]
             /\ dels'[d].task = dels[d].task /\ dels'[d].acked = dels[d].acked
             /\ dels'[d].status # "cancelled"
  BY <1>1, <1>4, OneRowType
<1>5. ASSUME NEW o \in {"completed", "failed"}, dels' = [dels EXCEPT ![d].result = o, ![d].status = o]
      PROVE  \E row \in Row : /\ dels' = [dels EXCEPT ![d] = row] /\ row.task = dels[d].task
                              /\ row.acked = dels[d].acked /\ row.status # "cancelled"
  <2> DEFINE row == [dels[d] EXCEPT !.result = o, !.status = o]
  <2>1. row \in Row
    BY <1>1, FieldsType
  <2>2. row.task = dels[d].task /\ row.acked = dels[d].acked /\ row.status # "cancelled"
    BY <1>1 DEF Row
  <2>3. dels' = [dels EXCEPT ![d] = row]
    BY <1>1, <1>5
  <2> QED BY <2>1, <2>2, <2>3
<1>6. ASSUME NEW asked \in Seq(Answers), dels' = [dels EXCEPT ![d].status = "waiting", ![d].asked = asked]
      PROVE  \E row \in Row : /\ dels' = [dels EXCEPT ![d] = row] /\ row.task = dels[d].task
                              /\ row.acked = dels[d].acked /\ row.status # "cancelled"
  <2> DEFINE row == [dels[d] EXCEPT !.status = "waiting", !.asked = asked]
  <2>1. row \in Row
    BY <1>1, FieldsType
  <2>2. row.task = dels[d].task /\ row.acked = dels[d].acked /\ row.status # "cancelled"
    BY <1>1 DEF Row
  <2>3. dels' = [dels EXCEPT ![d] = row]
    BY <1>1, <1>6
  <2> QED BY <2>1, <2>2, <2>3
<1> QED BY <1>2, <1>3, <1>4, <1>5, <1>6

(* A decision writes what one delegation asked. *)
LEMMA DecisionWrites ==
    ASSUME TypeOK, ResolveApproval
    PROVE  /\ dels' \in Seq(Row) /\ Len(dels') = Len(dels) /\ Ids' = Ids
           /\ \A e \in Ids : /\ dels'[e].task = dels[e].task /\ dels'[e].status = dels[e].status
                             /\ dels'[e].result = dels[e].result /\ dels'[e].acked = dels[e].acked
<1>1. dels \in [Ids -> Row]
  BY TypeFacts
<1>2. PICK d \in Ids, asked \in Seq(Answers) : dels' = [dels EXCEPT ![d].asked = asked]
  BY ResolveEffect
<1> DEFINE row == [dels[d] EXCEPT !.asked = asked]
<1>3. row \in Row /\ dels' = [dels EXCEPT ![d] = row]
  BY <1>1, <1>2, FieldsType
<1>4. /\ row.task = dels[d].task /\ row.status = dels[d].status
      /\ row.result = dels[d].result /\ row.acked = dels[d].acked
  BY <1>1 DEF Row
<1> HIDE DEF row
<1>5. \A e \in Ids : dels'[e] = dels[e] \/ (e = d /\ dels'[e] = row)
  BY <1>1, <1>3
<1> QED BY <1>3, <1>4, <1>5, OneRowType

LEMMA ActiveIsIn ==
    ASSUME TypeOK, NEW t, Active(t) # {}
    PROVE  Latest(Active(t)) \in Active(t)
<1>1. Active(t) \subseteq 1 .. Len(dels)
  BY DEF Active, Ids
<1> QED BY <1>1, LatestIsIn, TypeFacts

(* Launch() takes one task off the batch and gives it the delegation it has or a
   new one; no other row changes.                                          *)
LEMMA LaunchEffect ==
    ASSUME TypeOK, batch # {}, Launch
    PROVE  \E t \in batch, d \in Nat :
             /\ batch' = batch \ {t}
             /\ proc' = IF batch' = {} THEN At("await") ELSE proc
             /\ d \in IF Active(t) = {} THEN {Len(dels) + 1} ELSE Active(t)
             /\ Ids' = Ids \cup {d}
             /\ dels' \in Seq(Row) /\ consumed' \in Seq(Nat) /\ Len(consumed') = Len(dels')
             /\ \A e \in Ids \ {d} : dels'[e] = dels[e]
             /\ dels'[d].task = t /\ dels'[d].status \notin Ended
             /\ IF Active(t) = {} THEN consumed'[d] = 0 ELSE dels'[d].acked = dels[d].acked
             /\ \A e \in Ids : consumed'[e] = consumed[e]
             /\ \/ /\ status' = [status EXCEPT ![t] = "running"]
                   /\ lease' = [lease EXCEPT ![t] = d]
                   /\ flight' = [flight EXCEPT ![t] = [at |-> "work", d |-> d]]
                   /\ Restarted(t)
                \/ /\ status' = [status EXCEPT ![t] = "waiting"]
                   /\ UNCHANGED <<lease, flight, stale, overtaken>>
             /\ stale' \subseteq Tasks /\ overtaken' \subseteq Tasks
<1> DEFINE t == First(batch)
           d == IF Active(t) = {} THEN Len(dels) + 1 ELSE Latest(Active(t))
           row == IF Active(t) = {} THEN Append(dels, NewDelegation(t)) ELSE dels
<1>1. t \in batch /\ t \in Tasks
  BY FirstIsIn, TasksAreFinite DEF TypeOK
<1>2. /\ batch' = batch \ {t}
      /\ proc' = IF batch' = {} THEN At("await") ELSE proc
      /\ consumed' = IF Active(t) = {} THEN Append(consumed, 0) ELSE consumed
      /\ \/ /\ status' = [status EXCEPT ![t] = "running"]
            /\ lease' = [lease EXCEPT ![t] = d]
            /\ dels' = [row EXCEPT ![d].status = "running"]
            /\ flight' = [flight EXCEPT ![t] = [at |-> "work", d |-> d]]
            /\ Restarted(t)
         \/ /\ status' = [status EXCEPT ![t] = "waiting"]
            /\ dels' = IF Active(t) = {} THEN [row EXCEPT ![d].status = "assigned"] ELSE row
            /\ UNCHANGED <<lease, flight, stale, overtaken>>
  BY DEF Launch
<1>3. stale' \subseteq Tasks /\ overtaken' \subseteq Tasks
  BY <1>1, <1>2 DEF Restarted, Renewed, TypeOK
<1> DEFINE n == Len(row)
<1>4. CASE Active(t) = {}
  <2>1. NewDelegation(t) \in Row
    BY <1>1, EmptySeq DEF NewDelegation, Row
  <2>2. /\ row \in Seq(Row)
        /\ Len(row) = Len(dels) + 1
        /\ \A i \in 1 .. Len(dels) : row[i] = dels[i]
        /\ row[Len(dels) + 1] = NewDelegation(t)
    BY <1>4, <2>1, AppendedRow DEF TypeOK
  <2>3. d = Len(dels) + 1 /\ Len(dels) \in Nat
    BY <1>4, TypeFacts
  <2>4. PICK s \in {"running", "assigned"} : dels' = [row EXCEPT ![d].status = s]
    BY <1>2, <1>4
  <2> HIDE DEF t, d, row
  <2>5. row \in [1 .. d -> Row] /\ d \in 1 .. d /\ d \in Nat
    BY <2>2, <2>3, RowsAreFunctions
  <2>6. row[d] = NewDelegation(t)
    BY <2>2, <2>3
  <2>7. dels' \in [1 .. d -> Row]
    BY <2>4, <2>5 DEF Row
  <2>8. dels' \in Seq(Row) /\ Len(dels') = d
    BY <2>5, <2>7, FunctionsAreRows
  <2>9. Ids' = Ids \cup {d} /\ d \notin Ids
    BY <2>3, <2>8 DEF Ids
  <2>10. dels'[d].task = t /\ dels'[d].status \notin Ended
    BY <2>4, <2>5, <2>6 DEF NewDelegation, Ended
  <2>11. \A e \in Ids \ {d} : dels'[e] = dels[e]
    BY <2>2, <2>3, <2>4, <2>5 DEF Ids
  <2>12. /\ consumed' \in Seq(Nat) /\ Len(consumed') = Len(dels')
         /\ \A e \in Ids : consumed'[e] = consumed[e]
         /\ consumed'[d] = 0
    <3>1. consumed' = Append(consumed, 0) /\ consumed \in Seq(Nat) /\ Len(consumed) = Len(dels)
      BY <1>2, <1>4 DEF TypeOK
    <3>2. /\ Append(consumed, 0) \in Seq(Nat)
          /\ Len(Append(consumed, 0)) = Len(consumed) + 1
          /\ \A i \in 1 .. Len(consumed) : Append(consumed, 0)[i] = consumed[i]
          /\ Append(consumed, 0)[Len(consumed) + 1] = 0
      BY <3>1, AppendedRow
    <3> QED BY <2>3, <2>8, <3>1, <3>2 DEF Ids
  <2> QED BY <1>1, <1>2, <1>3, <1>4, <2>3, <2>5, <2>8, <2>9, <2>10, <2>11, <2>12
<1>5. CASE Active(t) # {}
  <2>1. d \in Active(t) /\ row = dels
    BY <1>5, ActiveIsIn
  <2>2. d \in Ids /\ dels[d].task = t /\ dels[d].status \notin Ended
    BY <2>1 DEF Active
  <2> HIDE DEF t, d, row
  <2>3. dels' = dels \/ dels' = [dels EXCEPT ![d].status = "running"]
    BY <1>2, <1>5, <2>1
  <2>4. dels \in [Ids -> Row]
    BY TypeFacts
  <2>5. dels' \in [Ids -> Row]
    <3>1. [dels[d] EXCEPT !.status = "running"] \in Row
      BY <2>2, <2>4, FieldsType
    <3> QED BY <2>2, <2>3, <2>4, <3>1
  <2>6. dels' \in Seq(Row) /\ Len(dels') = Len(dels) /\ Ids' = Ids
    BY <2>5, UpdatedRows
  <2>7. /\ dels'[d].task = t /\ dels'[d].status \notin Ended
        /\ dels'[d].acked = dels[d].acked
        /\ \A e \in Ids \ {d} : dels'[e] = dels[e]
    BY <2>2, <2>3, <2>4 DEF Row, Ended
  <2>8. consumed' = consumed /\ consumed \in Seq(Nat) /\ Len(consumed) = Len(dels)
    BY <1>2, <1>5 DEF TypeOK
  <2>9. d \in Nat
    BY <2>2, TypeFacts DEF Ids
  <2> QED BY <1>1, <1>2, <1>3, <1>5, <2>1, <2>2, <2>6, <2>7, <2>8, <2>9
<1> QED BY <1>4, <1>5

-----------------------------------------------------------------------------
(* Types.                                                                    *)

LEMMA TypeInit == Init => TypeOK
<1> SUFFICES ASSUME Init PROVE TypeOK
  OBVIOUS
<1>1. dels \in Seq(Row) /\ consumed \in Seq(Nat) /\ Len(dels) = 0 /\ Len(consumed) = 0
  BY EmptySeq DEF Init
<1> QED BY <1>1, DelegationAssumption DEF Init, TypeOK, Off

(* The decisions of an operator are written to active rows. *)
LEMMA DecisionsType ==
    ASSUME TypeOK, ApplyDecisions PROVE dels' \in [Ids -> Row]
<1>1. dels \in [Ids -> Row]
  BY TypeFacts
<1> QED BY <1>1 DEF ApplyDecisions, Row, Ended

(* A task graph that is decided upon gives a batch of tasks and an outcome. *)
LEMMA DecideEffect ==
    ASSUME TypeOK, Decide
    PROVE  /\ proc.at = "collect" /\ Consumables = {}
           /\ UNCHANGED <<retries, lease, dels, flight, runs, faults, history>>
           /\ status' = status \/ status' = [t \in Tasks |-> Runnable(t)]
           /\ batch' \subseteq Tasks /\ executed' \in Nat
           /\ plan' \in {"running", "waiting", "paused", "cancelled", "completed", "failed"}
           /\ \/ proc' = Off /\ batch' = {}
              \/ /\ proc' = At("launch") /\ batch' # {}
                 /\ \A t \in batch' : status'[t] = "ready"
                 /\ Cardinality(batch') <= MaxConcurrent
<1> DEFINE next == [t \in Tasks |-> Runnable(t)]
           ready == {t \in Tasks : next[t] = "ready"}
<1>1. /\ proc.at = "collect" /\ Consumables = {}
      /\ UNCHANGED <<retries, lease, dels, flight, runs, faults, history>>
      /\ executed' = executed + Cardinality(batch')
      /\ \/ /\ status' = status /\ proc' = Off /\ batch' = {} /\ plan' \in {"completed", "paused"}
         \/ /\ status' = next /\ executed < MaxTasks /\ ready # {}
            /\ proc' = At("launch") /\ batch' = FirstFew(ready, Room) /\ plan' = plan
         \/ /\ status' = next /\ proc' = Off /\ batch' = {} /\ plan' \in {"waiting", "failed", plan}
  BY DEF Decide
<1>2. ready \in SUBSET Tasks /\ \A t \in ready : next[t] = "ready"
  OBVIOUS
<1>3. executed < MaxTasks => Room \in Nat /\ Room > 0 /\ Room <= MaxConcurrent
  BY DelegationAssumption DEF Room, TypeOK
<1> HIDE DEF ready
<1>4. batch' \subseteq Tasks
  BY <1>1, <1>2, <1>3, FewAreFew
<1>5. executed' \in Nat
  <2>1. Cardinality(batch') \in Nat
    BY <1>4, TasksAreFinite, FS_Subset, FS_CardinalityType
  <2> QED BY <1>1, <2>1 DEF TypeOK
<1>6. ASSUME status' = next, executed < MaxTasks, ready # {}, batch' = FirstFew(ready, Room)
      PROVE  /\ batch' # {} /\ Cardinality(batch') <= MaxConcurrent
             /\ \A t \in batch' : status'[t] = "ready"
  <2>1. /\ batch' \subseteq ready /\ batch' # {} /\ Cardinality(batch') <= Room
    BY <1>2, <1>3, <1>6, FewAreFew
  <2>2. Cardinality(batch') \in Nat
    BY <1>4, TasksAreFinite, FS_Subset, FS_CardinalityType
  <2>3. Cardinality(batch') <= MaxConcurrent
    BY <1>3, <1>6, <2>1, <2>2, DelegationAssumption
  <2> HIDE DEF next
  <2> QED BY <1>2, <1>6, <2>1, <2>3
<1> QED BY <1>1, <1>4, <1>5, <1>6 DEF TypeOK

Statuses == {"pending", "ready", "running", "waiting", "needs_approval", "blocked", "failed", "completed"}

LEMMA PersistType ==
    ASSUME TypeOK, NEW d \in Ids, NEW o \in {"completed", "failed"}, Persist(d, o)
    PROVE  dels' \in Seq(Row) /\ Len(dels') = Len(dels) /\ Ids' = Ids
<1>1. dels[d] \in Row
  BY TypeFacts
<1>2. CASE dels' = dels
  BY <1>2, SameRows DEF TypeOK
<1>3. CASE dels' = [dels EXCEPT ![d].result = o, ![d].status = o]
  <2>1. dels' = [dels EXCEPT ![d] = [dels[d] EXCEPT !.result = o, !.status = o]]
    BY <1>3, TypeFacts
  <2>2. [dels[d] EXCEPT !.result = o, !.status = o] \in Row
    BY <1>1, FieldsType
  <2> QED BY <2>1, <2>2, OneRowType
<1> QED BY <1>2, <1>3 DEF Persist

(* What the type of an invariant in the primed state needs when no row is new. *)
LEMMA TypeStep ==
    ASSUME TypeOK,
           plan' \in {"running", "waiting", "paused", "cancelled", "completed", "failed"},
           status' \in [Tasks -> Statuses], retries' \in [Tasks -> Nat],
           lease' \in [Tasks -> 0 .. Len(dels)],
           dels' \in Seq(Row), Len(dels') = Len(dels), Ids' = Ids,
           proc' \in {Off} \cup [at : {"recover", "collect", "decide", "launch", "await"}]
                     \cup [at : {"ack"}, d : Ids, then : {"recover", "collect"}],
           batch' \subseteq Tasks, flight' \in [Tasks -> {Idle} \cup [at : Stages, d : Ids]],
           executed' \in Nat, runs' \in 0 .. MaxRuns, faults' \in 0 .. MaxFaults,
           UNCHANGED <<consumed, stale>>, overtaken' \subseteq Tasks
    PROVE  TypeOK'
BY DEF TypeOK, Statuses

LEMMA StatusTypes ==
    ASSUME TypeOK
    PROVE  /\ status \in [Tasks -> Statuses]
           /\ retries \in [Tasks -> Nat]
           /\ lease \in [Tasks -> 0 .. Len(dels)]
           /\ flight \in [Tasks -> {Idle} \cup [at : Stages, d : Ids]]
           /\ \A t \in Tasks : flight[t] # Idle => flight[t].at \in Stages /\ flight[t].d \in Ids
           /\ \A t \in Tasks : flight[t].at \in Stages => flight[t] # Idle
BY DEF TypeOK, Statuses, Stages, Idle

LEMMA TypeNext == ASSUME TypeOK, Staged, [Next]_vars PROVE TypeOK'
<1> USE StatusTypes DEF durable, running, history
<1>a. /\ dels \in Seq(Row) /\ dels \in [Ids -> Row] /\ Len(dels) \in Nat
      /\ plan \in {"running", "waiting", "paused", "cancelled", "completed", "failed"}
      /\ proc \in {Off} \cup [at : {"recover", "collect", "decide", "launch", "await"}]
                  \cup [at : {"ack"}, d : Ids, then : {"recover", "collect"}]
      /\ batch \subseteq Tasks
      /\ executed \in Nat /\ runs \in 0 .. MaxRuns /\ faults \in 0 .. MaxFaults
      /\ stale \subseteq Tasks /\ overtaken \subseteq Tasks
      /\ MaxRuns \in Nat /\ MaxFaults \in Nat
  BY TypeFacts, DelegationAssumption DEF TypeOK
<1>b. /\ At("recover") \in [at : {"recover", "collect", "decide", "launch", "await"}]
      /\ At("collect") \in [at : {"recover", "collect", "decide", "launch", "await"}]
      /\ At("launch") \in [at : {"recover", "collect", "decide", "launch", "await"}]
      /\ At("await") \in [at : {"recover", "collect", "decide", "launch", "await"}]
  BY DEF At
<1>c. dels' = dels => dels' \in Seq(Row) /\ Len(dels') = Len(dels) /\ Ids' = Ids
  BY <1>a, SameRows
<1>1. ASSUME Start PROVE TypeOK'
  <2>1. dels' \in [Ids -> Row] /\ status' \in [Tasks -> Statuses]
    BY <1>1, <1>a, DecisionsType DEF Start, ApplyDecisions, Statuses
  <2>2. dels' \in Seq(Row) /\ Len(dels') = Len(dels) /\ Ids' = Ids
    BY <2>1, UpdatedRows
  <2>3. runs' \in 0 .. MaxRuns
    BY <1>1, <1>a DEF Start
  <2> QED BY <1>1, <1>a, <1>b, <2>1, <2>2, <2>3, TypeStep DEF Start
<1>2. ASSUME ConsumeResult PROVE TypeOK'
  <2>1. PICK d \in Ids : /\ status' = [status EXCEPT ![dels[d].task] = "completed"]
                         /\ lease' = [lease EXCEPT ![dels[d].task] = 0]
                         /\ consumed' = [consumed EXCEPT ![d] = @ + 1]
                         /\ proc' = [at |-> "ack", d |-> d, then |-> proc.at]
    <3>1. Consumables \subseteq Nat /\ Consumables # {} /\ Consumables \subseteq Ids
      BY <1>2, <1>a DEF ConsumeResult, Consumables, Ids
    <3>2. First(Consumables) \in Ids
      BY <3>1, FirstIsIn
    <3> QED BY <1>2, <3>2 DEF ConsumeResult
  <2>2. Ids' = Ids /\ UNCHANGED <<plan, retries, dels, batch, flight, executed, runs, faults, stale, overtaken>>
    BY <1>2 DEF ConsumeResult, Ids
  <2>3. consumed' \in [Ids -> Nat]
    BY <2>1, TypeFacts
  <2>4. consumed' \in Seq(Nat) /\ Len(consumed') = Len(dels)
    BY <2>3, <1>a, FunctionsAreRows DEF Ids
  <2>5. status' \in [Tasks -> Statuses]
    BY <2>1 DEF Statuses
  <2>6. lease' \in [Tasks -> 0 .. Len(dels)]
    <3>1. 0 \in 0 .. Len(dels) /\ lease \in [Tasks -> 0 .. Len(dels)]
      BY <1>a
    <3> QED BY <2>1, <3>1
  <2>7. proc.at \in {"recover", "collect"}
    BY <1>2 DEF ConsumeResult
  <2>8. proc' \in [at : {"ack"}, d : Ids', then : {"recover", "collect"}]
    BY <2>1, <2>2, <2>7
  <2> QED BY <1>a, <2>2, <2>4, <2>5, <2>6, <2>8 DEF TypeOK, Statuses
<1>3. ASSUME AcknowledgeResult PROVE TypeOK'
  <2>1. proc.at = "ack" /\ proc' = At(proc.then) /\ dels' = [dels EXCEPT ![proc.d].acked = TRUE]
    BY <1>3 DEF AcknowledgeResult
  <2>2. proc.then \in {"recover", "collect"} /\ proc.d \in Ids
    BY <1>a, <2>1 DEF Off
  <2>3. dels' = [dels EXCEPT ![proc.d] = [dels[proc.d] EXCEPT !.acked = TRUE]]
    BY <1>a, <2>1, <2>2
  <2>4. [dels[proc.d] EXCEPT !.acked = TRUE] \in Row
    BY <1>a, <2>2, FieldsType
  <2>5. dels' \in Seq(Row) /\ Len(dels') = Len(dels) /\ Ids' = Ids
    BY <2>2, <2>3, <2>4, OneRowType
  <2> QED BY <1>3, <1>a, <1>b, <2>1, <2>2, <2>5, TypeStep DEF AcknowledgeResult
<1>4. ASSUME RecoverInFlight PROVE TypeOK'
  <2>1. /\ dels' = [d \in Ids |-> IF Unfinished(dels[d].task) /\ d = Latest(Active(dels[d].task))
                                  THEN [dels[d] EXCEPT !.status = "assigned"] ELSE dels[d]]
        /\ status' = [t \in Tasks |-> IF Unfinished(t) THEN "ready" ELSE status[t]]
        /\ lease' = [t \in Tasks |-> IF Unfinished(t) THEN 0 ELSE lease[t]]
    BY <1>4 DEF RecoverInFlight
  <2>2. \A d \in Ids : dels[d] \in Row /\ [dels[d] EXCEPT !.status = "assigned"] \in Row
    BY <1>a, FieldsType
  <2>3. dels' \in [Ids -> Row]
    BY <2>1, <2>2
  <2>4. dels' \in Seq(Row) /\ Len(dels') = Len(dels) /\ Ids' = Ids
    BY <2>3, UpdatedRows
  <2>5. lease' \in [Tasks -> 0 .. Len(dels)]
    BY <2>1, <1>a
  <2>6. status' \in [Tasks -> Statuses]
    BY <2>1 DEF Statuses
  <2> QED BY <1>4, <1>a, <1>b, <2>4, <2>5, <2>6, TypeStep DEF RecoverInFlight
<1>5. ASSUME Decide PROVE TypeOK'
  <2>1. status' \in [Tasks -> Statuses]
    BY <1>5, DecideEffect DEF Runnable, Statuses
  <2> QED BY <1>5, <1>a, <1>b, <1>c, <2>1, DecideEffect, TypeStep
<1>6. ASSUME Launch PROVE TypeOK'
  <2>1. batch # {} /\ proc.at = "launch"
    BY <1>6 DEF Launch, Staged
  <2>2. PICK t \in batch, d \in Nat :
             /\ batch' = batch \ {t}
             /\ proc' = IF batch' = {} THEN At("await") ELSE proc
             /\ Ids' = Ids \cup {d}
             /\ dels' \in Seq(Row) /\ consumed' \in Seq(Nat) /\ Len(consumed') = Len(dels')
             /\ \/ /\ status' = [status EXCEPT ![t] = "running"]
                   /\ lease' = [lease EXCEPT ![t] = d]
                   /\ flight' = [flight EXCEPT ![t] = [at |-> "work", d |-> d]]
                \/ /\ status' = [status EXCEPT ![t] = "waiting"]
                   /\ UNCHANGED <<lease, flight>>
             /\ stale' \subseteq Tasks /\ overtaken' \subseteq Tasks
    BY <1>6, <2>1, LaunchEffect
  <2>3. Len(dels') \in Nat
    BY <2>2, RowsAreFunctions
  <2>4. \A x \in Nat : x \in 0 .. Len(dels) <=> x = 0 \/ x \in Ids
    BY <1>a DEF Ids
  <2>5. \A x \in Nat : x \in 0 .. Len(dels') <=> x = 0 \/ x \in Ids'
    BY <2>3 DEF Ids
  <2>6. \A t1 \in Tasks : lease'[t1] \in 0 .. Len(dels')
    <3> SUFFICES ASSUME NEW t1 \in Tasks PROVE lease'[t1] \in 0 .. Len(dels')
      OBVIOUS
    <3>1. lease'[t1] = lease[t1] \/ lease'[t1] = d
      BY <2>2
    <3>2. lease[t1] \in 0 .. Len(dels) /\ lease[t1] \in Nat
      BY <1>a
    <3> QED BY <2>2, <2>4, <2>5, <3>1, <3>2
  <2>7. lease' \in [Tasks -> 0 .. Len(dels')]
    BY <2>2, <2>6
  <2>8. [at |-> "work", d |-> d] \in [at : Stages, d : Ids']
    BY <2>2 DEF Stages
  <2>9. [at : Stages, d : Ids] \subseteq [at : Stages, d : Ids']
    BY <2>2
  <2>10. flight' \in [Tasks -> {Idle} \cup [at : Stages, d : Ids']]
    <3>1. flight \in [Tasks -> {Idle} \cup [at : Stages, d : Ids]]
      BY <1>a
    <3>2. flight' = flight \/ flight' = [flight EXCEPT ![t] = [at |-> "work", d |-> d]]
      BY <2>2
    <3> QED BY <2>8, <2>9, <3>1, <3>2
  <2>11. proc' \in [at : {"recover", "collect", "decide", "launch", "await"}]
    BY <1>a, <1>b, <2>1, <2>2 DEF Off
  <2>12. status' \in [Tasks -> Statuses]
    BY <2>2 DEF Statuses
  <2>13. UNCHANGED <<plan, retries, executed, runs, faults>>
    BY <1>6 DEF Launch
  <2> QED BY <1>a, <2>2, <2>7, <2>10, <2>11, <2>12, <2>13 DEF TypeOK, Statuses
<1>7. ASSUME Collect PROVE TypeOK'
  BY <1>7, <1>a, <1>b, <1>c, TypeStep DEF Collect
<1>8. ASSUME NEW t \in Tasks, ChildSucceeds(t) PROVE TypeOK'
  <2>1. flight[t] \in [at : Stages, d : Ids] /\ flight[t].d \in Ids
    BY <1>8 DEF ChildSucceeds, Stages
  <2>2. dels' \in Seq(Row) /\ Len(dels') = Len(dels) /\ Ids' = Ids
    BY <1>8, <2>1, PersistType DEF ChildSucceeds
  <2>3. flight' \in [Tasks -> {Idle} \cup [at : Stages, d : Ids]]
    <3>1. PICK s \in Stages : flight' = [flight EXCEPT ![t].at = s]
      BY <1>8 DEF ChildSucceeds, Stage, Stages
    <3>2. [flight[t] EXCEPT !.at = s] \in [at : Stages, d : Ids]
      BY <2>1
    <3> QED BY <3>1, <3>2
  <2> QED BY <1>8, <1>a, <2>2, <2>3, TypeStep DEF ChildSucceeds
<1>9. ASSUME NEW t \in Tasks, ChildFails(t) PROVE TypeOK'
  <2>1. flight[t] \in [at : Stages, d : Ids] /\ flight[t].d \in Ids
    BY <1>9 DEF ChildFails, Stages
  <2>2. dels' \in Seq(Row) /\ Len(dels') = Len(dels) /\ Ids' = Ids
    BY <1>9, <2>1, PersistType DEF ChildFails
  <2>3. flight' \in [Tasks -> {Idle} \cup [at : Stages, d : Ids]]
    <3>1. PICK s \in Stages : flight' = [flight EXCEPT ![t].at = s]
      BY <1>9 DEF ChildFails, Stage, Stages
    <3>2. [flight[t] EXCEPT !.at = s] \in [at : Stages, d : Ids]
      BY <2>1
    <3> QED BY <3>1, <3>2
  <2>4. faults' \in 0 .. MaxFaults
    BY <1>9, <1>a DEF ChildFails
  <2> QED BY <1>9, <1>a, <2>2, <2>3, <2>4, TypeStep DEF ChildFails
<1>10. ASSUME NEW t \in Tasks, ChildAsks(t) PROVE TypeOK'
  <2>1. flight[t] \in [at : Stages, d : Ids] /\ flight[t].d \in Ids
    BY <1>10 DEF ChildAsks, Stages
  <2>2. dels' \in Seq(Row) /\ Len(dels') = Len(dels) /\ Ids' = Ids
    BY <1>10, <2>1, ChildWrites DEF Child
  <2>3. flight' \in [Tasks -> {Idle} \cup [at : Stages, d : Ids]]
    <3>1. PICK s \in Stages : flight' = [flight EXCEPT ![t].at = s]
      BY <1>10 DEF ChildAsks, Stage, Stages
    <3>2. [flight[t] EXCEPT !.at = s] \in [at : Stages, d : Ids]
      BY <2>1
    <3> QED BY <3>1, <3>2
  <2>4. faults' \in 0 .. MaxFaults /\ status' \in [Tasks -> Statuses]
    BY <1>10, <1>a DEF ChildAsks, Statuses
  <2> QED BY <1>10, <1>a, <2>2, <2>3, <2>4, TypeStep DEF ChildAsks
<1>11. ASSUME NEW t \in Tasks, HandleFailure(t) PROVE TypeOK'
  <2>1. flight[t] \in [at : Stages, d : Ids] /\ flight[t].d \in Ids
    BY <1>11 DEF HandleFailure, Stages
  <2>2. retries' \in [Tasks -> Nat]
    <3>1. retries' = retries \/ \E r : retries' = [retries EXCEPT ![r] = @ + 1]
      BY <1>11 DEF HandleFailure
    <3> QED BY <3>1
  <2>3. flight' \in [Tasks -> {Idle} \cup [at : Stages, d : Ids]]
    <3>1. PICK s \in Stages : flight' = [flight EXCEPT ![t].at = s]
      BY <1>11 DEF HandleFailure, Stage, Stages
    <3>2. [flight[t] EXCEPT !.at = s] \in [at : Stages, d : Ids]
      BY <2>1
    <3> QED BY <3>1, <3>2
  <2>4. status' \in [Tasks -> Statuses]
    BY <1>11 DEF HandleFailure, Reopened, FailedStatus, Statuses
  <2>5. overtaken' \subseteq Tasks
    <3> DEFINE r == IF t \in Verifying THEN Repair[t] ELSE 0
    <3>1. overtaken' = overtaken \/ (r # 0 /\ overtaken' = overtaken \cup Overtaken(t, r))
      BY <1>11 DEF HandleFailure
    <3>2. r # 0 => r \in Nat /\ r >= 1
      BY RepairIsATask, TasksAreFinite
    <3> HIDE DEF r
    <3>3. r # 0 => Overtaken(t, r) \subseteq Tasks
      BY <3>2, TasksAreFinite DEF Overtaken, Tasks
    <3> QED BY <1>a, <3>1, <3>3
  <2> QED BY <1>11, <1>a, <1>c, <2>2, <2>3, <2>4, <2>5, TypeStep DEF HandleFailure
<1>12. ASSUME NEW t \in Tasks, ReleaseTaskLease(t) PROVE TypeOK'
  <2>1. lease' \in [Tasks -> 0 .. Len(dels)] /\ flight' \in [Tasks -> {Idle} \cup [at : Stages, d : Ids]]
    BY <1>12, <1>a DEF ReleaseTaskLease
  <2> QED BY <1>12, <1>a, <1>c, <2>1, TypeStep DEF ReleaseTaskLease
<1>13. ASSUME ResolveApproval PROVE TypeOK'
  <2>1. dels' \in Seq(Row) /\ Len(dels') = Len(dels) /\ Ids' = Ids
    BY <1>13, DecisionWrites
  <2> QED BY <1>13, <1>a, <2>1, TypeStep DEF ResolveApproval
<1>14. ASSUME Cancel PROVE TypeOK'
  <2>1. PICK D \in SUBSET Ids : CancelAgents(D)
    BY <1>14 DEF Cancel
  <2>2. \A d \in Ids : dels[d] \in Row /\ [dels[d] EXCEPT !.status = "cancelled"] \in Row
    BY <1>a, FieldsType DEF Ended
  <2>3. dels' \in [Ids -> Row]
    BY <2>1, <2>2 DEF CancelAgents
  <2>4. dels' \in Seq(Row) /\ Len(dels') = Len(dels) /\ Ids' = Ids
    BY <2>3, UpdatedRows
  <2>5. lease' \in [Tasks -> 0 .. Len(dels)]
    BY <2>1, <1>a DEF CancelAgents, Kept
  <2>6. faults' \in 0 .. MaxFaults /\ plan' \in {"cancelled", plan}
    BY <1>14, <1>a DEF Cancel
  <2> QED BY <1>14, <1>a, <2>4, <2>5, <2>6, TypeStep DEF Cancel
<1>15. ASSUME Crash PROVE TypeOK'
  BY <1>15, <1>a, <1>c, TypeStep DEF Crash
<1>16. CASE UNCHANGED vars
  BY <1>16, <1>a, <1>c, TypeStep DEF vars
<1>17. CASE Runtime
  BY <1>17, <1>2, <1>3, <1>4, <1>5, <1>6, <1>7 DEF Runtime
<1>18. ASSUME NEW t \in Tasks, Child(t) PROVE TypeOK'
  BY <1>18, <1>8, <1>9, <1>10, <1>11, <1>12 DEF Child
<1> QED BY <1>1, <1>13, <1>14, <1>15, <1>16, <1>17, <1>18 DEF Next

-----------------------------------------------------------------------------
(* Batches.                                                                  *)

LEMMA NobodyIsFew == Cardinality({}) <= MaxConcurrent
<1>1. MaxConcurrent \in Nat
  BY DelegationAssumption
<1> QED BY <1>1, FS_EmptySet

LEMMA StagedInit == Init => Staged
<1> SUFFICES ASSUME Init PROVE Staged
  OBVIOUS
<1>1. batch = {} /\ proc = Off /\ \A t \in Tasks : flight[t] = Idle
  BY DEF Init
<1>2. batch \cup InFlight = {}
  BY <1>1 DEF InFlight
<1>3. Cardinality(batch \cup InFlight) <= MaxConcurrent
  BY <1>2, NobodyIsFew
<1> QED BY <1>1, <1>3 DEF Staged, AllIdle, Off

(* Whoever is at work or about to be was so before. *)
LEMMA NobodyJoins ==
    ASSUME TypeOK, Staged, batch' \cup InFlight' \subseteq batch \cup InFlight
    PROVE  Cardinality(batch' \cup InFlight') <= MaxConcurrent
<1> DEFINE S == batch \cup InFlight
           T == batch' \cup InFlight'
<1>1. S \subseteq Tasks
  BY DEF TypeOK, InFlight
<1>2. Cardinality(S) <= MaxConcurrent /\ MaxConcurrent \in Nat
  BY DelegationAssumption DEF Staged
<1> HIDE DEF S, T
<1>3. IsFiniteSet(S) /\ Cardinality(S) \in Nat
  BY <1>1, TasksAreFinite, FS_Subset, FS_CardinalityType
<1>4. T \subseteq S
  BY DEF S, T
<1>5. Cardinality(T) <= Cardinality(S) /\ Cardinality(T) \in Nat
  BY <1>3, <1>4, FS_Subset, FS_CardinalityType
<1>6. Cardinality(T) <= MaxConcurrent
  BY <1>2, <1>3, <1>5
<1> QED BY <1>6 DEF T

(* Between batches: nobody is at work before the step and nobody is after it. *)
LEMMA Between ==
    ASSUME TypeOK, Staged, proc.at \notin {"launch", "await"}, proc'.at # "launch",
           UNCHANGED <<batch, flight>>
    PROVE  Staged'
<1>1. batch' = {} /\ AllIdle' /\ batch' \cup InFlight' \subseteq batch \cup InFlight
  BY DEF Staged, AllIdle, InFlight
<1> QED BY <1>1, NobodyJoins DEF Staged

(* While the batch runs: its members leave one by one. *)
LEMMA Within ==
    ASSUME TypeOK, Staged, proc.at = "await", proc' = proc, batch' = batch,
           \A t \in Tasks : flight[t] = Idle => flight'[t] = Idle
    PROVE  Staged'
<1>1. batch' = {} /\ batch' \cup InFlight' \subseteq batch \cup InFlight
  BY DEF Staged, InFlight
<1> QED BY <1>1, NobodyJoins DEF Staged

LEMMA StagedNext == ASSUME TypeOK, Staged, [Next]_vars PROVE Staged'
<1>1. ASSUME Start PROVE Staged'
  BY <1>1, Between DEF Start, At, Off
<1>2. ASSUME ConsumeResult PROVE Staged'
  BY <1>2, Between DEF ConsumeResult
<1>3. ASSUME AcknowledgeResult PROVE Staged'
  <2>1. proc.at = "ack" /\ proc' = At(proc.then) /\ proc.then \in {"recover", "collect"}
    BY <1>3 DEF AcknowledgeResult, TypeOK, Off
  <2> QED BY <1>3, <2>1, Between DEF AcknowledgeResult, At
<1>4. ASSUME RecoverInFlight PROVE Staged'
  BY <1>4, Between DEF RecoverInFlight, At
<1>5. ASSUME Decide PROVE Staged'
  <2>1. proc.at = "collect" /\ flight' = flight
    BY <1>5, DecideEffect
  <2>2. AllIdle' /\ InFlight' = {}
    BY <2>1 DEF Staged, AllIdle, InFlight
  <2>3. CASE proc' = Off /\ batch' = {}
    <3>1. Cardinality(batch' \cup InFlight') <= MaxConcurrent
      <4>1. batch' \cup InFlight' = {}
        BY <2>2, <2>3
      <4> QED BY <4>1, NobodyIsFew
    <3> QED BY <2>2, <2>3, <3>1 DEF Staged, Off
  <2>4. CASE /\ proc' = At("launch") /\ batch' # {}
             /\ \A t \in batch' : status'[t] = "ready"
             /\ Cardinality(batch') <= MaxConcurrent
    <3>1. Cardinality(batch' \cup InFlight') <= MaxConcurrent
      <4>1. batch' \cup InFlight' = batch'
        BY <2>2
      <4> QED BY <2>4, <4>1
    <3>2. \A t \in batch' : flight'[t] = Idle
      BY <1>5, <2>2, DecideEffect DEF AllIdle
    <3> QED BY <2>2, <2>4, <3>1, <3>2 DEF Staged, At
  <2> QED BY <1>5, <2>3, <2>4, DecideEffect
<1>6. ASSUME Launch PROVE Staged'
  <2>1. batch # {} /\ proc.at = "launch"
    BY <1>6 DEF Launch, Staged
  <2>2. PICK t \in batch, d \in Nat :
             /\ batch' = batch \ {t}
             /\ proc' = IF batch' = {} THEN At("await") ELSE proc
             /\ \/ /\ status' = [status EXCEPT ![t] = "running"]
                   /\ lease' = [lease EXCEPT ![t] = d]
                   /\ flight' = [flight EXCEPT ![t] = [at |-> "work", d |-> d]]
                \/ /\ status' = [status EXCEPT ![t] = "waiting"]
                   /\ UNCHANGED <<lease, flight>>
    BY <1>6, <2>1, LaunchEffect
  <2>3. \A u \in Tasks \ {t} : flight'[u] = flight[u] /\ status'[u] = status[u]
    BY <2>2, StatusTypes
  <2>4. \A u \in batch : u \in Tasks
    BY DEF TypeOK
  <2>5. batch' \cup InFlight' \subseteq batch \cup InFlight
    BY <2>2, <2>3, <2>4 DEF InFlight
  <2>6. \A u \in batch' : flight'[u] = Idle /\ status'[u] = "ready"
    BY <2>2, <2>3, <2>4 DEF Staged
  <2>7. proc'.at = IF batch' = {} THEN "await" ELSE "launch"
    BY <2>1, <2>2 DEF At
  <2> QED BY <2>5, <2>6, <2>7, NobodyJoins DEF Staged
<1>7. ASSUME Collect PROVE Staged'
  <2>1. batch' \cup InFlight' \subseteq batch \cup InFlight
    BY <1>7 DEF Collect, InFlight
  <2> QED BY <1>7, <2>1, NobodyJoins DEF Collect, Staged, AllIdle, At
<1>8. ASSUME NEW t \in Tasks, Child(t) PROVE Staged'
  <2>1. flight[t] # Idle /\ proc.at = "await" /\ proc' = proc /\ batch' = batch
    BY <1>8 DEF Child, ChildSucceeds, ChildFails, ChildAsks, HandleFailure, ReleaseTaskLease, Idle
  <2>2. \A u \in Tasks \ {t} : flight'[u] = flight[u]
    <3>1. \/ \E s : Stage(t, s)
          \/ flight' = [flight EXCEPT ![t] = Idle]
      BY <1>8 DEF Child, ChildSucceeds, ChildFails, ChildAsks, HandleFailure, ReleaseTaskLease
    <3> QED BY <3>1, StatusTypes DEF Stage
  <2> QED BY <2>1, <2>2, Within
<1>9. ASSUME ResolveApproval \/ Cancel \/ UNCHANGED vars PROVE Staged'
  <2>1. UNCHANGED <<proc, batch, flight, status>>
    BY <1>9 DEF ResolveApproval, Cancel, vars, running, durable
  <2> QED BY <2>1 DEF Staged, AllIdle, InFlight
<1>10. ASSUME Crash PROVE Staged'
  <2>1. proc' = Off /\ batch' = {} /\ \A t \in Tasks : flight'[t] = Idle
    BY <1>10 DEF Crash
  <2>2. batch' \cup InFlight' \subseteq batch \cup InFlight
    BY <2>1 DEF InFlight
  <2> QED BY <2>1, <2>2, NobodyJoins DEF Staged, AllIdle, Off
<1> QED BY <1>1, <1>2, <1>3, <1>4, <1>5, <1>6, <1>7, <1>8, <1>9, <1>10 DEF Next, Runtime

(* Every reachable state is well typed, for any plan and stages of death. *)
THEOREM TypeCorrect == Spec => []TypeOK
<1> QED BY TypeInit, TypeNext, StagedInit, StagedNext, PTL DEF Spec

-----------------------------------------------------------------------------
(* Children, delegations and leases.                                         *)

LEMMA AgreeInit == Init => AgreeInv
<1> SUFFICES ASSUME Init PROVE AgreeInv
  OBVIOUS
<1>1. Ids = {} /\ \A t \in Tasks : flight[t] = Idle /\ lease[t] = 0
  BY DEF Init, Ids
<1> QED BY <1>1 DEF AgreeInv, Owned, OneActiveDelegation, LeaseHeld, InFlight, Idle

LEMMA IdFacts ==
    ASSUME TypeOK
    PROVE  /\ \A t \in InFlight : flight[t].d \in Ids
           /\ \A t \in Tasks : lease[t] # 0 => lease[t] \in Ids
<1>1. \A x \in 0 .. Len(dels) : x # 0 => x \in Ids
  BY TypeFacts DEF Ids
<1> QED BY <1>1, StatusTypes DEF InFlight

(* With nobody at work, rows may end but not come back, and leases only go. *)
LEMMA AgreeBetween ==
    ASSUME TypeOK, AgreeInv, Ids' = Ids, AllIdle',
           \A d \in Ids : dels'[d].task = dels[d].task,
           \A d \in Ids : dels'[d].status \notin Ended => dels[d].status \notin Ended,
           \A d \in Ids : dels'[d].status = "cancelled" => dels[d].status = "cancelled",
           \A t \in Tasks : lease'[t] \in {0, lease[t]}
    PROVE  AgreeInv'
<1>1. ASSUME NEW e \in Ids, NEW f \in Ids, dels'[e].task = dels'[f].task,
             dels'[e].status \notin Ended, dels'[f].status \notin Ended
      PROVE  e = f
  <2>1. dels[e].task = dels[f].task /\ dels[e].status \notin Ended /\ dels[f].status \notin Ended
    BY <1>1
  <2> QED BY <2>1 DEF AgreeInv, OneActiveDelegation
<1>2. \A t \in Tasks : flight'[t] = Idle
  BY DEF AllIdle
<1>3. InFlight' = {}
  BY <1>2 DEF InFlight
<1>4. ASSUME NEW t \in Tasks, lease'[t] # 0
      PROVE  dels'[lease'[t]].task = t /\ dels'[lease'[t]].status # "cancelled"
  <2>1. lease'[t] = lease[t]
    BY <1>4
  <2>2. lease[t] \in Ids /\ dels[lease[t]].task = t /\ dels[lease[t]].status # "cancelled"
    BY <1>4, <2>1, IdFacts DEF AgreeInv, Owned, LeaseHeld
  <2> QED BY <2>1, <2>2
<1>5. OneActiveDelegation'
  BY <1>1 DEF OneActiveDelegation
<1>6. Owned'
  BY <1>3, <1>4 DEF Owned
<1>7. LeaseHeld'
  BY <1>2, <1>4 DEF LeaseHeld, Idle
<1> QED BY <1>5, <1>6, <1>7 DEF AgreeInv

(* A child writes its own delegation, whatever became of it, and leaves. *)
LEMMA AgreeWithin ==
    ASSUME TypeOK, AgreeInv, NEW t \in InFlight, Ids' = Ids,
           \A e \in Ids \ {flight[t].d} : dels'[e] = dels[e],
           dels'[flight[t].d].task = dels[flight[t].d].task,
           dels'[flight[t].d] = dels[flight[t].d] \/ dels'[flight[t].d].status # "cancelled",
           flight'[t] = Idle \/ (flight'[t].d = flight[t].d /\ flight'[t].at # "work"),
           \A u \in Tasks \ {t} : flight'[u] = flight[u] /\ lease'[u] = lease[u],
           lease'[t] \in {0, lease[t]}
    PROVE  AgreeInv'
<1> DEFINE d == flight[t].d
<1>1. /\ d \in Ids /\ dels[d].task = t
      /\ \A e \in Ids \ {d} : dels[e].task = t => dels[e].status \in Ended
  BY IdFacts DEF AgreeInv, Owned
<1>2. \A u \in InFlight \ {t} : flight[u].d \in Ids /\ flight[u].d # d /\ dels[flight[u].d].task = u
  BY <1>1, IdFacts DEF AgreeInv, Owned
<1>3. OneActiveDelegation'
  <2> SUFFICES ASSUME NEW e \in Ids, NEW f \in Ids, dels'[e].task = dels'[f].task,
                      dels'[e].status \notin Ended, dels'[f].status \notin Ended
               PROVE  e = f
    BY DEF OneActiveDelegation
  <2>1. CASE e # d /\ f # d
    BY <2>1 DEF AgreeInv, OneActiveDelegation
  <2>2. CASE e = d /\ f # d
    BY <1>1, <2>2
  <2>3. CASE e # d /\ f = d
    BY <1>1, <2>3
  <2> QED BY <2>1, <2>2, <2>3
<1>4. ASSUME NEW u \in InFlight'
      PROVE  /\ dels'[flight'[u].d].task = u
             /\ \A e \in Ids \ {flight'[u].d} : dels'[e].task = u => dels'[e].status \in Ended
  <2>1. CASE u = t
    <3>1. flight'[u].d = d
      BY <2>1 DEF InFlight
    <3> QED BY <1>1, <2>1, <3>1
  <2>2. CASE u # t
    <3>1. flight'[u] = flight[u] /\ u \in InFlight
      BY <2>2 DEF InFlight
    <3>2. dels[flight[u].d].task = u /\ flight[u].d # d /\ flight[u].d \in Ids
      BY <1>2, <2>2, <3>1
    <3>3. \A e \in Ids \ {flight[u].d} : dels[e].task = u => dels[e].status \in Ended
      BY <3>1 DEF AgreeInv, Owned
    <3> QED BY <1>1, <2>2, <3>1, <3>2, <3>3
  <2> QED BY <2>1, <2>2
<1>5. ASSUME NEW u \in Tasks, lease'[u] # 0
      PROVE  lease'[u] \in Ids /\ dels'[lease'[u]].task = u /\ dels'[lease'[u]].status # "cancelled"
  <2>1. lease'[u] = lease[u]
    BY <1>5
  <2>2. lease[u] \in Ids /\ dels[lease[u]].task = u /\ dels[lease[u]].status # "cancelled"
    BY <1>5, <2>1, IdFacts DEF AgreeInv, Owned, LeaseHeld
  <2> QED BY <2>1, <2>2
<1>6. ASSUME NEW u \in Tasks, flight'[u].at = "work"
      PROVE  lease'[u] = flight'[u].d \/ dels'[flight'[u].d].status = "cancelled"
  <2>1. u # t /\ flight'[u] = flight[u] /\ lease'[u] = lease[u]
    BY <1>6 DEF Idle
  <2>2. u \in InFlight
    BY <1>6, <2>1 DEF InFlight, Idle
  <2>3. lease[u] = flight[u].d \/ dels[flight[u].d].status = "cancelled"
    BY <1>6, <2>1 DEF AgreeInv, LeaseHeld
  <2> QED BY <1>2, <2>1, <2>2, <2>3
<1> HIDE DEF d
<1> QED BY <1>3, <1>4, <1>5, <1>6 DEF AgreeInv, Owned, LeaseHeld

(* A task is started with the one delegation it has, or a new one if it has none. *)
LEMMA AgreeLaunch ==
    ASSUME TypeOK, Staged, AgreeInv, Launch PROVE AgreeInv'
<1>1. batch # {}
  BY DEF Launch, Staged
<1>2. PICK t \in batch, d \in Nat :
             /\ d \in IF Active(t) = {} THEN {Len(dels) + 1} ELSE Active(t)
             /\ Ids' = Ids \cup {d}
             /\ \A e \in Ids \ {d} : dels'[e] = dels[e]
             /\ dels'[d].task = t /\ dels'[d].status \notin Ended
             /\ \/ /\ status' = [status EXCEPT ![t] = "running"]
                   /\ lease' = [lease EXCEPT ![t] = d]
                   /\ flight' = [flight EXCEPT ![t] = [at |-> "work", d |-> d]]
                \/ /\ status' = [status EXCEPT ![t] = "waiting"]
                   /\ UNCHANGED <<lease, flight>>
  BY <1>1, LaunchEffect
<1>3. t \in Tasks /\ flight[t] = Idle
  BY DEF TypeOK, Staged
<1>4. \A u \in Tasks \ {t} : flight'[u] = flight[u] /\ lease'[u] = lease[u]
  BY <1>2, StatusTypes
<1>5. \/ flight'[t] = [at |-> "work", d |-> d] /\ lease'[t] = d
      \/ flight'[t] = Idle /\ lease'[t] = lease[t]
  BY <1>2, <1>3, StatusTypes
<1>6. \A e \in Ids \ {d} : dels[e].task = t => dels[e].status \in Ended
  <2>1. CASE Active(t) = {}
    BY <2>1 DEF Active
  <2>2. CASE Active(t) # {}
    BY <1>2, <2>2 DEF Active, AgreeInv, OneActiveDelegation
  <2> QED BY <2>1, <2>2
<1>7. d \in Ids => dels[d].task = t
  <2>1. CASE Active(t) = {}
    BY <1>2, <2>1, TypeFacts DEF Ids
  <2>2. CASE Active(t) # {}
    BY <1>2, <2>2 DEF Active
  <2> QED BY <2>1, <2>2
<1>8. OneActiveDelegation'
  <2> SUFFICES ASSUME NEW e \in Ids', NEW f \in Ids', dels'[e].task = dels'[f].task,
                      dels'[e].status \notin Ended, dels'[f].status \notin Ended
               PROVE  e = f
    BY DEF OneActiveDelegation
  <2>1. CASE e # d /\ f # d
    BY <1>2, <2>1 DEF AgreeInv, OneActiveDelegation
  <2>2. CASE e = d /\ f # d
    BY <1>2, <1>6, <2>2
  <2>3. CASE e # d /\ f = d
    BY <1>2, <1>6, <2>3
  <2> QED BY <2>1, <2>2, <2>3
<1>9. \A u \in InFlight \ {t} : flight[u].d \in Ids /\ flight[u].d # d /\ dels[flight[u].d].task = u
  BY <1>7, IdFacts DEF AgreeInv, Owned
<1>10. ASSUME NEW u \in InFlight'
       PROVE  /\ dels'[flight'[u].d].task = u
              /\ \A e \in Ids' \ {flight'[u].d} : dels'[e].task = u => dels'[e].status \in Ended
  <2>1. CASE u = t
    <3>1. flight'[u].d = d
      BY <1>5, <2>1 DEF InFlight
    <3> QED BY <1>2, <1>6, <2>1, <3>1
  <2>2. CASE u # t
    <3>1. flight'[u] = flight[u] /\ u \in InFlight
      BY <1>4, <2>2 DEF InFlight
    <3>2. dels[flight[u].d].task = u /\ flight[u].d # d /\ flight[u].d \in Ids
      BY <1>9, <2>2, <3>1
    <3>3. \A e \in Ids \ {flight[u].d} : dels[e].task = u => dels[e].status \in Ended
      BY <3>1 DEF AgreeInv, Owned
    <3> QED BY <1>2, <2>2, <3>1, <3>2, <3>3
  <2> QED BY <2>1, <2>2
<1>11. ASSUME NEW u \in Tasks, lease'[u] # 0
       PROVE  dels'[lease'[u]].task = u /\ dels'[lease'[u]].status # "cancelled"
  <2>1. CASE lease'[u] = d /\ u = t
    BY <1>2, <2>1 DEF Ended
  <2>2. CASE lease'[u] = lease[u]
    <3>1. lease[u] \in Ids /\ dels[lease[u]].task = u /\ dels[lease[u]].status # "cancelled"
      BY <1>11, <2>2, IdFacts DEF AgreeInv, Owned, LeaseHeld
    <3>2. CASE lease[u] = d
      BY <1>2, <1>7, <2>2, <3>1, <3>2 DEF Ended
    <3>3. CASE lease[u] # d
      BY <1>2, <2>2, <3>1, <3>3
    <3> QED BY <3>2, <3>3
  <2> QED BY <1>4, <1>5, <2>1, <2>2
<1>12. ASSUME NEW u \in Tasks, flight'[u].at = "work"
       PROVE  lease'[u] = flight'[u].d \/ dels'[flight'[u].d].status = "cancelled"
  <2>1. CASE u = t
    BY <1>5, <1>12, <2>1 DEF Idle
  <2>2. CASE u # t
    <3>1. flight'[u] = flight[u] /\ lease'[u] = lease[u] /\ u \in InFlight
      BY <1>4, <1>12, <2>2 DEF InFlight, Idle
    <3>2. lease[u] = flight[u].d \/ dels[flight[u].d].status = "cancelled"
      BY <1>12, <3>1 DEF AgreeInv, LeaseHeld
    <3> QED BY <1>2, <1>9, <2>2, <3>1, <3>2
  <2> QED BY <2>1, <2>2
<1> QED BY <1>8, <1>10, <1>11, <1>12 DEF AgreeInv, Owned, LeaseHeld

(* An agent's cancellation ends rows and takes their leases away. *)
LEMMA AgreeCancel ==
    ASSUME TypeOK, AgreeInv, NEW D \in SUBSET Ids, \A d \in D : dels[d].status \notin Ended,
           CancelAgents(D), flight' = flight
    PROVE  AgreeInv'
<1>1. /\ dels' = [d \in Ids |-> IF d \in D THEN [dels[d] EXCEPT !.status = "cancelled"] ELSE dels[d]]
      /\ \A t \in Tasks : lease'[t] = Kept(t, D)
  BY DEF CancelAgents
<1>2. dels \in [Ids -> Row]
  BY TypeFacts
<1>3. Ids' = Ids
  <2>1. \A d \in Ids : dels[d] \in Row /\ [dels[d] EXCEPT !.status = "cancelled"] \in Row
    BY <1>2, FieldsType DEF Ended
  <2>2. dels' \in [Ids -> Row]
    BY <1>1, <2>1
  <2> QED BY <2>2, UpdatedRows
<1>4. \A d \in Ids : /\ dels'[d].task = dels[d].task
                     /\ dels'[d].status = IF d \in D THEN "cancelled" ELSE dels[d].status
  BY <1>1, <1>2 DEF Row
<1>5. \A d \in Ids : dels'[d].status \notin Ended => dels[d].status \notin Ended
  BY <1>4 DEF Ended
<1>6. ASSUME NEW e \in Ids, NEW f \in Ids, dels'[e].task = dels'[f].task,
             dels'[e].status \notin Ended, dels'[f].status \notin Ended
      PROVE  e = f
  <2>1. dels[e].task = dels[f].task /\ dels[e].status \notin Ended /\ dels[f].status \notin Ended
    BY <1>4, <1>5, <1>6
  <2> QED BY <2>1 DEF AgreeInv, OneActiveDelegation
<1>7. ASSUME NEW t \in InFlight
      PROVE  /\ dels'[flight[t].d].task = t
             /\ \A e \in Ids \ {flight[t].d} : dels'[e].task = t => dels'[e].status \in Ended
  <2>1. /\ flight[t].d \in Ids /\ dels[flight[t].d].task = t
        /\ \A e \in Ids \ {flight[t].d} : dels[e].task = t => dels[e].status \in Ended
    BY IdFacts DEF AgreeInv, Owned
  <2> QED BY <1>4, <1>5, <2>1
<1>8. ASSUME NEW t \in Tasks, lease'[t] # 0
      PROVE  dels'[lease'[t]].task = t /\ dels'[lease'[t]].status # "cancelled"
  <2>1. lease'[t] = lease[t] /\ \A d \in D : dels[d].task # t
    BY <1>1, <1>8 DEF Kept
  <2>2. lease[t] \in Ids /\ dels[lease[t]].task = t /\ dels[lease[t]].status # "cancelled"
    BY <1>8, <2>1, IdFacts DEF AgreeInv, Owned, LeaseHeld
  <2> QED BY <1>4, <2>1, <2>2
<1>9. ASSUME NEW t \in Tasks, flight[t].at = "work"
      PROVE  lease'[t] = flight[t].d \/ dels'[flight[t].d].status = "cancelled"
  <2>1. t \in InFlight
    BY <1>9 DEF InFlight, Idle
  <2>2. /\ flight[t].d \in Ids /\ dels[flight[t].d].task = t
        /\ \A e \in Ids \ {flight[t].d} : dels[e].task = t => dels[e].status \in Ended
    BY <2>1, IdFacts DEF AgreeInv, Owned
  <2>3. lease[t] = flight[t].d \/ dels[flight[t].d].status = "cancelled"
    BY <1>9 DEF AgreeInv, LeaseHeld
  <2>4. CASE flight[t].d \in D \/ dels[flight[t].d].status = "cancelled"
    BY <1>4, <2>2, <2>4
  <2>5. CASE flight[t].d \notin D
    <3>1. \A d \in D : dels[d].task # t
      BY <2>2, <2>5
    <3> QED BY <1>1, <1>4, <2>2, <2>3, <2>5, <3>1 DEF Kept
  <2> QED BY <2>4, <2>5
<1>10. OneActiveDelegation'
  BY <1>3, <1>6 DEF OneActiveDelegation
<1>11. Owned'
  BY <1>3, <1>7, <1>8 DEF Owned, InFlight
<1>12. LeaseHeld'
  BY <1>8, <1>9 DEF LeaseHeld
<1> QED BY <1>10, <1>11, <1>12 DEF AgreeInv

(* The tasks and states of the rows, the children and the leases as they are. *)
LEMMA AgreeSame ==
    ASSUME TypeOK, AgreeInv, Ids' = Ids, UNCHANGED <<flight, lease>>,
           \A d \in Ids : dels'[d].task = dels[d].task /\ dels'[d].status = dels[d].status
    PROVE  AgreeInv'
<1>1. OneActiveDelegation'
  BY DEF AgreeInv, OneActiveDelegation
<1>2. Owned'
  BY IdFacts DEF AgreeInv, Owned, InFlight
<1>3. LeaseHeld'
  <2>1. \A t \in Tasks : flight[t].at = "work" => t \in InFlight
    BY DEF InFlight, Idle
  <2> QED BY <2>1, IdFacts DEF AgreeInv, LeaseHeld
<1> QED BY <1>1, <1>2, <1>3 DEF AgreeInv

LEMMA AgreeNext == ASSUME TypeOK, Staged, AgreeInv, [Next]_vars PROVE AgreeInv'
<1> USE DEF durable, running, history
<1>a. dels \in [Ids -> Row] /\ dels' = dels => Ids' = Ids
  BY SameRows
<1>b. dels \in [Ids -> Row]
  BY TypeFacts
<1>1. ASSUME Start PROVE AgreeInv'
  <2>1. UNCHANGED <<flight, lease>> /\ AllIdle'
    BY <1>1 DEF Start, Staged, AllIdle, Off
  <2>2. CASE ApplyDecisions
    <3>1. Ids' = Ids
      BY <2>2, DecisionsType, UpdatedRows
    <3>2. \A d \in Ids : \/ dels'[d] = dels[d]
                         \/ /\ dels[d].status \notin Ended
                            /\ \/ dels'[d] = [dels[d] EXCEPT !.status = "assigned"]
                               \/ dels'[d] = [dels[d] EXCEPT !.status = "failed"]
      BY <2>2 DEF ApplyDecisions, Active
    <3>3. \A d \in Ids : dels'[d].task = dels[d].task
      BY <1>b, <3>2 DEF Row
    <3>4. \A d \in Ids : dels'[d].status \notin Ended => dels[d].status \notin Ended
      BY <3>2
    <3>5. \A d \in Ids : dels'[d].status = "cancelled" => dels[d].status = "cancelled"
      BY <1>b, <3>2 DEF Row
    <3> QED BY <2>1, <3>1, <3>3, <3>4, <3>5, AgreeBetween
  <2>3. CASE UNCHANGED <<status, dels>>
    BY <2>1, <2>3, SameRows, AgreeBetween
  <2> QED BY <1>1, <2>2, <2>3 DEF Start
<1>2. ASSUME ConsumeResult PROVE AgreeInv'
  <2>1. dels' = dels /\ AllIdle' /\ \E t : lease' = [lease EXCEPT ![t] = 0]
    BY <1>2 DEF ConsumeResult, Staged, AllIdle
  <2>2. \A t \in Tasks : lease'[t] \in {0, lease[t]}
    BY <2>1, StatusTypes
  <2> QED BY <2>1, <2>2, SameRows, AgreeBetween
<1>3. ASSUME AcknowledgeResult PROVE AgreeInv'
  <2>1. proc.d \in Ids /\ dels' = [dels EXCEPT ![proc.d].acked = TRUE] /\ UNCHANGED <<flight, lease>>
    BY <1>3 DEF AcknowledgeResult, TypeOK, Off
  <2>2. [dels[proc.d] EXCEPT !.acked = TRUE] \in Row /\ dels' = [dels EXCEPT ![proc.d] = [dels[proc.d] EXCEPT !.acked = TRUE]]
    BY <1>b, <2>1, FieldsType
  <2>3. Ids' = Ids
    BY <2>1, <2>2, OneRowType
  <2>4. \A d \in Ids : dels'[d].task = dels[d].task /\ dels'[d].status = dels[d].status
    BY <1>b, <2>1 DEF Row
  <2> QED BY <2>1, <2>3, <2>4, AgreeSame
<1>4. ASSUME RecoverInFlight PROVE AgreeInv'
  <2>1. AllIdle'
    BY <1>4 DEF RecoverInFlight, Staged, AllIdle
  <2>2. /\ dels' = [d \in Ids |-> IF Unfinished(dels[d].task) /\ d = Latest(Active(dels[d].task))
                                  THEN [dels[d] EXCEPT !.status = "assigned"] ELSE dels[d]]
        /\ lease' = [t \in Tasks |-> IF Unfinished(t) THEN 0 ELSE lease[t]]
    BY <1>4 DEF RecoverInFlight
  <2>3. \A t \in Tasks : lease'[t] \in {0, lease[t]}
    BY <2>2
  <2>4. \A d \in Ids : dels[d] \in Row /\ [dels[d] EXCEPT !.status = "assigned"] \in Row
    BY <1>b, FieldsType
  <2>5. dels' \in [Ids -> Row]
    BY <2>2, <2>4
  <2>6. Ids' = Ids
    BY <2>5, UpdatedRows
  <2>7. ASSUME NEW d \in Ids
        PROVE  \/ dels'[d] = dels[d]
               \/ dels[d].status \notin Ended /\ dels'[d] = [dels[d] EXCEPT !.status = "assigned"]
    <3>1. CASE Unfinished(dels[d].task) /\ d = Latest(Active(dels[d].task))
      <4>1. d \in Active(dels[d].task)
        BY <3>1, ActiveIsIn DEF Unfinished
      <4> QED BY <2>2, <3>1, <4>1 DEF Active
    <3>2. CASE ~(Unfinished(dels[d].task) /\ d = Latest(Active(dels[d].task)))
      BY <2>2, <3>2
    <3> QED BY <3>1, <3>2
  <2>8. \A d \in Ids : dels'[d].task = dels[d].task
    BY <1>b, <2>7 DEF Row
  <2>9. \A d \in Ids : dels'[d].status \notin Ended => dels[d].status \notin Ended
    BY <2>7
  <2>10. \A d \in Ids : dels'[d].status = "cancelled" => dels[d].status = "cancelled"
    BY <1>b, <2>7 DEF Row
  <2> QED BY <2>1, <2>3, <2>6, <2>8, <2>9, <2>10, AgreeBetween
<1>5. ASSUME Decide PROVE AgreeInv'
  BY <1>5, DecideEffect, SameRows, AgreeSame
<1>6. ASSUME Launch PROVE AgreeInv'
  BY <1>6, AgreeLaunch
<1>7. ASSUME Collect \/ UNCHANGED vars PROVE AgreeInv'
  <2>1. UNCHANGED <<dels, flight, lease>>
    BY <1>7 DEF Collect, vars
  <2> QED BY <2>1, SameRows, AgreeSame
<1>8. ASSUME NEW t \in Tasks, Child(t) PROVE AgreeInv'
  <2>1. t \in InFlight /\ flight[t].d \in Ids
    <3>1. flight[t] # Idle
      BY <1>8 DEF Child, ChildSucceeds, ChildFails, ChildAsks, HandleFailure, ReleaseTaskLease, Idle
    <3> QED BY <3>1, StatusTypes DEF InFlight
  <2>2. PICK d \in Ids : d = flight[t].d
    BY <2>1
  <2>3. /\ Ids' = Ids
        /\ \A e \in Ids \ {d} : dels'[e] = dels[e]
        /\ dels'[d].task = dels[d].task
        /\ dels'[d] = dels[d] \/ dels'[d].status # "cancelled"
    BY <1>8, <2>2, ChildWrites
  <2>4. \/ flight' = [flight EXCEPT ![t] = Idle]
        \/ \E s \in Stages \ {"work"} : flight' = [flight EXCEPT ![t].at = s]
    BY <1>8 DEF Child, ChildSucceeds, ChildFails, ChildAsks, HandleFailure, ReleaseTaskLease, Stage, Stages
  <2>5. lease' = lease \/ lease' = [lease EXCEPT ![t] = 0]
    BY <1>8 DEF Child, ChildSucceeds, ChildFails, ChildAsks, HandleFailure, ReleaseTaskLease
  <2>8. flight'[t] = Idle \/ (flight'[t].d = d /\ flight'[t].at # "work")
    <3>1. flight[t] \in [at : Stages, d : Ids]
      BY <2>1, StatusTypes DEF InFlight
    <3> QED BY <2>2, <2>4, <3>1, StatusTypes
  <2>9. \A u \in Tasks \ {t} : flight'[u] = flight[u] /\ lease'[u] = lease[u]
    BY <2>4, <2>5, StatusTypes
  <2>10. lease'[t] \in {0, lease[t]}
    BY <2>5, StatusTypes
  <2> QED BY <2>1, <2>2, <2>3, <2>8, <2>9, <2>10, AgreeWithin
<1>9. ASSUME ResolveApproval PROVE AgreeInv'
  <2>1. UNCHANGED <<flight, lease>>
    BY <1>9 DEF ResolveApproval
  <2>2. Ids' = Ids /\ \A e \in Ids : dels'[e].task = dels[e].task /\ dels'[e].status = dels[e].status
    BY <1>9, DecisionWrites
  <2> QED BY <2>1, <2>2, AgreeSame
<1>10. ASSUME Cancel PROVE AgreeInv'
  <2> DEFINE live == {d \in Ids : dels[d].status \notin Ended}
  <2>1. PICK D \in SUBSET Ids : CancelAgents(D) /\ (\A d \in D : dels[d].status \notin Ended)
    <3>1. CancelAgents(live) \/ \E d \in live : CancelAgents({d})
      BY <1>10 DEF Cancel
    <3>2. CASE CancelAgents(live)
      BY <3>2
    <3>3. ASSUME NEW d \in live, CancelAgents({d})
          PROVE  \E D \in SUBSET Ids : CancelAgents(D) /\ (\A e \in D : dels[e].status \notin Ended)
      BY <3>3
    <3> QED BY <3>1, <3>2, <3>3
  <2> QED BY <1>10, <2>1, AgreeCancel DEF Cancel
<1>11. ASSUME Crash PROVE AgreeInv'
  <2>1. UNCHANGED <<dels, lease>> /\ AllIdle'
    BY <1>11 DEF Crash, AllIdle
  <2> QED BY <2>1, SameRows, AgreeBetween
<1> QED BY <1>1, <1>2, <1>3, <1>4, <1>5, <1>6, <1>7, <1>8, <1>9, <1>10, <1>11 DEF Next, Runtime

(* The children at work are those the tables say are at work: a task has at most
   one unended delegation over crashes, resumptions, approvals and cancellations,
   its child holds its lease unless it was cancelled, and no more than
   maxConcurrent children are at work.                                     *)
THEOREM ChildrenAlwaysAgree == Spec => []ChildrenAgree
<1>1. TypeOK /\ Staged /\ AgreeInv => ChildrenAgree
  <2> SUFFICES ASSUME TypeOK, Staged, AgreeInv PROVE ChildrenAgree
    OBVIOUS
  <2>1. Cardinality(InFlight) <= MaxConcurrent
    <3>1. InFlight \subseteq batch \cup InFlight /\ batch \cup InFlight \subseteq Tasks
      BY DEF TypeOK, InFlight
    <3>2. IsFiniteSet(batch \cup InFlight) /\ Cardinality(batch \cup InFlight) \in Nat
      BY <3>1, TasksAreFinite, FS_Subset, FS_CardinalityType
    <3>3. Cardinality(InFlight) <= Cardinality(batch \cup InFlight) /\ Cardinality(InFlight) \in Nat
      BY <3>1, <3>2, FS_Subset, FS_CardinalityType
    <3>4. Cardinality(batch \cup InFlight) <= MaxConcurrent
      BY DEF Staged
    <3> QED BY <3>2, <3>3, <3>4, DelegationAssumption
  <2> QED BY <2>1 DEF AgreeInv, LeaseHeld, ChildrenAgree, LeasedWork, InFlight
<1> QED BY <1>1, TypeInit, TypeNext, StagedInit, StagedNext, AgreeInit, AgreeNext, PTL DEF Spec

-----------------------------------------------------------------------------
(* What is finished stays so.  The task of a child at work is never completed: its
   result is read between batches only.                                    *)
WorkIsOpen == \A t \in InFlight : status[t] # "completed"

StaysDone == \A t \in Tasks : status[t] = "completed" => status'[t] = "completed"

LEMMA OpenBetween ==
    ASSUME AllIdle' PROVE WorkIsOpen'
BY DEF WorkIsOpen, InFlight, AllIdle

(* A rejection reopens no task before the one to be repaired, and leaves the tasks
   in flight unfinished.                                                   *)
LEMMA RejectionReopens ==
    ASSUME TypeOK, WorkIsOpen, NEW t \in Tasks, HandleFailure(t)
    PROVE  /\ \A u \in Tasks : status[u] = "completed" /\ status'[u] # "completed" => RejectedFor(u)
           /\ \A u \in InFlight : status'[u] # "completed"
<1> DEFINE r == IF t \in Verifying THEN Repair[t] ELSE 0
<1>1. t \in InFlight /\ status[t] # "completed"
  BY DEF HandleFailure, WorkIsOpen, InFlight, Idle
<1>2. /\ \/ /\ flight[t].at = "retryable" /\ r # 0 /\ status' = Reopened(r)
            /\ retries' = [retries EXCEPT ![r] = @ + 1]
         \/ status' = [status EXCEPT ![t] = "ready"]
         \/ status' = [status EXCEPT ![t] = FailedStatus(flight[t].at)]
  BY DEF HandleFailure
<1>3. CASE /\ flight[t].at = "retryable" /\ r # 0 /\ status' = Reopened(r)
           /\ retries' = [retries EXCEPT ![r] = @ + 1]
  <2>1. t \in Verifying /\ r = Repair[t] /\ r \in 1 .. NTasks
    BY <1>3, RepairIsATask, TasksAreFinite
  <2>2. \A u \in Tasks : status'[u] = IF u = r THEN "ready" ELSE IF u > r THEN "pending" ELSE status[u]
    BY <1>3 DEF Reopened
  <2>3. retries'[Repair[t]] = retries[Repair[t]] + 1
    BY <1>3, <2>1, StatusTypes DEF Tasks
  <2>4. ASSUME NEW u \in Tasks, status'[u] # status[u] PROVE RejectedFor(u)
    <3>1. u \in Nat /\ u >= r
      BY <2>1, <2>2, <2>4, TasksAreFinite
    <3>2. Repair[t] \in 1 .. u
      BY <2>1, <3>1
    <3> HIDE DEF r
    <3> QED BY <1>3, <2>1, <2>3, <3>2 DEF RejectedFor
  <2>5. \A u \in Tasks : status'[u] # "completed" \/ status'[u] = status[u]
    BY <2>2
  <2> HIDE DEF r
  <2> QED BY <2>4, <2>5 DEF WorkIsOpen, InFlight
<1>4. CASE \E s \in {"ready", "blocked", "failed"} : status' = [status EXCEPT ![t] = s]
  <2>1. \A u \in Tasks : status'[u] = status[u] \/ (u = t /\ status'[u] # "completed")
    BY <1>4, StatusTypes
  <2> QED BY <1>1, <2>1 DEF WorkIsOpen, InFlight
<1> QED BY <1>2, <1>3, <1>4 DEF FailedStatus

LEMMA DoneNext ==
    ASSUME TypeOK, Staged, WorkIsOpen, [Next]_vars
    PROVE  /\ WorkIsOpen'
           /\ \A t \in Tasks : status[t] = "completed" /\ status'[t] # "completed" => RejectedFor(t)
<1> USE DEF durable, running, history
<1>1. ASSUME Start PROVE StaysDone /\ AllIdle'
  <2>1. AllIdle'
    BY <1>1 DEF Start, Staged, AllIdle, Off
  <2>2. ASSUME ApplyDecisions PROVE StaysDone
    <3>1. \A t \in Tasks : status[t] = "completed" => Answer(t) = "none"
      BY DEF Answer, Decided
    <3>2. \A t \in Tasks : Answer(t) = "none" => status'[t] = status[t]
      BY <2>2 DEF ApplyDecisions
    <3> QED BY <3>1, <3>2 DEF StaysDone
  <2>3. ASSUME status' = status PROVE StaysDone
    BY <2>3 DEF StaysDone
  <2> QED BY <1>1, <2>1, <2>2, <2>3 DEF Start
<1>2. ASSUME ConsumeResult PROVE StaysDone /\ AllIdle'
  <2>1. AllIdle' /\ \E t : status' = [status EXCEPT ![t] = "completed"]
    BY <1>2 DEF ConsumeResult, Staged, AllIdle
  <2> QED BY <2>1, StatusTypes DEF StaysDone
<1>3. ASSUME AcknowledgeResult PROVE StaysDone /\ AllIdle'
  BY <1>3 DEF AcknowledgeResult, Staged, AllIdle, StaysDone
<1>4. ASSUME RecoverInFlight PROVE StaysDone /\ AllIdle'
  <2>1. AllIdle' /\ status' = [t \in Tasks |-> IF Unfinished(t) THEN "ready" ELSE status[t]]
    BY <1>4 DEF RecoverInFlight, Staged, AllIdle
  <2>2. \A t \in Tasks : status[t] = "completed" => ~Unfinished(t)
    BY DEF Unfinished
  <2> QED BY <2>1, <2>2 DEF StaysDone
<1>5. ASSUME Decide PROVE StaysDone /\ AllIdle'
  <2>1. /\ AllIdle'
        /\ status' = status \/ status' = [t \in Tasks |-> Runnable(t)]
    BY <1>5, DecideEffect DEF Staged, AllIdle
  <2> QED BY <2>1 DEF Runnable, StaysDone
<1>6. ASSUME Launch PROVE StaysDone /\ WorkIsOpen'
  <2>1. batch # {}
    BY <1>6 DEF Launch, Staged
  <2>2. PICK t \in batch, d \in Nat :
             \/ /\ status' = [status EXCEPT ![t] = "running"]
                /\ lease' = [lease EXCEPT ![t] = d]
                /\ flight' = [flight EXCEPT ![t] = [at |-> "work", d |-> d]]
             \/ /\ status' = [status EXCEPT ![t] = "waiting"]
                /\ UNCHANGED <<lease, flight>>
    BY <1>6, <2>1, LaunchEffect
  <2>3. t \in Tasks /\ status[t] = "ready"
    BY DEF TypeOK, Staged
  <2>4. \A u \in Tasks \ {t} : flight'[u] = flight[u] /\ status'[u] = status[u]
    BY <2>2, StatusTypes
  <2>5. status'[t] # "completed"
    BY <2>2, <2>3, StatusTypes
  <2> QED BY <2>3, <2>4, <2>5 DEF StaysDone, WorkIsOpen, InFlight
<1>7. ASSUME Collect PROVE StaysDone /\ AllIdle'
  BY <1>7 DEF Collect, AllIdle, StaysDone
<1>8. ASSUME NEW t \in Tasks, Child(t)
      PROVE  /\ WorkIsOpen'
             /\ \A u \in Tasks : status[u] = "completed" /\ status'[u] # "completed" => RejectedFor(u)
  <2>1. t \in InFlight /\ status[t] # "completed"
    BY <1>8 DEF Child, ChildSucceeds, ChildFails, ChildAsks, HandleFailure, ReleaseTaskLease,
                InFlight, Idle, WorkIsOpen
  <2>2. InFlight' \subseteq InFlight
    <3>1. \/ \E s : Stage(t, s)
          \/ flight' = [flight EXCEPT ![t] = Idle]
      BY <1>8 DEF Child, ChildSucceeds, ChildFails, ChildAsks, HandleFailure, ReleaseTaskLease
    <3>2. \A u \in Tasks \ {t} : flight'[u] = flight[u]
      BY <3>1, StatusTypes DEF Stage
    <3> QED BY <2>1, <3>2 DEF InFlight
  <2>3. CASE HandleFailure(t)
    BY <2>2, <2>3, RejectionReopens DEF WorkIsOpen
  <2>4. CASE status' = [status EXCEPT ![t] = "needs_approval"] \/ status' = status
    <3>1. \A u \in Tasks : status'[u] = status[u] \/ (u = t /\ status'[u] # "completed")
      BY <2>4, StatusTypes
    <3> QED BY <2>1, <2>2, <3>1 DEF WorkIsOpen, InFlight
  <2> QED BY <1>8, <2>3, <2>4 DEF Child, ChildSucceeds, ChildFails, ChildAsks, ReleaseTaskLease
<1>9. ASSUME ResolveApproval \/ Cancel \/ UNCHANGED vars PROVE StaysDone /\ WorkIsOpen'
  <2>1. UNCHANGED <<flight, status>>
    BY <1>9 DEF ResolveApproval, Cancel, vars
  <2> QED BY <2>1 DEF StaysDone, WorkIsOpen, InFlight
<1>10. ASSUME Crash PROVE StaysDone /\ AllIdle'
  BY <1>10 DEF Crash, AllIdle, StaysDone
<1> QED BY <1>1, <1>2, <1>3, <1>4, <1>5, <1>6, <1>7, <1>8, <1>9, <1>10, OpenBetween
        DEF Next, Runtime, StaysDone

(* Finished work is reopened by the rejection of a verification only, by it not
   before the task to be repaired, and each time a retry of that task is counted. *)
THEOREM FinishedWorkStays == Spec => DoneStaysDone
<1>1. Init => WorkIsOpen
  BY DEF Init, WorkIsOpen, InFlight
<1>2. TypeOK /\ Staged /\ WorkIsOpen /\ [Next]_vars
        => WorkIsOpen' /\ [\A t \in Tasks : status[t] = "completed" /\ status'[t] # "completed" => RejectedFor(t)]_vars
  BY DoneNext
<1> QED BY <1>1, <1>2, TypeInit, TypeNext, StagedInit, StagedNext, PTL DEF Spec, DoneStaysDone

-----------------------------------------------------------------------------
(* Results.  One that completed its task is acknowledged before anything else is
   read, unless the process dies just then.                                *)
Counted ==
    \A d \in Ids : /\ consumed[d] \in {0, 1}
                   /\ consumed[d] = 1 => dels[d].acked \/ (proc.at = "ack" /\ proc.d = d)

LEMMA CountedInit == Init => Counted
BY DEF Init, Counted, Ids

(* Rows keep what they acknowledge, and nothing is consumed. *)
LEMMA CountedSame ==
    ASSUME TypeOK, Counted, Ids' = Ids, consumed' = consumed,
           \A d \in Ids : dels[d].acked => dels'[d].acked,
           proc.at = "ack" => proc' = proc
    PROVE  Counted'
BY DEF Counted

LEMMA CountedNext ==
    ASSUME "ack" \notin DiesAt, TypeOK, Staged, Counted, [Next]_vars PROVE Counted'
<1> USE DEF durable, running, history
<1>b. dels \in [Ids -> Row] /\ consumed \in [Ids -> Nat]
  BY TypeFacts
<1>1. ASSUME Start PROVE Counted'
  <2>1. consumed' = consumed /\ proc.at # "ack"
    BY <1>1 DEF Start, Off
  <2>2. CASE ApplyDecisions
    <3>1. Ids' = Ids
      BY <2>2, DecisionsType, UpdatedRows
    <3>2. \A d \in Ids : \/ dels'[d] = dels[d]
                         \/ dels'[d] = [dels[d] EXCEPT !.status = "assigned"]
                         \/ dels'[d] = [dels[d] EXCEPT !.status = "failed"]
      BY <2>2 DEF ApplyDecisions
    <3>3. ASSUME NEW d \in Ids PROVE dels'[d].acked = dels[d].acked
      <4>1. dels[d] \in Row
        BY <1>b
      <4>2. /\ [dels[d] EXCEPT !.status = "assigned"].acked = dels[d].acked
            /\ [dels[d] EXCEPT !.status = "failed"].acked = dels[d].acked
        BY <4>1 DEF Row
      <4> QED BY <3>2, <4>2
    <3> QED BY <2>1, <3>1, <3>3, CountedSame
  <2>3. CASE UNCHANGED <<status, dels>>
    BY <2>1, <2>3, SameRows, CountedSame
  <2> QED BY <1>1, <2>2, <2>3 DEF Start
<1>2. ASSUME ConsumeResult PROVE Counted'
  <2>1. Consumables # {} /\ Consumables \subseteq Nat
    BY <1>2, TypeFacts DEF ConsumeResult, Consumables, Ids
  <2>2. PICK d \in Ids : /\ Consumable(d)
                         /\ consumed' = [consumed EXCEPT ![d] = @ + 1]
                         /\ proc' = [at |-> "ack", d |-> d, then |-> proc.at]
                         /\ proc.at # "ack" /\ dels' = dels
    <3>1. First(Consumables) \in Consumables
      BY <2>1, FirstIsIn
    <3> QED BY <1>2, <3>1 DEF ConsumeResult, Consumables
  <2>3. ~dels[d].acked
    BY <2>2 DEF Consumable, Unread
  <2>4. consumed[d] = 0
    BY <2>2, <2>3 DEF Counted
  <2>5. consumed'[d] = 1 /\ \A e \in Ids \ {d} : consumed'[e] = consumed[e]
    BY <1>b, <2>2, <2>4
  <2> QED BY <2>2, <2>5, SameRows DEF Counted
<1>3. ASSUME AcknowledgeResult PROVE Counted'
  <2>1. /\ proc.at = "ack" /\ proc.d \in Ids /\ consumed' = consumed
        /\ dels' = [dels EXCEPT ![proc.d].acked = TRUE]
    BY <1>3 DEF AcknowledgeResult, TypeOK, Off
  <2>2. PICK d \in Ids : d = proc.d
    BY <2>1
  <2>3. /\ [dels[d] EXCEPT !.acked = TRUE] \in Row
        /\ dels' = [dels EXCEPT ![d] = [dels[d] EXCEPT !.acked = TRUE]]
    BY <1>b, <2>1, <2>2, FieldsType
  <2>4. Ids' = Ids
    BY <2>3, OneRowType
  <2>5. dels'[d].acked /\ \A e \in Ids \ {d} : dels'[e] = dels[e]
    BY <1>b, <2>3 DEF Row
  <2> QED BY <2>1, <2>2, <2>4, <2>5 DEF Counted
<1>4. ASSUME RecoverInFlight PROVE Counted'
  <2>1. /\ dels' = [d \in Ids |-> IF Unfinished(dels[d].task) /\ d = Latest(Active(dels[d].task))
                                  THEN [dels[d] EXCEPT !.status = "assigned"] ELSE dels[d]]
        /\ consumed' = consumed /\ proc.at # "ack"
    BY <1>4 DEF RecoverInFlight
  <2>2. \A d \in Ids : dels[d] \in Row /\ [dels[d] EXCEPT !.status = "assigned"] \in Row
    BY <1>b, FieldsType
  <2>3. dels' \in [Ids -> Row]
    BY <2>1, <2>2
  <2>4. Ids' = Ids
    BY <2>3, UpdatedRows
  <2>5. \A d \in Ids : dels'[d] = dels[d] \/ dels'[d] = [dels[d] EXCEPT !.status = "assigned"]
    BY <2>1
  <2>6. \A d \in Ids : dels'[d].acked = dels[d].acked
    BY <1>b, <2>5 DEF Row
  <2> QED BY <2>1, <2>4, <2>6, CountedSame
<1>5. ASSUME Decide PROVE Counted'
  <2>1. proc.at # "ack" /\ dels' = dels /\ consumed' = consumed
    BY <1>5, DecideEffect
  <2> QED BY <2>1, SameRows, CountedSame
<1>6. ASSUME Launch PROVE Counted'
  <2>1. batch # {} /\ proc.at = "launch"
    BY <1>6 DEF Launch, Staged
  <2>2. PICK t \in batch, d \in Nat :
             /\ d \in IF Active(t) = {} THEN {Len(dels) + 1} ELSE Active(t)
             /\ Ids' = Ids \cup {d}
             /\ \A e \in Ids \ {d} : dels'[e] = dels[e]
             /\ IF Active(t) = {} THEN consumed'[d] = 0 ELSE dels'[d].acked = dels[d].acked
             /\ \A e \in Ids : consumed'[e] = consumed[e]
    BY <1>6, <2>1, LaunchEffect
  <2>3. CASE Active(t) = {}
    <3>1. d \notin Ids
      BY <2>2, <2>3, TypeFacts DEF Ids
    <3> QED BY <2>1, <2>2, <2>3, <3>1 DEF Counted
  <2>4. CASE Active(t) # {}
    <3>1. d \in Ids
      BY <2>2, <2>4 DEF Active
    <3> QED BY <2>1, <2>2, <2>4, <3>1 DEF Counted
  <2> QED BY <2>3, <2>4
<1>7. ASSUME Collect \/ Cancel \/ Crash \/ UNCHANGED vars PROVE Counted'
  <2>1. consumed' = consumed /\ (proc.at = "ack" => proc' = proc)
    BY <1>7 DEF Collect, Cancel, Crash, vars
  <2>2. CASE dels' = dels
    BY <2>1, <2>2, SameRows, CountedSame
  <2>3. ASSUME NEW D, CancelAgents(D) PROVE Counted'
    <3>1. dels' = [d \in Ids |-> IF d \in D THEN [dels[d] EXCEPT !.status = "cancelled"] ELSE dels[d]]
      BY <2>3 DEF CancelAgents
    <3>2. \A d \in Ids : dels[d] \in Row /\ [dels[d] EXCEPT !.status = "cancelled"] \in Row
      BY <1>b, FieldsType DEF Ended
    <3>3. dels' \in [Ids -> Row]
      BY <3>1, <3>2
    <3>4. Ids' = Ids
      BY <3>3, UpdatedRows
    <3>5. \A d \in Ids : dels'[d].acked = dels[d].acked
      BY <1>b, <3>1 DEF Row
    <3> QED BY <2>1, <3>4, <3>5, CountedSame
  <2>4. Cancel => \E D : CancelAgents(D)
    BY DEF Cancel
  <2> QED BY <1>7, <2>2, <2>3, <2>4 DEF Collect, Crash, vars
<1>8. ASSUME NEW t \in Tasks, Child(t) PROVE Counted'
  <2>1. flight[t].d \in Ids /\ proc' = proc /\ consumed' = consumed
    <3>1. flight[t] # Idle /\ proc' = proc /\ consumed' = consumed
      BY <1>8 DEF Child, ChildSucceeds, ChildFails, ChildAsks, HandleFailure, ReleaseTaskLease, Idle
    <3> QED BY <3>1, StatusTypes
  <2>2. PICK d \in Ids : d = flight[t].d
    BY <2>1
  <2>3. Ids' = Ids /\ \A e \in Ids : dels'[e].acked = dels[e].acked
    BY <1>8, <2>2, ChildWrites
  <2> QED BY <2>1, <2>3, CountedSame
<1>9. ASSUME ResolveApproval PROVE Counted'
  <2>1. proc' = proc /\ consumed' = consumed
    BY <1>9 DEF ResolveApproval
  <2> QED BY <1>9, <2>1, DecisionWrites, CountedSame
<1> QED BY <1>1, <1>2, <1>3, <1>4, <1>5, <1>6, <1>7, <1>8, <1>9 DEF Next, Runtime

(* No result completes its task twice, as long as the process does not die between
   reading a result and acknowledging it (if it may, one does: the run of
   Delegation_result_twice shows it).                                      *)
THEOREM ResultsConsumedOnce ==
    ASSUME "ack" \notin DiesAt PROVE Spec => []ConsumedOnce
<1>1. TypeOK /\ Staged /\ Counted /\ [Next]_vars => Counted'
  BY CountedNext
<1>2. Counted => ConsumedOnce
  BY DEF Counted, ConsumedOnce
<1> QED BY <1>1, <1>2, CountedInit, TypeInit, TypeNext, StagedInit, StagedNext, PTL DEF Spec

-----------------------------------------------------------------------------
(* A completed plan.  A task that was begun, is at work or has a result to be read
   has its dependencies completed, and one that is finished or may come to be is
   fresh, but for the tasks a rejection overtook and what rests on them.     *)
DepsDone(t) == \A u \in Deps[t] : status[u] = "completed"

Sound(t) == t \in overtaken \/ DepsDone(t)

Excused(t) == t \in stale => t \in overtaken \/ Deps[t] \cap stale # {}

Open(t) ==
    \/ flight[t].at \notin {"none", "release"}
    \/ \E d \in Ids : dels[d].task = t /\ Consumable(d)

Fresh ==
    \A t \in Tasks :
        /\ status[t] \notin {"pending", "blocked"} => Sound(t)
        /\ status[t] = "completed" => Excused(t)
        /\ Open(t) => Sound(t) /\ Excused(t)

Finished == plan = "completed" => proc = Off /\ \A t \in Tasks : status[t] = "completed"

(* Completed tasks stay so, more are completed by results that were to be read only,
   tasks begin on completed dependencies, and results come of children at work. *)
LEMMA FreshSame ==
    ASSUME TypeOK, Fresh, Ids' = Ids, stale' = stale, overtaken' = overtaken, StaysDone,
           \A t \in Tasks : status'[t] = "completed" => status[t] = "completed" \/ Open(t),
           \A t \in Tasks : status'[t] \notin {"pending", "blocked"} => Sound(t),
           \A t \in Tasks : flight'[t].at \notin {"none", "release"} => Open(t),
           \A d \in Ids : /\ dels'[d].task = dels[d].task /\ dels[d].task \in Tasks
                          /\ Unread(d)' => Unread(d) \/ Open(dels[d].task)
    PROVE  Fresh'
<1>1. \A t \in Tasks : (Sound(t) => Sound(t)') /\ (Excused(t) => Excused(t)')
  BY DepsAreEarlier DEF Sound, Excused, DepsDone, StaysDone
<1>2. ASSUME NEW t \in Tasks, Open(t)' PROVE Open(t)
  <2>1. CASE flight'[t].at \notin {"none", "release"}
    BY <2>1
  <2>2. CASE \E d \in Ids' : dels'[d].task = t /\ Consumable(d)'
    <3>1. PICK d \in Ids : dels'[d].task = t /\ Unread(d)' /\ status'[dels'[d].task] # "completed"
      BY <2>2 DEF Consumable
    <3>2. dels[d].task = t /\ status[t] # "completed"
      BY <3>1 DEF StaysDone
    <3> QED BY <3>1, <3>2 DEF Open, Consumable
  <2> QED BY <1>2, <2>1, <2>2 DEF Open
<1>3. \A t \in Tasks : status'[t] \notin {"pending", "blocked"} => Sound(t)'
  BY <1>1
<1>4. \A t \in Tasks : status'[t] = "completed" => Excused(t)'
  BY <1>1 DEF Fresh
<1>5. \A t \in Tasks : Open(t)' => Sound(t)' /\ Excused(t)'
  BY <1>1, <1>2 DEF Fresh
<1> QED BY <1>3, <1>4, <1>5 DEF Fresh

(* A task starts on completed work, or as one that was overtaken; those that rest
   on it have not begun, or were overtaken themselves.                     *)
LEMMA FreshLaunch ==
    ASSUME TypeOK, Staged, AgreeInv, Fresh, Launch PROVE Fresh'
<1>1. batch # {}
  BY DEF Launch, Staged
<1>2. PICK t \in batch, d \in Nat :
             /\ Ids' = Ids \cup {d}
             /\ \A e \in Ids \ {d} : dels'[e] = dels[e]
             /\ dels'[d].task = t /\ dels'[d].status \notin Ended
             /\ \/ /\ status' = [status EXCEPT ![t] = "running"]
                   /\ lease' = [lease EXCEPT ![t] = d]
                   /\ flight' = [flight EXCEPT ![t] = [at |-> "work", d |-> d]]
                   /\ Restarted(t)
                \/ /\ status' = [status EXCEPT ![t] = "waiting"]
                   /\ UNCHANGED <<lease, flight, stale, overtaken>>
  BY <1>1, LaunchEffect
<1>3. t \in Tasks /\ flight[t] = Idle /\ status[t] = "ready" /\ t \notin Deps[t]
  BY DepsAreEarlier DEF TypeOK, Staged
<1>4. Sound(t)
  BY <1>3 DEF Fresh
<1>5. \A u \in Tasks \ {t} : status'[u] = status[u] /\ flight'[u] = flight[u]
  BY <1>2, StatusTypes
<1>6. status'[t] \in {"running", "waiting"}
  BY <1>2, <1>3, StatusTypes
<1>7. \A u \in Tasks : DepsDone(u) => DepsDone(u)'
  <2>1. \A u \in Tasks : status[u] = "completed" => status'[u] = "completed"
    BY <1>3, <1>5
  <2> QED BY <2>1, DepsAreEarlier DEF DepsDone
<1>8. \A u \in Tasks \ {t} : Open(u)' => Open(u)
  <2> SUFFICES ASSUME NEW u \in Tasks \ {t}, Open(u)' PROVE Open(u)
    OBVIOUS
  <2>1. CASE flight'[u].at \notin {"none", "release"}
    BY <1>5, <2>1 DEF Open
  <2>2. CASE \E e \in Ids' : dels'[e].task = u /\ Consumable(e)'
    <3>1. PICK e \in Ids' : dels'[e].task = u /\ Consumable(e)'
      BY <2>2
    <3>2. e \in Ids \ {d}
      BY <1>2, <3>1
    <3>3. dels[e].task = u /\ Unread(e) /\ status[u] # "completed"
      BY <1>2, <1>5, <3>1, <3>2 DEF Consumable, Unread
    <3> QED BY <3>2, <3>3 DEF Open, Consumable
  <2> QED BY <2>1, <2>2 DEF Open
<1>9. \A u \in Tasks : t \in Deps[u] /\ Sound(u) => u \in overtaken
  BY <1>3 DEF DepsDone, Sound
(* A task that rests on t is excused, if at all, by having been overtaken. *)
<1>10. ASSUME NEW u \in Tasks, u # t PROVE (Sound(u) => Sound(u)') /\ (Sound(u) /\ Excused(u) => Excused(u)')
  <2>1. u \in overtaken' <=> u \in overtaken
    BY <1>2, <1>10 DEF Restarted, Renewed
  <2>2. Sound(u) => Sound(u)'
    BY <1>7, <2>1 DEF Sound
  <2>3. ASSUME t \notin Deps[u] PROVE (u \in stale' <=> u \in stale) /\ Deps[u] \cap stale \subseteq stale'
    BY <1>2, <1>10, <2>3 DEF Restarted, Renewed
  <2>4. CASE t \in Deps[u]
    BY <1>9, <2>1, <2>2, <2>4 DEF Excused
  <2>5. CASE t \notin Deps[u]
    BY <2>1, <2>2, <2>3, <2>5 DEF Excused
  <2> QED BY <2>4, <2>5
<1>11. Sound(t)'
  <2>1. CASE Restarted(t)
    <3>1. t \in overtaken /\ Outdated(t) => t \in overtaken'
      BY <2>1 DEF Restarted, Renewed
    <3>2. ~Outdated(t) => DepsDone(t)
      BY DEF Outdated, DepsDone
    <3> QED BY <1>3, <1>4, <1>7, <3>1, <3>2 DEF Sound
  <2>2. CASE overtaken' = overtaken
    BY <1>3, <1>4, <1>7, <2>2 DEF Sound
  <2> QED BY <1>2, <2>1, <2>2
<1>12. ASSUME Restarted(t) PROVE Excused(t)'
  <2>1. CASE ~Outdated(t)
    <3>1. t \notin stale'
      BY <1>3, <1>12, <2>1 DEF Restarted, Renewed
    <3> QED BY <3>1 DEF Excused
  <2>2. CASE t \in overtaken /\ Outdated(t)
    <3>1. t \in overtaken'
      BY <1>12, <2>2 DEF Restarted, Renewed
    <3> QED BY <3>1 DEF Excused
  <2>3. CASE t \notin overtaken /\ Outdated(t)
    <3>1. PICK u \in Deps[t] : u \in stale
      BY <1>4, <2>3 DEF Sound, DepsDone, Outdated
    <3>2. u # t
      BY <1>3, <3>1
    <3>3. u \in stale'
      BY <1>12, <3>1, <3>2 DEF Restarted, Renewed
    <3> QED BY <3>3 DEF Excused
  <2> QED BY <2>1, <2>2, <2>3
<1>13. ASSUME Open(t)' PROVE Excused(t)'
  <2>1. CASE Restarted(t)
    BY <1>12, <2>1
  <2>2. CASE UNCHANGED <<flight, stale, overtaken>>
    <3>1. PICK e \in Ids' : dels'[e].task = t /\ Consumable(e)'
      BY <1>3, <1>13, <2>2 DEF Open, Idle
    <3>2. e \in Ids \ {d}
      BY <1>2, <3>1 DEF Consumable, Unread, Ended
    <3>3. dels[e].task = t /\ Consumable(e)
      BY <1>2, <1>3, <3>1, <3>2 DEF Consumable, Unread
    <3>4. Excused(t)
      BY <1>3, <3>2, <3>3 DEF Open, Fresh
    <3> QED BY <2>2, <3>4 DEF Excused
  <2> QED BY <1>2, <2>1, <2>2
<1>14. ASSUME NEW u \in Tasks
       PROVE  /\ status'[u] \notin {"pending", "blocked"} => Sound(u)'
              /\ status'[u] = "completed" => Excused(u)'
              /\ Open(u)' => Sound(u)' /\ Excused(u)'
  <2>1. CASE u = t
    BY <1>6, <1>11, <1>13, <2>1
  <2>2. CASE u # t
    <3>1. status'[u] = status[u] /\ (Open(u)' => Open(u))
      BY <1>5, <1>8, <2>2
    <3>2. (Sound(u) => Sound(u)') /\ (Sound(u) /\ Excused(u) => Excused(u)')
      BY <1>10, <2>2
    <3>3. /\ status[u] \notin {"pending", "blocked"} => Sound(u)
          /\ status[u] = "completed" => Excused(u)
          /\ Open(u) => Sound(u) /\ Excused(u)
      BY DEF Fresh
    <3> QED BY <3>1, <3>2, <3>3
  <2> QED BY <2>1, <2>2
<1> QED BY <1>14 DEF Fresh

(* A rejection resets every task after the repaired one; those that may complete
   all the same, and the repaired one if its dependencies do not stand, are overtaken. *)
LEMMA FreshRejection ==
    ASSUME TypeOK, Fresh, NEW t \in Tasks, NEW r \in 1 .. NTasks,
           flight[t].at \notin {"none", "release"},
           status' = Reopened(r), overtaken' = overtaken \cup Overtaken(t, r),
           flight' = [flight EXCEPT ![t].at = "release"],
           dels' = dels, Ids' = Ids, stale' = stale
    PROVE  Fresh'
<1>0. /\ r \in Tasks /\ r \in Nat /\ \A u \in Tasks : u \in Nat /\ u <= NTasks
      /\ flight[t] # Idle /\ NTasks \in Nat
  BY TasksAreFinite, DepsAreEarlier DEF Tasks, Idle
<1>1. \A u \in Tasks : status'[u] = IF u = r THEN "ready" ELSE IF u > r THEN "pending" ELSE status[u]
  BY DEF Reopened
<1>2. \A u \in Tasks : u <= r => \A v \in Deps[u] : v \in Tasks /\ v < r
  BY <1>0, DepsAreEarlier
<1>3. \A u \in Tasks : u <= r /\ DepsDone(u) => DepsDone(u)'
  BY <1>0, <1>1, <1>2 DEF DepsDone
<1>4. \A u \in Tasks : u <= r /\ Sound(u) => Sound(u)'
  BY <1>3 DEF Sound
<1>5. Sound(r)'
  <2>1. CASE DepsDone(r)
    BY <1>0, <1>3, <2>1 DEF Sound
  <2>2. CASE ~DepsDone(r)
    <3>1. r \in Overtaken(t, r)
      BY <1>0, <2>2 DEF Overtaken, DepsDone
    <3> QED BY <3>1 DEF Sound
  <2> QED BY <2>1, <2>2
<1>6. \A u \in Tasks : Excused(u) => Excused(u)'
  BY DEF Excused
<1>7. \A u \in Tasks \ {t} : flight'[u] = flight[u]
  BY StatusTypes
<1>8. flight'[t].at = "release"
  BY <1>0, StatusTypes
<1>9. ASSUME NEW u \in Tasks, Open(u)' PROVE u \in overtaken' \/ (u < r /\ Open(u))
  <2>1. CASE flight'[u].at \notin {"none", "release"}
    <3>1. u # t /\ flight[u].at \notin {"none", "release"}
      BY <1>7, <1>8, <2>1
    <3>2. u \in r .. NTasks => u \in overtaken'
      BY <3>1 DEF Overtaken
    <3> QED BY <1>0, <3>1, <3>2 DEF Open
  <2>2. CASE \E e \in Ids' : dels'[e].task = u /\ Consumable(e)'
    <3>1. PICK e \in Ids : dels[e].task = u /\ Unread(e) /\ status'[u] # "completed"
      BY <2>2 DEF Consumable, Unread
    <3>2. u \in r .. NTasks => u \in overtaken'
      BY <3>1 DEF Overtaken
    <3>3. u < r => status'[u] = status[u]
      BY <1>0, <1>1
    <3> QED BY <1>0, <3>1, <3>2, <3>3 DEF Open, Consumable
  <2> QED BY <1>9, <2>1, <2>2 DEF Open
<1>10. ASSUME NEW u \in Tasks
       PROVE  /\ status'[u] \notin {"pending", "blocked"} => Sound(u)'
              /\ status'[u] = "completed" => Excused(u)'
              /\ Open(u)' => Sound(u)' /\ Excused(u)'
  <2>1. /\ status[u] \notin {"pending", "blocked"} => Sound(u)
        /\ status[u] = "completed" => Excused(u)
        /\ Open(u) => Sound(u) /\ Excused(u)
    BY DEF Fresh
  <2>2. status'[u] \notin {"pending", "blocked"} => Sound(u)'
    BY <1>0, <1>1, <1>4, <1>5, <2>1
  <2>3. status'[u] = "completed" => Excused(u)'
    BY <1>1, <1>6, <2>1
  <2>4. ASSUME Open(u)' PROVE Sound(u)' /\ Excused(u)'
    <3>1. u \in overtaken' => Sound(u)' /\ Excused(u)'
      BY DEF Sound, Excused
    <3> QED BY <1>0, <1>4, <1>6, <1>9, <2>1, <2>4, <3>1
  <2> QED BY <2>2, <2>3, <2>4
<1> QED BY <1>10 DEF Fresh

(* A child that is done writes its row and its task only. *)
LEMMA FreshChild ==
    ASSUME TypeOK, Staged, AgreeInv, WorkIsOpen, Fresh, NEW t \in Tasks, Child(t)
    PROVE  Fresh'
<1>b. dels \in [Ids -> Row]
  BY TypeFacts
<1>1. /\ t \in InFlight /\ flight[t].d \in Ids /\ dels[flight[t].d].task = t
      /\ status[t] # "completed" /\ stale' = stale
  <2>1. flight[t] # Idle /\ stale' = stale
    BY DEF Child, ChildSucceeds, ChildFails, ChildAsks, HandleFailure, ReleaseTaskLease, Idle, history
  <2> QED BY <2>1, StatusTypes DEF InFlight, AgreeInv, Owned, WorkIsOpen
<1>2. PICK d \in Ids : d = flight[t].d
  BY <1>1
<1>4. Ids' = Ids
  BY <1>2, ChildWrites
<1>5. \A e \in Ids : dels'[e].task = dels[e].task /\ dels[e].task \in Tasks
  BY <1>b, <1>2, ChildWrites DEF Row
<1>6. \A e \in Ids \ {d} : dels'[e] = dels[e]
  BY <1>2, ChildWrites
<1>7. flight'[t].at \notin {"none", "release"} => flight[t].at = "work"
  <2>1. flight[t] \in [at : Stages, d : Ids]
    BY <1>1, StatusTypes DEF InFlight
  <2> QED BY <2>1, StatusTypes
          DEF Child, ChildSucceeds, ChildFails, ChildAsks, HandleFailure, ReleaseTaskLease, Stage, Idle
<1>8. \A u \in Tasks \ {t} : flight'[u] = flight[u]
  <2>1. \/ \E s : Stage(t, s)
        \/ flight' = [flight EXCEPT ![t] = Idle]
    BY DEF Child, ChildSucceeds, ChildFails, ChildAsks, HandleFailure, ReleaseTaskLease
  <2> QED BY <2>1, StatusTypes DEF Stage
<1>9. \A u \in Tasks : flight'[u].at \notin {"none", "release"} => Open(u)
  BY <1>7, <1>8 DEF Open
<1>10. \A e \in Ids : Unread(e)' => Unread(e) \/ Open(dels[e].task)
  <2> SUFFICES ASSUME NEW e \in Ids, Unread(e)', ~Unread(e) PROVE Open(dels[e].task)
    OBVIOUS
  <2>1. e = d /\ dels' # dels
    BY <1>6 DEF Unread
  <2>2. flight[t].at = "work"
    BY <2>1 DEF Child, ChildSucceeds, ChildFails, ChildAsks, HandleFailure, ReleaseTaskLease
  <2> QED BY <1>1, <1>2, <2>1, <2>2 DEF Open
<1>11. CASE \E s \in {"ready", "needs_approval", "blocked", "failed"} :
              status' = [status EXCEPT ![t] = s] /\ Open(t) /\ overtaken' = overtaken
  <2>1. \A u \in Tasks : status'[u] = status[u] \/ (u = t /\ status'[u] # "completed")
    BY <1>11, StatusTypes
  <2>2. StaysDone
    BY <1>1, <2>1 DEF StaysDone
  <2>3. \A u \in Tasks : status'[u] \notin {"pending", "blocked"} => Sound(u)
    BY <1>11, <2>1 DEF Fresh
  <2>4. \A u \in Tasks : status'[u] = "completed" => status[u] = "completed"
    BY <2>1
  <2>5. overtaken' = overtaken
    BY <1>11
  <2> QED BY <1>1, <1>4, <1>5, <1>9, <1>10, <2>2, <2>3, <2>4, <2>5, FreshSame
<1>12. CASE status' = status /\ overtaken' = overtaken
  <2>1. StaysDone
    BY <1>12 DEF StaysDone
  <2>2. \A u \in Tasks : status'[u] \notin {"pending", "blocked"} => Sound(u)
    BY <1>12 DEF Fresh
  <2>3. \A u \in Tasks : status'[u] = "completed" => status[u] = "completed"
    BY <1>12
  <2> QED BY <1>1, <1>4, <1>5, <1>9, <1>10, <1>12, <2>1, <2>2, <2>3, FreshSame
<1>13. CASE HandleFailure(t)
  <2> DEFINE r == IF t \in Verifying THEN Repair[t] ELSE 0
  <2>1. \/ /\ r # 0 /\ status' = Reopened(r) /\ overtaken' = overtaken \cup Overtaken(t, r)
        \/ overtaken' = overtaken /\ status' = [status EXCEPT ![t] = "ready"]
        \/ overtaken' = overtaken /\ status' = [status EXCEPT ![t] = FailedStatus(flight[t].at)]
    BY <1>13 DEF HandleFailure
  <2>2. Open(t) /\ flight[t].at \notin {"none", "release"}
    BY <1>13 DEF HandleFailure, Open
  <2>3. CASE r # 0 /\ status' = Reopened(r) /\ overtaken' = overtaken \cup Overtaken(t, r)
    <3>1. r = Repair[t] /\ r \in 1 .. NTasks
      BY <2>3, RepairIsATask, TasksAreFinite
    <3>2. /\ flight' = [flight EXCEPT ![t].at = "release"] /\ dels' = dels
      BY <1>13 DEF HandleFailure, Stage
    <3> HIDE DEF r
    <3> QED BY <1>1, <1>4, <2>2, <2>3, <3>1, <3>2, FreshRejection
  <2>4. CASE /\ overtaken' = overtaken
             /\ \E s \in {"ready", FailedStatus(flight[t].at)} : status' = [status EXCEPT ![t] = s]
    BY <1>11, <2>2, <2>4 DEF FailedStatus
  <2> QED BY <2>1, <2>3, <2>4
<1>14. ChildAsks(t) => status' = [status EXCEPT ![t] = "needs_approval"] /\ Open(t) /\ overtaken' = overtaken
  BY DEF ChildAsks, Open, history
<1> QED BY <1>11, <1>12, <1>13, <1>14 DEF Child, ChildSucceeds, ChildFails, ReleaseTaskLease, history

LEMMA FreshNext ==
    ASSUME TypeOK, Staged, AgreeInv, WorkIsOpen, Fresh, [Next]_vars
    PROVE  Fresh'
<1> USE DEF durable, running, history
<1>b. dels \in [Ids -> Row] /\ \A d \in Ids : dels[d].task \in Tasks
  <2>1. dels \in [Ids -> Row]
    BY TypeFacts
  <2> QED BY <2>1 DEF Row
<1>c. dels' = dels => /\ Ids' = Ids
                      /\ \A d \in Ids : dels'[d].task = dels[d].task /\ (Unread(d)' => Unread(d))
  BY SameRows DEF Unread
<1>d. flight' = flight => \A t \in Tasks : flight'[t].at \notin {"none", "release"} => Open(t)
  BY DEF Open
<1>e. status' = status => /\ StaysDone /\ \A t \in Tasks : status'[t] = "completed" => status[t] = "completed"
                          /\ \A t \in Tasks : status'[t] \notin {"pending", "blocked"} => Sound(t)
  BY DEF StaysDone, Fresh
<1>1. ASSUME Start PROVE Fresh'
  <2>1. flight' = flight /\ stale' = stale /\ overtaken' = overtaken
    BY <1>1 DEF Start
  <2>2. CASE ApplyDecisions
    <3>1. Ids' = Ids
      BY <2>2, DecisionsType, UpdatedRows
    <3>2. \A d \in Ids : \/ dels'[d] = dels[d]
                         \/ dels'[d] = [dels[d] EXCEPT !.status = "assigned"]
                         \/ dels'[d] = [dels[d] EXCEPT !.status = "failed"]
      BY <2>2 DEF ApplyDecisions
    <3>3. \A d \in Ids : dels'[d].task = dels[d].task /\ (Unread(d)' => Unread(d))
      <4> SUFFICES ASSUME NEW d \in Ids PROVE dels'[d].task = dels[d].task /\ (Unread(d)' => Unread(d))
        OBVIOUS
      <4>1. dels[d] \in Row
        BY <1>b
      <4>2. dels'[d] = dels[d] \/ (dels'[d].task = dels[d].task /\ dels'[d].status # "completed")
        BY <3>2, <4>1 DEF Row
      <4> QED BY <4>2 DEF Unread
    <3>4. \A t \in Tasks : status'[t] = status[t] \/ (status[t] = "needs_approval" /\ status'[t] \in {"ready", "failed"})
      BY <2>2 DEF ApplyDecisions, Answer, Decided
    <3>5. StaysDone
      BY <3>4 DEF StaysDone
    <3>6. \A t \in Tasks : status'[t] = "completed" => status[t] = "completed"
      BY <3>4
    <3>7. \A t \in Tasks : status'[t] \notin {"pending", "blocked"} => Sound(t)
      BY <3>4 DEF Fresh
    <3> QED BY <1>b, <1>d, <2>1, <3>1, <3>3, <3>5, <3>6, <3>7, FreshSame
  <2>3. CASE UNCHANGED <<status, dels>>
    BY <1>b, <1>c, <1>d, <1>e, <2>1, <2>3, FreshSame
  <2> QED BY <1>1, <2>2, <2>3 DEF Start
<1>2. ASSUME ConsumeResult PROVE Fresh'
  <2>1. Consumables # {} /\ Consumables \subseteq Nat
    BY <1>2, TypeFacts DEF ConsumeResult, Consumables, Ids
  <2>2. PICK d \in Ids : /\ Consumable(d) /\ status' = [status EXCEPT ![dels[d].task] = "completed"]
                         /\ dels' = dels /\ flight' = flight /\ stale' = stale /\ overtaken' = overtaken
    <3>1. First(Consumables) \in Consumables
      BY <2>1, FirstIsIn
    <3> QED BY <1>2, <3>1 DEF ConsumeResult, Consumables
  <2>3. PICK t \in Tasks : t = dels[d].task
    BY <1>b
  <2>4. Open(t) /\ Sound(t)
    BY <2>2, <2>3 DEF Open, Fresh
  <2>5. \A u \in Tasks : status'[u] = IF u = t THEN "completed" ELSE status[u]
    BY <2>2, <2>3, StatusTypes
  <2>6. StaysDone
    BY <2>5 DEF StaysDone
  <2>7. \A u \in Tasks : status'[u] = "completed" => status[u] = "completed" \/ Open(u)
    BY <2>4, <2>5
  <2>8. \A u \in Tasks : status'[u] \notin {"pending", "blocked"} => Sound(u)
    BY <2>4, <2>5 DEF Fresh
  <2> QED BY <1>b, <1>c, <1>d, <2>2, <2>6, <2>7, <2>8, FreshSame
<1>3. ASSUME AcknowledgeResult PROVE Fresh'
  <2>1. /\ proc.d \in Ids /\ dels' = [dels EXCEPT ![proc.d].acked = TRUE]
        /\ UNCHANGED <<status, flight, stale, overtaken>>
    BY <1>3 DEF AcknowledgeResult, TypeOK, Off
  <2>2. PICK d \in Ids : d = proc.d
    BY <2>1
  <2>3. [dels[d] EXCEPT !.acked = TRUE] \in Row /\ dels' = [dels EXCEPT ![d] = [dels[d] EXCEPT !.acked = TRUE]]
    BY <1>b, <2>1, <2>2, FieldsType
  <2>4. Ids' = Ids
    BY <2>3, OneRowType
  <2>5. dels'[d].task = dels[d].task /\ dels'[d].acked /\ \A e \in Ids \ {d} : dels'[e] = dels[e]
    BY <1>b, <2>3 DEF Row
  <2>6. \A e \in Ids : dels'[e].task = dels[e].task /\ (Unread(e)' => Unread(e))
    BY <2>5 DEF Unread
  <2> QED BY <1>b, <1>d, <1>e, <2>1, <2>4, <2>6, FreshSame
<1>4. ASSUME RecoverInFlight PROVE Fresh'
  <2>1. /\ dels' = [d \in Ids |-> IF Unfinished(dels[d].task) /\ d = Latest(Active(dels[d].task))
                                  THEN [dels[d] EXCEPT !.status = "assigned"] ELSE dels[d]]
        /\ status' = [t \in Tasks |-> IF Unfinished(t) THEN "ready" ELSE status[t]]
        /\ flight' = flight /\ stale' = stale /\ overtaken' = overtaken
    BY <1>4 DEF RecoverInFlight
  <2>2. \A d \in Ids : dels[d] \in Row /\ [dels[d] EXCEPT !.status = "assigned"] \in Row
    BY <1>b, FieldsType
  <2>3. dels' \in [Ids -> Row]
    BY <2>1, <2>2
  <2>4. Ids' = Ids
    BY <2>3, UpdatedRows
  <2>5. \A d \in Ids : dels'[d] = dels[d] \/ dels'[d] = [dels[d] EXCEPT !.status = "assigned"]
    BY <2>1
  <2>6. \A d \in Ids : dels'[d].task = dels[d].task /\ (Unread(d)' => Unread(d))
    <3> SUFFICES ASSUME NEW d \in Ids PROVE dels'[d].task = dels[d].task /\ (Unread(d)' => Unread(d))
      OBVIOUS
    <3>1. dels'[d] = dels[d] \/ (dels'[d].task = dels[d].task /\ dels'[d].status # "completed")
      BY <2>2, <2>5 DEF Row
    <3> QED BY <3>1 DEF Unread
  <2>7. \A t \in Tasks : status'[t] = status[t] \/ (status[t] \in {"running", "waiting"} /\ status'[t] = "ready")
    BY <2>1 DEF Unfinished
  <2>8. StaysDone
    BY <2>7 DEF StaysDone
  <2>9. \A t \in Tasks : status'[t] = "completed" => status[t] = "completed"
    BY <2>7
  <2>10. \A t \in Tasks : status'[t] \notin {"pending", "blocked"} => Sound(t)
    BY <2>7 DEF Fresh
  <2> QED BY <1>b, <1>d, <2>1, <2>4, <2>6, <2>8, <2>9, <2>10, FreshSame
<1>5. ASSUME Decide PROVE Fresh'
  <2>1. /\ UNCHANGED <<dels, flight, stale, overtaken>>
        /\ status' = status \/ status' = [t \in Tasks |-> Runnable(t)]
    BY <1>5, DecideEffect
  <2>2. CASE status' = status
    BY <1>b, <1>c, <1>d, <1>e, <2>1, <2>2, FreshSame
  <2>3. CASE status' = [t \in Tasks |-> Runnable(t)]
    <3>1. \A t \in Tasks : \/ status'[t] = status[t]
                           \/ status[t] = "pending" /\ status'[t] = "blocked"
                           \/ status[t] = "pending" /\ status'[t] = "ready" /\ Sound(t)
      <4> SUFFICES ASSUME NEW t \in Tasks, status[t] = "pending", Runnable(t) = "ready" PROVE Sound(t)
        BY <2>3 DEF Runnable
      <4> QED BY DEF Runnable, Sound, DepsDone
    <3>2. StaysDone
      BY <3>1 DEF StaysDone
    <3>3. \A t \in Tasks : status'[t] = "completed" => status[t] = "completed"
      BY <3>1
    <3>4. \A t \in Tasks : status'[t] \notin {"pending", "blocked"} => Sound(t)
      BY <3>1 DEF Fresh
    <3> QED BY <1>b, <1>c, <1>d, <2>1, <3>2, <3>3, <3>4, FreshSame
  <2> QED BY <2>1, <2>2, <2>3
<1>6. ASSUME Launch PROVE Fresh'
  BY <1>6, FreshLaunch
<1>7. ASSUME Collect \/ UNCHANGED vars PROVE Fresh'
  <2>1. UNCHANGED <<status, dels, flight, stale, overtaken>>
    BY <1>7 DEF Collect, vars
  <2> QED BY <1>b, <1>c, <1>d, <1>e, <2>1, FreshSame
<1>8. ASSUME NEW t \in Tasks, Child(t) PROVE Fresh'
  BY <1>8, FreshChild
<1>9. ASSUME ResolveApproval PROVE Fresh'
  <2>1. Ids' = Ids /\ \A e \in Ids : dels'[e].task = dels[e].task /\ (Unread(e)' => Unread(e))
    BY <1>9, DecisionWrites DEF Unread
  <2>2. UNCHANGED <<status, flight, stale, overtaken>>
    BY <1>9 DEF ResolveApproval
  <2> QED BY <1>b, <1>d, <1>e, <2>1, <2>2, FreshSame
<1>10. ASSUME Cancel PROVE Fresh'
  <2>1. UNCHANGED <<status, flight, stale, overtaken>> /\ \E D : CancelAgents(D)
    BY <1>10 DEF Cancel
  <2>2. PICK D : dels' = [d \in Ids |-> IF d \in D THEN [dels[d] EXCEPT !.status = "cancelled"] ELSE dels[d]]
    BY <2>1 DEF CancelAgents
  <2>3. \A d \in Ids : dels[d] \in Row /\ [dels[d] EXCEPT !.status = "cancelled"] \in Row
    BY <1>b, FieldsType DEF Ended
  <2>4. dels' \in [Ids -> Row]
    BY <2>2, <2>3
  <2>5. Ids' = Ids
    BY <2>4, UpdatedRows
  <2>6. \A e \in Ids : dels'[e].task = dels[e].task /\ (Unread(e)' => Unread(e))
    BY <1>b, <2>2 DEF Row, Unread
  <2> QED BY <1>b, <1>d, <1>e, <2>1, <2>5, <2>6, FreshSame
<1>11. ASSUME Crash PROVE Fresh'
  <2>1. UNCHANGED <<status, dels, stale, overtaken>> /\ \A t \in Tasks : flight'[t].at = "none"
    BY <1>11 DEF Crash, Idle
  <2> QED BY <1>b, <1>c, <1>e, <2>1, FreshSame
<1> QED BY <1>1, <1>2, <1>3, <1>4, <1>5, <1>6, <1>7, <1>8, <1>9, <1>10, <1>11 DEF Next, Runtime

LEMMA FinishedNext == ASSUME TypeOK, Finished, [Next]_vars PROVE Finished'
<1> USE DEF durable, running, history
<1> SUFFICES ASSUME plan' = "completed" PROVE proc' = Off /\ \A t \in Tasks : status'[t] = "completed"
  BY DEF Finished
<1>1. CASE Decide
  <2>1. plan # "completed"
    BY <1>1 DEF Decide, Finished, Off
  <2> QED BY <1>1, <2>1 DEF Decide
<1>2. CASE UNCHANGED <<plan, proc, status>>
  BY <1>2 DEF Finished
<1>3. CASE Crash
  BY <1>3 DEF Crash, Finished
<1>4. CASE plan' = plan /\ proc # Off
  BY <1>4 DEF Finished
<1>5. ASSUME NEW t \in Tasks, Child(t) PROVE plan' = plan /\ proc # Off
  BY <1>5 DEF Child, ChildSucceeds, ChildFails, ChildAsks, HandleFailure, ReleaseTaskLease, Off
<1>6. ConsumeResult \/ AcknowledgeResult \/ RecoverInFlight \/ Launch \/ Collect => plan' = plan /\ proc # Off
  BY DEF ConsumeResult, AcknowledgeResult, RecoverInFlight, Launch, Collect, Off
<1>7. ~Start
  BY DEF Start
<1>8. ResolveApproval \/ Cancel \/ UNCHANGED vars => UNCHANGED <<plan, proc, status>>
  BY DEF ResolveApproval, Cancel, vars
<1> QED BY <1>1, <1>2, <1>3, <1>4, <1>5, <1>6, <1>7, <1>8 DEF Next, Runtime

(* A plan is completed when all its tasks are, and each rests on the newest results
   but for those a rejection overtook and what rests on them, after any crashes,
   retries, approvals and cancellations.                                   *)
THEOREM CompletedPlanIsFresh == Spec => []CompletedRestsOn
<1> DEFINE Inv == AgreeInv /\ WorkIsOpen /\ Fresh /\ Finished
<1>1. Init => Inv
  <2> SUFFICES ASSUME Init PROVE Inv
    OBVIOUS
  <2>1. /\ plan # "completed" /\ stale = {} /\ Ids = {}
        /\ \A t \in Tasks : status[t] = "pending" /\ flight[t] = Idle
    BY DEF Init, Ids
  <2>2. WorkIsOpen /\ Fresh /\ Finished
    BY <2>1 DEF WorkIsOpen, InFlight, Fresh, Open, Finished, Idle
  <2> QED BY <2>2, AgreeInit
<1>2. TypeOK /\ Staged /\ Inv /\ [Next]_vars => Inv'
  BY AgreeNext, DoneNext, FreshNext, FinishedNext
<1>3. Inv => CompletedRestsOn
  BY DEF Fresh, Finished, Excused, CompletedRestsOn
<1> QED BY <1>1, <1>2, <1>3, TypeInit, TypeNext, StagedInit, StagedNext, PTL DEF Spec

(* Every result is consumed once and a completed plan rests on the newest results
   but for those a rejection overtook, if the process never dies between reading a
   result and acknowledging it.                                            *)
THEOREM ResultsAlwaysCount ==
    ASSUME "ack" \notin DiesAt PROVE Spec => []ResultsCount
<1>1. Spec => []ConsumedOnce
  BY ResultsConsumedOnce
<1>2. TypeOK /\ ConsumedOnce /\ CompletedRestsOn => ResultsCount
  BY DEF ResultsCount
<1> QED BY <1>1, <1>2, TypeCorrect, CompletedPlanIsFresh, PTL
=============================================================================
