-------------------------- MODULE RemoteFabricProofs --------------------------
(***************************************************************************)
(* Theorems about RemoteFabric, for any number of assignments, workers and *)
(* connections, any lease time and any crashes of either side.             *)
(*                                                                         *)
(* The controller's tables (TableInv): what connections and workers do     *)
(* enters in one way, the event that is received is arbitrary and fencing  *)
(* decides what it may change.                                             *)
(*                                                                         *)
(* The tool runs (RunInv): ToolRunIsRecorded is not inductive.  It needs   *)
(* that what is under way is well founded (MessagesBacked: an order to     *)
(* cancel comes for an assignment no event can complete any more, a result *)
(* from a record that has an end) and that every call of handle() has its  *)
(* assignment to itself and on record (RunsRecorded).                      *)
(***************************************************************************)
EXTENDS RemoteFabric, FiniteSetTheorems, SequenceTheorems, TLAPS

Status == Settled \cup {"absent", "assigned", "dispatched", "accepted", "running", "expired"}

TableType ==
    /\ status \in [Assignments -> Status]
    /\ held \in [Assignments -> Nat]
    /\ settler \in [Assignments -> Nat]
    /\ leases \in Seq(Lease)
    /\ Len(leases) <= MaxTokens
    /\ known \subseteq Workers
    /\ ctl \in Position

(* lease_id names a lease of the assignment, its newest one. *)
HeldIsNewest ==
    /\ \A a \in Assignments : held[a] # 0 =>
         held[a] \in DOMAIN leases /\ leases[held[a]].a = a
    /\ \A n \in DOMAIN leases : n <= held[leases[n].a]

(* A lease that the controller is about to release is of a settled assignment. *)
EndsSettled ==
    ctl.pc \in {"revoke", "release"} =>
      ctl.token \in DOMAIN leases /\ status[leases[ctl.token].a] \in Settled

HolderSettles ==
    \A a \in Assignments : status[a] \in {"completed", "failed"} => settler[a] = held[a]

TableInv ==
    /\ TableType
    /\ HeldIsNewest
    /\ EndsSettled
    /\ HolderSettles
    /\ OneActiveLease
    /\ InFlightIsLeased

-----------------------------------------------------------------------------
(* What a step may do to a lease without touching its identity. *)

LEMMA LeaseFacts ==
    ASSUME TableType
    PROVE  /\ DOMAIN leases = 1 .. Len(leases)
           /\ Len(leases) \in Nat
           /\ \A n \in DOMAIN leases : leases[n] \in Lease
BY DEF TableType

LEMMA SameLength ==
    ASSUME TableType, NEW ls, ls = [n \in DOMAIN leases |-> ls[n]],
           \A n \in DOMAIN leases : ls[n] \in Lease
    PROVE  /\ ls \in Seq(Lease)
           /\ Len(ls) = Len(leases)
           /\ DOMAIN ls = DOMAIN leases
<1>1. DOMAIN leases = 1 .. Len(leases) /\ Len(leases) \in Nat
  BY LeaseFacts
<1>2. ls \in [1 .. Len(leases) -> Lease]
  BY <1>1
<1> QED BY <1>1, <1>2

LEMMA ReleasedFacts ==
    ASSUME TableType, NEW n \in DOMAIN leases, NEW ls, ls = Released(n)
    PROVE  /\ ls \in Seq(Lease)
           /\ Len(ls) = Len(leases)
           /\ DOMAIN ls = DOMAIN leases
           /\ \A m \in DOMAIN leases :
                /\ ls[m].a = leases[m].a
                /\ m # n => ls[m] = leases[m]
                /\ ls[m].status = "active" => leases[m].status = "active"
<1>1. \A m \in DOMAIN leases : leases[m] \in Lease
  BY LeaseFacts
<1>2. leases = [m \in DOMAIN leases |-> leases[m]]
  BY LeaseFacts DEF TableType
<1>3. ls = [m \in DOMAIN leases |-> ls[m]]
  BY <1>2 DEF Released
<1>4. \A m \in DOMAIN leases :
         /\ m # n => ls[m] = leases[m]
         /\ m = n => ls[m] = leases[m] \/ ls[m] = [leases[m] EXCEPT !.status = "released"]
  BY DEF Released
<1>5. ASSUME NEW m \in DOMAIN leases
      PROVE  /\ ls[m] \in Lease
             /\ ls[m].a = leases[m].a
             /\ ls[m].status = "active" => leases[m].status = "active"
  <2>1. leases[m] \in Lease
    BY <1>1
  <2>2. CASE ls[m] = leases[m]
    BY <2>1, <2>2
  <2>3. CASE ls[m] = [leases[m] EXCEPT !.status = "released"]
    BY <2>1, <2>3 DEF Lease
  <2> QED BY <1>4, <2>2, <2>3
<1>6. /\ ls \in Seq(Lease)
      /\ Len(ls) = Len(leases)
      /\ DOMAIN ls = DOMAIN leases
  BY <1>3, <1>5, SameLength
<1> QED BY <1>4, <1>5, <1>6

-----------------------------------------------------------------------------
LEMMA TableInit == Init => TableInv
<1> SUFFICES ASSUME Init PROVE TableInv
  OBVIOUS
<1>1. leases \in Seq(Lease) /\ Len(leases) = 0 /\ DOMAIN leases = {}
  BY DEF Init
<1> QED BY <1>1, ConstantsAssumption
     DEF Init, TableInv, TableType, HeldIsNewest, EndsSettled, HolderSettles,
         OneActiveLease, InFlightIsLeased, Status, Position, Idle, Settled

(* The steps that leave the tables alone and end the run of code, or leave it. *)
LEMMA TablesAlone ==
    ASSUME TableInv, UNCHANGED <<status, held, leases, settler>>,
           known' \subseteq Workers,
           ctl' = ctl \/ ctl' = Idle
    PROVE  TableInv'
BY DEF TableInv, TableType, HeldIsNewest, EndsSettled, HolderSettles,
       OneActiveLease, InFlightIsLeased, Position, Idle

LEMMA AssignKeeps ==
    ASSUME TableInv, NEW a \in Assignments, NEW w \in Workers, AssignRemote(a, w)
    PROVE  TableInv'
<1>1. ctl' \in Position /\ ctl'.pc = "lease"
  BY DEF AssignRemote, Position
<1> QED BY <1>1
     DEF AssignRemote, TableInv, TableType, HeldIsNewest, EndsSettled, HolderSettles,
         OneActiveLease, InFlightIsLeased, Status, Settled

LEMMA AcquireKeeps ==
    ASSUME TableInv, NEW a \in Assignments, NEW w \in Workers, Acquire(a, w)
    PROVE  TableInv'
<1> DEFINE N == Len(leases) + 1
           new == [a |-> a, w |-> w, status |-> "active", left |-> LeaseTime, given |-> LeaseTime]
<1>1. DOMAIN leases = 1 .. Len(leases) /\ Len(leases) \in Nat /\ Len(leases) < MaxTokens
      /\ MaxTokens \in Nat
  BY LeaseFacts, ConstantsAssumption DEF Acquire, Leasable, TableInv
<1>2. new \in Lease
  BY ConstantsAssumption DEF Lease
<1>3. /\ leases' = Append(leases, new)
      /\ leases' \in Seq(Lease)
      /\ Len(leases') = N
      /\ DOMAIN leases' = 1 .. N
      /\ \A n \in DOMAIN leases : leases'[n] = leases[n]
      /\ leases'[N] = new
  BY <1>1, <1>2 DEF Acquire, TableInv, TableType
<1>4. status' = [status EXCEPT ![a] = "dispatched"] /\ held' = [held EXCEPT ![a] = N]
      /\ ctl' = [pc |-> "record", a |-> a, w |-> w] /\ settler' = settler /\ known' = known
  BY DEF Acquire, Holding
<1>5. \A n \in DOMAIN leases' : n = N \/ n \in DOMAIN leases
  BY <1>1, <1>3
<1> HIDE DEF new
<1>6. TableType'
  <2>1. ctl' \in Position
    BY <1>4 DEF Position
  <2>2. Len(leases') <= MaxTokens
    BY <1>1, <1>3
  <2> QED BY <1>1, <1>3, <1>4, <2>1, <2>2 DEF TableInv, TableType, Status
<1>7. \A n \in DOMAIN leases : leases[n].a \in Assignments /\ n < N
  BY <1>1, LeaseFacts DEF TableInv, Lease
<1>8. new.a = a /\ new.status = "active"
  BY DEF new
<1>9. \A b \in Assignments : held'[b] = IF b = a THEN N ELSE held[b]
  BY <1>4 DEF TableInv, TableType
<1>10. HeldIsNewest'
  <2>1. ASSUME NEW b \in Assignments, held'[b] # 0
        PROVE  held'[b] \in DOMAIN leases' /\ leases'[held'[b]].a = b
    BY <2>1, <1>1, <1>3, <1>8, <1>9 DEF TableInv, HeldIsNewest
  <2>2. ASSUME NEW n \in DOMAIN leases' PROVE n <= held'[leases'[n].a]
    BY <1>1, <1>3, <1>5, <1>7, <1>8, <1>9 DEF TableInv, HeldIsNewest
  <2> QED BY <2>1, <2>2 DEF HeldIsNewest
<1>11. EndsSettled'
  BY <1>4 DEF EndsSettled
<1>12. HolderSettles'
  BY <1>4, <1>9 DEF TableInv, TableType, HolderSettles
<1>13. OneActiveLease'
  <2>1. \A n \in DOMAIN leases : leases[n].status = "active" => leases[n].a # a
    BY DEF Acquire, Leasable, ActiveLease
  <2> QED BY <1>3, <1>5, <1>7, <1>8, <1>9, <2>1 DEF TableInv, OneActiveLease
<1>14. InFlightIsLeased'
  <2>1. ASSUME NEW b \in Assignments, status'[b] \in {"dispatched", "running"}
        PROVE  held'[b] # 0 /\ leases'[held'[b]].status = "active"
    <3>1. CASE b = a
      BY <3>1, <1>1, <1>3, <1>8, <1>9
    <3>2. CASE b # a
      BY <2>1, <3>2, <1>3, <1>4, <1>9 DEF TableInv, TableType, HeldIsNewest, InFlightIsLeased
    <3> QED BY <3>1, <3>2
  <2> QED BY <2>1 DEF InFlightIsLeased
<1> QED BY <1>6, <1>10, <1>11, <1>12, <1>13, <1>14 DEF TableInv

LEMMA ExpireKeeps ==
    ASSUME TableInv, ExpireLeases PROVE TableInv'
<1>1. \A n \in DOMAIN leases : leases[n] \in Lease
  BY LeaseFacts DEF TableInv
<1>2. /\ leases' = [n \in DOMAIN leases |-> leases'[n]]
      /\ \A n \in DOMAIN leases :
           leases'[n] = IF Lapsed(n) THEN [leases[n] EXCEPT !.status = "expired"] ELSE leases[n]
  BY DEF ExpireLeases
<1>3. \A n \in DOMAIN leases : leases'[n] \in Lease /\ leases'[n].a = leases[n].a
        /\ (leases'[n].status = "active" <=> leases[n].status = "active" /\ ~Lapsed(n))
  BY <1>1, <1>2 DEF Lease, Lapsed
<1>4. leases' \in Seq(Lease) /\ Len(leases') = Len(leases) /\ DOMAIN leases' = DOMAIN leases
  BY <1>2, <1>3, SameLength DEF TableInv
<1>5. \A a \in Assignments : status'[a] = IF Flips(a) THEN "expired" ELSE status[a]
  BY DEF ExpireLeases
<1>6. TableType'
  BY <1>4 DEF ExpireLeases, TableInv, TableType, Status
<1>7. UNCHANGED <<held, settler>> /\ ctl' = Idle
  BY DEF ExpireLeases
<1>8. HeldIsNewest'
  BY <1>3, <1>4, <1>7 DEF TableInv, HeldIsNewest
<1>9. OneActiveLease'
  BY <1>3, <1>4, <1>7 DEF TableInv, OneActiveLease
<1>10. EndsSettled' /\ HolderSettles'
  BY <1>5, <1>7 DEF TableInv, EndsSettled, HolderSettles, Idle
<1>11. ASSUME NEW a \in Assignments, status'[a] \in {"dispatched", "running"}
       PROVE  held'[a] # 0 /\ leases'[held'[a]].status = "active"
  <2>1. status[a] = status'[a] /\ ~Flips(a)
    BY <1>5, <1>11
  <2>2. held[a] # 0 /\ held[a] \in DOMAIN leases /\ leases[held[a]].status = "active"
    BY <1>11, <2>1 DEF TableInv, HeldIsNewest, InFlightIsLeased
  <2>3. ~Lapsed(held[a])
    BY <1>11, <2>1, <2>2 DEF Flips
  <2> QED BY <1>3, <1>7, <2>2, <2>3
<1> QED BY <1>6, <1>8, <1>9, <1>10, <1>11 DEF TableInv, InFlightIsLeased

LEMMA CancelKeeps ==
    ASSUME TableInv, NEW a \in Assignments, Cancel(a) PROVE TableInv'
<1>1. held[a] \in DOMAIN leases /\ leases[held[a]].a = a
  BY DEF Cancel, TableInv, HeldIsNewest
<1>2. held[a] \in Token
  BY <1>1, LeaseFacts, ConstantsAssumption DEF TableInv, TableType, Token
<1>3. ctl' \in Position /\ ctl'.pc = "revoke" /\ ctl'.token = held[a]
  BY <1>2 DEF Cancel, TableInv, TableType, Position
<1>4. \A b \in Assignments : status'[b] = IF b = a THEN "cancelled" ELSE status[b]
  BY DEF Cancel, TableInv, TableType
<1>5. UNCHANGED <<held, leases, settler, known>>
  BY DEF Cancel
<1>6. TableType'
  BY <1>3, <1>5 DEF Cancel, TableInv, TableType, Status, Settled
<1>7. EndsSettled'
  BY <1>1, <1>3, <1>4, <1>5 DEF EndsSettled, Settled
<1>8. HeldIsNewest' /\ OneActiveLease'
  BY <1>5 DEF TableInv, HeldIsNewest, OneActiveLease
<1>9. HolderSettles' /\ InFlightIsLeased'
  BY <1>4, <1>5 DEF TableInv, HolderSettles, InFlightIsLeased
<1> QED BY <1>6, <1>7, <1>8, <1>9 DEF TableInv

(* The end of a lease whose assignment is settled. *)
LEMMA ReleaseKeeps ==
    ASSUME TableInv, RevokeLease \/ ReleaseLease PROVE TableInv'
<1>1. ctl.token \in DOMAIN leases /\ status[leases[ctl.token].a] \in Settled
  BY DEF RevokeLease, ReleaseLease, TableInv, EndsSettled
<1>2. leases' = Released(ctl.token) /\ UNCHANGED <<status, held, settler, known>>
  BY DEF RevokeLease, ReleaseLease
<1>3. /\ leases' \in Seq(Lease)
      /\ Len(leases') = Len(leases)
      /\ DOMAIN leases' = DOMAIN leases
      /\ \A m \in DOMAIN leases :
           /\ leases'[m].a = leases[m].a
           /\ m # ctl.token => leases'[m] = leases[m]
           /\ leases'[m].status = "active" => leases[m].status = "active"
  BY <1>1, <1>2, ReleasedFacts DEF TableInv
<1>4. ctl' \in Position /\ ctl'.pc \in {"idle", "notify"}
  <2>1. CASE ReleaseLease
    BY <2>1 DEF ReleaseLease, Position, Idle
  <2>2. CASE RevokeLease
    <3>1. ctl \in [pc : {"revoke", "notify"}, w : Workers, token : Token]
      BY <2>2 DEF RevokeLease, TableInv, TableType, Position, Idle
    <3>2. ctl' = [ctl EXCEPT !.pc = "notify"]
      BY <2>2 DEF RevokeLease
    <3>3. ctl' \in [pc : {"revoke", "notify"}, w : Workers, token : Token] /\ ctl'.pc = "notify"
      BY <3>1, <3>2
    <3> QED BY <3>3 DEF Position
  <2> QED BY <2>1, <2>2
<1>5. TableType'
  BY <1>2, <1>3, <1>4 DEF TableInv, TableType
<1>6. HeldIsNewest' /\ OneActiveLease'
  BY <1>2, <1>3 DEF TableInv, HeldIsNewest, OneActiveLease
<1>7. EndsSettled' /\ HolderSettles'
  BY <1>2, <1>4 DEF TableInv, EndsSettled, HolderSettles
<1>8. ASSUME NEW a \in Assignments, status'[a] \in {"dispatched", "running"}
      PROVE  held'[a] # 0 /\ leases'[held'[a]].status = "active"
  <2>1. /\ held[a] # 0
        /\ leases[held[a]].status = "active"
        /\ held[a] \in DOMAIN leases
        /\ leases[held[a]].a = a
    BY <1>2, <1>8 DEF TableInv, HeldIsNewest, InFlightIsLeased
  <2>2. held[a] # ctl.token
    BY <1>1, <1>2, <1>8, <2>1 DEF Settled
  <2> QED BY <1>2, <1>3, <2>1, <2>2
<1> QED BY <1>5, <1>6, <1>7, <1>8 DEF TableInv, InFlightIsLeased

LEMMA NewStatusFacts ==
    ASSUME NEW e
    PROVE  /\ NewStatus(e) \in Settled \cup {"accepted", "running"}
           /\ e.type \in {"result", "error"} => NewStatus(e) \in Settled
BY DEF NewStatus, Settled

LEMMA TickFacts ==
    ASSUME TableType, Tick
    PROVE  /\ leases' \in Seq(Lease)
           /\ Len(leases') = Len(leases)
           /\ DOMAIN leases' = DOMAIN leases
           /\ \A n \in DOMAIN leases : leases'[n].a = leases[n].a
                                       /\ leases'[n].status = leases[n].status
<1>1. \A n \in DOMAIN leases : leases[n] \in Lease
  BY LeaseFacts
<1>2. \A k \in 0 .. LeaseTime : Down(k) \in 0 .. LeaseTime
  BY ConstantsAssumption DEF Down
<1>3. /\ leases' = [n \in DOMAIN leases |-> leases'[n]]
      /\ \A n \in DOMAIN leases : leases'[n] =
           [leases[n] EXCEPT !.left = IF leases[n].status = "active" THEN Down(@) ELSE @,
                             !.given = Down(@)]
  BY DEF Tick
<1>4. ASSUME NEW n \in DOMAIN leases
      PROVE  leases'[n] \in Lease
             /\ leases'[n].a = leases[n].a /\ leases'[n].status = leases[n].status
  <2>1. leases[n] \in Lease /\ Down(leases[n].left) \in 0 .. LeaseTime
        /\ Down(leases[n].given) \in 0 .. LeaseTime
    BY <1>1, <1>2 DEF Lease
  <2>2. PICK left \in 0 .. LeaseTime, given \in 0 .. LeaseTime :
          leases'[n] = [leases[n] EXCEPT !.left = left, !.given = given]
    <3>1. CASE leases[n].status = "active"
      BY <1>3, <2>1, <3>1
    <3>2. CASE leases[n].status # "active"
      <4>1. leases[n].left \in 0 .. LeaseTime
        BY <2>1 DEF Lease
      <4> QED BY <1>3, <2>1, <3>2, <4>1
    <3> QED BY <3>1, <3>2
  <2> QED BY <2>1, <2>2 DEF Lease
<1> QED BY <1>3, <1>4, SameLength

(* Leases change in what they have left only. *)
LEMMA TimeKeeps ==
    ASSUME TableInv, leases' \in Seq(Lease), Len(leases') = Len(leases),
           DOMAIN leases' = DOMAIN leases,
           \A n \in DOMAIN leases : leases'[n].a = leases[n].a
                                    /\ leases'[n].status = leases[n].status,
           UNCHANGED <<status, held, settler, ctl, known>>
    PROVE  TableInv'
<1>1. TableType'
  BY DEF TableInv, TableType
<1>2. HeldIsNewest' /\ OneActiveLease' /\ EndsSettled' /\ HolderSettles'
  BY DEF TableInv, HeldIsNewest, OneActiveLease, EndsSettled, HolderSettles
<1>3. InFlightIsLeased'
  BY DEF TableInv, HeldIsNewest, InFlightIsLeased
<1> QED BY <1>1, <1>2, <1>3 DEF TableInv

LEMMA AcceptKeeps ==
    ASSUME TableInv, NEW w \in Workers, AcceptEvent(w) PROVE TableInv'
<1> DEFINE e == Head(toCtl[w])
<1>1. /\ e.token \in DOMAIN leases
      /\ held[leases[e.token].a] = e.token
      /\ leases[e.token].status = "active"
  BY DEF AcceptEvent, Fenced, Of
<1>2. leases[e.token] \in Lease /\ leases[e.token].a \in Assignments
  BY <1>1, LeaseFacts DEF TableInv, Lease
<1>3. held' = held /\ known' = known /\ ctl = Idle
  BY DEF AcceptEvent, Take
<1>4. CASE e.type = "renew"
  <2>1. leases' = [leases EXCEPT ![e.token].left = LeaseTime]
        /\ UNCHANGED <<status, settler, ctl>>
    BY <1>4 DEF AcceptEvent
  <2>2. \A n \in DOMAIN leases : leases[n] \in Lease
    BY LeaseFacts DEF TableInv
  <2>3. leases = [n \in DOMAIN leases |-> leases[n]]
    BY DEF TableInv, TableType
  <2>4. /\ leases' = [n \in DOMAIN leases |-> leases'[n]]
        /\ \A n \in DOMAIN leases : leases'[n] = leases[n]
                                    \/ leases'[n] = [leases[n] EXCEPT !.left = LeaseTime]
    BY <2>1, <2>3
  <2>5. \A n \in DOMAIN leases : leases'[n] \in Lease
          /\ leases'[n].a = leases[n].a /\ leases'[n].status = leases[n].status
    BY <2>2, <2>4, ConstantsAssumption DEF Lease
  <2>6. leases' \in Seq(Lease) /\ Len(leases') = Len(leases) /\ DOMAIN leases' = DOMAIN leases
    BY <2>4, <2>5, SameLength DEF TableInv
  <2> QED BY <1>3, <2>1, <2>5, <2>6, TimeKeeps
<1>5. CASE e.type # "renew"
  <2> DEFINE a == leases[e.token].a
             s == NewStatus(e)
  <2>1. /\ status' = [status EXCEPT ![a] = s]
        /\ settler' = [settler EXCEPT ![a] = IF s \in Settled THEN e.token ELSE @]
        /\ ctl' = IF e.type \in {"result", "error"} THEN [pc |-> "release", token |-> e.token]
                  ELSE ctl
        /\ leases' = leases
    BY <1>5 DEF AcceptEvent, Of
  <2>2. s \in Settled \cup {"accepted", "running"}
        /\ (e.type \in {"result", "error"} => s \in Settled)
    BY NewStatusFacts
  <2>3. e.token \in Token /\ e.token \in Nat
    BY <1>1, LeaseFacts, ConstantsAssumption DEF TableInv, TableType, Token
  <2>4. held[a] = e.token /\ a \in Assignments
    BY <1>1, <1>2
  <2>5. ctl' = ctl \/ (ctl' = [pc |-> "release", token |-> e.token] /\ s \in Settled)
    BY <2>1, <2>2
  <2> HIDE DEF s, e, a
  <2>6. /\ \A b \in Assignments : status'[b] = IF b = a THEN s ELSE status[b]
        /\ \A b \in Assignments : settler'[b] =
             IF b = a /\ s \in Settled THEN e.token ELSE settler[b]
    BY <2>1, <2>4 DEF TableInv, TableType
  <2>7. TableType'
    <3>1. ctl' \in Position
      BY <2>3, <2>5, <1>3 DEF Position
    <3>2. status' \in [Assignments -> Status] /\ settler' \in [Assignments -> Nat]
      BY <2>1, <2>2, <2>3, <2>4 DEF TableInv, TableType, Status
    <3> QED BY <1>3, <2>1, <3>1, <3>2 DEF TableInv, TableType
  <2>8. EndsSettled'
    BY <1>1, <1>3, <2>1, <2>4, <2>5, <2>6 DEF EndsSettled, Idle, a
  <2>9. HeldIsNewest' /\ OneActiveLease'
    BY <1>3, <2>1 DEF TableInv, HeldIsNewest, OneActiveLease
  <2>10. HolderSettles'
    BY <1>3, <2>2, <2>4, <2>6 DEF TableInv, HolderSettles, Settled
  <2>11. InFlightIsLeased'
    BY <1>1, <1>3, <2>1, <2>3, <2>4, <2>6, LeaseFacts DEF TableInv, InFlightIsLeased
  <2> QED BY <2>7, <2>8, <2>9, <2>10, <2>11 DEF TableInv
<1> QED BY <1>4, <1>5

-----------------------------------------------------------------------------
LEMMA WorkerAlone ==
    ASSUME NEW w \in Workers, Worker(w) PROVE UNCHANGED <<tables, ctlVars>>
BY DEF Worker, HandleCancel, AnswerDispatch, BeginExecution, Arrives, StartExecution, Renew,
       ToolReturns, ToolThrows, StallEnds, FinishHandling

LEMMA TableStep == ASSUME TableInv, [Next]_vars PROVE TableInv'
<1> USE DEF tables, ctlVars
<1>0. known \subseteq Workers
  BY DEF TableInv, TableType
<1>1. ASSUME NEW a \in Assignments, NEW w \in Workers, Redispatch(a, w) PROVE TableInv'
  BY <1>1, AcquireKeeps DEF Redispatch
<1>2. CASE AcquireRemoteLease
  <2>1. ctl.a \in Assignments /\ ctl.w \in Workers
    BY <1>2 DEF AcquireRemoteLease, TableInv, TableType, Position, Idle
  <2> QED BY <1>2, <2>1, AcquireKeeps DEF AcquireRemoteLease
<1>3. CASE SendDispatch \/ SendCancel
  BY <1>0, <1>3, TablesAlone DEF SendDispatch, SendCancel
<1>4. CASE RevokeLease \/ ReleaseLease
  BY <1>4, ReleaseKeeps
<1>5. CASE AbandonRecovery
  BY <1>0, <1>5, TablesAlone DEF AbandonRecovery
<1>6. ASSUME NEW w \in Workers, Attach(w) PROVE TableInv'
  BY <1>0, <1>6, TablesAlone DEF Attach
<1>7. ASSUME NEW w \in Workers, Replay(w) \/ ReceiveAck(w) \/ RejectEvent(w) PROVE TableInv'
  BY <1>0, <1>7, TablesAlone DEF Replay, ReceiveAck, RejectEvent, Take
<1>8. CASE ControllerCrash
  BY <1>8, TablesAlone DEF ControllerCrash
<1>9. ASSUME NEW w \in Workers, Worker(w) \/ Disconnect(w) \/ WorkerCrash(w) PROVE TableInv'
  BY <1>0, <1>9, WorkerAlone, TablesAlone DEF Disconnect, WorkerCrash
<1>10. CASE Tick
  <2>1. UNCHANGED <<status, held, settler, ctl, known>>
    BY <1>10 DEF Tick
  <2> QED BY <1>10, <2>1, TickFacts, TimeKeeps DEF TableInv
<1>11. CASE UNCHANGED vars
  BY <1>0, <1>11, TablesAlone DEF vars
<1>12. CASE Controller
  BY <1>12, <1>1, <1>2, <1>3, <1>4, <1>5, <1>6, <1>7,
     AssignKeeps, CancelKeeps, ExpireKeeps, AcceptKeeps DEF Controller
<1> QED BY <1>8, <1>9, <1>10, <1>11, <1>12 DEF Next

(* The tables of the controller keep their invariant in every reachable state. *)
THEOREM TablesSafe == Spec => []TableInv
<1>1. Init => TableInv
  BY TableInit
<1>2. TableInv /\ [Next]_vars => TableInv'
  BY TableStep
<1> QED BY <1>1, <1>2, PTL DEF Spec

(* At most one lease of an assignment is active, the one lease_id names: over
   expiry, takeover, cancellation and crashes (acquireRemoteLease).        *)
THEOREM OneLeaseActive == Spec => []OneActiveLease
<1>1. TableInv => OneActiveLease
  BY DEF TableInv
<1> QED BY <1>1, TablesSafe, PTL

(* A dispatched or running assignment has an active lease, whose expiry gives
   the assignment back (expireRemoteLeases).                               *)
THEOREM InFlightLeased == Spec => []InFlightIsLeased
<1>1. TableInv => InFlightIsLeased
  BY DEF TableInv
<1> QED BY <1>1, TablesSafe, PTL

(* The outcome of an assignment is that of its newest lease, whatever the older
   generations still send (acceptRemoteEvent).                             *)
THEOREM NewestGenerationSettles == Spec => []NewestSettles
<1>1. TableInv => NewestSettles
  BY DEF TableInv, HeldIsNewest, HolderSettles, NewestSettles
<1> QED BY <1>1, TablesSafe, PTL

(* A settled assignment whose lease has ended is changed by a cancellation only
   (acceptRemoteEvent, expireRemoteLeases, acquireRemoteLease).            *)
THEOREM SettledStays == Spec => SettledIsFinal
<1> DEFINE Kept == \A a \in Assignments :
         status[a] \in Settled /\ ~ActiveLease(a) /\ status'[a] # status[a]
           => status'[a] = "cancelled"
<1>1. ASSUME TableInv, [Next]_vars PROVE [Kept]_vars
  <2> USE DEF TableInv, TableType, tables, ctlVars
  <2>1. ASSUME NEW b \in Assignments, NEW w \in Workers, AssignRemote(b, w) PROVE Kept
    BY <1>1, <2>1 DEF AssignRemote, Settled
  <2>2. ASSUME NEW b \in Assignments, NEW w \in Workers, Acquire(b, w) PROVE Kept
    BY <1>1, <2>2 DEF Acquire, Leasable, Settled
  <2>3. CASE AcquireRemoteLease
    <3>1. ctl.a \in Assignments /\ ctl.w \in Workers
      BY <1>1, <2>3 DEF AcquireRemoteLease, Position, Idle
    <3> QED BY <2>2, <2>3, <3>1 DEF AcquireRemoteLease
  <2>4. ASSUME NEW b \in Assignments, Cancel(b) PROVE Kept
    BY <1>1, <2>4 DEF Cancel
  <2>5. CASE ExpireLeases
    BY <1>1, <2>5 DEF ExpireLeases, Flips, Settled
  <2>6. ASSUME NEW w \in Workers, AcceptEvent(w) PROVE Kept
    <3> DEFINE e == Head(toCtl[w])
    <3>1. e.token \in DOMAIN leases /\ leases[e.token].status = "active"
      BY <2>6 DEF AcceptEvent, Fenced
    <3>2. ActiveLease(leases[e.token].a)
      BY <3>1 DEF ActiveLease
    <3>3. status' = status \/ status' = [status EXCEPT ![leases[e.token].a] = NewStatus(e)]
      BY <2>6 DEF AcceptEvent, Of
    <3> QED BY <1>1, <3>2, <3>3
  <2>7. status' = status => Kept
    OBVIOUS
  <2> HIDE DEF Kept
  <2>8. CASE Controller
    BY <2>1, <2>2, <2>3, <2>4, <2>5, <2>6, <2>7, <2>8
       DEF Controller, Redispatch, SendDispatch, RevokeLease, SendCancel, ReleaseLease,
           AbandonRecovery, Attach, Replay, ReceiveAck, RejectEvent
  <2>9. CASE ControllerCrash \/ Tick
    BY <2>7, <2>9 DEF ControllerCrash, Tick
  <2>10. ASSUME NEW w \in Workers, Worker(w) \/ Disconnect(w) \/ WorkerCrash(w) PROVE Kept
    <3>1. UNCHANGED <<tables, ctlVars>>
      BY <2>10, WorkerAlone DEF Disconnect, WorkerCrash
    <3>2. status' = status
      BY <3>1
    <3> QED BY <2>7, <3>2
  <2> QED BY <1>1, <2>8, <2>9, <2>10 DEF Next
<1>2. TableInv /\ [Next]_vars => [Kept]_vars
  BY <1>1
<1> QED BY <1>2, TablesSafe, PTL DEF Spec, SettledIsFinal

(* Leases and assignments agree in every state, also between the statements of a
   takeover and after a crash there (acquireRemoteLease, expireRemoteLeases). *)
THEOREM LeasesAlwaysAgree == Spec => []LeasesAgree
<1> QED BY OneLeaseActive, InFlightLeased, PTL DEF LeasesAgree

-----------------------------------------------------------------------------
(* Tool runs.  An order and an event name a lease that was granted, an order to
   cancel comes for an assignment that is over, and a result comes from a worker
   whose record has an end.  So a record `cancelled` stands for an assignment that
   no event can complete.                                                  *)
Dead(a) == status[a] = "cancelled" /\ ~ActiveLease(a)

GoodOrder == {o \in Order : o.token \in DOMAIN leases /\ (o.type = "cancel" => Dead(Of(o)))}

GoodRow == {r \in Row : r.order \in GoodOrder}

GoodEvent(w) ==
    {e \in Event : /\ e.token \in DOMAIN leases
                   /\ e.type = "result" /\ e.outcome # "cancelled" => record[w][Of(e)] \in Settled}

MessagesBacked ==
    /\ outbox \in [Workers -> Seq(GoodRow)]
    /\ toWorker \in [Workers -> Seq(GoodOrder)]
    /\ toCtl = [w \in Workers |-> toCtl[w]]
    /\ \A w \in Workers : toCtl[w] \in Seq(GoodEvent(w) \cup Ack)

(* An assignment is in the hands of one call of handle() at most, which has its
   record; before the tool is called it has not run.                       *)
RunsRecorded ==
    \A w \in Workers :
       /\ \A a \in Assignments : /\ ran[w][a] \in {0, 1}
                                 /\ record[w][a] = "none" => ran[w][a] = 0
                                 /\ record[w][a] = "cancelled" => Dead(a)
       /\ \A x \in execs[w] : /\ x.token \in DOMAIN leases
                              /\ record[w][Of(x)] # "none"
                              /\ x.pc = "start" => ran[w][Of(x)] = 0
       /\ \A x, y \in execs[w] : Of(x) = Of(y) => x = y

CtlBacked ==
    /\ ctl.pc = "record" => held[ctl.a] \in DOMAIN leases
    /\ ctl.pc = "revoke" => /\ status[leases[ctl.token].a] = "cancelled"
                            /\ held[leases[ctl.token].a] = ctl.token
    /\ ctl.pc = "notify" => ctl.token \in DOMAIN leases /\ Dead(leases[ctl.token].a)

(* The rest of the type invariant. *)
RestType ==
    /\ holder \in [Assignments -> Workers \cup {NoWorker}]
    /\ settler \in [Assignments -> 0 .. MaxTokens]
    /\ todo \subseteq Assignments /\ links \in 0 .. MaxLinks
    /\ linked \in [Workers -> BOOLEAN] /\ replay \in [Workers -> BOOLEAN]
    /\ cursors \in [Workers -> SUBSET Token] /\ latest \in [Workers -> 0 .. MaxTokens]
    /\ record \in [Workers -> [Assignments -> {"none", "running", "completed", "failed", "cancelled"}]]
    /\ execs \in [Workers -> SUBSET Exec]
    /\ ran \in [Workers -> [Assignments -> Nat]]

RunInv ==
    /\ TableInv /\ RestType
    /\ MessagesBacked /\ RunsRecorded /\ CtlBacked /\ CompletedHasEnded

(* A finite set of numbers can be listed in order. *)
LEMMA RankedIsIn ==
    ASSUME NEW k \in Nat, NEW S, S \subseteq 1 .. k
    PROVE  /\ Cardinality(S) \in Nat
           /\ \A i \in 1 .. Cardinality(S) : Ranked(S, i) \in S
<1> DEFINE Below(n) == {m \in S : m < n}
           C == Cardinality(S)
           R == [n \in S |-> Cardinality(Below(n)) + 1]
<1>1. IsFiniteSet(S) /\ C \in Nat
  <2>1. IsFiniteSet(1 .. k)
    BY FS_Interval
  <2>2. IsFiniteSet(S)
    BY <2>1, FS_Subset
  <2> QED BY <2>2, FS_CardinalityType
<1>2. \A n \in S : IsFiniteSet(Below(n)) /\ Cardinality(Below(n)) \in Nat
  <2> SUFFICES ASSUME NEW n \in S PROVE IsFiniteSet(Below(n)) /\ Cardinality(Below(n)) \in Nat
    OBVIOUS
  <2>1. Below(n) \in SUBSET S
    OBVIOUS
  <2>2. IsFiniteSet(Below(n))
    BY <1>1, <2>1, FS_Subset
  <2> QED BY <2>2, FS_CardinalityType
<1>3. ASSUME NEW n \in S, NEW T \in SUBSET S, n \in T, Below(n) \subseteq T
      PROVE  Cardinality(Below(n)) + 1 <= Cardinality(T) /\ Cardinality(T) \in Nat
  <2>1. n \notin Below(n)
    OBVIOUS
  <2>2. Cardinality(Below(n) \cup {n}) = Cardinality(Below(n)) + 1
    BY <1>2, <2>1, FS_AddElement
  <2>3. IsFiniteSet(T) /\ Cardinality(T) \in Nat
    BY <1>1, FS_Subset, FS_CardinalityType
  <2>4. Below(n) \cup {n} \in SUBSET T
    BY <1>3
  <2>5. Cardinality(Below(n) \cup {n}) <= Cardinality(T)
    BY <2>3, <2>4, FS_Subset
  <2> QED BY <2>2, <2>3, <2>5
<1>4. R \in [S -> 1 .. C]
  <2>1. ASSUME NEW n \in S PROVE Cardinality(Below(n)) + 1 \in 1 .. C
    <3>1. Cardinality(Below(n)) + 1 <= C
      BY <1>3
    <3> HIDE DEF Below, C
    <3> QED BY <1>1, <1>2, <3>1
  <2> QED BY <2>1
<1>5. ASSUME NEW n \in S, NEW m \in S, n < m PROVE R[n] < R[m]
  <2>1. Below(m) \in SUBSET S /\ n \in Below(m)
    BY <1>5
  <2>2. Below(n) \subseteq Below(m)
    <3>1. \A x \in S : x < n => x < m
      <4>1. \A x \in S : x \in Int
        OBVIOUS
      <4>2. n \in Int /\ m \in Int
        OBVIOUS
      <4> QED BY <1>5, <4>1, <4>2
    <3> QED BY <3>1
  <2>3. Cardinality(Below(n)) + 1 <= Cardinality(Below(m))
    BY <1>3, <2>1, <2>2
  <2>4. R[n] = Cardinality(Below(n)) + 1 /\ R[m] = Cardinality(Below(m)) + 1
    OBVIOUS
  <2> HIDE DEF Below, R
  <2> QED BY <1>2, <2>3, <2>4
<1>6. \A n, m \in S : R[n] = R[m] => n = m
  <2> SUFFICES ASSUME NEW n \in S, NEW m \in S, n # m PROVE R[n] # R[m]
    OBVIOUS
  <2>1. n < m \/ m < n
    OBVIOUS
  <2>2. R[n] < R[m] \/ R[m] < R[n]
    BY <1>5, <2>1
  <2>3. R[n] \in Int /\ R[m] \in Int
    BY <1>4
  <2> HIDE DEF R
  <2> QED BY <2>2, <2>3
<1>7. R \in Injection(S, 1 .. C)
  <2> HIDE DEF R, C
  <2> QED BY <1>4, <1>6 DEF Injection, IsInjective
<1>8. IsFiniteSet(1 .. C) /\ Cardinality(1 .. C) = C
  <2> HIDE DEF C
  <2>1. IsFiniteSet(1 .. C) /\ Cardinality(1 .. C) = IF 1 > C THEN 0 ELSE C - 1 + 1
    BY <1>1, FS_Interval
  <2> QED BY <1>1, <2>1
<1>9. R \in Surjection(S, 1 .. C)
  BY <1>7, <1>8, FS_Injection
<1>10. ASSUME NEW i \in 1 .. C PROVE \E n \in S : Cardinality(Below(n)) = i - 1
  <2>1. PICK n \in S : R[n] = i
    BY <1>9 DEF Surjection
  <2>2. Cardinality(Below(n)) + 1 = i
    BY <2>1
  <2> HIDE DEF Below
  <2> QED BY <1>2, <2>2
<1> QED BY <1>1, <1>10 DEF Ranked

LEMMA SeqMonotone == ASSUME NEW S, NEW T, S \subseteq T PROVE Seq(S) \subseteq Seq(T)
OBVIOUS

(* Leases are granted and never change hands. *)
LeasesGrow == \A n \in DOMAIN leases : n \in DOMAIN leases' /\ leases'[n].a = leases[n].a

LEMMA LeasesOnlyGrow == ASSUME TableInv, [Next]_vars PROVE LeasesGrow
<1> USE DEF TableInv, tables, ctlVars
<1>1. ASSUME NEW a \in Assignments, NEW w \in Workers, Acquire(a, w) PROVE LeasesGrow
  BY <1>1, LeaseFacts DEF Acquire, TableType, LeasesGrow
<1>2. CASE AcquireRemoteLease
  <2>1. ctl.a \in Assignments /\ ctl.w \in Workers
    BY <1>2 DEF AcquireRemoteLease, TableType, Position, Idle
  <2> QED BY <1>1, <1>2, <2>1 DEF AcquireRemoteLease
<1>3. CASE RevokeLease \/ ReleaseLease
  <2>1. ctl.token \in DOMAIN leases /\ leases' = Released(ctl.token)
    BY <1>3 DEF RevokeLease, ReleaseLease, EndsSettled
  <2> QED BY <2>1, ReleasedFacts DEF LeasesGrow
<1>4. CASE ExpireLeases
  <2>1. \A n \in DOMAIN leases : leases[n] \in Lease
    BY LeaseFacts
  <2>2. DOMAIN leases' = DOMAIN leases
    BY <1>4 DEF ExpireLeases
  <2>3. \A n \in DOMAIN leases : leases'[n] = leases[n] \/ leases'[n] = [leases[n] EXCEPT !.status = "expired"]
    BY <1>4 DEF ExpireLeases
  <2> QED BY <2>1, <2>2, <2>3 DEF Lease, LeasesGrow
<1>5. CASE Tick
  BY <1>5, TickFacts DEF LeasesGrow
<1>6. ASSUME NEW w \in Workers, AcceptEvent(w) PROVE LeasesGrow
  <2> DEFINE n == Head(toCtl[w]).token
  <2>1. leases' = leases \/ leases' = [leases EXCEPT ![n].left = LeaseTime]
    BY <1>6 DEF AcceptEvent
  <2>2. \A m \in DOMAIN leases : leases[m] \in Lease
    BY LeaseFacts
  <2> HIDE DEF n
  <2>3. DOMAIN leases' = DOMAIN leases
    BY <2>1
  <2>4. \A m \in DOMAIN leases : leases'[m] = leases[m] \/ leases'[m] = [leases[m] EXCEPT !.left = LeaseTime]
    BY <2>1
  <2> QED BY <2>2, <2>3, <2>4 DEF Lease, LeasesGrow
<1>7. leases' = leases => LeasesGrow
  BY DEF LeasesGrow
<1>8. CASE Controller
  BY <1>1, <1>2, <1>3, <1>4, <1>6, <1>7, <1>8
     DEF Controller, AssignRemote, Redispatch, Cancel, SendDispatch, SendCancel, AbandonRecovery, Attach,
         Replay, ReceiveAck, RejectEvent
<1>9. ASSUME NEW w \in Workers, Worker(w) \/ Disconnect(w) \/ WorkerCrash(w) PROVE leases' = leases
  <2>1. UNCHANGED <<tables, ctlVars>>
    BY <1>9, WorkerAlone DEF Disconnect, WorkerCrash
  <2> QED BY <2>1
<1>10. CASE ControllerCrash \/ UNCHANGED vars
  BY <1>7, <1>10 DEF ControllerCrash, vars
<1> QED BY <1>5, <1>7, <1>8, <1>9, <1>10 DEF Next

(* A cancelled assignment without an active lease stays so. *)
LEMMA DeadStays ==
    ASSUME TableInv, [Next]_vars, NEW b \in Assignments, Dead(b) PROVE Dead(b)'
<1> USE DEF TableInv, TableType, tables, ctlVars
<1>0. status[b] = "cancelled" /\ \A n \in DOMAIN leases : leases[n].a = b => leases[n].status # "active"
  BY DEF Dead, ActiveLease
<1>a. ASSUME status'[b] = status[b],
             \A n \in DOMAIN leases' : leases'[n].a = b =>
                n \in DOMAIN leases /\ leases[n].a = b /\ (leases'[n].status = "active" => leases[n].status = "active")
      PROVE  Dead(b)'
  BY <1>0, <1>a DEF Dead, ActiveLease
<1>b. status'[b] = status[b] /\ leases' = leases => Dead(b)'
  BY <1>a
<1>1. ASSUME NEW a \in Assignments, NEW w \in Workers, Acquire(a, w) PROVE Dead(b)'
  <2>1. a # b
    BY <1>0, <1>1 DEF Acquire, Leasable
  <2>2. /\ status'[b] = status[b]
        /\ leases' = Append(leases, [a |-> a, w |-> w, status |-> "active", left |-> LeaseTime, given |-> LeaseTime])
    BY <1>1, <2>1 DEF Acquire
  <2>3. \A n \in DOMAIN leases' : \/ n \in DOMAIN leases /\ leases'[n] = leases[n]
                                  \/ leases'[n].a = a
    BY <2>2, LeaseFacts
  <2> QED BY <1>a, <2>1, <2>2, <2>3
<1>2. CASE AcquireRemoteLease
  <2>1. ctl.a \in Assignments /\ ctl.w \in Workers
    BY <1>2 DEF AcquireRemoteLease, Position, Idle
  <2> QED BY <1>1, <1>2, <2>1 DEF AcquireRemoteLease
<1>3. CASE RevokeLease \/ ReleaseLease
  <2>1. ctl.token \in DOMAIN leases /\ leases' = Released(ctl.token) /\ status' = status
    BY <1>3 DEF RevokeLease, ReleaseLease, EndsSettled
  <2> QED BY <1>a, <2>1, ReleasedFacts
<1>4. CASE ExpireLeases
  <2>1. \A n \in DOMAIN leases : leases[n] \in Lease
    BY LeaseFacts
  <2>2. DOMAIN leases' = DOMAIN leases
    BY <1>4 DEF ExpireLeases
  <2>3. \A n \in DOMAIN leases : leases'[n] = leases[n] \/ leases'[n] = [leases[n] EXCEPT !.status = "expired"]
    BY <1>4 DEF ExpireLeases
  <2>4. status'[b] = status[b]
    BY <1>0, <1>4 DEF ExpireLeases, Flips
  <2>5. \A n \in DOMAIN leases : /\ leases'[n].a = leases[n].a
                                 /\ leases'[n].status = "active" => leases[n].status = "active"
    BY <2>1, <2>3 DEF Lease
  <2> QED BY <1>a, <2>2, <2>4, <2>5
<1>5. CASE Tick
  <2>1. status' = status
    BY <1>5 DEF Tick
  <2> QED BY <1>a, <1>5, <2>1, TickFacts
<1>6. ASSUME NEW w \in Workers, AcceptEvent(w) PROVE Dead(b)'
  <2> DEFINE n == Head(toCtl[w]).token
  <2>1. n \in DOMAIN leases /\ leases[n].status = "active" /\ leases[n] \in Lease
    BY <1>6, LeaseFacts DEF AcceptEvent, Fenced
  <2>2. leases[n].a # b
    BY <1>0, <2>1
  <2>3. /\ status' = status \/ \E x : status' = [status EXCEPT ![leases[n].a] = x]
        /\ leases' = leases \/ leases' = [leases EXCEPT ![n].left = LeaseTime]
    BY <1>6 DEF AcceptEvent, Of
  <2> HIDE DEF n
  <2>4. status'[b] = status[b]
    BY <2>2, <2>3
  <2>5. DOMAIN leases' = DOMAIN leases /\ \A m \in DOMAIN leases : leases[m] \in Lease
    BY <2>3, LeaseFacts
  <2>6. \A m \in DOMAIN leases : leases'[m] = leases[m] \/ leases'[m] = [leases[m] EXCEPT !.left = LeaseTime]
    BY <2>3
  <2>7. \A m \in DOMAIN leases : leases'[m].a = leases[m].a /\ leases'[m].status = leases[m].status
    BY <2>5, <2>6 DEF Lease
  <2> QED BY <1>a, <2>4, <2>5, <2>7
<1>7. ASSUME NEW a \in Assignments, Cancel(a) \/ \E w \in Workers : AssignRemote(a, w)
      PROVE  Dead(b)'
  <2>1. leases' = leases /\ (status'[b] = status[b] \/ (a = b /\ status'[a] = "cancelled"))
    BY <1>0, <1>7 DEF AssignRemote, Cancel
  <2> QED BY <1>0, <1>b, <2>1
<1>8. CASE Controller
  BY <1>1, <1>2, <1>3, <1>4, <1>6, <1>7, <1>8, <1>b
     DEF Controller, Redispatch, SendDispatch, SendCancel, AbandonRecovery, Attach,
         Replay, ReceiveAck, RejectEvent
<1>9. ASSUME NEW w \in Workers, Worker(w) \/ Disconnect(w) \/ WorkerCrash(w) PROVE UNCHANGED <<status, leases>>
  <2>1. UNCHANGED <<tables, ctlVars>>
    BY <1>9, WorkerAlone DEF Disconnect, WorkerCrash
  <2> QED BY <2>1
<1>10. CASE ControllerCrash \/ UNCHANGED vars
  BY <1>b, <1>10 DEF ControllerCrash, vars
<1> QED BY <1>5, <1>8, <1>9, <1>10, <1>b DEF Next

-----------------------------------------------------------------------------
(* What a worker has on record goes on to an end and stays there. *)
RecordsGrow ==
    \A w \in Workers, a \in Assignments :
        /\ record[w][a] \in Settled => record'[w][a] \in Settled
        /\ record[w][a] # "none" => record'[w][a] # "none"

LEMMA RecordsOnlyGrow == ASSUME RunInv, [Next]_vars PROVE RecordsGrow
<1> USE DEF RunInv, RestType
<1>1. ASSUME NEW w \in Workers, NEW r \in {"completed", "failed", "cancelled"},
             \E a : record' = [record EXCEPT ![w][a] = r]
      PROVE  RecordsGrow
  BY <1>1 DEF RecordsGrow, Settled
<1>2. record' = record => RecordsGrow
  BY DEF RecordsGrow
<1>3. ASSUME NEW w \in Workers, BeginExecution(w) PROVE RecordsGrow
  <2>1. PICK a : record' = [record EXCEPT ![w][a] = "running"] /\ record[w][a] = "none"
    BY <1>3 DEF BeginExecution, Fresh
  <2> QED BY <2>1 DEF RecordsGrow, Settled
<1>4. ASSUME NEW w \in Workers, Worker(w) PROVE RecordsGrow
  <2>1. CASE HandleCancel(w)
    BY <1>1, <2>1 DEF HandleCancel
  <2>2. CASE AnswerDispatch(w)
    BY <1>2, <2>2 DEF AnswerDispatch, wrkVars
  <2>3. ASSUME NEW x \in execs[w], StartExecution(w, x) \/ Renew(w, x) \/ FinishHandling(w, x) PROVE RecordsGrow
    BY <1>2, <2>3 DEF StartExecution, Renew, FinishHandling, wrkVars
  <2>4. ASSUME NEW x \in execs[w], ToolReturns(w, x) \/ ToolThrows(w, x) \/ StallEnds(w, x) PROVE RecordsGrow
    <3>1. record' = record \/ \E r \in {"completed", "failed", "cancelled"} : record' = [record EXCEPT ![w][Of(x)] = r]
      BY <2>4 DEF ToolReturns, ToolThrows, StallEnds
    <3> QED BY <1>1, <1>2, <3>1
  <2> QED BY <1>3, <1>4, <2>1, <2>2, <2>3, <2>4 DEF Worker
<1>5. ASSUME Controller PROVE record' = record
  <2> USE DEF wrkVars
  <2>1. \A a \in Assignments, w \in Workers : AssignRemote(a, w) \/ Redispatch(a, w) => record' = record
    BY DEF AssignRemote, Redispatch, Acquire
  <2>2. \A a \in Assignments : Cancel(a) => record' = record
    BY DEF Cancel
  <2>3. AcquireRemoteLease \/ SendDispatch \/ RevokeLease \/ SendCancel \/ ReleaseLease \/ ExpireLeases \/ AbandonRecovery
          => record' = record
    BY DEF AcquireRemoteLease, Acquire, SendDispatch, RevokeLease, SendCancel, ReleaseLease, ExpireLeases, AbandonRecovery
  <2>4. \A w \in Workers : Attach(w) \/ Replay(w) \/ ReceiveAck(w) \/ RejectEvent(w) \/ AcceptEvent(w) => record' = record
    BY DEF Attach, Replay, ReceiveAck, RejectEvent, AcceptEvent, Take
  <2> QED BY <1>5, <2>1, <2>2, <2>3, <2>4 DEF Controller
<1>6. ASSUME NEW w \in Workers, Disconnect(w) \/ WorkerCrash(w) PROVE record' = record
  BY <1>6 DEF Disconnect, WorkerCrash, wrkVars
<1>7. ControllerCrash \/ Tick \/ UNCHANGED vars => record' = record
  BY DEF ControllerCrash, Tick, vars, wrkVars
<1> QED BY <1>2, <1>4, <1>5, <1>6, <1>7 DEF Next

(* So what was well founded stays so. *)
LEMMA GoodGrows ==
    ASSUME RunInv, [Next]_vars
    PROVE  /\ TableInv'
           /\ \A n \in DOMAIN leases : n \in DOMAIN leases' /\ leases'[n].a = leases[n].a /\ leases[n].a \in Assignments
           /\ \A b \in Assignments : Dead(b) => Dead(b)'
           /\ GoodOrder \subseteq GoodOrder' /\ GoodRow \subseteq GoodRow'
           /\ \A w \in Workers : GoodEvent(w) \subseteq GoodEvent(w)'
<1>1. TableInv'
  BY TableStep DEF RunInv
<1>2. \A n \in DOMAIN leases : n \in DOMAIN leases' /\ leases'[n].a = leases[n].a /\ leases[n].a \in Assignments
  BY LeasesOnlyGrow, LeaseFacts DEF RunInv, TableInv, LeasesGrow, Lease
<1>3. \A b \in Assignments : Dead(b) => Dead(b)'
  BY DeadStays DEF RunInv
<1>4. GoodOrder \subseteq GoodOrder'
  BY <1>2, <1>3 DEF GoodOrder, Of
<1>5. GoodRow \subseteq GoodRow'
  BY <1>4 DEF GoodRow
<1>6. \A w \in Workers : GoodEvent(w) \subseteq GoodEvent(w)'
  BY <1>2, RecordsOnlyGrow DEF GoodEvent, Of, RecordsGrow
<1> QED BY <1>1, <1>2, <1>3, <1>4, <1>5, <1>6

LEMMA OutboxSame ==
    ASSUME RunInv, [Next]_vars, outbox' = outbox PROVE outbox' \in [Workers -> Seq(GoodRow')]
<1>1. Seq(GoodRow) \subseteq Seq(GoodRow')
  BY GoodGrows, SeqMonotone
<1> QED BY <1>1 DEF RunInv, MessagesBacked

LEMMA ToWorkerSame ==
    ASSUME RunInv, [Next]_vars, toWorker' = toWorker PROVE toWorker' \in [Workers -> Seq(GoodOrder')]
<1>1. Seq(GoodOrder) \subseteq Seq(GoodOrder')
  BY GoodGrows, SeqMonotone
<1> QED BY <1>1 DEF RunInv, MessagesBacked

Speaks == /\ toCtl = [w \in Workers |-> toCtl[w]]
          /\ \A w \in Workers : toCtl[w] \in Seq(GoodEvent(w) \cup Ack)

LEMMA SpeechGrows ==
    ASSUME RunInv, [Next]_vars
    PROVE  \A w \in Workers : Seq(GoodEvent(w) \cup Ack) \subseteq Seq(GoodEvent(w)' \cup Ack)
<1> SUFFICES ASSUME NEW w \in Workers PROVE Seq(GoodEvent(w) \cup Ack) \subseteq Seq(GoodEvent(w)' \cup Ack)
  OBVIOUS
<1>1. GoodEvent(w) \cup Ack \subseteq GoodEvent(w)' \cup Ack
  BY GoodGrows
<1> QED BY <1>1, SeqMonotone

LEMMA ToCtlSame ==
    ASSUME RunInv, [Next]_vars, toCtl' = toCtl PROVE Speaks'
BY SpeechGrows DEF RunInv, MessagesBacked, Speaks

(* Executions that are not touched stay recorded, those that are left are gone. *)
LEMMA RunsFewer ==
    ASSUME RunInv, [Next]_vars, UNCHANGED <<record, ran>>, \A w \in Workers : execs'[w] \subseteq execs[w]
    PROVE  RunsRecorded'
<1>1. \A w \in Workers : \A x \in execs[w] : x.token \in DOMAIN leases
  BY DEF RunInv, RunsRecorded
<1>2. \A w \in Workers : \A x \in execs[w] : x.token \in DOMAIN leases' /\ Of(x)' = Of(x)
  BY <1>1, GoodGrows DEF Of
<1> QED BY <1>2, GoodGrows DEF RunInv, RunsRecorded

LEMMA RunsSame ==
    ASSUME RunInv, [Next]_vars, UNCHANGED wrkVars PROVE RunsRecorded'
BY RunsFewer DEF wrkVars

LEMMA CompletedSame ==
    ASSUME RunInv, [Next]_vars, RunsRecorded', RestType',
           \A a \in Assignments : status'[a] = "completed" => status[a] = "completed"
    PROVE  CompletedHasEnded'
<1> SUFFICES ASSUME NEW a \in Assignments, status'[a] = "completed"
             PROVE  \E w \in Workers : record'[w][a] \in {"completed", "failed"}
  BY DEF CompletedHasEnded
<1>1. PICK w \in Workers : record[w][a] \in {"completed", "failed"}
  BY DEF RunInv, CompletedHasEnded
<1>2. record'[w][a] \in Settled
  BY <1>1, RecordsOnlyGrow DEF RecordsGrow, Settled
<1>3. record'[w][a] # "cancelled"
  BY DEF RunsRecorded, Dead
<1> QED BY <1>2, <1>3 DEF Settled

-----------------------------------------------------------------------------
(* The controller.  First the steps that touch nothing but its tables. *)
LEMMA QuietKeeps ==
    ASSUME RunInv, [Next]_vars, UNCHANGED <<outbox, netVars, wrkVars>>,
           holder' \in [Assignments -> Workers \cup {NoWorker}], settler' = settler,
           todo' \subseteq Assignments, CtlBacked',
           \A a \in Assignments : status'[a] = "completed" => status[a] = "completed"
    PROVE  RunInv'
<1>1. RestType'
  BY DEF RunInv, RestType, netVars, wrkVars
<1>2. MessagesBacked'
  BY OutboxSame, ToWorkerSame, ToCtlSame DEF MessagesBacked, Speaks, netVars
<1>3. RunsRecorded' /\ TableInv'
  BY RunsSame, GoodGrows
<1>4. CompletedHasEnded'
  BY <1>1, <1>3, CompletedSame
<1> QED BY <1>1, <1>2, <1>3, <1>4 DEF RunInv

LEMMA AcquireRuns ==
    ASSUME RunInv, NEW a \in Assignments, NEW w \in Workers, Acquire(a, w)
    PROVE  /\ CtlBacked' /\ UNCHANGED <<netVars, wrkVars, settler>>
           /\ holder' \in [Assignments -> Workers \cup {NoWorker}]
           /\ \A b \in Assignments : status'[b] = "completed" => status[b] = "completed"
<1>1. /\ held' = [held EXCEPT ![a] = Len(leases) + 1] /\ ctl'.pc = "record" /\ ctl'.a = a
      /\ status' = [status EXCEPT ![a] = "dispatched"] /\ holder' = [holder EXCEPT ![a] = w]
      /\ UNCHANGED <<netVars, wrkVars, settler>>
      /\ leases' = Append(leases, [a |-> a, w |-> w, status |-> "active", left |-> LeaseTime, given |-> LeaseTime])
  BY DEF Acquire, Holding
<1>2. Len(leases) + 1 \in DOMAIN leases'
  BY <1>1, LeaseFacts DEF RunInv, TableInv
<1>3. held'[a] = Len(leases) + 1
  BY <1>1 DEF RunInv, TableInv, TableType
<1>4. CtlBacked'
  BY <1>1, <1>2, <1>3 DEF CtlBacked
<1> QED BY <1>1, <1>4 DEF RunInv, RestType, TableInv, TableType

LEMMA TablesRun ==
    ASSUME RunInv, [Next]_vars,
           \/ \E a \in Assignments, w \in Workers : AssignRemote(a, w)
           \/ AcquireRemoteLease \/ ExpireLeases \/ AbandonRecovery \/ Tick
           \/ \E a \in Assignments : Cancel(a)
           \/ RevokeLease \/ ReleaseLease
    PROVE  RunInv'
<1> USE DEF tables, ctlVars
<1>1. ASSUME NEW a \in Assignments, NEW w \in Workers, AssignRemote(a, w) PROVE RunInv'
  <2>1. CtlBacked'
    BY <1>1 DEF AssignRemote, CtlBacked
  <2>2. holder' \in [Assignments -> Workers \cup {NoWorker}]
    BY <1>1 DEF AssignRemote, RunInv, RestType
  <2> QED BY <1>1, <2>1, <2>2, QuietKeeps DEF AssignRemote, RunInv, RestType, TableInv, TableType
<1>2. CASE AcquireRemoteLease
  <2>1. ctl.a \in Assignments /\ ctl.w \in Workers
    BY <1>2 DEF AcquireRemoteLease, RunInv, TableInv, TableType, Position, Idle
  <2>2. UNCHANGED <<outbox, todo>> /\ Acquire(ctl.a, ctl.w)
    BY <1>2 DEF AcquireRemoteLease
  <2> QED BY <2>1, <2>2, AcquireRuns, QuietKeeps DEF RunInv, RestType
<1>3. CASE ExpireLeases
  <2>1. CtlBacked' /\ holder' = holder /\ settler' = settler /\ todo' \subseteq Assignments
    BY <1>3 DEF ExpireLeases, CtlBacked, Idle
  <2>2. \A a \in Assignments : status'[a] = "completed" => status[a] = "completed"
    BY <1>3 DEF ExpireLeases
  <2>3. UNCHANGED <<outbox, netVars, wrkVars>>
    BY <1>3 DEF ExpireLeases
  <2> QED BY <2>1, <2>2, <2>3, QuietKeeps DEF RunInv, RestType
<1>4. CASE AbandonRecovery
  <2>1. CtlBacked' /\ UNCHANGED <<holder, settler, status, outbox, netVars, wrkVars>> /\ todo' \subseteq todo
    BY <1>4 DEF AbandonRecovery, CtlBacked, Idle
  <2> QED BY <2>1, QuietKeeps DEF RunInv, RestType
<1>5. CASE Tick
  <2>1. CtlBacked' /\ UNCHANGED <<holder, settler, status, outbox, todo, netVars, wrkVars>>
    BY <1>5 DEF Tick, CtlBacked, Idle
  <2> QED BY <2>1, QuietKeeps DEF RunInv, RestType
<1>6. ASSUME NEW a \in Assignments, Cancel(a) PROVE RunInv'
  <2>1. /\ status' = [status EXCEPT ![a] = "cancelled"] /\ held[a] # 0 /\ leases' = leases /\ held' = held
        /\ ctl'.pc = "revoke" /\ ctl'.token = held[a]
        /\ UNCHANGED <<holder, settler, outbox, todo, netVars, wrkVars>>
    BY <1>6 DEF Cancel
  <2>2. leases[held[a]].a = a
    BY <2>1 DEF RunInv, TableInv, HeldIsNewest
  <2>3. CtlBacked'
    BY <2>1, <2>2 DEF CtlBacked, RunInv, TableInv, TableType
  <2>4. \A b \in Assignments : status'[b] = "completed" => status[b] = "completed"
    BY <2>1 DEF RunInv, TableInv, TableType
  <2> QED BY <2>1, <2>3, <2>4, QuietKeeps DEF RunInv, RestType
<1>7. CASE RevokeLease
  <2>0. PICK n, a : n = ctl.token /\ a = leases[n].a
    OBVIOUS
  <2>1. /\ leases' = Released(n) /\ ctl.pc = "revoke" /\ n \in DOMAIN leases /\ status[a] = "cancelled" /\ held[a] = n
        /\ UNCHANGED <<status, held, holder, settler, outbox, todo, netVars, wrkVars>>
    BY <1>7, <2>0 DEF RevokeLease, RunInv, TableInv, EndsSettled, CtlBacked
  <2>2. ctl \in [pc : {"revoke", "notify"}, w : Workers, token : Token]
    BY <2>1 DEF RunInv, TableInv, TableType, Position, Idle
  <2>3. ctl'.pc = "notify" /\ ctl'.token = n
    BY <1>7, <2>0, <2>2 DEF RevokeLease
  <2>4. /\ DOMAIN leases' = DOMAIN leases
        /\ \A m \in DOMAIN leases : leases'[m].a = leases[m].a /\ (leases'[m].status = "active" => leases[m].status = "active")
    BY <2>1, ReleasedFacts DEF RunInv, TableInv
  <2>5. leases'[n].status # "active"
    BY <2>1, LeaseFacts DEF Released, Lease, RunInv, TableInv
  <2>6. \A m \in DOMAIN leases : leases[m].status = "active" /\ leases[m].a = a => m = n
    BY <2>1 DEF RunInv, TableInv, OneActiveLease
  <2>7. status'[a] = "cancelled" /\ \A m \in DOMAIN leases' : leases'[m].a = a => leases'[m].status # "active"
    BY <2>1, <2>4, <2>5, <2>6
  <2>8. leases'[n].a = a
    BY <2>0, <2>1, <2>4
  <2>9. Dead(a)'
    BY <2>7 DEF Dead, ActiveLease
  <2>10. CtlBacked'
    BY <2>1, <2>3, <2>4, <2>8, <2>9 DEF CtlBacked
  <2> QED BY <2>1, <2>10, QuietKeeps DEF RunInv, RestType
<1>8. CASE ReleaseLease
  <2>1. CtlBacked' /\ UNCHANGED <<holder, settler, status, outbox, todo, netVars, wrkVars>>
    BY <1>8 DEF ReleaseLease, CtlBacked, Idle
  <2> QED BY <2>1, QuietKeeps DEF RunInv, RestType
<1> QED BY <1>1, <1>2, <1>3, <1>4, <1>5, <1>6, <1>7, <1>8

(* What has to be seen of a step that completes nothing. *)
LEMMA StepKeeps ==
    ASSUME RunInv, [Next]_vars, RestType', CtlBacked', RunsRecorded',
           outbox' \in [Workers -> Seq(GoodRow')], toWorker' \in [Workers -> Seq(GoodOrder')], Speaks',
           \A a \in Assignments : status'[a] = "completed" => status[a] = "completed"
    PROVE  RunInv'
BY GoodGrows, CompletedSame DEF RunInv, MessagesBacked, Speaks

(* A message that is taken from its channel leaves the others there. *)
LEMMA TailIsSeq == ASSUME NEW S, NEW s \in Seq(S), s # <<>> PROVE Head(s) \in S /\ Tail(s) \in Seq(S)
OBVIOUS

(* An acknowledged row is of the same order. *)
LEMMA AckedIsGood == \A r \in GoodRow : [r EXCEPT !.acked = TRUE] \in GoodRow
<1> SUFFICES ASSUME NEW r \in GoodRow PROVE [r EXCEPT !.acked = TRUE] \in GoodRow
  OBVIOUS
<1>1. r \in [order : Order, acked : BOOLEAN] /\ r.order \in GoodOrder
  BY DEF GoodRow, Row
<1>2. [r EXCEPT !.acked = TRUE] \in [order : Order, acked : BOOLEAN] /\ [r EXCEPT !.acked = TRUE].order = r.order
  BY <1>1
<1> QED BY <1>1, <1>2 DEF GoodRow, Row

(* An order is recorded and sent. *)
LEMMA RecordedKeeps ==
    ASSUME RunInv, [Next]_vars, NEW w \in Workers, NEW type \in {"dispatch", "cancel"},
           NEW token \in DOMAIN leases, type = "cancel" => Dead(leases[token].a),
           Recorded(w, type, token)
    PROVE  outbox' \in [Workers -> Seq(GoodRow')] /\ toWorker' \in [Workers -> Seq(GoodOrder')]
<1> DEFINE o == [type |-> type, token |-> token, n |-> Len(outbox[w]) + 1]
           r == [order |-> o, acked |-> FALSE]
<1>1. token \in Token
  BY LeaseFacts, ConstantsAssumption DEF RunInv, TableInv, TableType, Token
<1>2. Len(outbox[w]) + 1 \in Nat \ {0}
  BY DEF RunInv, MessagesBacked
<1>3. o \in GoodOrder
  BY <1>1, <1>2 DEF GoodOrder, Order, Of
<1>4. r \in GoodRow
  BY <1>3 DEF GoodRow, GoodOrder, Row
<1>5. /\ outbox' = [outbox EXCEPT ![w] = Append(@, r)]
      /\ toWorker' = toWorker \/ toWorker' = [toWorker EXCEPT ![w] = Append(@, o)]
  BY DEF Recorded
<1> HIDE DEF o, r
<1>6. outbox' \in [Workers -> Seq(GoodRow)] /\ toWorker' \in [Workers -> Seq(GoodOrder)]
  <2>1. outbox \in [Workers -> Seq(GoodRow)] /\ toWorker \in [Workers -> Seq(GoodOrder)]
    BY DEF RunInv, MessagesBacked
  <2>2. Append(outbox[w], r) \in Seq(GoodRow)
    BY <1>4, <2>1
  <2>3. Append(toWorker[w], o) \in Seq(GoodOrder)
    BY <1>3, <2>1
  <2>4. outbox' \in [Workers -> Seq(GoodRow)]
    BY <1>5, <2>1, <2>2
  <2>5. toWorker' \in [Workers -> Seq(GoodOrder)]
    BY <1>5, <2>1, <2>3
  <2> QED BY <2>4, <2>5
<1>7. Seq(GoodRow) \subseteq Seq(GoodRow') /\ Seq(GoodOrder) \subseteq Seq(GoodOrder')
  BY GoodGrows, SeqMonotone
<1> QED BY <1>6, <1>7

LEMMA SendKeeps ==
    ASSUME RunInv, [Next]_vars, SendDispatch \/ SendCancel PROVE RunInv'
<1> USE DEF tables, ctlVars
<1>1. PICK w \in Workers, type \in {"dispatch", "cancel"}, token \in DOMAIN leases :
        Recorded(w, type, token) /\ (type = "cancel" => Dead(leases[token].a))
  <2>1. CASE SendDispatch
    <3>1. ctl.w \in Workers /\ held[ctl.a] \in DOMAIN leases
      BY <2>1 DEF SendDispatch, RunInv, CtlBacked, TableInv, TableType, Position, Idle
    <3> QED BY <2>1, <3>1 DEF SendDispatch
  <2>2. CASE SendCancel
    <3>1. ctl.w \in Workers /\ ctl.token \in DOMAIN leases /\ Dead(leases[ctl.token].a)
      BY <2>2 DEF SendCancel, RunInv, CtlBacked, TableInv, TableType, Position, Idle
    <3> QED BY <2>2, <3>1 DEF SendCancel
  <2> QED BY <2>1, <2>2
<1>2. /\ UNCHANGED <<status, holder, held, leases, settler, todo, known, links, linked, replay, toCtl, cursors, latest, wrkVars>>
      /\ ctl' = Idle
  BY DEF SendDispatch, SendCancel
<1>3. RestType' /\ CtlBacked'
  BY <1>2 DEF RunInv, RestType, wrkVars, CtlBacked, Idle
<1>4. outbox' \in [Workers -> Seq(GoodRow')] /\ toWorker' \in [Workers -> Seq(GoodOrder')]
  BY <1>1, RecordedKeeps
<1>5. RunsRecorded' /\ Speaks'
  BY <1>2, RunsSame, ToCtlSame
<1> QED BY <1>2, <1>3, <1>4, <1>5, StepKeeps

LEMMA RedispatchRuns ==
    ASSUME RunInv, [Next]_vars, NEW a \in Assignments, NEW w \in Workers, Redispatch(a, w) PROVE RunInv'
<1>1. /\ Acquire(a, w) /\ todo' \subseteq todo
      /\ outbox' = [outbox EXCEPT ![w] = Superseded(@, a)]
  BY DEF Redispatch
<1>2. /\ CtlBacked' /\ UNCHANGED <<netVars, wrkVars, settler>>
      /\ holder' \in [Assignments -> Workers \cup {NoWorker}]
      /\ \A b \in Assignments : status'[b] = "completed" => status[b] = "completed"
  BY <1>1, AcquireRuns
<1>3. Superseded(outbox[w], a) \in Seq(GoodRow)
  <2> DEFINE rows == outbox[w]
  <2>1. rows \in Seq(GoodRow)
    BY DEF RunInv, MessagesBacked
  <2> HIDE DEF rows
  <2>2. \A i \in DOMAIN rows : rows[i] \in GoodRow /\ [rows[i] EXCEPT !.acked = TRUE] \in GoodRow
    <3>1. \A i \in DOMAIN rows : rows[i] \in GoodRow
      BY <2>1
    <3> QED BY <3>1, AckedIsGood
  <2>3. Superseded(rows, a) = [i \in 1 .. Len(rows) |-> Superseded(rows, a)[i]]
    BY <2>1 DEF Superseded
  <2>4. \A i \in DOMAIN rows : Superseded(rows, a)[i] \in GoodRow
    BY <2>2 DEF Superseded
  <2>5. Superseded(rows, a) \in [1 .. Len(rows) -> GoodRow] /\ Len(rows) \in Nat
    <3>1. DOMAIN rows = 1 .. Len(rows) /\ Len(rows) \in Nat
      BY <2>1
    <3> QED BY <2>3, <2>4, <3>1
  <2>6. Superseded(rows, a) \in Seq(GoodRow)
    BY <2>5
  <2> QED BY <2>6 DEF rows
<1>4. outbox' \in [Workers -> Seq(GoodRow)]
  BY <1>1, <1>3 DEF RunInv, MessagesBacked
<1>5. outbox' \in [Workers -> Seq(GoodRow')]
  BY <1>4, GoodGrows, SeqMonotone
<1>6. RestType'
  BY <1>1, <1>2 DEF RunInv, RestType, netVars, wrkVars
<1>7. RunsRecorded' /\ Speaks' /\ toWorker' \in [Workers -> Seq(GoodOrder')]
  BY <1>2, RunsSame, ToCtlSame, ToWorkerSame DEF netVars
<1> QED BY <1>2, <1>5, <1>6, <1>7, StepKeeps

LEMMA AttachRuns ==
    ASSUME RunInv, [Next]_vars, NEW w \in Workers, Attach(w) PROVE RunInv'
<1>1. /\ UNCHANGED <<status, holder, held, leases, outbox, settler, ctl, todo, toWorker, toCtl, cursors, latest, wrkVars>>
      /\ links' = links + 1 /\ links < MaxLinks
      /\ linked' = [linked EXCEPT ![w] = TRUE] /\ replay' = [replay EXCEPT ![w] = TRUE]
  BY DEF Attach, tables
<1>2. RestType' /\ CtlBacked'
  BY <1>1, ConstantsAssumption DEF RunInv, RestType, CtlBacked, wrkVars, Dead, ActiveLease
<1>3. /\ RunsRecorded' /\ Speaks'
      /\ outbox' \in [Workers -> Seq(GoodRow')] /\ toWorker' \in [Workers -> Seq(GoodOrder')]
  BY <1>1, RunsSame, OutboxSame, ToWorkerSame, ToCtlSame
<1> QED BY <1>1, <1>2, <1>3, StepKeeps

LEMMA ReplayRuns ==
    ASSUME RunInv, [Next]_vars, NEW w \in Workers, Replay(w) PROVE RunInv'
<1>1. /\ UNCHANGED <<status, holder, held, leases, outbox, settler, ctl, todo, links, linked, toCtl, cursors, latest, wrkVars>>
      /\ replay' = [replay EXCEPT ![w] = FALSE]
      /\ toWorker' = [toWorker EXCEPT ![w] = @ \o Orders(w)]
  BY DEF Replay, tables, ctlVars
<1>2. RestType' /\ CtlBacked'
  BY <1>1 DEF RunInv, RestType, CtlBacked, wrkVars, Dead, ActiveLease
<1>3. Orders(w) \in Seq(GoodOrder)
  <2> DEFINE S == Unacked(w)
  <2>1. S \subseteq 1 .. Len(outbox[w]) /\ Len(outbox[w]) \in Nat /\ outbox[w] \in Seq(GoodRow)
    BY DEF Unacked, RunInv, MessagesBacked
  <2>2. Orders(w) = [i \in 1 .. Cardinality(S) |-> outbox[w][Ranked(S, i)].order]
    BY DEF Orders
  <2> HIDE DEF S
  <2>3. Cardinality(S) \in Nat /\ \A i \in 1 .. Cardinality(S) : Ranked(S, i) \in S
    BY <2>1, RankedIsIn
  <2>4. \A n \in S : outbox[w][n].order \in GoodOrder
    BY <2>1 DEF GoodRow
  <2>5. Orders(w) \in [1 .. Cardinality(S) -> GoodOrder]
    BY <2>2, <2>3, <2>4
  <2> QED BY <2>3, <2>5
<1>4. toWorker' \in [Workers -> Seq(GoodOrder)]
  BY <1>1, <1>3 DEF RunInv, MessagesBacked
<1>5. toWorker' \in [Workers -> Seq(GoodOrder')]
  BY <1>4, GoodGrows, SeqMonotone
<1>6. RunsRecorded' /\ Speaks' /\ outbox' \in [Workers -> Seq(GoodRow')]
  BY <1>1, RunsSame, OutboxSame, ToCtlSame
<1> QED BY <1>1, <1>2, <1>5, <1>6, StepKeeps

LEMMA BrokenType ==
    ASSUME RestType, NEW W, Broken(W)
    PROVE  /\ links' \in 0 .. MaxLinks
           /\ linked' \in [Workers -> BOOLEAN] /\ replay' \in [Workers -> BOOLEAN]
           /\ cursors' \in [Workers -> SUBSET Token] /\ latest' \in [Workers -> 0 .. MaxTokens]
<1>1. linked' \in [Workers -> BOOLEAN]
  <2>1. linked' = [w \in Workers |-> linked[w] /\ w \notin W]
    BY DEF Broken
  <2> QED BY <2>1, Zenon
<1>2. replay' \in [Workers -> BOOLEAN]
  <2>1. replay' = [w \in Workers |-> replay[w] /\ w \notin W]
    BY DEF Broken
  <2> QED BY <2>1, Zenon
<1>3. cursors' \in [Workers -> SUBSET Token]
  BY DEF Broken, RestType
<1>4. latest' \in [Workers -> 0 .. MaxTokens]
  BY ConstantsAssumption DEF Broken, RestType
<1> QED BY <1>1, <1>2, <1>3, <1>4 DEF Broken, RestType

(* Links break: what was under way on them is gone. *)
LEMMA BrokenKeeps ==
    ASSUME RunInv, [Next]_vars, NEW W, Broken(W), UNCHANGED <<tables, todo, record, ran>>,
           execs' \in [Workers -> SUBSET Exec], \A w \in Workers : execs'[w] \subseteq execs[w],
           CtlBacked'
    PROVE  RunInv'
<1>1. RestType'
  <2>1. RestType
    BY DEF RunInv
  <2> QED BY <2>1, BrokenType DEF RestType, tables
<1>2. toWorker' \in [Workers -> Seq(GoodOrder')]
  <2>1. \A w \in Workers : toWorker[w] \in Seq(GoodOrder) /\ <<>> \in Seq(GoodOrder)
    BY DEF RunInv, MessagesBacked
  <2>2. toWorker' \in [Workers -> Seq(GoodOrder)]
    BY <2>1 DEF Broken
  <2> QED BY <2>2, GoodGrows, SeqMonotone
<1>3. Speaks'
  <2>1. /\ toCtl' = [w \in Workers |-> toCtl'[w]]
        /\ \A w \in Workers : toCtl'[w] = <<>> \/ toCtl'[w] = toCtl[w]
    BY DEF Broken
  <2>2. \A w \in Workers : toCtl'[w] \in Seq(GoodEvent(w) \cup Ack)
    <3> SUFFICES ASSUME NEW w \in Workers PROVE toCtl'[w] \in Seq(GoodEvent(w) \cup Ack)
      OBVIOUS
    <3>1. toCtl[w] \in Seq(GoodEvent(w) \cup Ack)
      BY DEF RunInv, MessagesBacked
    <3> DEFINE S == GoodEvent(w) \cup Ack
    <3> HIDE DEF S
    <3>2. toCtl[w] \in Seq(S) => toCtl'[w] \in Seq(S)
      <4>1. <<>> \in Seq(S)
        OBVIOUS
      <4>2. toCtl'[w] = <<>> \/ toCtl'[w] = toCtl[w]
        BY <2>1
      <4> QED BY <4>1, <4>2
    <3> QED BY <3>1, <3>2 DEF S
  <2> QED BY <2>1, <2>2, SpeechGrows DEF Speaks
<1>4. outbox' \in [Workers -> Seq(GoodRow')] /\ RunsRecorded'
  BY OutboxSame, RunsFewer DEF tables
<1>5. \A a \in Assignments : status'[a] = "completed" => status[a] = "completed"
  BY DEF tables
<1> QED BY <1>1, <1>2, <1>3, <1>4, <1>5, StepKeeps

LEMMA LossKeeps ==
    ASSUME RunInv, [Next]_vars, ControllerCrash \/ \E w \in Workers : Disconnect(w) \/ WorkerCrash(w)
    PROVE  RunInv'
<1>1. CASE ControllerCrash
  <2>1. Broken(Workers) /\ UNCHANGED <<tables, wrkVars>> /\ todo' = {} /\ ctl' = Idle
    BY <1>1 DEF ControllerCrash
  <2>2. CtlBacked'
    BY <2>1 DEF CtlBacked, Idle
  <2>3. RestType'
    <3>1. RestType
      BY DEF RunInv
    <3> QED BY <2>1, <3>1, BrokenType DEF RestType, tables, wrkVars
  <2>4. toWorker' \in [Workers -> Seq(GoodOrder')] /\ Speaks'
    BY <2>1 DEF Broken, Speaks
  <2>5. outbox' \in [Workers -> Seq(GoodRow')] /\ RunsRecorded'
    BY <2>1, OutboxSame, RunsSame DEF tables
  <2>6. \A a \in Assignments : status'[a] = "completed" => status[a] = "completed"
    BY <2>1 DEF tables
  <2> QED BY <2>2, <2>3, <2>4, <2>5, <2>6, StepKeeps
<1>2. ASSUME NEW w \in Workers, Disconnect(w) \/ WorkerCrash(w) PROVE RunInv'
  <2>1. Broken({w}) /\ UNCHANGED <<tables, ctlVars, record, ran>> /\ (execs' = execs \/ execs' = [execs EXCEPT ![w] = {}])
    BY <1>2 DEF Disconnect, WorkerCrash, wrkVars
  <2>2. execs' \in [Workers -> SUBSET Exec] /\ \A v \in Workers : execs'[v] \subseteq execs[v]
    BY <2>1 DEF RunInv, RestType
  <2>3. CtlBacked'
    BY <2>1 DEF RunInv, CtlBacked, tables, ctlVars, Dead, ActiveLease
  <2> QED BY <2>1, <2>2, <2>3, BrokenKeeps DEF ctlVars
<1> QED BY <1>1, <1>2

(* An envelope is taken from the controller's side of a link. *)
LEMMA TakeKeeps ==
    ASSUME RunInv, [Next]_vars, NEW w \in Workers, Take(w)
    PROVE  /\ Head(toCtl[w]) \in GoodEvent(w) \cup Ack
           /\ Speaks' /\ RunsRecorded' /\ toWorker' \in [Workers -> Seq(GoodOrder')]
           /\ UNCHANGED <<links, linked, replay, todo, known, wrkVars>>
<1>1. /\ toCtl[w] # <<>> /\ toCtl' = [toCtl EXCEPT ![w] = Tail(@)]
      /\ UNCHANGED <<links, linked, replay, toWorker, todo, known, wrkVars>>
  BY DEF Take
<1>2. toCtl = [v \in Workers |-> toCtl[v]] /\ \A v \in Workers : toCtl[v] \in Seq(GoodEvent(v) \cup Ack)
  BY DEF RunInv, MessagesBacked
<1>3. Head(toCtl[w]) \in GoodEvent(w) \cup Ack /\ Tail(toCtl[w]) \in Seq(GoodEvent(w) \cup Ack)
  BY <1>1, <1>2, TailIsSeq
<1>4. /\ toCtl' = [v \in Workers |-> toCtl'[v]]
      /\ \A v \in Workers : toCtl'[v] \in Seq(GoodEvent(v) \cup Ack)
  BY <1>1, <1>2, <1>3
<1>5. Speaks'
  BY <1>4, SpeechGrows DEF Speaks
<1> QED BY <1>1, <1>3, <1>5, RunsSame, ToWorkerSame

LEMMA AckRuns ==
    ASSUME RunInv, [Next]_vars, NEW w \in Workers, ReceiveAck(w) PROVE RunInv'
<1> DEFINE k == Head(toCtl[w]).n
<1>1. /\ Take(w) /\ UNCHANGED <<status, holder, held, leases, settler, ctl, cursors>>
      /\ latest' = [latest EXCEPT ![w] = 0]
      /\ outbox' = [outbox EXCEPT ![w] = [i \in DOMAIN @ |-> IF i <= k THEN [@[i] EXCEPT !.acked = TRUE] ELSE @[i]]]
  BY DEF ReceiveAck
<1>2. /\ Speaks' /\ RunsRecorded' /\ toWorker' \in [Workers -> Seq(GoodOrder')]
      /\ UNCHANGED <<links, linked, replay, todo, known, wrkVars>>
  BY <1>1, TakeKeeps
<1>3. RestType' /\ CtlBacked'
  BY <1>1, <1>2, ConstantsAssumption DEF RunInv, RestType, CtlBacked, wrkVars, Dead, ActiveLease
<1> HIDE DEF k
<1>4. outbox' \in [Workers -> Seq(GoodRow)]
  <2> DEFINE rows == outbox[w]
             acked == [i \in DOMAIN rows |-> IF i <= k THEN [rows[i] EXCEPT !.acked = TRUE] ELSE rows[i]]
  <2>1. rows \in Seq(GoodRow) /\ outbox \in [Workers -> Seq(GoodRow)]
    BY DEF RunInv, MessagesBacked
  <2>2. outbox' = [outbox EXCEPT ![w] = acked]
    BY <1>1
  <2> HIDE DEF rows
  <2>3. DOMAIN rows = 1 .. Len(rows) /\ Len(rows) \in Nat /\ \A i \in DOMAIN rows : rows[i] \in GoodRow
    BY <2>1
  <2>4. acked \in [1 .. Len(rows) -> GoodRow]
    BY <2>3, AckedIsGood
  <2> HIDE DEF acked
  <2>5. acked \in Seq(GoodRow)
    BY <2>3, <2>4
  <2> QED BY <2>1, <2>2, <2>5
<1>5. outbox' \in [Workers -> Seq(GoodRow')]
  BY <1>4, GoodGrows, SeqMonotone
<1> QED BY <1>1, <1>2, <1>3, <1>5, StepKeeps

LEMMA RejectRuns ==
    ASSUME RunInv, [Next]_vars, NEW w \in Workers, RejectEvent(w) PROVE RunInv'
<1>1. Take(w) /\ UNCHANGED <<tables, ctl, cursors>> /\ latest' = [latest EXCEPT ![w] = 0]
  BY DEF RejectEvent
<1>2. /\ Speaks' /\ RunsRecorded' /\ toWorker' \in [Workers -> Seq(GoodOrder')]
      /\ UNCHANGED <<links, linked, replay, todo, known, wrkVars>>
  BY <1>1, TakeKeeps
<1>3. RestType' /\ CtlBacked'
  BY <1>1, <1>2, ConstantsAssumption DEF RunInv, RestType, CtlBacked, tables, wrkVars, Dead, ActiveLease
<1>4. outbox' \in [Workers -> Seq(GoodRow')] /\ status' = status
  BY <1>1, OutboxSame DEF tables
<1> QED BY <1>2, <1>3, <1>4, StepKeeps

(* A result is accepted under an active lease, so nothing cancelled its assignment. *)
LEMMA AcceptRuns ==
    ASSUME RunInv, [Next]_vars, NEW w \in Workers, AcceptEvent(w) PROVE RunInv'
<1>0. PICK e : e = Head(toCtl[w])
  OBVIOUS
<1>1. Take(w) /\ e.type # "ack" /\ Fenced(w, e)
  BY <1>0 DEF AcceptEvent
<1>2. /\ e \in GoodEvent(w) \cup Ack /\ Speaks' /\ RunsRecorded' /\ toWorker' \in [Workers -> Seq(GoodOrder')]
      /\ UNCHANGED <<links, linked, replay, todo, known, wrkVars>>
  BY <1>0, <1>1, TakeKeeps
<1>3. e \in GoodEvent(w) /\ e \in Event
  BY <1>1, <1>2 DEF Ack, GoodEvent
<1>4. e.token \in DOMAIN leases /\ leases[e.token].status = "active" /\ Of(e) \in Assignments /\ ActiveLease(Of(e))
  BY <1>1, LeaseFacts DEF Fenced, Of, ActiveLease, RunInv, TableInv, Lease
<1>5. e.token \in Token /\ e.token \in 0 .. MaxTokens
  BY <1>3, ConstantsAssumption DEF Event, Token
<1>6. /\ cursors' = [cursors EXCEPT ![w] = @ \cup {e.token}] /\ latest' = [latest EXCEPT ![w] = e.token]
      /\ \/ UNCHANGED <<status, settler, ctl>> /\ e.type = "renew"
         \/ /\ status' = [status EXCEPT ![Of(e)] = NewStatus(e)]
            /\ settler' = [settler EXCEPT ![Of(e)] = IF NewStatus(e) \in Settled THEN e.token ELSE @]
            /\ ctl' = ctl \/ ctl'.pc = "release"
            /\ e.type # "renew"
      /\ UNCHANGED <<holder, held, outbox>> /\ ctl = Idle
  BY <1>0 DEF AcceptEvent, Take
<1>7. settler' \in [Assignments -> 0 .. MaxTokens]
  BY <1>4, <1>5, <1>6 DEF RunInv, RestType
<1>8. RestType' /\ CtlBacked'
  BY <1>2, <1>5, <1>6, <1>7 DEF RunInv, RestType, CtlBacked, wrkVars, Idle
<1>9. CompletedHasEnded'
  <2> SUFFICES ASSUME NEW a \in Assignments, status'[a] = "completed"
               PROVE  \E v \in Workers : record'[v][a] \in {"completed", "failed"}
    BY DEF CompletedHasEnded
  <2>1. CASE status[a] = "completed"
    BY <1>2, <2>1 DEF RunInv, CompletedHasEnded, wrkVars
  <2>2. CASE status[a] # "completed"
    <3>1. a = Of(e) /\ NewStatus(e) = "completed" /\ e.type # "renew"
      BY <1>6, <2>2 DEF RunInv, TableInv, TableType
    <3>2. e.type = "result" /\ e.outcome # "cancelled"
      BY <1>3, <3>1 DEF NewStatus, Event
    <3>3. record[w][a] \in Settled
      BY <1>3, <3>1, <3>2 DEF GoodEvent
    <3>4. record[w][a] # "cancelled"
      BY <1>4, <3>1 DEF RunInv, RunsRecorded, Dead
    <3> QED BY <1>2, <3>3, <3>4 DEF Settled, wrkVars
  <2> QED BY <2>1, <2>2
<1>10. outbox' \in [Workers -> Seq(GoodRow')]
  BY <1>6, OutboxSame
<1> QED BY <1>2, <1>8, <1>9, <1>10, GoodGrows DEF RunInv, MessagesBacked, Speaks

-----------------------------------------------------------------------------
(* The workers.  Their steps leave the tables and the controller alone. *)
LEMMA WorkerKeeps ==
    ASSUME RunInv, [Next]_vars, UNCHANGED <<tables, ctlVars, links, linked, replay, cursors, latest>>,
           toWorker' \in [Workers -> Seq(GoodOrder')], Speaks', RunsRecorded',
           record' \in [Workers -> [Assignments -> {"none", "running", "completed", "failed", "cancelled"}]],
           execs' \in [Workers -> SUBSET Exec], ran' \in [Workers -> [Assignments -> Nat]]
    PROVE  RunInv'
<1>1. RestType'
  BY DEF RunInv, RestType, tables, ctlVars
<1>2. CtlBacked'
  BY DEF RunInv, CtlBacked, tables, ctlVars, Dead, ActiveLease
<1>3. outbox' \in [Workers -> Seq(GoodRow')]
  BY OutboxSame DEF tables
<1>4. \A a \in Assignments : status'[a] = "completed" => status[a] = "completed"
  BY DEF tables
<1> QED BY <1>1, <1>2, <1>3, <1>4, StepKeeps

(* What a worker says. *)
LEMMA EmittedKeeps ==
    ASSUME RunInv, [Next]_vars, NEW w \in Workers, NEW messages \in Seq(GoodEvent(w)' \cup Ack), Emitted(w, messages)
    PROVE  Speaks' /\ UNCHANGED <<links, linked, replay, cursors, latest>>
<1>1. toCtl = [v \in Workers |-> toCtl[v]] /\ \A v \in Workers : toCtl[v] \in Seq(GoodEvent(v)' \cup Ack)
  BY SpeechGrows DEF RunInv, MessagesBacked
<1>2. toCtl' = toCtl \/ toCtl' = [toCtl EXCEPT ![w] = @ \o messages]
  BY DEF Emitted
<1>3. toCtl[w] \o messages \in Seq(GoodEvent(w)' \cup Ack)
  <2> DEFINE S == GoodEvent(w)' \cup Ack
  <2>1. toCtl[w] \in Seq(S) /\ messages \in Seq(S)
    BY <1>1
  <2> HIDE DEF S
  <2>2. toCtl[w] \o messages \in Seq(S)
    BY <2>1
  <2> QED BY <2>2 DEF S
<1>4. toCtl' = [v \in Workers |-> toCtl'[v]] /\ \A v \in Workers : toCtl'[v] \in Seq(GoodEvent(v)' \cup Ack)
  BY <1>1, <1>2, <1>3
<1> QED BY <1>4 DEF Speaks, Emitted

LEMMA ArrivesKeeps ==
    ASSUME RunInv, [Next]_vars, NEW w \in Workers, Arrives(w)
    PROVE  /\ Head(toWorker[w]) \in GoodOrder /\ toWorker' \in [Workers -> Seq(GoodOrder')]
           /\ UNCHANGED <<tables, ctlVars>>
<1>1. toWorker[w] # <<>> /\ toWorker' = [toWorker EXCEPT ![w] = Tail(@)] /\ UNCHANGED <<tables, ctlVars>>
  BY DEF Arrives
<1>2. toWorker \in [Workers -> Seq(GoodOrder)]
  BY DEF RunInv, MessagesBacked
<1>3. Head(toWorker[w]) \in GoodOrder /\ Tail(toWorker[w]) \in Seq(GoodOrder)
  BY <1>1, <1>2, TailIsSeq
<1>4. toWorker' \in [Workers -> Seq(GoodOrder)]
  BY <1>1, <1>2, <1>3
<1> QED BY <1>1, <1>3, <1>4, GoodGrows, SeqMonotone

(* An event of a lease says what the record bears out. *)
LEMMA SaysIsGood ==
    ASSUME RunInv, [Next]_vars, leases' = leases, NEW w \in Workers, NEW x, x.token \in DOMAIN leases,
           NEW type \in {"accepted", "started", "renew", "result", "error"}, NEW outcome \in Settled \cup {"none"},
           type = "result" => record'[w][Of(x)] \in Settled
    PROVE  Says(type, x, outcome) \in GoodEvent(w)' \cup Ack
<1>1. x.token \in Token
  BY LeaseFacts, ConstantsAssumption DEF RunInv, TableInv, TableType, Token
<1>2. Says(type, x, outcome) \in Event
  BY <1>1 DEF Says, Event
<1>3. Says(type, x, outcome).token = x.token /\ Says(type, x, outcome).type = type
  BY DEF Says
<1>4. Of(Says(type, x, outcome))' = Of(x)
  BY <1>3 DEF Of
<1> QED BY <1>2, <1>3, <1>4 DEF GoodEvent

LEMMA AckIsGood ==
    ASSUME NEW w, NEW x, x.n \in Nat \ {0}
    PROVE  AckOf(x) \in GoodEvent(w)' \cup Ack
BY DEF AckOf, Ack

(* A cancelled assignment is never run. *)
LEMMA CancelRuns ==
    ASSUME RunInv, [Next]_vars, NEW w \in Workers, HandleCancel(w) PROVE RunInv'
<1>0. PICK o : o = Head(toWorker[w])
  OBVIOUS
<1>1. /\ Arrives(w) /\ o.type = "cancel" /\ record' = [record EXCEPT ![w][Of(o)] = "cancelled"]
      /\ Emitted(w, <<AckOf(o)>>) /\ UNCHANGED <<execs, ran>>
  BY <1>0 DEF HandleCancel
<1>2. o \in GoodOrder /\ toWorker' \in [Workers -> Seq(GoodOrder')] /\ UNCHANGED <<tables, ctlVars>>
  BY <1>0, <1>1, ArrivesKeeps
<1>3. o.token \in DOMAIN leases /\ Dead(Of(o)) /\ Of(o) \in Assignments /\ o.n \in Nat \ {0}
  BY <1>1, <1>2, GoodGrows DEF GoodOrder, Order, Of
<1>4. Speaks' /\ UNCHANGED <<links, linked, replay, cursors, latest>>
  <2>1. <<AckOf(o)>> \in Seq(GoodEvent(w)' \cup Ack)
    BY <1>3, AckIsGood
  <2> QED BY <1>1, <2>1, EmittedKeeps
<1>5. /\ record' \in [Workers -> [Assignments -> {"none", "running", "completed", "failed", "cancelled"}]]
      /\ execs' \in [Workers -> SUBSET Exec] /\ ran' \in [Workers -> [Assignments -> Nat]]
  BY <1>1, <1>3 DEF RunInv, RestType
<1>6. RunsRecorded'
  <2>1. \A v \in Workers, a \in Assignments :
           record'[v][a] = record[v][a] \/ (record'[v][a] = "cancelled" /\ Dead(a))
    BY <1>1, <1>3 DEF RunInv, RestType
  <2>2. \A v \in Workers : \A x \in execs[v] : x.token \in DOMAIN leases /\ Of(x) \in Assignments
    BY GoodGrows DEF RunInv, RunsRecorded, Of
  <2>3. \A v \in Workers : \A x \in execs[v] : x.token \in DOMAIN leases' /\ Of(x)' = Of(x)
    BY <2>2, GoodGrows DEF Of
  <2> QED BY <1>1, <2>1, <2>2, <2>3, GoodGrows DEF RunInv, RunsRecorded
<1> QED BY <1>2, <1>4, <1>5, <1>6, WorkerKeeps

LEMMA AnswerRuns ==
    ASSUME RunInv, [Next]_vars, NEW w \in Workers, AnswerDispatch(w) PROVE RunInv'
<1>0. PICK o : o = Head(toWorker[w])
  OBVIOUS
<1>1. Arrives(w) /\ ~Fresh(w, o) /\ Emitted(w, Append(Reply(w, o), AckOf(o))) /\ UNCHANGED wrkVars
  BY <1>0 DEF AnswerDispatch
<1>2. o \in GoodOrder /\ toWorker' \in [Workers -> Seq(GoodOrder')] /\ UNCHANGED <<tables, ctlVars>>
  BY <1>0, <1>1, ArrivesKeeps
<1>3. o.token \in DOMAIN leases /\ Of(o) \in Assignments /\ o.n \in Nat \ {0}
  BY <1>1, <1>2, GoodGrows DEF GoodOrder, Order, Of
<1>4. leases' = leases /\ UNCHANGED <<record, execs, ran>>
  BY <1>1, <1>2 DEF tables, wrkVars
<1>5. Reply(w, o) \in Seq(GoodEvent(w)' \cup Ack)
  <2>1. CASE leases[o.token].given = 0
    BY <2>1 DEF Reply
  <2>2. CASE leases[o.token].given # 0 /\ record[w][Of(o)] = "running"
    <3>1. Says("error", o, "failed") \in GoodEvent(w)' \cup Ack
      BY <1>3, <1>4, SaysIsGood DEF Settled
    <3> QED BY <2>2, <3>1 DEF Reply
  <2>3. CASE leases[o.token].given # 0 /\ record[w][Of(o)] # "running"
    <3>1. leases[o.token].given > 0
      <4>1. leases[o.token].given \in 0 .. LeaseTime
        BY <1>3, LeaseFacts DEF RunInv, TableInv, Lease
      <4> QED BY <2>3, <4>1, ConstantsAssumption
    <3>2. record[w][Of(o)] \in Settled
      BY <1>1, <1>3, <2>3, <3>1 DEF Fresh, RunInv, RestType, Settled
    <3>3. Says("result", o, record[w][Of(o)]) \in GoodEvent(w)' \cup Ack
      BY <1>3, <1>4, <3>2, SaysIsGood
    <3> QED BY <2>3, <3>3 DEF Reply
  <2> QED BY <2>1, <2>2, <2>3
<1>6. Append(Reply(w, o), AckOf(o)) \in Seq(GoodEvent(w)' \cup Ack)
  BY <1>3, <1>5, AckIsGood
<1>7. Speaks' /\ UNCHANGED <<links, linked, replay, cursors, latest>>
  BY <1>1, <1>6, EmittedKeeps
<1>8. RunsRecorded'
  BY <1>1, RunsSame
<1> QED BY <1>2, <1>4, <1>7, <1>8, WorkerKeeps DEF RunInv, RestType

LEMMA BeginRuns ==
    ASSUME RunInv, [Next]_vars, NEW w \in Workers, BeginExecution(w) PROVE RunInv'
<1>0. PICK o, x : o = Head(toWorker[w]) /\ x = [token |-> o.token, n |-> o.n, pc |-> "start"]
  OBVIOUS
<1>1. /\ Arrives(w) /\ Fresh(w, o) /\ record' = [record EXCEPT ![w][Of(o)] = "running"]
      /\ execs' = [execs EXCEPT ![w] = @ \cup {x}]
      /\ Emitted(w, <<Says("accepted", o, "none")>>) /\ ran' = ran
  BY <1>0 DEF BeginExecution
<1>2. o \in GoodOrder /\ toWorker' \in [Workers -> Seq(GoodOrder')] /\ UNCHANGED <<tables, ctlVars>>
  BY <1>0, <1>1, ArrivesKeeps
<1>3. o.token \in DOMAIN leases /\ Of(o) \in Assignments /\ o \in Order /\ leases' = leases
  BY <1>1, <1>2, GoodGrows DEF GoodOrder, Of, tables
<1>4. Speaks' /\ UNCHANGED <<links, linked, replay, cursors, latest>>
  <2>1. Says("accepted", o, "none") \in GoodEvent(w)' \cup Ack
    BY <1>3, SaysIsGood
  <2>2. <<Says("accepted", o, "none")>> \in Seq(GoodEvent(w)' \cup Ack)
    BY <2>1
  <2> QED BY <1>1, <2>2, EmittedKeeps
<1>5. x \in Exec /\ x.token = o.token /\ x.pc = "start" /\ Of(x) = Of(o)
  BY <1>0, <1>3 DEF Exec, Order, Of
<1>6. /\ record' \in [Workers -> [Assignments -> {"none", "running", "completed", "failed", "cancelled"}]]
      /\ execs' \in [Workers -> SUBSET Exec] /\ ran' \in [Workers -> [Assignments -> Nat]]
  BY <1>1, <1>3, <1>5 DEF RunInv, RestType
<1>7. RunsRecorded'
  <2>1. \A v \in Workers, a \in Assignments :
           record'[v][a] = IF v = w /\ a = Of(o) THEN "running" ELSE record[v][a]
    BY <1>1, <1>3 DEF RunInv, RestType
  <2>2. \A v \in Workers : \A y \in execs[v] : y.token \in DOMAIN leases /\ record[v][Of(y)] # "none"
    BY DEF RunInv, RunsRecorded
  <2>3. \A y \in execs[w] : Of(y) # Of(o)
    BY <1>1, <2>2 DEF Fresh
  <2>4. \A v \in Workers : execs'[v] = IF v = w THEN execs[v] \cup {x} ELSE execs[v]
    BY <1>1 DEF RunInv, RestType
  <2>5. \A y : Of(y)' = Of(y)
    BY <1>3 DEF Of
  <2>6. record[w][Of(o)] = "none" /\ ran[w][Of(o)] = 0
    BY <1>1, <1>3 DEF Fresh, RunInv, RunsRecorded
  <2>7. ASSUME NEW v \in Workers, NEW a \in Assignments
        PROVE  /\ ran'[v][a] \in {0, 1}
               /\ record'[v][a] = "none" => ran'[v][a] = 0
               /\ record'[v][a] = "cancelled" => Dead(a)'
    BY <1>1, <2>1, <2>6, GoodGrows DEF RunInv, RunsRecorded
  <2>8. ASSUME NEW v \in Workers, NEW y \in execs'[v]
        PROVE  /\ y.token \in DOMAIN leases'
               /\ record'[v][Of(y)'] # "none"
               /\ y.pc = "start" => ran'[v][Of(y)'] = 0
    <3>1. CASE v = w /\ y = x
      BY <1>1, <1>3, <1>5, <2>1, <2>5, <2>6, <3>1
    <3>2. CASE y \in execs[v]
      <4>1. Of(y) \in Assignments /\ (v = w => Of(y) # Of(o))
        BY <2>2, <2>3, <3>2, GoodGrows DEF Of
      <4> QED BY <1>1, <1>3, <2>1, <2>2, <2>5, <3>2, <4>1 DEF RunInv, RunsRecorded
    <3> QED BY <2>4, <3>1, <3>2
  <2>9. ASSUME NEW v \in Workers, NEW y \in execs'[v], NEW z \in execs'[v], Of(y)' = Of(z)' PROVE y = z
    <3>1. Of(y) = Of(z)
      BY <2>5, <2>9
    <3>2. CASE y \in execs[v] /\ z \in execs[v]
      BY <3>1, <3>2 DEF RunInv, RunsRecorded
    <3>3. CASE v = w /\ (y = x \/ z = x)
      <4>1. y \in execs[w] \cup {x} /\ z \in execs[w] \cup {x} /\ Of(y) = Of(z)
        BY <2>4, <3>1, <3>3
      <4>2. \A u \in execs[w] : Of(u) # Of(x)
        BY <1>5, <2>3
      <4> QED BY <3>3, <4>1, <4>2
    <3> QED BY <2>4, <3>2, <3>3
  <2> QED BY <2>7, <2>8, <2>9 DEF RunsRecorded
<1> QED BY <1>2, <1>4, <1>6, <1>7, WorkerKeeps

(* An execution goes on, or ends; its record gets an end, and its tool is called
   once.                                                                   *)
LEMMA ExecutionGoesOn ==
    ASSUME RunInv, [Next]_vars, leases' = leases, NEW w \in Workers, NEW x \in execs[w],
           \/ UNCHANGED <<execs, ran>> \/ (Ends(w, x) /\ ran' = ran)
           \/ \E pc \in {"stalled", "ack", "broken"} : Moves(w, x, pc) /\ ran' = ran
           \/ x.pc = "start" /\ Moves(w, x, "exec") /\ ran' = [ran EXCEPT ![w][Of(x)] = @ + 1],
           record' = record \/ \E r \in {"completed", "failed"} : record' = [record EXCEPT ![w][Of(x)] = r]
    PROVE  /\ RunsRecorded'
           /\ record' \in [Workers -> [Assignments -> {"none", "running", "completed", "failed", "cancelled"}]]
           /\ execs' \in [Workers -> SUBSET Exec] /\ ran' \in [Workers -> [Assignments -> Nat]]
<1>1. /\ x \in Exec /\ x.token \in DOMAIN leases /\ record[w][Of(x)] # "none"
      /\ Of(x) \in Assignments
      /\ x.pc = "start" => ran[w][Of(x)] = 0
  BY GoodGrows DEF RunInv, RestType, RunsRecorded, Of
<1>2. /\ record' \in [Workers -> [Assignments -> {"none", "running", "completed", "failed", "cancelled"}]]
      /\ ran' \in [Workers -> [Assignments -> Nat]]
  <2> DEFINE Known == {"none", "running", "completed", "failed", "cancelled"}
  <2>0. record \in [Workers -> [Assignments -> Known]] /\ \A r \in {"completed", "failed"} : r \in Known
    BY DEF RunInv, RestType
  <2>1. record' \in [Workers -> [Assignments -> Known]]
    <3> HIDE DEF Known
    <3> QED BY <1>1, <2>0
  <2>2. ran \in [Workers -> [Assignments -> Nat]] /\ ran[w][Of(x)] + 1 \in Nat
    BY <1>1 DEF RunInv, RestType
  <2>3. ran' = ran \/ ran' = [ran EXCEPT ![w][Of(x)] = @ + 1]
    OBVIOUS
  <2>4. ran' \in [Workers -> [Assignments -> Nat]]
    BY <1>1, <2>2, <2>3
  <2> QED BY <2>1, <2>4
<1>3. \A pc \in {"exec", "stalled", "ack", "broken"} :
        [x EXCEPT !.pc = pc] \in Exec /\ [x EXCEPT !.pc = pc].pc = pc /\ [x EXCEPT !.pc = pc].token = x.token
  BY <1>1 DEF Exec
<1>a. /\ execs \in [Workers -> SUBSET Exec]
      /\ \/ execs' = execs
         \/ execs' = [execs EXCEPT ![w] = @ \ {x}]
         \/ \E y \in Exec : /\ y.token = x.token /\ y.pc # "start"
                           /\ execs' = [execs EXCEPT ![w] = (@ \ {x}) \cup {y}]
  <2>1. ASSUME NEW pc \in {"exec", "stalled", "ack", "broken"}, Moves(w, x, pc)
        PROVE  \E y \in Exec : /\ y.token = x.token /\ y.pc # "start"
                             /\ execs' = [execs EXCEPT ![w] = (@ \ {x}) \cup {y}]
    BY <1>3, <2>1 DEF Moves
  <2> QED BY <2>1 DEF Ends, RunInv, RestType
<1>4. execs' \in [Workers -> SUBSET Exec]
  BY <1>a
<1>5. \A y : Of(y)' = Of(y)
  BY DEF Of
<1>6. \A v \in Workers, a \in Assignments :
        record'[v][a] = record[v][a] \/ (v = w /\ a = Of(x) /\ record'[v][a] \in {"completed", "failed"})
  BY <1>1 DEF RunInv, RestType
<1>7. \A v \in Workers : \A y \in execs'[v] :
        \/ y \in execs[v] /\ (v = w => execs' = execs \/ y # x)
        \/ v = w /\ y.token = x.token /\ y.pc # "start" /\ execs'[w] = (execs[w] \ {x}) \cup {y}
  <2>1. CASE execs' = execs
    BY <2>1
  <2>2. CASE execs' = [execs EXCEPT ![w] = @ \ {x}]
    BY <1>a, <2>2
  <2>3. ASSUME NEW z \in Exec, z.token = x.token, z.pc # "start", execs' = [execs EXCEPT ![w] = (@ \ {x}) \cup {z}],
               NEW v \in Workers, NEW y \in execs'[v]
        PROVE  \/ y \in execs[v] /\ (v = w => y # x)
               \/ v = w /\ y.token = x.token /\ y.pc # "start" /\ execs'[w] = (execs[w] \ {x}) \cup {y}
    <3>1. \A u \in Workers : execs'[u] = IF u = w THEN (execs[w] \ {x}) \cup {z} ELSE execs[u]
      BY <1>a, <2>3
    <3> QED BY <2>3, <3>1
  <2> QED BY <1>a, <2>1, <2>2, <2>3
<1>8. \A v \in Workers, a \in Assignments :
        \/ ran'[v][a] = ran[v][a]
        \/ v = w /\ a = Of(x) /\ ran[v][a] = 0 /\ ran'[v][a] = 1
  BY <1>1 DEF RunInv, RestType
<1>9. \A v \in Workers : \A y \in execs[v] : y.token \in DOMAIN leases /\ Of(y) \in Assignments
  BY GoodGrows DEF RunInv, RunsRecorded, Of
<1>10. ASSUME NEW v \in Workers, NEW a \in Assignments
       PROVE  /\ ran'[v][a] \in {0, 1}
              /\ record'[v][a] = "none" => ran'[v][a] = 0
              /\ record'[v][a] = "cancelled" => Dead(a)'
  BY <1>1, <1>6, <1>8, GoodGrows DEF RunInv, RunsRecorded
<1>11. ASSUME NEW v \in Workers, NEW y \in execs'[v]
       PROVE  /\ y.token \in DOMAIN leases'
              /\ record'[v][Of(y)'] # "none"
              /\ y.pc = "start" => ran'[v][Of(y)'] = 0
  <2>1. CASE y \in execs[v] /\ (v = w => execs' = execs \/ y # x)
    <3>1. record'[v][Of(y)] # "none" /\ y.token \in DOMAIN leases /\ Of(y) \in Assignments
      BY <1>6, <1>9, <2>1 DEF RunInv, RunsRecorded
    <3>2. y.pc = "start" => ran'[v][Of(y)] = ran[v][Of(y)]
      <4>1. CASE v = w /\ Of(y) = Of(x)
        <5>1. y = x
          BY <2>1, <4>1 DEF RunInv, RunsRecorded
        <5>2. execs' = execs
          BY <2>1, <4>1, <5>1
        <5>3. x.pc = "start" /\ Moves(w, x, "exec") => FALSE
          <6>1. SUFFICES ASSUME x.pc = "start", Moves(w, x, "exec") PROVE FALSE
            OBVIOUS
          <6>2. execs'[w] = (execs[w] \ {x}) \cup {[x EXCEPT !.pc = "exec"]}
            BY <6>1 DEF Moves, RunInv, RestType
          <6>3. [x EXCEPT !.pc = "exec"] # x
            BY <1>3, <6>1
          <6> QED BY <5>2, <6>2, <6>3
        <5> QED BY <5>1, <5>2, <5>3
      <4>2. CASE ~(v = w /\ Of(y) = Of(x))
        BY <1>8, <1>9, <2>1, <4>2
      <4> QED BY <4>1, <4>2
    <3>3. y.pc = "start" => ran[v][Of(y)] = 0
      BY <2>1 DEF RunInv, RunsRecorded
    <3> QED BY <1>5, <3>1, <3>2, <3>3
  <2>2. CASE v = w /\ y.token = x.token /\ y.pc # "start"
    <3>1. Of(y)' = Of(x)
      BY <2>2 DEF Of
    <3> QED BY <1>1, <1>6, <2>2, <3>1
  <2> QED BY <1>7, <2>1, <2>2
<1>12. ASSUME NEW v \in Workers, NEW y \in execs'[v], NEW z \in execs'[v], Of(y)' = Of(z)' PROVE y = z
  <2>1. ASSUME NEW u \in execs'[v], u \in execs[v], v = w => execs' = execs \/ u # x,
               NEW t \in execs'[v], t.token = x.token, execs'[w] = (execs[w] \ {x}) \cup {t}, v = w, Of(u) = Of(t)
        PROVE  u = t
    <3>1. Of(t) = Of(x)
      BY <2>1 DEF Of
    <3>2. u = x
      BY <2>1, <3>1 DEF RunInv, RunsRecorded
    <3> QED BY <2>1, <3>2
  <2> QED BY <1>5, <1>7, <1>12, <2>1 DEF RunInv, RunsRecorded
<1> QED BY <1>2, <1>4, <1>10, <1>11, <1>12 DEF RunsRecorded

LEMMA ExecutionRuns ==
    ASSUME RunInv, [Next]_vars, NEW w \in Workers, NEW x \in execs[w],
           \/ StartExecution(w, x) \/ Renew(w, x) \/ ToolReturns(w, x)
           \/ ToolThrows(w, x) \/ StallEnds(w, x) \/ FinishHandling(w, x)
    PROVE  RunInv'
<1> DEFINE Said == GoodEvent(w)' \cup Ack
<1>1. UNCHANGED <<tables, ctlVars, toWorker>> /\ leases' = leases
  BY DEF StartExecution, Renew, ToolReturns, ToolThrows, StallEnds, FinishHandling, tables
<1>2. /\ x \in Exec /\ x.token \in DOMAIN leases /\ x.n \in Nat \ {0} /\ Of(x) \in Assignments
  BY GoodGrows DEF RunInv, RestType, RunsRecorded, Of, Exec
<1>3. /\ \/ UNCHANGED <<execs, ran>> \/ (Ends(w, x) /\ ran' = ran)
         \/ \E pc \in {"stalled", "ack", "broken"} : Moves(w, x, pc) /\ ran' = ran
         \/ x.pc = "start" /\ Moves(w, x, "exec") /\ ran' = [ran EXCEPT ![w][Of(x)] = @ + 1]
      /\ record' = record \/ \E r \in {"completed", "failed"} : record' = [record EXCEPT ![w][Of(x)] = r]
  <2>1. CASE StartExecution(w, x)
    BY <2>1 DEF StartExecution
  <2>2. CASE Renew(w, x) \/ FinishHandling(w, x)
    BY <2>2 DEF Renew, FinishHandling, wrkVars
  <2>3. CASE ToolReturns(w, x)
    BY <2>3 DEF ToolReturns
  <2>4. CASE ToolThrows(w, x)
    BY <2>4 DEF ToolThrows
  <2>5. CASE StallEnds(w, x)
    BY <2>5 DEF StallEnds
  <2> QED BY <2>1, <2>2, <2>3, <2>4, <2>5
<1>4. /\ RunsRecorded'
      /\ record' \in [Workers -> [Assignments -> {"none", "running", "completed", "failed", "cancelled"}]]
      /\ execs' \in [Workers -> SUBSET Exec] /\ ran' \in [Workers -> [Assignments -> Nat]]
  BY <1>1, <1>3, ExecutionGoesOn
<1>5. AckOf(x) \in Said /\ \A s \in {"started", "renew"} : Says(s, x, "none") \in Said
  BY <1>1, <1>2, AckIsGood, SaysIsGood
<1>6. Says("error", x, "failed") \in Said
  BY <1>1, <1>2, SaysIsGood DEF Settled
<1>b. \A s, t \in Said : <<s>> \in Seq(Said) /\ <<s, t>> \in Seq(Said)
  <2> HIDE DEF Said
  <2> QED OBVIOUS
<1>7. PICK messages \in Seq(Said) : Emitted(w, messages)
  <2> HIDE DEF Said
  <2>1. CASE StartExecution(w, x)
    BY <1>b, <1>5, <2>1 DEF StartExecution
  <2>2. CASE Renew(w, x)
    BY <1>b, <1>5, <2>2 DEF Renew
  <2>3. CASE ToolReturns(w, x) /\ record[w][Of(x)] = "cancelled"
    <3>1. record'[w][Of(x)] \in Settled
      BY <2>3 DEF ToolReturns, Settled
    <3>2. Says("result", x, "cancelled") \in Said
      BY <1>1, <1>2, <3>1, SaysIsGood DEF Settled, Said
    <3> QED BY <1>b, <1>5, <2>3, <3>2 DEF ToolReturns
  <2>4. CASE ToolReturns(w, x) /\ record[w][Of(x)] # "cancelled"
    <3>1. record'[w][Of(x)] \in Settled
      BY <1>2, <2>4 DEF ToolReturns, Settled, RunInv, RestType
    <3>2. Says("result", x, "completed") \in Said
      BY <1>1, <1>2, <3>1, SaysIsGood DEF Settled, Said
    <3> QED BY <1>b, <1>5, <2>4, <3>2 DEF ToolReturns
  <2>5. CASE ToolThrows(w, x)
    BY <1>b, <1>5, <1>6, <2>5 DEF ToolThrows
  <2>6. CASE StallEnds(w, x)
    <3>1. <<>> \in Seq(Said) /\ <<Says("error", x, "failed")>> \in Seq(Said)
      BY <1>6
    <3> QED BY <2>6, <3>1 DEF StallEnds
  <2>7. CASE FinishHandling(w, x)
    BY <1>b, <1>5, <2>7 DEF FinishHandling
  <2> QED BY <2>1, <2>2, <2>3, <2>4, <2>5, <2>6, <2>7
<1>8. Speaks' /\ UNCHANGED <<links, linked, replay, cursors, latest>>
  BY <1>7, EmittedKeeps
<1>9. toWorker' \in [Workers -> Seq(GoodOrder')]
  BY <1>1, ToWorkerSame
<1> QED BY <1>1, <1>4, <1>8, <1>9, WorkerKeeps

LEMMA RunsInit == Init => RunInv
<1> SUFFICES ASSUME Init PROVE RunInv
  OBVIOUS
<1>1. TableInv
  BY TableInit
<1>2. RestType
  BY ConstantsAssumption DEF Init, RestType
<1>3. outbox = [w \in Workers |-> <<>>] /\ toWorker = [w \in Workers |-> <<>>] /\ toCtl = [w \in Workers |-> <<>>]
  BY DEF Init
<1>4. <<>> \in Seq(GoodRow) /\ <<>> \in Seq(GoodOrder) /\ \A w \in Workers : <<>> \in Seq(GoodEvent(w) \cup Ack)
  OBVIOUS
<1>5. MessagesBacked
  BY <1>3, <1>4 DEF MessagesBacked
<1>6. RunsRecorded /\ CtlBacked /\ CompletedHasEnded
  BY DEF Init, RunsRecorded, CtlBacked, CompletedHasEnded, Idle
<1> QED BY <1>1, <1>2, <1>5, <1>6 DEF RunInv

LEMMA RunsStep == ASSUME RunInv, [Next]_vars PROVE RunInv'
<1>1. CASE Controller
  BY <1>1, TablesRun, SendKeeps, RedispatchRuns, AttachRuns, ReplayRuns, AckRuns, RejectRuns, AcceptRuns DEF Controller
<1>2. ASSUME NEW w \in Workers, Worker(w) PROVE RunInv'
  BY <1>2, CancelRuns, AnswerRuns, BeginRuns, ExecutionRuns DEF Worker
<1>3. CASE ControllerCrash \/ \E w \in Workers : Disconnect(w) \/ WorkerCrash(w)
  BY <1>3, LossKeeps
<1>4. CASE Tick
  BY <1>4, TablesRun
<1>5. CASE UNCHANGED vars
  <2>1. UNCHANGED <<tables, ctlVars, netVars, wrkVars>>
    BY <1>5 DEF vars
  <2>2. CtlBacked'
    BY <2>1 DEF RunInv, CtlBacked, tables, ctlVars, Dead, ActiveLease
  <2>3. /\ UNCHANGED <<holder, status, settler, todo, outbox, netVars, wrkVars>>
        /\ holder \in [Assignments -> Workers \cup {NoWorker}] /\ todo \subseteq Assignments
    BY <2>1 DEF tables, ctlVars, RunInv, RestType
  <2> QED BY <2>2, <2>3, QuietKeeps
<1> QED BY <1>1, <1>2, <1>3, <1>4, <1>5 DEF Next

(* Over lost connections, replays, takeovers, cancellations and crashes of either
   side a worker calls the tool of an assignment once (handle() records it before),
   and no assignment is completed that no execution has ended for.         *)
THEOREM ToolRunsAreRecorded == Spec => []ToolRunIsRecorded
<1>1. RunInv => ToolRunIsRecorded
  <2> SUFFICES ASSUME RunInv PROVE ToolRunIsRecorded
    OBVIOUS
  <2>1. ToolRunsOnce
    BY DEF RunInv, RunsRecorded, ToolRunsOnce
  <2>2. held \in [Assignments -> 0 .. MaxTokens]
    BY LeaseFacts, ConstantsAssumption DEF RunInv, TableInv, TableType, HeldIsNewest
  <2>3. /\ outbox \in [Workers -> Seq(Row)] /\ toWorker \in [Workers -> Seq(Order)]
        /\ toCtl \in [Workers -> Seq(Event \cup Ack)]
    <3>1. Seq(GoodRow) \subseteq Seq(Row) /\ Seq(GoodOrder) \subseteq Seq(Order)
      BY SeqMonotone DEF GoodRow, GoodOrder
    <3>2. \A w \in Workers : Seq(GoodEvent(w) \cup Ack) \subseteq Seq(Event \cup Ack)
      <4>1. \A w \in Workers : GoodEvent(w) \cup Ack \subseteq Event \cup Ack
        BY DEF GoodEvent
      <4> QED BY <4>1, SeqMonotone
    <3>3. \A w \in Workers : toCtl[w] \in Seq(Event \cup Ack)
      BY <3>2 DEF RunInv, MessagesBacked
    <3> QED BY <3>1, <3>3 DEF RunInv, MessagesBacked
  <2>4. TypeOK
    BY <2>2, <2>3 DEF RunInv, RestType, TableInv, TableType, Status, TypeOK
  <2> QED BY <2>1, <2>4 DEF RunInv, ToolRunIsRecorded
<1>2. RunInv /\ [Next]_vars => RunInv'
  BY RunsStep
<1> QED BY <1>1, <1>2, RunsInit, PTL DEF Spec
=============================================================================
