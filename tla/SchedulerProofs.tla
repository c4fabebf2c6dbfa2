--------------------------- MODULE SchedulerProofs ---------------------------
(* Proofs about Scheduler, for any schedules, rules, calendars and daemons. *)
EXTENDS Scheduler, TLAPS

-----------------------------------------------------------------------------
(* The next run of any rule is a time, or the computation throws. *)
LEMMA CronType ==
    ASSUME NEW s \in Schedules, NEW from \in Nat, Kind(s) = "cron"
    PROVE  NextCron(s, from) \in Nat \cup {Throws}
<1> USE SchedulerAssumption
<1>1. Rule[s] \in [kind : {"cron"}, minute : 0 .. HourLength - 1 \cup {Star},
                   hour : 0 .. DayLength - 1 \cup {Star}]
  BY DEF Kind, Rules
<1>2. Minutes \in Nat \ {0}
  BY DEF Minutes
<1>3. from - (from % Minutes) \in Nat
  BY <1>2
<1>4. CronMinute(s, from) \in Nat
  <2>1. LocalMinute(from) \in Nat
    BY <1>2 DEF LocalMinute
  <2> QED
    BY <1>1, <2>1 DEF CronMinute, Star
<1>5. CronHour(s, from) \in Nat
  <2>1. (from + Zone) \div HourLength \in Nat
    BY <1>2
  <2>2. LocalHour(from) \in Nat
    BY <2>1 DEF LocalHour
  <2> QED
    BY <1>1, <2>2 DEF CronHour, Star
<1>6. CronHour(s, from) * HourLength \in Nat
  BY <1>5
<1>7. CronToday(s, from) \in Nat
  BY <1>3, <1>4, <1>6 DEF CronToday
<1> QED
  BY <1>2, <1>7 DEF NextCron

LEMMA NextRunType ==
    ASSUME NEW s \in Schedules, NEW from \in Nat
    PROVE  NextRun(s, from) \in Nat \cup {Throws}
<1>1. Rule[s] \in Rules
  BY SchedulerAssumption
<1>2. CASE Kind(s) = "cron"
  BY <1>2, CronType DEF NextRun
<1>3. CASE Kind(s) = "interval"
  BY <1>1, <1>3 DEF NextRun, Kind, Rules
<1>4. CASE Kind(s) = "once"
  BY <1>1, <1>4 DEF NextRun, Kind, Rules
<1> QED
  BY <1>1, <1>2, <1>3, <1>4 DEF Kind, Rules

-----------------------------------------------------------------------------
(* Where the loop goes is a position again. *)
LEMMA ContinueType == \A rest \in SUBSET Due : Continue(rest) \in Position
  BY DEF Continue, Position

LEMMA SnapshotType == TypeOK => Snapshot \subseteq Due
<1> SUFFICES ASSUME TypeOK, NEW s \in Schedules, IsDue(s)
             PROVE  [schedule |-> s, at |-> row[s].next] \in Due
  BY DEF Snapshot
<1>1. row[s] \in Row \cup {NoRow}
  BY DEF TypeOK
<1>2. row[s] \in Row
  BY <1>1 DEF IsDue, NoRow, Row
<1> QED
  BY <1>2 DEF Row, Due

(* What a position inside the loop carries. *)
LEMMA RowPosition ==
    ASSUME TypeOK, NEW d \in Daemons, loop[d].pc = "row"
    PROVE  loop[d].rest \in SUBSET Due
<1>1. loop[d] \in Position
  BY DEF TypeOK
<1> QED
  BY <1>1 DEF Position, Idle, Ticking

LEMMA CurrentPosition ==
    ASSUME TypeOK, NEW d \in Daemons, loop[d].pc \in {"advance", "disable"}
    PROVE  /\ loop[d].rest \in SUBSET Due
           /\ loop[d].current \in Due
           /\ loop[d] = [pc |-> loop[d].pc, rest |-> loop[d].rest,
                         current |-> loop[d].current]
<1>1. loop[d] \in Position
  BY DEF TypeOK
<1>2. loop[d] \in [pc : {"advance", "disable"}, rest : SUBSET Due, current : Due]
  BY <1>1 DEF Position, Idle, Ticking
<1> QED
  BY <1>2

(* Throwing changes only the position, and the row stays in hand. *)
LEMMA ThrownPosition ==
    ASSUME TypeOK, NEW d \in Daemons, loop[d].pc \in {"advance", "disable"}
    PROVE  [loop EXCEPT ![d].pc = "disable"] =
             [loop EXCEPT ![d] = [pc |-> "disable", rest |-> loop[d].rest,
                                  current |-> loop[d].current]]
<1>1. loop[d] = [pc |-> loop[d].pc, rest |-> loop[d].rest, current |-> loop[d].current]
  BY CurrentPosition
<1>2. [loop[d] EXCEPT !.pc = "disable"] =
        [pc |-> "disable", rest |-> loop[d].rest, current |-> loop[d].current]
  BY <1>1
<1> QED
  BY <1>2

-----------------------------------------------------------------------------
(* Writing a row of an operator keeps the types. *)
LEMMA WriteType ==
    ASSUME TypeOK, NEW s \in Schedules, NEW new \in Row \cup {NoRow},
           NEW command \in {"on", "off"}, Write(s, new, command),
           loop' \in [Daemons -> Position]
    PROVE  TypeOK'
  BY DEF TypeOK, Write

LEMMA UpdatedType ==
    ASSUME TypeOK, NEW s \in Schedules, NEW new,
           Present(s) => new \in Row
    PROVE  Updated(s, new) \in [Schedules -> Row \cup {NoRow}]
  BY DEF TypeOK, Updated

LEMMA PresentType ==
    ASSUME TypeOK, NEW s \in Schedules, Present(s)
    PROVE  row[s] \in Row
  BY DEF TypeOK, Present

LEMMA OperatorType ==
    ASSUME TypeOK, NEW s \in Schedules
    PROVE  /\ Present(s) => Paused(s) \in Row
           /\ Present(s) /\ NextRun(s, now) # Throws => Resumed(s) \in Row
           /\ \A at \in Nat : NewRow(at) \in Row
<1>1. now \in Nat
  BY DEF TypeOK
<1>2. NextRun(s, now) \in Nat \cup {Throws}
  BY <1>1, NextRunType
<1>3. Present(s) => row[s] \in Row
  BY PresentType
<1> QED
  BY <1>2, <1>3 DEF Paused, Resumed, NewRow, Row

(* TypeOK is not inductive: that a row is advanced to a time, and not to the
   error nextScheduleAt threw, depends on where the loop got to.            *)
AdvancesToTime ==
    \A d \in Daemons : loop[d].pc = "advance" =>
        NextRun(loop[d].current.schedule, loop[d].current.at) # Throws
TypeInv == TypeOK /\ AdvancesToTime

LEMMA TypeInit == Init => TypeInv
  BY DEF Init, TypeInv, TypeOK, AdvancesToTime, Position, Row, Idle

LEMMA TypeStep == TypeInv /\ [Next]_vars => TypeOK'
<1> SUFFICES ASSUME TypeOK, AdvancesToTime, [Next]_vars PROVE TypeOK'
  BY DEF TypeInv
<1>1. ASSUME NEW d \in Daemons, Launch(d) PROVE TypeOK'
  BY <1>1 DEF Launch, TypeOK, tables, Position
<1>2. ASSUME NEW d \in Daemons, End(d) PROVE TypeOK'
  BY <1>2 DEF End, TypeOK, tables, Position
<1>3. ASSUME NEW d \in Daemons, ListSchedules(d) PROVE TypeOK'
  <2>1. Continue(Snapshot) \in Position
    BY SnapshotType, ContinueType
  <2> QED
    BY <1>3, <2>1 DEF ListSchedules, TypeOK, tables
<1>4. ASSUME NEW d \in Daemons, Materialize(d) PROVE TypeOK'
  <2>1. loop[d].rest \in SUBSET Due
    BY <1>4, RowPosition DEF Materialize
  <2>2. PICK r \in First(loop[d].rest) :
          /\ IF Current(r) /\ ~Recorded(r.schedule, r.at)
             THEN EnqueueScheduled(r)
             ELSE UNCHANGED <<jobs, occurrence, created>>
          /\ loop' = [loop EXCEPT ![d] =
                 [pc |-> IF NextRun(r.schedule, r.at) = Throws
                         THEN "disable" ELSE "advance",
                  rest |-> @.rest \ {r}, current |-> r]]
    BY <1>4 DEF Materialize
  <2>3. r \in Due /\ r.schedule \in Schedules /\ r.at \in Nat
    BY <2>1 DEF First, Due
  <2>4. loop' \in [Daemons -> Position]
    <3>1. [pc |-> IF NextRun(r.schedule, r.at) = Throws THEN "disable" ELSE "advance",
           rest |-> loop[d].rest \ {r}, current |-> r] \in Position
      BY <2>1, <2>3 DEF Position
    <3> QED
      BY <2>2, <3>1 DEF TypeOK
  <2>5. /\ jobs' \subseteq Job /\ occurrence' \subseteq Occurrence /\ created' \in Nat
    <3>1. CASE EnqueueScheduled(r)
      <4> DEFINE key == Identity(r.schedule, r.at)
      <4>1. key \in Schedules \X Nat
        BY <2>3 DEF Identity
      <4>2. CASE \E x \in jobs : x.key = key
        <5>1. \A x \in jobs : x.id \in Nat
          BY DEF TypeOK, Job
        <5>2. \A x \in jobs : [key |-> key, job |-> x.id] \in Occurrence
          BY <4>1, <5>1 DEF Occurrence
        <5>3. /\ occurrence' = occurrence \cup
                   {[key |-> key, job |-> x.id] : x \in {y \in jobs : y.key = key}}
              /\ UNCHANGED <<jobs, created>>
          BY <3>1, <4>2 DEF EnqueueScheduled
        <5> QED
          BY <5>2, <5>3 DEF TypeOK
      <4>3. CASE ~\E x \in jobs : x.key = key
        <5>1. /\ created' = created + 1
              /\ jobs' = jobs \cup {[id |-> created', schedule |-> r.schedule,
                                     intended |-> r.at, key |-> key]}
              /\ occurrence' = occurrence \cup {[key |-> key, job |-> created']}
          BY <3>1, <4>3 DEF EnqueueScheduled
        <5>2. created' \in Nat
          BY <5>1 DEF TypeOK
        <5>3. [id |-> created', schedule |-> r.schedule, intended |-> r.at,
               key |-> key] \in Job
          BY <2>3, <4>1, <5>2 DEF Job
        <5>4. [key |-> key, job |-> created'] \in Occurrence
          BY <4>1, <5>2 DEF Occurrence
        <5> QED
          BY <5>1, <5>2, <5>3, <5>4 DEF TypeOK
      <4> QED
        BY <4>2, <4>3
    <3>2. CASE UNCHANGED <<jobs, occurrence, created>>
      BY <3>2 DEF TypeOK
    <3> QED
      BY <2>2, <3>1, <3>2
  <2> QED
    BY <1>4, <2>4, <2>5 DEF Materialize, TypeOK
<1>5. ASSUME NEW d \in Daemons, Advance(d) PROVE TypeOK'
  <2>1. /\ loop[d].rest \in SUBSET Due /\ loop[d].current \in Due
    BY <1>5, CurrentPosition DEF Advance
  <2> DEFINE s == loop[d].current.schedule
             at == loop[d].current.at
             new == [enabled |-> Kind(s) # "once", next |-> NextOf(s, at), last |-> at]
  <2>2. s \in Schedules /\ at \in Nat
    BY <2>1 DEF Due
  <2>3. NextRun(s, at) # Throws
    BY <1>5 DEF Advance, AdvancesToTime
  <2>4. NextRun(s, at) \in Nat
    BY <2>2, <2>3, NextRunType
  <2>5. Present(s) => new \in Row
    <3> SUFFICES ASSUME Present(s) PROVE new \in Row
      OBVIOUS
    <3>1. row[s].next \in Nat
      BY <2>2, PresentType DEF Row
    <3>2. NextOf(s, at) \in Nat
      BY <2>4, <3>1 DEF NextOf
    <3> QED
      BY <2>2, <3>2 DEF Row
  <2>6. row' \in [Schedules -> Row \cup {NoRow}]
    BY <1>5, <2>2, <2>5, UpdatedType DEF Advance
  <2>7. loop' \in [Daemons -> Position]
    <3>1. Continue(loop[d].rest) \in Position
      BY <2>1, ContinueType
    <3>2. [pc |-> "disable", rest |-> loop[d].rest, current |-> loop[d].current] \in Position
      BY <2>1 DEF Position
    <3>3. CASE loop' = [loop EXCEPT ![d] = Continue(@.rest)]
      BY <3>1, <3>3 DEF TypeOK
    <3>4. CASE loop' = [loop EXCEPT ![d].pc = "disable"]
      BY <1>5, <3>2, <3>4, ThrownPosition DEF TypeOK, Advance
    <3> QED
      BY <1>5, <3>3, <3>4 DEF Advance
  <2> QED
    BY <1>5, <2>6, <2>7 DEF Advance, TypeOK
<1>6. ASSUME NEW d \in Daemons, Busy(d) PROVE TypeOK'
  <2>1. loop' \in [Daemons -> Position]
    <3>1. CASE loop[d].pc = "row"
      <4>1. loop[d].rest \in SUBSET Due
        BY <3>1, RowPosition
      <4>2. PICK r \in First(loop[d].rest) :
              loop' = [loop EXCEPT ![d] =
                  [pc |-> "disable", rest |-> @.rest \ {r}, current |-> r]]
        BY <1>6, <3>1 DEF Busy
      <4>3. [pc |-> "disable", rest |-> loop[d].rest \ {r}, current |-> r] \in Position
        BY <4>1 DEF First, Position
      <4> QED
        BY <4>2, <4>3 DEF TypeOK
    <3>2. CASE loop[d].pc = "advance"
      <4>1. [pc |-> "disable", rest |-> loop[d].rest, current |-> loop[d].current] \in Position
        BY <3>2, CurrentPosition DEF Position
      <4>2. loop' = [loop EXCEPT ![d].pc = "disable"]
        BY <1>6, <3>2 DEF Busy
      <4> QED
        BY <3>2, <4>1, <4>2, ThrownPosition DEF TypeOK
    <3> QED
      BY <1>6, <3>1, <3>2 DEF Busy
  <2> QED
    BY <1>6, <2>1 DEF Busy, TypeOK, tables
<1>7. ASSUME NEW d \in Daemons, Disable(d) PROVE TypeOK'
  <2>1. loop[d].rest \in SUBSET Due /\ loop[d].current.schedule \in Schedules
    BY <1>7, CurrentPosition DEF Disable, Due
  <2> DEFINE s == loop[d].current.schedule
             new == [row[s] EXCEPT !.enabled = FALSE]
  <2>2. Present(s) => new \in Row
    BY <2>1, PresentType DEF Row
  <2>3. row' \in [Schedules -> Row \cup {NoRow}]
    BY <1>7, <2>1, <2>2, UpdatedType DEF Disable
  <2>4. Continue(loop[d].rest) \in Position
    BY <2>1, ContinueType
  <2> QED
    BY <1>7, <2>3, <2>4 DEF Disable, TypeOK
<1>8. ASSUME NEW d \in Daemons, NEW s \in Schedules, Operator(d, s) PROVE TypeOK'
  <2>1. Ticking \in Position
    BY DEF Position
  <2>2. now \in Nat /\ GivenTimes \subseteq Nat
    BY SchedulerAssumption DEF TypeOK
  <2>3. NextRun(s, now) \in Nat \cup {Throws}
    BY <2>2, NextRunType
  <2>4. CASE CreateSchedule(d, s)
    <3>1. PICK at \in ({NextRun(s, now)} \ {Throws}) \cup GivenTimes :
            Write(s, NewRow(at), "on")
      BY <2>4 DEF CreateSchedule
    <3>2. NewRow(at) \in Row
      BY <2>2, <2>3, OperatorType
    <3> QED
      BY <2>1, <2>4, <3>1, <3>2, WriteType DEF CreateSchedule, TypeOK
  <2>5. CASE PauseSchedule(d, s)
    BY <2>5, OperatorType, WriteType DEF PauseSchedule, TypeOK
  <2>6. CASE ResumeSchedule(d, s)
    BY <2>1, <2>6, OperatorType, WriteType DEF ResumeSchedule, TypeOK
  <2>7. CASE DeleteSchedule(d, s)
    BY <2>7, WriteType DEF DeleteSchedule, TypeOK
  <2> QED
    BY <1>8, <2>4, <2>5, <2>6, <2>7 DEF Operator
<1>9. ASSUME NEW s \in Schedules, Cli(s) PROVE TypeOK'
  <2>1. now \in Nat
    BY DEF TypeOK
  <2>2. NextRun(s, now) \in Nat \cup {Throws}
    BY <2>1, NextRunType
  <2>3. CASE CliAdd(s)
    BY <2>2, <2>3, OperatorType, WriteType DEF CliAdd, TypeOK
  <2>4. CASE CliPauseOrDelete(s)
    BY <2>4, OperatorType, WriteType DEF CliPauseOrDelete, TypeOK
  <2>5. CASE CliResume(s)
    BY <2>5, OperatorType, WriteType DEF CliResume, TypeOK
  <2> QED
    BY <1>9, <2>3, <2>4, <2>5 DEF Cli
<1>10. CASE Tick
  BY <1>10 DEF Tick, TypeOK, tables
<1>11. CASE UNCHANGED vars
  BY <1>11 DEF vars, tables, TypeOK
<1> QED
  BY <1>1, <1>2, <1>3, <1>4, <1>5, <1>6, <1>7, <1>8, <1>9, <1>10, <1>11 DEF Next, Loop

(* Only Materialize lets the loop arrive at "advance". *)
LEMMA AdvancesStep == TypeInv /\ [Next]_vars => AdvancesToTime'
<1> SUFFICES ASSUME TypeOK, AdvancesToTime, [Next]_vars PROVE AdvancesToTime'
  BY DEF TypeInv
<1> USE DEF AdvancesToTime
<1>1. ASSUME NEW d \in Daemons, Launch(d) PROVE AdvancesToTime'
  BY <1>1 DEF Launch, TypeOK, Ticking
<1>2. ASSUME NEW d \in Daemons, End(d) PROVE AdvancesToTime'
  BY <1>2 DEF End, TypeOK, Idle
<1>3. ASSUME NEW d \in Daemons, ListSchedules(d) PROVE AdvancesToTime'
  BY <1>3 DEF ListSchedules, TypeOK, Continue, Idle
<1>4. ASSUME NEW d \in Daemons, Materialize(d) PROVE AdvancesToTime'
  <2>1. PICK r \in First(loop[d].rest) :
          loop' = [loop EXCEPT ![d] =
                 [pc |-> IF NextRun(r.schedule, r.at) = Throws
                         THEN "disable" ELSE "advance",
                  rest |-> @.rest \ {r}, current |-> r]]
    BY <1>4 DEF Materialize
  <2>2. loop'[d].pc = "advance" =>
          NextRun(loop'[d].current.schedule, loop'[d].current.at) # Throws
    BY <2>1 DEF TypeOK
  <2>3. \A e \in Daemons \ {d} : loop'[e] = loop[e]
    BY <2>1 DEF TypeOK
  <2> QED
    BY <2>2, <2>3
<1>5. ASSUME NEW d \in Daemons, Advance(d) PROVE AdvancesToTime'
  <2>1. \A e \in Daemons \ {d} : loop'[e] = loop[e]
    BY <1>5 DEF Advance, TypeOK
  <2>2. loop' = [loop EXCEPT ![d] = Continue(@.rest)] => loop'[d].pc # "advance"
    BY DEF TypeOK, Continue, Idle
  <2>3. loop' = [loop EXCEPT ![d].pc = "disable"] => loop'[d].pc # "advance"
    BY <1>5, ThrownPosition DEF TypeOK, Advance
  <2> QED
    BY <1>5, <2>1, <2>2, <2>3 DEF Advance
<1>6. ASSUME NEW d \in Daemons, Busy(d) PROVE AdvancesToTime'
  <2>1. \A e \in Daemons \ {d} : loop'[e] = loop[e]
    BY <1>6 DEF Busy, TypeOK
  <2>2. loop'[d].pc # "advance"
    <3>1. CASE loop[d].pc = "row"
      BY <1>6, <3>1 DEF Busy, TypeOK
    <3>2. CASE loop[d].pc = "advance"
      <4>1. loop' = [loop EXCEPT ![d].pc = "disable"]
        BY <1>6, <3>2 DEF Busy
      <4> QED
        BY <3>2, <4>1, ThrownPosition DEF TypeOK
    <3> QED
      BY <1>6, <3>1, <3>2 DEF Busy
  <2> QED
    BY <2>1, <2>2
<1>7. ASSUME NEW d \in Daemons, Disable(d) PROVE AdvancesToTime'
  BY <1>7 DEF Disable, TypeOK, Continue, Idle
<1>8. ASSUME NEW d \in Daemons, NEW s \in Schedules, Operator(d, s)
      PROVE  AdvancesToTime'
  BY <1>8 DEF Operator, CreateSchedule, PauseSchedule, ResumeSchedule,
              DeleteSchedule, TypeOK, Ticking
<1>9. CASE UNCHANGED loop
  BY <1>9
<1> QED
  BY <1>1, <1>2, <1>3, <1>4, <1>5, <1>6, <1>7, <1>8, <1>9
  DEF Next, Loop, Cli, CliAdd, CliPauseOrDelete, CliResume, Tick, vars

(* Type correctness, in all circumstances: next_run_at stays a time, rows that
   are gone stay gone, the loop keeps its snapshot.                          *)
THEOREM TypeCorrect == Spec => []TypeOK
<1>1. TypeInv /\ [Next]_vars => TypeInv'
  BY TypeStep, AdvancesStep DEF TypeInv
<1>2. TypeInv => TypeOK
  BY DEF TypeInv
<1> QED
  BY TypeInit, <1>1, <1>2, PTL DEF Spec

LEMMA AlwaysTyped == Spec => []TypeInv
<1>1. TypeInv /\ [Next]_vars => TypeInv'
  BY TypeStep, AdvancesStep DEF TypeInv
<1> QED
  BY TypeInit, <1>1, PTL DEF Spec

-----------------------------------------------------------------------------
(* One job per occurrence.  A job carries the identity of its occurrence as
   idempotency key, and no two jobs have the same one.                       *)
KeyedJobs ==
    /\ \A x \in jobs : x.key = <<x.schedule, x.intended>>
    /\ \A x, y \in jobs : x.key = y.key => x = y

(* Everything but Materialize leaves the jobs alone. *)
LEMMA JobsChange ==
    ASSUME [Next]_vars, ~UNCHANGED jobs
    PROVE  \E d \in Daemons : Materialize(d)
  BY DEF Next, Loop, Launch, End, ListSchedules, Advance, Busy, Disable, Operator,
     CreateSchedule, PauseSchedule, ResumeSchedule, DeleteSchedule, Cli, CliAdd,
     CliPauseOrDelete, CliResume, Write, Tick, tables, vars

(* What Materialize may add: the job of a row of the snapshot that is still
   current, under a key nobody has.                                          *)
LEMMA NewJob ==
    ASSUME TypeOK, NEW d \in Daemons, Materialize(d), ~UNCHANGED jobs
    PROVE  \E r \in loop[d].rest :
             /\ r \in Due /\ Current(r) /\ ~Recorded(r.schedule, r.at)
             /\ ~\E x \in jobs : x.key = Identity(r.schedule, r.at)
             /\ jobs' = jobs \cup {[id |-> created', schedule |-> r.schedule,
                    intended |-> r.at, key |-> Identity(r.schedule, r.at)]}
<1>1. loop[d].rest \in SUBSET Due
  BY RowPosition DEF Materialize
<1>2. PICK r \in First(loop[d].rest) :
          IF Current(r) /\ ~Recorded(r.schedule, r.at)
          THEN EnqueueScheduled(r)
          ELSE UNCHANGED <<jobs, occurrence, created>>
  BY DEF Materialize
<1>3. Current(r) /\ ~Recorded(r.schedule, r.at) /\ EnqueueScheduled(r)
  BY <1>2
<1>4. r \in loop[d].rest
  BY DEF First
<1>5. /\ ~\E x \in jobs : x.key = Identity(r.schedule, r.at)
      /\ jobs' = jobs \cup {[id |-> created', schedule |-> r.schedule,
                    intended |-> r.at, key |-> Identity(r.schedule, r.at)]}
  BY <1>3 DEF EnqueueScheduled
<1> QED
  BY <1>1, <1>3, <1>4, <1>5

LEMMA KeyedStep == TypeOK /\ KeyedJobs /\ [Next]_vars => KeyedJobs'
<1> SUFFICES ASSUME TypeOK, KeyedJobs, [Next]_vars, ~UNCHANGED jobs PROVE KeyedJobs'
  BY DEF KeyedJobs
<1>1. PICK d \in Daemons : Materialize(d)
  BY JobsChange
<1>2. PICK r \in loop[d].rest :
             /\ r \in Due /\ Current(r) /\ ~Recorded(r.schedule, r.at)
             /\ ~\E x \in jobs : x.key = Identity(r.schedule, r.at)
             /\ jobs' = jobs \cup {[id |-> created', schedule |-> r.schedule,
                    intended |-> r.at, key |-> Identity(r.schedule, r.at)]}
  BY <1>1, NewJob
<1> QED
  BY <1>2 DEF KeyedJobs, Identity

(* No occurrence has two jobs, whatever crashes, overlapping daemons, operators
   and locked databases do.                                                  *)
THEOREM OccurrencesAreUnique == Spec => []OneJobPerOccurrence
<1>1. Init => KeyedJobs
  BY DEF Init, KeyedJobs
<1>2. KeyedJobs => OneJobPerOccurrence
  BY DEF KeyedJobs, OneJobPerOccurrence
<1> QED
  BY <1>1, <1>2, KeyedStep, TypeCorrect, PTL DEF Spec

(* A stale snapshot is refused.  SnapshotPast says that what the loop holds was
   due when the snapshot was taken.                                          *)
InLoop(d) == loop[d].pc \in {"row", "advance", "disable"}
SnapshotPast == \A d \in Daemons : InLoop(d) => \A r \in loop[d].rest : r.at <= now

(* The loop only ever holds a fresh snapshot or what is left of one. *)
LEMMA LoopShrinks ==
    ASSUME TypeOK, [Next]_vars, NEW d \in Daemons, InLoop(d)'
    PROVE  \/ loop'[d].rest = Snapshot
           \/ InLoop(d) /\ loop'[d].rest \subseteq loop[d].rest
<1> USE DEF InLoop, TypeOK
<1>1. CASE loop'[d] = loop[d]
  BY <1>1
<1>2. ASSUME NEW e \in Daemons, \/ Launch(e) \/ End(e)
                                \/ \E s \in Schedules : Operator(e, s)
      PROVE  loop'[d] = loop[d]
  BY <1>2 DEF Launch, End, Operator, CreateSchedule, PauseSchedule, ResumeSchedule,
             DeleteSchedule, Ticking, Idle
<1>3. ASSUME NEW e \in Daemons, ListSchedules(e)
      PROVE  loop'[d] = loop[d] \/ loop'[d].rest = Snapshot
  BY <1>3 DEF ListSchedules, Continue, Idle
<1>4. ASSUME NEW e \in Daemons, Materialize(e)
      PROVE  loop'[d] = loop[d] \/ (InLoop(d) /\ loop'[d].rest \subseteq loop[d].rest)
  BY <1>4 DEF Materialize
<1>5. ASSUME NEW e \in Daemons, Advance(e) \/ Busy(e) \/ Disable(e)
      PROVE  loop'[d] = loop[d] \/ (InLoop(d) /\ loop'[d].rest \subseteq loop[d].rest)
  <2>1. CASE e # d
    BY <1>5, <2>1 DEF Advance, Busy, Disable
  <2>2. CASE e = d /\ loop' = [loop EXCEPT ![d] = Continue(@.rest)]
    BY <1>5, <2>2 DEF Continue, Idle, Advance, Busy, Disable
  <2>3. CASE e = d /\ loop' = [loop EXCEPT ![d].pc = "disable"]
    BY <1>5, <2>3, ThrownPosition DEF Advance, Busy, Disable
  <2>4. CASE e = d /\ loop[d].pc = "row" /\ Busy(d)
    BY <2>4 DEF Busy
  <2> QED
    BY <1>5, <2>1, <2>2, <2>3, <2>4 DEF Advance, Busy, Disable
<1>6. CASE UNCHANGED loop
  BY <1>6
<1> QED
  BY <1>1, <1>2, <1>3, <1>4, <1>5, <1>6
  DEF Next, Loop, Cli, CliAdd, CliPauseOrDelete, CliResume, Write, Tick, vars

LEMMA SnapshotPastStep == TypeOK /\ SnapshotPast /\ [Next]_vars => SnapshotPast'
<1> SUFFICES ASSUME TypeOK, SnapshotPast, [Next]_vars,
                    NEW d \in Daemons, InLoop(d)', NEW r \in loop'[d].rest
             PROVE  r.at <= now'
  BY DEF SnapshotPast
<1>1. now \in Nat /\ now' \in Nat /\ now <= now'
  <2>1. now' \in {now, now + 1}
    BY DEF Next, Loop, Launch, End, ListSchedules, Materialize, Advance, Busy,
       Disable, Operator, CreateSchedule, PauseSchedule, ResumeSchedule, DeleteSchedule,
       Cli, CliAdd, CliPauseOrDelete, CliResume, Write, Tick, vars
  <2> QED
    BY <2>1 DEF TypeOK
<1>2. CASE r \in Snapshot
  BY <1>1, <1>2, SnapshotType DEF Snapshot, IsDue, Due
<1>3. CASE InLoop(d) /\ r \in loop[d].rest
  <2>1. loop[d].rest \subseteq Due
    BY <1>3, RowPosition, CurrentPosition DEF InLoop
  <2>2. r.at \in Nat
    BY <1>3, <2>1 DEF Due
  <2> QED
    BY <1>1, <1>3, <2>2 DEF SnapshotPast
<1> QED
  BY <1>2, <1>3, LoopShrinks

(* Whoever wrote the database after the snapshot was taken, a job is enqueued
   only for a row that is enabled and due in that very transaction.          *)
THEOREM StaleSnapshotsAreRefused == Spec => StaleSnapshotRefused
<1>1. Init => SnapshotPast
  BY DEF Init, SnapshotPast, InLoop, Idle
<1>2. TypeOK /\ SnapshotPast /\ [Next]_vars =>
        [\A x \in jobs' \ jobs : /\ row[x.schedule].enabled
                                 /\ row[x.schedule].next = x.intended
                                 /\ x.intended <= now]_vars
  <2> SUFFICES ASSUME TypeOK, SnapshotPast, [Next]_vars, NEW x \in jobs' \ jobs
               PROVE  /\ row[x.schedule].enabled
                      /\ row[x.schedule].next = x.intended
                      /\ x.intended <= now
    OBVIOUS
  <2>1. PICK d \in Daemons : Materialize(d)
    BY JobsChange
  <2>2. PICK r \in loop[d].rest :
             /\ Current(r)
             /\ jobs' = jobs \cup {[id |-> created', schedule |-> r.schedule,
                    intended |-> r.at, key |-> Identity(r.schedule, r.at)]}
    BY <2>1, NewJob
  <2>3. r.at <= now
    BY <2>1 DEF SnapshotPast, InLoop, Materialize
  <2> QED
    BY <2>2, <2>3 DEF Current
<1> QED
  BY <1>1, <1>2, SnapshotPastStep, TypeCorrect, PTL DEF Spec, StaleSnapshotRefused

-----------------------------------------------------------------------------
(* A one-shot schedule runs once.  Its row, however often created, resumed or
   written back by the loop, keeps the time of its expression, so all its jobs
   have the same identity.                                                   *)
OnceInv ==
    /\ \A s \in Schedules : Kind(s) = "once" /\ Present(s) => row[s].next = Rule[s].at
    /\ \A x \in jobs : Kind(x.schedule) = "once" => x.intended = Rule[x.schedule].at

LEMMA OnceRow ==
    ASSUME GivenTimes = {}, TypeOK, OnceInv, [Next]_vars,
           NEW s \in Schedules, Kind(s) = "once", Present(s)'
    PROVE  row'[s].next = Rule[s].at
<1> USE DEF TypeOK
<1>1. NextRun(s, now) = Rule[s].at
  BY DEF NextRun
<1>2. CASE row'[s] = row[s]
  BY <1>2 DEF OnceInv, Present
<1>3. ASSUME NEW d \in Daemons, Advance(d), row'[s] # row[s]
      PROVE  row'[s].next = Rule[s].at
  BY <1>3 DEF Advance, Updated, NextOf, Present, OnceInv
<1>4. ASSUME NEW d \in Daemons, Disable(d), row'[s] # row[s]
      PROVE  row'[s].next = Rule[s].at
  BY <1>4, PresentType DEF Disable, Updated, Present, OnceInv, Row
<1>5. ASSUME NEW d \in Daemons, NEW t \in Schedules, Operator(d, t), row'[s] # row[s]
      PROVE  row'[s].next = Rule[s].at
  <2>1. CASE CreateSchedule(d, t)
    BY <1>1, <1>5, <2>1 DEF CreateSchedule, Write, NewRow
  <2>2. CASE PauseSchedule(d, t)
    BY <1>5, <2>2, PresentType DEF PauseSchedule, Write, Paused, OnceInv, Row
  <2>3. CASE ResumeSchedule(d, t)
    BY <1>1, <1>5, <2>3, PresentType DEF ResumeSchedule, Write, Resumed, Row
  <2>4. CASE DeleteSchedule(d, t)
    BY <1>5, <2>4 DEF DeleteSchedule, Write, Present
  <2> QED
    BY <1>5, <2>1, <2>2, <2>3, <2>4 DEF Operator
<1>6. ASSUME NEW t \in Schedules, Cli(t), row'[s] # row[s]
      PROVE  row'[s].next = Rule[s].at
  <2>1. CASE CliAdd(t)
    BY <1>1, <1>6, <2>1 DEF CliAdd, Write, NewRow
  <2>2. CASE CliPauseOrDelete(t)
    BY <1>6, <2>2, PresentType DEF CliPauseOrDelete, Write, Paused, OnceInv, Row
  <2>3. CASE CliResume(t)
    BY <1>1, <1>6, <2>3, PresentType DEF CliResume, Write, Resumed, Row
  <2> QED
    BY <1>6, <2>1, <2>2, <2>3 DEF Cli
<1>7. CASE UNCHANGED row
  BY <1>2, <1>7
<1> QED
  BY <1>2, <1>3, <1>4, <1>5, <1>6, <1>7
  DEF Next, Loop, Launch, End, ListSchedules, Materialize, Busy, Tick, tables, vars

LEMMA OnceStep == GivenTimes = {} /\ TypeOK /\ OnceInv /\ [Next]_vars => OnceInv'
<1> SUFFICES ASSUME GivenTimes = {}, TypeOK, OnceInv, [Next]_vars PROVE OnceInv'
  OBVIOUS
<1>1. \A s \in Schedules :
          Kind(s) = "once" /\ Present(s)' => row'[s].next = Rule[s].at
  BY OnceRow
<1>2. \A x \in jobs' : Kind(x.schedule) = "once" => x.intended = Rule[x.schedule].at
  <2>1. CASE UNCHANGED jobs
    BY <2>1 DEF OnceInv
  <2>2. CASE ~UNCHANGED jobs
    <3>1. PICK d \in Daemons : Materialize(d)
      BY <2>2, JobsChange
    <3>2. PICK r \in loop[d].rest :
             /\ r \in Due /\ Current(r)
             /\ jobs' = jobs \cup {[id |-> created', schedule |-> r.schedule,
                    intended |-> r.at, key |-> Identity(r.schedule, r.at)]}
      BY <2>2, <3>1, NewJob
    <3>3. r.schedule \in Schedules /\ Present(r.schedule)
      BY <3>2 DEF Due, Current, Present, NoRow
    <3> QED
      BY <3>2, <3>3 DEF OnceInv, Current
  <2> QED
    BY <2>1, <2>2
<1> QED
  BY <1>1, <1>2 DEF OnceInv, Kind

(* When creators leave the time to the daemon, a one-shot schedule has at most
   one job in its life, in all circumstances.                                *)
THEOREM OneShotsRunOnce == ASSUME GivenTimes = {} PROVE Spec => []OnceRunsOnce
<1>1. Init => OnceInv /\ KeyedJobs
  BY DEF Init, OnceInv, KeyedJobs, Present
<1>2. TypeOK /\ OnceInv /\ [Next]_vars => OnceInv'
  BY OnceStep
<1>3. OnceInv /\ KeyedJobs => OnceRunsOnce
  BY DEF OnceInv, KeyedJobs, OnceRunsOnce
<1> QED
  BY <1>1, <1>2, <1>3, KeyedStep, TypeCorrect, PTL DEF Spec

-----------------------------------------------------------------------------
(* With one process writing the tables the snapshot stays fresh while the loop
   runs: nobody pauses, deletes or resumes a row it still has to visit.      *)
Solo ==
    /\ \A d, e \in Daemons : proc[d] = "up" /\ proc[e] = "up" => d = e
    /\ \A d \in Daemons : InLoop(d) => proc[d] = "up"
EnabledIsWanted == \A s \in Schedules : row[s].enabled => wanted[s] = "on"
FreshRest(d) == \A r \in loop[d].rest : Current(r)
FreshCurrent(d) ==
    /\ wanted[loop[d].current.schedule] = "on"
    /\ \A r \in loop[d].rest : r.schedule # loop[d].current.schedule
RecordedCurrent(d) == Recorded(loop[d].current.schedule, loop[d].current.at)
Fresh ==
    \A d \in Daemons : InLoop(d) =>
        /\ FreshRest(d)
        /\ loop[d].pc # "row" => FreshCurrent(d)
        /\ loop[d].pc = "advance" => RecordedCurrent(d)
SoloInv == TypeOK /\ Solo /\ EnabledIsWanted /\ Fresh /\ LastRunHappened

(* Occurrences are never removed. *)
LEMMA OccurrencesGrow == [Next]_vars => occurrence \subseteq occurrence'
<1> SUFFICES ASSUME [Next]_vars PROVE occurrence \subseteq occurrence'
  OBVIOUS
<1>1. ASSUME NEW d \in Daemons, Materialize(d) PROVE occurrence \subseteq occurrence'
  BY <1>1 DEF Materialize, EnqueueScheduled
<1>2. CASE UNCHANGED occurrence
  BY <1>2
<1> QED
  BY <1>1, <1>2 DEF Next, Loop, Launch, End, ListSchedules, Advance, Busy, Disable,
     Operator, CreateSchedule, PauseSchedule, ResumeSchedule, DeleteSchedule, Cli,
     CliAdd, CliPauseOrDelete, CliResume, Write, Tick, tables, vars

SingleProcess == Env \cap {"cli", "overlap"} = {}

LEMMA SoloStep == SingleProcess /\ TypeOK /\ Solo /\ [Next]_vars => Solo'
<1> SUFFICES ASSUME SingleProcess, TypeOK, Solo, [Next]_vars PROVE Solo'
  OBVIOUS
<1> USE DEF Solo, InLoop, TypeOK
<1>1. ASSUME NEW d \in Daemons, Launch(d) PROVE Solo'
  BY <1>1 DEF Launch, Ticking, SingleProcess
<1>2. ASSUME NEW d \in Daemons, End(d) PROVE Solo'
  BY <1>2 DEF End, Idle
<1>3. ASSUME NEW d \in Daemons, ListSchedules(d) PROVE Solo'
  BY <1>3 DEF ListSchedules
<1>4. ASSUME NEW d \in Daemons, Materialize(d) PROVE Solo'
  BY <1>4 DEF Materialize
<1>5. ASSUME NEW d \in Daemons, Advance(d) PROVE Solo'
  BY <1>5 DEF Advance
<1>6. ASSUME NEW d \in Daemons, Busy(d) PROVE Solo'
  BY <1>6 DEF Busy
<1>7. ASSUME NEW d \in Daemons, Disable(d) PROVE Solo'
  BY <1>7 DEF Disable
<1>8. ASSUME NEW d \in Daemons, NEW s \in Schedules, Operator(d, s) PROVE Solo'
  BY <1>8 DEF Operator, CreateSchedule, PauseSchedule, ResumeSchedule, DeleteSchedule,
     Listening, Write, Ticking
<1>9. CASE UNCHANGED <<proc, loop>>
  BY <1>9
<1> QED
  BY <1>1, <1>2, <1>3, <1>4, <1>5, <1>6, <1>7, <1>8, <1>9
  DEF Next, Loop, Cli, CliAdd, CliPauseOrDelete, CliResume, Tick, SingleProcess, vars

(* What an operator of the only process leaves behind. *)
LEMMA OperatorAlone ==
    ASSUME TypeOK, Solo, NEW d \in Daemons, NEW s \in Schedules, Operator(d, s)
    PROVE  \A e \in Daemons : ~InLoop(e)'
<1> USE DEF Solo, InLoop, TypeOK
<1>1. Listening(d)
  BY DEF Operator, CreateSchedule, PauseSchedule, ResumeSchedule, DeleteSchedule
<1>2. \A e \in Daemons : ~InLoop(e)
  BY <1>1 DEF Listening, Idle
<1>3. \A e \in Daemons : loop'[e] = loop[e] \/ loop'[e] = Ticking
  BY DEF Operator, CreateSchedule, PauseSchedule, ResumeSchedule, DeleteSchedule
<1> QED
  BY <1>2, <1>3 DEF Ticking

LEMMA WantedStep == SingleProcess /\ SoloInv /\ [Next]_vars => EnabledIsWanted'
<1> SUFFICES ASSUME SingleProcess, SoloInv, [Next]_vars PROVE EnabledIsWanted'
  OBVIOUS
<1> USE DEF EnabledIsWanted, SoloInv, TypeOK
<1>1. ASSUME NEW d \in Daemons, Advance(d) PROVE EnabledIsWanted'
  <2>1. wanted[loop[d].current.schedule] = "on"
    BY <1>1 DEF Fresh, FreshCurrent, Advance, InLoop
  <2> QED
    BY <1>1, <2>1 DEF Advance, Updated
<1>2. ASSUME NEW d \in Daemons, Disable(d) PROVE EnabledIsWanted'
  BY <1>2 DEF Disable, Updated
<1>3. ASSUME NEW d \in Daemons, NEW s \in Schedules, Operator(d, s)
      PROVE  EnabledIsWanted'
  <2>1. CASE CreateSchedule(d, s)
    BY <2>1 DEF CreateSchedule, Write, NewRow
  <2>2. CASE PauseSchedule(d, s)
    <3>1. row' = [row EXCEPT ![s] = Paused(s)] /\ \A t \in Schedules \ {s} : wanted'[t] = wanted[t]
      BY <2>2 DEF PauseSchedule, Write
    <3>2. row[s] \in Row
      BY <2>2, PresentType DEF PauseSchedule
    <3>3. ~Paused(s).enabled
      BY <3>2 DEF Paused, Row
    <3> QED
      BY <3>1, <3>3
  <2>3. CASE ResumeSchedule(d, s)
    BY <2>3 DEF ResumeSchedule, Write
  <2>4. CASE DeleteSchedule(d, s)
    BY <2>4 DEF DeleteSchedule, Write, NoRow
  <2> QED
    BY <1>3, <2>1, <2>2, <2>3, <2>4 DEF Operator
<1>4. CASE UNCHANGED <<row, wanted>>
  BY <1>4
<1> QED
  BY <1>1, <1>2, <1>3, <1>4
  DEF Next, Loop, Launch, End, ListSchedules, Materialize, Busy, Cli, CliAdd,
      CliPauseOrDelete, CliResume, Tick, SingleProcess, tables, vars

LEMMA LastRunStep == SingleProcess /\ SoloInv /\ [Next]_vars => LastRunHappened'
<1> SUFFICES ASSUME SingleProcess, SoloInv, [Next]_vars, NEW s \in Schedules,
                    row'[s].last # Never
             PROVE  \E o \in occurrence' : o.key = <<s, row'[s].last>>
  BY DEF LastRunHappened, Recorded, Identity
<1> USE DEF SoloInv, TypeOK
<1>1. CASE row'[s].last = row[s].last
  BY <1>1, OccurrencesGrow DEF LastRunHappened, Recorded, Identity
<1>2. ASSUME NEW d \in Daemons, Advance(d), row'[s].last # row[s].last
      PROVE  \E o \in occurrence' : o.key = <<s, row'[s].last>>
  <2>1. s = loop[d].current.schedule /\ row'[s].last = loop[d].current.at
    BY <1>2 DEF Advance, Updated
  <2>2. RecordedCurrent(d)
    BY <1>2 DEF Fresh, Advance, InLoop
  <2>3. PICK o \in occurrence : o.key = <<loop[d].current.schedule, loop[d].current.at>>
    BY <2>2 DEF RecordedCurrent, Recorded, Identity
  <2> QED
    BY <2>1, <2>3, OccurrencesGrow
<1>3. ASSUME NEW d \in Daemons, Disable(d) PROVE row'[s].last = row[s].last
  BY <1>3, PresentType DEF Disable, Updated, Row
<1>4. ASSUME NEW d \in Daemons, NEW t \in Schedules, Operator(d, t)
      PROVE  row'[s].last \in {row[s].last, Never}
  <2>1. Present(t) => Paused(t).last = row[t].last /\ Resumed(t).last = row[t].last
    BY PresentType DEF Paused, Resumed, Row
  <2> QED
    BY <1>4, <2>1 DEF Operator, CreateSchedule, PauseSchedule, ResumeSchedule,
       DeleteSchedule, Write, NewRow, NoRow
<1>5. CASE UNCHANGED row
  BY <1>1, <1>5
<1> QED
  BY <1>1, <1>2, <1>3, <1>4, <1>5
  DEF Next, Loop, Launch, End, ListSchedules, Materialize, Busy, Cli, CliAdd,
      CliPauseOrDelete, CliResume, Tick, SingleProcess, tables, vars

(* A row of the snapshot is the only one of its schedule, and it is wanted. *)
LEMMA FreshChoice ==
    ASSUME TypeOK, EnabledIsWanted, NEW d \in Daemons, loop[d].pc = "row",
           FreshRest(d), NEW r \in loop[d].rest
    PROVE  /\ r \in Due /\ wanted[r.schedule] = "on"
           /\ \A q \in loop[d].rest \ {r} : Current(q) /\ q.schedule # r.schedule
<1>1. loop[d].rest \in SUBSET Due
  BY RowPosition
<1>2. r \in Due /\ Current(r)
  BY <1>1 DEF FreshRest
<1>3. wanted[r.schedule] = "on"
  BY <1>2 DEF Current, EnabledIsWanted, Due
<1>4. ASSUME NEW q \in loop[d].rest, q.schedule = r.schedule PROVE q = r
  BY <1>1, <1>2, <1>4 DEF FreshRest, Current, Due
<1> QED
  BY <1>2, <1>3, <1>4 DEF FreshRest

(* The transaction leaves the occurrence recorded. *)
LEMMA EnqueueRecords ==
    ASSUME NEW r, EnqueueScheduled(r)
    PROVE  \E o \in occurrence' : o.key = <<r.schedule, r.at>>
<1> DEFINE key == <<r.schedule, r.at>>
<1>1. ASSUME NEW x \in jobs, x.key = key
      PROVE  [key |-> key, job |-> x.id] \in occurrence'
  BY <1>1 DEF EnqueueScheduled, Identity
<1>2. ASSUME ~\E x \in jobs : x.key = key
      PROVE  [key |-> key, job |-> created'] \in occurrence'
  BY <1>2 DEF EnqueueScheduled, Identity
<1> QED
  BY <1>1, <1>2

LEMMA FreshStep == SingleProcess /\ SoloInv /\ [Next]_vars => Fresh'
<1> SUFFICES ASSUME SingleProcess, SoloInv, [Next]_vars,
                    NEW d \in Daemons, InLoop(d)'
             PROVE  /\ FreshRest(d)'
                    /\ loop'[d].pc # "row" => FreshCurrent(d)'
                    /\ loop'[d].pc = "advance" =>
                         \E o \in occurrence' :
                           o.key = <<loop'[d].current.schedule, loop'[d].current.at>>
  BY DEF Fresh, RecordedCurrent, Recorded, Identity
<1> USE DEF SoloInv, TypeOK, InLoop
<1>1. \A e \in Daemons \ {d} : InLoop(d) => ~InLoop(e)
  BY DEF Solo
<1>2. CASE UNCHANGED <<row, wanted, occurrence>> /\ loop'[d] = loop[d]
  <2>1. /\ FreshRest(d)
        /\ loop[d].pc # "row" => FreshCurrent(d)
        /\ loop[d].pc = "advance" => RecordedCurrent(d)
    BY <1>2 DEF Fresh
  <2>2. FreshRest(d)' /\ (loop'[d].pc # "row" => FreshCurrent(d)')
    BY <1>2, <2>1 DEF FreshRest, FreshCurrent, Current
  <2> QED
    BY <1>2, <2>1, <2>2 DEF RecordedCurrent, Recorded, Identity
<1>3. CASE \E e \in Daemons : Launch(e) \/ End(e)
  <2>1. loop'[d] = loop[d] /\ UNCHANGED <<row, wanted, occurrence>>
    BY <1>3 DEF Launch, End, Ticking, Idle, tables
  <2> QED
    BY <1>2, <2>1
<1>4. CASE ListSchedules(d)
  <2>1. loop'[d].pc = "row" /\ loop'[d].rest = Snapshot /\ UNCHANGED row
    BY <1>4 DEF ListSchedules, Continue, Idle, tables
  <2> QED
    BY <2>1 DEF FreshRest, Snapshot, IsDue, Current
<1>5. CASE Materialize(d)
  <2>1. PICK r \in First(loop[d].rest) :
          /\ IF Current(r) /\ ~Recorded(r.schedule, r.at)
             THEN EnqueueScheduled(r)
             ELSE UNCHANGED <<jobs, occurrence, created>>
          /\ loop' = [loop EXCEPT ![d] =
                 [pc |-> IF NextRun(r.schedule, r.at) = Throws
                         THEN "disable" ELSE "advance",
                  rest |-> @.rest \ {r}, current |-> r]]
    BY <1>5 DEF Materialize
  <2>2. r \in loop[d].rest /\ loop[d].pc = "row" /\ FreshRest(d)
    BY <1>5 DEF First, Materialize, Fresh
  <2>3. /\ loop'[d].rest = loop[d].rest \ {r} /\ loop'[d].current = r
        /\ UNCHANGED <<row, wanted>>
    BY <1>5, <2>1 DEF Materialize
  <2>4. /\ wanted[r.schedule] = "on"
        /\ \A q \in loop[d].rest \ {r} : Current(q) /\ q.schedule # r.schedule
    BY <2>2, FreshChoice
  <2>5. \E o \in occurrence' : o.key = <<r.schedule, r.at>>
    <3>1. CASE Recorded(r.schedule, r.at)
      BY <3>1, OccurrencesGrow DEF Recorded, Identity
    <3>2. CASE ~Recorded(r.schedule, r.at)
      BY <2>1, <2>2, <3>2, EnqueueRecords DEF FreshRest
    <3> QED
      BY <3>1, <3>2
  <2> QED
    BY <2>3, <2>4, <2>5 DEF FreshRest, FreshCurrent, Current
<1>6. CASE Busy(d) /\ loop[d].pc = "row"
  <2>1. PICK r \in First(loop[d].rest) :
          loop' = [loop EXCEPT ![d] =
              [pc |-> "disable", rest |-> @.rest \ {r}, current |-> r]]
    BY <1>6 DEF Busy
  <2>2. r \in loop[d].rest /\ FreshRest(d)
    BY <1>6 DEF First, Fresh
  <2>3. /\ loop'[d] = [pc |-> "disable", rest |-> loop[d].rest \ {r}, current |-> r]
        /\ UNCHANGED <<row, wanted>>
    BY <1>6, <2>1 DEF Busy, tables
  <2>4. /\ wanted[r.schedule] = "on"
        /\ \A q \in loop[d].rest \ {r} : Current(q) /\ q.schedule # r.schedule
    BY <1>6, <2>2, FreshChoice
  <2> QED
    BY <2>3, <2>4 DEF FreshRest, FreshCurrent, Current
<1>7. CASE Advance(d) \/ Disable(d) \/ (Busy(d) /\ loop[d].pc = "advance")
  <2> DEFINE s == loop[d].current.schedule
  <2>1. FreshRest(d) /\ FreshCurrent(d) /\ loop[d].pc \in {"advance", "disable"}
    BY <1>7 DEF Fresh, Advance, Disable, Busy
  <2>2. UNCHANGED wanted /\ \A t \in Schedules \ {s} : row'[t] = row[t]
    BY <1>7 DEF Advance, Disable, Busy, Updated, tables
  <2>3. \/ loop'[d] = [pc |-> "row", rest |-> loop[d].rest]
        \/ loop'[d] = [pc |-> "disable", rest |-> loop[d].rest,
                       current |-> loop[d].current]
    <3>1. loop' = [loop EXCEPT ![d] = Continue(@.rest)]
             => loop'[d] = [pc |-> "row", rest |-> loop[d].rest]
      BY DEF Continue, Idle
    <3>2. ASSUME loop' = [loop EXCEPT ![d].pc = "disable"]
          PROVE  loop'[d] = [pc |-> "disable", rest |-> loop[d].rest,
                             current |-> loop[d].current]
      <4>1. loop' = [loop EXCEPT ![d] = [pc |-> "disable", rest |-> loop[d].rest,
                                         current |-> loop[d].current]]
        BY <2>1, <3>2, ThrownPosition
      <4> QED
        BY <4>1
    <3> QED
      BY <1>7, <3>1, <3>2 DEF Advance, Disable, Busy
  <2>4. loop[d].rest \subseteq Due
    BY <2>1, CurrentPosition
  <2>5. \A r \in loop[d].rest : r.schedule \in Schedules \ {s}
    BY <2>1, <2>4 DEF FreshCurrent, Due
  <2>6. \A r \in loop[d].rest : row'[r.schedule].enabled /\ row'[r.schedule].next = r.at
    BY <2>1, <2>2, <2>5 DEF FreshRest, Current
  <2> QED
    BY <2>1, <2>2, <2>3, <2>6 DEF FreshRest, FreshCurrent, Current
<1>8. ASSUME NEW e \in Daemons \ {d}, Loop(e) \/ Busy(e) PROVE FALSE
  <2>1. loop'[d] = loop[d]
    BY <1>8 DEF Loop, ListSchedules, Materialize, Advance, Disable, Busy
  <2>2. ListSchedules(e)
    BY <1>1, <1>8, <2>1 DEF Loop, Materialize, Advance, Disable, Busy
  <2> QED
    BY <2>1, <2>2 DEF ListSchedules, Solo
<1>9. ASSUME NEW e \in Daemons, NEW s \in Schedules, Operator(e, s) PROVE FALSE
  BY <1>9, OperatorAlone
<1>10. CASE Tick \/ UNCHANGED vars
  BY <1>2, <1>10 DEF Tick, tables, vars
<1>11. ASSUME NEW s \in Schedules, Cli(s) PROVE FALSE
  BY <1>11 DEF Cli, CliAdd, CliPauseOrDelete, CliResume, SingleProcess
<1> QED
  BY <1>3, <1>4, <1>5, <1>6, <1>7, <1>8, <1>9, <1>10, <1>11 DEF Next, Loop, Busy

LEMMA SoloInvariant == ASSUME SingleProcess PROVE Spec => []SoloInv
<1>1. Init => Solo /\ EnabledIsWanted /\ Fresh /\ LastRunHappened
  BY DEF Init, Solo, EnabledIsWanted, Fresh, LastRunHappened, InLoop, Idle, NoRow
<1>2. Init => SoloInv
  BY <1>1, TypeInit DEF SoloInv, TypeInv
<1>3. TypeInv /\ SoloInv /\ [Next]_vars => SoloInv'
  BY TypeStep, SoloStep, WantedStep, LastRunStep, FreshStep DEF SoloInv
<1> QED
  BY <1>2, <1>3, AlwaysTyped, PTL DEF Spec

(* With one process writing the tables, last_run_at names a run that happened,
   also across crashes and a locked database.                                *)
THEOREM LastRunsHappened == ASSUME SingleProcess PROVE Spec => []LastRunHappened
<1>1. SoloInv => LastRunHappened
  BY DEF SoloInv
<1> QED
  BY <1>1, SoloInvariant, PTL

(* No occurrence has two jobs and no one-shot a second one, over restarts,
   overlapping daemons and re-created schedules (materializeSchedule).       *)
THEOREM NoJobIsSpurious == ASSUME GivenTimes = {} PROVE Spec => []NoSpuriousJobs
<1> QED
  BY TypeCorrect, OccurrencesAreUnique, OneShotsRunOnce, PTL DEF NoSpuriousJobs

-----------------------------------------------------------------------------
(* A pause that no loop was in the middle of stays out of every later snapshot,
   and what is not in a snapshot is not written back.                        *)
OffIsOut == \A s \in Schedules : wanted[s] = "off" => ~row[s].enabled /\ ~InHand(s)

LEMMA HandPosition ==
    ASSUME NEW d \in Daemons, NEW s \in Schedules,
           InHand(s)', \A e \in Daemons \ {d} : loop'[e] = loop[e], ~InHand(s)
    PROVE  \/ /\ loop'[d].pc \in {"row", "advance", "disable"}
              /\ \E r \in loop'[d].rest : r.schedule = s
           \/ loop'[d].pc = "advance" /\ loop'[d].current.schedule = s
<1>1. PICK e \in Daemons :
        \/ loop'[e].pc \in {"row", "advance", "disable"} /\ \E r \in loop'[e].rest : r.schedule = s
        \/ loop'[e].pc = "advance" /\ loop'[e].current.schedule = s
  BY DEF InHand
<1>2. CASE e = d
  BY <1>1, <1>2
<1>3. CASE e # d
  BY <1>1, <1>3 DEF InHand
<1> QED
  BY <1>2, <1>3

LEMMA OffStep == TypeOK /\ OffIsOut /\ [Next]_vars => OffIsOut'
<1> SUFFICES ASSUME TypeOK, OffIsOut, [Next]_vars, NEW s \in Schedules, wanted'[s] = "off"
             PROVE  ~row'[s].enabled /\ ~InHand(s)'
  BY DEF OffIsOut
<1> USE DEF TypeOK
<1>1. CASE UNCHANGED <<row, wanted, loop>>
  BY <1>1 DEF OffIsOut, InHand
<1>2. ASSUME NEW d \in Daemons, Launch(d) \/ End(d)
      PROVE  ~row'[s].enabled /\ ~InHand(s)'
  <2>1. /\ UNCHANGED <<row, wanted>> /\ loop'[d].pc \in {"idle", "list"}
        /\ \A e \in Daemons \ {d} : loop'[e] = loop[e]
    BY <1>2 DEF Launch, End, Idle, Ticking, tables
  <2>2. ~row[s].enabled /\ ~InHand(s)
    BY <2>1 DEF OffIsOut
  <2> QED
    BY <2>1, <2>2, HandPosition
<1>3. ASSUME NEW d \in Daemons, ListSchedules(d)
      PROVE  ~row'[s].enabled /\ ~InHand(s)'
  <2>1. /\ UNCHANGED <<row, wanted>> /\ loop'[d] = Continue(Snapshot)
        /\ \A e \in Daemons \ {d} : loop'[e] = loop[e]
    BY <1>3 DEF ListSchedules, tables
  <2>2. ~row[s].enabled /\ ~InHand(s)
    BY <2>1 DEF OffIsOut
  <2>3. loop'[d].pc # "advance" /\ (loop'[d].pc # "idle" => loop'[d].rest = Snapshot)
    BY <2>1 DEF Continue, Idle
  <2>4. \A r \in Snapshot : r.schedule # s
    BY <2>2 DEF Snapshot, IsDue
  <2> QED
    BY <2>1, <2>2, <2>3, <2>4, HandPosition
<1>4. ASSUME NEW d \in Daemons, Materialize(d)
      PROVE  ~row'[s].enabled /\ ~InHand(s)'
  <2>1. PICK r \in First(loop[d].rest) :
          loop' = [loop EXCEPT ![d] =
                 [pc |-> IF NextRun(r.schedule, r.at) = Throws
                         THEN "disable" ELSE "advance",
                  rest |-> @.rest \ {r}, current |-> r]]
    BY <1>4 DEF Materialize
  <2>2. /\ UNCHANGED <<row, wanted>> /\ loop[d].pc = "row" /\ r \in loop[d].rest
        /\ loop'[d].rest \subseteq loop[d].rest /\ loop'[d].current = r
        /\ \A e \in Daemons \ {d} : loop'[e] = loop[e]
    BY <1>4, <2>1 DEF Materialize, First
  <2>3. ~row[s].enabled /\ ~InHand(s)
    BY <2>2 DEF OffIsOut
  <2>4. \A q \in loop[d].rest : q.schedule # s
    BY <2>2, <2>3 DEF InHand
  <2> QED
    BY <2>2, <2>3, <2>4, HandPosition
<1>5. ASSUME NEW d \in Daemons, Busy(d)
      PROVE  ~row'[s].enabled /\ ~InHand(s)'
  <2>1. CASE loop[d].pc = "row"
    <3>1. PICK r \in First(loop[d].rest) :
            loop' = [loop EXCEPT ![d] =
                [pc |-> "disable", rest |-> @.rest \ {r}, current |-> r]]
      BY <1>5, <2>1 DEF Busy
    <3>2. /\ UNCHANGED <<row, wanted>> /\ loop'[d].pc = "disable"
          /\ loop'[d].rest \subseteq loop[d].rest
          /\ \A e \in Daemons \ {d} : loop'[e] = loop[e]
      BY <1>5, <3>1 DEF Busy, tables
    <3>3. ~row[s].enabled /\ ~InHand(s)
      BY <3>2 DEF OffIsOut
    <3>4. \A q \in loop[d].rest : q.schedule # s
      BY <2>1, <3>3 DEF InHand
    <3> QED
      BY <3>2, <3>3, <3>4, HandPosition
  <2>2. CASE loop[d].pc = "advance"
    <3>1. /\ loop' = [loop EXCEPT ![d].pc = "disable"] /\ UNCHANGED <<row, wanted>>
      BY <1>5, <2>2 DEF Busy, tables
    <3>2. loop' = [loop EXCEPT ![d] = [pc |-> "disable", rest |-> loop[d].rest,
                                       current |-> loop[d].current]]
      BY <2>2, <3>1, ThrownPosition
    <3>3. ~row[s].enabled /\ ~InHand(s)
      BY <3>1 DEF OffIsOut
    <3>4. \A q \in loop[d].rest : q.schedule # s
      BY <2>2, <3>3 DEF InHand
    <3>5. loop'[d].pc = "disable" /\ loop'[d].rest = loop[d].rest
      BY <3>2
    <3> QED
      BY <3>1, <3>2, <3>3, <3>4, <3>5, HandPosition
  <2> QED
    BY <1>5, <2>1, <2>2 DEF Busy
<1>6. ASSUME NEW d \in Daemons, Advance(d)
      PROVE  ~row'[s].enabled /\ ~InHand(s)'
  <2>1. UNCHANGED wanted /\ loop[d].pc = "advance"
    BY <1>6 DEF Advance
  <2>2. ~row[s].enabled /\ ~InHand(s)
    BY <2>1 DEF OffIsOut
  <2>3. loop[d].current.schedule # s /\ \A q \in loop[d].rest : q.schedule # s
    BY <2>1, <2>2 DEF InHand
  <2>4. row'[s] = row[s]
    BY <1>6, <2>3 DEF Advance, Updated
  <2>5. CASE loop' = [loop EXCEPT ![d] = Continue(@.rest)]
    <3>1. loop'[d].pc # "advance" /\ (loop'[d].pc # "idle" => loop'[d].rest = loop[d].rest)
      BY <2>5 DEF Continue, Idle
    <3> QED
      BY <2>2, <2>3, <2>4, <2>5, <3>1, HandPosition
  <2>6. CASE loop' = [loop EXCEPT ![d].pc = "disable"]
    <3>1. loop' = [loop EXCEPT ![d] = [pc |-> "disable", rest |-> loop[d].rest,
                                       current |-> loop[d].current]]
      BY <2>1, <2>6, ThrownPosition
    <3>2. loop'[d].pc = "disable" /\ loop'[d].rest = loop[d].rest
      BY <3>1
    <3> QED
      BY <2>2, <2>3, <2>4, <3>1, <3>2, HandPosition
  <2> QED
    BY <1>6, <2>5, <2>6 DEF Advance
<1>7. ASSUME NEW d \in Daemons, Disable(d)
      PROVE  ~row'[s].enabled /\ ~InHand(s)'
  <2>1. /\ UNCHANGED wanted /\ loop[d].pc = "disable"
        /\ loop' = [loop EXCEPT ![d] = Continue(@.rest)]
    BY <1>7 DEF Disable
  <2>2. ~row[s].enabled /\ ~InHand(s)
    BY <2>1 DEF OffIsOut
  <2>3. \A q \in loop[d].rest : q.schedule # s
    BY <2>1, <2>2 DEF InHand
  <2>4. ~row'[s].enabled
    BY <1>7, <2>2 DEF Disable, Updated
  <2>5. loop'[d].pc # "advance" /\ (loop'[d].pc # "idle" => loop'[d].rest = loop[d].rest)
    BY <2>1 DEF Continue, Idle
  <2> QED
    BY <2>1, <2>2, <2>3, <2>4, <2>5, HandPosition
<1>8. ASSUME NEW d \in Daemons, NEW u \in Schedules, CreateSchedule(d, u) \/ ResumeSchedule(d, u)
      PROVE  ~row'[s].enabled /\ ~InHand(s)'
  <2>1. u # s /\ wanted'[s] = wanted[s] /\ row'[s] = row[s]
    BY <1>8 DEF CreateSchedule, ResumeSchedule, Write
  <2>2. loop'[d].pc = "list" /\ \A e \in Daemons \ {d} : loop'[e] = loop[e]
    BY <1>8 DEF CreateSchedule, ResumeSchedule, Ticking
  <2>3. ~row[s].enabled /\ ~InHand(s)
    BY <2>1 DEF OffIsOut
  <2> QED
    BY <2>1, <2>2, <2>3, HandPosition
<1>9. ASSUME NEW u \in Schedules, NEW new, ~new.enabled, Write(u, new, "off"), UNCHANGED loop
      PROVE  ~row'[s].enabled /\ ~InHand(s)'
  <2>1. InHand(s)' <=> InHand(s)
    BY <1>9 DEF InHand
  <2>2. CASE u = s
    BY <1>9, <2>1, <2>2 DEF Write
  <2>3. CASE u # s
    BY <1>9, <2>1, <2>3 DEF Write, OffIsOut
  <2> QED
    BY <2>2, <2>3
<1>10. ASSUME NEW d \in Daemons, NEW u \in Schedules, PauseSchedule(d, u) \/ DeleteSchedule(d, u)
       PROVE  ~row'[s].enabled /\ ~InHand(s)'
  <2>1. CASE PauseSchedule(d, u)
    <3>1. ~Paused(u).enabled
      BY <2>1, PresentType DEF PauseSchedule, Paused, Row
    <3> QED
      BY <1>9, <2>1, <3>1 DEF PauseSchedule
  <2>2. CASE DeleteSchedule(d, u)
    <3>1. ~NoRow.enabled
      BY DEF NoRow
    <3> QED
      BY <1>9, <2>2, <3>1 DEF DeleteSchedule
  <2> QED
    BY <1>10, <2>1, <2>2
<1>11. ASSUME NEW u \in Schedules, CliPauseOrDelete(u)
       PROVE  ~row'[s].enabled /\ ~InHand(s)'
  <2>1. ~Paused(u).enabled
    BY <1>11, PresentType DEF CliPauseOrDelete, Paused, Row
  <2> QED
    BY <1>9, <1>11, <2>1 DEF CliPauseOrDelete
<1>12. ASSUME NEW u \in Schedules, CliAdd(u) \/ CliResume(u)
       PROVE  ~row'[s].enabled /\ ~InHand(s)'
  <2>1. u # s /\ wanted'[s] = wanted[s] /\ row'[s] = row[s] /\ UNCHANGED loop
    BY <1>12 DEF CliAdd, CliResume, Write
  <2> QED
    BY <2>1 DEF OffIsOut, InHand
<1>13. CASE Tick \/ UNCHANGED vars
  BY <1>1, <1>13 DEF Tick, tables, vars
<1> QED
  BY <1>2, <1>3, <1>4, <1>5, <1>6, <1>7, <1>8, <1>10, <1>11, <1>12, <1>13
  DEF Next, Loop, Operator, Cli

(* A pause or delete, of whatever process, holds until somebody resumes, for any
   number of daemons and operators, unless a loop had the row in hand when it
   came (materializeSchedules, updateSchedule).                              *)
THEOREM PausesHold == Spec => []PauseHolds
<1>1. Init => OffIsOut
  BY DEF Init, OffIsOut
<1>2. OffIsOut => PauseHolds
  BY DEF OffIsOut, PauseHolds
<1> QED
  BY <1>1, <1>2, OffStep, TypeCorrect, PTL DEF Spec

=============================================================================
