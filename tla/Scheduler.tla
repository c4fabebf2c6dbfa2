----------------------------- MODULE Scheduler -----------------------------
(***************************************************************************)
(* The persistent scheduler: the `schedules` and `schedule_occurrences`    *)
(* tables of packages/state/src/index.ts, the daemon's loop that turns due *)
(* schedules into jobs (Daemon.materializeSchedules) and the operators     *)
(* that create, pause, resume and delete them, in the daemon's process     *)
(* (control API) and in others (`loom schedule ...`).                      *)
(*                                                                         *)
(* Grain of atomicity.  As in JobQueue: one SQL statement or transaction   *)
(* is one step; loop[d] is the position of daemon d inside an              *)
(* uninterrupted run of code.  materializeSchedules contains no await, so  *)
(* no operator of the same process comes between its statements, but every *)
(* other process may.                                                      *)
(*                                                                         *)
(* Timestamps are whole minutes, the resolution of every expression.  An   *)
(* error text is not modelled; what the code does after an error is.       *)
(***************************************************************************)
EXTENDS Integers, FiniteSets

CONSTANTS
    Schedules,       \* schedule ids
    Daemons,         \* slots for daemon processes; a slot may be used again
    Rule,            \* [Schedules -> kind and expression], which never change
    GivenTimes,      \* values a creator passes as nextRunAt himself
    HourLength,      \* minutes per hour (60)
    DayLength,       \* hours per day (24)
    Zone,            \* minutes the host's local time is ahead of UTC
    Horizon,         \* bound: the clock and the crashes stop here
    Env              \* which unfavourable circumstances are possible

(***************************************************************************)
(* Circumstances outside the code's control:                               *)
(*  "cli"      `loom schedule add|pause|resume|delete` in another process; *)
(*  "overlap"  a second daemon process is alive;                           *)
(*  "busy"     a statement of the loop finds the database locked by        *)
(*             another process and throws (no busy timeout is set).        *)
(*                                                                         *)
(* A definition named D_Something is a faulty variant of D.                *)
(***************************************************************************)
Circumstances == {"cli", "overlap", "busy"}
Minutes == HourLength * DayLength
Star == -1    \* the * of a cron field

Rules == [kind : {"once"}, at : Nat \ {0}]
            \cup [kind : {"interval"}, every : Nat]
            \cup [kind : {"cron"}, minute : 0 .. HourLength - 1 \cup {Star},
                  hour : 0 .. DayLength - 1 \cup {Star}]

ASSUME SchedulerAssumption ==
    /\ HourLength \in Nat \ {0} /\ DayLength \in Nat \ {0}
    /\ Zone \in 0 .. Minutes - 1
    /\ Horizon \in Nat \ {0}
    /\ GivenTimes \subseteq Nat
    /\ Env \subseteq Circumstances
    /\ Rule \in [Schedules -> Rules]

VARIABLES
    now,        \* Date.now(), in minutes
    row,        \* [Schedules -> schedules row], NoRow when there is none
    jobs,       \* jobs rows with a schedule_id
    occurrence, \* schedule_occurrences rows
    created,    \* how many scheduled jobs were inserted, names the next one
    proc,       \* [Daemons -> {"off", "up"}]
    loop,       \* [Daemons -> position inside a run of code]
    wanted      \* history: [Schedules -> what the last operator asked for],
                \* "raced" for a pause that came while a loop had the row in hand

tables == <<row, jobs, occurrence, created>>
vars == <<now, tables, proc, loop, wanted>>

-----------------------------------------------------------------------------
Never  == -1
Throws == -2
Kind(s) == Rule[s].kind

NoRow  == [enabled |-> FALSE, next |-> Never, last |-> Never]
Row    == [enabled : BOOLEAN, next : Nat, last : Nat \cup {Never}]
Present(s) == row[s] # NoRow

(***************************************************************************)
(* nextScheduleAt.  Cron reads hour and minute of the local clock for a *  *)
(* and sets them, or the given ones, as UTC; a * minute is the following   *)
(* one, which after the last minute of an hour is out of range and throws. *)
(***************************************************************************)
LocalMinute(from) == (from + Zone) % HourLength
LocalHour(from)   == ((from + Zone) \div HourLength) % DayLength
CronMinute(s, from) ==
    IF Rule[s].minute = Star THEN LocalMinute(from) + 1 ELSE Rule[s].minute
CronHour(s, from) == IF Rule[s].hour = Star THEN LocalHour(from) ELSE Rule[s].hour
CronToday(s, from) ==
    (from - (from % Minutes)) + CronHour(s, from) * HourLength + CronMinute(s, from)
NextCron(s, from) ==
    CASE CronMinute(s, from) > HourLength - 1 -> Throws
      [] CronToday(s, from) > from            -> CronToday(s, from)
      [] OTHER                                -> CronToday(s, from) + Minutes
NextRun(s, from) ==
    CASE Kind(s) = "interval" -> from + Rule[s].every
      [] Kind(s) = "cron"     -> NextCron(s, from)
      [] OTHER                -> Rule[s].at

-----------------------------------------------------------------------------
Due == [schedule : Schedules, at : Nat]
Idle    == [pc |-> "idle"]
Ticking == [pc |-> "list"]
Position == {Idle, Ticking}
    \cup [pc : {"row"}, rest : SUBSET Due]
    \cup [pc : {"advance", "disable"}, rest : SUBSET Due, current : Due]

(* The loop goes on with the remaining rows of its snapshot. *)
Continue(rest) == IF rest = {} THEN Idle ELSE [pc |-> "row", rest |-> rest]
Listening(d) == proc[d] = "up" /\ loop[d] = Idle

(* The identity of an occurrence: scheduleId and intendedRunAt. *)
Identity_Clock(s, at) == <<s, now>>
Identity(s, at) == <<s, at>>
Job == [id : Nat, schedule : Schedules, intended : Nat, key : Schedules \X Nat]
Occurrence == [key : Schedules \X Nat, job : Nat]
Recorded(s, at) == \E o \in occurrence : o.key = Identity(s, at)

TypeOK ==
    /\ now \in Nat
    /\ row \in [Schedules -> Row \cup {NoRow}]
    /\ jobs \subseteq Job
    /\ occurrence \subseteq Occurrence
    /\ created \in Nat
    /\ proc \in [Daemons -> {"off", "up"}]
    /\ loop \in [Daemons -> Position]
    /\ wanted \in [Schedules -> {"none", "on", "off", "raced"}]

Init ==
    /\ now = 1
    /\ row = [s \in Schedules |-> NoRow]
    /\ jobs = {} /\ occurrence = {} /\ created = 0
    /\ proc = [d \in Daemons |-> "off"]
    /\ loop = [d \in Daemons |-> Idle]
    /\ wanted = [s \in Schedules |-> "none"]

-----------------------------------------------------------------------------
(* Daemon processes.  start() awaits a first tick(); a process may end at any
   moment.  Bound: none ends once the clock has stopped.                    *)
Launch(d) ==
    /\ proc[d] = "off"
    /\ "overlap" \in Env \/ \A e \in Daemons : proc[e] = "off"
    /\ proc' = [proc EXCEPT ![d] = "up"]
    /\ loop' = [loop EXCEPT ![d] = Ticking]
    /\ UNCHANGED <<now, tables, wanted>>

End(d) ==
    /\ proc[d] = "up" /\ now < Horizon
    /\ proc' = [proc EXCEPT ![d] = "off"]
    /\ loop' = [loop EXCEPT ![d] = Idle]
    /\ UNCHANGED <<now, tables, wanted>>

-----------------------------------------------------------------------------
(* materializeSchedules: the snapshot of the due rows, next_run_at 0 counting
   as absent ...                                                            *)
IsDue_Paused(s) == Present(s) /\ row[s].next > 0 /\ row[s].next <= now
IsDue(s) == row[s].enabled /\ row[s].next > 0 /\ row[s].next <= now
Snapshot == {[schedule |-> s, at |-> row[s].next] : s \in {t \in Schedules : IsDue(t)}}

ListSchedules(d) ==
    /\ proc[d] = "up" /\ loop[d] \in {Idle, Ticking}
    /\ loop' = [loop EXCEPT ![d] = Continue(Snapshot)]
    /\ UNCHANGED <<now, tables, proc, wanted>>

(* ... read ORDER BY next_run_at ... *)
First(rest) == {r \in rest : \A q \in rest : r.at <= q.at}

(* ... then one transaction per row, which checks the row again and returns
   the job an earlier process already enqueued for the occurrence.          *)
Current_Unchecked(r) == Present(r.schedule)
Current(r) == row[r.schedule].enabled /\ row[r.schedule].next = r.at

EnqueueScheduled(r) ==
    LET key == Identity(r.schedule, r.at)
    IN  IF \E x \in jobs : x.key = key
        THEN /\ occurrence' = occurrence \cup
                   {[key |-> key, job |-> x.id] : x \in {y \in jobs : y.key = key}}
             /\ UNCHANGED <<jobs, created>>
        ELSE /\ created' = created + 1
             /\ jobs' = jobs \cup {[id |-> created', schedule |-> r.schedule,
                                    intended |-> r.at, key |-> key]}
             /\ occurrence' = occurrence \cup {[key |-> key, job |-> created']}

Materialize(d) ==
    /\ loop[d].pc = "row"
    /\ \E r \in First(loop[d].rest) :
          /\ IF Current(r) /\ ~Recorded(r.schedule, r.at)
             THEN EnqueueScheduled(r)
             ELSE UNCHANGED <<jobs, occurrence, created>>
          /\ loop' = [loop EXCEPT ![d] =
                 [pc |-> IF NextRun(r.schedule, r.at) = Throws
                         THEN "disable" ELSE "advance",
                  rest |-> @.rest \ {r}, current |-> r]]
    /\ UNCHANGED <<now, row, proc, wanted>>

(* UPDATE schedules ... WHERE id=?, without effect when the row is gone. *)
Updated(s, new) == IF Present(s) THEN [row EXCEPT ![s] = new] ELSE row
NextOf(s, at) == IF Kind(s) = "once" THEN row[s].next ELSE NextRun(s, at)

(* The row is advanced whatever materializeSchedule returned.  The events and
   traces written after the update are in the same try block.               *)
Advance(d) ==
    /\ loop[d].pc = "advance"
    /\ LET s == loop[d].current.schedule
           at == loop[d].current.at
       IN  row' = Updated(s, [enabled |-> Kind(s) # "once",
                              next |-> NextOf(s, at), last |-> at])
    /\ \/ loop' = [loop EXCEPT ![d] = Continue(@.rest)]
       \/ "busy" \in Env /\ loop' = [loop EXCEPT ![d].pc = "disable"]
    /\ UNCHANGED <<now, jobs, occurrence, created, proc, wanted>>

(* A statement of the loop throws: its transaction is rolled back. *)
Busy(d) ==
    /\ "busy" \in Env
    /\ \/ /\ loop[d].pc = "row"
          /\ \E r \in First(loop[d].rest) :
                loop' = [loop EXCEPT ![d] =
                    [pc |-> "disable", rest |-> @.rest \ {r}, current |-> r]]
       \/ /\ loop[d].pc = "advance"
          /\ loop' = [loop EXCEPT ![d].pc = "disable"]
    /\ UNCHANGED <<now, tables, proc, wanted>>

(* The catch block. *)
Disable_LoopAborted(d) ==
    /\ loop[d].pc = "disable"
    /\ loop' = [loop EXCEPT ![d] = Idle]
    /\ UNCHANGED <<now, tables, proc, wanted>>
Disable(d) ==
    /\ loop[d].pc = "disable"
    /\ LET s == loop[d].current.schedule
       IN  row' = Updated(s, [row[s] EXCEPT !.enabled = FALSE])
    /\ loop' = [loop EXCEPT ![d] = Continue(@.rest)]
    /\ UNCHANGED <<now, jobs, occurrence, created, proc, wanted>>

-----------------------------------------------------------------------------
(* A loop has the row in its snapshot and has not written it back yet. *)
InHand(s) ==
    \E d \in Daemons :
        \/ loop[d].pc \in {"row", "advance", "disable"} /\ \E r \in loop[d].rest : r.schedule = s
        \/ loop[d].pc = "advance" /\ loop[d].current.schedule = s

(* Operators.  In the daemon's process they are served between two runs of
   code, and creating or resuming starts a tick before anything else.       *)
Write(s, new, command) ==
    /\ row' = [row EXCEPT ![s] = new]
    /\ wanted' = [wanted EXCEPT ![s] = IF command = "off" /\ InHand(s) THEN "raced" ELSE command]
    /\ UNCHANGED <<now, jobs, occurrence, created, proc>>

NewRow(at) == [enabled |-> TRUE, next |-> at, last |-> Never]
Resumed(s) == [row[s] EXCEPT !.enabled = TRUE, !.next = NextRun(s, now)]
Paused(s)  == [row[s] EXCEPT !.enabled = FALSE]

CreateSchedule(d, s) ==
    /\ Listening(d) /\ ~Present(s)
    /\ \E at \in ({NextRun(s, now)} \ {Throws}) \cup GivenTimes :
          Write(s, NewRow(at), "on")
    /\ loop' = [loop EXCEPT ![d] = Ticking]

PauseSchedule(d, s) ==
    /\ Listening(d) /\ Present(s)
    /\ Write(s, Paused(s), "off")
    /\ UNCHANGED loop

ResumeSchedule(d, s) ==
    /\ Listening(d) /\ Present(s)
    /\ NextRun(s, now) # Throws
    /\ Write(s, Resumed(s), "on")
    /\ loop' = [loop EXCEPT ![d] = Ticking]

DeleteSchedule(d, s) ==
    /\ Listening(d) /\ Present(s)
    /\ Write(s, NoRow, "off")
    /\ UNCHANGED loop

(* `loom schedule ...`: another process, at any moment; its delete keeps the
   row.                                                                     *)
CliAdd(s) ==
    /\ "cli" \in Env /\ ~Present(s)
    /\ NextRun(s, now) # Throws
    /\ Write(s, NewRow(NextRun(s, now)), "on")
    /\ UNCHANGED loop

CliPauseOrDelete(s) ==
    /\ "cli" \in Env /\ Present(s)
    /\ Write(s, Paused(s), "off")
    /\ UNCHANGED loop

CliResume(s) ==
    /\ "cli" \in Env /\ Present(s)
    /\ NextRun(s, now) # Throws
    /\ Write(s, Resumed(s), "on")
    /\ UNCHANGED loop

Tick ==
    /\ now < Horizon
    /\ now' = now + 1
    /\ UNCHANGED <<tables, proc, loop, wanted>>

-----------------------------------------------------------------------------
Loop(d) == ListSchedules(d) \/ Materialize(d) \/ Advance(d) \/ Disable(d)
Operator(d, s) == \/ CreateSchedule(d, s) \/ PauseSchedule(d, s)
                  \/ ResumeSchedule(d, s) \/ DeleteSchedule(d, s)
Cli(s) == CliAdd(s) \/ CliPauseOrDelete(s) \/ CliResume(s)

Next ==
    \/ \E d \in Daemons : Launch(d) \/ End(d) \/ Loop(d) \/ Busy(d)
    \/ \E d \in Daemons, s \in Schedules : Operator(d, s)
    \/ \E s \in Schedules : Cli(s)
    \/ Tick

Spec == Init /\ [][Next]_vars

(* The poll timer fires and synchronous code runs on; a supervisor restarts
   the daemon; time passes.  Nothing is assumed of operators or crashes.    *)
Fairness ==
    /\ \A d \in Daemons : WF_vars(Loop(d)) /\ WF_vars(Launch(d))
    /\ WF_vars(Tick)
FairSpec == Spec /\ Fairness

-----------------------------------------------------------------------------
(* "Due occurrence identity is scheduleId + intendedRunAt, preventing
   duplicate logical jobs after restart" (docs/scheduler.md): whatever crashes,
   overlaps or is resumed, recreated or locked, an occurrence has one job.   *)
OneJobPerOccurrence ==
    \A x, y \in jobs :
        x.schedule = y.schedule /\ x.intended = y.intended => x = y

(* A one-shot schedule runs once in its life, also when it is resumed or
   recreated after it ran, or its creation raced a restart.  Holds when
   creators leave nextRunAt to the daemon (GivenTimes = {}).                 *)
OnceRunsOnce ==
    \A x, y \in jobs : x.schedule = y.schedule /\ Kind(x.schedule) = "once" => x = y

(* Restarts, overlapping daemons, retries after a lock and re-creation of a
   schedule add no job that the schedule did not call for (GivenTimes = {}). *)
NoSpuriousJobs == TypeOK /\ OneJobPerOccurrence /\ OnceRunsOnce

(* "Paused schedules are disabled" (docs/scheduler.md): after a pause or a
   delete, by whatever process, a schedule stays disabled until an operator
   resumes it, although every loop writes enabled = TRUE without looking at the
   row.  The code has one exception: a pause that another process writes between
   a loop's read of the row and its write is undone ("raced").               *)
PauseHolds == \A s \in Schedules : wanted[s] = "off" => ~row[s].enabled

(* last_run_at never names an occurrence that got no job, although the daemon
   advances a schedule without looking at what materializeSchedule returned.
   Holds without "cli" and "overlap".                                        *)
LastRunHappened ==
    \A s \in Schedules : row[s].last # Never => Recorded(s, row[s].last)

(* A stale snapshot is refused (state/src/index.test.ts, "does not materialize
   a stale schedule snapshot after pause"): a job appears only for a schedule
   that is enabled and due at its intended time in the very step, in all
   circumstances.                                                            *)
StaleSnapshotRefused ==
    [][\A x \in jobs' \ jobs : /\ row[x.schedule].enabled
                               /\ row[x.schedule].next = x.intended
                               /\ x.intended <= now]_vars

(* "Supports ... a bounded five-field cron form" (docs/scheduler.md): a
   recurring schedule that was accepted keeps running until an operator stops
   it.                                                                       *)
RecurringStaysEnabled ==
    \A s \in Schedules : wanted[s] = "on" /\ Kind(s) # "once" => row[s].enabled

(* "An overdue schedule materializes one logical occurrence"
   (docs/scheduler.md): an enabled schedule that is due gets the job of that
   occurrence, however many others are due or failing, unless an operator moves
   it or a locked database makes the loop disable it.                        *)
DueAt(s, t)  == row[s].enabled /\ row[s].next = t /\ t <= now
Moved(s, t)  == wanted[s] # "on" \/ (row[s].enabled /\ row[s].next # t)
LockedOut(s) == "busy" \in Env /\ ~row[s].enabled
DueRuns ==
    \A s \in Schedules : \A t \in 1 .. Horizon :
        DueAt(s, t) ~> (Recorded(s, t) \/ Moved(s, t) \/ LockedOut(s))
=============================================================================
