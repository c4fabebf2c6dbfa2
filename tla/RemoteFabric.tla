---------------------------- MODULE RemoteFabric ----------------------------
(***************************************************************************)
(* The remote execution fabric of Loom (packages/remote): a controller that*)
(* leases assignments to workers with fencing tokens, the connections      *)
(* between them, and the workers that execute a tool once and replay what  *)
(* they know.  Controller tables (remote_assignments, remote_leases,       *)
(* protocol_messages, remote_event_cursors) and the worker's own record    *)
(* survive crashes; connections, executions and the controller's position  *)
(* in a handler do not.                                                    *)
(*                                                                         *)
(* A connection is a pair of FIFO channels that break together.  An        *)
(* envelope created while its worker has no current connection carries a   *)
(* stale connection id and is refused on arrival, so it counts as lost.    *)
(* A lease is its fencing token, its number in `leases`; an envelope carries*)
(* the lease it was sent under, which tells its assignment (Of).           *)
(*                                                                         *)
(* A definition named D_Something is a faulty variant of D: a run with D   *)
(* replaced by it violates the property PROJECT.json names beside it.      *)
(***************************************************************************)
EXTENDS Integers, FiniteSets, Sequences

CONSTANTS
    Assignments,    \* assignment ids
    Workers,        \* worker ids
    NoWorker,       \* worker_id of an assignment not inserted yet
    LeaseTime,      \* leaseMs, in ticks
    MaxTokens,      \* bound: leases ever granted
    MaxCancelled,   \* bound: the last lease under which an assignment is cancelled
    MaxLinks        \* bound: connections ever made

ASSUME ConstantsAssumption ==
    /\ NoWorker \notin Workers
    /\ LeaseTime \in Nat \ {0}
    /\ MaxTokens \in Nat
    /\ MaxCancelled \in Nat
    /\ MaxLinks \in Nat

VARIABLES
    status,      \* [Assignments -> remote_assignments.status], "absent" before
    holder,      \* [Assignments -> worker_id]
    held,        \* [Assignments -> fencing token of lease_id], 0 when NULL
    leases,      \* remote_leases, in the order of their fencing tokens
    outbox,      \* [Workers -> protocol_messages to the worker, by sequence]
    ctl,         \* the controller's position inside a run of code
    todo,        \* expired assignments a recovery still has to visit
    known,       \* workers attached since the controller started
    links,       \* connections made so far
    linked,      \* [Workers -> the connection is current and open]
    replay,      \* [Workers -> the attached connection awaits its replay]
    toWorker,    \* [Workers -> envelopes on their way to the worker]
    toCtl,       \* [Workers -> envelopes on their way to the controller]
    cursors,     \* [Workers -> leases with an event cursor of the connection]
    latest,      \* [Workers -> lease of the connection's last event, or 0]
    record,      \* [Workers -> [Assignments -> the worker's durable record]]
    execs,       \* [Workers -> pending calls of handle()]
    ran,         \* history: [Workers -> [Assignments -> tool executions]]
    settler      \* history: [Assignments -> token that last settled it], or 0

tables   == <<status, holder, held, leases, outbox, settler>>
ctlVars  == <<ctl, todo, known>>
netVars  == <<links, linked, replay, toWorker, toCtl, cursors, latest>>
wrkVars  == <<record, execs, ran>>
vars     == <<tables, ctlVars, netVars, wrkVars>>

-----------------------------------------------------------------------------
Settled  == {"completed", "failed", "cancelled"}
Token    == 1 .. MaxTokens
Idle     == [pc |-> "idle"]
Position ==
    {Idle} \cup [pc : {"lease", "record"}, a : Assignments, w : Workers]
           \cup [pc : {"release"}, token : Token]
           \cup [pc : {"revoke", "notify"}, w : Workers, token : Token]

Lease == [a : Assignments, w : Workers, status : {"active", "released", "expired"},
          left : 0 .. LeaseTime,    \* expires_at - now
          given : 0 .. LeaseTime]   \* expiresAt of the dispatch envelope - now

Order == [type : {"dispatch", "cancel"}, token : Token, n : Nat \ {0}]
Row   == [order : Order, acked : BOOLEAN]
Event == [type : {"accepted", "started", "renew", "result", "error"},
          token : Token, outcome : Settled \cup {"none"}]
Ack   == [type : {"ack"}, n : Nat \ {0}]
Exec  == [token : Token, n : Nat \ {0},
          pc : {"start", "exec", "stalled", "ack", "broken"}]

Of(e) == leases[e.token].a

TypeOK ==
    /\ status \in [Assignments -> Settled \cup {"absent", "assigned", "dispatched",
                                               "accepted", "running", "expired"}]
    /\ holder \in [Assignments -> Workers \cup {NoWorker}]
    /\ held \in [Assignments -> 0 .. MaxTokens]
    /\ leases \in Seq(Lease) /\ Len(leases) <= MaxTokens
    /\ outbox \in [Workers -> Seq(Row)]
    /\ ctl \in Position
    /\ todo \subseteq Assignments
    /\ known \subseteq Workers
    /\ links \in 0 .. MaxLinks
    /\ linked \in [Workers -> BOOLEAN]
    /\ replay \in [Workers -> BOOLEAN]
    /\ toWorker \in [Workers -> Seq(Order)]
    /\ toCtl \in [Workers -> Seq(Event \cup Ack)]
    /\ cursors \in [Workers -> SUBSET Token]
    /\ latest \in [Workers -> 0 .. MaxTokens]
    /\ record \in [Workers -> [Assignments -> {"none", "running", "completed", "failed", "cancelled"}]]
    /\ execs \in [Workers -> SUBSET Exec]
    /\ ran \in [Workers -> [Assignments -> Nat]]
    /\ settler \in [Assignments -> 0 .. MaxTokens]

Init ==
    /\ status = [a \in Assignments |-> "absent"]
    /\ holder = [a \in Assignments |-> NoWorker]
    /\ held = [a \in Assignments |-> 0]
    /\ leases = <<>>
    /\ outbox = [w \in Workers |-> <<>>]
    /\ ctl = Idle
    /\ todo = {}
    /\ known = {}
    /\ links = 0
    /\ linked = [w \in Workers |-> FALSE]
    /\ replay = [w \in Workers |-> FALSE]
    /\ toWorker = [w \in Workers |-> <<>>]
    /\ toCtl = [w \in Workers |-> <<>>]
    /\ cursors = [w \in Workers |-> {}]
    /\ latest = [w \in Workers |-> 0]
    /\ record = [w \in Workers |-> [a \in Assignments |-> "none"]]
    /\ execs = [w \in Workers |-> {}]
    /\ ran = [w \in Workers |-> [a \in Assignments |-> 0]]
    /\ settler = [a \in Assignments |-> 0]

-----------------------------------------------------------------------------
(* Connections.                                                            *)

(* attach(): the new connection has no cursors and carries nothing yet; the
   replay follows in a timer of its own.                                   *)
Attach(w) ==
    /\ ctl = Idle
    /\ ~linked[w]     \* a connection replaced while open: Disconnect, then Attach
    /\ links < MaxLinks
    /\ links' = links + 1
    /\ known' = known \cup {w}
    /\ linked' = [linked EXCEPT ![w] = TRUE]
    /\ replay' = [replay EXCEPT ![w] = TRUE]
    /\ UNCHANGED <<tables, ctl, todo, toWorker, toCtl, cursors, latest, wrkVars>>

(* The orders not acknowledged, by sequence: the i-th has i - 1 before it. *)
Unacked(w) == {n \in DOMAIN outbox[w] : ~outbox[w][n].acked}
Ranked(S, i) == CHOOSE n \in S : Cardinality({m \in S : m < n}) = i - 1
Orders(w) == [i \in 1 .. Cardinality(Unacked(w)) |-> outbox[w][Ranked(Unacked(w), i)].order]

(* reconnect(): every unacknowledged order is sent again, in sequence. *)
Replay(w) ==
    /\ ctl = Idle
    /\ linked[w] /\ replay[w]
    /\ replay' = [replay EXCEPT ![w] = FALSE]
    /\ toWorker' = [toWorker EXCEPT ![w] = @ \o Orders(w)]
    /\ UNCHANGED <<tables, ctlVars, links, linked, toCtl, cursors, latest, wrkVars>>

(* The links of the workers in W break: what is under way is lost or will be
   refused as stale, and no later event refers to the old cursors.         *)
Broken(W) ==
    /\ linked' = [w \in Workers |-> linked[w] /\ w \notin W]
    /\ replay' = [w \in Workers |-> replay[w] /\ w \notin W]
    /\ toWorker' = [w \in Workers |-> IF w \in W THEN <<>> ELSE toWorker[w]]
    /\ toCtl' = [w \in Workers |-> IF w \in W THEN <<>> ELSE toCtl[w]]
    /\ cursors' = [w \in Workers |-> IF w \in W THEN {} ELSE cursors[w]]
    /\ latest' = [w \in Workers |-> IF w \in W THEN 0 ELSE latest[w]]
    /\ UNCHANGED links

Disconnect(w) ==
    /\ linked[w]
    /\ Broken({w})
    /\ UNCHANGED <<tables, ctlVars, wrkVars>>

WorkerCrash(w) ==
    /\ linked[w] \/ execs[w] # {}
    /\ execs' = [execs EXCEPT ![w] = {}]
    /\ Broken({w})
    /\ UNCHANGED <<tables, ctlVars, record, ran>>

ControllerCrash ==
    /\ known # {}
    /\ ctl' = Idle
    /\ todo' = {}
    /\ known' = {}
    /\ Broken(Workers)
    /\ UNCHANGED <<tables, wrkVars>>

-----------------------------------------------------------------------------
(* The controller's operations.                                            *)

ActiveLease(a) == \E n \in DOMAIN leases : leases[n].a = a /\ leases[n].status = "active"

(* dispatch() of a new job to an eligible worker; for a job that exists it
   returns its lease or throws at the primary key.                         *)
AssignRemote(a, w) ==
    /\ ctl = Idle
    /\ linked[w]
    /\ status[a] = "absent"
    /\ status' = [status EXCEPT ![a] = "assigned"]
    /\ holder' = [holder EXCEPT ![a] = w]
    /\ ctl' = [pc |-> "lease", a |-> a, w |-> w]
    /\ UNCHANGED <<held, leases, outbox, settler, todo, known, netVars, wrkVars>>

Leasable(a, w) ==
    /\ status[a] = "expired" \/ (status[a] = "assigned" /\ holder[a] = w)
    /\ ~ActiveLease(a)
    /\ Len(leases) < MaxTokens

Holding_FirstLease(a) == [held EXCEPT ![a] = IF @ = 0 THEN Len(leases) + 1 ELSE @]
Holding(a) == [held EXCEPT ![a] = Len(leases) + 1]

(* acquireRemoteLease, one transaction. *)
Acquire(a, w) ==
    /\ Leasable(a, w)
    /\ leases' = Append(leases, [a |-> a, w |-> w, status |-> "active",
                                 left |-> LeaseTime, given |-> LeaseTime])
    /\ status' = [status EXCEPT ![a] = "dispatched"]
    /\ holder' = [holder EXCEPT ![a] = w]
    /\ held' = Holding(a)
    /\ ctl' = [pc |-> "record", a |-> a, w |-> w]
    /\ UNCHANGED <<settler, known, netVars, wrkVars>>

AcquireRemoteLease ==
    /\ ctl.pc = "lease"
    /\ Acquire(ctl.a, ctl.w)
    /\ UNCHANGED <<outbox, todo>>

(* An order is recorded in the outbox before it is sent. *)
Recorded(w, type, token) ==
    LET order == [type |-> type, token |-> token, n |-> Len(outbox[w]) + 1]
    IN  /\ outbox' = [outbox EXCEPT ![w] = Append(@, [order |-> order, acked |-> FALSE])]
        /\ toWorker' = IF linked[w] THEN [toWorker EXCEPT ![w] = Append(@, order)]
                                    ELSE toWorker

SendDispatch ==
    /\ ctl.pc = "record"
    /\ Recorded(ctl.w, "dispatch", held[ctl.a])
    /\ ctl' = Idle
    /\ UNCHANGED <<status, holder, held, leases, settler, todo, known,
                   links, linked, replay, toCtl, cursors, latest, wrkVars>>

Lapsed(n) == leases[n].status = "active" /\ leases[n].left = 0


(* The assignments whose status expireRemoteLeases sets: not an accepted one. *)
Flips(a) == held[a] # 0 /\ Lapsed(held[a]) /\ status[a] \in {"dispatched", "running"}

(* recoverExpiredAssignments(): expireRemoteLeases, then the list of the
   expired assignments is visited with an await after each.               *)
ExpireLeases ==
    /\ ctl = Idle /\ todo = {}     \* bound: one recovery at a time
    /\ leases' = [n \in DOMAIN leases |->
                    IF Lapsed(n) THEN [leases[n] EXCEPT !.status = "expired"] ELSE leases[n]]
    /\ status' = [a \in Assignments |-> IF Flips(a) THEN "expired" ELSE status[a]]
    /\ todo' = {a \in Assignments : status'[a] = "expired"}
    /\ <<leases', todo'>> # <<leases, todo>>
    /\ UNCHANGED <<holder, held, outbox, settler, ctl, known, netVars, wrkVars>>

(* Old dispatches of the assignment to the chosen worker are not replayed. *)
Superseded(rows, a) ==
    [i \in DOMAIN rows |->
       IF rows[i].order.type = "dispatch" /\ Of(rows[i].order) = a
         THEN [rows[i] EXCEPT !.acked = TRUE] ELSE rows[i]]

Redispatch(a, w) ==
    /\ ctl = Idle
    /\ a \in todo
    /\ linked[w]
    /\ Acquire(a, w)
    /\ outbox' = [outbox EXCEPT ![w] = Superseded(@, a)]
    /\ todo' = todo \ {a}

(* The lease is refused and the recovery throws, or no worker is eligible. *)
AbandonRecovery ==
    /\ ctl = Idle
    /\ \/ \E a \in todo : /\ status[a] # "expired" \/ Len(leases) = MaxTokens
                          /\ todo' = {}
       \/ \E a \in todo : /\ \A w \in Workers : ~linked[w]
                          /\ todo' = todo \ {a}
    /\ UNCHANGED <<tables, ctl, known, netVars, wrkVars>>

(* cancel(): three statements and a send, without an await between them. *)
Cancel(a) ==
    /\ ctl = Idle
    /\ held[a] \in 1 .. MaxCancelled /\ holder[a] \in known
    /\ status[a] # "cancelled"     \* bound: an assignment is cancelled once
    /\ status' = [status EXCEPT ![a] = "cancelled"]
    /\ ctl' = [pc |-> "revoke", w |-> holder[a], token |-> held[a]]
    /\ UNCHANGED <<holder, held, leases, outbox, settler, todo, known, netVars, wrkVars>>

Released(n) ==
    IF leases[n].status = "active" THEN [leases EXCEPT ![n].status = "released"] ELSE leases

RevokeLease ==
    /\ ctl.pc = "revoke"
    /\ leases' = Released(ctl.token)
    /\ ctl' = [ctl EXCEPT !.pc = "notify"]
    /\ UNCHANGED <<status, holder, held, outbox, settler, todo, known, netVars, wrkVars>>

SendCancel ==
    /\ ctl.pc = "notify"
    /\ Recorded(ctl.w, "cancel", ctl.token)
    /\ ctl' = Idle
    /\ UNCHANGED <<status, holder, held, leases, settler, todo, known,
                   links, linked, replay, toCtl, cursors, latest, wrkVars>>

-----------------------------------------------------------------------------
(* receive(): inbound envelopes.                                           *)

(* The order in which a connection's events are taken: after the first one a
   lease's events must follow each other without any envelope between.     *)
InOrder(w, e) == e.token \notin cursors[w] \/ latest[w] = e.token

Fenced_WorkerOnly(w, e) == holder[Of(e)] = w /\ InOrder(w, e)
Fenced_EndedLease(w, e) == holder[Of(e)] = w /\ held[Of(e)] = e.token /\ InOrder(w, e)

(* acceptRemoteEvent *)
Fenced(w, e) ==
    /\ e.token \in DOMAIN leases
    /\ holder[Of(e)] = w
    /\ held[Of(e)] = e.token
    /\ leases[e.token].status = "active"
    /\ leases[e.token].left > 0
    /\ InOrder(w, e)

Take(w) ==
    /\ ctl = Idle
    /\ toCtl[w] # <<>>
    /\ toCtl' = [toCtl EXCEPT ![w] = Tail(@)]
    /\ UNCHANGED <<links, linked, replay, toWorker, todo, known, wrkVars>>

(* An acknowledgement is cumulative. *)
ReceiveAck(w) ==
    /\ Take(w)
    /\ LET e == Head(toCtl[w])
       IN  /\ e.type = "ack"
           /\ outbox' = [outbox EXCEPT ![w] =
                [i \in DOMAIN @ |-> IF i <= e.n THEN [@[i] EXCEPT !.acked = TRUE] ELSE @[i]]]
    /\ latest' = [latest EXCEPT ![w] = 0]
    /\ UNCHANGED <<status, holder, held, leases, settler, ctl, cursors>>

RejectEvent(w) ==
    /\ Take(w)
    /\ Head(toCtl[w]).type # "ack"
    /\ ~Fenced(w, Head(toCtl[w]))
    /\ latest' = [latest EXCEPT ![w] = 0]
    /\ UNCHANGED <<tables, ctl, cursors>>


(* The status an accepted event gives the assignment: every result that is
   not a cancellation counts as completed.                                 *)
NewStatus(e) ==
    IF e.type = "accepted" THEN "accepted"
    ELSE IF e.type = "started" THEN "running"
    ELSE IF e.type = "error" THEN "failed"
    ELSE IF e.outcome = "cancelled" THEN "cancelled" ELSE "completed"

(* The transaction and the statement after it; a crash between the two leaves
   what a crash before both leaves, the connection being gone.             *)
AcceptEvent(w) ==
    /\ Take(w)
    /\ LET e == Head(toCtl[w])
       IN  /\ e.type # "ack"
           /\ Fenced(w, e)
           /\ cursors' = [cursors EXCEPT ![w] = @ \cup {e.token}]
           /\ latest' = [latest EXCEPT ![w] = e.token]
           /\ IF e.type = "renew"
                THEN /\ leases' = [leases EXCEPT ![e.token].left = LeaseTime]
                     /\ UNCHANGED <<status, settler, ctl>>
                ELSE /\ status' = [status EXCEPT ![Of(e)] = NewStatus(e)]
                     /\ settler' = [settler EXCEPT ![Of(e)] =
                                      IF NewStatus(e) \in Settled THEN e.token ELSE @]
                     /\ ctl' = IF e.type \in {"result", "error"}
                                 THEN [pc |-> "release", token |-> e.token]
                                 ELSE ctl
                     /\ UNCHANGED leases
    /\ UNCHANGED <<holder, held, outbox>>

ReleaseLease ==
    /\ ctl.pc = "release"
    /\ leases' = Released(ctl.token)
    /\ ctl' = Idle
    /\ UNCHANGED <<status, holder, held, outbox, settler, todo, known, netVars, wrkVars>>

-----------------------------------------------------------------------------
(* The worker: RemoteWorkerRuntime.handle().  Its workspace, executor and tool
   policy are those the assignment asks for; a worker whose configuration
   differs refuses before it records anything.                             *)

Says(type, x, outcome) ==
    [type |-> type, token |-> x.token, outcome |-> outcome]
AckOf(x) == [type |-> "ack", n |-> x.n]

Emitted(w, messages) ==
    /\ toCtl' = IF linked[w] THEN [toCtl EXCEPT ![w] = @ \o messages] ELSE toCtl
    /\ UNCHANGED <<links, linked, replay, cursors, latest>>

Arrives(w) ==
    /\ toWorker[w] # <<>>
    /\ toWorker' = [toWorker EXCEPT ![w] = Tail(@)]
    /\ UNCHANGED <<tables, ctlVars>>

HandleCancel(w) ==
    /\ Arrives(w)
    /\ LET o == Head(toWorker[w])
       IN  /\ o.type = "cancel"
           /\ record' = [record EXCEPT ![w][Of(o)] = "cancelled"]
           /\ Emitted(w, <<AckOf(o)>>)
    /\ UNCHANGED <<execs, ran>>

(* What a dispatch is answered with when it is not executed: nothing when its
   lease has passed, an error when an execution is on record, a replay of the
   recorded outcome otherwise.                                             *)

Reply(w, o) ==
    IF leases[o.token].given = 0 THEN <<>>
    ELSE IF record[w][Of(o)] = "running" THEN <<Says("error", o, "failed")>>
    ELSE <<Says("result", o, record[w][Of(o)])>>

Fresh_NotRecorded(w, o) == leases[o.token].given > 0 /\ record[w][Of(o)] \in {"none", "running"}
Fresh(w, o) == leases[o.token].given > 0 /\ record[w][Of(o)] = "none"

AnswerDispatch(w) ==
    /\ Arrives(w)
    /\ LET o == Head(toWorker[w])
       IN  /\ o.type = "dispatch"
           /\ ~Fresh(w, o)
           /\ Emitted(w, Append(Reply(w, o), AckOf(o)))
    /\ UNCHANGED wrkVars

BeginExecution(w) ==
    /\ Arrives(w)
    /\ LET o == Head(toWorker[w])
       IN  /\ o.type = "dispatch"
           /\ Fresh(w, o)
           /\ record' = [record EXCEPT ![w][Of(o)] = "running"]
           /\ execs' = [execs EXCEPT ![w] = @ \cup
                          {[token |-> o.token, n |-> o.n, pc |-> "start"]}]
           /\ Emitted(w, <<Says("accepted", o, "none")>>)
    /\ UNCHANGED ran

Moves(w, x, pc) == execs' = [execs EXCEPT ![w] = (@ \ {x}) \cup {[x EXCEPT !.pc = pc]}]
Ends(w, x) == execs' = [execs EXCEPT ![w] = @ \ {x}]

(* emit(started), then the tool is called.  Without a connection send() may
   also give up: handle() rejects and its renewal timer is never cleared.  *)
StartExecution(w, x) ==
    /\ x.pc = "start"
    /\ Emitted(w, <<Says("started", x, "none")>>)
    /\ \/ Moves(w, x, "exec") /\ ran' = [ran EXCEPT ![w][Of(x)] = @ + 1]
       \/ ~linked[w] /\ Moves(w, x, "broken") /\ UNCHANGED ran
    /\ UNCHANGED <<tables, ctlVars, toWorker, record>>

Renewing == {"start", "exec", "broken"}
Renew(w, x) ==
    /\ x.pc \in Renewing
    /\ linked[w]
    /\ \A i \in DOMAIN toCtl[w] : toCtl[w][i].type # "renew"   \* bound: one under way
    /\ leases[x.token].status = "active" /\ leases[x.token].left < LeaseTime
                                                     \* bound: only renewals that matter
    /\ Emitted(w, <<Says("renew", x, "none")>>)
    /\ UNCHANGED <<tables, ctlVars, toWorker, wrkVars>>

(* The tool has returned: the record is saved, unless a cancellation came before,
   then result and ack are sent.  Without a connection the result waits in send(). *)
ToolReturns(w, x) ==
    /\ x.pc = "exec"
    /\ IF record[w][Of(x)] = "cancelled"
         THEN /\ UNCHANGED record
              /\ Emitted(w, <<Says("result", x, "cancelled"), AckOf(x)>>)
         ELSE /\ record' = [record EXCEPT ![w][Of(x)] = "completed"]
              /\ Emitted(w, <<Says("result", x, "completed"), AckOf(x)>>)
    /\ IF linked[w] THEN Ends(w, x) ELSE Moves(w, x, "stalled")
    /\ UNCHANGED <<tables, ctlVars, toWorker, ran>>

(* catch: the tool threw, whatever the record says. *)
ToolThrows(w, x) ==
    /\ x.pc = "exec"
    /\ record' = [record EXCEPT ![w][Of(x)] = "failed"]
    /\ Emitted(w, <<Says("error", x, "failed"), AckOf(x)>>)
    /\ IF linked[w] THEN Ends(w, x) ELSE Moves(w, x, "ack")
    /\ UNCHANGED <<tables, ctlVars, toWorker, ran>>

(* The result was written to a new socket with the old connection id, or the
   wait timed out and the catch clause saves a failure, over a completion and
   over a cancellation.                                                    *)
StallEnds(w, x) ==
    /\ x.pc = "stalled"
    /\ \/ Emitted(w, <<>>) /\ UNCHANGED record
       \/ /\ record' = [record EXCEPT ![w][Of(x)] = "failed"]
          /\ Emitted(w, <<Says("error", x, "failed")>>)
    /\ Moves(w, x, "ack")
    /\ UNCHANGED <<tables, ctlVars, toWorker, ran>>

FinishHandling(w, x) ==
    /\ x.pc = "ack"
    /\ Emitted(w, <<AckOf(x)>>)
    /\ Ends(w, x)
    /\ UNCHANGED <<tables, ctlVars, toWorker, record, ran>>

-----------------------------------------------------------------------------
Down(t) == IF t > 0 THEN t - 1 ELSE 0

Tick ==
    /\ ctl = Idle
    /\ leases' = [n \in DOMAIN leases |->
                    [leases[n] EXCEPT !.left = IF leases[n].status = "active" THEN Down(@) ELSE @,
                                      !.given = Down(@)]]
    /\ leases' # leases
    /\ UNCHANGED <<status, holder, held, outbox, settler, ctlVars, netVars, wrkVars>>

Controller ==
    \/ \E a \in Assignments, w \in Workers : AssignRemote(a, w) \/ Redispatch(a, w)
    \/ \E a \in Assignments : Cancel(a)
    \/ AcquireRemoteLease \/ SendDispatch \/ RevokeLease \/ SendCancel \/ ReleaseLease
    \/ ExpireLeases \/ AbandonRecovery
    \/ \E w \in Workers : \/ Attach(w) \/ Replay(w)
                          \/ ReceiveAck(w) \/ RejectEvent(w) \/ AcceptEvent(w)

Worker(w) ==
    \/ HandleCancel(w) \/ AnswerDispatch(w) \/ BeginExecution(w)
    \/ \E x \in execs[w] :
         \/ StartExecution(w, x) \/ Renew(w, x) \/ ToolReturns(w, x)
         \/ ToolThrows(w, x) \/ StallEnds(w, x) \/ FinishHandling(w, x)

(* A run of the controller is not interleaved with the rest: until its end it
   touches tables only, which no worker and no connection reads.           *)
Next ==
    \/ Controller \/ ControllerCrash
    \/ ctl = Idle /\ \E w \in Workers : Worker(w) \/ Disconnect(w) \/ WorkerCrash(w)
    \/ Tick

Spec == Init /\ [][Next]_vars

-----------------------------------------------------------------------------
(* An assignment has at most one active lease, the one lease_id names, across
   expiry, takeover, cancellation and crashes between the statements.      *)
OneActiveLease ==
    \A n \in DOMAIN leases : leases[n].status = "active" => held[leases[n].a] = n

(* An assignment that is dispatched or running has an active lease, so that its
   expiry gives the assignment back.  An accepted one may have lost it: it is
   then out of reach of every recovery (expireRemoteLeases skips it).      *)
InFlightIsLeased ==
    \A a \in Assignments : status[a] \in {"dispatched", "running"}
        => held[a] # 0 /\ leases[held[a]].status = "active"

(* Leases and assignments agree, whatever expires, is taken over or is cut off by
   a crash between two statements.                                         *)
LeasesAgree == OneActiveLease /\ InFlightIsLeased

(* "Fencing prevents a disconnected or restarted worker generation from
   overwriting current state" (docs/remote-leases.md): the outcome of an
   assignment is that of its newest lease, over takeovers by other workers and
   by the same one.                                                        *)
NewestSettles ==
    \A a \in Assignments : status[a] \in {"completed", "failed"}
        => \A n \in DOMAIN leases : leases[n].a = a => n <= settler[a]

(* A settled assignment whose lease has ended changes by a cancellation only:
   no late result, replay, expiry or recovery touches it.                  *)
SettledIsFinal ==
    [][\A a \in Assignments :
         status[a] \in Settled /\ ~ActiveLease(a) /\ status'[a] # status[a]
           => status'[a] = "cancelled"]_vars

(* "Completed assignment records are replayed as results without executing the
   tool again" (docs/remote-execution.md): a worker runs the tool of an
   assignment at most once, over replays, takeovers and its own restarts.  *)
ToolRunsOnce == \A w \in Workers, a \in Assignments : ran[w][a] <= 1

(* A completion is backed by a worker whose execution came to an end. *)
CompletedHasEnded ==
    \A a \in Assignments : status[a] = "completed"
        => \E w \in Workers : record[w][a] \in {"completed", "failed"}

(* A tool runs once and its assignment is not completed before it has, over
   lost connections, replays, takeovers and restarts of both sides.        *)
ToolRunIsRecorded == TypeOK /\ ToolRunsOnce /\ CompletedHasEnded

(* docs/remote-execution.md: "Completed assignment records in the worker state
   database are replayed as results": a result stands for a completion.     *)
CompletedIsCompleted ==
    \A a \in Assignments : status[a] = "completed"
        => \E w \in Workers : record[w][a] = "completed"
=============================================================================
