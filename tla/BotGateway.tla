----------------------------- MODULE BotGateway -----------------------------
(***************************************************************************)
(* The chat bots (packages/bots): DiscordTransport delivers events, the    *)
(* hardened EventGateway deduplicates them, finds their session, runs the  *)
(* adaptive pipeline and records them handled.  Every call into the store  *)
(* is awaited, so the handlers of two deliveries interleave between any    *)
(* two of them; the platform redelivers what it likes.                     *)
(***************************************************************************)
EXTENDS Integers, FiniteSets

CONSTANTS
    BotEvents,      \* message ids
    BotSessionOf,   \* [BotEvents -> session key]
    BotDenied,      \* events of users who are not authorized
    BotUnrouted,    \* events the router ignores
    BotRestricted,  \* events that need approval first
    BotSlots,       \* deliveries handled at the same time
    BotMaxDeliveries, BotMaxCrashes  \* bounds

BotSessions == {BotSessionOf[e] : e \in BotEvents}

ASSUME BotAssumption ==
    /\ DOMAIN BotSessionOf = BotEvents
    /\ BotDenied \cup BotUnrouted \cup BotRestricted \subseteq BotEvents
    /\ IsFiniteSet(BotSlots)
    /\ BotMaxDeliveries \in Nat /\ BotMaxCrashes \in Nat

VARIABLES
    botLink,       \* lifecycle of the transport, and whether it has a client
    botDedup,      \* [BotEvents -> processing_status, or "none"]
    botSession,    \* [BotSessions -> rootAgentId, 0 without one, -1 without session]
    botHandler,    \* [BotSlots -> [pc, event, session copy, root]]
    botRoots,      \* root agents created
    botDeliveries, botCrashes,
    botRuns,       \* history: [BotEvents -> adaptive runs started]
    botCut,        \* history: [BotEvents -> runs cut off by a crash or an exception]
    botTwice,      \* history: [BotEvents -> deliveries begun while another was in hand]
    botLate        \* history: handlers whose root another one has replaced since they read or wrote it

botVars == <<botLink, botDedup, botSession, botHandler, botRoots, botDeliveries, botCrashes, botRuns, botCut, botTwice, botLate>>

BotIdle == [pc |-> "idle"]
BotAt(pc, e) == [pc |-> pc, event |-> e]

BotHandling(roots) ==
    {BotIdle} \cup [pc : {"fresh", "received"}, event : BotEvents]
        \cup [pc : {"found", "running", "ran", "saved"}, event : BotEvents, root : 0 .. roots]

BotTypeOK ==
    /\ botLink \in [state : {"stopped", "starting", "connected", "failed"},
                    client : BOOLEAN]
    /\ botDedup \in [BotEvents -> {"none", "received", "handled"}]
    /\ botSession \in [BotSessions -> -1 .. botRoots]
    /\ botHandler \in [BotSlots -> BotHandling(botRoots)]
    /\ botRoots \in Nat /\ botDeliveries \in 0 .. BotMaxDeliveries /\ botCrashes \in 0 .. BotMaxCrashes
    /\ botRuns \in [BotEvents -> Nat] /\ botCut \in [BotEvents -> Nat]
    /\ botTwice \in [BotEvents -> Nat] /\ botLate \subseteq BotSlots

BotInit ==
    /\ botLink = [state |-> "stopped", client |-> FALSE]
    /\ botDedup = [e \in BotEvents |-> "none"]
    /\ botSession = [s \in BotSessions |-> -1]
    /\ botHandler = [h \in BotSlots |-> BotIdle]
    /\ botRoots = 0 /\ botDeliveries = 0 /\ botCrashes = 0
    /\ botRuns = [e \in BotEvents |-> 0] /\ botCut = [e \in BotEvents |-> 0]
    /\ botTwice = [e \in BotEvents |-> 0] /\ botLate = {}

-----------------------------------------------------------------------------
(* DiscordTransport: a client exists from start() to stop(), its listeners with
   it; start() does nothing while there is one.  `failed` stands for the lost
   connections (disconnected, reconnecting), which nothing here tells apart. *)
BotLinked == UNCHANGED <<botDedup, botSession, botHandler, botRoots, botDeliveries, botCrashes, botRuns, botCut, botTwice, botLate>>

BotStart ==
    /\ botLink.state = "stopped" \/ ~botLink.client
    /\ botLink' = [state |-> "starting", client |-> TRUE]
    /\ BotLinked

BotStop == botLink.client /\ botLink' = [state |-> "stopped", client |-> FALSE] /\ BotLinked

BotClientEvent ==
    /\ botLink.client
    /\ \E state \in {"connected", "failed"} : botLink' = [botLink EXCEPT !.state = state]
    /\ BotLinked

-----------------------------------------------------------------------------
(* EventGateway.processEvent(), one await after another. *)
BotHandle(h, next) == botHandler' = [botHandler EXCEPT ![h] = next]

BotDuplicate(e) == botDedup[e] = "handled"

BotInHand(E) == \E h \in BotSlots : botHandler[h] # BotIdle /\ botHandler[h].event \in E

BotDeliver(h, e) ==
    /\ botLink.client /\ botHandler[h] = BotIdle
    /\ botDeliveries < BotMaxDeliveries /\ botDeliveries' = botDeliveries + 1
    /\ BotHandle(h, IF BotDuplicate(e) THEN BotIdle ELSE BotAt("fresh", e))
    /\ botTwice' = IF BotInHand({e}) THEN [botTwice EXCEPT ![e] = @ + 1] ELSE botTwice
    /\ UNCHANGED <<botLink, botDedup, botSession, botRoots, botCrashes, botRuns, botCut, botLate>>

BotMarkReceived(h) ==
    /\ botHandler[h].pc = "fresh"
    /\ botDedup' = [botDedup EXCEPT ![botHandler[h].event] = "received"]
    /\ BotHandle(h, IF botHandler[h].event \in BotDenied THEN BotIdle ELSE BotAt("received", botHandler[h].event))
    /\ UNCHANGED <<botLink, botSession, botRoots, botDeliveries, botCrashes, botRuns, botCut, botTwice, botLate>>

(* findOrCreateSession() reads the session, then writes what it read. *)
BotFound_Fresh(s) == 0
BotFound(s) == IF botSession[s] = -1 THEN 0 ELSE botSession[s]

BotFindSession(h) ==
    /\ botHandler[h].pc = "received"
    /\ BotHandle(h, [pc |-> "found", event |-> botHandler[h].event, root |-> BotFound(BotSessionOf[botHandler[h].event])])
    /\ botLate' = botLate \ {h}
    /\ UNCHANGED <<botLink, botDedup, botSession, botRoots, botDeliveries, botCrashes, botRuns, botCut, botTwice>>

(* Writing the session: the others that read or wrote another root are late. *)
BotWrites(h) ==
    LET s == BotSessionOf[botHandler[h].event]
        Others == {k \in BotSlots \ {h} : botHandler[k].pc \in {"found", "running", "ran", "saved"}
                                            /\ BotSessionOf[botHandler[k].event] = s}
    IN  /\ botSession' = [botSession EXCEPT ![s] = botHandler[h].root]
        /\ botLate' = (botLate \ {h}) \cup (IF botHandler[h].root = BotFound(s) THEN {} ELSE Others)

BotRunsAdaptive(e) == e \notin BotUnrouted \cup BotRestricted

BotTouchSession(h) ==
    LET e == botHandler[h].event
    IN  /\ botHandler[h].pc = "found"
        /\ BotWrites(h)
        /\ botRuns' = IF BotRunsAdaptive(e) THEN [botRuns EXCEPT ![e] = @ + 1] ELSE botRuns
        /\ botRoots' = IF BotRunsAdaptive(e) /\ botHandler[h].root = 0 THEN botRoots + 1 ELSE botRoots
        /\ BotHandle(h, IF ~BotRunsAdaptive(e) THEN BotIdle
                        ELSE [pc |-> "running", event |-> e, root |-> IF botHandler[h].root = 0 THEN botRoots' ELSE botHandler[h].root])
        /\ UNCHANGED <<botLink, botDedup, botDeliveries, botCrashes, botCut, botTwice>>

(* The run returns or throws; nothing records that it threw. *)
BotRunReturns(h) ==
    /\ botHandler[h].pc = "running"
    /\ \/ BotHandle(h, [botHandler[h] EXCEPT !.pc = "ran"]) /\ UNCHANGED botCut
       \/ BotHandle(h, BotIdle) /\ botCut' = [botCut EXCEPT ![botHandler[h].event] = @ + 1]
    /\ UNCHANGED <<botLink, botDedup, botSession, botRoots, botDeliveries, botCrashes, botRuns, botTwice, botLate>>

BotSaveSession(h) ==
    /\ botHandler[h].pc = "ran"
    /\ BotWrites(h)
    /\ BotHandle(h, [botHandler[h] EXCEPT !.pc = "saved"])
    /\ UNCHANGED <<botLink, botDedup, botRoots, botDeliveries, botCrashes, botRuns, botCut, botTwice>>

BotMarkHandled(h) ==
    /\ botHandler[h].pc = "saved"
    /\ botDedup' = [botDedup EXCEPT ![botHandler[h].event] = "handled"]
    /\ BotHandle(h, BotIdle)
    /\ UNCHANGED <<botLink, botSession, botRoots, botDeliveries, botCrashes, botRuns, botCut, botTwice, botLate>>

BotCrash ==
    /\ botCrashes < BotMaxCrashes /\ botCrashes' = botCrashes + 1
    /\ botCut' = [e \in BotEvents |-> botCut[e] + Cardinality({h \in BotSlots :
                    botHandler[h].pc \in {"running", "ran", "saved"} /\ botHandler[h].event = e})]
    /\ botHandler' = [h \in BotSlots |-> BotIdle]
    /\ botLink' = [state |-> "stopped", client |-> FALSE] /\ botLate' = {}
    /\ UNCHANGED <<botDedup, botSession, botRoots, botDeliveries, botRuns, botTwice>>

BotStep(h) == BotMarkReceived(h) \/ BotFindSession(h) \/ BotTouchSession(h) \/ BotRunReturns(h)
                \/ BotSaveSession(h) \/ BotMarkHandled(h)

BotNext ==
    \/ BotStart \/ BotStop \/ BotClientEvent \/ BotCrash
    \/ \E h \in BotSlots : BotStep(h) \/ \E e \in BotEvents : BotDeliver(h, e)

BotSpec == BotInit /\ [][BotNext]_botVars

-----------------------------------------------------------------------------
(* What is left of dedup-store.ts's "prevent duplicate processing after restarts or
   redeliveries": an event is recorded only once it is `handled`, so that a run
   cut off by a restart or an exception is run again, and so is an event delivered
   again before that.  These are the only causes: every run of an event beyond
   the first has one of its own.                                           *)
BotRunsOnce == \A e \in BotEvents : botRuns[e] <= 1 + botCut[e] + botTwice[e]

(* Nothing makes the messages of a session wait for each other (discord-transport's
   `void this.handleMessage`), and its root agent is lost when they overlap.  Only
   then: over deliveries, redeliveries and crashes the root of a session is replaced
   by no handler but one that read or wrote the session before that root was
   stored.                                                                 *)
BotSessionKeepsRoot ==
    [][\A s \in BotSessions : botSession[s] > 0 /\ botSession'[s] # botSession[s] =>
           \E h \in botLate : botHandler'[h] # botHandler[h] /\ BotSessionOf[botHandler[h].event] = s]_botVars

(* However deliveries, redeliveries and crashes interleave, an event is run again only
   for a run that was cut off or a delivery that overlapped.               *)
BotSafe == BotTypeOK /\ BotRunsOnce

(* Events are run again, and root agents replaced, for the overlaps and the cut-off
   runs that the code lets happen and for nothing else.                    *)
BotAccounts == []BotSafe /\ BotSessionKeepsRoot
=============================================================================
