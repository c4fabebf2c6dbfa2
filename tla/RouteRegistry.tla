---------------------------- MODULE RouteRegistry ----------------------------
(***************************************************************************)
(* LoomRouteRegistry (packages/network) as the remote controller uses it:  *)
(* a worker that connects gets a route and a revision, its disconnect is   *)
(* reported later, and may be reported after the worker has come back.     *)
(* Connection ids are numbers, given out in order.                         *)
(***************************************************************************)
EXTENDS Integers, FiniteSets

CONSTANTS RouteTargets, RouteMaxConnections   \* bound: connections ever made

ASSUME RouteAssumption == RouteMaxConnections \in Nat

VARIABLES
    routes,         \* [RouteTargets -> current route, or NoRoute]
    routeNodes,     \* registered logical nodes
    routeRevision,  \* nextRevision
    routeOpen,      \* connections whose end has not been reported
    routeOf,        \* [connection -> target it was made for]
    routeHeld       \* a resolved route some caller holds

routeVars == <<routes, routeNodes, routeRevision, routeOpen, routeOf, routeHeld>>

NoRoute == [connection |-> 0, revision |-> 0]
Connections == 1 .. RouteMaxConnections
RouteRow == [connection : 0 .. RouteMaxConnections, revision : Nat]

RouteTypeOK ==
    /\ routes \in [RouteTargets -> RouteRow]
    /\ routeNodes \subseteq RouteTargets /\ \A t \in RouteTargets \ routeNodes : routes[t] = NoRoute
    /\ routeRevision \in Nat
    /\ routeOpen \subseteq Connections
    /\ DOMAIN routeOf \subseteq Connections
    /\ routeHeld \in [target : RouteTargets, route : RouteRow] \cup {NoRoute}

RouteInit ==
    /\ routes = [t \in RouteTargets |-> NoRoute] /\ routeNodes = {}
    /\ routeRevision = 0 /\ routeOpen = {} /\ routeOf = <<>> /\ routeHeld = NoRoute

(* attach(): registerNode(), then replaceConnection(). *)
Registered(t) == routeNodes \cup {t}

ReplaceConnection(t) ==
    /\ Cardinality(DOMAIN routeOf) < RouteMaxConnections
    /\ LET c == Cardinality(DOMAIN routeOf) + 1
       IN  /\ routeOf' = [d \in DOMAIN routeOf \cup {c} |-> IF d = c THEN t ELSE routeOf[d]]
           /\ routeOpen' = routeOpen \cup {c}
           /\ routes' = [routes EXCEPT ![t] = [connection |-> c, revision |-> routeRevision + 1]]
    /\ routeRevision' = routeRevision + 1
    /\ routeNodes' = Registered(t)
    /\ UNCHANGED routeHeld

RouteMatches_Always(t, c) == routes[t] # NoRoute
RouteMatches(t, c) == routes[t] # NoRoute /\ routes[t].connection = c

(* invalidateRoute() with the expected connection, or invalidateConnection(): the
   end of a connection is reported, however late.                          *)
Invalidate(c) ==
    /\ c \in routeOpen /\ routeOpen' = routeOpen \ {c}
    /\ routes' = [t \in RouteTargets |-> IF t = routeOf[c] /\ RouteMatches(t, c) THEN NoRoute ELSE routes[t]]
    /\ UNCHANGED <<routeNodes, routeRevision, routeOf, routeHeld>>

(* resolve() or a snapshot: somebody keeps what the registry says now. *)
Resolve(t) ==
    /\ routes[t] # NoRoute
    /\ routeHeld' = [target |-> t, route |-> routes[t]]
    /\ UNCHANGED <<routes, routeNodes, routeRevision, routeOpen, routeOf>>

(* isCurrent() of the route held. *)
IsCurrent == routeHeld # NoRoute /\ routes[routeHeld.target].revision = routeHeld.route.revision

RouteNext ==
    \/ \E t \in RouteTargets : ReplaceConnection(t) \/ Resolve(t)
    \/ \E c \in Connections : Invalidate(c)

RouteSpec == RouteInit /\ [][RouteNext]_routeVars

-----------------------------------------------------------------------------
Newest(t) == {c \in DOMAIN routeOf : routeOf[c] = t /\ \A d \in DOMAIN routeOf : routeOf[d] = t => d <= c}

(* docs/routes.md: delayed disconnects are "ignored instead of deleting a newer
   binding": the route is that of the newest connection until its own end is
   reported, whatever older ends are reported when.                        *)
RouteFollowsNewest ==
    \A t \in RouteTargets : \A c \in Newest(t) : routes[t].connection = IF c \in routeOpen THEN c ELSE 0

(* A route held for long passes as current only while its connection is the one
   the target is reached by.                                               *)
CurrentIsReachable == IsCurrent => routeHeld.route.connection \in routeOpen

(* Late reports of ended connections never take a newer route away, nor leave a
   route that leads nowhere.                                               *)
RouteSafe == RouteTypeOK /\ RouteFollowsNewest /\ CurrentIsReachable
=============================================================================
