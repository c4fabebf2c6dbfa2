---------------------------- MODULE SurfaceProofs ----------------------------
(* Seven of the surfaces, each a specification of its own: the routes, the
   terminal and the chat bots, for any number of targets and connections,
   terminals and starts, events, sessions and deliveries in hand; the
   transcript, the completion, the layout of overlays and the inline renderer,
   for every text, size of terminal and option.

   RouteFollowsNewest is nearly inductive: what it lacks is that connections
   are numbered in the order they are made (Numbered) and that a route is that of
   an open connection to its own target (Routed).  What a caller holds passes as
   current only while it is the registry's own route (HeldIsRoute).

   The terminal is as its shell left it because every mode that is on is in the
   fields of the terminal that is started (Accounted), and raw mode was off before
   the first start, whatever was handed over since (WasCooked).

   An event is never run without cause, because the one run it is entitled to is
   cut off, recorded or still in hand (Slack).  A session keeps its
   root agent from every handler that is not late, because such a handler knows
   that root (InStep): who writes another one makes the others late (WritesKeep).

   What is selected in the transcript is on the screen because a row of the
   screen has what the frame before had there (RowsKept), that frame shows the
   view (FrameShown) unless it was scrolled since, and the view is the text
   unless a frame is due (Rendered); the anchor keeps its line because the view
   has the beginning of the text whatever is appended (TextKept).  A popup belongs to the text because a
   request that waits has aborted the one before it (CpInv).  The layout keeps
   little: every frame is what was there made it (OlDrawn), so its theorem is
   about resolveOverlayLayout() and the composition themselves, the recursion
   over the overlays that leaves what may be selected included (SelectableIs).

   The screen is a window on a tape of rows, of which row 0 is where the program
   was started.  What a render writes moves the window down the tape, and what
   leaves it is the scrollback (ScOn); a screen that is known has the lines
   rendered last on the tape (ScShows), each operation of the terminal keeps that
   (OnMove, OnReturn, OnPut), and so does what is written with them n times.    *)
EXTENDS BotGateway, RouteRegistry, Terminal, TranscriptView, EditorCompletion, OverlayLayout, ScreenRender, SessionProofs

Numbered ==
    /\ \E n \in Nat : DOMAIN routeOf = 1 .. n
    /\ \A c \in DOMAIN routeOf : routeOf[c] \in RouteTargets
    /\ routeOpen \subseteq DOMAIN routeOf

Routed ==
    \A t \in RouteTargets :
        /\ routes[t].revision <= routeRevision
        /\ routes[t] # NoRoute =>
               routes[t].connection \in routeOpen /\ routes[t].revision > 0 /\ routeOf[routes[t].connection] = t

HeldIsRoute ==
    routeHeld # NoRoute =>
        /\ routeHeld.target \in RouteTargets
        /\ routeHeld.route.revision \in 1 .. routeRevision
        /\ routes[routeHeld.target].revision = routeHeld.route.revision => routes[routeHeld.target] = routeHeld.route

RouteInv == RouteTypeOK /\ RouteFollowsNewest /\ Numbered /\ Routed /\ HeldIsRoute

-----------------------------------------------------------------------------
(* Connections are numbered by their count. *)
LEMMA CountIsNewest ==
    ASSUME NEW n \in Nat, DOMAIN routeOf = 1 .. n
    PROVE  Cardinality(DOMAIN routeOf) = n
  BY FS_Interval

(* No connection has been made. *)
LEMMA InitRoutes == RouteInit => RouteInv
  BY RouteAssumption DEF RouteInit, RouteInv, RouteTypeOK, RouteFollowsNewest, Numbered, Routed, HeldIsRoute,
                         Newest, NoRoute, RouteRow, Connections

(* A connection that is made is the newest of its target. *)
LEMMA ReplaceKeeps ==
    ASSUME RouteInv, NEW t \in RouteTargets, ReplaceConnection(t)
    PROVE  RouteInv'
  <1>1. PICK n \in Nat : DOMAIN routeOf = 1 .. n
    BY DEF RouteInv, Numbered
  <1>2. n < RouteMaxConnections /\ Cardinality(DOMAIN routeOf) = n
    BY <1>1, CountIsNewest DEF ReplaceConnection
  <1>3. /\ routeOf' = [d \in 1 .. n + 1 |-> IF d = n + 1 THEN t ELSE routeOf[d]]
        /\ routeOpen' = routeOpen \cup {n + 1}
        /\ routes' = [routes EXCEPT ![t] = [connection |-> n + 1, revision |-> routeRevision + 1]]
        /\ routeRevision' = routeRevision + 1
        /\ routeNodes' = routeNodes \cup {t}
        /\ routeHeld' = routeHeld
    <2>1. (1 .. n) \cup {n + 1} = 1 .. n + 1
      OBVIOUS
    <2> QED
      BY <1>1, <1>2, <2>1 DEF ReplaceConnection, Registered
  <1>4. RouteTypeOK'
    BY <1>2, <1>3, RouteAssumption DEF RouteInv, RouteTypeOK, RouteRow, Connections
  <1>5. Numbered'
    BY <1>1, <1>3 DEF RouteInv, Numbered
  <1>6. Routed'
    <2> SUFFICES ASSUME NEW u \in RouteTargets
                 PROVE  /\ routes'[u].revision <= routeRevision'
                        /\ routes'[u] # NoRoute =>
                               /\ routes'[u].connection \in routeOpen' /\ routes'[u].revision > 0
                               /\ routeOf'[routes'[u].connection] = u
      BY DEF Routed
    <2>1. CASE u = t
      <3>1. routes'[u] = [connection |-> n + 1, revision |-> routeRevision + 1]
        BY <1>3, <2>1 DEF RouteInv, RouteTypeOK
      <3>2. routeRevision \in Nat
        BY DEF RouteInv, RouteTypeOK
      <3> QED
        BY <1>3, <2>1, <3>1, <3>2
    <2>2. CASE u # t
      <3>1. routes'[u] = routes[u] /\ routes[u].revision \in Nat /\ routeRevision \in Nat
        BY <1>3, <2>2 DEF RouteInv, RouteTypeOK, RouteRow
      <3>2. routes[u].revision <= routeRevision'
        BY <1>3, <3>1 DEF RouteInv, Routed
      <3>3. ASSUME routes[u] # NoRoute
            PROVE  /\ routes[u].connection \in routeOpen' /\ routes[u].revision > 0
                   /\ routeOf'[routes[u].connection] = u
        <4>1. /\ routes[u].connection \in routeOpen /\ routes[u].revision > 0
              /\ routeOf[routes[u].connection] = u
          BY <3>3 DEF RouteInv, Routed
        <4>2. routes[u].connection \in 1 .. n
          BY <1>1, <4>1 DEF RouteInv, Numbered
        <4> QED
          BY <1>3, <4>1, <4>2
      <3> QED
        BY <3>1, <3>2, <3>3
    <2> QED
      BY <2>1, <2>2
  <1>7. HeldIsRoute'
    BY <1>3 DEF RouteInv, HeldIsRoute, RouteTypeOK, RouteRow
  <1>8. RouteFollowsNewest'
    <2> SUFFICES ASSUME NEW u \in RouteTargets, NEW c \in Newest(u)'
                 PROVE  routes'[u].connection = IF c \in routeOpen' THEN c ELSE 0
      BY DEF RouteFollowsNewest
    <2>1. CASE u = t
      <3>1. c = n + 1
        BY <1>3, <2>1 DEF Newest
      <3> QED
        BY <1>3, <2>1, <3>1 DEF RouteInv, RouteTypeOK
    <2>2. CASE u # t
      <3>1. c \in 1 .. n /\ c \in Newest(u)
        BY <1>1, <1>3, <2>2 DEF Newest
      <3>2. routes'[u] = routes[u] /\ (c \in routeOpen' <=> c \in routeOpen)
        BY <1>1, <1>3, <2>2, <3>1 DEF RouteInv, RouteTypeOK
      <3> QED
        BY <3>1, <3>2 DEF RouteInv, RouteFollowsNewest
    <2> QED
      BY <2>1, <2>2
  <1> QED
    BY <1>4, <1>5, <1>6, <1>7, <1>8 DEF RouteInv

(* The end of a connection takes away its own route only. *)
LEMMA InvalidateKeeps ==
    ASSUME RouteInv, NEW c \in Connections, Invalidate(c)
    PROVE  RouteInv'
  <1>1. /\ c \in routeOpen /\ routeOpen' = routeOpen \ {c}
        /\ routes' = [t \in RouteTargets |-> IF t = routeOf[c] /\ routes[t] # NoRoute /\ routes[t].connection = c
                                             THEN NoRoute ELSE routes[t]]
        /\ routeNodes' = routeNodes /\ routeRevision' = routeRevision /\ routeOf' = routeOf /\ routeHeld' = routeHeld
    BY DEF Invalidate, RouteMatches
  <1>2. RouteTypeOK'
    BY <1>1, RouteAssumption DEF RouteInv, RouteTypeOK, RouteRow, NoRoute
  <1>3. Numbered'
    BY <1>1 DEF RouteInv, Numbered
  <1>4. RouteFollowsNewest'
    <2> SUFFICES ASSUME NEW u \in RouteTargets, NEW d \in Newest(u)
                 PROVE  routes'[u].connection = IF d \in routeOpen' THEN d ELSE 0
      BY <1>1 DEF RouteFollowsNewest, Newest
    <2>1. routes[u].connection = IF d \in routeOpen THEN d ELSE 0
      BY DEF RouteInv, RouteFollowsNewest
    <2>2. c # 0 /\ d # 0
      BY <1>1 DEF RouteInv, RouteTypeOK, Connections, Newest
    <2>3. CASE d = c
      BY <1>1, <2>1, <2>2, <2>3 DEF NoRoute, Newest
    <2>4. CASE d # c
      BY <1>1, <2>1, <2>2, <2>4 DEF NoRoute
    <2> QED
      BY <2>3, <2>4
  <1>5. Routed'
    <2> SUFFICES ASSUME NEW u \in RouteTargets
                 PROVE  /\ routes'[u].revision <= routeRevision
                        /\ routes'[u] # NoRoute =>
                               /\ routes'[u].connection \in routeOpen' /\ routes'[u].revision > 0
                               /\ routeOf[routes'[u].connection] = u
      BY <1>1 DEF Routed
    <2>1. CASE routes'[u] = NoRoute
      BY <2>1 DEF NoRoute, RouteInv, RouteTypeOK
    <2>2. CASE routes'[u] # NoRoute
      <3>1. routes'[u] = routes[u]
        BY <1>1, <2>2
      <3>2. routes[u].connection \in DOMAIN routeOf /\ routes[u].connection \in routeOpen
        BY <2>2, <3>1 DEF RouteInv, Routed, Numbered
      <3>3. routes[u].connection # c
        <4> SUFFICES ASSUME routes[u].connection = c
                     PROVE  FALSE
          OBVIOUS
        <4>1. routeOf[c] # u
          BY <1>1, <2>2, <3>1
        <4> QED
          BY <2>2, <3>1, <4>1 DEF RouteInv, Routed
      <3> QED
        BY <1>1, <2>2, <3>1, <3>2, <3>3 DEF RouteInv, Routed
    <2> QED
      BY <2>1, <2>2
  <1>6. HeldIsRoute'
    BY <1>1 DEF RouteInv, HeldIsRoute, RouteTypeOK, RouteRow, NoRoute
  <1> QED
    BY <1>2, <1>3, <1>4, <1>5, <1>6 DEF RouteInv

(* Resolving a route changes what is held, and nothing else does. *)
LEMMA ResolveKeeps ==
    ASSUME RouteInv, NEW t \in RouteTargets, Resolve(t)
    PROVE  RouteInv'
  <1>1. /\ routes[t] # NoRoute /\ routeHeld' = [target |-> t, route |-> routes[t]]
        /\ UNCHANGED <<routes, routeNodes, routeRevision, routeOpen, routeOf>>
    BY DEF Resolve
  <1>2. RouteTypeOK'
    BY <1>1 DEF RouteInv, RouteTypeOK
  <1>3. HeldIsRoute'
    BY <1>1 DEF RouteInv, RouteTypeOK, RouteRow, Routed, HeldIsRoute
  <1>4. RouteFollowsNewest' /\ Numbered' /\ Routed'
    BY <1>1 DEF RouteInv, RouteFollowsNewest, Newest, Numbered, Routed
  <1> QED
    BY <1>2, <1>3, <1>4 DEF RouteInv

(* Every step keeps the invariant. *)
LEMMA NextRoutes == RouteInv /\ [RouteNext]_routeVars => RouteInv'
  <1> SUFFICES ASSUME RouteInv, [RouteNext]_routeVars
               PROVE  RouteInv'
    OBVIOUS
  <1>1. CASE \E t \in RouteTargets : ReplaceConnection(t)
    BY <1>1, ReplaceKeeps
  <1>2. CASE \E t \in RouteTargets : Resolve(t)
    BY <1>2, ResolveKeeps
  <1>3. CASE \E c \in Connections : Invalidate(c)
    BY <1>3, InvalidateKeeps
  <1>4. CASE UNCHANGED routeVars
    BY <1>4 DEF routeVars, RouteInv, RouteTypeOK, RouteFollowsNewest, Newest, Numbered, Routed, HeldIsRoute
  <1> QED
    BY <1>1, <1>2, <1>3, <1>4 DEF RouteNext

(* What passes as current leads somewhere. *)
LEMMA HeldIsReachable == RouteInv => RouteSafe
  <1> SUFFICES ASSUME RouteInv, IsCurrent
               PROVE  routeHeld.route.connection \in routeOpen
    BY DEF RouteInv, RouteSafe, CurrentIsReachable
  <1>1. routes[routeHeld.target] = routeHeld.route /\ routeHeld.target \in RouteTargets /\ routeHeld.route.revision > 0
    BY DEF RouteInv, HeldIsRoute, IsCurrent
  <1>2. routeHeld.route # NoRoute
    BY <1>1 DEF NoRoute
  <1> QED
    BY <1>1, <1>2 DEF RouteInv, Routed

(* Whatever ends are reported how late: a target keeps the route of its newest
   connection until that one's own end, and a route a caller holds passes as
   current only while it is open (invalidateRoute() and isCurrent() of the
   registry).                                                              *)
THEOREM RoutesAreSafe == RouteSpec => []RouteSafe
  <1>1. RouteSpec => []RouteInv
    BY InitRoutes, NextRoutes, PTL DEF RouteSpec
  <1> QED
    BY <1>1, HeldIsReachable, PTL

-----------------------------------------------------------------------------
(* One terminal at most is started, and one that is not has nothing on. *)
OneStarted ==
    /\ \A t, u \in TtyTerminals : ttyFields[t].started /\ ttyFields[u].started => t = u
    /\ \A t \in TtyTerminals :
          /\ ttyFields[t].started \/ ttyFields[t].alt => ttyFields[t].made
          /\ ~ttyFields[t].started =>
                 /\ ~ttyFields[t].kitty /\ ~ttyFields[t].otherKeys /\ ~ttyFields[t].mouse
                 /\ ~ttyFields[t].progress /\ ~ttyFields[t].fallback

(* What is on is what the started terminal has switched on. *)
Accounted ==
    /\ \A t \in TtyTerminals : ttyFields[t].started =>
          /\ tty.kitty = (IF ttyFields[t].kitty THEN 1 ELSE 0)
          /\ (tty.otherKeys <=> ttyFields[t].otherKeys)
          /\ (tty.mouse <=> ttyFields[t].mouse) /\ (tty.progress <=> ttyFields[t].progress)
    /\ TtyNoneStarted => tty.kitty = 0 /\ ~tty.otherKeys /\ ~tty.mouse /\ ~tty.progress /\ ~tty.paste
    /\ tty.alt => ttyAltHand # TtyNone \/ \E t \in TtyTerminals : ttyFields[t].alt

(* The shell's own terminal is cooked, and everybody remembers it so. *)
WasCooked ==
    /\ ~ttyInputHand.wasRaw /\ \A t \in TtyTerminals : ~ttyFields[t].wasRaw
    /\ (tty.raw <=> ~TtyNoneStarted \/ ttyInputHand # TtyNoHand)

(* A hand-over of input waits while no terminal is started, and goes with the screen's. *)
HandsAgree ==
    /\ ttyInputHand # TtyNoHand => TtyNoneStarted /\ ttyInputHand.token # TtyNone
    /\ ttyAltHand # TtyNone => ttyInputHand = TtyNoHand \/ ttyInputHand.token = ttyAltHand
    /\ ttyAnswers <= ttyStarts

TtyInv == TtyTypeOK /\ OneStarted /\ Accounted /\ WasCooked /\ HandsAgree

-----------------------------------------------------------------------------
(* No hand-over waits: its two fields say so. *)
LEMMA NoHandFields ==
    ASSUME TtyInv
    PROVE  ttyInputHand = TtyNoHand <=> ttyInputHand.token = TtyNone
  BY TtyAssumption DEF TtyInv, TtyTypeOK, WasCooked, HandsAgree, TtyNoHand

(* No terminal has been made. *)
LEMMA InitTerminal == TtyInit => TtyInv
  BY TtyAssumption DEF TtyInit, TtyModes, TtyRow, TtyInv, TtyTypeOK, OneStarted, Accounted, WasCooked, HandsAgree, TtyNoneStarted,
                       TtyCooked, TtyNew, TtyNoHand

(* A step that changes one terminal's fields, and starts it only while none is
   started, leaves one started at most.                                    *)
LEMMA OneChanges ==
    ASSUME TtyInv, NEW t \in TtyTerminals,
           \A u \in TtyTerminals \ {t} : ttyFields'[u] = ttyFields[u],
           ttyFields'[t].started => ttyFields[t].started \/ TtyNoneStarted,
           ttyFields'[t].started \/ ttyFields'[t].alt => ttyFields'[t].made,
           ~ttyFields'[t].started =>
              /\ ~ttyFields'[t].kitty /\ ~ttyFields'[t].otherKeys /\ ~ttyFields'[t].mouse
              /\ ~ttyFields'[t].progress /\ ~ttyFields'[t].fallback
    PROVE  /\ OneStarted'
           /\ ttyFields[t].started \/ TtyNoneStarted => (TtyNoneStarted' <=> ~ttyFields'[t].started)
           /\ (ttyFields'[t].started <=> ttyFields[t].started) => (TtyNoneStarted' <=> TtyNoneStarted)
  <1>1. \A u \in TtyTerminals : ttyFields'[u].started => ttyFields[u].started \/ (u = t /\ TtyNoneStarted)
    OBVIOUS
  <1>2. \A u \in TtyTerminals : ttyFields'[u].started \/ ttyFields'[u].alt => ttyFields'[u].made
    BY DEF TtyInv, OneStarted
  <1>3. \A u \in TtyTerminals : ~ttyFields'[u].started =>
            /\ ~ttyFields'[u].kitty /\ ~ttyFields'[u].otherKeys /\ ~ttyFields'[u].mouse
            /\ ~ttyFields'[u].progress /\ ~ttyFields'[u].fallback
    BY DEF TtyInv, OneStarted
  <1>4. \A u, v \in TtyTerminals : ttyFields'[u].started /\ ttyFields'[v].started => u = v
    BY <1>1 DEF TtyInv, OneStarted, TtyNoneStarted
  <1>5. ttyFields[t].started \/ TtyNoneStarted => (TtyNoneStarted' <=> ~ttyFields'[t].started)
    BY DEF TtyInv, OneStarted, TtyNoneStarted
  <1>6. (ttyFields'[t].started <=> ttyFields[t].started) => (TtyNoneStarted' <=> TtyNoneStarted)
    BY DEF TtyNoneStarted
  <1> QED
    BY <1>2, <1>3, <1>4, <1>5, <1>6 DEF OneStarted

(* A terminal that is made holds a screen that was handed over. *)
LEMMA CreateKeeps ==
    ASSUME TtyInv, NEW t \in TtyTerminals, TtyCreate(t)
    PROVE  TtyInv'
  <1>1. /\ tty' = tty /\ ttyInputHand' = ttyInputHand /\ ttyAnswers' = ttyAnswers /\ ttyStarts' = ttyStarts
        /\ ttyAltHand' = TtyNone
    BY DEF TtyCreate
  <1>2. /\ \A u \in TtyTerminals \ {t} : ttyFields'[u] = ttyFields[u]
        /\ ttyFields'[t] = [ttyFields[t] EXCEPT !.made = TRUE, !.alt = ttyAltHand # TtyNone]
        /\ ttyFields[t] \in TtyRow
    BY DEF TtyCreate, TtyInv, TtyTypeOK
  <1>3. /\ ttyFields'[t].made /\ ttyFields'[t].started = ttyFields[t].started
        /\ ttyFields'[t].wasRaw = ttyFields[t].wasRaw /\ ttyFields'[t].kitty = ttyFields[t].kitty
        /\ ttyFields'[t].otherKeys = ttyFields[t].otherKeys /\ (ttyFields'[t].alt <=> ttyAltHand # TtyNone)
        /\ ttyFields'[t].mouse = ttyFields[t].mouse /\ ttyFields'[t].progress = ttyFields[t].progress
        /\ ttyFields'[t].fallback = ttyFields[t].fallback
        /\ ttyFields'[t] \in TtyRow
    BY <1>2 DEF TtyRow
  <1>4. ~ttyFields[t].started /\ ~ttyFields[t].alt
    BY DEF TtyCreate, TtyInv, OneStarted
  <1>5. TtyTypeOK'
    BY <1>1, <1>3 DEF TtyCreate, TtyInv, TtyTypeOK
  <1>6. OneStarted' /\ (TtyNoneStarted' <=> TtyNoneStarted)
    <2>1. ~ttyFields[t].kitty /\ ~ttyFields[t].otherKeys /\ ~ttyFields[t].mouse /\ ~ttyFields[t].progress /\ ~ttyFields[t].fallback
      BY <1>4 DEF TtyInv, OneStarted
    <2> QED
      BY <1>2, <1>3, <1>4, <2>1, OneChanges
  <1>7. Accounted'
    BY <1>1, <1>2, <1>3, <1>4, <1>6 DEF TtyInv, Accounted
  <1>8. WasCooked' /\ HandsAgree'
    BY <1>1, <1>2, <1>3, <1>6 DEF TtyInv, WasCooked, HandsAgree
  <1> QED
    BY <1>5, <1>6, <1>7, <1>8 DEF TtyInv

(* A terminal is started when none is, and remembers the shell's cooked mode. *)
LEMMA StartKeeps ==
    ASSUME TtyInv, NEW t \in TtyTerminals, TtyStart(t)
    PROVE  TtyInv'
  <1>1. /\ ttyFields[t].made /\ TtyNoneStarted
        /\ ttyStarts' = ttyStarts + 1 /\ ttyStarts' <= TtyMaxStarts /\ ttyAnswers' = ttyAnswers + 1
        /\ ttyInputHand' = TtyNoHand /\ ttyAltHand' = ttyAltHand
        /\ tty' = [tty EXCEPT !.raw = TRUE, !.paste = TRUE]
    BY TtyAssumption DEF TtyStart, TtyInv, TtyTypeOK
  <1>2. /\ \A u \in TtyTerminals \ {t} : ttyFields'[u] = ttyFields[u]
        /\ ttyFields'[t] = [ttyFields[t] EXCEPT !.started = TRUE, !.wasRaw = TtyWasRaw, !.fallback = TRUE]
        /\ ttyFields[t] \in TtyRow /\ ~ttyFields[t].started
    BY <1>1 DEF TtyStart, TtyInv, TtyTypeOK, TtyNoneStarted
  <1>3. TtyWasRaw = FALSE
    BY <1>1 DEF TtyWasRaw, TtyInv, TtyTypeOK, TtyModes, WasCooked
  <1>4. /\ ttyFields'[t].made = ttyFields[t].made /\ ttyFields'[t].started
        /\ ~ttyFields'[t].wasRaw /\ ttyFields'[t].kitty = ttyFields[t].kitty
        /\ ttyFields'[t].otherKeys = ttyFields[t].otherKeys /\ ttyFields'[t].alt = ttyFields[t].alt
        /\ ttyFields'[t].mouse = ttyFields[t].mouse /\ ttyFields'[t].progress = ttyFields[t].progress
        /\ ttyFields'[t] \in TtyRow
    BY <1>2, <1>3 DEF TtyRow
  <1>5. /\ tty'.raw /\ tty'.paste /\ tty'.kitty = tty.kitty /\ tty'.otherKeys = tty.otherKeys /\ tty'.alt = tty.alt
        /\ tty'.mouse = tty.mouse /\ tty'.progress = tty.progress
        /\ tty' \in TtyModes
    BY <1>1 DEF TtyInv, TtyTypeOK, TtyModes
  <1>6. TtyTypeOK'
    BY <1>1, <1>4, <1>5, TtyAssumption DEF TtyStart, TtyInv, TtyTypeOK, HandsAgree, TtyNoHand
  <1>7. OneStarted' /\ ~TtyNoneStarted'
    BY <1>1, <1>2, <1>4, OneChanges
  <1>8. Accounted'
    <2>1. ~ttyFields[t].kitty /\ ~ttyFields[t].otherKeys /\ ~ttyFields[t].mouse /\ ~ttyFields[t].progress
      BY <1>2 DEF TtyInv, OneStarted
    <2>2. \A u \in TtyTerminals : ttyFields'[u].started => u = t
      BY <1>4, <1>7 DEF OneStarted
    <2>3. tty.kitty = 0 /\ ~tty.otherKeys /\ ~tty.mouse /\ ~tty.progress
      BY <1>1 DEF TtyInv, Accounted
    <2>4. tty'.alt => ttyAltHand' # TtyNone \/ \E u \in TtyTerminals : ttyFields'[u].alt
      BY <1>1, <1>2, <1>4, <1>5 DEF TtyInv, Accounted
    <2> QED
      BY <1>4, <1>5, <1>7, <2>1, <2>2, <2>3, <2>4 DEF Accounted
  <1>9. WasCooked'
    <2>1. \A u \in TtyTerminals : ~ttyFields'[u].wasRaw
      BY <1>2, <1>4 DEF TtyInv, WasCooked
    <2> QED
      BY <1>1, <1>5, <1>7, <2>1 DEF WasCooked, TtyNoHand
  <1>10. HandsAgree'
    BY <1>1 DEF TtyInv, TtyTypeOK, HandsAgree
  <1> QED
    BY <1>6, <1>7, <1>8, <1>9, <1>10 DEF TtyInv

(* An answer switches the protocol on once. *)
LEMMA AnswerKeeps ==
    ASSUME TtyInv, NEW t \in TtyTerminals, TtyAnswer(t)
    PROVE  TtyInv'
  <1>1. /\ ttyFields[t].started /\ ttyAnswers > 0 /\ ttyAnswers' = ttyAnswers - 1
        /\ tty' = [tty EXCEPT !.kitty = @ + TtyPushed(t)]
        /\ ttyAltHand' = ttyAltHand /\ ttyInputHand' = ttyInputHand /\ ttyStarts' = ttyStarts
    BY DEF TtyAnswer
  <1>2. /\ \A u \in TtyTerminals \ {t} : ttyFields'[u] = ttyFields[u]
        /\ ttyFields'[t] = TtyAnswered(t) /\ ttyFields[t] \in TtyRow
    BY DEF TtyAnswer, TtyInv, TtyTypeOK
  <1>3. tty.kitty + TtyPushed(t) = 1
    BY <1>1 DEF TtyPushed, TtyInv, Accounted
  <1>4. /\ ttyFields'[t].made = ttyFields[t].made /\ ttyFields'[t].started = ttyFields[t].started
        /\ ttyFields'[t].wasRaw = ttyFields[t].wasRaw /\ ttyFields'[t].kitty
        /\ ttyFields'[t].otherKeys = ttyFields[t].otherKeys /\ ttyFields'[t].alt = ttyFields[t].alt
        /\ ttyFields'[t].mouse = ttyFields[t].mouse /\ ttyFields'[t].progress = ttyFields[t].progress
        /\ ttyFields'[t] \in TtyRow
    BY <1>2 DEF TtyRow, TtyAnswered
  <1>5. /\ tty'.raw = tty.raw /\ tty'.paste = tty.paste /\ tty'.kitty = 1 /\ tty'.otherKeys = tty.otherKeys
        /\ tty'.alt = tty.alt /\ tty'.mouse = tty.mouse /\ tty'.progress = tty.progress
        /\ tty' \in TtyModes
    BY <1>1, <1>3 DEF TtyInv, TtyTypeOK, TtyModes
  <1>6. TtyTypeOK'
    <2>1. ttyFields' \in [TtyTerminals -> TtyRow]
      BY <1>4 DEF TtyAnswer, TtyInv, TtyTypeOK
    <2> QED
      BY <1>1, <1>5, <2>1, TtyAssumption DEF TtyInv, TtyTypeOK
  <1>7. OneStarted' /\ ~TtyNoneStarted' /\ ~TtyNoneStarted
    <2>1. ~TtyNoneStarted
      BY <1>1 DEF TtyNoneStarted
    <2>2. ttyFields[t].alt \/ ttyFields[t].started => ttyFields[t].made
      BY DEF TtyInv, OneStarted
    <2> QED
      BY <1>1, <1>2, <1>4, <2>1, <2>2, OneChanges
  <1>8. Accounted'
    <2>1. \A u \in TtyTerminals : ttyFields'[u].started => u = t
      BY <1>1, <1>4, <1>7 DEF OneStarted
    <2>2. /\ (tty.otherKeys <=> ttyFields[t].otherKeys) /\ (tty.mouse <=> ttyFields[t].mouse)
          /\ (tty.progress <=> ttyFields[t].progress)
      BY <1>1 DEF TtyInv, Accounted
    <2>3. tty'.alt => ttyAltHand' # TtyNone \/ \E u \in TtyTerminals : ttyFields'[u].alt
      BY <1>1, <1>2, <1>4, <1>5 DEF TtyInv, Accounted
    <2> QED
      BY <1>4, <1>5, <1>7, <2>1, <2>2, <2>3 DEF Accounted
  <1>9. WasCooked'
    <2>1. \A u \in TtyTerminals : ~ttyFields'[u].wasRaw
      BY <1>2, <1>4 DEF TtyInv, WasCooked
    <2> QED
      BY <1>1, <1>5, <1>7, <2>1 DEF TtyInv, WasCooked
  <1>10. HandsAgree'
    BY <1>1, <1>7 DEF TtyInv, TtyTypeOK, HandsAgree
  <1> QED
    BY <1>6, <1>7, <1>8, <1>9, <1>10 DEF TtyInv

(* Without an answer the older protocol is asked for. *)
LEMMA FallbackKeeps ==
    ASSUME TtyInv, NEW t \in TtyTerminals, TtyFallback(t)
    PROVE  TtyInv'
  <1>1. /\ ttyFields[t].fallback
        /\ tty' = [tty EXCEPT !.otherKeys = @ \/ TtyAsksOtherKeys(t)]
        /\ ttyAltHand' = ttyAltHand /\ ttyInputHand' = ttyInputHand /\ ttyAnswers' = ttyAnswers /\ ttyStarts' = ttyStarts
    BY DEF TtyFallback
  <1>2. /\ \A u \in TtyTerminals \ {t} : ttyFields'[u] = ttyFields[u]
        /\ ttyFields'[t] = TtyFellBack(t) /\ ttyFields[t] \in TtyRow
    BY DEF TtyFallback, TtyInv, TtyTypeOK
  <1>3. ttyFields[t].started /\ (tty.otherKeys <=> ttyFields[t].otherKeys)
    BY <1>1 DEF TtyInv, OneStarted, Accounted
  <1>4. /\ ttyFields'[t].made = ttyFields[t].made /\ ttyFields'[t].started = ttyFields[t].started
        /\ ttyFields'[t].wasRaw = ttyFields[t].wasRaw /\ ttyFields'[t].kitty = ttyFields[t].kitty
        /\ (ttyFields'[t].otherKeys <=> ttyFields[t].otherKeys \/ TtyAsksOtherKeys(t)) /\ ttyFields'[t].alt = ttyFields[t].alt
        /\ ttyFields'[t].mouse = ttyFields[t].mouse /\ ttyFields'[t].progress = ttyFields[t].progress
        /\ ttyFields'[t] \in TtyRow
    BY <1>2 DEF TtyRow, TtyFellBack
  <1>5. /\ tty'.raw = tty.raw /\ tty'.paste = tty.paste /\ tty'.kitty = tty.kitty
        /\ (tty'.otherKeys <=> tty.otherKeys \/ TtyAsksOtherKeys(t))
        /\ tty'.alt = tty.alt /\ tty'.mouse = tty.mouse /\ tty'.progress = tty.progress
        /\ tty' \in TtyModes
    BY <1>1 DEF TtyInv, TtyTypeOK, TtyModes
  <1>6. TtyTypeOK'
    <2>1. ttyFields' \in [TtyTerminals -> TtyRow]
      BY <1>4 DEF TtyFallback, TtyInv, TtyTypeOK
    <2> QED
      BY <1>1, <1>5, <2>1 DEF TtyInv, TtyTypeOK
  <1>7. OneStarted' /\ ~TtyNoneStarted' /\ ~TtyNoneStarted
    <2>1. ~TtyNoneStarted
      BY <1>3 DEF TtyNoneStarted
    <2>2. ttyFields[t].made
      BY <1>3 DEF TtyInv, OneStarted
    <2> QED
      BY <1>2, <1>3, <1>4, <2>1, <2>2, OneChanges
  <1>8. Accounted'
    <2>1. \A u \in TtyTerminals : ttyFields'[u].started => u = t
      BY <1>3, <1>4, <1>7 DEF OneStarted
    <2>2. /\ tty.kitty = (IF ttyFields[t].kitty THEN 1 ELSE 0) /\ (tty.mouse <=> ttyFields[t].mouse)
          /\ (tty.progress <=> ttyFields[t].progress)
      BY <1>3 DEF TtyInv, Accounted
    <2>3. tty'.alt => ttyAltHand' # TtyNone \/ \E u \in TtyTerminals : ttyFields'[u].alt
      BY <1>1, <1>2, <1>4, <1>5 DEF TtyInv, Accounted
    <2> QED
      BY <1>3, <1>4, <1>5, <1>7, <2>1, <2>2, <2>3 DEF Accounted
  <1>9. WasCooked'
    <2>1. \A u \in TtyTerminals : ~ttyFields'[u].wasRaw
      BY <1>2, <1>4 DEF TtyInv, WasCooked
    <2> QED
      BY <1>1, <1>5, <1>7, <2>1 DEF TtyInv, WasCooked
  <1>10. HandsAgree'
    BY <1>1, <1>7 DEF TtyInv, HandsAgree
  <1> QED
    BY <1>6, <1>7, <1>8, <1>9, <1>10 DEF TtyInv

(* The mouse and the progress bar are on in the terminal and in the fields. *)
LEMMA SwitchKeeps ==
    ASSUME TtyInv, NEW t \in TtyTerminals, NEW mode \in {"mouse", "progress"}, NEW on \in BOOLEAN, TtySwitch(t, mode, on)
    PROVE  TtyInv'
  <1>1. /\ ttyFields[t].started
        /\ tty' = [tty EXCEPT ![mode] = on]
        /\ ttyAltHand' = ttyAltHand /\ ttyInputHand' = ttyInputHand /\ ttyAnswers' = ttyAnswers /\ ttyStarts' = ttyStarts
    BY DEF TtySwitch
  <1>2. /\ \A u \in TtyTerminals \ {t} : ttyFields'[u] = ttyFields[u]
        /\ ttyFields'[t] = [ttyFields[t] EXCEPT ![mode] = on] /\ ttyFields[t] \in TtyRow
    BY DEF TtySwitch, TtyInv, TtyTypeOK
  <1>3. /\ ttyFields'[t].made = ttyFields[t].made /\ ttyFields'[t].started = ttyFields[t].started
        /\ ttyFields'[t].wasRaw = ttyFields[t].wasRaw /\ ttyFields'[t].kitty = ttyFields[t].kitty
        /\ ttyFields'[t].otherKeys = ttyFields[t].otherKeys /\ ttyFields'[t].alt = ttyFields[t].alt
        /\ ttyFields'[t].mouse = (IF mode = "mouse" THEN on ELSE ttyFields[t].mouse)
        /\ ttyFields'[t].progress = (IF mode = "progress" THEN on ELSE ttyFields[t].progress)
        /\ ttyFields'[t] \in TtyRow
    BY <1>2 DEF TtyRow
  <1>4. /\ tty'.raw = tty.raw /\ tty'.paste = tty.paste /\ tty'.kitty = tty.kitty /\ tty'.otherKeys = tty.otherKeys
        /\ tty'.alt = tty.alt
        /\ tty'.mouse = (IF mode = "mouse" THEN on ELSE tty.mouse)
        /\ tty'.progress = (IF mode = "progress" THEN on ELSE tty.progress)
        /\ tty' \in TtyModes
    BY <1>1 DEF TtyInv, TtyTypeOK, TtyModes
  <1>5. TtyTypeOK'
    <2>1. ttyFields' \in [TtyTerminals -> TtyRow]
      <3>1. PICK row : row = ttyFields'[t] /\ ttyFields' = [ttyFields EXCEPT ![t] = row]
        BY DEF TtySwitch, TtyInv, TtyTypeOK
      <3> QED
        BY <1>3, <3>1 DEF TtyInv, TtyTypeOK
    <2> QED
      BY <1>1, <1>4, <2>1 DEF TtyInv, TtyTypeOK
  <1>6. OneStarted' /\ ~TtyNoneStarted' /\ ~TtyNoneStarted
    <2>1. ~TtyNoneStarted
      BY <1>1 DEF TtyNoneStarted
    <2>2. ttyFields[t].made
      BY <1>1 DEF TtyInv, OneStarted
    <2> QED
      BY <1>1, <1>2, <1>3, <2>1, <2>2, OneChanges
  <1>7. Accounted'
    <2>1. \A u \in TtyTerminals : ttyFields'[u].started => u = t
      BY <1>1, <1>3, <1>6 DEF OneStarted
    <2>2. /\ tty.kitty = (IF ttyFields[t].kitty THEN 1 ELSE 0) /\ (tty.mouse <=> ttyFields[t].mouse)
          /\ (tty.otherKeys <=> ttyFields[t].otherKeys) /\ (tty.progress <=> ttyFields[t].progress)
      BY <1>1 DEF TtyInv, Accounted
    <2>3. tty'.alt => ttyAltHand' # TtyNone \/ \E u \in TtyTerminals : ttyFields'[u].alt
      BY <1>1, <1>2, <1>3, <1>4 DEF TtyInv, Accounted
    <2> QED
      BY <1>3, <1>4, <1>6, <2>1, <2>2, <2>3 DEF Accounted
  <1>8. WasCooked'
    <2>1. \A u \in TtyTerminals : ~ttyFields'[u].wasRaw
      BY <1>2, <1>3 DEF TtyInv, WasCooked
    <2> QED
      BY <1>1, <1>4, <1>6, <2>1 DEF TtyInv, WasCooked
  <1>9. HandsAgree'
    BY <1>1, <1>6 DEF TtyInv, HandsAgree
  <1> QED
    BY <1>5, <1>6, <1>7, <1>8, <1>9 DEF TtyInv

(* An answer nobody waits for is thrown away. *)
LEMMA DiscardKeeps ==
    ASSUME TtyInv, TtyDiscard
    PROVE  TtyInv'
  BY TtyAssumption DEF TtyDiscard, TtyInv, TtyTypeOK, OneStarted, Accounted, WasCooked, HandsAgree, TtyNoneStarted

-----------------------------------------------------------------------------
(* What releaseAltScreen() leaves. *)
LEMMA ReleasedFields ==
    ASSUME TtyInv, NEW t \in TtyTerminals
    PROVE  /\ TtyReleased(t) \in TtyModes
           /\ TtyReleased(t).raw <=> tty.raw /\ ~TtyCancels(t)
           /\ TtyReleased(t).alt <=> tty.alt /\ ~TtyReleases(t)
           /\ TtyReleased(t).paste = tty.paste /\ TtyReleased(t).kitty = tty.kitty
           /\ TtyReleased(t).otherKeys = tty.otherKeys /\ TtyReleased(t).mouse = tty.mouse
           /\ TtyReleased(t).progress = tty.progress
  BY DEF TtyReleased, TtyInv, TtyTypeOK, TtyModes, WasCooked

(* What is left on when the started terminal, or any when none is, switches its modes off: nothing. *)
LEMMA OffFields ==
    ASSUME TtyInv, NEW t \in TtyTerminals, ttyFields[t].started \/ TtyNoneStarted,
           NEW base \in TtyModes, base.kitty = tty.kitty, base.otherKeys = tty.otherKeys, base.mouse = tty.mouse,
           base.progress = tty.progress
    PROVE  /\ TtyOff(t, base) \in TtyModes
           /\ TtyOff(t, base).raw = base.raw /\ TtyOff(t, base).alt = base.alt
           /\ TtyOff(t, base).kitty = 0 /\ ~TtyOff(t, base).otherKeys /\ ~TtyOff(t, base).mouse
           /\ ~TtyOff(t, base).progress /\ ~TtyOff(t, base).paste
  <1>1. /\ tty.kitty = (IF ttyFields[t].kitty THEN 1 ELSE 0) /\ (tty.mouse <=> ttyFields[t].mouse)
        /\ (tty.otherKeys <=> ttyFields[t].otherKeys) /\ (tty.progress <=> ttyFields[t].progress)
    BY DEF TtyInv, OneStarted, Accounted, TtyNoneStarted
  <1>2. /\ (base.mouse /\ ~ttyFields[t].mouse) = FALSE /\ (base.progress /\ ~ttyFields[t].progress) = FALSE
        /\ (base.otherKeys /\ ~ttyFields[t].otherKeys) = FALSE
        /\ (IF ttyFields[t].kitty THEN base.kitty - 1 ELSE base.kitty) = 0
    BY <1>1
  <1>3. TtyOff(t, base) = [base EXCEPT !.paste = FALSE, !.mouse = FALSE, !.progress = FALSE, !.kitty = 0, !.otherKeys = FALSE]
    BY <1>2, Zenon DEF TtyOff
  <1>4. PICK left : left = TtyOff(t, base)
    OBVIOUS
  <1>5. left = [raw |-> base.raw, paste |-> FALSE, kitty |-> 0, otherKeys |-> FALSE, alt |-> base.alt, mouse |-> FALSE,
                progress |-> FALSE]
    BY <1>3, <1>4 DEF TtyModes
  <1>6. base.raw \in BOOLEAN /\ base.alt \in BOOLEAN
    BY DEF TtyModes
  <1>7. left \in TtyModes
    BY <1>5, <1>6 DEF TtyModes
  <1> QED
    BY <1>4, <1>5, <1>7

(* A started terminal goes to the alternate screen. *)
LEMMA EnterAltKeeps ==
    ASSUME TtyInv, NEW t \in TtyTerminals, TtyEnterAlt(t)
    PROVE  TtyInv'
  <1>1. /\ ttyFields[t].started /\ ttyInputHand' = ttyInputHand /\ ttyAnswers' = ttyAnswers /\ ttyStarts' = ttyStarts
        /\ tty' = [tty EXCEPT !.alt = TRUE]
        /\ ttyAltHand' \in {ttyAltHand, TtyNone}
    BY DEF TtyEnterAlt
  <1>2. /\ \A u \in TtyTerminals \ {t} : ttyFields'[u] = ttyFields[u]
        /\ ttyFields'[t] = [ttyFields[t] EXCEPT !.alt = TRUE] /\ ttyFields[t] \in TtyRow
    BY DEF TtyEnterAlt, TtyInv, TtyTypeOK
  <1>3. /\ ttyFields'[t].made = ttyFields[t].made /\ ttyFields'[t].started = ttyFields[t].started
        /\ ttyFields'[t].wasRaw = ttyFields[t].wasRaw /\ ttyFields'[t].kitty = ttyFields[t].kitty
        /\ ttyFields'[t].otherKeys = ttyFields[t].otherKeys /\ ttyFields'[t].alt
        /\ ttyFields'[t].mouse = ttyFields[t].mouse /\ ttyFields'[t].progress = ttyFields[t].progress
        /\ ttyFields'[t] \in TtyRow
    BY <1>2 DEF TtyRow
  <1>4. /\ tty'.raw = tty.raw /\ tty'.paste = tty.paste /\ tty'.kitty = tty.kitty /\ tty'.otherKeys = tty.otherKeys
        /\ tty'.mouse = tty.mouse /\ tty'.progress = tty.progress
        /\ tty' \in TtyModes
    BY <1>1 DEF TtyInv, TtyTypeOK, TtyModes
  <1>5. TtyTypeOK'
    <2>1. ttyFields' \in [TtyTerminals -> TtyRow]
      BY <1>3 DEF TtyEnterAlt, TtyInv, TtyTypeOK
    <2> QED
      BY <1>1, <1>4, <2>1 DEF TtyInv, TtyTypeOK
  <1>6. OneStarted' /\ ~TtyNoneStarted' /\ ~TtyNoneStarted
    <2>1. ~TtyNoneStarted
      BY <1>1 DEF TtyNoneStarted
    <2>2. ttyFields[t].made
      BY <1>1 DEF TtyInv, OneStarted
    <2> QED
      BY <1>1, <1>2, <1>3, <2>1, <2>2, OneChanges
  <1>7. Accounted'
    <2>1. \A u \in TtyTerminals : ttyFields'[u].started => u = t
      BY <1>1, <1>3, <1>6 DEF OneStarted
    <2>2. /\ tty.kitty = (IF ttyFields[t].kitty THEN 1 ELSE 0) /\ (tty.mouse <=> ttyFields[t].mouse)
          /\ (tty.otherKeys <=> ttyFields[t].otherKeys) /\ (tty.progress <=> ttyFields[t].progress)
      BY <1>1 DEF TtyInv, Accounted
    <2>3. \E u \in TtyTerminals : ttyFields'[u].alt
      BY <1>3
    <2> QED
      BY <1>3, <1>4, <1>6, <2>1, <2>2, <2>3 DEF Accounted
  <1>8. WasCooked'
    <2>1. \A u \in TtyTerminals : ~ttyFields'[u].wasRaw
      BY <1>2, <1>3 DEF TtyInv, WasCooked
    <2> QED
      BY <1>1, <1>4, <1>6, <2>1 DEF TtyInv, WasCooked
  <1>9. HandsAgree'
    BY <1>1, <1>6 DEF TtyInv, HandsAgree
  <1> QED
    BY <1>5, <1>6, <1>7, <1>8, <1>9 DEF TtyInv

(* A hand-over of input that is given up is that of a terminal which is not started. *)
LEMMA HandsAfterRelease ==
    ASSUME TtyInv, NEW t \in TtyTerminals,
           ttyAltHand' = IF TtyOwnsAltHand(t) THEN TtyNone ELSE ttyAltHand,
           ttyInputHand' = IF TtyCancels(t) THEN TtyNoHand ELSE ttyInputHand
    PROVE  /\ TtyCancels(t) => ttyInputHand # TtyNoHand /\ TtyNoneStarted
           /\ ~ttyInputHand'.wasRaw /\ ttyInputHand' \in [token : TtyTerminals \cup {TtyNone}, wasRaw : BOOLEAN]
           /\ ttyInputHand' # TtyNoHand <=> ttyInputHand # TtyNoHand /\ ~TtyCancels(t)
           /\ ttyInputHand' # TtyNoHand => ttyInputHand' = ttyInputHand
           /\ ttyAltHand' \in TtyTerminals \cup {TtyNone}
           /\ ttyAltHand' # TtyNone => ttyInputHand' = TtyNoHand \/ ttyInputHand'.token = ttyAltHand'
           /\ ttyAltHand' = ttyAltHand \/ TtyReleases(t)
  <1>1. TtyCancels(t) => ttyInputHand # TtyNoHand /\ TtyNoneStarted
    BY NoHandFields, TtyAssumption DEF TtyCancels, TtyInv, HandsAgree
  <1>2. ~ttyInputHand'.wasRaw /\ ttyInputHand' \in [token : TtyTerminals \cup {TtyNone}, wasRaw : BOOLEAN]
    BY DEF TtyInv, TtyTypeOK, WasCooked, TtyNoHand
  <1>3. /\ ttyInputHand' # TtyNoHand <=> ttyInputHand # TtyNoHand /\ ~TtyCancels(t)
        /\ ttyInputHand' # TtyNoHand => ttyInputHand' = ttyInputHand
    OBVIOUS
  <1>4. /\ ttyAltHand' \in TtyTerminals \cup {TtyNone}
        /\ ttyAltHand' # TtyNone => ttyInputHand' = TtyNoHand \/ ttyInputHand'.token = ttyAltHand'
        /\ ttyAltHand' = ttyAltHand \/ TtyReleases(t)
    BY DEF TtyInv, TtyTypeOK, HandsAgree, TtyReleases
  <1> QED
    BY <1>1, <1>2, <1>3, <1>4

(* The alternate screen is left, and with it a hand-over nobody took. *)
LEMMA LeaveAltKeeps ==
    ASSUME TtyInv, NEW t \in TtyTerminals, TtyLeaveAlt(t)
    PROVE  TtyInv'
  <1>1. /\ ttyFields[t].made /\ tty' = TtyReleased(t) /\ ttyAnswers' = ttyAnswers /\ ttyStarts' = ttyStarts
        /\ ttyAltHand' = IF TtyOwnsAltHand(t) THEN TtyNone ELSE ttyAltHand
        /\ ttyInputHand' = IF TtyCancels(t) THEN TtyNoHand ELSE ttyInputHand
    BY DEF TtyLeaveAlt
  <1>2. /\ \A u \in TtyTerminals \ {t} : ttyFields'[u] = ttyFields[u]
        /\ ttyFields'[t] = [ttyFields[t] EXCEPT !.alt = FALSE] /\ ttyFields[t] \in TtyRow
    BY DEF TtyLeaveAlt, TtyInv, TtyTypeOK
  <1>3. /\ ttyFields'[t].made = ttyFields[t].made /\ ttyFields'[t].started = ttyFields[t].started
        /\ ttyFields'[t].wasRaw = ttyFields[t].wasRaw /\ ttyFields'[t].kitty = ttyFields[t].kitty
        /\ ttyFields'[t].otherKeys = ttyFields[t].otherKeys /\ ~ttyFields'[t].alt
        /\ ttyFields'[t].mouse = ttyFields[t].mouse /\ ttyFields'[t].progress = ttyFields[t].progress
        /\ ttyFields'[t].fallback = ttyFields[t].fallback
        /\ ttyFields'[t] \in TtyRow
    BY <1>2 DEF TtyRow
  <1>4. /\ (tty'.raw <=> tty.raw /\ ~TtyCancels(t)) /\ (tty'.alt <=> tty.alt /\ ~TtyReleases(t))
        /\ tty'.paste = tty.paste /\ tty'.kitty = tty.kitty /\ tty'.otherKeys = tty.otherKeys
        /\ tty'.mouse = tty.mouse /\ tty'.progress = tty.progress
        /\ tty' \in TtyModes
    BY <1>1, ReleasedFields
  <1>5. /\ TtyCancels(t) => ttyInputHand # TtyNoHand /\ TtyNoneStarted
        /\ ~ttyInputHand'.wasRaw /\ ttyInputHand' \in [token : TtyTerminals \cup {TtyNone}, wasRaw : BOOLEAN]
        /\ ttyInputHand' # TtyNoHand <=> ttyInputHand # TtyNoHand /\ ~TtyCancels(t)
        /\ ttyInputHand' # TtyNoHand => ttyInputHand' = ttyInputHand
        /\ ttyAltHand' \in TtyTerminals \cup {TtyNone}
        /\ ttyAltHand' # TtyNone => ttyInputHand' = TtyNoHand \/ ttyInputHand'.token = ttyAltHand'
        /\ ttyAltHand' = ttyAltHand \/ TtyReleases(t)
    BY <1>1, HandsAfterRelease
  <1>6. TtyTypeOK'
    <2>1. ttyFields' \in [TtyTerminals -> TtyRow]
      BY <1>3 DEF TtyLeaveAlt, TtyInv, TtyTypeOK
    <2> QED
      BY <1>1, <1>4, <1>5, <2>1 DEF TtyInv, TtyTypeOK
  <1>7. OneStarted' /\ (TtyNoneStarted' <=> TtyNoneStarted)
    <2>1. ~ttyFields[t].started =>
             /\ ~ttyFields[t].kitty /\ ~ttyFields[t].otherKeys /\ ~ttyFields[t].mouse
             /\ ~ttyFields[t].progress /\ ~ttyFields[t].fallback
      BY DEF TtyInv, OneStarted
    <2> QED
      BY <1>1, <1>2, <1>3, <2>1, OneChanges
  <1>8. Accounted'
    <2>1. \A u \in TtyTerminals : ttyFields'[u].started =>
              /\ tty'.kitty = (IF ttyFields'[u].kitty THEN 1 ELSE 0) /\ (tty'.otherKeys <=> ttyFields'[u].otherKeys)
              /\ (tty'.mouse <=> ttyFields'[u].mouse) /\ (tty'.progress <=> ttyFields'[u].progress)
      BY <1>2, <1>3, <1>4 DEF TtyInv, Accounted
    <2>2. tty'.alt => ttyAltHand' # TtyNone \/ \E u \in TtyTerminals : ttyFields'[u].alt
      <3> SUFFICES ASSUME tty'.alt, ttyAltHand' = TtyNone
                   PROVE  \E u \in TtyTerminals : ttyFields'[u].alt
        OBVIOUS
      <3>1. tty.alt /\ ~TtyReleases(t) /\ ttyAltHand = TtyNone /\ ~ttyFields[t].alt
        BY <1>4, <1>5 DEF TtyReleases
      <3>2. PICK u \in TtyTerminals : ttyFields[u].alt
        BY <3>1 DEF TtyInv, Accounted
      <3> QED
        BY <1>2, <3>1, <3>2
    <2> QED
      BY <1>4, <1>7, <2>1, <2>2 DEF TtyInv, Accounted
  <1>9. WasCooked'
    <2>1. \A u \in TtyTerminals : ~ttyFields'[u].wasRaw
      BY <1>2, <1>3 DEF TtyInv, WasCooked
    <2> QED
      BY <1>4, <1>5, <1>7, <2>1 DEF TtyInv, WasCooked
  <1>10. HandsAgree'
    BY <1>1, <1>5, <1>7 DEF TtyInv, HandsAgree
  <1> QED
    BY <1>6, <1>7, <1>8, <1>9, <1>10 DEF TtyInv

(* What stop() leaves in the fields of a terminal. *)
LEMMA IdleFields ==
    ASSUME TtyInv, NEW t \in TtyTerminals
    PROVE  /\ TtyIdle(t) \in TtyRow
           /\ TtyIdle(t).made = ttyFields[t].made /\ TtyIdle(t).wasRaw = ttyFields[t].wasRaw
           /\ ~TtyIdle(t).started /\ ~TtyIdle(t).kitty /\ ~TtyIdle(t).otherKeys /\ ~TtyIdle(t).alt
           /\ ~TtyIdle(t).mouse /\ ~TtyIdle(t).progress /\ ~TtyIdle(t).fallback
  <1>1. ttyFields[t] \in TtyRow
    BY DEF TtyInv, TtyTypeOK
  <1> QED
    BY <1>1 DEF TtyIdle, TtyRow

(* A terminal that goes idle, started or while none is, leaves none started. *)
LEMMA IdleLeavesNone ==
    ASSUME TtyInv, NEW t \in TtyTerminals, ttyFields[t].started \/ TtyNoneStarted,
           ttyFields' = [ttyFields EXCEPT ![t] = TtyIdle(t)]
    PROVE  /\ ttyFields' \in [TtyTerminals -> TtyRow]
           /\ OneStarted' /\ TtyNoneStarted'
           /\ \A u \in TtyTerminals : ~ttyFields'[u].wasRaw
           /\ \A u \in TtyTerminals \ {t} : ttyFields'[u] = ttyFields[u]
  <1>1. /\ \A u \in TtyTerminals \ {t} : ttyFields'[u] = ttyFields[u]
        /\ ttyFields'[t] = TtyIdle(t)
    BY DEF TtyInv, TtyTypeOK
  <1>2. ttyFields' \in [TtyTerminals -> TtyRow]
    BY IdleFields DEF TtyInv, TtyTypeOK
  <1>3. OneStarted' /\ TtyNoneStarted'
    BY <1>1, IdleFields, OneChanges
  <1>4. \A u \in TtyTerminals : ~ttyFields'[u].wasRaw
    BY <1>1, IdleFields DEF TtyInv, WasCooked
  <1> QED
    BY <1>1, <1>2, <1>3, <1>4

(* stop() switches off what is on, and gives the mode of the shell back. *)
LEMMA StopKeeps ==
    ASSUME TtyInv, NEW t \in TtyTerminals, TtyStop(t)
    PROVE  TtyInv'
  <1>1. /\ ttyFields[t].started \/ TtyNoneStarted
        /\ ttyFields[t].started \/ ttyInputHand = TtyNoHand \/ TtyOwnsAltHand(t)
        /\ ttyFields' = [ttyFields EXCEPT ![t] = TtyIdle(t)]
        /\ tty' = [TtyOff(t, TtyReleased(t)) EXCEPT !.raw = ttyFields[t].wasRaw]
        /\ ttyAnswers' = ttyAnswers /\ ttyStarts' = ttyStarts
        /\ ttyAltHand' = IF TtyOwnsAltHand(t) THEN TtyNone ELSE ttyAltHand
        /\ ttyInputHand' = IF TtyCancels(t) THEN TtyNoHand ELSE ttyInputHand
    BY DEF TtyStop
  <1>2. /\ ttyFields' \in [TtyTerminals -> TtyRow]
        /\ OneStarted' /\ TtyNoneStarted'
        /\ \A u \in TtyTerminals : ~ttyFields'[u].wasRaw
        /\ \A u \in TtyTerminals \ {t} : ttyFields'[u] = ttyFields[u]
    BY <1>1, IdleLeavesNone
  <1>3. PICK left : /\ left = TtyOff(t, TtyReleased(t)) /\ left \in TtyModes
                    /\ (left.alt <=> tty.alt /\ ~TtyReleases(t))
                    /\ left.kitty = 0 /\ ~left.otherKeys /\ ~left.mouse /\ ~left.progress /\ ~left.paste
    BY <1>1, ReleasedFields, OffFields
  <1>4. ~ttyFields[t].wasRaw /\ ttyFields[t].wasRaw \in BOOLEAN
    BY DEF TtyInv, TtyTypeOK, TtyRow, WasCooked
  <1>5. /\ tty' \in TtyModes /\ ~tty'.raw /\ (tty'.alt <=> tty.alt /\ ~TtyReleases(t))
        /\ tty'.kitty = 0 /\ ~tty'.otherKeys /\ ~tty'.mouse /\ ~tty'.progress /\ ~tty'.paste
    <2>1. tty' = [left EXCEPT !.raw = ttyFields[t].wasRaw]
      BY <1>1, <1>3
    <2> QED
      BY <1>3, <1>4, <2>1 DEF TtyModes
  <1>6. /\ ~ttyInputHand'.wasRaw /\ ttyInputHand' \in [token : TtyTerminals \cup {TtyNone}, wasRaw : BOOLEAN]
        /\ ttyInputHand' # TtyNoHand <=> ttyInputHand # TtyNoHand /\ ~TtyCancels(t)
        /\ ttyAltHand' \in TtyTerminals \cup {TtyNone}
        /\ ttyAltHand' # TtyNone => ttyInputHand' = TtyNoHand \/ ttyInputHand'.token = ttyAltHand'
        /\ ttyAltHand' = ttyAltHand \/ TtyReleases(t)
    BY <1>1, HandsAfterRelease
  <1>7. ttyInputHand' = TtyNoHand
    <2>1. ttyFields[t].started => ttyInputHand = TtyNoHand
      BY DEF TtyInv, HandsAgree, TtyNoneStarted
    <2>2. TtyOwnsAltHand(t) /\ ttyInputHand # TtyNoHand => TtyCancels(t)
      BY TtyAssumption DEF TtyInv, HandsAgree, TtyOwnsAltHand, TtyCancels
    <2> QED
      BY <1>1, <1>6, <2>1, <2>2
  <1>8. TtyTypeOK'
    BY <1>1, <1>2, <1>5, <1>6 DEF TtyInv, TtyTypeOK
  <1>9. Accounted'
    <2>1. tty'.alt => ttyAltHand' # TtyNone \/ \E u \in TtyTerminals : ttyFields'[u].alt
      <3> SUFFICES ASSUME tty'.alt, ttyAltHand' = TtyNone
                   PROVE  \E u \in TtyTerminals : ttyFields'[u].alt
        OBVIOUS
      <3>1. tty.alt /\ ttyAltHand = TtyNone /\ ~ttyFields[t].alt
        BY <1>5, <1>6 DEF TtyReleases
      <3>2. PICK u \in TtyTerminals : ttyFields[u].alt
        BY <3>1 DEF TtyInv, Accounted
      <3> QED
        BY <1>2, <3>1, <3>2
    <2> QED
      BY <1>2, <1>5, <2>1 DEF Accounted, TtyNoneStarted
  <1>10. WasCooked' /\ HandsAgree'
    BY <1>1, <1>2, <1>5, <1>6, <1>7 DEF TtyInv, WasCooked, HandsAgree
  <1> QED
    BY <1>2, <1>8, <1>9, <1>10 DEF TtyInv

(* A hand-over leaves the alternate screen and raw mode on, and remembers who left them. *)
LEMMA HandOverKeeps ==
    ASSUME TtyInv, NEW t \in TtyTerminals, TtyHandOver(t)
    PROVE  TtyInv'
  <1>1. /\ ttyFields[t].started
        /\ ttyFields' = [ttyFields EXCEPT ![t] = TtyIdle(t)]
        /\ tty' = TtyOff(t, tty)
        /\ ttyAnswers' = ttyAnswers /\ ttyStarts' = ttyStarts /\ ttyAltHand' = t
        /\ ttyInputHand' = [token |-> t, wasRaw |-> IF ttyInputHand = TtyNoHand THEN ttyFields[t].wasRaw ELSE ttyInputHand.wasRaw]
    BY DEF TtyHandOver
  <1>2. /\ ttyFields' \in [TtyTerminals -> TtyRow]
        /\ OneStarted' /\ TtyNoneStarted'
        /\ \A u \in TtyTerminals : ~ttyFields'[u].wasRaw
    BY <1>1, IdleLeavesNone
  <1>3. ttyInputHand' = [token |-> t, wasRaw |-> FALSE]
    <2>1. ttyFields[t].wasRaw = FALSE /\ ttyInputHand.wasRaw = FALSE
      BY DEF TtyInv, TtyTypeOK, TtyRow, WasCooked
    <2> QED
      BY <1>1, <2>1
  <1>4. ttyInputHand' # TtyNoHand /\ t # TtyNone
    BY <1>3, TtyAssumption DEF TtyNoHand
  <1>5. /\ tty' \in TtyModes /\ tty'.raw = tty.raw
        /\ tty'.kitty = 0 /\ ~tty'.otherKeys /\ ~tty'.mouse /\ ~tty'.progress /\ ~tty'.paste
    <2>1. tty \in TtyModes
      BY DEF TtyInv, TtyTypeOK
    <2> QED
      BY <1>1, <2>1, OffFields
  <1>6. tty.raw
    BY <1>1 DEF TtyInv, WasCooked, TtyNoneStarted
  <1>7. TtyTypeOK'
    <2>1. ttyInputHand' \in [token : TtyTerminals \cup {TtyNone}, wasRaw : BOOLEAN]
      BY <1>3
    <2>2. ttyAltHand' \in TtyTerminals \cup {TtyNone} /\ ttyAnswers' = ttyAnswers /\ ttyStarts' = ttyStarts
      BY <1>1
    <2> QED
      BY <1>2, <1>5, <2>1, <2>2 DEF TtyInv, TtyTypeOK
  <1>8. Accounted'
    BY <1>1, <1>2, <1>4, <1>5 DEF Accounted, TtyNoneStarted
  <1>9. WasCooked' /\ HandsAgree'
    BY <1>1, <1>2, <1>3, <1>4, <1>5, <1>6 DEF TtyInv, WasCooked, HandsAgree
  <1> QED
    BY <1>2, <1>7, <1>8, <1>9 DEF TtyInv

(* Every step keeps the invariant. *)
LEMMA NextTerminal == TtyInv /\ [TtyNext]_ttyVars => TtyInv'
  <1> SUFFICES ASSUME TtyInv, [TtyNext]_ttyVars
               PROVE  TtyInv'
    OBVIOUS
  <1>1. CASE TtyDiscard
    BY <1>1, DiscardKeeps
  <1>2. ASSUME NEW t \in TtyTerminals,
               \/ TtyCreate(t) \/ TtyStart(t) \/ TtyAnswer(t) \/ TtyFallback(t) \/ TtyStop(t) \/ TtyHandOver(t)
               \/ TtyEnterAlt(t) \/ TtyLeaveAlt(t)
               \/ \E mode \in {"mouse", "progress"}, on \in BOOLEAN : TtySwitch(t, mode, on)
        PROVE  TtyInv'
    BY <1>2, CreateKeeps, StartKeeps, AnswerKeeps, FallbackKeeps, StopKeeps, HandOverKeeps, EnterAltKeeps, LeaveAltKeeps,
       SwitchKeeps
  <1>3. CASE UNCHANGED ttyVars
    BY <1>3 DEF ttyVars, TtyInv, TtyTypeOK, OneStarted, Accounted, WasCooked, HandsAgree, TtyNoneStarted
  <1> QED
    BY <1>1, <1>2, <1>3 DEF TtyNext

(* Nobody holds anything: the modes are those of the shell. *)
LEMMA NothingIsLeft == TtyInv => TerminalSafe
  <1> SUFFICES ASSUME TtyInv
               PROVE  TtyRestored /\ RawWhileReading
    BY DEF TtyInv, TerminalSafe
  <1>1. RawWhileReading
    BY DEF TtyInv, WasCooked, RawWhileReading
  <1>2. ASSUME TtyReleasedByAll
        PROVE  tty = TtyCooked
    <2>1. ~tty.raw /\ tty.kitty = 0 /\ ~tty.otherKeys /\ ~tty.mouse /\ ~tty.progress /\ ~tty.paste /\ ~tty.alt
      BY <1>2 DEF TtyReleasedByAll, TtyInv, WasCooked, Accounted
    <2>2. tty \in TtyModes
      BY DEF TtyInv, TtyTypeOK
    <2> QED
      BY <2>1, <2>2 DEF TtyModes, TtyCooked
  <1> QED
    BY <1>1, <1>2 DEF TtyRestored

(* Over starts and stops, hand-overs and late answers: the terminal is in raw mode
   while it is read, and as the shell left it when nobody holds it any more
   (stop(), releaseAltScreen() and the hand-overs of terminal.ts).         *)
THEOREM TerminalIsRestored == TtySpec => []TerminalSafe
  <1>1. TtySpec => []TtyInv
    BY InitTerminal, NextTerminal, PTL DEF TtySpec
  <1> QED
    BY <1>1, NothingIsLeft, PTL

-----------------------------------------------------------------------------
(* Deliveries of an event that have not come to its run yet. *)
Waiting(e) == {h \in BotSlots : botHandler[h].pc \in {"fresh", "received", "found"} /\ botHandler[h].event = e}

(* Every run is accounted for by a cut-off one, by a delivery beside another, or
   by the one that is allowed; once that one is used up, it is in hand or recorded. *)
Slack ==
    \A e \in BotEvents :
        /\ botRuns[e] + Cardinality(Waiting(e)) <= 1 + botCut[e] + botTwice[e]
        /\ \/ botRuns[e] + Cardinality(Waiting(e)) < 1 + botCut[e] + botTwice[e]
           \/ BotInHand({e}) \/ botDedup[e] = "handled"

Rooted(h) == botHandler[h].pc \in {"found", "running", "ran", "saved"}
SessionOf(h) == BotSessionOf[botHandler[h].event]

(* A handler that is not late knows the root of its session. *)
InStep ==
    \A h \in BotSlots \ botLate :
        /\ botHandler[h].pc = "found" => botHandler[h].root = BotFound(SessionOf(h))
        /\ botHandler[h].pc \in {"running", "ran"} => botSession[SessionOf(h)] \in {0, botHandler[h].root}

BotInv == BotTypeOK /\ Slack /\ InStep

(* The root of a session is replaced by a late handler only. *)
OnlyLate ==
    \A s \in BotSessions : botSession[s] > 0 /\ botSession'[s] # botSession[s] =>
        \E h \in botLate : botHandler'[h] # botHandler[h] /\ BotSessionOf[botHandler[h].event] = s

-----------------------------------------------------------------------------
(* The fields of a handler in hand. *)
LEMMA HandlerFields ==
    ASSUME BotTypeOK, NEW h \in BotSlots
    PROVE  /\ botHandler[h] \in BotHandling(botRoots)
           /\ botHandler[h].pc \in {"idle", "fresh", "received", "found", "running", "ran", "saved"}
           /\ botHandler[h] = BotIdle <=> botHandler[h].pc = "idle"
           /\ botHandler[h] # BotIdle => botHandler[h].event \in BotEvents /\ SessionOf(h) \in BotSessions
           /\ Rooted(h) => botHandler[h].root \in 0 .. botRoots
  <1>1. botHandler[h] \in BotHandling(botRoots)
    BY DEF BotTypeOK
  <1>2. /\ botHandler[h].pc \in {"idle", "fresh", "received", "found", "running", "ran", "saved"}
        /\ botHandler[h] = BotIdle <=> botHandler[h].pc = "idle"
        /\ botHandler[h] # BotIdle => botHandler[h].event \in BotEvents
        /\ Rooted(h) => botHandler[h].root \in 0 .. botRoots
    BY <1>1 DEF BotHandling, BotIdle, Rooted
  <1> QED
    BY <1>1, <1>2 DEF SessionOf, BotSessions

(* The deliveries that wait are counted one by one. *)
LEMMA WaitingChanges ==
    ASSUME NEW h \in BotSlots, \A k \in BotSlots \ {h} : botHandler'[k] = botHandler[k], NEW e
    PROVE  /\ Cardinality(Waiting(e)) \in Nat /\ Cardinality(Waiting(e)') \in Nat
           /\ (h \in Waiting(e)' <=> h \in Waiting(e)) => Cardinality(Waiting(e)') = Cardinality(Waiting(e))
           /\ h \in Waiting(e) /\ h \notin Waiting(e)' => Cardinality(Waiting(e)') = Cardinality(Waiting(e)) - 1
           /\ h \notin Waiting(e) /\ h \in Waiting(e)' => Cardinality(Waiting(e)') = Cardinality(Waiting(e)) + 1
  <1>1. Waiting(e) \subseteq BotSlots /\ Waiting(e)' \subseteq BotSlots
    BY DEF Waiting
  <1>2. IsFiniteSet(Waiting(e)) /\ IsFiniteSet(Waiting(e)')
    BY <1>1, BotAssumption, FS_Subset
  <1>3. Cardinality(Waiting(e)) \in Nat /\ Cardinality(Waiting(e)') \in Nat
    BY <1>2, FS_CardinalityType
  <1>4. Waiting(e)' \ {h} = Waiting(e) \ {h}
    BY DEF Waiting
  <1>5. (h \in Waiting(e)' <=> h \in Waiting(e)) => Waiting(e)' = Waiting(e)
    BY <1>4
  <1>6. h \in Waiting(e) /\ h \notin Waiting(e)' => Waiting(e)' = Waiting(e) \ {h}
    BY <1>4
  <1>7. h \notin Waiting(e) /\ h \in Waiting(e)' => Waiting(e)' = Waiting(e) \cup {h}
    BY <1>4
  <1>8. Cardinality(Waiting(e) \ {h}) = IF h \in Waiting(e) THEN Cardinality(Waiting(e)) - 1 ELSE Cardinality(Waiting(e))
    BY <1>2, FS_RemoveElement
  <1>9. Cardinality(Waiting(e) \cup {h}) = IF h \in Waiting(e) THEN Cardinality(Waiting(e)) ELSE Cardinality(Waiting(e)) + 1
    BY <1>2, FS_AddElement
  <1> QED
    BY <1>3, <1>5, <1>6, <1>7, <1>8, <1>9

(* No delivery has been made. *)
LEMMA InitBots == BotInit => BotInv
  <1> SUFFICES ASSUME BotInit
               PROVE  BotInv
    OBVIOUS
  <1>1. \A e : Waiting(e) = {}
    BY DEF BotInit, Waiting, BotIdle
  <1>2. BotTypeOK
    BY BotAssumption DEF BotInit, BotTypeOK, BotHandling
  <1>3. Slack
    BY <1>1, FS_EmptySet DEF BotInit, Slack
  <1>4. InStep
    BY DEF BotInit, InStep, BotIdle
  <1> QED
    BY <1>2, <1>3, <1>4 DEF BotInv

(* Slack is what BotRunsOnce needs. *)
LEMMA SlackIsEnough ==
    ASSUME BotTypeOK, Slack
    PROVE  BotRunsOnce
  <1> SUFFICES ASSUME NEW e \in BotEvents
               PROVE  botRuns[e] <= 1 + botCut[e] + botTwice[e]
    BY DEF BotRunsOnce
  <1>1. Cardinality(Waiting(e)) \in Nat
    <2>1. Waiting(e) \subseteq BotSlots
      BY DEF Waiting
    <2> QED
      BY <2>1, BotAssumption, FS_Subset, FS_CardinalityType
  <1>2. botRuns[e] \in Nat /\ botCut[e] \in Nat /\ botTwice[e] \in Nat
    BY DEF BotTypeOK
  <1>3. botRuns[e] + Cardinality(Waiting(e)) <= 1 + botCut[e] + botTwice[e]
    BY DEF Slack
  <1> QED
    BY <1>1, <1>2, <1>3

(* A step of one handler keeps the account of its event: nothing is run beyond it, and
   what is used up is in hand, recorded or made good.                      *)
LEMMA SlackStep ==
    ASSUME BotTypeOK, BotTypeOK', Slack, NEW h \in BotSlots, NEW e0 \in BotEvents,
           \A k \in BotSlots \ {h} : botHandler'[k] = botHandler[k],
           botHandler[h] # BotIdle => botHandler[h].event = e0,
           botHandler'[h] # BotIdle => botHandler'[h].event = e0,
           \A e \in BotEvents \ {e0} : /\ botRuns'[e] = botRuns[e] /\ botCut'[e] = botCut[e] /\ botTwice'[e] = botTwice[e]
                                       /\ botDedup'[e] = botDedup[e],
           NEW before \in {0, 1}, before = IF h \in Waiting(e0) THEN 1 ELSE 0,
           NEW after \in {0, 1}, after = IF h \in Waiting(e0)' THEN 1 ELSE 0,
           botRuns'[e0] + after + botCut[e0] + botTwice[e0] <= botRuns[e0] + before + botCut'[e0] + botTwice'[e0],
           \/ botRuns'[e0] + after + botCut[e0] + botTwice[e0] < botRuns[e0] + before + botCut'[e0] + botTwice'[e0]
           \/ botHandler'[h] # BotIdle \/ botDedup'[e0] = "handled"
    PROVE  Slack'
  <1> SUFFICES ASSUME NEW e \in BotEvents
               PROVE  /\ botRuns'[e] + Cardinality(Waiting(e)') <= 1 + botCut'[e] + botTwice'[e]
                      /\ \/ botRuns'[e] + Cardinality(Waiting(e)') < 1 + botCut'[e] + botTwice'[e]
                         \/ BotInHand({e})' \/ botDedup'[e] = "handled"
    BY DEF Slack
  <1>1. /\ botRuns[e] + Cardinality(Waiting(e)) <= 1 + botCut[e] + botTwice[e]
        /\ \/ botRuns[e] + Cardinality(Waiting(e)) < 1 + botCut[e] + botTwice[e]
           \/ BotInHand({e}) \/ botDedup[e] = "handled"
    BY DEF Slack
  <1>2. /\ botRuns[e] \in Nat /\ botCut[e] \in Nat /\ botTwice[e] \in Nat
        /\ botRuns'[e] \in Nat /\ botCut'[e] \in Nat /\ botTwice'[e] \in Nat
    BY DEF BotTypeOK
  <1>3. CASE e = e0
    <2>1. /\ Cardinality(Waiting(e)) \in Nat /\ Cardinality(Waiting(e)') \in Nat
          /\ Cardinality(Waiting(e)') = Cardinality(Waiting(e)) + after - before
      BY <1>3, WaitingChanges
    <2>2. botHandler'[h] # BotIdle => BotInHand({e})'
      BY <1>3 DEF BotInHand
    <2> QED
      BY <1>1, <1>2, <1>3, <2>1, <2>2
  <1>4. CASE e # e0
    <2>1. h \notin Waiting(e) /\ h \notin Waiting(e)'
      BY <1>4 DEF Waiting, BotIdle
    <2>2. Cardinality(Waiting(e)') = Cardinality(Waiting(e))
      BY <2>1, WaitingChanges
    <2>3. BotInHand({e}) => BotInHand({e})'
      BY <1>4 DEF BotInHand
    <2> QED
      BY <1>1, <1>4, <2>2, <2>3
  <1> QED
    BY <1>3, <1>4

(* A handler moves on, or is done: the deliveries in hand stay one by one. *)
LEMMA HandlerMoves ==
    ASSUME BotTypeOK, NEW h \in BotSlots, NEW next, BotHandle(h, next)
    PROVE  /\ \A k \in BotSlots \ {h} : botHandler'[k] = botHandler[k]
           /\ botHandler'[h] = next
           /\ next \in BotHandling(botRoots') /\ botRoots' \in Nat /\ botRoots' >= botRoots =>
                  botHandler' \in [BotSlots -> BotHandling(botRoots')]
  <1>1. /\ \A k \in BotSlots \ {h} : botHandler'[k] = botHandler[k]
        /\ botHandler'[h] = next
        /\ DOMAIN botHandler' = BotSlots /\ botHandler' = [k \in BotSlots |-> IF k = h THEN next ELSE botHandler[k]]
    BY DEF BotTypeOK, BotHandle
  <1>2. ASSUME botRoots' \in Nat, botRoots' >= botRoots, NEW k \in BotSlots
        PROVE  botHandler[k] \in BotHandling(botRoots')
    <2>1. botHandler[k] \in BotHandling(botRoots) /\ 0 .. botRoots \subseteq 0 .. botRoots'
      BY <1>2 DEF BotTypeOK
    <2> QED
      BY <2>1 DEF BotHandling
  <1> QED
    BY <1>1, <1>2

(* A delivery is marked as received, and refused or looked at. *)
LEMMA MarkReceivedKeeps ==
    ASSUME BotInv, NEW h \in BotSlots, BotMarkReceived(h)
    PROVE  BotInv' /\ botSession' = botSession
  <1>1. PICK e0, next :
            /\ e0 = botHandler[h].event /\ next = IF e0 \in BotDenied THEN BotIdle ELSE BotAt("received", e0)
            /\ botHandler[h].pc = "fresh" /\ BotHandle(h, next)
            /\ botDedup' = [botDedup EXCEPT ![e0] = "received"]
            /\ UNCHANGED <<botLink, botSession, botRoots, botDeliveries, botCrashes, botRuns, botCut, botTwice, botLate>>
    BY DEF BotMarkReceived
  <1>2. BotTypeOK /\ Slack /\ InStep
    BY DEF BotInv
  <1>3. e0 \in BotEvents /\ botHandler[h] # BotIdle
    BY <1>1, <1>2, HandlerFields
  <1>4. /\ next \in BotHandling(botRoots) /\ next.pc \in {"idle", "received"}
        /\ next # BotIdle => next.event = e0 /\ next.pc = "received"
    BY <1>1, <1>3 DEF BotHandling, BotAt, BotIdle
  <1>5. /\ \A k \in BotSlots \ {h} : botHandler'[k] = botHandler[k]
        /\ botHandler'[h] = next
        /\ botHandler' \in [BotSlots -> BotHandling(botRoots')]
    BY <1>1, <1>2, <1>4, HandlerMoves DEF BotTypeOK
  <1>6. BotTypeOK'
    BY <1>1, <1>2, <1>5 DEF BotTypeOK
  <1>7. Slack'
    <2>1. h \in Waiting(e0) /\ (h \in Waiting(e0)' <=> next # BotIdle)
      BY <1>1, <1>4, <1>5 DEF Waiting, BotIdle
    <2>2. botRuns[e0] \in Nat /\ botCut[e0] \in Nat /\ botTwice[e0] \in Nat
      BY <1>2, <1>3 DEF BotTypeOK
    <2>3. \A e \in BotEvents \ {e0} : botDedup'[e] = botDedup[e]
      BY <1>1, <1>2 DEF BotTypeOK
    <2>4. botHandler'[h] # BotIdle => botHandler'[h].event = e0
      BY <1>4, <1>5
    <2>5. CASE next = BotIdle
      BY <1>1, <1>2, <1>3, <1>5, <1>6, <2>1, <2>2, <2>3, <2>4, <2>5, SlackStep
    <2>6. CASE next # BotIdle
      BY <1>1, <1>2, <1>3, <1>5, <1>6, <2>1, <2>2, <2>3, <2>4, <2>6, SlackStep
    <2> QED
      BY <2>5, <2>6
  <1>10. InStep'
    BY <1>1, <1>2, <1>4, <1>5 DEF InStep, SessionOf, BotFound
  <1> QED
    BY <1>1, <1>6, <1>7, <1>10 DEF BotInv

(* The session is read, with the root agent it has now. *)
LEMMA FindSessionKeeps ==
    ASSUME BotInv, NEW h \in BotSlots, BotFindSession(h)
    PROVE  BotInv' /\ botSession' = botSession
  <1>1. PICK e0, next :
            /\ e0 = botHandler[h].event /\ next = [pc |-> "found", event |-> e0, root |-> BotFound(BotSessionOf[e0])]
            /\ botHandler[h].pc = "received" /\ BotHandle(h, next)
            /\ botLate' = botLate \ {h}
            /\ UNCHANGED <<botLink, botDedup, botSession, botRoots, botDeliveries, botCrashes, botRuns, botCut, botTwice>>
    BY DEF BotFindSession
  <1>2. BotTypeOK /\ Slack /\ InStep
    BY DEF BotInv
  <1>3. e0 \in BotEvents /\ botHandler[h] # BotIdle /\ BotSessionOf[e0] \in BotSessions
    BY <1>1, <1>2, HandlerFields DEF SessionOf
  <1>4. BotFound(BotSessionOf[e0]) \in 0 .. botRoots
    BY <1>2, <1>3 DEF BotFound, BotTypeOK
  <1>5. /\ next \in BotHandling(botRoots) /\ next.pc = "found" /\ next.event = e0
        /\ next.root = BotFound(BotSessionOf[e0]) /\ next # BotIdle
    BY <1>1, <1>3, <1>4 DEF BotHandling, BotIdle
  <1>6. /\ \A k \in BotSlots \ {h} : botHandler'[k] = botHandler[k]
        /\ botHandler'[h] = next
        /\ botHandler' \in [BotSlots -> BotHandling(botRoots')]
    BY <1>1, <1>2, <1>5, HandlerMoves DEF BotTypeOK
  <1>7. BotTypeOK'
    BY <1>1, <1>2, <1>6 DEF BotTypeOK
  <1>8. Slack'
    <2>1. h \in Waiting(e0) /\ h \in Waiting(e0)'
      BY <1>1, <1>5, <1>6 DEF Waiting
    <2>2. botRuns[e0] \in Nat /\ botCut[e0] \in Nat /\ botTwice[e0] \in Nat
      BY <1>2, <1>3 DEF BotTypeOK
    <2> QED
      BY <1>1, <1>2, <1>3, <1>5, <1>6, <1>7, <2>1, <2>2, SlackStep
  <1>11. InStep'
    BY <1>1, <1>2, <1>5, <1>6 DEF InStep, SessionOf, BotFound
  <1> QED
    BY <1>1, <1>7, <1>8, <1>11 DEF BotInv

(* A handler writes its root: it is in step, and the others are or become late. *)
LEMMA WritesKeep ==
    ASSUME BotTypeOK, InStep, NEW h \in BotSlots, NEW s0 \in BotSessions, SessionOf(h) = s0,
           botHandler[h].pc \in {"found", "ran"}, BotWrites(h), botHandler[h].root \in Nat,
           \A k \in BotSlots \ {h} : botHandler'[k] = botHandler[k],
           botHandler'[h].pc \in {"idle", "running", "saved"}, botHandler'[h] # botHandler[h],
           botHandler'[h].pc = "running" =>
               botHandler'[h].event = botHandler[h].event /\ botHandler[h].root \in {0, botHandler'[h].root}
    PROVE  /\ botSession'[s0] = botHandler[h].root /\ \A s \in BotSessions \ {s0} : botSession'[s] = botSession[s]
           /\ botLate' \subseteq BotSlots
           /\ InStep' /\ OnlyLate
  <1>1. /\ botSession' = [botSession EXCEPT ![s0] = botHandler[h].root]
        /\ \/ botHandler[h].root = BotFound(s0) /\ botLate' = botLate \ {h}
           \/ botLate' = (botLate \ {h}) \cup {k \in BotSlots \ {h} : Rooted(k) /\ SessionOf(k) = s0}
    BY DEF BotWrites, SessionOf, Rooted
  <1>2. /\ botSession'[s0] = botHandler[h].root /\ \A s \in BotSessions \ {s0} : botSession'[s] = botSession[s]
        /\ botSession[s0] \in Int /\ botLate \subseteq BotSlots
    BY <1>1 DEF BotTypeOK
  <1>3. botLate' \subseteq BotSlots
    BY <1>1, <1>2
  <1>4. OnlyLate
    <2> SUFFICES ASSUME h \notin botLate, botSession[s0] > 0
                 PROVE  botSession[s0] = botHandler[h].root
      BY <1>2 DEF OnlyLate, SessionOf
    <2> QED
      BY <1>2 DEF InStep, BotFound
  <1>5. InStep'
    <2> SUFFICES ASSUME NEW k \in BotSlots, k \notin botLate'
                 PROVE  /\ botHandler'[k].pc = "found" => botHandler'[k].root = BotFound(SessionOf(k))'
                        /\ botHandler'[k].pc \in {"running", "ran"} => botSession'[SessionOf(k)'] \in {0, botHandler'[k].root}
      BY DEF InStep
    <2>1. CASE k = h
      <3>1. botHandler'[k].pc = "running" => SessionOf(k)' = s0
        BY <2>1 DEF SessionOf
      <3> QED
        BY <1>2, <2>1, <3>1
    <2>2. CASE k # h
      <3>1. botHandler'[k] = botHandler[k] /\ SessionOf(k)' = SessionOf(k) /\ k \notin botLate
        BY <1>1, <2>2 DEF SessionOf
      <3>2. CASE ~Rooted(k)
        BY <3>1, <3>2 DEF Rooted
      <3>3. CASE Rooted(k) /\ SessionOf(k) # s0
        <4>1. SessionOf(k) \in BotSessions
          BY <3>3, HandlerFields DEF Rooted, BotIdle
        <4>2. botSession'[SessionOf(k)] = botSession[SessionOf(k)]
          BY <1>2, <3>3, <4>1
        <4> QED
          BY <3>1, <4>2 DEF InStep, BotFound
      <3>4. CASE Rooted(k) /\ SessionOf(k) = s0
        <4>1. botHandler[h].root = BotFound(s0)
          BY <1>1, <2>2, <3>4
        <4>2. BotFound(s0)' = BotFound(s0)
          BY <1>2, <4>1 DEF BotFound
        <4>3. botHandler[k].root \in 0 .. botRoots
          BY <3>4, HandlerFields
        <4>4. botHandler[k].pc \in {"running", "ran"} => botSession'[s0] = botSession[s0]
          BY <1>2, <3>1, <3>4, <4>1, <4>3 DEF InStep, BotFound
        <4> QED
          BY <3>1, <3>4, <4>2, <4>4 DEF InStep
      <3> QED
        BY <3>2, <3>3, <3>4
    <2> QED
      BY <2>1, <2>2
  <1> QED
    BY <1>2, <1>3, <1>4, <1>5

(* The session is written as it was read, and the run starts with its root agent or a new one. *)
LEMMA TouchSessionKeeps ==
    ASSUME BotInv, NEW h \in BotSlots, BotTouchSession(h)
    PROVE  BotInv' /\ OnlyLate
  <1>1. PICK e0, s0, r0 :
            /\ e0 = botHandler[h].event /\ s0 = BotSessionOf[e0] /\ r0 = botHandler[h].root
            /\ botHandler[h].pc = "found"
            /\ BotWrites(h) /\ botSession' = [botSession EXCEPT ![s0] = r0]
            /\ botRuns' = IF BotRunsAdaptive(e0) THEN [botRuns EXCEPT ![e0] = @ + 1] ELSE botRuns
            /\ botRoots' = IF BotRunsAdaptive(e0) /\ r0 = 0 THEN botRoots + 1 ELSE botRoots
            /\ BotHandle(h, IF ~BotRunsAdaptive(e0) THEN BotIdle
                            ELSE [pc |-> "running", event |-> e0, root |-> IF r0 = 0 THEN botRoots' ELSE r0])
            /\ UNCHANGED <<botLink, botDedup, botDeliveries, botCrashes, botCut, botTwice>>
    BY DEF BotTouchSession, BotWrites
  <1>2. BotTypeOK /\ Slack /\ InStep
    BY DEF BotInv
  <1>3. /\ e0 \in BotEvents /\ botHandler[h] # BotIdle /\ s0 \in BotSessions /\ SessionOf(h) = s0
        /\ Rooted(h) /\ r0 \in 0 .. botRoots /\ botRoots \in Nat
    BY <1>1, <1>2, HandlerFields DEF SessionOf, Rooted, BotTypeOK
  <1>4. PICK next : /\ next = IF ~BotRunsAdaptive(e0) THEN BotIdle
                              ELSE [pc |-> "running", event |-> e0, root |-> IF r0 = 0 THEN botRoots' ELSE r0]
                    /\ BotHandle(h, next)
    BY <1>1
  <1>5. botRoots' \in Nat /\ botRoots' >= botRoots /\ botRoots' \in {botRoots, botRoots + 1}
    BY <1>1, <1>3
  <1>6. /\ next \in BotHandling(botRoots') /\ next.pc \in {"idle", "running"} /\ (next # BotIdle <=> BotRunsAdaptive(e0))
        /\ next # BotIdle => /\ next.pc = "running" /\ next.event = e0
                             /\ next.root = IF r0 = 0 THEN botRoots + 1 ELSE r0
    BY <1>1, <1>3, <1>4, <1>5 DEF BotHandling, BotIdle
  <1>7. /\ \A k \in BotSlots \ {h} : botHandler'[k] = botHandler[k]
        /\ botHandler'[h] = next
        /\ botHandler' \in [BotSlots -> BotHandling(botRoots')]
    BY <1>2, <1>4, <1>5, <1>6, HandlerMoves
  <1>8. /\ botSession'[s0] = r0 /\ \A s \in BotSessions \ {s0} : botSession'[s] = botSession[s]
        /\ botSession' \in [BotSessions -> -1 .. botRoots']
    BY <1>1, <1>2, <1>3, <1>5 DEF BotTypeOK
  <1>9. /\ botRuns' \in [BotEvents -> Nat] /\ \A e \in BotEvents \ {e0} : botRuns'[e] = botRuns[e]
        /\ botRuns'[e0] = IF BotRunsAdaptive(e0) THEN botRuns[e0] + 1 ELSE botRuns[e0]
    BY <1>1, <1>2, <1>3 DEF BotTypeOK
  <1>14. botLate' \subseteq BotSlots /\ InStep' /\ OnlyLate
    <2>1. next.pc = "running" => next.event = e0 /\ r0 \in {0, next.root}
      BY <1>6 DEF BotIdle
    <2>2. next # botHandler[h]
      BY <1>1, <1>6
    <2> QED
      BY <1>1, <1>2, <1>3, <1>6, <1>7, <2>1, <2>2, WritesKeep
  <1>10. BotTypeOK'
    BY <1>1, <1>2, <1>5, <1>14, <1>7, <1>8, <1>9 DEF BotTypeOK
  <1>11. Slack'
    <2>1. h \in Waiting(e0) /\ h \notin Waiting(e0)'
      BY <1>1, <1>6, <1>7 DEF Waiting
    <2>2. botRuns[e0] \in Nat /\ botCut[e0] \in Nat /\ botTwice[e0] \in Nat
      BY <1>2, <1>3 DEF BotTypeOK
    <2>3. CASE next = BotIdle
      BY <1>1, <1>2, <1>3, <1>6, <1>7, <1>9, <1>10, <2>1, <2>2, <2>3, SlackStep
    <2>4. CASE next # BotIdle
      BY <1>1, <1>2, <1>3, <1>6, <1>7, <1>9, <1>10, <2>1, <2>2, <2>4, SlackStep
    <2> QED
      BY <2>3, <2>4
  <1> QED
    BY <1>10, <1>11, <1>14 DEF BotInv

(* The run comes back, or throws and is cut off. *)
LEMMA RunReturnsKeeps ==
    ASSUME BotInv, NEW h \in BotSlots, BotRunReturns(h)
    PROVE  BotInv' /\ botSession' = botSession
  <1>1. PICK e0, next :
            /\ e0 = botHandler[h].event
            /\ botHandler[h].pc = "running" /\ BotHandle(h, next)
            /\ \/ next = [botHandler[h] EXCEPT !.pc = "ran"] /\ botCut' = botCut
               \/ next = BotIdle /\ botCut' = [botCut EXCEPT ![e0] = @ + 1]
            /\ UNCHANGED <<botLink, botDedup, botSession, botRoots, botDeliveries, botCrashes, botRuns, botTwice, botLate>>
    BY DEF BotRunReturns
  <1>2. BotTypeOK /\ Slack /\ InStep
    BY DEF BotInv
  <1>3. /\ e0 \in BotEvents /\ botHandler[h] # BotIdle /\ Rooted(h)
        /\ botHandler[h] \in [pc : {"found", "running", "ran", "saved"}, event : BotEvents, root : 0 .. botRoots]
    <2>1. botHandler[h] \in BotHandling(botRoots) /\ e0 \in BotEvents /\ botHandler[h] # BotIdle
      BY <1>1, <1>2, HandlerFields
    <2> QED
      BY <1>1, <2>1 DEF BotHandling, Rooted, BotIdle
  <1>4. /\ next \in BotHandling(botRoots) /\ next.pc \in {"idle", "ran"}
        /\ next # BotIdle => next.pc = "ran" /\ next.event = e0 /\ next.root = botHandler[h].root
        /\ next.pc = "idle" => next = BotIdle
    BY <1>1, <1>3 DEF BotHandling, BotIdle
  <1>5. /\ \A k \in BotSlots \ {h} : botHandler'[k] = botHandler[k]
        /\ botHandler'[h] = next
        /\ botHandler' \in [BotSlots -> BotHandling(botRoots')]
    BY <1>1, <1>2, <1>4, HandlerMoves DEF BotTypeOK
  <1>6. /\ botCut' \in [BotEvents -> Nat] /\ \A e \in BotEvents \ {e0} : botCut'[e] = botCut[e]
        /\ botCut'[e0] = IF next = BotIdle THEN botCut[e0] + 1 ELSE botCut[e0]
    <2>1. botCut \in [BotEvents -> Nat]
      BY <1>2 DEF BotTypeOK
    <2>2. [botHandler[h] EXCEPT !.pc = "ran"] # BotIdle
      BY <1>3 DEF BotIdle
    <2> QED
      BY <1>1, <1>3, <2>1, <2>2
  <1>7. BotTypeOK'
    BY <1>1, <1>2, <1>5, <1>6 DEF BotTypeOK
  <1>8. Slack'
    <2>1. h \notin Waiting(e0) /\ h \notin Waiting(e0)'
      BY <1>1, <1>4, <1>5 DEF Waiting
    <2>2. botRuns[e0] \in Nat /\ botCut[e0] \in Nat /\ botTwice[e0] \in Nat
      BY <1>2, <1>3 DEF BotTypeOK
    <2>3. CASE next = BotIdle
      BY <1>1, <1>2, <1>3, <1>5, <1>6, <1>7, <2>1, <2>2, <2>3, SlackStep
    <2>4. CASE next # BotIdle
      BY <1>1, <1>2, <1>3, <1>4, <1>5, <1>6, <1>7, <2>1, <2>2, <2>4, SlackStep
    <2> QED
      BY <2>3, <2>4
  <1>11. InStep'
    BY <1>1, <1>2, <1>4, <1>5 DEF InStep, SessionOf, BotFound, BotIdle
  <1> QED
    BY <1>1, <1>7, <1>8, <1>11 DEF BotInv

(* The session is written with the root agent of the run. *)
LEMMA SaveSessionKeeps ==
    ASSUME BotInv, NEW h \in BotSlots, BotSaveSession(h)
    PROVE  BotInv' /\ OnlyLate
  <1>1. PICK e0, s0, next :
            /\ e0 = botHandler[h].event /\ s0 = BotSessionOf[e0]
            /\ botHandler[h].pc = "ran" /\ BotHandle(h, next)
            /\ next = [botHandler[h] EXCEPT !.pc = "saved"]
            /\ BotWrites(h) /\ botSession' = [botSession EXCEPT ![s0] = botHandler[h].root]
            /\ UNCHANGED <<botLink, botDedup, botRoots, botDeliveries, botCrashes, botRuns, botCut, botTwice>>
    BY DEF BotSaveSession, BotWrites
  <1>2. BotTypeOK /\ Slack /\ InStep
    BY DEF BotInv
  <1>3. /\ e0 \in BotEvents /\ botHandler[h] # BotIdle /\ Rooted(h) /\ s0 \in BotSessions /\ SessionOf(h) = s0
        /\ botHandler[h] \in [pc : {"found", "running", "ran", "saved"}, event : BotEvents, root : 0 .. botRoots]
    <2>1. /\ botHandler[h] \in BotHandling(botRoots) /\ e0 \in BotEvents /\ botHandler[h] # BotIdle
          /\ SessionOf(h) \in BotSessions
      BY <1>1, <1>2, HandlerFields
    <2> QED
      BY <1>1, <2>1 DEF BotHandling, Rooted, BotIdle, SessionOf
  <1>4. /\ next \in BotHandling(botRoots) /\ next # BotIdle
        /\ next.pc = "saved" /\ next.event = e0 /\ next.root = botHandler[h].root
    BY <1>1, <1>3 DEF BotHandling, BotIdle
  <1>5. /\ \A k \in BotSlots \ {h} : botHandler'[k] = botHandler[k]
        /\ botHandler'[h] = next
        /\ botHandler' \in [BotSlots -> BotHandling(botRoots')]
    BY <1>1, <1>2, <1>4, HandlerMoves DEF BotTypeOK
  <1>6. /\ botSession'[s0] = botHandler[h].root /\ \A s \in BotSessions \ {s0} : botSession'[s] = botSession[s]
        /\ botSession' \in [BotSessions -> -1 .. botRoots]
    BY <1>1, <1>2, <1>3 DEF BotTypeOK
  <1>11. botLate' \subseteq BotSlots /\ InStep' /\ OnlyLate
    <2>1. botHandler[h].root \in Nat /\ next # botHandler[h]
      BY <1>1, <1>2, <1>3, <1>4 DEF BotTypeOK
    <2> QED
      BY <1>1, <1>2, <1>3, <1>4, <1>5, <2>1, WritesKeep
  <1>7. BotTypeOK'
    BY <1>1, <1>2, <1>5, <1>6, <1>11 DEF BotTypeOK
  <1>8. Slack'
    <2>1. h \notin Waiting(e0) /\ h \notin Waiting(e0)'
      BY <1>1, <1>4, <1>5 DEF Waiting
    <2>2. botRuns[e0] \in Nat /\ botCut[e0] \in Nat /\ botTwice[e0] \in Nat
      BY <1>2, <1>3 DEF BotTypeOK
    <2> QED
      BY <1>1, <1>2, <1>3, <1>4, <1>5, <1>7, <2>1, <2>2, SlackStep
  <1> QED
    BY <1>7, <1>8, <1>11 DEF BotInv

(* The event is recorded as handled. *)
LEMMA MarkHandledKeeps ==
    ASSUME BotInv, NEW h \in BotSlots, BotMarkHandled(h)
    PROVE  BotInv' /\ botSession' = botSession
  <1>1. PICK e0 :
            /\ e0 = botHandler[h].event
            /\ botHandler[h].pc = "saved" /\ BotHandle(h, BotIdle)
            /\ botDedup' = [botDedup EXCEPT ![e0] = "handled"]
            /\ UNCHANGED <<botLink, botSession, botRoots, botDeliveries, botCrashes, botRuns, botCut, botTwice, botLate>>
    BY DEF BotMarkHandled
  <1>2. BotTypeOK /\ Slack /\ InStep
    BY DEF BotInv
  <1>3. e0 \in BotEvents /\ botHandler[h] # BotIdle
    BY <1>1, <1>2, HandlerFields
  <1>4. BotIdle \in BotHandling(botRoots) /\ BotIdle.pc = "idle"
    BY DEF BotHandling, BotIdle
  <1>5. /\ \A k \in BotSlots \ {h} : botHandler'[k] = botHandler[k]
        /\ botHandler'[h] = BotIdle
        /\ botHandler' \in [BotSlots -> BotHandling(botRoots')]
    BY <1>1, <1>2, <1>4, HandlerMoves DEF BotTypeOK
  <1>6. BotTypeOK'
    BY <1>1, <1>2, <1>5 DEF BotTypeOK
  <1>7. Slack'
    <2>1. h \notin Waiting(e0) /\ h \notin Waiting(e0)'
      BY <1>1, <1>4, <1>5 DEF Waiting
    <2>2. botRuns[e0] \in Nat /\ botCut[e0] \in Nat /\ botTwice[e0] \in Nat
      BY <1>2, <1>3 DEF BotTypeOK
    <2>3. botDedup'[e0] = "handled" /\ \A e \in BotEvents \ {e0} : botDedup'[e] = botDedup[e]
      BY <1>1, <1>2, <1>3 DEF BotTypeOK
    <2> QED
      BY <1>1, <1>2, <1>3, <1>5, <1>6, <2>1, <2>2, <2>3, SlackStep
  <1>10. InStep'
    BY <1>1, <1>2, <1>4, <1>5 DEF InStep, SessionOf, BotFound
  <1> QED
    BY <1>1, <1>6, <1>7, <1>10 DEF BotInv

(* A delivery begins: alone, or beside another of its event, which is counted. *)
LEMMA DeliverKeeps ==
    ASSUME BotInv, NEW h \in BotSlots, NEW e0 \in BotEvents, BotDeliver(h, e0)
    PROVE  BotInv' /\ botSession' = botSession
  <1>1. PICK next :
            /\ botHandler[h] = BotIdle
            /\ botDeliveries < BotMaxDeliveries /\ botDeliveries' = botDeliveries + 1
            /\ next = IF BotDuplicate(e0) THEN BotIdle ELSE BotAt("fresh", e0)
            /\ BotHandle(h, next)
            /\ botTwice' = IF BotInHand({e0}) THEN [botTwice EXCEPT ![e0] = @ + 1] ELSE botTwice
            /\ UNCHANGED <<botLink, botDedup, botSession, botRoots, botCrashes, botRuns, botCut, botLate>>
    BY DEF BotDeliver
  <1>2. BotTypeOK /\ Slack /\ InStep
    BY DEF BotInv
  <1>3. /\ next \in BotHandling(botRoots) /\ next.pc \in {"idle", "fresh"}
        /\ next = BotIdle <=> BotDuplicate(e0)
        /\ next # BotIdle => next.pc = "fresh" /\ next.event = e0
    BY <1>1 DEF BotHandling, BotAt, BotIdle
  <1>4. /\ \A k \in BotSlots \ {h} : botHandler'[k] = botHandler[k]
        /\ botHandler'[h] = next
        /\ botHandler' \in [BotSlots -> BotHandling(botRoots')]
    BY <1>1, <1>2, <1>3, HandlerMoves DEF BotTypeOK
  <1>5. /\ botTwice' \in [BotEvents -> Nat] /\ \A e \in BotEvents \ {e0} : botTwice'[e] = botTwice[e]
        /\ botTwice'[e0] = IF BotInHand({e0}) THEN botTwice[e0] + 1 ELSE botTwice[e0]
    BY <1>1, <1>2 DEF BotTypeOK
  <1>6. BotTypeOK'
    <2>1. botDeliveries' \in 0 .. BotMaxDeliveries
      BY <1>1, <1>2, BotAssumption DEF BotTypeOK
    <2> QED
      BY <1>1, <1>2, <1>4, <1>5, <2>1 DEF BotTypeOK
  <1>7. Slack'
    <2>1. h \notin Waiting(e0) /\ (h \in Waiting(e0)' <=> next # BotIdle)
      BY <1>1, <1>3, <1>4 DEF Waiting, BotIdle
    <2>2. botRuns[e0] \in Nat /\ botCut[e0] \in Nat /\ botTwice[e0] \in Nat
      BY <1>2 DEF BotTypeOK
    <2>3. CASE next = BotIdle
      <3>1. botDedup'[e0] = "handled"
        BY <1>1, <1>3, <2>3 DEF BotDuplicate
      <3> QED
        BY <1>1, <1>2, <1>4, <1>5, <1>6, <2>1, <2>2, <2>3, <3>1, SlackStep
    <2>4. CASE next # BotIdle /\ BotInHand({e0})
      BY <1>1, <1>2, <1>3, <1>4, <1>5, <1>6, <2>1, <2>2, <2>4, SlackStep
    <2>5. CASE next # BotIdle /\ ~BotInHand({e0})
      <3> SUFFICES ASSUME NEW e \in BotEvents
                   PROVE  /\ botRuns'[e] + Cardinality(Waiting(e)') <= 1 + botCut'[e] + botTwice'[e]
                          /\ \/ botRuns'[e] + Cardinality(Waiting(e)') < 1 + botCut'[e] + botTwice'[e]
                             \/ BotInHand({e})' \/ botDedup'[e] = "handled"
        BY DEF Slack
      <3>1. /\ botRuns[e] + Cardinality(Waiting(e)) <= 1 + botCut[e] + botTwice[e]
            /\ \/ botRuns[e] + Cardinality(Waiting(e)) < 1 + botCut[e] + botTwice[e]
               \/ BotInHand({e}) \/ botDedup[e] = "handled"
        BY <1>2 DEF Slack
      <3>2. botRuns[e] \in Nat /\ botCut[e] \in Nat /\ botTwice[e] \in Nat
        BY <1>2 DEF BotTypeOK
      <3>3. CASE e = e0
        <4>1. botRuns[e] + Cardinality(Waiting(e)) < 1 + botCut[e] + botTwice[e]
          BY <1>3, <2>5, <3>1, <3>3 DEF BotDuplicate
        <4>2. Cardinality(Waiting(e)) \in Nat /\ Cardinality(Waiting(e)') = Cardinality(Waiting(e)) + 1
          BY <1>4, <2>1, <2>5, <3>3, WaitingChanges
        <4>3. BotInHand({e})'
          BY <1>3, <1>4, <2>5, <3>3 DEF BotInHand
        <4> QED
          BY <1>1, <1>5, <2>5, <3>2, <3>3, <4>1, <4>2, <4>3
      <3>4. CASE e # e0
        <4>1. h \notin Waiting(e) /\ h \notin Waiting(e)'
          BY <1>1, <1>3, <1>4, <2>5, <3>4 DEF Waiting, BotIdle
        <4>2. Cardinality(Waiting(e)') = Cardinality(Waiting(e))
          BY <1>4, <4>1, WaitingChanges
        <4>3. BotInHand({e}) => BotInHand({e})'
          BY <1>1, <1>4, <3>4 DEF BotInHand
        <4> QED
          BY <1>1, <1>5, <3>1, <3>4, <4>2, <4>3
      <3> QED
        BY <3>3, <3>4
    <2> QED
      BY <2>3, <2>4, <2>5
  <1>10. InStep'
    BY <1>1, <1>2, <1>3, <1>4 DEF InStep, SessionOf, BotFound
  <1> QED
    BY <1>1, <1>6, <1>7, <1>10 DEF BotInv

(* A crash cuts off every run in hand and forgets the deliveries that wait. *)
LEMMA CrashKeeps ==
    ASSUME BotInv, BotCrash
    PROVE  BotInv' /\ botSession' = botSession
  <1> DEFINE CutOff(e) == {h \in BotSlots : botHandler[h].pc \in {"running", "ran", "saved"} /\ botHandler[h].event = e}
  <1>1. /\ botCrashes < BotMaxCrashes /\ botCrashes' = botCrashes + 1
        /\ botCut' = [e \in BotEvents |-> botCut[e] + Cardinality(CutOff(e))]
        /\ botHandler' = [h \in BotSlots |-> BotIdle]
        /\ botLink' = [state |-> "stopped", client |-> FALSE] /\ botLate' = {}
        /\ UNCHANGED <<botDedup, botSession, botRoots, botDeliveries, botRuns, botTwice>>
    BY DEF BotCrash
  <1>2. BotTypeOK /\ Slack
    BY DEF BotInv
  <1>3. \A h \in BotSlots : botHandler'[h] = BotIdle /\ botHandler'[h].pc = "idle"
    BY <1>1 DEF BotIdle
  <1>4. ASSUME NEW e \in BotEvents
        PROVE  /\ IsFiniteSet(CutOff(e)) /\ Cardinality(CutOff(e)) \in Nat
               /\ IsFiniteSet(Waiting(e)) /\ Cardinality(Waiting(e)) \in Nat
    <2>1. CutOff(e) \subseteq BotSlots /\ Waiting(e) \subseteq BotSlots
      BY DEF Waiting
    <2> HIDE DEF CutOff
    <2> QED
      BY <2>1, BotAssumption, FS_Subset, FS_CardinalityType
  <1>5. BotTypeOK'
    <2>1. botHandler' \in [BotSlots -> BotHandling(botRoots)]
      BY <1>1 DEF BotHandling
    <2>2. botCut' \in [BotEvents -> Nat]
      <3>1. \A e \in BotEvents : botCut[e] \in Nat
        BY <1>2 DEF BotTypeOK
      <3> HIDE DEF CutOff
      <3> QED
        BY <1>1, <1>4, <3>1
    <2>3. botCrashes' \in 0 .. BotMaxCrashes
      BY <1>1, <1>2, BotAssumption DEF BotTypeOK
    <2>4. botLink' \in [state : {"stopped", "starting", "connected", "failed"}, client : BOOLEAN]
      BY <1>1
    <2> QED
      BY <1>1, <1>2, <2>1, <2>2, <2>3, <2>4 DEF BotTypeOK
  <1>6. Slack'
    <2> SUFFICES ASSUME NEW e \in BotEvents
                 PROVE  /\ botRuns'[e] + Cardinality(Waiting(e)') <= 1 + botCut'[e] + botTwice'[e]
                        /\ \/ botRuns'[e] + Cardinality(Waiting(e)') < 1 + botCut'[e] + botTwice'[e]
                           \/ botDedup'[e] = "handled"
      BY DEF Slack
    <2>1. Waiting(e)' = {}
      BY <1>3 DEF Waiting
    <2>2. Cardinality(Waiting(e)') = 0
      BY <2>1, FS_EmptySet
    <2>3. /\ botRuns[e] + Cardinality(Waiting(e)) <= 1 + botCut[e] + botTwice[e]
          /\ \/ botRuns[e] + Cardinality(Waiting(e)) < 1 + botCut[e] + botTwice[e]
             \/ BotInHand({e}) \/ botDedup[e] = "handled"
      BY <1>2 DEF Slack
    <2>4. BotInHand({e}) => Cardinality(Waiting(e)) > 0 \/ Cardinality(CutOff(e)) > 0
      <3>1. BotInHand({e}) => Waiting(e) # {} \/ CutOff(e) # {}
        <4> SUFFICES ASSUME NEW h \in BotSlots, botHandler[h] # BotIdle, botHandler[h].event = e
                     PROVE  h \in Waiting(e) \/ h \in CutOff(e)
          BY DEF BotInHand
        <4>1. botHandler[h].pc \in {"fresh", "received", "found", "running", "ran", "saved"}
          BY <1>2, HandlerFields
        <4> QED
          BY <4>1 DEF Waiting
      <3> HIDE DEF CutOff
      <3> QED
        BY <1>4, <3>1, FS_EmptySet
    <2>5. botCut'[e] = botCut[e] + Cardinality(CutOff(e)) /\ botRuns'[e] = botRuns[e] /\ botTwice'[e] = botTwice[e]
      BY <1>1
    <2>6. botRuns[e] \in Nat /\ botCut[e] \in Nat /\ botTwice[e] \in Nat
      BY <1>2 DEF BotTypeOK
    <2> HIDE DEF CutOff
    <2> QED
      BY <1>1, <1>4, <2>2, <2>3, <2>4, <2>5, <2>6
  <1>8. InStep'
    BY <1>3 DEF InStep
  <1> QED
    BY <1>1, <1>5, <1>6, <1>8 DEF BotInv

(* The transport's life is its own. *)
LEMMA LinkKeeps ==
    ASSUME BotInv, BotStart \/ BotStop \/ BotClientEvent
    PROVE  BotInv' /\ botSession' = botSession
  <1>1. /\ UNCHANGED <<botDedup, botSession, botHandler, botRoots, botDeliveries, botCrashes, botRuns, botCut, botTwice, botLate>>
        /\ botLink' \in [state : {"stopped", "starting", "connected", "failed"}, client : BOOLEAN]
    <2>1. botLink \in [state : {"stopped", "starting", "connected", "failed"}, client : BOOLEAN]
      BY DEF BotInv, BotTypeOK
    <2>2. CASE BotClientEvent
      BY <2>1, <2>2 DEF BotClientEvent, BotLinked
    <2>3. CASE BotStart
      BY <2>3 DEF BotStart, BotLinked
    <2>4. CASE BotStop
      BY <2>4 DEF BotStop, BotLinked
    <2> QED
      BY <2>2, <2>3, <2>4
  <1> QED
    BY <1>1 DEF BotInv, BotTypeOK, Slack, Waiting, BotInHand, SessionOf, InStep, BotFound

(* Every step keeps the invariant, and the root agents but for late handlers. *)
LEMMA NextBots ==
    BotInv /\ [BotNext]_botVars => BotInv' /\ OnlyLate
  <1> SUFFICES ASSUME BotInv, [BotNext]_botVars
               PROVE  BotInv' /\ OnlyLate
    OBVIOUS
  <1>0. botSession' = botSession => OnlyLate
    BY DEF OnlyLate
  <1>1. CASE BotStart \/ BotStop \/ BotClientEvent
    BY <1>0, <1>1, LinkKeeps
  <1>2. CASE BotCrash
    BY <1>0, <1>2, CrashKeeps
  <1>3. ASSUME NEW h \in BotSlots, BotStep(h)
        PROVE  BotInv' /\ OnlyLate
    BY <1>0, <1>3, MarkReceivedKeeps, FindSessionKeeps, TouchSessionKeeps, RunReturnsKeeps, SaveSessionKeeps, MarkHandledKeeps
       DEF BotStep
  <1>4. ASSUME NEW h \in BotSlots, NEW e \in BotEvents, BotDeliver(h, e)
        PROVE  BotInv' /\ OnlyLate
    BY <1>0, <1>4, DeliverKeeps
  <1>5. CASE UNCHANGED botVars
    BY <1>0, <1>5 DEF botVars, BotInv, BotTypeOK, Slack, Waiting, BotInHand, SessionOf, InStep, BotFound
  <1> QED
    BY <1>1, <1>2, <1>3, <1>4, <1>5 DEF BotNext

(* However deliveries, redeliveries, crashes and restarts interleave: an event is run
   again only for a run that was cut off or a delivery that overlapped, and the
   root agent of a session is replaced only by a handler that read or wrote the
   session before that root was stored (processEvent() of the event gateway). *)
THEOREM BotsAccountForAll == BotSpec => BotAccounts
  <1>1. BotInv => BotSafe
    BY SlackIsEnough DEF BotInv, BotSafe
  <1>2. BotInv /\ [BotNext]_botVars => [OnlyLate]_botVars
    BY NextBots
  <1>3. BotInv /\ [BotNext]_botVars => BotInv'
    BY NextBots
  <1> QED
    BY <1>1, <1>2, <1>3, InitBots, PTL DEF BotSpec, BotAccounts, BotSessionKeepsRoot, OnlyLate

-----------------------------------------------------------------------------
(* The transcript: its lines, what the terminal shows of them, what is selected. *)
(* Lines of a transcript are numbered as they were appended, so that no two are alike. *)
Grows(text) == text \in Seq(Nat \ {0}) /\ \A i, j \in 1 .. Len(text) : i < j => text[i] < text[j]

TvRow == [text : Int, marked : BOOLEAN]

(* What a row of the screen has is what the frame before had there, or junk. *)
RowsKept ==
    /\ tvScreen \in [1 .. tvHeight -> TvRow]
    /\ tvPrev \in Seq(TvRow)
    /\ IF Len(tvPrev) = tvHeight
       THEN \A row \in 1 .. tvHeight : tvScreen[row] = tvPrev[row] \/ (tvResized /\ tvScreen[row] = TvJunk)
       ELSE \A row \in 1 .. tvHeight : tvScreen[row] = TvJunk

(* The view has the beginning of the text, unless lines went away and it is not rendered yet. *)
TextKept ==
    ~(tvPending /\ tvShifted) =>
        /\ Len(tvView.lines) <= Len(tvText)
        /\ \A i \in 1 .. Len(tvView.lines) : tvView.lines[i] = tvText[i]

(* The frame before shows the view, unless it was scrolled since. *)
FrameShown ==
    ~tvScrolled =>
        \A row \in 1 .. Len(tvPrev) :
            tvPrev[row].text > 0 =>
                row <= tvView.window /\ tvView.top + row <= Len(tvView.lines) /\ tvPrev[row].text = tvView.lines[tvView.top + row]

Rendered == ~tvPending => tvView.window <= tvHeight /\ tvView.lines = tvText /\ Len(tvPrev) = tvHeight /\ tvPrev = TvFrame(tvView)

Anchored ==
    tvSel.on /\ ~tvShifted /\ tvSel.line > 0 =>
        tvSel.anchor + 1 <= Len(tvView.lines) /\ tvView.lines[tvSel.anchor + 1] = tvSel.line

TvView == [top : Nat, following : BOOLEAN, maxTop : Nat, window : Nat, lines : Seq(Nat \ {0})]
TvSelection == {TvNone} \cup [on : {TRUE}, anchor : Nat, head : Nat, moved : BOOLEAN, line : Int]

TvTypes ==
    /\ Grows(tvText) /\ tvNext \in Nat \ {0} /\ \A i \in 1 .. Len(tvText) : tvText[i] < tvNext
    /\ tvHeight \in TvHeights /\ tvDock \in TvDocks
    /\ tvView \in TvView /\ Grows(tvView.lines)
    /\ tvSel \in TvSelection
    /\ tvPending \in BOOLEAN /\ tvScrolled \in BOOLEAN /\ tvShifted \in BOOLEAN /\ tvResized \in BOOLEAN

TvInv == TvTypes /\ TvTypeOK /\ RowsKept /\ TextKept /\ FrameShown /\ Rendered /\ Anchored /\ AutoScrollSelects

-----------------------------------------------------------------------------
LEMMA LessIs ==
    /\ \A a, b \in Int : TvMax(a, b) \in {a, b} /\ TvMax(a, b) >= a /\ TvMax(a, b) >= b
    /\ \A a, b \in Int : TvMin(a, b) \in {a, b} /\ TvMin(a, b) <= a /\ TvMin(a, b) <= b
    /\ \A a \in Int, b \in Nat : TvClamp(a, b) \in 0 .. b
    /\ \A a \in Nat, b \in Int : TvClamp(a, b) \in Nat /\ (a <= b => TvClamp(a, b) = a)
BY DEF TvMax, TvMin, TvClamp

LEMMA TvNats == TvHeights \subseteq Nat /\ TvDocks \subseteq Nat
BY TvAssumption

LEMMA SpanIs ==
    ASSUME NEW s \in TvSelection
    PROVE  TvSpan(s) \subseteq Nat /\ (~TvIsSelection(s) => TvSpan(s) = {}) /\ ~TvIsSelection(TvNone)
<1>1. ~TvIsSelection(TvNone)
  BY DEF TvIsSelection, TvNone
<1>2. ~TvIsSelection(s) => TvSpan(s) = {}
  BY DEF TvSpan
<1>3. ASSUME TvIsSelection(s) PROVE TvSpan(s) \subseteq Nat
  <2>1. s.anchor \in Nat /\ s.head \in Nat
    BY <1>1, <1>3 DEF TvSelection
  <2>2. TvMin(s.anchor, s.head) \in Nat
    BY <2>1 DEF TvMin
  <2>3. TvMin(s.anchor, s.head) .. TvMax(s.anchor, s.head) \subseteq Nat
    BY <2>2
  <2> QED BY <1>3, <2>3 DEF TvSpan
<1> QED BY <1>1, <1>2, <1>3

LEMMA FrameIs ==
    ASSUME TvTypes, NEW view \in TvView
    PROVE  /\ TvFrame(view) \in Seq(TvRow) /\ Len(TvFrame(view)) = tvHeight
           /\ \A row \in 1 .. tvHeight :
                 TvFrame(view)[row] =
                     IF row > view.window THEN TvDockRow
                     ELSE IF view.top + row > Len(view.lines) THEN TvBlank
                     ELSE [text |-> view.lines[view.top + row], marked |-> TvMarkedAt(view, row)]
<1>1. tvHeight \in Nat
  BY TvNats DEF TvTypes
<1>2. ASSUME NEW row \in 1 .. tvHeight
      PROVE  (IF row > view.window THEN TvDockRow
              ELSE IF view.top + row > Len(view.lines) THEN TvBlank
              ELSE [text |-> view.lines[view.top + row], marked |-> TvMarkedAt(view, row)]) \in TvRow
  <2>1. view.window \in Nat /\ view.top \in Nat /\ view.lines \in Seq(Nat \ {0})
    BY DEF TvView
  <2>2. TvDockRow \in TvRow /\ TvBlank \in TvRow
    BY DEF TvDockRow, TvBlank, TvRow
  <2>3. CASE ~(view.top + row > Len(view.lines))
    <3>1. view.top + row \in 1 .. Len(view.lines)
      BY <2>1, <2>3, <1>1, LenProperties
    <3>2. view.lines[view.top + row] \in Nat
      BY <2>1, <3>1, ElementOfSeq
    <3>3. TvMarkedAt(view, row) \in BOOLEAN
      BY DEF TvMarkedAt
    <3> QED BY <3>2, <3>3, <2>2 DEF TvRow
  <2> QED BY <2>2, <2>3
<1>3. TvFrame(view) \in [1 .. tvHeight -> TvRow]
  BY <1>2 DEF TvFrame
<1>4. TvFrame(view) \in Seq(TvRow)
  BY <1>1, <1>3, SeqDef
<1>5. Len(TvFrame(view)) = tvHeight
  BY <1>1, <1>3, <1>4, LenProperties
<1> QED BY <1>4, <1>5 DEF TvFrame

(* What a render makes of the frame before. *)
LEMMA PaintedIs ==
    ASSUME TvTypes, RowsKept, NEW frame \in Seq(TvRow), Len(frame) = tvHeight
    PROVE  /\ TvPainted(frame) \in [1 .. tvHeight -> TvRow]
           /\ \A row \in 1 .. tvHeight :
                 \/ TvPainted(frame)[row] = frame[row]
                 \/ tvResized /\ Len(tvPrev) = tvHeight /\ TvPainted(frame)[row] = TvJunk
<1>1. \A row \in 1 .. tvHeight : frame[row] \in TvRow /\ tvScreen[row] \in TvRow
  BY ElementOfSeq DEF RowsKept
<1> QED BY <1>1 DEF TvPainted, RowsKept

(* A render shows the transcript as it is. *)
LEMMA ComposedIs ==
    ASSUME TvInv
    PROVE  /\ TvComposed \in TvView /\ TvComposed.lines = tvText /\ TvComposed.window <= tvHeight
           /\ TvComposed.top <= TvComposed.maxTop
           /\ TvComposed.maxTop = TvMax(0, Len(tvText) - TvComposed.window)
           /\ tvView.following => TvComposed.top = TvComposed.maxTop
           /\ ~tvView.following => TvComposed.top = TvClamp(tvView.top, TvComposed.maxTop)
<1>1. tvHeight \in Nat /\ tvDock \in Nat /\ tvText \in Seq(Nat \ {0}) /\ Len(tvText) \in Nat
  BY TvNats, LenProperties DEF TvInv, TvTypes, Grows
<1>2. tvView.following \in BOOLEAN /\ tvView.top \in Nat
  BY DEF TvInv, TvTypes, TvView
<1>3. TvDockHeight \in 0 .. tvHeight
  BY <1>1 DEF TvDockHeight, TvMin, TvMax, TvMinTranscript
<1>4. tvHeight - TvDockHeight \in 0 .. tvHeight
  BY <1>1, <1>3
<1> DEFINE maxTop == TvMax(0, Len(tvText) - (tvHeight - TvDockHeight))
<1>5. maxTop \in Nat
  BY <1>1, <1>4 DEF TvMax
<1>6. TvTopAt(maxTop) \in 0 .. maxTop
  <2> HIDE DEF maxTop
  <2>1. maxTop \in 0 .. maxTop /\ TvClamp(tvView.top, maxTop) \in 0 .. maxTop
    BY <1>5, <1>2, LessIs
  <2> QED BY <2>1, <1>2 DEF TvTopAt
<1> QED BY <1>1, <1>2, <1>4, <1>5, <1>6 DEF TvComposed, TvView, TvTopAt

LEMMA RenderKeeps == ASSUME TvInv, TvRender PROVE TvInv'
<1> DEFINE view == TvComposed
           frame == TvFrame(view)
<1>1. /\ tvView' = view /\ tvPrev' = frame /\ tvScreen' = TvPainted(tvPrev') /\ tvPending' = FALSE /\ tvScrolled' = FALSE
      /\ tvShifted' = (tvShifted /\ tvSel.on) /\ tvResized' = (tvResized /\ Len(tvPrev) = tvHeight)
      /\ tvText' = tvText /\ tvHeight' = tvHeight /\ tvDock' = tvDock /\ tvNext' = tvNext
      /\ tvSel' = tvSel /\ tvAuto' = tvAuto /\ tvAutoRow' = tvAutoRow
  BY DEF TvRender, tvOutside
<1>2. tvPrev' = frame /\ TvFrame(tvView)' = frame
  BY <1>1 DEF TvFrame, TvMarkedAt
<1>3. /\ view \in TvView /\ view.lines = tvText /\ view.window <= tvHeight /\ view.top <= view.maxTop
      /\ view.maxTop = TvMax(0, Len(tvText) - view.window)
  BY ComposedIs
<1>4. frame \in Seq(TvRow) /\ Len(frame) = tvHeight
  BY <1>3, FrameIs DEF TvInv
<1>5. TvTypes'
  BY <1>1, <1>3 DEF TvInv, TvTypes
<1>6. TvTypeOK'
  BY <1>1, <1>3 DEF TvInv, TvTypeOK, TvView
<1>7. RowsKept'
  <2>1. tvScreen' = TvPainted(frame)
    BY <1>1, <1>2
  <2>2. /\ TvPainted(frame) \in [1 .. tvHeight -> TvRow]
        /\ \A row \in 1 .. tvHeight : TvPainted(frame)[row] = frame[row] \/ (tvResized' /\ TvPainted(frame)[row] = TvJunk)
    BY <1>1, <1>4, PaintedIs DEF TvInv
  <2> QED BY <1>1, <1>2, <1>4, <2>1, <2>2 DEF RowsKept
<1>8. FrameShown'
  <2>1. ASSUME NEW row \in 1 .. Len(frame), frame[row].text > 0
        PROVE  row <= view.window /\ view.top + row <= Len(view.lines) /\ frame[row].text = view.lines[view.top + row]
    <3>1. row \in 1 .. tvHeight /\ TvDockRow.text = -1 /\ TvBlank.text = 0 /\ ~(-1 > 0) /\ ~(0 > 0)
      BY <1>4 DEF TvDockRow, TvBlank
    <3>2. row <= view.window /\ view.top + row <= Len(view.lines)
      <4>1. view.window \in Nat /\ view.top \in Nat /\ Len(view.lines) \in Nat /\ tvHeight \in Nat
        BY <1>3, LenProperties, TvNats DEF TvView, TvInv, TvTypes
      <4>2. frame[row] # TvDockRow /\ frame[row] # TvBlank
        BY <2>1, <3>1
      <4>3. ~(row > view.window) /\ ~(view.top + row > Len(view.lines))
        BY <1>3, <3>1, <4>2, FrameIs DEF TvInv
      <4> QED BY <4>1, <4>3, <3>1
    <3>3. frame[row] = [text |-> view.lines[view.top + row], marked |-> TvMarkedAt(view, row)]
      <4>1. view.window \in Nat /\ view.top \in Nat /\ Len(view.lines) \in Nat /\ tvHeight \in Nat
        BY <1>3, LenProperties, TvNats DEF TvView, TvInv, TvTypes
      <4>2. ~(row > view.window) /\ ~(view.top + row > Len(view.lines))
        BY <3>1, <3>2, <4>1
      <4> QED BY <1>3, <3>1, <4>2, FrameIs DEF TvInv
    <3> QED BY <3>2, <3>3
  <2> QED BY <1>1, <1>2, <1>3, <2>1 DEF FrameShown
<1>8a. TextKept'
  <2>1. Len(tvText) \in Nat
    BY LenProperties DEF TvInv, TvTypes, Grows
  <2> QED BY <1>1, <1>3, <2>1 DEF TextKept
<1>9. Rendered'
  BY <1>1, <1>2, <1>3, <1>4 DEF Rendered
<1>10. Anchored'
  <2> SUFFICES ASSUME tvSel.on, ~tvShifted, tvSel.line > 0
               PROVE  tvSel.anchor + 1 <= Len(tvText) /\ tvText[tvSel.anchor + 1] = tvSel.line
    BY <1>1, <1>3 DEF Anchored
  <2>1. tvSel.anchor + 1 <= Len(tvView.lines) /\ tvView.lines[tvSel.anchor + 1] = tvSel.line
    BY DEF TvInv, Anchored
  <2>2. Len(tvView.lines) <= Len(tvText) /\ \A i \in 1 .. Len(tvView.lines) : tvView.lines[i] = tvText[i]
    BY DEF TvInv, TextKept
  <2>3. tvSel.anchor \in Nat /\ Len(tvView.lines) \in Nat /\ Len(tvText) \in Nat
    <3>1. tvSel # TvNone
      BY DEF TvNone
    <3> QED BY <3>1, LenProperties DEF TvInv, TvTypes, TvSelection, TvView, Grows
  <2> QED BY <2>1, <2>2, <2>3
<1>11. AutoScrollSelects'
  BY <1>1 DEF TvInv, AutoScrollSelects, TvIsSelection
<1> QED BY <1>5, <1>6, <1>7, <1>8, <1>8a, <1>9, <1>10, <1>11 DEF TvInv

-----------------------------------------------------------------------------
LEMMA AppendKeeps == ASSUME TvInv, TvAppend PROVE TvInv'
<1>1. /\ tvText' = Append(tvText, tvNext) /\ tvNext' = tvNext + 1 /\ tvPending' = TRUE
      /\ UNCHANGED <<tvHeight, tvDock, tvView, tvSel, tvAuto, tvAutoRow, tvPrev, tvScreen, tvResized, tvScrolled, tvShifted>>
  BY DEF TvAppend, tvPaint, tvCauses
<1>2. tvText \in Seq(Nat \ {0}) /\ tvNext \in Nat \ {0} /\ Len(tvText) \in Nat /\ \A i \in 1 .. Len(tvText) : tvText[i] < tvNext
  BY LenProperties DEF TvInv, TvTypes, Grows
<1>3. /\ tvText' \in Seq(Nat \ {0}) /\ Len(tvText') = Len(tvText) + 1
      /\ \A i \in 1 .. Len(tvText) : tvText'[i] = tvText[i]
      /\ tvText'[Len(tvText) + 1] = tvNext
  BY <1>1, <1>2, AppendProperties
<1>4. \A i \in 1 .. Len(tvText) : tvText[i] \in Nat
  BY <1>2, ElementOfSeq
<1>5. TvTypes'
  <2>1. ASSUME NEW i \in 1 .. Len(tvText'), NEW j \in 1 .. Len(tvText'), i < j PROVE tvText'[i] < tvText'[j]
    <3>1. CASE j \in 1 .. Len(tvText)
      <4>1. i \in 1 .. Len(tvText)
        BY <1>2, <2>1, <3>1
      <4> QED BY <2>1, <3>1, <4>1, <1>3 DEF TvInv, TvTypes, Grows
    <3>2. CASE j \notin 1 .. Len(tvText)
      <4>0. PICK n \in Nat : n = Len(tvText) /\ Len(tvText') = n + 1
        BY <1>2, <1>3
      <4>1. i \in 1 .. Len(tvText) /\ j = Len(tvText) + 1
        <5>1. i \in 1 .. n + 1 /\ j \in 1 .. n + 1 /\ i < j /\ j \notin 1 .. n
          BY <2>1, <3>2, <4>0
        <5>2. i \in 1 .. n /\ j = n + 1
          BY <5>1
        <5> QED BY <4>0, <5>2
      <4>2. tvText'[i] = tvText[i] /\ tvText'[j] = tvNext
        BY <1>3, <4>1
      <4>3. tvText[i] < tvNext
        BY <1>2, <4>1
      <4> QED BY <4>2, <4>3
    <3> QED BY <3>1, <3>2
  <2>2. ASSUME NEW i \in 1 .. Len(tvText') PROVE tvText'[i] < tvNext'
    <3>1. CASE i \in 1 .. Len(tvText)
      <4>1. tvText'[i] = tvText[i] /\ tvText[i] < tvNext /\ tvText[i] \in Nat
        BY <3>1, <1>2, <1>3, <1>4
      <4> QED BY <4>1, <1>1, <1>2
    <3>2. CASE i = Len(tvText) + 1
      BY <3>2, <1>1, <1>2, <1>3
    <3> QED BY <3>1, <3>2, <1>2, <1>3
  <2> QED BY <1>1, <1>2, <1>3, <2>1, <2>2 DEF TvInv, TvTypes, Grows
<1>6. TextKept'
  <2> SUFFICES ASSUME ~tvShifted PROVE TextKept'
    BY <1>1 DEF TextKept
  <2>1. Len(tvView.lines) \in Nat
    BY LenProperties DEF TvInv, TvTypes, Grows
  <2>2. tvPending' /\ ~tvShifted'
    BY <1>1
  <2>3. CASE ~tvPending
    BY <1>1, <1>2, <1>3, <2>1, <2>3 DEF TvInv, TextKept
  <2>4. CASE tvPending
    BY <1>1, <1>2, <1>3, <2>1, <2>4 DEF TvInv, TextKept
  <2> QED BY <2>3, <2>4 DEF TvInv, TvTypes
<1> QED BY <1>1, <1>5, <1>6 DEF TvInv, TvTypeOK, FrameShown, RowsKept, Rendered, Anchored, AutoScrollSelects, TvIsSelection

LEMMA TvRemoveKeeps == ASSUME TvInv, TvRemove PROVE TvInv'
<1>1. /\ tvPending' = TRUE /\ tvShifted' = TRUE
      /\ UNCHANGED <<tvHeight, tvDock, tvNext, tvView, tvSel, tvAuto, tvAutoRow, tvPrev, tvScreen, tvResized, tvScrolled>>
  BY DEF TvRemove, tvPaint
<1>2. tvText \in Seq(Nat \ {0}) /\ Len(tvText) \in Nat
  BY LenProperties DEF TvInv, TvTypes, Grows
<1>3. PICK k \in 1 .. Len(tvText) : tvText' = RemoveAt(tvText, k)
  BY <1>2, LenProperties DEF TvRemove
<1> DEFINE at(i) == IF i < k THEN i ELSE i + 1
<1>4. /\ tvText' \in Seq(Nat \ {0}) /\ Len(tvText') = Len(tvText) - 1
      /\ \A i \in 1 .. Len(tvText) - 1 : tvText'[i] = tvText[at(i)]
  BY <1>2, <1>3, AllButOne
<1>5. \A i, j \in 1 .. Len(tvText) - 1 : at(i) \in 1 .. Len(tvText) /\ (i < j => at(i) < at(j))
  BY <1>2
<1> HIDE DEF at
<1>6. TvTypes'
  BY <1>1, <1>4, <1>5 DEF TvInv, TvTypes, Grows
<1>7. TextKept' /\ Rendered' /\ Anchored'
  BY <1>1 DEF TextKept, Rendered, Anchored
<1>8. RowsKept' /\ FrameShown' /\ TvTypeOK' /\ AutoScrollSelects'
  BY <1>1 DEF TvInv, RowsKept, FrameShown, TvTypeOK, AutoScrollSelects, TvIsSelection
<1> QED BY <1>6, <1>7, <1>8, Zenon DEF TvInv

LEMMA LayoutKeeps == ASSUME TvInv, NEW height \in TvHeights, NEW dock \in TvDocks, TvLayout(height, dock) PROVE TvInv'
<1>1. /\ tvHeight' = height /\ tvDock' = dock
      /\ tvScreen' = IF height = tvHeight THEN tvScreen ELSE [row \in 1 .. height |-> TvJunk]
      /\ tvResized' = (height = Len(tvPrev) /\ (height # tvHeight \/ tvResized))
      /\ tvPending' = TRUE
      /\ UNCHANGED <<tvText, tvNext, tvView, tvSel, tvAuto, tvAutoRow, tvPrev, tvScrolled, tvShifted>>
  BY DEF TvLayout, tvCauses
<1>2. TvJunk \in TvRow
  BY DEF TvJunk, TvRow
<1>3. RowsKept'
  <2>1. CASE height = tvHeight
    BY <1>1, <2>1 DEF TvInv, RowsKept
  <2>2. CASE height # tvHeight
    <3>1. tvScreen' = [row \in 1 .. tvHeight' |-> TvJunk]
      BY <1>1, <2>2
    <3> QED BY <1>1, <1>2, <2>2, <3>1 DEF TvInv, RowsKept
  <2> QED BY <2>1, <2>2
<1>4. TvTypes'
  BY <1>1 DEF TvInv, TvTypes
<1>5. FrameShown' /\ TextKept'
  BY <1>1 DEF TvInv, FrameShown, TextKept
<1> QED BY <1>1, <1>3, <1>4, <1>5 DEF TvInv, TvTypeOK, Rendered, Anchored, AutoScrollSelects, TvIsSelection

LEMMA ResetKeeps == ASSUME TvInv, TvReset PROVE TvInv'
<1>1. /\ tvPrev' = <<>> /\ tvScreen' = [row \in 1 .. tvHeight |-> TvJunk] /\ tvResized' = FALSE /\ tvPending' = TRUE
      /\ UNCHANGED <<tvText, tvHeight, tvDock, tvNext, tvView, tvSel, tvAuto, tvAutoRow, tvScrolled, tvShifted>>
  BY DEF TvReset, tvOutside, tvCauses
<1>2. TvJunk \in TvRow /\ <<>> \in Seq(TvRow) /\ Len(<<>>) = 0
  BY EmptySeq DEF TvJunk, TvRow
<1>3. RowsKept'
  BY <1>1, <1>2 DEF RowsKept
<1>4. FrameShown' /\ TextKept'
  BY <1>1, <1>2 DEF TvInv, FrameShown, TextKept
<1> QED BY <1>1, <1>3, <1>4 DEF TvInv, TvTypes, TvTypeOK, Rendered, Anchored, AutoScrollSelects, TvIsSelection

-----------------------------------------------------------------------------
LEMMA ScrollToKeeps ==
    ASSUME TvInv, NEW view \in TvView, TvScrollTo(view),
           view.lines = tvView.lines, view.window = tvView.window, view.maxTop = tvView.maxTop, view.top <= view.maxTop
    PROVE  TvInv'
<1>1. /\ tvView' = view /\ tvScrolled' = (tvScrolled \/ view.top # tvView.top)
      /\ tvAuto' = 0 /\ tvPending' = TRUE
      /\ UNCHANGED <<tvText, tvHeight, tvDock, tvNext, tvSel, tvAutoRow, tvPrev, tvScreen, tvResized, tvShifted>>
  BY DEF TvScrollTo, tvOutside, tvPaint
<1>2. TvTypes'
  BY <1>1 DEF TvInv, TvTypes
<1>3. FrameShown' /\ TextKept'
  BY <1>1 DEF TvInv, FrameShown, TextKept
<1>4. TvTypeOK'
  BY <1>1 DEF TvInv, TvTypeOK, TvView
<1>5. Anchored'
  BY <1>1 DEF TvInv, Anchored
<1> QED BY <1>1, <1>2, <1>3, <1>4, <1>5 DEF TvInv, RowsKept, Rendered, AutoScrollSelects

LEMMA ScrolledIs ==
    ASSUME TvInv, NEW delta \in Int
    PROVE  LET view == TvScrolled(delta)
           IN  /\ view \in TvView /\ view.lines = tvView.lines /\ view.window = tvView.window
               /\ view.maxTop = tvView.maxTop /\ view.top <= view.maxTop
<1>1. tvView \in TvView
  BY DEF TvInv, TvTypes
<1> DEFINE top == TvClamp((IF tvView.following THEN tvView.maxTop ELSE tvView.top) + delta, tvView.maxTop)
<1>2. top \in 0 .. tvView.maxTop
  <2>1. (IF tvView.following THEN tvView.maxTop ELSE tvView.top) + delta \in Int /\ tvView.maxTop \in Nat
    BY <1>1 DEF TvView
  <2> QED BY <2>1, LessIs
<1>3. TvFollows(top) \in BOOLEAN
  BY DEF TvFollows
<1> HIDE DEF top
<1>4. TvScrolled(delta) = [tvView EXCEPT !.top = top, !.following = TvFollows(top)]
  BY DEF TvScrolled, top
<1>5. top \in Nat /\ top <= tvView.maxTop
  BY <1>1, <1>2 DEF TvView
<1> DEFINE view == TvScrolled(delta)
<1>6. view = [tvView EXCEPT !.top = top, !.following = TvFollows(top)]
  BY <1>4
<1> HIDE DEF view
<1>7. /\ view \in TvView /\ view.lines = tvView.lines /\ view.window = tvView.window
      /\ view.maxTop = tvView.maxTop /\ view.top = top
  BY <1>1, <1>3, <1>5, <1>6 DEF TvView
<1> QED BY <1>5, <1>7 DEF view

LEMMA ScrollKeeps == ASSUME TvInv, TvScroll PROVE TvInv'
<1>1. tvView \in TvView
  BY DEF TvInv, TvTypes
<1>2. CASE \E delta \in {-TvPage, -1, 1, TvPage} : TvScrollTo(TvScrolled(delta))
  <2>1. TvPage \in Int
    BY <1>1 DEF TvPage, TvView, TvMax
  <2>2. PICK delta \in {-TvPage, -1, 1, TvPage} : TvScrollTo(TvScrolled(delta))
    BY <1>2
  <2>3. delta \in Int
    BY <2>1
  <2> QED BY <2>2, <2>3, ScrolledIs, ScrollToKeeps
<1>3. CASE TvScrollTo([tvView EXCEPT !.top = 0, !.following = (tvView.maxTop = 0)])
  <2> DEFINE view == [tvView EXCEPT !.top = 0, !.following = (tvView.maxTop = 0)]
  <2>1. /\ view \in TvView /\ view.lines = tvView.lines /\ view.window = tvView.window
        /\ view.maxTop = tvView.maxTop /\ view.top <= view.maxTop
    <3>1. 0 \in Nat /\ (tvView.maxTop = 0) \in BOOLEAN /\ tvView.maxTop \in Nat
      BY <1>1 DEF TvView
    <3>2. view = [tvView EXCEPT !.top = 0, !.following = (tvView.maxTop = 0)]
      OBVIOUS
    <3> HIDE DEF view
    <3>3. view \in TvView /\ view.lines = tvView.lines /\ view.window = tvView.window /\ view.maxTop = tvView.maxTop /\ view.top = 0
      BY <1>1, <3>1, <3>2 DEF TvView
    <3> QED BY <3>1, <3>3
  <2> HIDE DEF view
  <2> QED BY <1>3, <2>1, ScrollToKeeps DEF view
<1>4. CASE TvScrollTo([tvView EXCEPT !.top = tvView.maxTop, !.following = TRUE])
  <2> DEFINE view == [tvView EXCEPT !.top = tvView.maxTop, !.following = TRUE]
  <2>1. /\ view \in TvView /\ view.lines = tvView.lines /\ view.window = tvView.window
        /\ view.maxTop = tvView.maxTop /\ view.top <= view.maxTop
    <3>1. tvView.maxTop \in Nat
      BY <1>1 DEF TvView
    <3>2. view = [tvView EXCEPT !.top = tvView.maxTop, !.following = TRUE]
      OBVIOUS
    <3> HIDE DEF view
    <3>3. view \in TvView /\ view.lines = tvView.lines /\ view.window = tvView.window /\ view.maxTop = tvView.maxTop /\ view.top = tvView.maxTop
      BY <1>1, <3>1, <3>2 DEF TvView
    <3> QED BY <3>1, <3>3
  <2> HIDE DEF view
  <2> QED BY <1>4, <2>1, ScrollToKeeps DEF view
<1> QED BY <1>2, <1>3, <1>4 DEF TvScroll

(* A press begins a selection at the line the frame shows there. *)
LEMMA PressKeeps == ASSUME TvInv, NEW row \in Nat, TvPress(row) PROVE TvInv'
<1>1. /\ row < tvHeight /\ tvView.window > 0 /\ tvShifted' = (tvPending /\ tvShifted) /\ tvAuto' = 0 /\ tvPending' = TRUE
      /\ tvSel' = IF row < tvView.window
                  THEN [on |-> TRUE, anchor |-> TvLineAt(tvView, row), head |-> TvLineAt(tvView, row), moved |-> FALSE,
                        line |-> TvUnder(row)]
                  ELSE TvNone
      /\ UNCHANGED <<tvText, tvHeight, tvDock, tvNext, tvView, tvAutoRow, tvPrev, tvScreen, tvResized, tvScrolled>>
  BY DEF TvPress, tvOutside, tvPaint
<1>2. tvView \in TvView /\ tvHeight \in Nat /\ tvView.window \in Nat /\ tvView.top \in Nat
  BY TvNats DEF TvInv, TvTypes, TvView
<1>3. Len(tvScreen) = tvHeight /\ tvScreen[row + 1] \in TvRow
  <2>1. tvScreen \in [1 .. tvHeight -> TvRow] /\ row + 1 \in 1 .. tvHeight
    BY <1>1, <1>2 DEF TvInv, RowsKept
  <2>2. tvScreen \in Seq(TvRow)
    BY <1>2, <2>1, SeqDef
  <2> QED BY <1>2, <2>1, <2>2, LenProperties
<1>4. row < tvView.window => TvLineAt(tvView, row) = tvView.top + row
  <2> SUFFICES ASSUME row < tvView.window PROVE TvClamp(row, tvView.window - 1) = row
    BY DEF TvLineAt
  <2>1. row <= tvView.window - 1 /\ tvView.window - 1 \in Int
    BY <1>2
  <2> QED BY <2>1, LessIs
<1>5. tvSel' \in TvSelection
  <2>1. TvUnder(row) \in Int
    <3>1. tvScreen[row + 1].text \in Int
      BY <1>3 DEF TvRow
    <3>2. tvView.top + row < Len(tvView.lines) => tvView.lines[tvView.top + row + 1] \in Nat
      <4>1. tvView.lines \in Seq(Nat \ {0}) /\ Len(tvView.lines) \in Nat
        BY <1>2, LenProperties DEF TvView
      <4>2. tvView.top + row < Len(tvView.lines) => tvView.top + row + 1 \in 1 .. Len(tvView.lines)
        BY <1>2, <4>1
      <4> QED BY <4>1, <4>2, ElementOfSeq
    <3> QED BY <3>1, <3>2 DEF TvUnder
  <2>2. CASE row < tvView.window
    <3>1. TvLineAt(tvView, row) \in Nat
      BY <1>2, <1>4, <2>2
    <3>2. tvSel' = [on |-> TRUE, anchor |-> TvLineAt(tvView, row), head |-> TvLineAt(tvView, row), moved |-> FALSE,
                    line |-> TvUnder(row)]
      BY <1>1, <2>2
    <3> QED BY <2>1, <3>1, <3>2 DEF TvSelection
  <2>3. CASE ~(row < tvView.window)
    BY <1>1, <2>3 DEF TvSelection
  <2> QED BY <2>2, <2>3
<1>6. TvTypes'
  BY <1>1, <1>5 DEF TvInv, TvTypes
<1>7. FrameShown' /\ TextKept'
  BY <1>1 DEF TvInv, FrameShown, TextKept
<1>8. Anchored'
  <2> SUFFICES ASSUME tvSel'.on, ~tvShifted', tvSel'.line > 0
               PROVE  tvSel'.anchor + 1 <= Len(tvView.lines) /\ tvView.lines[tvSel'.anchor + 1] = tvSel'.line
    BY <1>1 DEF Anchored
  <2>1. row < tvView.window
    BY <1>1 DEF TvNone
  <2>2. tvSel'.anchor = tvView.top + row /\ tvSel'.line = TvUnder(row)
    BY <1>1, <1>4, <2>1
  <2>3. CASE tvScrolled
    <3>1. tvView.top + row < Len(tvView.lines) /\ tvSel'.line = tvView.lines[tvView.top + row + 1]
      BY <2>2, <2>3 DEF TvUnder
    <3>2. Len(tvView.lines) \in Nat
      BY <1>2, LenProperties DEF TvView
    <3> QED BY <1>2, <2>2, <3>1, <3>2
  <2>4. CASE ~tvScrolled
    <3>1. tvSel'.line = tvScreen[row + 1].text
      BY <2>2, <2>4 DEF TvUnder
    <3>2. tvScreen[row + 1] # TvJunk
      BY <3>1 DEF TvJunk
    <3>3. row + 1 \in 1 .. tvHeight
      BY <1>1, <1>2
    <3>4. Len(tvPrev) = tvHeight /\ tvScreen[row + 1] = tvPrev[row + 1]
      BY <3>2, <3>3 DEF TvInv, RowsKept
    <3>5. tvPrev[row + 1].text > 0
      BY <3>1, <3>4
    <3>6. /\ tvView.top + (row + 1) <= Len(tvView.lines)
          /\ tvPrev[row + 1].text = tvView.lines[tvView.top + (row + 1)]
      BY <2>4, <3>3, <3>4, <3>5 DEF TvInv, FrameShown
    <3>7. tvView.top + row + 1 = tvView.top + (row + 1)
      BY <1>2
    <3> QED BY <2>2, <3>1, <3>4, <3>6, <3>7
  <2> QED BY <2>3, <2>4
<1> QED BY <1>1, <1>6, <1>7, <1>8 DEF TvInv, TvTypeOK, RowsKept, Rendered, AutoScrollSelects

LEMMA ExtendedIs ==
    ASSUME NEW sel \in TvSelection, sel.on, NEW view \in TvView, NEW row \in Int
    PROVE  LET s == TvExtended(sel, view, row)
           IN  s \in TvSelection /\ TvIsSelection(s) /\ s.on = sel.on /\ s.anchor = sel.anchor /\ s.line = sel.line
<1>1. sel \in [on : {TRUE}, anchor : Nat, head : Nat, moved : BOOLEAN, line : Int]
  <2>1. sel # TvNone
    BY DEF TvNone
  <2> QED BY <2>1 DEF TvSelection
<1>2. TvLineAt(view, row) \in Nat
  <2>1. view.top \in Nat /\ view.window \in Nat
    BY DEF TvView
  <2>2. TvClamp(row, view.window - 1) \in Nat
    BY <2>1 DEF TvClamp, TvMax, TvMin
  <2> QED BY <2>1, <2>2 DEF TvLineAt
<1> HIDE DEF TvSelection
<1>3. TvExtended(sel, view, row) \in [on : {TRUE}, anchor : Nat, head : Nat, moved : BOOLEAN, line : Int]
  BY <1>1, <1>2 DEF TvExtended
<1> QED BY <1>1, <1>3 DEF TvExtended, TvSelection, TvIsSelection

LEMMA DragKeeps == ASSUME TvInv, NEW row \in Nat, TvDrag(row) PROVE TvInv'
<1>1. /\ tvSel' = IF tvSel.on THEN TvExtended(tvSel, tvView, row) ELSE tvSel
      /\ tvAuto' = TvDirection(tvSel', tvView, row) /\ tvPending' = TRUE
      /\ UNCHANGED <<tvText, tvHeight, tvDock, tvNext, tvView, tvPrev, tvScreen, tvResized, tvScrolled, tvShifted>>
  BY DEF TvDrag, tvOutside, tvPaint, tvCauses
<1>2. tvView \in TvView /\ tvSel \in TvSelection
  BY DEF TvInv, TvTypes
<1>3. tvSel' \in TvSelection /\ tvSel'.on = tvSel.on /\ (tvSel.on => tvSel'.anchor = tvSel.anchor /\ tvSel'.line = tvSel.line)
  BY <1>1, <1>2, ExtendedIs
<1>4. AutoScrollSelects'
  <2>1. CASE tvSel.on
    <3>1. TvIsSelection(tvSel')
      BY <1>1, <1>2, <2>1, ExtendedIs
    <3>2. TvIsSelection(tvSel)' = TvIsSelection(tvSel')
      BY DEF TvIsSelection
    <3> QED BY <3>1, <3>2 DEF AutoScrollSelects
  <2>2. CASE ~tvSel.on
    BY <1>1, <2>2 DEF AutoScrollSelects, TvDirection
  <2> QED BY <2>1, <2>2
<1>5. TvTypes'
  BY <1>1, <1>3 DEF TvInv, TvTypes
<1>6. TvTypeOK'
  BY <1>1 DEF TvInv, TvTypeOK, TvDirection
<1>7. Anchored'
  BY <1>1, <1>3 DEF TvInv, Anchored
<1>8. FrameShown' /\ TextKept'
  BY <1>1 DEF TvInv, FrameShown, TextKept
<1> QED BY <1>1, <1>4, <1>5, <1>6, <1>7, <1>8 DEF TvInv, RowsKept, Rendered

LEMMA ReleaseKeeps == ASSUME TvInv, TvRelease PROVE TvInv'
<1>1. /\ tvSel' = TvNone /\ tvAuto' = 0 /\ tvPending' = (tvPending \/ TvIsSelection(tvSel))
      /\ UNCHANGED <<tvText, tvHeight, tvDock, tvNext, tvView, tvAutoRow, tvPrev, tvScreen, tvResized, tvScrolled, tvShifted>>
  BY DEF TvRelease, TvAutoAfter, tvOutside, tvPaint, tvCauses
<1>2. TvTypes'
  BY <1>1 DEF TvInv, TvTypes, TvSelection, TvIsSelection
<1>3. Rendered'
  <2> SUFFICES ASSUME ~tvPending, ~TvIsSelection(tvSel) PROVE TvFrame(tvView)' = TvFrame(tvView)
    BY <1>1 DEF TvInv, Rendered
  <2>1. TvSpan(tvSel) = {} /\ TvSpan(tvSel)' = {}
    BY <1>1, SpanIs DEF TvInv, TvTypes, TvSpan, TvIsSelection, TvNone
  <2>2. \A row : TvMarkedAt(tvView, row) = FALSE /\ TvMarkedAt(tvView, row)' = FALSE
    BY <1>1, <2>1 DEF TvMarkedAt
  <2> QED BY <1>1, <2>2 DEF TvFrame
<1>4. FrameShown' /\ TextKept'
  BY <1>1 DEF TvInv, FrameShown, TextKept, Rendered
<1>5. Anchored' /\ AutoScrollSelects'
  BY <1>1 DEF Anchored, AutoScrollSelects, TvNone
<1> QED BY <1>1, <1>2, <1>3, <1>4, <1>5 DEF TvInv, TvTypeOK, RowsKept

LEMMA TickKeeps == ASSUME TvInv, TvTick PROVE TvInv'
<1> DEFINE next == TvScrolled(tvAuto)
           goesOn == TvDirection(tvSel, tvView, tvAutoRow) = tvAuto /\ next.top # tvView.top
<1>1. tvAuto \in {-1, 1} /\ tvAuto \in Int
  BY DEF TvTick, TvInv, TvTypeOK
<1>2. /\ next \in TvView /\ next.lines = tvView.lines /\ next.window = tvView.window
      /\ next.maxTop = tvView.maxTop /\ next.top <= next.maxTop
  BY <1>1, ScrolledIs
<1>3. tvSel \in TvSelection /\ tvSel.on
  BY <1>1 DEF TvInv, TvTypes, AutoScrollSelects, TvIsSelection
<1> HIDE DEF next
<1>4. CASE goesOn
  <2>1. /\ tvView' = next /\ tvSel' = TvExtended(tvSel, next, TvEdge(next)) /\ tvPending' = TRUE /\ tvScrolled' = TRUE
        /\ UNCHANGED <<tvAuto, tvText, tvHeight, tvDock, tvNext, tvPrev, tvScreen, tvResized, tvShifted>>
    BY <1>4 DEF TvTick, tvOutside, tvPaint, next
  <2>2. TvExtended(tvSel, next, TvEdge(next)) \in TvSelection /\ TvIsSelection(TvExtended(tvSel, next, TvEdge(next)))
    <3>1. TvEdge(next) \in Int
      BY <1>2 DEF TvEdge, TvView
    <3> QED BY <1>2, <1>3, <3>1, ExtendedIs
  <2>3. TvTypes'
    BY <1>2, <2>1, <2>2 DEF TvInv, TvTypes
  <2>4. AutoScrollSelects'
    BY <2>1, <2>2 DEF AutoScrollSelects, TvIsSelection
  <2>5. TvTypeOK'
    BY <1>2, <2>1 DEF TvInv, TvTypeOK, TvView
  <2>6. Anchored'
    <3>1. tvSel'.on = tvSel.on /\ tvSel'.anchor = tvSel.anchor /\ tvSel'.line = tvSel.line
      <4>1. TvEdge(next) \in Int
        BY <1>2 DEF TvEdge, TvView
      <4> QED BY <1>2, <1>3, <2>1, <4>1, ExtendedIs
    <3> QED BY <1>2, <2>1, <3>1 DEF TvInv, Anchored
  <2>7. TextKept'
    BY <1>2, <2>1 DEF TvInv, TextKept
  <2> QED BY <2>1, <2>3, <2>4, <2>5, <2>6, <2>7 DEF TvInv, RowsKept, FrameShown, Rendered
<1>5. CASE ~goesOn
  <2>1. tvAuto' = 0 /\ UNCHANGED <<tvView, tvSel, tvPending, tvScrolled, tvShifted, tvText, tvHeight, tvDock, tvNext, tvPrev, tvScreen, tvResized>>
    BY <1>5 DEF TvTick, tvOutside, tvPaint, next
  <2> QED BY <2>1 DEF TvInv, TvTypes, TvTypeOK, RowsKept, TextKept, FrameShown, Rendered, Anchored, AutoScrollSelects, TvFrame, TvMarkedAt
<1> QED BY <1>4, <1>5

LEMMA TvStill ==
    ASSUME TvInv, tvAuto' \in {0, tvAuto},
           UNCHANGED <<tvText, tvHeight, tvDock, tvNext, tvView, tvSel, tvPrev, tvScreen, tvResized, tvPending, tvScrolled, tvShifted>>
    PROVE  TvInv'
BY DEF TvInv, TvTypes, TvTypeOK, RowsKept, TextKept, FrameShown, Rendered, Anchored, AutoScrollSelects, TvFrame, TvMarkedAt, TvIsSelection

LEMMA TvNextKeeps == TvInv /\ [TvNext]_tvVars => TvInv'
<1> SUFFICES ASSUME TvInv, [TvNext]_tvVars PROVE TvInv'
  OBVIOUS
<1>1. CASE TvRender \/ TvAppend \/ TvRemove \/ TvReset \/ TvScroll \/ TvRelease \/ TvTick
  <2>1. TvRender \/ TvAppend => TvInv'
    BY RenderKeeps, AppendKeeps, Zenon
  <2>3. TvRemove \/ TvReset => TvInv'
    BY TvRemoveKeeps, ResetKeeps, Zenon
  <2>2. TvScroll \/ TvRelease \/ TvTick => TvInv'
    BY ScrollKeeps, ReleaseKeeps, TickKeeps, Zenon
  <2> QED BY <1>1, <2>1, <2>2, <2>3, Zenon
<1>2. CASE TvOtherKey
  BY <1>2, TvStill DEF TvOtherKey, tvOutside, tvPaint, tvCauses
<1>3. CASE \E height \in TvHeights, dock \in TvDocks : TvLayout(height, dock)
  BY <1>3, LayoutKeeps
<1>4. CASE \E row \in 0 .. 9 : TvPress(row) \/ TvDrag(row)
  <2>1. \A row \in 0 .. 9 : row \in Nat
    OBVIOUS
  <2> QED BY <1>4, <2>1, PressKeeps, DragKeeps
<1>5. CASE UNCHANGED tvVars
  BY <1>5, TvStill DEF tvVars
<1> QED BY <1>1, <1>2, <1>3, <1>4, <1>5 DEF TvNext

LEMMA TvInitIs == TvInit => TvInv
<1> SUFFICES ASSUME TvInit PROVE TvInv
  OBVIOUS
<1>1. PICK n \in 0 .. TvMaxLines : tvText = [i \in 1 .. n |-> i] /\ tvNext = n + 1
  BY DEF TvInit
<1>2. n \in Nat
  BY TvAssumption
<1>3. tvText \in Seq(Nat \ {0}) /\ Len(tvText) = n
  <2>1. tvText \in [1 .. n -> Nat \ {0}]
    BY <1>1, <1>2
  <2>2. tvText \in Seq(Nat \ {0})
    BY <1>2, <2>1, SeqDef
  <2> QED BY <1>2, <2>1, <2>2, LenProperties
<1>4. Grows(tvText) /\ \A i \in 1 .. Len(tvText) : tvText[i] < tvNext
  BY <1>1, <1>2, <1>3 DEF Grows
<1>5. /\ tvHeight \in TvHeights /\ tvDock \in TvDocks /\ tvSel = TvNone /\ tvAuto = 0
      /\ tvView = [top |-> 0, following |-> TRUE, maxTop |-> 0, window |-> 0, lines |-> <<>>]
      /\ tvPrev = <<>> /\ tvScreen = [row \in 1 .. tvHeight |-> TvJunk]
      /\ tvPending = TRUE /\ tvScrolled = FALSE /\ tvShifted = FALSE /\ tvResized = FALSE
  BY DEF TvInit
<1>6. <<>> \in Seq(Nat \ {0}) /\ <<>> \in Seq(TvRow) /\ Len(<<>>) = 0 /\ Grows(<<>>)
  BY EmptySeq DEF Grows
<1>7. tvView \in TvView
  BY <1>5, <1>6 DEF TvView
<1>8. TvTypes
  <2>1. Grows(tvView.lines) /\ tvSel \in TvSelection
    BY <1>5, <1>6 DEF TvSelection
  <2>2. tvNext \in Nat \ {0}
    BY <1>1, <1>2
  <2> QED BY <1>4, <1>5, <1>7, <2>1, <2>2 DEF TvTypes
<1>9. RowsKept
  <2>1. TvJunk \in TvRow
    BY DEF TvJunk, TvRow
  <2> QED BY <1>5, <1>6, <2>1 DEF RowsKept
<1>10. FrameShown /\ TextKept
  BY <1>3, <1>2, <1>5, <1>6 DEF FrameShown, TextKept
<1>11. TvTypeOK
  BY <1>5, <1>6 DEF TvTypeOK, TvMax
<1> QED BY <1>5, <1>8, <1>9, <1>10, <1>11 DEF TvInv, Rendered, Anchored, AutoScrollSelects, TvNone

-----------------------------------------------------------------------------
LEMMA ScreenIs == TvInv => ScreenIsFrame
<1> SUFFICES ASSUME TvInv, ~tvPending, ~tvResized PROVE tvScreen = TvFrame(tvView)
  BY DEF ScreenIsFrame
<1>1. tvPrev = TvFrame(tvView) /\ Len(tvPrev) = tvHeight
  BY DEF TvInv, Rendered
<1>2. tvScreen \in [1 .. tvHeight -> TvRow] /\ \A row \in 1 .. tvHeight : tvScreen[row] = TvFrame(tvView)[row]
  BY <1>1 DEF TvInv, RowsKept
<1>3. TvFrame(tvView) = [row \in 1 .. tvHeight |-> TvFrame(tvView)[row]]
  BY DEF TvFrame
<1> QED BY <1>2, <1>3

LEMMA RowWith ==
    ASSUME NEW text, NEW marked \in BOOLEAN, NEW row, row = [text |-> text, marked |-> marked]
    PROVE  row.text = text /\ row.marked = marked
OBVIOUS

LEMMA MarkedIs == TvInv => MarkedIsSelected
<1> SUFFICES ASSUME TvInv, ~tvPending, ~tvResized
             PROVE  {tvScreen[row].text : row \in {r \in 1 .. tvHeight : tvScreen[r].marked}}
                        = {tvScreen[row].text : row \in 1 .. tvView.window} \cap TvSelected
  BY DEF MarkedIsSelected
<1> DEFINE lines == tvView.lines
           top == tvView.top
           window == tvView.window
<1>1. /\ window \in Nat /\ top \in Nat /\ lines \in Seq(Nat \ {0}) /\ Len(lines) \in Nat /\ tvHeight \in Nat /\ window <= tvHeight
      /\ \A i, j \in 1 .. Len(lines) : lines[i] = lines[j] => i = j
      /\ \A i \in 1 .. Len(lines) : lines[i] \in Nat \ {0}
  <2>1. window \in Nat /\ top \in Nat /\ lines \in Seq(Nat \ {0}) /\ Len(lines) \in Nat /\ tvHeight \in Nat /\ window <= tvHeight
    BY TvNats, LenProperties DEF TvInv, TvTypes, TvView, Rendered
  <2>2. \A i \in 1 .. Len(lines) : lines[i] \in Nat \ {0}
    BY <2>1, ElementOfSeq
  <2>3. ASSUME NEW i \in 1 .. Len(lines), NEW j \in 1 .. Len(lines), lines[i] = lines[j] PROVE i = j
    <3>1. ~(i < j) /\ ~(j < i)
      BY <2>2, <2>3 DEF TvInv, TvTypes, Grows
    <3> QED BY <2>1, <3>1
  <2> QED BY <2>1, <2>2, <2>3
<1>2. \A row \in 1 .. tvHeight :
         tvScreen[row] = IF row > window THEN TvDockRow
                         ELSE IF top + row > Len(lines) THEN TvBlank
                         ELSE [text |-> lines[top + row], marked |-> top + row - 1 \in TvSpan(tvSel)]
  BY ScreenIs, FrameIs DEF TvInv, TvTypes, ScreenIsFrame, TvMarkedAt
<1>3. TvSelected = {lines[i + 1] : i \in {j \in TvSpan(tvSel) : j < Len(lines)}}
  BY DEF TvSelected
<1>4. TvSpan(tvSel) \subseteq Nat
  BY SpanIs DEF TvInv, TvTypes
<1>5. TvDockRow.marked = FALSE /\ TvBlank.marked = FALSE /\ TvBlank.text = 0
  BY DEF TvDockRow, TvBlank
<1> HIDE DEF lines, top, window
<1>6. ASSUME NEW r \in 1 .. tvHeight, tvScreen[r].marked
      PROVE  r \in 1 .. window /\ tvScreen[r].text \in TvSelected
  <2>0. r \in Nat /\ r >= 1
    BY <1>1
  <2>1. r <= window /\ top + r <= Len(lines)
    <3>1. tvScreen[r] # TvDockRow /\ tvScreen[r] # TvBlank
      BY <1>5, <1>6
    <3>2. ~(r > window) /\ ~(top + r > Len(lines))
      BY <1>2, <3>1
    <3> QED BY <1>1, <2>0, <3>2
  <2>2. tvScreen[r] = [text |-> lines[top + r], marked |-> top + r - 1 \in TvSpan(tvSel)]
    <3>1. ~(r > window) /\ ~(top + r > Len(lines))
      BY <1>1, <2>0, <2>1
    <3> QED BY <1>2, <3>1
  <2>3. top + r - 1 \in TvSpan(tvSel) /\ top + r - 1 < Len(lines) /\ (top + r - 1) + 1 = top + r
    <3>1. tvScreen[r].marked = (top + r - 1 \in TvSpan(tvSel))
      BY <2>2, RowWith
    <3>2. top + r - 1 \in TvSpan(tvSel)
      BY <1>6, <3>1, Zenon
    <3> QED BY <1>1, <2>0, <2>1, <3>2
  <2>4. lines[(top + r - 1) + 1] \in TvSelected
    BY <1>3, <2>3
  <2>5. r \in 1 .. window
    BY <1>1, <2>0, <2>1
  <2> QED BY <2>2, <2>3, <2>4, <2>5
<1>7. ASSUME NEW r \in 1 .. window, tvScreen[r].text \in TvSelected
      PROVE  r \in 1 .. tvHeight /\ tvScreen[r].marked
  <2>1. PICK i \in TvSpan(tvSel) : i < Len(lines) /\ tvScreen[r].text = lines[i + 1]
    BY <1>3, <1>7
  <2>0. i \in Nat
    BY <1>4
  <2>2. i + 1 \in 1 .. Len(lines) /\ r \in 1 .. tvHeight /\ ~(r > window)
    BY <1>1, <2>0, <2>1
  <2>3. tvScreen[r].text # 0
    BY <1>1, <2>1, <2>2
  <2>4. ~(top + r > Len(lines))
    BY <1>2, <1>5, <2>2, <2>3
  <2>5. tvScreen[r] = [text |-> lines[top + r], marked |-> top + r - 1 \in TvSpan(tvSel)]
    BY <1>2, <2>2, <2>4
  <2>6. top + r \in 1 .. Len(lines)
    BY <1>1, <2>2, <2>4
  <2>7. top + r = i + 1
    BY <1>1, <2>1, <2>2, <2>5, <2>6
  <2>8. top + r - 1 = i
    BY <1>1, <2>0, <2>2, <2>7
  <2>9. tvScreen[r].marked = (top + r - 1 \in TvSpan(tvSel))
    BY <2>5, RowWith
  <2> QED BY <2>2, <2>8, <2>9
<1> QED BY <1>6, <1>7 DEF window

LEMMA TvSafe == TvInv => TranscriptSafe
BY ScreenIs, MarkedIs DEF TvInv, TranscriptSafe, Anchored, SelectionAnchored

(* Following, a render goes to the end; reading, it stays where it was. *)
LEMMA TvFrozen ==
    TvInv /\ [TvNext]_tvVars =>
        [TvRender /\ IsPrefix(tvView.lines, tvText) /\ tvView.window = tvView'.window =>
           IF tvView.following THEN tvView'.top = tvView'.maxTop ELSE tvView'.top = tvView.top]_tvVars
<1> SUFFICES ASSUME TvInv, TvRender, IsPrefix(tvView.lines, tvText), tvView.window = tvView'.window
             PROVE  IF tvView.following THEN tvView'.top = tvView'.maxTop ELSE tvView'.top = tvView.top
  OBVIOUS
<1>1. tvView' = TvComposed
  BY DEF TvRender
<1>2. CASE tvView.following
  BY <1>1, <1>2, ComposedIs
<1>3. CASE ~tvView.following
  <2>1. tvView'.top = TvClamp(tvView.top, tvView'.maxTop) /\ tvView'.maxTop = TvMax(0, Len(tvText) - tvView.window)
    BY <1>1, <1>3, ComposedIs
  <2>2. tvView.top \in Nat /\ tvView.window \in Nat /\ tvView.maxTop \in Nat /\ Len(tvText) \in Nat /\ Len(tvView.lines) \in Nat
    BY LenProperties DEF TvInv, TvTypes, TvView, Grows
  <2>3. Len(tvView.lines) <= Len(tvText)
    BY <2>2 DEF IsPrefix
  <2>4. tvView.top <= tvView.maxTop /\ tvView.maxTop <= TvMax(0, Len(tvView.lines) - tvView.window)
    BY DEF TvInv, TvTypeOK
  <2>5. TvMax(0, Len(tvView.lines) - tvView.window) <= TvMax(0, Len(tvText) - tvView.window)
        /\ TvMax(0, Len(tvView.lines) - tvView.window) \in Nat /\ TvMax(0, Len(tvText) - tvView.window) \in Nat
    BY <2>2, <2>3 DEF TvMax
  <2>6. tvView.top <= TvMax(0, Len(tvText) - tvView.window)
    BY <2>2, <2>4, <2>5
  <2>7. \A m \in Nat : tvView.top <= m => TvClamp(tvView.top, m) = tvView.top
    BY <2>2 DEF TvClamp, TvMax, TvMin
  <2> QED BY <1>3, <2>1, <2>5, <2>6, <2>7
<1> QED BY <1>2, <1>3

(* What is painted and selected is what the transcript says, and it stays in
   place under a reader: for any heights, docks, number of lines and steps.  *)
THEOREM TranscriptIsRead == TvSpec => TranscriptReads
<1>1. TvInv /\ [TvNext]_tvVars =>
        [TvRender /\ IsPrefix(tvView.lines, tvText) /\ tvView.window = tvView'.window =>
           IF tvView.following THEN tvView'.top = tvView'.maxTop ELSE tvView'.top = tvView.top]_tvVars
  BY TvFrozen
<1> QED BY <1>1, TvInitIs, TvNextKeeps, TvSafe, PTL DEF TvSpec, TranscriptReads, WindowFrozen

-----------------------------------------------------------------------------
(* The popup of completions, its requests and what accepting one puts in. *)
(* The end of a text from some character on. *)
EndOf(p, t) == \E k \in 0 .. Len(t) : p = SubSeq(t, k + 1, Len(t))

CpLine == Seq(CpChars)
CpWork == [force : BOOLEAN, explicit : BOOLEAN, text : CpLine, col : Nat, aborted : BOOLEAN, prefix : Seq(CpChars \cup {"none"}),
           kind : {"file", "slash-command", "undefined"}]

(* A request asks about the text before the cursor, and a popup is about an end of it. *)
CpAsked(text, col) == text \in CpLine /\ Len(text) <= CpMaxLength /\ col \in 0 .. Len(text)
CpRunOK(run) ==
    /\ run \in CpWork /\ CpAsked(run.text, run.col)
    /\ run.prefix # CpNoPrefix => EndOf(run.prefix, CpBefore(run.text, run.col))
CpUiOK(ui) ==
    /\ ui.state \in {"regular", "force"} /\ CpAsked(ui.text, ui.col)
    /\ EndOf(ui.prefix, CpBefore(ui.text, ui.col))

CpAsks == cpTimer # CpNone \/ cpWaiting # CpNone

(* A request that waits has made the one before it stale. *)
CpInv ==
    /\ CpAsked(cpText, cpCol)
    /\ cpUi = CpNone \/ CpUiOK(cpUi)
    /\ cpRun = CpNone \/ CpRunOK(cpRun)
    /\ {cpTimer, cpWaiting} \subseteq CpOptions \cup {CpNone} /\ CpNone \in {cpTimer, cpWaiting}
    /\ CpAsks /\ cpRun # CpNone => cpRun.aborted
    /\ cpMoved \in BOOLEAN
    /\ OverlayMatches

-----------------------------------------------------------------------------
LEMMA EndIs ==
    ASSUME NEW S, NEW t \in Seq(S), NEW p, EndOf(p, t)
    PROVE  p \in Seq(S) /\ Len(p) \in 0 .. Len(t) /\ p = SubSeq(t, Len(t) - Len(p) + 1, Len(t))
<1>1. PICK k \in 0 .. Len(t) : p = SubSeq(t, k + 1, Len(t))
  BY DEF EndOf
<1>2. Len(t) \in Nat
  BY LenProperties
<1>3. p \in Seq(S) /\ Len(p) = Len(t) - k
  BY <1>1, Sides
<1>4. Len(t) - Len(p) + 1 = k + 1 /\ Len(p) \in 0 .. Len(t)
  BY <1>2, <1>3
<1> QED BY <1>1, <1>3, <1>4

LEMMA FromIsEnd ==
    ASSUME NEW S, NEW t \in Seq(S), NEW i \in 1 .. Len(t) + 1
    PROVE  EndOf(CpFrom(t, i), t)
<1>1. i - 1 \in 0 .. Len(t) /\ (i - 1) + 1 = i
  BY LenProperties
<1> QED BY <1>1 DEF CpFrom, EndOf

LEMMA EndOfEnd ==
    ASSUME NEW S, NEW t \in Seq(S), NEW q, EndOf(q, t), NEW p, EndOf(p, q)
    PROVE  EndOf(p, t)
<1>1. PICK k \in 0 .. Len(t) : q = SubSeq(t, k + 1, Len(t))
  BY DEF EndOf
<1>2. Len(t) \in Nat
  BY LenProperties
<1>3. q \in Seq(S) /\ Len(q) = Len(t) - k
  BY <1>1, Sides
<1>4. PICK j \in 0 .. Len(q) : p = SubSeq(q, j + 1, Len(q))
  BY DEF EndOf
<1>5. Len(q) \in j .. Len(q) /\ j \in Nat /\ Len(q) \in Nat /\ k \in Nat
  BY <1>2, <1>3
<1>6. /\ p \in Seq(S) /\ Len(p) = Len(q) - j
      /\ \A i \in 1 .. Len(q) - j : p[i] = q[j + i]
  BY <1>3, <1>4, <1>5, Cut
<1>7. k + j \in 0 .. Len(t) /\ Len(t) \in k + j .. Len(t) /\ Len(t) \in k .. Len(t)
  BY <1>2, <1>3, <1>5
<1> DEFINE r == SubSeq(t, (k + j) + 1, Len(t))
<1>8. /\ r \in Seq(S) /\ Len(r) = Len(t) - (k + j)
      /\ \A i \in 1 .. Len(t) - (k + j) : r[i] = t[(k + j) + i]
  BY <1>7, Cut
<1>9. \A i \in 1 .. Len(t) - k : q[i] = t[k + i]
  BY <1>1, <1>7, Cut
<1> HIDE DEF r
<1>10. Len(r) = Len(p)
  BY <1>2, <1>3, <1>5, <1>6, <1>8
<1>11. ASSUME NEW i \in 1 .. Len(p) PROVE p[i] = r[i]
  <2>1. i \in 1 .. Len(q) - j /\ i \in 1 .. Len(t) - (k + j) /\ j + i \in 1 .. Len(t) - k /\ k + (j + i) = (k + j) + i
    BY <1>2, <1>3, <1>5, <1>6
  <2> QED BY <2>1, <1>6, <1>8, <1>9
<1>12. p = r
  BY <1>6, <1>8, <1>10, <1>11, SeqEqual
<1> QED BY <1>7, <1>12 DEF EndOf, r

LEMMA SpacesAre ==
    ASSUME NEW S, NEW t \in Seq(S)
    PROVE  CpSpaces(t) \subseteq 1 .. Len(t) /\ Len(t) \in Nat
BY LenProperties DEF CpSpaces

LEMMA TokenIs ==
    ASSUME NEW S, NEW t \in Seq(S)
    PROVE  EndOf(CpToken(t), t)
<1> DEFINE last == CHOOSE i \in CpSpaces(t) : \A j \in CpSpaces(t) : j <= i
<1>1. CpSpaces(t) \subseteq 0 .. Len(t) /\ Len(t) \in Nat
  BY SpacesAre
<1>2. CpSpaces(t) # {} => last \in 0 .. Len(t)
  <2> SUFFICES ASSUME CpSpaces(t) # {} PROVE last \in 0 .. Len(t)
    OBVIOUS
  <2>1. Max(CpSpaces(t)) \in CpSpaces(t) /\ \A j \in CpSpaces(t) : Max(CpSpaces(t)) >= j
    BY <1>1, LastPosition
  <2>2. \A j \in CpSpaces(t) : j <= Max(CpSpaces(t))
    BY <1>1, <2>1
  <2>3. \E i \in CpSpaces(t) : \A j \in CpSpaces(t) : j <= i
    BY <2>1, <2>2
  <2>4. last \in CpSpaces(t)
    BY <2>3
  <2> QED BY <1>1, <2>4
<1> HIDE DEF last
<1>3. 1 + (IF CpSpaces(t) = {} THEN 0 ELSE last) \in 1 .. Len(t) + 1
  BY <1>1, <1>2
<1> QED BY <1>3, FromIsEnd DEF CpToken, last

LEMMA TrimmedIs ==
    ASSUME NEW S, NEW t \in Seq(S)
    PROVE  EndOf(CpTrimmed(t), t)
<1> DEFINE words == {i \in 1 .. Len(t) : t[i] # " "}
           first == CHOOSE i \in words : \A j \in words : i <= j
<1>1. Len(t) \in Nat /\ words \subseteq Nat /\ \A i \in words : i \in 1 .. Len(t)
  <2>1. Len(t) \in Nat
    BY LenProperties
  <2>2. \A i \in 1 .. Len(t) : i \in Nat
    BY <2>1
  <2> QED BY <2>1, <2>2
<1> HIDE DEF words, first
<1>2. CASE words = {}
  <2>1. CpTrimmed(t) = <<>>
    BY <1>2 DEF CpTrimmed, words
  <2>2. Len(t) \in 0 .. Len(t) /\ SubSeq(t, Len(t) + 1, Len(t)) = <<>>
    <3>1. Len(t) + 1 \in Int /\ Len(t) \in Int /\ Len(t) < Len(t) + 1 /\ Len(t) \in 0 .. Len(t)
      BY <1>1
    <3> QED BY <3>1, SubSeqEmpty
  <2> QED BY <2>1, <2>2 DEF EndOf
<1>3. CASE words # {}
  <2>1. \E i \in words : \A j \in words : i <= j
    BY <1>1, <1>3, LeastPosition
  <2>2. first \in words
    BY <2>1 DEF first
  <2>3. first \in 1 .. Len(t) + 1
    BY <1>1, <2>2
  <2>4. CpTrimmed(t) = CpFrom(t, first)
    BY <1>3 DEF CpTrimmed, first, words
  <2> QED BY <2>3, <2>4, FromIsEnd
<1> QED BY <1>2, <1>3

(* Whatever is completed is the end of what stands before the cursor. *)
LEMMA ContextIs ==
    ASSUME NEW S, NEW t \in Seq(S)
    PROVE  /\ CpContext(t).kind \in {"no", "name", "argument"}
           /\ CpContext(t).kind # "no" => EndOf(CpContext(t).prefix, t)
<1> DEFINE line == CpTrimmed(t)
           gaps == CpSpaces(line)
           gap == CHOOSE i \in gaps : \A j \in gaps : i <= j
           name == IF gaps = {} THEN line ELSE SubSeq(line, 1, gap - 1)
           c == CpContext(t)
<1>1. EndOf(line, t) /\ line \in Seq(S)
  BY TrimmedIs, EndIs
<1>2. gaps \subseteq Nat /\ gaps \subseteq 1 .. Len(line) /\ Len(line) \in Nat
  BY <1>1, SpacesAre
<1>3. gaps # {} => gap + 1 \in 1 .. Len(line) + 1
  <2> SUFFICES ASSUME gaps # {} PROVE gap + 1 \in 1 .. Len(line) + 1
    OBVIOUS
  <2>1. gap \in gaps
    BY <1>2, LeastPosition
  <2>2. gap \in 1 .. Len(line) /\ Len(line) \in Nat
    BY <1>2, <2>1
  <2> HIDE DEF gap, line
  <2> QED BY <2>2
<1>4. c = IF CpStarts(line, "/")
          THEN IF ~CpCommand(name) \/ (gaps # {} /\ name = <<"/">>) THEN [kind |-> "no"]
               ELSE IF gaps = {} THEN [kind |-> "name", prefix |-> name, start |-> TRUE]
               ELSE [kind |-> "argument", prefix |-> CpFrom(line, gap + 1), start |-> TRUE]
          ELSE IF CpCommand(CpToken(t)) THEN [kind |-> "name", prefix |-> CpToken(t), start |-> FALSE] ELSE [kind |-> "no"]
  BY DEF CpContext
<1> HIDE DEF c, gap, gaps, line, name
<1>5. \/ c = [kind |-> "no"]
      \/ c = [kind |-> "name", prefix |-> name, start |-> TRUE] /\ gaps = {}
      \/ c = [kind |-> "argument", prefix |-> CpFrom(line, gap + 1), start |-> TRUE] /\ gaps # {}
      \/ c = [kind |-> "name", prefix |-> CpToken(t), start |-> FALSE]
  BY <1>4
<1>6. CASE c = [kind |-> "no"]
  BY <1>6 DEF c
<1>7. CASE c = [kind |-> "name", prefix |-> name, start |-> TRUE] /\ gaps = {}
  BY <1>1, <1>7 DEF c, name
<1>8. CASE c = [kind |-> "argument", prefix |-> CpFrom(line, gap + 1), start |-> TRUE] /\ gaps # {}
  <2>1. EndOf(CpFrom(line, gap + 1), t)
    BY <1>1, <1>3, <1>8, FromIsEnd, EndOfEnd
  <2> QED BY <1>8, <2>1 DEF c
<1>9. CASE c = [kind |-> "name", prefix |-> CpToken(t), start |-> FALSE]
  BY <1>9, TokenIs DEF c
<1> QED BY <1>5, <1>6, <1>7, <1>8, <1>9

LEMMA PrefixIs ==
    ASSUME NEW S, NEW t \in Seq(S), NEW force \in BOOLEAN
    PROVE  CpPrefix(t, force) = CpNoPrefix \/ EndOf(CpPrefix(t, force), t)
<1>1. EndOf(CpToken(t), t)
  BY TokenIs
<1>2. CpPath(t, force) \in {CpToken(t), CpNoPrefix}
  BY DEF CpPath
<1>3. CpPrefix(t, force) \in {CpToken(t), CpNoPrefix} \/ (CpContext(t).kind # "no" /\ CpPrefix(t, force) = CpContext(t).prefix)
  BY <1>2 DEF CpPrefix
<1> QED BY <1>1, <1>3, ContextIs

LEMMA KindIs ==
    ASSUME NEW t, NEW force \in BOOLEAN
    PROVE  CpKind(t, force) \in {"file", "slash-command", "undefined"}
BY DEF CpKind

-----------------------------------------------------------------------------
LEMMA CpSides ==
    ASSUME NEW t \in CpLine, NEW i \in 0 .. Len(t)
    PROVE  CpBefore(t, i) \in CpLine /\ Len(CpBefore(t, i)) = i
BY Sides DEF CpLine, CpBefore

LEMMA CpFromType ==
    ASSUME NEW t \in CpLine, NEW i \in Nat \ {0}
    PROVE  CpFrom(t, i) \in CpLine
<1>1. Len(t) \in Nat /\ \A k \in 1 .. Len(t) : t[k] \in CpChars
  BY LenProperties, ElementOfSeq DEF CpLine
<1>2. \A k \in i .. Len(t) : t[k] \in CpChars
  BY <1>1
<1>3. i \in Int /\ Len(t) \in Int
  BY <1>1
<1> QED BY <1>2, <1>3, SubSeqProperties DEF CpFrom, CpLine

LEMMA SliceType ==
    ASSUME NEW t \in CpLine, NEW n \in Int, n <= Len(t)
    PROVE  CpSlice(t, n) \in CpLine
<1>1. Len(t) \in Nat /\ \A k \in 1 .. Len(t) : t[k] \in CpChars
  BY LenProperties, ElementOfSeq DEF CpLine
<1>2. ASSUME NEW m \in Int, m <= Len(t) PROVE SubSeq(t, 1, m) \in CpLine
  <2>1. \A k \in 1 .. m : t[k] \in CpChars
    BY <1>1, <1>2
  <2> QED BY <2>1, SubSeqProperties DEF CpLine
<1>3. Len(t) + n \in Int /\ (~(n >= 0) => Len(t) + n <= Len(t))
  BY <1>1
<1> QED BY <1>2, <1>3 DEF CpSlice

(* What accepting makes of the line: what is before, the item, and what is after. *)
LEMMA AppliedIs ==
    ASSUME CpInv, NEW prefix, Len(prefix) \in Nat
    PROVE  LET done == CpApplied(prefix)
               before == CpSlice(cpText, cpCol - Len(prefix))
               after == CpFrom(cpText, cpCol + 1)
           IN  /\ done.text \in CpLine /\ done.col \in 0 .. Len(done.text)
               /\ SubSeq(done.text, 1, Len(before)) = before
               /\ CpFrom(done.text, done.col + 1) = after
               /\ before \in CpLine
<1> DEFINE before == CpSlice(cpText, cpCol - Len(prefix))
           after == CpFrom(cpText, cpCol + 1)
           context == CpContext(CpBefore(cpText, cpCol))
           item == CASE context.kind = "name" /\ context.prefix = prefix ->
                           IF CpStarts(after, " ") THEN <<"/", "a">> ELSE <<"/", "a", " ">>
                     [] ~(context.kind = "name" /\ context.prefix = prefix) /\ CpStarts(prefix, "@") -> <<"@", "a", " ">>
                     [] OTHER -> <<"a">>
           done == CpApplied(prefix)
<1>1. cpText \in CpLine /\ cpCol \in 0 .. Len(cpText) /\ Len(cpText) \in Nat
  BY LenProperties DEF CpInv, CpAsked, CpLine
<1>2. cpCol - Len(prefix) \in Int /\ cpCol - Len(prefix) <= Len(cpText) /\ cpCol + 1 \in Nat \ {0}
  BY <1>1
<1>3. before \in CpLine
  BY <1>1, <1>2, SliceType
<1>4. after \in CpLine
  BY <1>1, <1>2, CpFromType
<1>5. item \in CpLine
  <2>1. "/" \in CpChars /\ "a" \in CpChars /\ " " \in CpChars /\ "@" \in CpChars
    BY CpAssumption
  <2>2. \A x, y, z \in CpChars : <<x>> \in CpLine /\ <<x, y>> \in CpLine /\ <<x, y, z>> \in CpLine
    BY DEF CpLine
  <2>3. item \in {<<"/", "a">>, <<"/", "a", " ">>, <<"@", "a", " ">>, <<"a">>}
    <3> HIDE DEF context, after
    <3> QED OBVIOUS
  <2> HIDE DEF item
  <2> QED BY <2>1, <2>2, <2>3
<1>6. done.text = before \o item \o after /\ done.col = Len(before) + Len(item)
  <2>1. done = [text |-> before \o item \o after, col |-> Len(before) + Len(item)]
    BY DEF CpApplied
  <2> HIDE DEF done, before, item, after
  <2> QED BY <2>1
<1> HIDE DEF done, before, item, after, context
<1>7. /\ before \o item \in CpLine /\ Len(before \o item) = Len(before) + Len(item)
      /\ Len(before) \in Nat /\ Len(item) \in Nat /\ Len(after) \in Nat
      /\ before \o item \o after \in CpLine
      /\ Len(before \o item \o after) = Len(before \o item) + Len(after)
  <2>1. before \o item \in CpLine /\ Len(before \o item) = Len(before) + Len(item)
    BY <1>3, <1>5, ConcatProperties DEF CpLine
  <2>2. before \o item \o after \in CpLine /\ Len(before \o item \o after) = Len(before \o item) + Len(after)
    BY <1>4, <2>1, ConcatProperties DEF CpLine
  <2> QED BY <1>3, <1>4, <1>5, <2>1, <2>2, LenProperties DEF CpLine
<1>8. CpFrom(done.text, done.col + 1) = after
  <2>1. SubSeq(before \o item \o after, Len(before \o item) + 1, Len(before \o item \o after)) = after
    BY <1>4, <1>7, Halves DEF CpLine
  <2> QED BY <1>6, <1>7, <2>1 DEF CpFrom
<1>9. SubSeq(done.text, 1, Len(before)) = before
  <2>1. before \o item \o after = before \o (item \o after) /\ item \o after \in CpLine
    <3>1. \E S : before \in Seq(S) /\ item \in Seq(S) /\ after \in Seq(S) /\ CpLine = Seq(S)
      BY <1>3, <1>4, <1>5 DEF CpLine
    <3>2. PICK S : before \in Seq(S) /\ item \in Seq(S) /\ after \in Seq(S) /\ CpLine = Seq(S)
      BY <3>1
    <3>3. (before \o item) \o after = before \o (item \o after)
      BY <3>2, ConcatAssociative
    <3>4. item \o after \in Seq(S)
      BY <3>2, ConcatProperties
    <3> QED BY <3>2, <3>3, <3>4
  <2>2. SubSeq(before \o (item \o after), 1, Len(before)) = before
    BY <1>3, <2>1, Halves DEF CpLine
  <2> QED BY <1>6, <2>1, <2>2
<1>10. done.col \in 0 .. Len(done.text)
  BY <1>6, <1>7
<1> QED BY <1>3, <1>6, <1>7, <1>8, <1>9, <1>10 DEF done, before, after

-----------------------------------------------------------------------------
(* Keys leave requests alone or make the one at work stale, and leave the popup alone or close it. *)
Asked ==
    \/ UNCHANGED <<cpTimer, cpWaiting, cpRun>>
    \/ /\ cpRun' = CpAborted
       /\ {cpTimer', cpWaiting'} \subseteq CpOptions \cup {CpNone} /\ CpNone \in {cpTimer', cpWaiting'}
Closed == UNCHANGED <<cpUi, cpOverlay>> \/ (cpUi' = CpNone /\ cpOverlay' = FALSE)

LEMMA RequestIs ==
    ASSUME NEW text, NEW col, NEW force \in BOOLEAN, NEW explicit \in BOOLEAN, CpRequest(text, col, force, explicit)
    PROVE  Asked
<1>1. CASE force /\ CpContext(CpBefore(text, col)).kind = "name"
  BY <1>1 DEF CpRequest, Asked
<1>2. CASE ~(force /\ CpContext(CpBefore(text, col)).kind = "name")
  <2> DEFINE options == [force |-> force, explicit |-> explicit]
  <2>1. options \in CpOptions
    BY DEF CpOptions
  <2> HIDE DEF options
  <2>2. /\ cpRun' = CpAborted
        /\ cpTimer' = CpTimed(CpDebounced(text, col, force, explicit), options)
        /\ cpWaiting' = IF CpDebounced(text, col, force, explicit) THEN CpNone ELSE options
    BY <1>2 DEF CpRequest, options
  <2> QED BY <2>1, <2>2 DEF Asked, CpTimed
<1> QED BY <1>1, <1>2

LEMMA CancelIs == CpCancel => Asked /\ Closed
BY DEF CpCancel, CpCancelRequests, CpClearUi, Asked, Closed

LEMMA LeaveIs == CpKeepUi /\ CpLeaveRequests => Asked /\ Closed
BY DEF CpKeepUi, CpLeaveRequests, Asked, Closed

LEMMA RefreshIs ==
    ASSUME NEW text, NEW col, NEW retrigger \in BOOLEAN, CpRefresh(text, col, retrigger)
    PROVE  Asked /\ Closed
<1> DEFINE completable == CpCompletable(CpBefore(text, col))
<1>1. \/ CpCancel \/ CpUpdate(text, col)
      \/ CpKeepUi /\ CpRequest(text, col, FALSE, FALSE)
      \/ CpKeepUi /\ CpLeaveRequests
  BY DEF CpRefresh
<1>2. CpKeepUi => Closed
  BY DEF CpKeepUi, Closed
<1>3. (cpUi.state = "force") \in BOOLEAN
  OBVIOUS
<1>4. CpUpdate(text, col) => Asked /\ Closed
  BY <1>2, <1>3, RequestIs DEF CpUpdate
<1> QED BY <1>1, <1>2, <1>4, RequestIs, CancelIs, LeaveIs

LEMMA AbortedIs == ASSUME CpInv PROVE CpAborted = CpNone \/ (CpRunOK(CpAborted) /\ CpAborted.aborted)
<1>1. CASE cpRun = CpNone
  BY <1>1 DEF CpAborted
<1>2. CASE cpRun # CpNone
  <2>1. CpAborted = [cpRun EXCEPT !.aborted = TRUE] /\ CpRunOK(cpRun)
    BY <1>2 DEF CpAborted, CpInv
  <2>2. /\ CpAborted \in CpWork /\ CpAborted.aborted
        /\ CpAborted.text = cpRun.text /\ CpAborted.col = cpRun.col /\ CpAborted.prefix = cpRun.prefix
    BY <2>1 DEF CpRunOK, CpWork
  <2> QED BY <2>1, <2>2 DEF CpRunOK
<1> QED BY <1>1, <1>2

(* A key that edits the line or moves the cursor. *)
LEMMA KeyKeepsCp ==
    ASSUME CpInv, Asked, Closed, CpAsked(cpText', cpCol'), cpMoved' \in BOOLEAN
    PROVE  CpInv'
<1>1. (cpUi = CpNone \/ CpUiOK(cpUi))'
  BY DEF CpInv, Closed, CpUiOK, CpAsked, EndOf, CpBefore
<1>2. OverlayMatches'
  BY DEF CpInv, Closed, OverlayMatches
<1>3. (cpRun = CpNone \/ CpRunOK(cpRun))' /\ (CpAsks /\ cpRun # CpNone => cpRun.aborted)'
  <2>1. CASE UNCHANGED <<cpTimer, cpWaiting, cpRun>>
    BY <2>1 DEF CpInv, CpAsks, CpRunOK, CpAsked, EndOf, CpBefore
  <2>2. CASE cpRun' = CpAborted
    BY <2>2, AbortedIs DEF CpRunOK, CpAsked, EndOf, CpBefore
  <2> QED BY <2>1, <2>2 DEF Asked
<1>4. ({cpTimer, cpWaiting} \subseteq CpOptions \cup {CpNone} /\ CpNone \in {cpTimer, cpWaiting})'
  BY DEF CpInv, Asked
<1>5. CpAsked(cpText, cpCol)'
  BY DEF CpAsked
<1> QED BY <1>1, <1>2, <1>3, <1>4, <1>5 DEF CpInv

LEMMA EditIs ==
    ASSUME NEW text \in CpLine, NEW col \in 0 .. Len(text), CpEdited(text, col)
    PROVE  CpAsked(cpText', cpCol') /\ cpMoved' \in BOOLEAN
BY DEF CpEdited, CpAsked

LEMMA JoinedIs ==
    ASSUME NEW x \in CpLine, NEW y \in CpLine
    PROVE  x \o y \in CpLine /\ Len(x \o y) = Len(x) + Len(y) /\ Len(x) \in Nat /\ Len(y) \in Nat
BY ConcatProperties, LenProperties DEF CpLine

LEMMA TypeStep == ASSUME CpInv, NEW ch \in CpChars, CpType(ch) PROVE CpInv' /\ Closed
<1> DEFINE before == CpBefore(cpText, cpCol)
           after == CpFrom(cpText, cpCol + 1)
           text == before \o <<ch>> \o after
           col == cpCol + 1
<1>1. cpText \in CpLine /\ cpCol \in 0 .. Len(cpText) /\ cpCol + 1 \in Nat \ {0}
  BY LenProperties DEF CpInv, CpAsked, CpLine
<1>2. before \in CpLine /\ Len(before) = cpCol /\ after \in CpLine
  BY <1>1, CpSides, CpFromType
<1>3. CpEdited(text, col)
  BY DEF CpType
<1>4. \/ CpRefresh(text, col, FALSE)
      \/ CpKeepUi /\ CpRequest(text, col, FALSE, FALSE)
      \/ CpKeepUi /\ CpLeaveRequests
  BY DEF CpType
<1> HIDE DEF before, after
<1>5. text \in CpLine /\ col \in 0 .. Len(text)
  <2>1. <<ch>> \in CpLine /\ Len(<<ch>>) = 1
    BY DEF CpLine
  <2> HIDE DEF CpLine
  <2>2. before \o <<ch>> \in CpLine /\ Len(before \o <<ch>>) = cpCol + 1
    BY <1>2, <2>1, JoinedIs
  <2>3. text \in CpLine /\ Len(text) = cpCol + 1 + Len(after) /\ Len(after) \in Nat
    BY <1>2, <2>2, JoinedIs
  <2> QED BY <1>1, <2>3
<1> HIDE DEF text, col
<1>6. Asked /\ Closed
  BY <1>4, RefreshIs, RequestIs, LeaveIs DEF CpKeepUi, Closed
<1> QED BY <1>3, <1>5, <1>6, EditIs, KeyKeepsCp

LEMMA BackspaceStep == ASSUME CpInv, CpBackspace PROVE CpInv' /\ Closed
<1> DEFINE col == IF cpCol = 0 THEN 0 ELSE cpCol - 1
           text == CpBefore(cpText, col) \o CpFrom(cpText, cpCol + 1)
<1>1. cpText \in CpLine /\ cpCol \in 0 .. Len(cpText) /\ cpCol + 1 \in Nat \ {0} /\ col \in 0 .. Len(cpText)
  BY LenProperties DEF CpInv, CpAsked, CpLine
<1>2. CpEdited(text, col) /\ CpRefresh(text, col, TRUE)
  BY DEF CpBackspace
<1> HIDE DEF col
<1>3. CpBefore(cpText, col) \in CpLine /\ Len(CpBefore(cpText, col)) = col /\ CpFrom(cpText, cpCol + 1) \in CpLine
  BY <1>1, CpSides, CpFromType
<1>4. text \in CpLine /\ col \in 0 .. Len(text)
  <2>1. text \in CpLine /\ Len(text) = col + Len(CpFrom(cpText, cpCol + 1)) /\ Len(CpFrom(cpText, cpCol + 1)) \in Nat /\ col \in Nat
    BY <1>3, JoinedIs
  <2> QED BY <2>1
<1> HIDE DEF text
<1> QED BY <1>2, <1>4, EditIs, RefreshIs, KeyKeepsCp

LEMMA ForwardStep == ASSUME CpInv, CpForwardDelete PROVE CpInv' /\ Closed
<1> DEFINE text == CpBefore(cpText, cpCol) \o CpFrom(cpText, cpCol + 2)
<1>1. cpText \in CpLine /\ cpCol \in 0 .. Len(cpText) /\ cpCol + 2 \in Nat \ {0}
  BY LenProperties DEF CpInv, CpAsked, CpLine
<1>2. CpEdited(text, cpCol) /\ CpRefresh(text, cpCol, TRUE)
  BY DEF CpForwardDelete
<1>3. CpBefore(cpText, cpCol) \in CpLine /\ Len(CpBefore(cpText, cpCol)) = cpCol /\ CpFrom(cpText, cpCol + 2) \in CpLine
  BY <1>1, CpSides, CpFromType
<1>4. text \in CpLine /\ cpCol \in 0 .. Len(text)
  <2>1. text \in CpLine /\ Len(text) = cpCol + Len(CpFrom(cpText, cpCol + 2)) /\ Len(CpFrom(cpText, cpCol + 2)) \in Nat /\ cpCol \in Nat
    BY <1>3, JoinedIs
  <2> QED BY <2>1
<1> HIDE DEF text
<1> QED BY <1>2, <1>4, EditIs, RefreshIs, KeyKeepsCp

LEMMA CpKillStep == ASSUME CpInv, CpKillToStart \/ CpKillToEnd PROVE CpInv' /\ Closed
<1>1. cpText \in CpLine /\ cpCol \in 0 .. Len(cpText) /\ cpCol + 1 \in Nat \ {0} /\ cpCol \in Nat
  BY LenProperties DEF CpInv, CpAsked, CpLine
<1>2. CASE CpKillToStart
  <2>1. CpEdited(CpFrom(cpText, cpCol + 1), 0) /\ CpRefresh(cpText', 0, FALSE)
    BY <1>2 DEF CpKillToStart
  <2>2. CpFrom(cpText, cpCol + 1) \in CpLine /\ 0 \in 0 .. Len(CpFrom(cpText, cpCol + 1))
    BY <1>1, CpFromType, LenProperties DEF CpLine
  <2> QED BY <2>1, <2>2, EditIs, RefreshIs, KeyKeepsCp
<1>3. CASE CpKillToEnd
  <2>1. CpEdited(CpBefore(cpText, cpCol), cpCol) /\ CpRefresh(cpText', cpCol, FALSE)
    BY <1>3 DEF CpKillToEnd
  <2>2. CpBefore(cpText, cpCol) \in CpLine /\ cpCol \in 0 .. Len(CpBefore(cpText, cpCol))
    BY <1>1, CpSides
  <2> QED BY <2>1, <2>2, EditIs, RefreshIs, KeyKeepsCp
<1> QED BY <1>2, <1>3

LEMMA CpMoveStep == ASSUME CpInv, NEW col \in 0 .. Len(cpText), CpMove(col) PROVE CpInv' /\ Closed
<1>1. cpCol' = col /\ cpMoved' = TRUE /\ cpText' = cpText /\ Asked /\ Closed
  BY LeaveIs DEF CpMove
<1>2. CpAsked(cpText', cpCol')
  BY <1>1 DEF CpInv, CpAsked
<1> QED BY <1>1, <1>2, KeyKeepsCp

LEMMA AcceptStep == ASSUME CpInv, CpAccept PROVE CpInv' /\ Closed
<1> DEFINE done == CpApplied(cpUi.prefix)
<1>1. CpUiOK(cpUi) /\ CpEdited(done.text, done.col) /\ CpCancel
  BY DEF CpAccept, CpInv
<1>2. Len(cpUi.prefix) \in Nat
  <2>1. CpBefore(cpUi.text, cpUi.col) \in CpLine
    BY <1>1, CpSides DEF CpUiOK, CpAsked
  <2> QED BY <1>1, <2>1, EndIs, LenProperties DEF CpUiOK, CpLine
<1>3. done.text \in CpLine /\ done.col \in 0 .. Len(done.text)
  BY <1>2, AppliedIs
<1> HIDE DEF done
<1> QED BY <1>1, <1>3, EditIs, CancelIs, KeyKeepsCp

LEMMA ReplaceStep == ASSUME CpInv, NEW text \in CpLine, CpReplace(text) PROVE CpInv' /\ Closed
<1>1. Len(text) \in 0 .. Len(text)
  BY LenProperties DEF CpLine
<1>2. CpEdited(text, Len(text)) /\ CpCancel
  BY DEF CpReplace
<1> QED BY <1>1, <1>2, EditIs, CancelIs, KeyKeepsCp

LEMMA OtherKeyStep == ASSUME CpInv, CpEscape \/ CpTab PROVE CpInv' /\ Closed
<1>1. UNCHANGED <<cpText, cpCol, cpMoved>>
  BY DEF CpEscape, CpTab
<1>2. CpAsked(cpText', cpCol') /\ cpMoved' \in BOOLEAN
  BY <1>1 DEF CpInv, CpAsked
<1>3. Asked /\ Closed
  <2>1. CASE CpEscape
    BY <2>1, CancelIs DEF CpEscape
  <2>2. CASE CpTab
    <3>1. Closed
      BY <2>2 DEF CpTab, CpKeepUi, Closed
    <3>2. CpRequest(cpText, cpCol, CpContext(CpBefore(cpText, cpCol)).kind # "name", TRUE)
      BY <2>2 DEF CpTab
    <3>3. (CpContext(CpBefore(cpText, cpCol)).kind # "name") \in BOOLEAN
      OBVIOUS
    <3> QED BY <3>1, <3>2, <3>3, RequestIs
  <2> QED BY <2>1, <2>2
<1> QED BY <1>2, <1>3, KeyKeepsCp

-----------------------------------------------------------------------------
LEMMA TimerStep == ASSUME CpInv, CpTimerFires PROVE CpInv' /\ Closed
<1>1. cpWaiting' = cpTimer /\ cpTimer' = CpNone /\ UNCHANGED <<cpText, cpCol, cpUi, cpOverlay, cpRun, cpMoved>> /\ cpTimer # CpNone
  BY DEF CpTimerFires
<1>2. (cpRun = CpNone \/ CpRunOK(cpRun))' /\ (cpUi = CpNone \/ CpUiOK(cpUi))'
  BY <1>1 DEF CpInv, CpRunOK, CpUiOK, CpAsked, EndOf, CpBefore
<1> QED BY <1>1, <1>2 DEF CpInv, CpAsks, CpAsked, OverlayMatches, Closed

(* A request starts for the line as it is, when none waits or is timed. *)
LEMMA StartStep == ASSUME CpInv, CpStart PROVE CpInv' /\ Closed
<1> DEFINE t == CpBefore(cpText, cpCol)
           run == [force |-> cpWaiting.force, explicit |-> cpWaiting.explicit, text |-> cpText, col |-> cpCol, aborted |-> FALSE,
                   prefix |-> CpPrefix(t, cpWaiting.force), kind |-> CpKind(t, cpWaiting.force)]
<1>1. cpWaiting # CpNone /\ cpWaiting' = CpNone /\ cpRun' = run /\ UNCHANGED <<cpText, cpCol, cpUi, cpOverlay, cpTimer, cpMoved>>
  BY DEF CpStart
<1>2. cpWaiting \in CpOptions /\ cpTimer = CpNone
  BY <1>1 DEF CpInv
<1>3. cpWaiting.force \in BOOLEAN /\ cpWaiting.explicit \in BOOLEAN
  BY <1>2 DEF CpOptions
<1>4. cpText \in CpLine /\ cpCol \in 0 .. Len(cpText) /\ cpCol \in Nat /\ t \in CpLine
  BY CpSides, LenProperties DEF CpInv, CpAsked, CpLine
<1> HIDE DEF t
<1>5. CpPrefix(t, cpWaiting.force) = CpNoPrefix \/ EndOf(CpPrefix(t, cpWaiting.force), t)
  BY <1>3, <1>4, PrefixIs DEF CpLine
<1>6. CpPrefix(t, cpWaiting.force) \in Seq(CpChars \cup {"none"})
  <2>1. CpNoPrefix \in Seq(CpChars \cup {"none"})
    BY DEF CpNoPrefix
  <2>2. t \in Seq(CpChars \cup {"none"})
    BY <1>4, SeqMonotonic DEF CpLine
  <2>3. EndOf(CpPrefix(t, cpWaiting.force), t) => CpPrefix(t, cpWaiting.force) \in Seq(CpChars \cup {"none"})
    BY <2>2, EndIs
  <2> QED BY <1>5, <2>1, <2>3
<1>7. CpKind(t, cpWaiting.force) \in {"file", "slash-command", "undefined"}
  BY <1>3, KindIs
<1>8. run \in CpWork /\ run.text = cpText /\ run.col = cpCol /\ run.prefix = CpPrefix(t, cpWaiting.force)
  BY <1>3, <1>4, <1>6, <1>7 DEF CpWork
<1> HIDE DEF run
<1>9. CpAsked(cpText, cpCol)
  BY DEF CpInv
<1>10. CpRunOK(run)
  BY <1>5, <1>8, <1>9 DEF CpRunOK, t
<1>11. (cpRun = CpNone \/ CpRunOK(cpRun))'
  BY <1>1, <1>10 DEF CpRunOK, CpAsked, EndOf, CpBefore
<1>12. (cpUi = CpNone \/ CpUiOK(cpUi))'
  BY <1>1 DEF CpInv, CpUiOK, CpAsked, EndOf, CpBefore
<1> QED BY <1>1, <1>2, <1>11, <1>12 DEF CpInv, CpAsks, CpAsked, OverlayMatches, Closed

(* What is shown is about the line as it is. *)
ShownFresh == cpUi' # cpUi /\ cpUi' # CpNone => cpUi'.text = cpText /\ cpUi'.col = cpCol /\ cpTimer = CpNone /\ cpWaiting = CpNone

LEMMA AnswerStep == ASSUME CpInv, NEW items \in Nat, CpAnswer(items) PROVE CpInv' /\ ShownFresh
<1>1. cpRun # CpNone /\ CpRunOK(cpRun) /\ cpRun' = CpNone /\ UNCHANGED <<cpTimer, cpWaiting>> /\ (cpRun.prefix = CpNoPrefix => items = 0)
  BY DEF CpAnswer, CpInv
<1> DEFINE rest == /\ (cpRun = CpNone \/ CpRunOK(cpRun))'
                   /\ ({cpTimer, cpWaiting} \subseteq CpOptions \cup {CpNone} /\ CpNone \in {cpTimer, cpWaiting})'
                   /\ (CpAsks /\ cpRun # CpNone => cpRun.aborted)'
<1>2. rest
  BY <1>1 DEF CpInv
<1> HIDE DEF rest
<1>3. UNCHANGED cpUi => (cpUi = CpNone \/ CpUiOK(cpUi))'
  BY DEF CpInv, CpUiOK, CpAsked, EndOf, CpBefore
<1>4. UNCHANGED <<cpText, cpCol, cpMoved>> => (CpAsked(cpText, cpCol) /\ cpMoved \in BOOLEAN)'
  BY DEF CpInv, CpAsked
<1>5. CASE ~CpCurrent \/ items = 0
  <2>1. Closed /\ UNCHANGED <<cpText, cpCol, cpMoved>>
    BY <1>5 DEF CpAnswer, Closed, CpKeepUi, CpClearUi
  <2>2. OverlayMatches' /\ ShownFresh /\ (cpUi = CpNone \/ CpUiOK(cpUi))'
    BY <1>3, <2>1 DEF Closed, CpInv, OverlayMatches, ShownFresh
  <2> QED BY <1>2, <1>4, <2>1, <2>2 DEF CpInv, rest
<1>6. CASE CpCurrent /\ items # 0 /\ items = 1 /\ cpRun.force /\ cpRun.explicit
  <2> DEFINE done == CpApplied(cpRun.prefix)
  <2>1. CpEdited(done.text, done.col) /\ UNCHANGED <<cpUi, cpOverlay>>
    BY <1>6 DEF CpAnswer, CpKeepUi
  <2>2. Len(cpRun.prefix) \in Nat
    BY <1>1, LenProperties DEF CpRunOK, CpWork
  <2>3. done.text \in CpLine /\ done.col \in 0 .. Len(done.text)
    BY <2>2, AppliedIs
  <2> HIDE DEF done
  <2>4. (CpAsked(cpText, cpCol) /\ cpMoved \in BOOLEAN)'
    BY <2>1, <2>3, EditIs DEF CpAsked
  <2>5. OverlayMatches' /\ ShownFresh /\ (cpUi = CpNone \/ CpUiOK(cpUi))'
    BY <1>3, <2>1 DEF CpInv, OverlayMatches, ShownFresh
  <2> QED BY <1>2, <2>4, <2>5 DEF CpInv, rest
<1>7. CASE CpCurrent /\ items # 0 /\ ~(items = 1 /\ cpRun.force /\ cpRun.explicit)
  <2> DEFINE ui == [state |-> IF cpRun.force THEN "force" ELSE "regular", prefix |-> cpRun.prefix, kind |-> cpRun.kind,
                    text |-> cpRun.text, col |-> cpRun.col]
  <2>1. cpUi' = ui /\ cpOverlay' = TRUE /\ UNCHANGED <<cpText, cpCol, cpMoved>>
    BY <1>7 DEF CpAnswer, CpShow
  <2>2. ~cpRun.aborted /\ cpRun.text = cpText /\ cpRun.col = cpCol
    BY <1>7 DEF CpCurrent
  <2>3. ui # CpNone
    <3>1. "state" \in DOMAIN ui /\ "state" \notin DOMAIN CpNone
      BY DEF CpNone
    <3> QED BY <3>1
  <2>4. ui.state \in {"regular", "force"} /\ ui.text = cpText /\ ui.col = cpCol /\ ui.prefix = cpRun.prefix
    BY <2>2
  <2> HIDE DEF ui
  <2>5. EndOf(cpRun.prefix, CpBefore(cpText, cpCol)) /\ CpAsked(cpText, cpCol)
    BY <1>1, <1>7, <2>2 DEF CpRunOK
  <2>6. CpUiOK(ui)
    BY <2>4, <2>5 DEF CpUiOK
  <2>7. (cpUi = CpNone \/ CpUiOK(cpUi))'
    BY <2>1, <2>6 DEF CpUiOK, CpAsked, EndOf, CpBefore
  <2>8. OverlayMatches'
    BY <2>1, <2>3 DEF OverlayMatches
  <2>9. ~CpAsks
    BY <1>1, <2>2 DEF CpInv
  <2>10. ShownFresh
    BY <2>1, <2>4, <2>9 DEF ShownFresh, CpAsks
  <2> QED BY <1>2, <1>4, <2>1, <2>7, <2>8, <2>10 DEF CpInv, rest
<1> QED BY <1>5, <1>6, <1>7

LEMMA CpStays == ASSUME CpInv, UNCHANGED cpVars PROVE CpInv'
BY DEF CpInv, cpVars, CpAsked, CpRunOK, CpUiOK, EndOf, CpBefore, CpAsks, OverlayMatches

LEMMA ClosedIsFresh == Closed => ShownFresh
BY DEF Closed, ShownFresh

LEMMA CpNextKeeps == CpInv /\ [CpNext]_cpVars => CpInv' /\ [ShownFresh]_cpVars
<1> SUFFICES ASSUME CpInv, CpNext PROVE CpInv' /\ ShownFresh
  BY CpStays
<1>1. CASE CpBackspace \/ CpForwardDelete \/ CpKillToStart \/ CpKillToEnd
  BY <1>1, BackspaceStep, ForwardStep, CpKillStep, ClosedIsFresh
<1>2. CASE CpAccept \/ CpEscape \/ CpTab \/ CpTimerFires \/ CpStart
  BY <1>2, AcceptStep, OtherKeyStep, TimerStep, StartStep, ClosedIsFresh
<1>3. CASE \E ch \in CpChars : CpType(ch)
  BY <1>3, TypeStep, ClosedIsFresh
<1>4. CASE \E col \in {0, cpCol - 1, cpCol + 1, Len(cpText)} \cap (0 .. Len(cpText)) : CpMove(col)
  <2>1. PICK col \in 0 .. Len(cpText) : CpMove(col)
    BY <1>4
  <2> QED BY <2>1, CpMoveStep, ClosedIsFresh
<1>5. CASE CpEnter
  <2>1. <<>> \in CpLine
    BY EmptySeq DEF CpLine
  <2> QED BY <1>5, <2>1, ReplaceStep, ClosedIsFresh DEF CpEnter
<1>6. CASE \E text \in CpTexts : CpSetText(text)
  <2>1. PICK text \in CpTexts : CpReplace(text)
    BY <1>6 DEF CpSetText
  <2>2. text \in CpLine
    BY CpAssumption DEF CpLine
  <2> QED BY <2>1, <2>2, ReplaceStep, ClosedIsFresh
<1>7. CASE \E items \in 0 .. 2 : CpAnswer(items)
  <2>1. PICK items \in Nat : CpAnswer(items)
    BY <1>7
  <2> QED BY <2>1, AnswerStep
<1> QED BY <1>1, <1>2, <1>3, <1>4, <1>5, <1>6, <1>7 DEF CpNext

LEMMA CpLimit == CpMaxLength \in Nat
BY CpAssumption

LEMMA CpInitIs == CpInit => CpInv
<1> SUFFICES ASSUME CpInit PROVE CpInv
  OBVIOUS
<1>1. <<>> \in CpLine /\ Len(<<>>) = 0 /\ 0 <= CpMaxLength
  <2>1. <<>> \in CpLine /\ Len(<<>>) = 0
    BY EmptySeq DEF CpLine
  <2> QED BY <2>1, CpLimit
<1>2. CpAsked(cpText, cpCol)
  BY <1>1 DEF CpInit, CpAsked
<1> QED BY <1>2 DEF CpInit, CpInv, CpAsks, OverlayMatches

LEMMA StringsAre ==
    ASSUME NEW t \in CpLine, Len(t) <= CpMaxLength
    PROVE  t \in CpStrings
<1>1. Len(t) \in Nat /\ t \in [1 .. Len(t) -> CpChars]
  BY LenProperties DEF CpLine
<1>2. Len(t) \in 0 .. CpMaxLength
  BY <1>1, CpLimit
<1> QED BY <1>1, <1>2 DEF CpStrings

LEMMA CpIsSafe == CpInv => CompletionSafe
<1> SUFFICES ASSUME CpInv PROVE CompletionSafe
  OBVIOUS
<1>1. cpUi # CpNone => cpUi.state \in {"regular", "force"} /\ cpUi.prefix \in CpStrings
  <2> SUFFICES ASSUME CpUiOK(cpUi) PROVE cpUi.prefix \in CpStrings
    BY DEF CpInv, CpUiOK
  <2>1. CpBefore(cpUi.text, cpUi.col) \in CpLine /\ Len(CpBefore(cpUi.text, cpUi.col)) = cpUi.col /\ cpUi.col \in 0 .. Len(cpUi.text)
    BY CpSides DEF CpUiOK, CpAsked
  <2>2. cpUi.prefix \in CpLine /\ Len(cpUi.prefix) \in 0 .. cpUi.col
    BY <2>1, EndIs DEF CpUiOK, CpLine
  <2>3. Len(cpUi.text) \in Nat /\ Len(cpUi.text) <= CpMaxLength
    BY LenProperties DEF CpUiOK, CpAsked, CpLine
  <2>4. Len(cpUi.prefix) <= CpMaxLength
    BY <2>1, <2>2, <2>3, CpLimit
  <2> QED BY <2>2, <2>4, StringsAre
<1>2. CpTypeOK
  <2>1. cpOverlay \in BOOLEAN
    BY DEF CpInv, OverlayMatches
  <2>2. cpText \in CpStrings
    BY StringsAre DEF CpInv, CpAsked
  <2> QED BY <1>1, <2>1, <2>2 DEF CpInv, CpAsked, CpTypeOK
<1>3. AcceptReplacesPrefix
  <2> DEFINE done == CpApplied(cpUi.prefix)
             around == cpCol - Len(cpUi.prefix)
  <2> SUFFICES ASSUME cpUi # CpNone, cpUi.text = cpText, cpUi.col = cpCol
               PROVE  /\ around >= 0 /\ SubSeq(cpText, around + 1, cpCol) = cpUi.prefix
                      /\ SubSeq(done.text, 1, around) = SubSeq(cpText, 1, around)
                      /\ CpFrom(done.text, done.col + 1) = CpFrom(cpText, cpCol + 1)
    BY DEF AcceptReplacesPrefix, CpFresh
  <2> DEFINE t == CpBefore(cpText, cpCol)
  <2>1. cpText \in CpLine /\ cpCol \in 0 .. Len(cpText) /\ t \in CpLine /\ Len(t) = cpCol /\ EndOf(cpUi.prefix, t) /\ Len(cpText) \in Nat
    BY CpSides, LenProperties DEF CpInv, CpUiOK, CpAsked, CpLine
  <2> HIDE DEF t
  <2>2. /\ Len(cpUi.prefix) \in 0 .. cpCol /\ cpUi.prefix = SubSeq(t, cpCol - Len(cpUi.prefix) + 1, cpCol)
        /\ cpUi.prefix \in CpLine
    <3>1. Len(cpUi.prefix) \in 0 .. Len(t) /\ cpUi.prefix = SubSeq(t, Len(t) - Len(cpUi.prefix) + 1, Len(t)) /\ cpUi.prefix \in CpLine
      BY <2>1, EndIs DEF CpLine
    <3> QED BY <2>1, <3>1
  <2>3. around \in 0 .. cpCol /\ around \in 0 .. Len(cpText) /\ around >= 0 /\ around <= cpCol
    BY <2>1, <2>2
  <2>4. SubSeq(cpText, around + 1, cpCol) = cpUi.prefix
    <3> HIDE DEF around
    <3>1. cpCol \in around .. Len(cpText) /\ cpCol \in around .. Len(t) /\ around \in 0 .. Len(t) /\ 0 \in 0 .. Len(cpText) /\ cpCol \in 0 .. Len(cpText)
      BY <2>1, <2>3
    <3> DEFINE a == SubSeq(cpText, around + 1, cpCol)
               b == SubSeq(t, around + 1, cpCol)
    <3>2. a \in CpLine /\ Len(a) = cpCol - around /\ \A k \in 1 .. cpCol - around : a[k] = cpText[around + k]
      <4>1. cpText \in Seq(CpChars)
        BY <2>1 DEF CpLine
      <4>2. a \in Seq(CpChars) /\ Len(a) = cpCol - around /\ \A k \in 1 .. cpCol - around : a[k] = cpText[around + k]
        BY <3>1, <4>1, Cut
      <4> QED BY <4>2 DEF CpLine
    <3>3. b \in CpLine /\ Len(b) = cpCol - around /\ \A k \in 1 .. cpCol - around : b[k] = t[around + k]
      <4>1. t \in Seq(CpChars) /\ cpCol \in around .. Len(t)
        BY <2>1, <3>1 DEF CpLine
      <4>2. b \in Seq(CpChars) /\ Len(b) = cpCol - around /\ \A k \in 1 .. cpCol - around : b[k] = t[around + k]
        BY <3>1, <4>1, Cut
      <4> QED BY <4>2 DEF CpLine
    <3>4. \A k \in 1 .. cpCol : t[k] = cpText[k]
      <4>1. \A k \in 1 .. cpCol - 0 : SubSeq(cpText, 0 + 1, cpCol)[k] = cpText[0 + k]
        BY <2>1, <3>1, Cut DEF CpLine
      <4>2. cpCol - 0 = cpCol /\ 0 + 1 = 1 /\ \A k \in 1 .. cpCol : 0 + k = k
        BY <2>1
      <4> QED BY <4>1, <4>2 DEF t, CpBefore
    <3> HIDE DEF a, b
    <3>5. \A k \in 1 .. cpCol - around : around + k \in 1 .. cpCol
      BY <2>1, <2>3
    <3>6. a = b
      <4>1. \A k \in 1 .. Len(a) : a[k] = b[k]
        BY <3>2, <3>3, <3>4, <3>5
      <4> QED BY <3>2, <3>3, <4>1, SeqEqual DEF CpLine
    <3>7. cpUi.prefix = b
      BY <2>2 DEF b, around
    <3> QED BY <3>6, <3>7 DEF a
  <2>5. CpSlice(cpText, around) = SubSeq(cpText, 1, around) /\ Len(SubSeq(cpText, 1, around)) = around
    <3>1. CpSlice(cpText, around) = SubSeq(cpText, 1, around)
      BY <2>3 DEF CpSlice
    <3> HIDE DEF around
    <3> QED BY <2>1, <2>3, <3>1, Sides DEF CpLine
  <2>6. Len(cpUi.prefix) \in Nat
    BY <2>1, <2>2
  <2>7. /\ SubSeq(done.text, 1, Len(CpSlice(cpText, cpCol - Len(cpUi.prefix)))) = CpSlice(cpText, cpCol - Len(cpUi.prefix))
        /\ CpFrom(done.text, done.col + 1) = CpFrom(cpText, cpCol + 1)
    BY <2>6, AppliedIs
  <2>8. SubSeq(done.text, 1, around) = SubSeq(cpText, 1, around)
    <3> HIDE DEF done
    <3> QED BY <2>5, <2>7
  <2> QED BY <2>3, <2>4, <2>7, <2>8
<1> QED BY <1>2, <1>3 DEF CpInv, CompletionSafe

(* The popup, its requests and what accepting replaces agree at every moment, and a
   suggestion that appears is for the line as it is, with no later request on its
   way: for any alphabet that has the marks of completion and lines of any length. *)
THEOREM CompletionIsSafe == CpSpec => []CompletionSafe /\ PopupFresh
<1>1. CpInv /\ [CpNext]_cpVars => CpInv' /\ [cpUi' # cpUi /\ cpUi' # CpNone =>
          cpUi'.text = cpText /\ cpUi'.col = cpCol /\ cpTimer = CpNone /\ cpWaiting = CpNone]_cpVars
  BY CpNextKeeps DEF ShownFresh
<1> QED BY <1>1, CpInitIs, CpIsSafe, PTL DEF CpSpec, PopupFresh

-----------------------------------------------------------------------------
(* The overlays of a frame. *)
OlShown == [option : OlOption, body : Seq(BOOLEAN)]

OlTypes ==
    /\ olTerm \in (Nat \ {0}) \X (Nat \ {0}) /\ olLines \in Nat
    /\ olDock \in Seq(Nat \X Nat) /\ olMarker \in Int \X Int
    /\ olStack \in Seq(OlShown)

(* A frame is what its overlays, the content and the terminal make of it. *)
OlDrawn ==
    /\ olFrame.height = OlWorkingHeight
    /\ olFrame.placed = [i \in DOMAIN olStack |-> OlPlaced(i, olFrame.height)]
    /\ olFrame.selectable = OlSelectable(olFrame.placed, olFrame.height)

OlInv == OlTypes /\ (olFrame = OlRequested \/ OlDrawn)

-----------------------------------------------------------------------------
LEMMA OlInitIs == OlInit => OlInv
<1> SUFFICES ASSUME OlInit PROVE OlInv
  OBVIOUS
<1>1. olTerm \in (Nat \ {0}) \X (Nat \ {0}) /\ olLines \in Nat
  BY OlAssumption DEF OlInit
<1>2. olMarker \in Int \X Int /\ olStack \in Seq(OlShown)
  BY EmptySeq DEF OlInit
<1>3. olDock \in Seq(Nat \X Nat)
  BY EmptySeq DEF OlInit
<1> QED BY <1>1, <1>2, <1>3 DEF OlInv, OlTypes, OlInit

LEMMA OlSame ==
    ASSUME olTerm' = olTerm, olLines' = olLines, olDock' = olDock, olMarker' = olMarker, olStack' = olStack
    PROVE  /\ OlWorkingHeight' = OlWorkingHeight
           /\ \A i, h : OlPlaced(i, h)' = OlPlaced(i, h)
           /\ \A p, h : OlSelectable(p, h)' = OlSelectable(p, h)
<1>1. OlWorkingHeight' = OlWorkingHeight
  BY DEF OlWorkingHeight, OlLayout, OlResolved, OlRoom, OlResolvedWidth, OlBody, OlMaxHeight, OlHeight, OlWidth, OlSeeksMarker
<1>2. ASSUME NEW i, NEW h PROVE OlPlaced(i, h)' = OlPlaced(i, h)
  <2>1. OlBody(i)' = OlBody(i) /\ OlHeight' = OlHeight /\ OlWidth' = OlWidth
    BY DEF OlBody, OlMaxHeight, OlRoom, OlHeight, OlWidth
  <2>2. OlLayout(i)' = OlLayout(i)
    BY <2>1 DEF OlLayout, OlResolved, OlRoom, OlResolvedWidth, OlHeight, OlWidth
  <2>3. OlSeeksMarker(i)' = OlSeeksMarker(i) /\ OlFindsMarker(i)' = OlFindsMarker(i)
    BY DEF OlSeeksMarker, OlFindsMarker
  <2>4. \A at, body : OlBox(i, at, body, h)' = OlBox(i, at, body, h)
    BY <2>1 DEF OlBox
  <2>5. \A at, viewport, row : OlPopup(i, at, viewport, row)' = OlPopup(i, at, viewport, row)
    BY <2>1 DEF OlPopup
  <2> QED BY <2>1, <2>2, <2>3, <2>4, <2>5 DEF OlPlaced
<1>3. \A p, h : OlSelectable(p, h)' = OlSelectable(p, h)
  <2>1. OlDockText' = OlDockText
    BY DEF OlDockText, OlDockHeight, OlHeight, OlWidth
  <2> QED BY <2>1 DEF OlSelectable, OlFocused, OlWidth
<1> QED BY <1>1, <1>2, <1>3

LEMMA ComposesTyped ==
    ASSUME NEW rows \in Nat, NEW dock \in Seq(Nat \X Nat), OlComposes(rows, dock), olStack \in Seq(OlShown)
    PROVE  olLines' \in Nat /\ olMarker' \in Int \X Int /\ olDock' \in Seq(Nat \X Nat) /\ olStack' \in Seq(OlShown)
<1>1. olLines' \in Nat
  BY OlAssumption DEF OlComposes
<1>2. \A line \in 0 .. olLines' - 1 : line \in Int
  BY <1>1
<1>3. olMarker' \in Int \X Int
  BY <1>2 DEF OlComposes
<1> QED BY <1>1, <1>3 DEF OlComposes

LEMMA OlNextKeeps == OlInv /\ [OlNext]_olVars => OlInv'
<1> SUFFICES ASSUME OlInv, [OlNext]_olVars PROVE OlInv'
  OBVIOUS
<1>1. CASE OlShow /\ olFrame' = OlRequested
  <2>1. PICK option \in OlOptions, body \in OlBodies : olStack' = Append(olStack, [option |-> option, body |-> body])
    BY <1>1 DEF OlShow
  <2>2. option \in OlOption /\ body \in Seq(BOOLEAN)
    BY OlAssumption
  <2>3. [option |-> option, body |-> body] \in OlShown
    BY <2>2 DEF OlShown
  <2>4. olStack' \in Seq(OlShown)
    BY <2>1, <2>3, AppendProperties DEF OlInv, OlTypes
  <2> QED BY <1>1, <2>4 DEF OlShow, OlInv, OlTypes
<1>2. CASE OlHide /\ olFrame' = OlRequested
  <2>1. PICK i \in DOMAIN olStack : olStack' = RemoveAt(olStack, i)
    BY <1>2 DEF OlHide
  <2>2. i \in 1 .. Len(olStack)
    BY <2>1, LenProperties DEF OlInv, OlTypes
  <2>3. olStack' \in Seq(OlShown)
    BY <2>1, <2>2, AllButOne DEF OlInv, OlTypes
  <2> QED BY <1>2, <2>3 DEF OlHide, OlInv, OlTypes
<1>3. CASE OlResize /\ olFrame' = OlRequested
  <2>1. PICK size \in OlSizes :
            olTerm' = size
            /\ IF olDock = <<>> THEN UNCHANGED <<olLines, olDock, olMarker, olStack>> ELSE OlComposes(size[2], olDock)
    BY <1>3 DEF OlResize
  <2>2. size \in (Nat \ {0}) \X (Nat \ {0})
    BY OlAssumption
  <2>3. olTerm' \in (Nat \ {0}) \X (Nat \ {0}) /\ size[2] \in Nat
    BY <2>1, <2>2
  <2>4. CASE olDock = <<>>
    BY <1>3, <2>1, <2>3, <2>4 DEF OlInv, OlTypes
  <2>5. CASE olDock # <<>>
    <3>1. OlComposes(size[2], olDock)
      BY <2>1, <2>5
    <3>2. olDock \in Seq(Nat \X Nat) /\ olStack \in Seq(OlShown)
      BY DEF OlInv, OlTypes
    <3>3. olLines' \in Nat /\ olMarker' \in Int \X Int /\ olDock' \in Seq(Nat \X Nat) /\ olStack' \in Seq(OlShown)
      BY <2>3, <3>1, <3>2, ComposesTyped
    <3> QED BY <1>3, <2>3, <3>3 DEF OlInv, OlTypes
  <2> QED BY <2>4, <2>5
<1>4. CASE (OlContent \/ OlSwitch) /\ olFrame' = OlRequested
  <2>1. PICK dock \in OlDocks : OlComposes(OlHeight, dock) /\ UNCHANGED olTerm
    BY <1>4 DEF OlContent, OlSwitch
  <2>2. dock \in Seq(Nat \X Nat)
    BY OlAssumption
  <2>3. olTerm \in (Nat \ {0}) \X (Nat \ {0}) /\ olStack \in Seq(OlShown)
    BY DEF OlInv, OlTypes
  <2>4. OlHeight \in Nat
    BY <2>3 DEF OlHeight
  <2>5. olLines' \in Nat /\ olMarker' \in Int \X Int /\ olDock' \in Seq(Nat \X Nat) /\ olStack' \in Seq(OlShown)
    BY <2>1, <2>2, <2>3, <2>4, ComposesTyped
  <2> QED BY <1>4, <2>1, <2>3, <2>5 DEF OlInv, OlTypes
<1>5. CASE OlRender
  <2>1. /\ UNCHANGED olWhat
        /\ olFrame' = [height |-> OlWorkingHeight, placed |-> [i \in DOMAIN olStack |-> OlPlaced(i, OlWorkingHeight)],
                       selectable |-> OlSelectable([i \in DOMAIN olStack |-> OlPlaced(i, OlWorkingHeight)], OlWorkingHeight)]
    BY <1>5 DEF OlRender
  <2> DEFINE height == OlWorkingHeight
             placed == [i \in DOMAIN olStack |-> OlPlaced(i, OlWorkingHeight)]
  <2>2. olFrame'.height = height /\ olFrame'.placed = placed /\ olFrame'.selectable = OlSelectable(placed, height)
    <3> HIDE DEF height, placed
    <3>1. olFrame' = [height |-> height, placed |-> placed, selectable |-> OlSelectable(placed, height)]
      BY <2>1 DEF height, placed
    <3> QED BY <3>1
  <2>3. olTerm' = olTerm /\ olLines' = olLines /\ olDock' = olDock /\ olMarker' = olMarker /\ olStack' = olStack
    BY <2>1 DEF olWhat
  <2>7. OlDrawn'
    BY <2>2, <2>3, OlSame DEF OlDrawn
  <2> QED BY <2>3, <2>7 DEF OlInv, OlTypes
<1>6. CASE UNCHANGED olVars
  <2>1. olTerm' = olTerm /\ olLines' = olLines /\ olDock' = olDock /\ olMarker' = olMarker /\ olStack' = olStack /\ olFrame' = olFrame
    BY <1>6 DEF olVars, olWhat
  <2> QED BY <2>1, OlSame DEF OlInv, OlTypes, OlDrawn
<1> QED BY <1>1, <1>2, <1>3, <1>4, <1>5, <1>6 DEF OlNext

-----------------------------------------------------------------------------
LEMMA OlBounds ==
    /\ \A a, b \in Int : OlMax(a, b) \in {a, b} /\ OlMax(a, b) >= a /\ OlMax(a, b) >= b /\ OlMax(a, b) \in Int
    /\ \A a, b \in Int : OlMin(a, b) \in {a, b} /\ OlMin(a, b) <= a /\ OlMin(a, b) <= b /\ OlMin(a, b) \in Int
BY DEF OlMax, OlMin

LEMMA HundredthIs == ASSUME NEW n \in Int PROVE n \div 100 \in Int /\ n \div 2 \in Int
OBVIOUS

LEMMA PositionIs ==
    ASSUME NEW value \in OlValue, NEW side, NEW size \in Int, NEW room \in Int, NEW margin \in Int
    PROVE  OlPosition(value, side, size, room, margin) \in Int
<1>1. value.n \in Int /\ room - size \in Int
  BY DEF OlValue
<1>2. OlAnchor(side, size, room, margin) \in Int
  <2>1. (room - size) \div 2 \in Int
    BY <1>1, HundredthIs
  <2>2. margin + (room - size) \div 2 \in Int /\ margin + room - size \in Int
    BY <2>1
  <2>3. OlAnchor(side, size, room, margin) \in {margin, margin + room - size, margin + (room - size) \div 2}
    BY Zenon DEF OlAnchor
  <2> QED BY <2>2, <2>3
<1>3. margin + (OlMax(0, room - size) * value.n) \div 100 \in Int
  <2>1. OlMax(0, room - size) * value.n \in Int
    <3>1. OlMax(0, room - size) \in Int
      BY <1>1 DEF OlMax
    <3> QED BY <1>1, <3>1
  <2>2. (OlMax(0, room - size) * value.n) \div 100 \in Int
    BY <2>1, HundredthIs
  <2> QED BY <2>2
<1> QED BY <1>1, <1>2, <1>3 DEF OlPosition

(* Where an overlay is: not wider than its room, and between its margins if it can be. *)
LEMMA ResolvedIs ==
    ASSUME OlTypes, NEW o \in OlOption, NEW height \in Nat
    PROVE  LET at == OlResolved(o, height)
           IN  /\ at.width \in Nat \ {0} /\ at.width <= OlRoom(o).width
               /\ at.row \in Nat /\ at.row >= o.margin.top /\ at.row <= OlMax(o.margin.top, OlHeight - o.margin.bottom - height)
               /\ at.col \in Nat /\ at.col >= o.margin.left /\ at.col <= OlMax(o.margin.left, OlWidth - o.margin.right - at.width)
<1>1. OlWidth \in Nat \ {0} /\ OlHeight \in Nat \ {0}
  BY DEF OlTypes, OlWidth, OlHeight
<1>2. /\ o.width \in OlValue /\ o.minWidth \in Int /\ o.row \in OlValue /\ o.col \in OlValue /\ o.offsetX \in Int /\ o.offsetY \in Int
      /\ o.margin.top \in Nat /\ o.margin.right \in Nat /\ o.margin.bottom \in Nat /\ o.margin.left \in Nat
  BY DEF OlOption
<1>3. \A value \in OlValue, reference \in Int : OlSize(value, reference) \in Int
  BY HundredthIs DEF OlSize, OlValue
<1>4. OlRoom(o).width = OlMax(1, OlWidth - o.margin.left - o.margin.right)
      /\ OlRoom(o).height = OlMax(1, OlHeight - o.margin.top - o.margin.bottom)
  BY DEF OlRoom
<1>5. OlRoom(o).width \in Nat \ {0} /\ OlRoom(o).height \in Nat \ {0}
  BY <1>1, <1>2, <1>4 DEF OlMax
<1> DEFINE wanted == IF o.width.unit = "none" THEN OlMin(80, OlRoom(o).width) ELSE OlSize(o.width, OlWidth)
           width == OlResolvedWidth(o)
<1>6. wanted \in Int
  BY <1>1, <1>2, <1>3, <1>5 DEF OlMin
<1>7. width = OlMax(1, OlMin(OlMax(wanted, o.minWidth), OlRoom(o).width))
  BY DEF OlResolvedWidth
<1> HIDE DEF wanted, width
<1>8. width \in Nat \ {0} /\ width <= OlRoom(o).width
  <2>1. OlMax(wanted, o.minWidth) \in Int
    BY <1>2, <1>6, OlBounds
  <2>2. OlMin(OlMax(wanted, o.minWidth), OlRoom(o).width) \in Int /\ OlMin(OlMax(wanted, o.minWidth), OlRoom(o).width) <= OlRoom(o).width
    BY <1>5, <2>1 DEF OlMin
  <2> QED BY <1>5, <1>7, <2>2 DEF OlMax
<1> DEFINE row == OlPosition(o.row, o.anchor[1], height, OlRoom(o).height, o.margin.top) + o.offsetY
           col == OlPosition(o.col, o.anchor[2], width, OlRoom(o).width, o.margin.left) + o.offsetX
<1>10. row \in Int /\ col \in Int
  <2>1. OlPosition(o.row, o.anchor[1], height, OlRoom(o).height, o.margin.top) \in Int
    BY <1>2, <1>5, PositionIs
  <2>2. OlPosition(o.col, o.anchor[2], width, OlRoom(o).width, o.margin.left) \in Int
    BY <1>2, <1>5, <1>8, PositionIs
  <2> QED BY <1>2, <2>1, <2>2
<1> HIDE DEF row, col
<1>11. OlResolved(o, height) =
           [width |-> width, row |-> OlMax(o.margin.top, OlMin(row, OlHeight - o.margin.bottom - height)),
            col |-> OlMax(o.margin.left, OlMin(col, OlWidth - o.margin.right - width))]
  BY DEF OlResolved, row, col, width
<1>12. \A x, m, limit \in Int : /\ OlMax(m, OlMin(x, limit)) >= m /\ OlMax(m, OlMin(x, limit)) <= OlMax(m, limit)
                               /\ OlMax(m, OlMin(x, limit)) \in Int
  BY DEF OlMax, OlMin
<1>13. OlHeight - o.margin.bottom - height \in Int /\ OlWidth - o.margin.right - width \in Int
  BY <1>1, <1>2, <1>8
<1> DEFINE r == OlMax(o.margin.top, OlMin(row, OlHeight - o.margin.bottom - height))
           c == OlMax(o.margin.left, OlMin(col, OlWidth - o.margin.right - width))
<1>14. /\ r >= o.margin.top /\ r <= OlMax(o.margin.top, OlHeight - o.margin.bottom - height) /\ r \in Int
       /\ c >= o.margin.left /\ c <= OlMax(o.margin.left, OlWidth - o.margin.right - width) /\ c \in Int
  <2>1. o.margin.top \in Int /\ o.margin.left \in Int
    BY <1>2
  <2>2. r >= o.margin.top /\ r <= OlMax(o.margin.top, OlHeight - o.margin.bottom - height) /\ r \in Int
    BY <2>1, <1>10, <1>12, <1>13
  <2> QED BY <2>1, <2>2, <1>10, <1>12, <1>13
<1> HIDE DEF r, c
<1>15. OlResolved(o, height).width = width /\ OlResolved(o, height).row = r /\ OlResolved(o, height).col = c
  BY <1>11 DEF r, c
<1>16. r \in Nat /\ c \in Nat
  BY <1>2, <1>14
<1> QED BY <1>8, <1>14, <1>15, <1>16

LEMMA OlStackIs ==
    ASSUME OlTypes, NEW i \in DOMAIN olStack
    PROVE  /\ olStack[i].option \in OlOption /\ olStack[i].body \in Seq(BOOLEAN)
           /\ OlBody(i) \in Seq(BOOLEAN) /\ Len(OlBody(i)) \in Nat
<1>1. DOMAIN olStack = 1 .. Len(olStack) /\ olStack[i] \in OlShown
  <2>1. DOMAIN olStack = 1 .. Len(olStack)
    BY LenProperties DEF OlTypes
  <2> QED BY <2>1, ElementOfSeq DEF OlTypes
<1>2. olStack[i].option \in OlOption /\ olStack[i].body \in Seq(BOOLEAN)
  BY <1>1 DEF OlShown
<1> DEFINE body == olStack[i].body
           o == olStack[i].option
<1>3. Len(body) \in Nat /\ OlMaxHeight(o) \in Int /\ \A k \in 1 .. Len(body) : body[k] \in BOOLEAN
  <2>1. o.maxHeight \in OlValue /\ OlHeight \in Int /\ OlRoom(o).height \in Int
    <3>1. OlHeight \in Int /\ OlWidth \in Int
      BY DEF OlTypes, OlHeight, OlWidth
    <3>2. o.maxHeight \in OlValue /\ o.margin.top \in Nat /\ o.margin.bottom \in Nat
      BY <1>2 DEF OlOption
    <3>3. OlHeight - o.margin.top - o.margin.bottom \in Int
      BY <3>1, <3>2
    <3> QED BY <3>1, <3>2, <3>3 DEF OlRoom, OlMax
  <2>2. OlSize(o.maxHeight, OlHeight) \in Int
    BY <2>1, HundredthIs DEF OlSize, OlValue
  <2>3. OlMaxHeight(o) \in Int
    BY <2>1, <2>2 DEF OlMaxHeight, OlMax, OlMin
  <2> QED BY <1>2, <2>3, LenProperties, ElementOfSeq
<1> HIDE DEF body, o
<1>4. OlMin(Len(body), OlMaxHeight(o)) \in Int /\ OlMin(Len(body), OlMaxHeight(o)) <= Len(body)
  BY <1>3, OlBounds
<1>5. \A k \in 1 .. OlMin(Len(body), OlMaxHeight(o)) : body[k] \in BOOLEAN
  BY <1>3, <1>4
<1>6. SubSeq(body, 1, OlMin(Len(body), OlMaxHeight(o))) \in Seq(BOOLEAN)
  BY <1>4, <1>5, SubSeqProperties
<1>7. OlBody(i) \in Seq(BOOLEAN)
  BY <1>2, <1>6 DEF OlBody, body, o
<1> QED BY <1>2, <1>7, LenProperties

-----------------------------------------------------------------------------
(* Some number of a list of them is the largest. *)
LEMMA LargestOf ==
    ASSUME NEW n \in Nat, NEW f, \A i \in 1 .. n : f[i] \in Nat
    PROVE  \E b \in Nat : \A i \in 1 .. n : f[i] <= b
<1> DEFINE Bound(k) == \E b \in Nat : \A i \in 1 .. k : f[i] <= b
           C == {k \in 0 .. n : ~Bound(k)}
<1>1. SUFFICES ASSUME C # {} PROVE FALSE
  <2>1. n \in 0 .. n
    OBVIOUS
  <2> QED BY <2>1
<1>2. C \subseteq Nat
  OBVIOUS
<1>3. PICK m \in C : \A k \in C : m <= k
  BY <1>1, <1>2, LeastPosition
<1>4. m \in 0 .. n /\ ~Bound(m)
  BY <1>3
<1>5. m # 0
  <2>1. Bound(0)
    OBVIOUS
  <2> QED BY <1>4, <2>1
<1>6. m - 1 \in 0 .. n /\ ~(m <= m - 1)
  BY <1>4, <1>5
<1>7. Bound(m - 1)
  BY <1>3, <1>6
<1>8. PICK b \in Nat : \A i \in 1 .. m - 1 : f[i] <= b
  BY <1>7
<1>9. f[m] \in Nat /\ \A i \in 1 .. m : f[i] \in Nat
  BY <1>4, <1>5
<1> DEFINE c == IF f[m] <= b THEN b ELSE f[m]
<1>10. c \in Nat /\ f[m] <= c /\ b <= c
  BY <1>9
<1> HIDE DEF c
<1>11. ASSUME NEW i \in 1 .. m PROVE f[i] <= c
  <2>1. CASE i = m
    BY <1>10, <2>1
  <2>2. CASE i # m
    <3>1. i \in 1 .. m - 1
      BY <1>4, <2>2
    <3>2. f[i] <= b
      BY <1>8, <3>1
    <3> QED BY <1>9, <1>10, <3>2
  <2> QED BY <2>1, <2>2
<1>12. Bound(m)
  BY <1>10, <1>11
<1> QED BY <1>4, <1>12

OlLevels == {olLines, OlHeight} \cup {OlLayout(i).row + Len(OlBody(i)) : i \in {i \in DOMAIN olStack : ~OlSeeksMarker(i)}}

LEMMA LayoutIs ==
    ASSUME OlTypes, NEW i \in DOMAIN olStack
    PROVE  LET at == OlLayout(i)  o == olStack[i].option  height == Len(OlBody(i))
           IN  /\ height \in Nat /\ at.width \in Nat \ {0} /\ at.width <= OlRoom(o).width
               /\ at.row \in Nat /\ at.row >= o.margin.top /\ at.row <= OlMax(o.margin.top, OlHeight - o.margin.bottom - height)
               /\ at.col \in Nat /\ at.col >= o.margin.left /\ at.col <= OlMax(o.margin.left, OlWidth - o.margin.right - at.width)
BY OlStackIs, ResolvedIs DEF OlLayout

(* The screen is as high as the terminal, the content and the overlays ask for. *)
LEMMA WorkingIs ==
    ASSUME OlTypes
    PROVE  OlWorkingHeight \in OlLevels /\ OlWorkingHeight \in Nat /\ \A x \in OlLevels : x <= OlWorkingHeight
<1> DEFINE n == Len(olStack)
           f == [i \in 1 .. n |-> OlLayout(i).row + Len(OlBody(i))]
<1>1. n \in Nat /\ DOMAIN olStack = 1 .. n
  BY LenProperties DEF OlTypes
<1>2. \A i \in 1 .. n : OlLayout(i).row + Len(OlBody(i)) \in Nat
  <2> SUFFICES ASSUME NEW i \in 1 .. n PROVE OlLayout(i).row + Len(OlBody(i)) \in Nat
    OBVIOUS
  <2>1. OlLayout(i).row \in Nat /\ Len(OlBody(i)) \in Nat
    BY <1>1, LayoutIs
  <2> QED BY <2>1
<1>3. \A i \in 1 .. n : f[i] \in Nat
  BY <1>2
<1>4. PICK b \in Nat : \A i \in 1 .. n : f[i] <= b
  <2> HIDE DEF f, n
  <2> QED BY <1>1, <1>3, LargestOf
<1>5. olLines \in Nat /\ OlHeight \in Nat
  BY DEF OlTypes, OlHeight
<1>6. olLines + OlHeight + b \in Nat
  BY <1>5
<1>7. ASSUME NEW x \in OlLevels PROVE x \in 0 .. olLines + OlHeight + b
  <2>1. CASE x \in {olLines, OlHeight}
    BY <1>5, <2>1
  <2>2. CASE x \notin {olLines, OlHeight}
    <3>1. PICK i \in DOMAIN olStack : x = OlLayout(i).row + Len(OlBody(i))
      BY <2>2 DEF OlLevels
    <3>2. x \in Nat /\ x <= b
      BY <1>1, <1>2, <1>4, <3>1
    <3> QED BY <1>5, <3>2
  <2> QED BY <2>1, <2>2
<1>8. OlLevels \subseteq 0 .. olLines + OlHeight + b /\ OlLevels # {}
  <2>1. olLines \in OlLevels
    BY DEF OlLevels
  <2> QED BY <1>7, <2>1
<1>9. Max(OlLevels) \in OlLevels /\ \A y \in OlLevels : Max(OlLevels) >= y
  BY <1>6, <1>8, LastPosition
<1>10. OlWorkingHeight = Max(OlLevels)
  BY DEF OlWorkingHeight, OlLevels
<1>11. Max(OlLevels) \in 0 .. olLines + OlHeight + b /\ \A y \in OlLevels : y \in 0 .. olLines + OlHeight + b
  BY <1>8, <1>9
<1> HIDE DEF f, n
<1>12. Max(OlLevels) \in Nat /\ \A y \in OlLevels : y <= Max(OlLevels)
  <2>1. \A k \in 0 .. olLines + OlHeight + b : k \in Nat
    BY <1>6
  <2>2. Max(OlLevels) \in Nat /\ \A y \in OlLevels : y \in Nat
    BY <1>11, <2>1
  <2>3. ASSUME NEW y \in OlLevels PROVE y <= Max(OlLevels)
    BY <1>9, <2>2
  <2> QED BY <2>2, <2>3
<1> QED BY <1>9, <1>10, <1>12

(* A popup that is cut has the lines there is room for. *)
LEMMA DropBlanksIs ==
    ASSUME NEW body \in Seq(BOOLEAN), NEW height \in Nat
    PROVE  LET left == OlDropBlanks(body, height)
           IN  left \in Seq(BOOLEAN) /\ Len(left) \in OlMin(Len(body), height) .. Len(body)
<1> DEFINE most == OlMax(0, Len(body) - height)
           Is(n) == /\ \A j \in 1 .. n : ~body[j]
                    /\ n < Len(body) - height => body[n + 1]
           S == {m \in 0 .. most : m = most \/ body[m + 1]}
<1>1. Len(body) \in Nat /\ most \in Nat /\ most >= Len(body) - height /\ most <= Len(body)
      /\ most \in {0, Len(body) - height}
  BY LenProperties DEF OlMax
<1> HIDE DEF most
<1>2. S \subseteq Nat /\ S # {}
  <2>1. most \in S
    BY <1>1
  <2>2. \A m \in 0 .. most : m \in Nat
    BY <1>1
  <2>3. S \subseteq Nat
    BY <2>2
  <2> QED BY <2>1, <2>3
<1>3. PICK n \in S : \A k \in S : n <= k
  BY <1>2, LeastPosition
<1>4. n \in 0 .. most /\ n \in Nat
  BY <1>1, <1>3
<1>5. ASSUME NEW j \in 1 .. n PROVE ~body[j]
  <2>1. j - 1 \in 0 .. most /\ ~(n <= j - 1) /\ (j - 1) + 1 = j
    BY <1>1, <1>4
  <2>2. j - 1 \notin S
    BY <1>3, <2>1
  <2> QED BY <2>1, <2>2
<1>6. n < Len(body) - height => body[n + 1]
  <2> SUFFICES ASSUME n < Len(body) - height PROVE body[n + 1]
    OBVIOUS
  <2>1. n # most
    BY <1>1, <1>4
  <2> QED BY <1>3, <2>1
<1>7. \E m \in 0 .. most : Is(m)
  BY <1>4, <1>5, <1>6
<1> DEFINE first == CHOOSE m \in 0 .. most : Is(m)
<1>8. first \in 0 .. most
  BY <1>7
<1>9. OlDropBlanks(body, height) = SubSeq(body, first + 1, Len(body))
  BY DEF OlDropBlanks, most
<1> HIDE DEF first, Is, S
<1>10. first \in 0 .. Len(body)
  BY <1>1, <1>8
<1>11. SubSeq(body, first + 1, Len(body)) \in Seq(BOOLEAN) /\ Len(SubSeq(body, first + 1, Len(body))) = Len(body) - first
  BY <1>10, Sides
<1>12. Len(body) - first \in OlMin(Len(body), height) .. Len(body)
  BY <1>1, <1>8, <1>10 DEF OlMin
<1> QED BY <1>9, <1>11, <1>12

LEMMA ReversedIs ==
    ASSUME NEW body \in Seq(BOOLEAN)
    PROVE  Reverse(body) \in Seq(BOOLEAN) /\ Len(Reverse(body)) = Len(body)
<1>1. Len(body) \in Nat /\ \A k \in 1 .. Len(body) : body[k] \in BOOLEAN
  BY LenProperties, ElementOfSeq
<1>2. \A k \in 1 .. Len(body) : (Len(body) - k) + 1 \in 1 .. Len(body)
  BY <1>1
<1>3. Reverse(body) \in [1 .. Len(body) -> BOOLEAN]
  BY <1>1, <1>2 DEF Reverse
<1>4. Reverse(body) \in Seq(BOOLEAN)
  BY <1>1, <1>3, SeqDef
<1> QED BY <1>1, <1>3, <1>4, LenProperties

(* Cut to no less than there is room for twice, and then to that, it has the room. *)
LEMMA CutTwice ==
    ASSUME NEW n \in Nat, NEW a \in Nat, NEW b \in Nat, NEW height \in Nat,
           a >= OlMin(n, height), a <= n, b >= OlMin(a, height), b <= a
    PROVE  b - OlMax(0, b - height) = OlMin(n, height)
<1>1. CASE n <= height
  <2>1. a = n
    BY <1>1 DEF OlMin
  <2>2. b = n
    BY <1>1, <2>1 DEF OlMin
  <2> QED BY <1>1, <2>2 DEF OlMin, OlMax
<1>2. CASE height < n
  <2>1. a >= height
    BY <1>2 DEF OlMin
  <2>2. b >= height
    BY <2>1 DEF OlMin
  <2> QED BY <1>2, <2>2 DEF OlMin, OlMax
<1> QED BY <1>1, <1>2

LEMMA FittedIs ==
    ASSUME NEW body \in Seq(BOOLEAN), NEW height \in Nat
    PROVE  OlFitted(body, height) \in Seq(BOOLEAN) /\ Len(OlFitted(body, height)) = OlMin(Len(body), height)
<1> DEFINE a == OlDropBlanks(body, height)
           b == OlDropBlanks(Reverse(a), height)
           c == Reverse(b)
<1>1. Len(body) \in Nat /\ a \in Seq(BOOLEAN) /\ Len(a) \in OlMin(Len(body), height) .. Len(body)
  BY DropBlanksIs, LenProperties
<1>2. Reverse(a) \in Seq(BOOLEAN) /\ Len(Reverse(a)) = Len(a)
  BY <1>1, ReversedIs
<1> HIDE DEF a
<1>3. b \in Seq(BOOLEAN) /\ Len(b) \in OlMin(Len(a), height) .. Len(a)
  BY <1>2, DropBlanksIs
<1> HIDE DEF b
<1>4. c \in Seq(BOOLEAN) /\ Len(c) = Len(b) /\ Len(c) \in Nat
  BY <1>3, ReversedIs, LenProperties
<1> HIDE DEF c
<1>5. OlFitted(body, height) = SubSeq(c, OlMax(0, Len(c) - height) + 1, Len(c))
  BY DEF OlFitted, OlLastLines, a, b, c
<1>6. OlMax(0, Len(c) - height) \in 0 .. Len(c)
  BY <1>4 DEF OlMax
<1>7. /\ SubSeq(c, OlMax(0, Len(c) - height) + 1, Len(c)) \in Seq(BOOLEAN)
      /\ Len(SubSeq(c, OlMax(0, Len(c) - height) + 1, Len(c))) = Len(c) - OlMax(0, Len(c) - height)
  BY <1>4, <1>6, Sides
<1>8. Len(c) - OlMax(0, Len(c) - height) = OlMin(Len(body), height)
  <2>1. Len(a) \in Nat /\ Len(b) \in Nat
    BY <1>1, <1>3, LenProperties
  <2>2. Len(a) >= OlMin(Len(body), height) /\ Len(a) <= Len(body) /\ Len(b) >= OlMin(Len(a), height) /\ Len(b) <= Len(a)
    BY <1>1, <1>3, <2>1
  <2>3. Len(b) - OlMax(0, Len(b) - height) = OlMin(Len(body), height)
    BY <1>1, <2>1, <2>2, CutTwice
  <2> QED BY <1>4, <2>3
<1> QED BY <1>5, <1>7, <1>8

-----------------------------------------------------------------------------
(* The cells that the overlays from one to another are drawn over, and what of
   the screen may be selected after the first k of them.                    *)
OlCovers(placed, height, from, to) == UNION {OlArea(placed[j], height) : j \in from .. to}
OlShowing(placed, height, k) ==
    (OlDockText \ OlCovers(placed, height, 1, k))
      \cup UNION {OlInk(placed[i], height) \ OlCovers(placed, height, i + 1, k) : i \in {i \in 1 .. k : OlFocused(i)}}

LEMMA CoversMore ==
    ASSUME NEW placed, NEW height, NEW k \in Nat \ {0}, NEW from \in 1 .. k
    PROVE  OlCovers(placed, height, from, k) = OlCovers(placed, height, from, k - 1) \cup OlArea(placed[k], height)
<1>1. from .. k = (from .. k - 1) \cup {k}
  OBVIOUS
<1> QED BY <1>1 DEF OlCovers

LEMMA CoversNone ==
    ASSUME NEW placed, NEW height, NEW k \in Nat
    PROVE  OlCovers(placed, height, k + 1, k) = {}
<1>1. (k + 1) .. k = {}
  OBVIOUS
<1> QED BY <1>1 DEF OlCovers

(* Unions with one set more, and with one taken away from each. *)
LEMMA UnionMore == ASSUME NEW S, NEW e PROVE UNION (S \cup {e}) = (UNION S) \cup e
<1>1. ASSUME NEW c \in UNION (S \cup {e}) PROVE c \in (UNION S) \cup e
  <2>1. PICK x \in S \cup {e} : c \in x
    BY Zenon
  <2> QED BY <2>1, Zenon
<1>2. ASSUME NEW c \in (UNION S) \cup e PROVE c \in UNION (S \cup {e})
  <2>1. CASE c \in e
    BY <2>1, Zenon
  <2>2. CASE c \in UNION S
    <3>1. PICK x \in S : c \in x
      BY <2>2, Zenon
    <3> QED BY <3>1, Zenon
  <2> QED BY <2>1, <2>2
<1> QED BY <1>1, <1>2, Zenon

LEMMA UnionLess ==
    ASSUME NEW I, NEW F, NEW G, NEW A, \A i \in I : F[i] = G[i] \ A
    PROVE  UNION {F[i] : i \in I} = (UNION {G[i] : i \in I}) \ A
<1>1. ASSUME NEW c \in UNION {F[i] : i \in I} PROVE c \in (UNION {G[i] : i \in I}) \ A
  <2>1. PICK i \in I : c \in F[i]
    BY Zenon
  <2>2. c \in G[i] /\ c \notin A /\ G[i] \in {G[j] : j \in I}
    BY <2>1, Zenon
  <2>3. c \in UNION {G[j] : j \in I}
    BY <2>2, Zenon
  <2> QED BY <2>2, <2>3, Zenon
<1>2. ASSUME NEW c \in (UNION {G[i] : i \in I}) \ A PROVE c \in UNION {F[i] : i \in I}
  <2>1. PICK i \in I : c \in G[i]
    BY Zenon
  <2>2. c \in F[i] /\ F[i] \in {F[j] : j \in I}
    BY <2>1, Zenon
  <2> QED BY <2>2, Zenon
<1> QED BY <1>1, <1>2, Zenon

LEMMA TakenAway ==
    ASSUME NEW all, NEW over, NEW A, NEW U, NEW F
    PROVE  (all \ (over \cup A)) \cup ((U \ A) \cup F) = (((all \ over) \cup U) \ A) \cup F
OBVIOUS

LEMMA ShowingNext ==
    ASSUME NEW placed, NEW height, NEW k \in Nat \ {0}
    PROVE  OlShowing(placed, height, k) =
               (OlShowing(placed, height, k - 1) \ OlArea(placed[k], height))
                 \cup (IF OlFocused(k) THEN OlInk(placed[k], height) ELSE {})
<1> DEFINE All == OlDockText
           Cov(from, to) == OlCovers(placed, height, from, to)
           A == OlArea(placed[k], height)
           Ink(i) == OlInk(placed[i], height)
           Old == {i \in 1 .. k - 1 : OlFocused(i)}
           New == {i \in 1 .. k : OlFocused(i)}
<1>1. Cov(1, k) = Cov(1, k - 1) \cup A
  <2>1. 1 \in 1 .. k
    OBVIOUS
  <2> QED BY <2>1, CoversMore
<1>2. \A i \in 1 .. k - 1 : Cov(i + 1, k) = Cov(i + 1, k - 1) \cup A
  <2> SUFFICES ASSUME NEW i \in 1 .. k - 1 PROVE Cov(i + 1, k) = Cov(i + 1, k - 1) \cup A
    OBVIOUS
  <2>1. i + 1 \in 1 .. k
    OBVIOUS
  <2> QED BY <2>1, CoversMore
<1>3. Cov(k + 1, k) = {}
  BY CoversNone
<1>4. New = Old \cup (IF OlFocused(k) THEN {k} ELSE {})
  <2>1. 1 .. k = (1 .. k - 1) \cup {k}
    OBVIOUS
  <2> QED BY <2>1
<1>5. Old \subseteq 1 .. k - 1
  OBVIOUS
<1>6. OlShowing(placed, height, k) = (All \ Cov(1, k)) \cup UNION {Ink(i) \ Cov(i + 1, k) : i \in New}
  BY DEF OlShowing
<1>7. OlShowing(placed, height, k - 1) = (All \ Cov(1, k - 1)) \cup UNION {Ink(i) \ Cov(i + 1, k - 1) : i \in Old}
  BY DEF OlShowing
<1> HIDE DEF All, Cov, A, Ink, Old, New
<1>8. UNION {Ink(i) \ Cov(i + 1, k) : i \in New} =
          (UNION {Ink(i) \ Cov(i + 1, k) : i \in Old}) \cup (IF OlFocused(k) THEN Ink(k) ELSE {})
  <2>1. CASE OlFocused(k)
    <3>1. New = Old \cup {k}
      BY <1>4, <2>1
    <3>2. Ink(k) \ Cov(k + 1, k) = Ink(k)
      BY <1>3
    <3>3. {Ink(i) \ Cov(i + 1, k) : i \in New} = {Ink(i) \ Cov(i + 1, k) : i \in Old} \cup {Ink(k)}
      BY <3>1, <3>2
    <3>4. UNION {Ink(i) \ Cov(i + 1, k) : i \in New} = (UNION {Ink(i) \ Cov(i + 1, k) : i \in Old}) \cup Ink(k)
      BY <3>3, UnionMore
    <3> QED BY <2>1, <3>4
  <2>2. CASE ~OlFocused(k)
    BY <1>4, <2>2
  <2> QED BY <2>1, <2>2
<1>9. UNION {Ink(i) \ Cov(i + 1, k) : i \in Old} = (UNION {Ink(i) \ Cov(i + 1, k - 1) : i \in Old}) \ A
  <2>1. \A i \in Old : Ink(i) \ Cov(i + 1, k) = (Ink(i) \ Cov(i + 1, k - 1)) \ A
    BY <1>2, <1>5
  <2> DEFINE F == [i \in Old |-> Ink(i) \ Cov(i + 1, k)]
             G == [i \in Old |-> Ink(i) \ Cov(i + 1, k - 1)]
  <2>2. \A i \in Old : F[i] = G[i] \ A
    BY <2>1
  <2>3. {Ink(i) \ Cov(i + 1, k) : i \in Old} = {F[i] : i \in Old} /\ {Ink(i) \ Cov(i + 1, k - 1) : i \in Old} = {G[i] : i \in Old}
    OBVIOUS
  <2> HIDE DEF F, G
  <2>4. UNION {F[i] : i \in Old} = (UNION {G[i] : i \in Old}) \ A
    BY <2>2, UnionLess
  <2> QED BY <2>3, <2>4
<1> DEFINE U == UNION {Ink(i) \ Cov(i + 1, k - 1) : i \in Old}
           F == IF OlFocused(k) THEN Ink(k) ELSE {}
<1>10. OlShowing(placed, height, k) = (All \ (Cov(1, k - 1) \cup A)) \cup ((U \ A) \cup F)
  <2>1. UNION {Ink(i) \ Cov(i + 1, k) : i \in New} = (U \ A) \cup F
    BY <1>8, <1>9, Zenon
  <2> HIDE DEF U, F
  <2> QED BY <1>1, <1>6, <2>1
<1>11. OlShowing(placed, height, k - 1) = (All \ Cov(1, k - 1)) \cup U
  BY <1>7
<1> HIDE DEF U, F
<1>12. OlShowing(placed, height, k) = (OlShowing(placed, height, k - 1) \ A) \cup F
  BY <1>10, <1>11, TakenAway
<1> QED BY <1>12 DEF A, Ink, F

(* What may be selected at last is what shows. *)
LEMMA SelectableIs ==
    ASSUME NEW placed, NEW height, Len(placed) \in Nat
    PROVE  OlSelectable(placed, height) = OlShowing(placed, height, Len(placed))
<1> DEFINE n == Len(placed)
           All == OlDockText
           Next(i, before) == (before \ OlArea(placed[i], height)) \cup (IF OlFocused(i) THEN OlInk(placed[i], height) ELSE {})
           Is(f) == f = [i \in 0 .. n |-> IF i = 0 THEN All ELSE Next(i, f[i - 1])]
           cells == CHOOSE f : Is(f)
           Shows(k) == OlShowing(placed, height, k)
           g == [i \in 0 .. n |-> Shows(i)]
<1>1. n \in Nat
  OBVIOUS
<1>2. OlSelectable(placed, height) = cells[n]
  BY DEF OlSelectable
<1>3. Shows(0) = All
  <2>1. 1 .. 0 = {}
    OBVIOUS
  <2> QED BY <2>1 DEF OlShowing, OlCovers
<1>4. \A k \in 1 .. n : Shows(k) = Next(k, Shows(k - 1))
  <2> SUFFICES ASSUME NEW k \in 1 .. n PROVE Shows(k) = Next(k, Shows(k - 1))
    OBVIOUS
  <2>1. k \in Nat \ {0}
    OBVIOUS
  <2> QED BY <2>1, ShowingNext
<1> HIDE DEF n, All, Next, Shows
<1>5. Is(g)
  <2>1. ASSUME NEW i \in 0 .. n, i # 0 PROVE g[i] = Next(i, g[i - 1])
    <3>1. i \in 1 .. n /\ i - 1 \in 0 .. n
      BY <1>1, <2>1
    <3> QED BY <1>4, <3>1
  <2>2. ASSUME NEW i \in 0 .. n PROVE g[i] = (IF i = 0 THEN All ELSE Next(i, g[i - 1]))
    BY <1>3, <2>1
  <2> QED BY <2>2
<1>6. Is(cells)
  BY <1>5
<1> HIDE DEF cells, g
<1> DEFINE Wrong == {k \in 0 .. n : cells[k] # Shows(k)}
<1>7. SUFFICES ASSUME Wrong # {} PROVE FALSE
  <2>1. n \in 0 .. n
    BY <1>1
  <2>2. cells[n] = Shows(n)
    BY <1>7, <2>1
  <2> QED BY <1>2, <2>2 DEF Shows, n
<1>8. Wrong \subseteq Nat
  BY <1>1
<1>9. PICK m \in Wrong : \A k \in Wrong : m <= k
  BY <1>7, <1>8, LeastPosition
<1>10. m \in 0 .. n /\ cells[m] # Shows(m)
  BY <1>9
<1>11. m # 0
  <2>1. cells[0] = All
    BY <1>1, <1>6
  <2> QED BY <1>3, <1>10, <2>1
<1>12. m \in 1 .. n /\ m - 1 \in 0 .. n /\ ~(m <= m - 1)
  BY <1>1, <1>10, <1>11
<1>13. cells[m - 1] = Shows(m - 1)
  BY <1>9, <1>12
<1>14. cells[m] = Next(m, cells[m - 1])
  BY <1>6, <1>10, <1>11
<1> QED BY <1>4, <1>10, <1>12, <1>13, <1>14

-----------------------------------------------------------------------------
(* Where the overlays that are not popups are drawn. *)
LEMMA BoxIs ==
    ASSUME OlTypes, OlDrawn, NEW i \in DOMAIN olStack, ~OlSeeksMarker(i)
    PROVE  LET p == olFrame.placed[i]  at == OlLayout(i)
           IN  /\ p.body = OlBody(i) /\ p.col = at.col /\ p.width = at.width
               /\ ~olStack[i].option.scrollback => p.first = at.row + OlViewport
<1>1. olFrame.placed[i] = OlBox(i, OlLayout(i), OlBody(i), olFrame.height)
  BY DEF OlDrawn, OlPlaced
<1> QED BY <1>1 DEF OlBox, OlPlacedAt, OlViewport

LEMMA InsideIs == ASSUME OlTypes, OlDrawn PROVE OlInsideMargins
<1> SUFFICES ASSUME NEW i \in DOMAIN olStack, ~OlSeeksMarker(i), ~olStack[i].option.scrollback,
                    OlHasRoom(olStack[i].option, Len(olFrame.placed[i].body))
             PROVE  OlInside(olStack[i].option, olFrame.placed[i])
  BY DEF OlInsideMargins
<1> DEFINE o == olStack[i].option
           p == olFrame.placed[i]
           height == Len(OlBody(i))
<1>1. p.body = OlBody(i) /\ p.col = OlLayout(i).col /\ p.width = OlLayout(i).width /\ p.first = OlLayout(i).row + OlViewport
  BY BoxIs
<1>2. /\ o.margin.left \in Nat /\ o.margin.right \in Nat /\ o.margin.top \in Nat /\ o.margin.bottom \in Nat
  BY OlStackIs DEF OlOption
<1>3. OlHeight \in Nat /\ OlWidth \in Nat /\ olFrame.height \in Nat
  BY WorkingIs DEF OlTypes, OlDrawn, OlHeight, OlWidth
<1> DEFINE w == OlLayout(i).width
           r == OlLayout(i).row
           c == OlLayout(i).col
<1>4. /\ height \in Nat /\ w \in Nat \ {0} /\ w <= OlRoom(o).width
      /\ r \in Nat /\ r >= o.margin.top /\ r <= OlMax(o.margin.top, OlHeight - o.margin.bottom - height)
      /\ c \in Nat /\ c >= o.margin.left /\ c <= OlMax(o.margin.left, OlWidth - o.margin.right - w)
  BY LayoutIs
<1>5. o.margin.left + o.margin.right < OlWidth /\ height <= OlHeight - o.margin.top - o.margin.bottom
  BY <1>1 DEF OlHasRoom
<1>6. OlRoom(o).width = OlMax(1, OlWidth - o.margin.left - o.margin.right)
  BY DEF OlRoom
<1> HIDE DEF w, r, c, height, o
<1>20. /\ o.margin.left \in Int /\ o.margin.right \in Int /\ o.margin.top \in Int /\ o.margin.bottom \in Int
       /\ OlWidth \in Int /\ OlHeight \in Int /\ w \in Int /\ c \in Int /\ r \in Int /\ height \in Int
  <2>1. o.margin.left \in Int /\ o.margin.right \in Int /\ o.margin.top \in Int /\ o.margin.bottom \in Int
    BY <1>2
  <2>2. OlWidth \in Int /\ OlHeight \in Int
    BY <1>3
  <2>3. w \in Int /\ c \in Int
    BY <1>4
  <2>4. r \in Int /\ height \in Int
    BY <1>4
  <2> QED BY <2>1, <2>2, <2>3, <2>4
<1>7. w <= OlWidth - o.margin.left - o.margin.right
  <2>1. w <= OlMax(1, OlWidth - o.margin.left - o.margin.right) /\ o.margin.left + o.margin.right < OlWidth
    BY <1>4, <1>5, <1>6
  <2> QED BY <1>20, <2>1 DEF OlMax
<1>8. c + w <= OlWidth - o.margin.right
  <2>1. c >= o.margin.left /\ c <= OlMax(o.margin.left, OlWidth - o.margin.right - w)
    BY <1>4
  <2> QED BY <2>1, <1>7, <1>20 DEF OlMax
<1>9. r + height <= OlHeight - o.margin.bottom
  <2>1. r <= OlMax(o.margin.top, OlHeight - o.margin.bottom - height) /\ height <= OlHeight - o.margin.top - o.margin.bottom
    BY <1>4, <1>5
  <2> QED BY <1>20, <2>1 DEF OlMax
<1>10. p.col = c /\ p.width = w /\ p.first = r + (olFrame.height - OlHeight) /\ Len(p.body) = height
  BY <1>1 DEF c, w, r, height, OlViewport
<1> HIDE DEF p
<1>21. r + (olFrame.height - OlHeight) + height <= olFrame.height - o.margin.bottom
       /\ r + (olFrame.height - OlHeight) >= (olFrame.height - OlHeight) + o.margin.top
  <2>1. r >= o.margin.top /\ olFrame.height \in Int
    BY <1>3, <1>4
  <2>2. r + (olFrame.height - OlHeight) + height = (r + height) + (olFrame.height - OlHeight)
    BY <2>1, <1>20
  <2>3. (OlHeight - o.margin.bottom) + (olFrame.height - OlHeight) = olFrame.height - o.margin.bottom
    BY <2>1, <1>20
  <2>4. r + (olFrame.height - OlHeight) + height <= olFrame.height - o.margin.bottom
    BY <2>1, <2>2, <2>3, <1>9, <1>20
  <2> QED BY <2>1, <2>4, <1>20
<1>11. /\ p.col >= o.margin.left /\ p.col + p.width <= OlWidth - o.margin.right
       /\ p.first >= (olFrame.height - OlHeight) + o.margin.top
       /\ p.first + Len(p.body) <= olFrame.height - o.margin.bottom
  BY <1>4, <1>8, <1>10, <1>21
<1> QED BY <1>11 DEF OlInside, OlViewport, p, o

LEMMA StaysIs == ASSUME OlTypes, OlDrawn PROVE OlContentStays
<1> SUFFICES ASSUME \A i \in DOMAIN olStack : ~OlSeeksMarker(i) => OlHasRoom(olStack[i].option, Len(olFrame.placed[i].body))
             PROVE  OlViewport = OlMax(0, olLines - OlHeight)
  BY DEF OlContentStays
<1>1. OlHeight \in Nat /\ olLines \in Nat /\ olFrame.height = OlWorkingHeight
  BY DEF OlTypes, OlDrawn, OlHeight
<1>2. OlWorkingHeight \in OlLevels /\ OlWorkingHeight \in Nat /\ \A x \in OlLevels : x <= OlWorkingHeight
  BY WorkingIs
<1>3. ASSUME NEW x \in OlLevels PROVE x \in Nat /\ x <= OlMax(olLines, OlHeight)
  <2>1. CASE x \in {olLines, OlHeight}
    BY <1>1, <2>1 DEF OlMax
  <2>2. CASE x \notin {olLines, OlHeight}
    <3>1. PICK i \in DOMAIN olStack : ~OlSeeksMarker(i) /\ x = OlLayout(i).row + Len(OlBody(i))
      BY <2>2 DEF OlLevels
    <3> DEFINE o == olStack[i].option
               r == OlLayout(i).row
               height == Len(OlBody(i))
    <3>2. o.margin.top \in Nat /\ o.margin.bottom \in Nat
      BY OlStackIs DEF OlOption
    <3>3. height \in Nat /\ r \in Nat /\ r <= OlMax(o.margin.top, OlHeight - o.margin.bottom - height)
      BY LayoutIs
    <3>4. height <= OlHeight - o.margin.top - o.margin.bottom
      <4>1. olFrame.placed[i].body = OlBody(i)
        BY <3>1, BoxIs
      <4> QED BY <3>1, <4>1 DEF OlHasRoom
    <3>5. x = r + height
      BY <3>1
    <3> HIDE DEF r, height, o
    <3>6. o.margin.top \in Int /\ o.margin.bottom \in Int /\ r \in Int /\ height \in Int
      BY <3>2, <3>3
    <3>7. r + height <= OlHeight
      <4>1. PICK top \in Nat, bottom \in Nat : top = o.margin.top /\ bottom = o.margin.bottom
        BY <3>2
      <4>2. PICK room \in Nat : room = OlHeight
        BY <1>1
      <4>3. height <= room - top - bottom /\ r <= OlMax(top, room - bottom - height)
        BY <3>3, <3>4, <4>1, <4>2
      <4>4. r <= top \/ r <= room - bottom - height
        BY <4>3 DEF OlMax
      <4>5. r + height <= room
        BY <3>3, <4>3, <4>4
      <4> QED BY <4>2, <4>5
    <3>8. x \in Nat /\ x <= OlHeight
      BY <3>3, <3>5, <3>7
    <3> QED BY <1>1, <3>8 DEF OlMax
  <2> QED BY <2>1, <2>2
<1>4. OlWorkingHeight <= OlMax(olLines, OlHeight)
  BY <1>2, <1>3
<1>5. olLines <= OlWorkingHeight /\ OlHeight <= OlWorkingHeight
  <2>1. olLines \in OlLevels /\ OlHeight \in OlLevels
    BY DEF OlLevels
  <2> QED BY <1>2, <2>1
<1> QED BY <1>1, <1>2, <1>4, <1>5 DEF OlViewport, OlMax

LEMMA ClearIs == ASSUME OlTypes, OlDrawn PROVE OlPopupStandsClear
<1> SUFFICES ASSUME NEW i \in DOMAIN olStack, OlFindsMarker(i), olFrame.placed[i] # OlNothing
             PROVE  OlStandsClear(olFrame.placed[i], Len(OlBody(i)), olMarker[1] + olStack[i].option.offsetY)
  BY DEF OlPopupStandsClear
<1> DEFINE o == olStack[i].option
           p == olFrame.placed[i]
           view == olFrame.height - OlHeight
           wanted == olMarker[1] - view + o.offsetY
           row == OlMax(1, wanted)
           at == OlLayout(i)
           size == Len(OlBody(i))
<1>1. OlSeeksMarker(i)
  BY DEF OlFindsMarker
<1>2. p = OlPopup(i, at, view, row)
  BY <1>1 DEF OlDrawn, OlPlaced
<1>3. /\ row < OlHeight \/ ~(row < OlHeight)
      /\ OlHeight \in Nat \ {0} /\ OlWidth \in Nat \ {0} /\ olFrame.height \in Nat /\ olFrame.height >= OlHeight
  <2>1. OlHeight \in Nat \ {0} /\ OlWidth \in Nat \ {0}
    BY DEF OlTypes, OlHeight, OlWidth
  <2>2. OlHeight \in OlLevels
    BY DEF OlLevels
  <2>3. olFrame.height \in Nat /\ OlHeight <= olFrame.height
    BY <2>2, WorkingIs DEF OlDrawn
  <2> QED BY <2>1, <2>3
<1>4. olMarker[1] \in Int /\ olMarker[2] \in Int /\ o.offsetY \in Int
  BY OlStackIs DEF OlTypes, OlOption
<1>5. view \in Nat /\ wanted \in Int /\ row \in Nat \ {0} /\ row >= wanted /\ (row = wanted \/ (row = 1 /\ wanted < 1))
  <2>1. view \in Nat
    BY <1>3
  <2>2. wanted \in Int
    BY <1>4, <2>1
  <2> HIDE DEF view, wanted
  <2> QED BY <2>1, <2>2 DEF OlMax
<1>6. size \in Nat /\ OlBody(i) \in Seq(BOOLEAN) /\ at.width \in Nat \ {0} /\ at.width <= OlRoom(o).width
  BY OlStackIs, LayoutIs
<1>7. at.width <= OlWidth
  <2>1. o.margin.left \in Nat /\ o.margin.right \in Nat
    BY OlStackIs DEF OlOption
  <2>2. OlRoom(o).width = OlMax(1, OlWidth - o.margin.left - o.margin.right)
    BY DEF OlRoom
  <2> HIDE DEF at, o
  <2> QED BY <1>3, <1>6, <2>1, <2>2 DEF OlMax
<1>8. ~(row >= OlHeight)
  <2>1. p # OlNothing
    OBVIOUS
  <2> QED BY <1>2, <2>1 DEF OlPopup
<1>9. p = OlPlacedAt(view + row - OlMin(row, size), OlFitted(OlBody(i), row), OlMax(0, OlMin(olMarker[2], OlWidth - at.width)), at.width)
  BY <1>2, <1>8 DEF OlPopup
<1>10. Len(OlFitted(OlBody(i), row)) = OlMin(size, row)
  BY <1>5, <1>6, FittedIs
<1>11. /\ p.first = view + row - OlMin(row, size) /\ Len(p.body) = OlMin(size, row)
       /\ p.col = OlMax(0, OlMin(olMarker[2], OlWidth - at.width)) /\ p.width = at.width
  BY <1>9, <1>10 DEF OlPlacedAt
<1>12. wanted = olMarker[1] + o.offsetY - view
  BY <1>4, <1>5
<1> DEFINE w == at.width
           marker == olMarker[1] + o.offsetY
<1>13. marker \in Int /\ wanted = marker - view
  <2> HIDE DEF wanted, view, o
  <2>1. olMarker[1] \in Int /\ o.offsetY \in Int /\ view \in Int
    BY <1>4, <1>5
  <2> QED BY <2>1, <1>12
<1> HIDE DEF p, view, wanted, row, size, w, marker
<1>14. p.first >= view
  BY <1>5, <1>6, <1>11 DEF OlMin
<1>15. p.col >= 0 /\ p.col + p.width <= OlWidth
  <2>1. w \in Nat /\ w <= OlWidth /\ p.width = w /\ p.col = OlMax(0, OlMin(olMarker[2], OlWidth - w))
    BY <1>6, <1>7, <1>11 DEF w
  <2> QED BY <1>3, <1>4, <2>1 DEF OlMax, OlMin
<1>16. ASSUME marker > view PROVE p.first + Len(p.body) = marker /\ Len(p.body) = OlMin(size, marker - view)
  <2>1. row = wanted
    BY <1>5, <1>13, <1>16
  <2>2. OlMin(row, size) = OlMin(size, row) /\ OlMin(size, row) \in Int
    BY <1>5, <1>6 DEF OlMin
  <2>3. p.first + Len(p.body) = view + row
    BY <1>5, <1>11, <2>2
  <2> QED BY <1>5, <1>11, <1>13, <2>1, <2>3
<1> QED BY <1>14, <1>15, <1>16 DEF OlStandsClear, OlViewport, p, view, size, marker

LEMMA ShowsIs == ASSUME OlTypes, OlDrawn PROVE OlSelectsWhatShows
<1> DEFINE n == Len(olStack)
           placed == olFrame.placed
           height == olFrame.height
<1>1. n \in Nat /\ DOMAIN olStack = 1 .. n
  BY LenProperties DEF OlTypes
<1>2. placed = [i \in 1 .. n |-> OlPlaced(i, height)]
  BY <1>1 DEF OlDrawn
<1>3. Len(placed) = n
  <2> HIDE DEF n
  <2>1. DOMAIN placed = 1 .. n
    BY <1>2
  <2>2. placed \in [1 .. n -> {OlPlaced(i, height) : i \in 1 .. n}]
    BY <1>2
  <2>3. placed \in Seq({OlPlaced(i, height) : i \in 1 .. n})
    BY <1>1, <2>2, SeqDef
  <2> QED BY <1>1, <2>1, <2>3, LenProperties
<1>4. olFrame.selectable = OlShowing(placed, height, n)
  <2>1. Len(placed) \in Nat
    BY <1>1, <1>3
  <2>2. olFrame.selectable = OlSelectable(placed, height)
    BY DEF OlDrawn
  <2> QED BY <1>3, <2>1, <2>2, SelectableIs
<1>5. \A i : OlOver(i) = OlCovers(placed, height, i + 1, n)
  BY DEF OlOver, OlCovers
<1>6. OlOver(0) = OlCovers(placed, height, 1, n)
  <2>1. 0 + 1 = 1
    OBVIOUS
  <2> QED BY <1>5, <2>1
<1>7. UNION {OlInk(placed[i], height) \ OlOver(i) : i \in {i \in DOMAIN olStack : OlFocused(i)}} =
          UNION {OlInk(placed[i], height) \ OlCovers(placed, height, i + 1, n) : i \in {i \in 1 .. n : OlFocused(i)}}
  BY <1>1, <1>5
<1> QED BY <1>4, <1>6, <1>7 DEF OlShowing, OlSelectsWhatShows

LEMMA OlIsSafe == OlInv => OverlayFits
BY InsideIs, StaysIs, ClearIs, ShowsIs DEF OlInv, OverlayFits

(* However the terminal is resized, the content changes and overlays come and
   go, what a render draws (compositeOverlays() of tui.ts) fits: overlays with
   room lie whole between their margins and scroll nothing of the content
   away, a popup ends at its marker's row and loses lines only for want of
   rows, and a selection of the frame may start exactly in what shows of the dock's
   text and of the focused overlay's. *)
THEOREM OverlaysFit == OlSpec => []OverlayFits
<1>1. OlInit => OlInv
  BY OlInitIs
<1>2. OlInv /\ [OlNext]_olVars => OlInv'
  BY OlNextKeeps
<1>3. OlInv => OverlayFits
  BY OlIsSafe
<1> QED BY <1>1, <1>2, <1>3, PTL DEF OlSpec

-----------------------------------------------------------------------------
(* The inline renderer.  A terminal of h rows, and what each of its operations
   does to its rows, its cursor and its scrollback.                         *)
ScInk == ScTexts \cup {ScBlank, ScJunk}
ScTerms(h) == [rows : {r \in Seq(ScInk) : Len(r) = h}, at : 0 .. h - 1, above : Seq(ScInk)]
ScAsIs(t, h) ==
    /\ t.rows \in Seq(ScInk) /\ Len(t.rows) = h /\ t.at \in 0 .. h - 1 /\ t.above \in Seq(ScInk)
    /\ \A i \in 1 .. h : t.rows[i] \in ScInk

LEMMA TermIs ==
    ASSUME NEW h \in Nat \ {0}, NEW t \in ScTerms(h)
    PROVE  ScAsIs(t, h)
<1>1. t.rows \in Seq(ScInk) /\ Len(t.rows) = h /\ t.at \in 0 .. h - 1 /\ t.above \in Seq(ScInk)
  BY DEF ScTerms
<1>2. ASSUME NEW i \in 1 .. h PROVE t.rows[i] \in ScInk
  BY <1>1, ElementOfSeq
<1> QED BY <1>1, <1>2 DEF ScAsIs

LEMMA RowsSet ==
    ASSUME NEW h \in Nat \ {0}, NEW t \in ScTerms(h), NEW r \in Seq(ScInk), Len(r) = h
    PROVE  /\ [t EXCEPT !.rows = r] \in ScTerms(h)
           /\ [t EXCEPT !.rows = r].rows = r /\ [t EXCEPT !.rows = r].at = t.at /\ [t EXCEPT !.rows = r].above = t.above
BY DEF ScTerms

LEMMA AboveSet ==
    ASSUME NEW h \in Nat \ {0}, NEW t \in ScTerms(h), NEW a \in Seq(ScInk)
    PROVE  /\ [t EXCEPT !.above = a] \in ScTerms(h)
           /\ [t EXCEPT !.above = a].rows = t.rows /\ [t EXCEPT !.above = a].at = t.at /\ [t EXCEPT !.above = a].above = a
BY DEF ScTerms

LEMMA AtMoved ==
    ASSUME NEW h \in Nat \ {0}, NEW t \in ScTerms(h), NEW n \in 0 .. h - 1
    PROVE  /\ [t EXCEPT !.at = n] \in ScTerms(h)
           /\ [t EXCEPT !.at = n].at = n /\ [t EXCEPT !.at = n].rows = t.rows /\ [t EXCEPT !.at = n].above = t.above
BY DEF ScTerms

LEMMA UpIs ==
    ASSUME NEW h \in Nat \ {0}, NEW t \in ScTerms(h), NEW n \in Nat
    PROVE  /\ ScUp(t, n) \in ScTerms(h) /\ ScUp(t, n).rows = t.rows /\ ScUp(t, n).above = t.above
           /\ n <= t.at => ScUp(t, n).at = t.at - n
<1>1. t.at \in 0 .. h - 1 /\ Len(t.rows) = h
  BY TermIs DEF ScAsIs
<1> DEFINE m == ScMax(0, t.at - n)
<1>2. m \in 0 .. h - 1 /\ (n <= t.at => m = t.at - n)
  BY <1>1 DEF ScMax
<1>3. ScUp(t, n) = [t EXCEPT !.at = m]
  BY DEF ScUp
<1> HIDE DEF m
<1> QED BY <1>2, <1>3, AtMoved

LEMMA UpBy ==
    ASSUME NEW h \in Nat \ {0}, NEW t \in ScTerms(h), NEW n \in Nat, n <= t.at
    PROVE  ScUp(t, n).at = t.at - n
BY UpIs

LEMMA DownIs ==
    ASSUME NEW h \in Nat \ {0}, NEW t \in ScTerms(h), NEW n \in Nat
    PROVE  /\ ScDown(t, n) \in ScTerms(h) /\ ScDown(t, n).rows = t.rows /\ ScDown(t, n).above = t.above
           /\ t.at + n <= h - 1 => ScDown(t, n).at = t.at + n
<1>1. t.at \in 0 .. h - 1 /\ Len(t.rows) = h
  BY TermIs DEF ScAsIs
<1> DEFINE m == ScMin(Len(t.rows) - 1, t.at + n)
<1>2. m \in 0 .. h - 1 /\ (t.at + n <= h - 1 => m = t.at + n)
  BY <1>1 DEF ScMin
<1>3. ScDown(t, n) = [t EXCEPT !.at = m]
  BY DEF ScDown
<1> HIDE DEF m
<1> QED BY <1>2, <1>3, AtMoved

LEMMA MoveIs ==
    ASSUME NEW h \in Nat \ {0}, NEW t \in ScTerms(h), NEW n \in Int
    PROVE  /\ ScMove(t, n) \in ScTerms(h) /\ ScMove(t, n).rows = t.rows /\ ScMove(t, n).above = t.above
           /\ t.at + n \in 0 .. h - 1 => ScMove(t, n).at = t.at + n
<1>1. t.at \in 0 .. h - 1
  BY TermIs DEF ScAsIs
<1>2. CASE n > 0
  <2>1. ScMove(t, n) = ScDown(t, n) /\ n \in Nat
    BY <1>2 DEF ScMove
  <2>2. t.at + n \in 0 .. h - 1 => t.at + n <= h - 1
    BY <1>1
  <2> QED BY <2>1, <2>2, DownIs
<1>3. CASE ~(n > 0)
  <2>1. PICK m \in Nat : m = -n
    BY <1>3
  <2>2. ScMove(t, n) = ScUp(t, m)
    BY <1>3, <2>1 DEF ScMove
  <2>3. t.at + n \in 0 .. h - 1 => m <= t.at /\ t.at - m = t.at + n
    BY <1>1, <2>1
  <2>4. ScUp(t, m) \in ScTerms(h) /\ ScUp(t, m).rows = t.rows /\ ScUp(t, m).above = t.above
    BY UpIs
  <2>5. m <= t.at => ScUp(t, m).at = t.at - m
    BY UpBy
  <2> QED BY <2>2, <2>3, <2>4, <2>5
<1> QED BY <1>2, <1>3

(* The newest row of the scrollback is its last. *)
LEMMA TailIs ==
    ASSUME ScAssumption, NEW a \in Seq(ScInk), NEW x \in ScInk
    PROVE  LET b == ScTail(Append(a, x)) IN
           /\ b \in Seq(ScInk) /\ Len(b) >= 1 /\ b[Len(b)] = x
           /\ \A k \in 1 .. ScKept - 1 : k <= Len(a) => k + 1 <= Len(b) /\ b[Len(b) - k] = a[Len(a) + 1 - k]
<1> DEFINE c == Append(a, x)
<1>1. Len(a) \in Nat /\ ScKept \in Nat /\ ScKept >= 1
  BY LenProperties DEF ScAssumption
<1>2. c \in Seq(ScInk) /\ Len(c) = Len(a) + 1 /\ c[Len(a) + 1] = x /\ \A i \in 1 .. Len(a) : c[i] = a[i]
  BY <1>1, AppendProperties
<1> HIDE DEF c
<1>3. CASE Len(c) > ScKept
  <2>1. ScTail(c) = Tail(c) /\ c # <<>>
    BY <1>1, <1>2, <1>3 DEF ScTail
  <2>2. Tail(c) \in Seq(ScInk) /\ Len(Tail(c)) = Len(a) /\ \A i \in 1 .. Len(a) : Tail(c)[i] = c[i + 1]
    BY <1>1, <1>2, <2>1, HeadTailProperties
  <2> DEFINE b == Tail(c)
  <2> HIDE DEF b
  <2>3. Len(a) >= ScKept
    BY <1>1, <1>2, <1>3
  <2>4. b[Len(b)] = x /\ Len(b) >= 1
    <3>1. Len(a) \in 1 .. Len(a)
      BY <1>1, <2>3
    <3> QED BY <1>1, <1>2, <2>2, <2>3, <3>1 DEF b
  <2>5. ASSUME NEW k \in 1 .. ScKept - 1, k <= Len(a) PROVE k + 1 <= Len(b) /\ b[Len(b) - k] = a[Len(a) + 1 - k]
    <3>1. k + 1 <= Len(a) /\ Len(a) - k \in 1 .. Len(a) /\ (Len(a) - k) + 1 \in 1 .. Len(a) /\ (Len(a) - k) + 1 = Len(a) + 1 - k
      BY <1>1, <2>3, <2>5
    <3>2. Len(b) = Len(a)
      BY <2>2 DEF b
    <3>3. b[Len(a) - k] = c[(Len(a) - k) + 1]
      BY <2>2, <3>1 DEF b
    <3> QED BY <1>2, <3>1, <3>2, <3>3
  <2> QED BY <2>1, <2>2, <2>4, <2>5 DEF b, c
<1>4. CASE ~(Len(c) > ScKept)
  <2>1. ScTail(c) = c
    BY <1>4 DEF ScTail
  <2>2. ASSUME NEW k \in 1 .. ScKept - 1, k <= Len(a) PROVE k + 1 <= Len(c) /\ c[Len(c) - k] = a[Len(a) + 1 - k]
    <3>1. k + 1 <= Len(a) + 1 /\ Len(a) + 1 - k \in 1 .. Len(a)
      BY <1>1, <2>2
    <3> QED BY <1>2, <3>1
  <2>3. Len(c) >= 1 /\ c[Len(c)] = x
    BY <1>1, <1>2
  <2> QED BY <1>2, <2>1, <2>2, <2>3 DEF c
<1> QED BY <1>3, <1>4

LEMMA ReturnIs ==
    ASSUME ScAssumption, NEW h \in Nat \ {0}, NEW t \in ScTerms(h)
    PROVE  /\ ScReturn(t) \in ScTerms(h)
           /\ t.at < h - 1 => ScReturn(t).at = t.at + 1 /\ ScReturn(t).rows = t.rows /\ ScReturn(t).above = t.above
           /\ ~(t.at < h - 1) =>
                  /\ ScReturn(t).at = t.at /\ t.at = h - 1
                  /\ \A i \in 1 .. h - 1 : ScReturn(t).rows[i] = t.rows[i + 1]
                  /\ ScReturn(t).rows[h] = ScBlank
                  /\ ScReturn(t).above = ScTail(Append(t.above, t.rows[1]))
<1>1. t.rows \in Seq(ScInk) /\ Len(t.rows) = h /\ t.at \in 0 .. h - 1 /\ t.above \in Seq(ScInk) /\ t.rows[1] \in ScInk
  <2>1. 1 \in 1 .. h
    OBVIOUS
  <2> QED BY <2>1, TermIs DEF ScAsIs
<1>2. CASE t.at < h - 1
  <2>1. t.at + 1 \in 0 .. h - 1
    BY <1>1, <1>2
  <2>2. ScReturn(t) = [t EXCEPT !.at = t.at + 1]
    BY <1>1, <1>2 DEF ScReturn
  <2> QED BY <1>2, <2>1, <2>2, AtMoved
<1>3. CASE ~(t.at < h - 1)
  <2> DEFINE r == Append(Tail(t.rows), ScBlank)
             a == ScTail(Append(t.above, t.rows[1]))
  <2>1. /\ Tail(t.rows) \in Seq(ScInk) /\ Len(Tail(t.rows)) = h - 1
        /\ \A i \in 1 .. h - 1 : Tail(t.rows)[i] = t.rows[i + 1]
    <3>1. t.rows # <<>>
      BY <1>1
    <3> QED BY <1>1, <3>1, HeadTailProperties
  <2>2. ScBlank \in ScInk
    BY DEF ScInk
  <2>3. r \in Seq(ScInk) /\ Len(r) = h /\ r[h] = ScBlank /\ \A i \in 1 .. h - 1 : r[i] = t.rows[i + 1]
    <3> DEFINE q == Tail(t.rows)
    <3>1. q \in Seq(ScInk) /\ Len(q) = h - 1 /\ \A i \in 1 .. h - 1 : q[i] = t.rows[i + 1]
      BY <2>1
    <3> HIDE DEF q
    <3>2. Append(q, ScBlank) \in Seq(ScInk) /\ Len(Append(q, ScBlank)) = (h - 1) + 1 /\ Append(q, ScBlank)[(h - 1) + 1] = ScBlank
          /\ \A i \in 1 .. h - 1 : Append(q, ScBlank)[i] = q[i]
      BY <2>2, <3>1, AppendProperties
    <3>3. (h - 1) + 1 = h
      OBVIOUS
    <3> QED BY <3>1, <3>2, <3>3 DEF q
  <2>4. a \in Seq(ScInk)
    BY <1>1, TailIs
  <2>5. ScReturn(t) = [t EXCEPT !.rows = r, !.above = a]
    BY <1>1, <1>3 DEF ScReturn
  <2> HIDE DEF r, a
  <2> DEFINE v == [t EXCEPT !.rows = r]
  <2>6. v \in ScTerms(h) /\ v.rows = r /\ v.at = t.at
    BY <2>3, RowsSet
  <2>7. ScReturn(t) = [v EXCEPT !.above = a]
    BY <2>5 DEF ScTerms
  <2> HIDE DEF v
  <2>8. ScReturn(t) \in ScTerms(h) /\ ScReturn(t).rows = r /\ ScReturn(t).at = t.at /\ ScReturn(t).above = a
    BY <2>4, <2>6, <2>7, AboveSet
  <2> QED BY <1>1, <1>3, <2>3, <2>8 DEF a
<1> QED BY <1>2, <1>3

LEMMA RowChanged ==
    ASSUME NEW h \in Nat \ {0}, NEW t \in ScTerms(h), NEW x \in ScInk
    PROVE  LET u == [t EXCEPT !.rows[t.at + 1] = x] IN
           /\ u \in ScTerms(h) /\ u.at = t.at /\ u.above = t.above
           /\ \A i \in 1 .. h : u.rows[i] = IF i = t.at + 1 THEN x ELSE t.rows[i]
<1> DEFINE n == t.at + 1
           r == [t.rows EXCEPT ![n] = x]
<1>1. t.rows \in Seq(ScInk) /\ Len(t.rows) = h /\ t.at \in 0 .. h - 1 /\ t.above \in Seq(ScInk)
  BY TermIs DEF ScAsIs
<1>2. n \in 1 .. Len(t.rows)
  BY <1>1
<1>3. r \in Seq(ScInk) /\ Len(r) = h /\ \A i \in 1 .. h : r[i] = IF i = n THEN x ELSE t.rows[i]
  <2> HIDE DEF n
  <2> QED BY <1>1, <1>2, ExceptSeq
<1>4. [t EXCEPT !.rows[t.at + 1] = x] = [t EXCEPT !.rows = r]
  OBVIOUS
<1> HIDE DEF r
<1> DEFINE u == [t EXCEPT !.rows[t.at + 1] = x]
           v == [t EXCEPT !.rows = r]
<1>5. u \in ScTerms(h) /\ u.rows = r /\ u.at = t.at /\ u.above = t.above
  <2>1. v \in ScTerms(h) /\ v.rows = r /\ v.at = t.at /\ v.above = t.above
    BY <1>3, RowsSet
  <2>2. u = v
    BY <1>4
  <2> HIDE DEF u, v
  <2> QED BY <2>1, <2>2
<1>6. \A i \in 1 .. h : u.rows[i] = IF i = t.at + 1 THEN x ELSE t.rows[i]
  BY <1>3, <1>5
<1> HIDE DEF u
<1> QED BY <1>5, <1>6 DEF u

LEMMA ScClearIs ==
    ASSUME NEW h \in Nat \ {0}, NEW t \in ScTerms(h)
    PROVE  /\ ScClearLine(t) \in ScTerms(h) /\ ScClearLine(t).at = t.at /\ ScClearLine(t).above = t.above
           /\ \A i \in 1 .. h : ScClearLine(t).rows[i] = IF i = t.at + 1 THEN ScBlank ELSE t.rows[i]
<1>1. ScBlank \in ScInk
  BY DEF ScInk
<1> QED BY <1>1, RowChanged DEF ScClearLine

LEMMA WriteIs ==
    ASSUME NEW h \in Nat \ {0}, NEW t \in ScTerms(h), NEW line \in ScTexts
    PROVE  /\ ScWrite(t, line) \in ScTerms(h) /\ ScWrite(t, line).at = t.at /\ ScWrite(t, line).above = t.above
           /\ t.rows[t.at + 1] = ScBlank =>
                  \A i \in 1 .. h : ScWrite(t, line).rows[i] = IF i = t.at + 1 THEN line ELSE t.rows[i]
<1> DEFINE old == t.rows[t.at + 1]
           x == IF old = ScBlank THEN line ELSE IF line = ScBlank THEN old ELSE ScJunk
<1>1. t.at \in 0 .. h - 1 /\ \A i \in 1 .. h : t.rows[i] \in ScInk
  BY TermIs DEF ScAsIs
<1>2. old \in ScInk
  <2>1. t.at + 1 \in 1 .. h
    BY <1>1
  <2> QED BY <1>1, <2>1
<1>3. x \in ScInk /\ (old = ScBlank => x = line)
  <2> HIDE DEF old
  <2> QED BY <1>2 DEF ScInk
<1>4. ScWrite(t, line) = [t EXCEPT !.rows[t.at + 1] = x]
  BY DEF ScWrite
<1> HIDE DEF x
<1> QED BY <1>3, <1>4, RowChanged DEF old

(* What a terminal has on its rows, on a tape: row i is the tape's s + i - 1,
   the cursor at s + at, and below the last row the tape is blank.  What is before
   the tape's beginning came before the program.  Rolled: the rows that went
   into the scrollback are on the tape too.                                  *)
ScTapes == [Nat -> ScInk]
ScPaper(t, h, s, f) ==
    /\ t \in ScTerms(h) /\ s \in Int /\ f \in ScTapes
    /\ \A i \in 1 .. h : s + i - 1 >= 0 => t.rows[i] = f[s + i - 1]
    /\ \A j \in Nat : j >= s + h => f[j] = ScBlank
ScRolled(t, s, f) ==
    \A k \in 1 .. ScKept : k <= s => k <= Len(t.above) /\ t.above[Len(t.above) + 1 - k] = f[s - k]
ScPut(f, p, x) == [j \in Nat |-> IF j = p THEN x ELSE f[j]]

LEMMA PutIs ==
    ASSUME NEW f \in ScTapes, NEW p \in Nat, NEW x \in ScInk
    PROVE  ScPut(f, p, x) \in ScTapes /\ \A j \in Nat : ScPut(f, p, x)[j] = IF j = p THEN x ELSE f[j]
BY DEF ScPut, ScTapes

LEMMA MoveOn ==
    ASSUME NEW h \in Nat \ {0}, NEW t, NEW s, NEW f, ScPaper(t, h, s, f), NEW u \in ScTerms(h), u.rows = t.rows, u.above = t.above
    PROVE  ScPaper(u, h, s, f) /\ (ScRolled(t, s, f) => ScRolled(u, s, f))
BY DEF ScPaper, ScRolled

LEMMA ReturnOn ==
    ASSUME ScAssumption, NEW h \in Nat \ {0}, NEW t, NEW s, NEW f, ScPaper(t, h, s, f)
    PROVE  LET u == ScReturn(t)
               q == ScMax(s, s + t.at + 2 - h)
           IN  ScPaper(u, h, q, f) /\ q + u.at = s + t.at + 1 /\ (ScRolled(t, s, f) => ScRolled(u, q, f))
<1> DEFINE u == ScReturn(t)
           q == ScMax(s, s + t.at + 2 - h)
<1>1. /\ t \in ScTerms(h) /\ s \in Int /\ f \in ScTapes
      /\ \A i \in 1 .. h : s + i - 1 >= 0 => t.rows[i] = f[s + i - 1]
      /\ \A j \in Nat : j >= s + h => f[j] = ScBlank
  BY DEF ScPaper
<1>2. t.at \in 0 .. h - 1 /\ t.above \in Seq(ScInk) /\ Len(t.above) \in Nat /\ \A i \in 1 .. h : t.rows[i] \in ScInk
  BY <1>1, TermIs, LenProperties DEF ScAsIs
<1>5. t.at \in Int /\ 0 <= t.at /\ t.at <= h - 1 /\ s \in Int
  BY <1>1, <1>2
<1>3. CASE t.at < h - 1
  <2>1. q = s
    BY <1>5, <1>3 DEF ScMax
  <2>2. u \in ScTerms(h) /\ u.rows = t.rows /\ u.above = t.above /\ u.at = t.at + 1
    BY <1>1, <1>3, ReturnIs
  <2> HIDE DEF u, q
  <2>3. ScPaper(u, h, q, f) /\ (ScRolled(t, s, f) => ScRolled(u, q, f))
    BY <2>1, <2>2, MoveOn
  <2>4. q + u.at = s + t.at + 1
    BY <1>5, <2>1, <2>2
  <2> QED BY <2>3, <2>4 DEF u, q
<1>4. CASE ~(t.at < h - 1)
  <2>1. q = s + 1
    BY <1>5, <1>4 DEF ScMax
  <2>2. /\ u \in ScTerms(h) /\ u.at = t.at
        /\ \A i \in 1 .. h - 1 : u.rows[i] = t.rows[i + 1]
        /\ u.rows[h] = ScBlank /\ u.above = ScTail(Append(t.above, t.rows[1]))
    BY <1>1, <1>4, ReturnIs
  <2> HIDE DEF u, q
  <2>3. ASSUME NEW i \in 1 .. h, q + i - 1 >= 0 PROVE u.rows[i] = f[q + i - 1]
    <3>1. CASE i = h
      <4>1. q + i - 1 \in Nat /\ q + i - 1 >= s + h
        BY <1>1, <2>1, <2>3, <3>1
      <4> QED BY <1>1, <2>2, <3>1, <4>1
    <3>2. CASE i # h
      <4>1. i \in 1 .. h - 1 /\ i + 1 \in 1 .. h /\ s + (i + 1) - 1 = q + i - 1 /\ s + (i + 1) - 1 >= 0
        BY <1>1, <2>1, <2>3, <3>2
      <4>2. t.rows[i + 1] = f[s + (i + 1) - 1]
        BY <1>1, <4>1
      <4> QED BY <2>2, <4>1, <4>2
    <3> QED BY <3>1, <3>2
  <2>4. ASSUME NEW j \in Nat, j >= q + h PROVE f[j] = ScBlank
    <3>1. j >= s + h
      BY <1>1, <2>1, <2>4
    <3> QED BY <1>1, <3>1
  <2>5. q \in Int /\ q + u.at = s + t.at + 1
    <3>1. u.at = t.at
      BY <2>2
    <3> QED BY <1>5, <2>1, <3>1
  <2>6. ScPaper(u, h, q, f)
    BY <1>1, <2>2, <2>3, <2>4, <2>5 DEF ScPaper
  <2>7. ASSUME ScRolled(t, s, f) PROVE ScRolled(u, q, f)
    <3> DEFINE a == t.above
               b == u.above
    <3>1. 1 \in 1 .. h /\ t.rows[1] \in ScInk
      BY <1>2
    <3>2. /\ b \in Seq(ScInk) /\ Len(b) >= 1 /\ b[Len(b)] = t.rows[1] /\ Len(b) \in Nat
          /\ \A k \in 1 .. ScKept - 1 : k <= Len(a) => k + 1 <= Len(b) /\ b[Len(b) - k] = a[Len(a) + 1 - k]
      <4>1. LET c == ScTail(Append(a, t.rows[1])) IN
               /\ c \in Seq(ScInk) /\ Len(c) >= 1 /\ c[Len(c)] = t.rows[1]
               /\ \A k \in 1 .. ScKept - 1 : k <= Len(a) => k + 1 <= Len(c) /\ c[Len(c) - k] = a[Len(a) + 1 - k]
        BY <1>2, <3>1, TailIs
      <4>2. b = ScTail(Append(a, t.rows[1]))
        BY <2>2
      <4>3. Len(b) \in Nat
        BY <4>1, <4>2, LenProperties
      <4> HIDE DEF a, b
      <4> QED BY <4>1, <4>2, <4>3
    <3>3. \A k \in 1 .. ScKept : k <= s => k <= Len(a) /\ a[Len(a) + 1 - k] = f[s - k]
      BY <2>7 DEF ScRolled
    <3> HIDE DEF a, b
    <3>4. ScKept \in Nat
      BY DEF ScAssumption
    <3>5. ASSUME NEW k \in 1 .. ScKept, k <= q PROVE k <= Len(b) /\ b[Len(b) + 1 - k] = f[q - k]
      <4>1. CASE k = 1
        <5>1. s + 1 - 1 >= 0 /\ s + 1 - 1 = s /\ q - k = s /\ Len(b) + 1 - k = Len(b)
          BY <1>1, <2>1, <3>2, <3>5, <4>1
        <5>2. t.rows[1] = f[s]
          BY <1>1, <3>1, <5>1
        <5> QED BY <3>2, <4>1, <5>1, <5>2
      <4>2. CASE k # 1
        <5>1. k - 1 \in 1 .. ScKept - 1 /\ k - 1 \in 1 .. ScKept /\ k - 1 <= s
          BY <1>1, <2>1, <3>4, <3>5, <4>2
        <5>2. k - 1 <= Len(a) /\ a[Len(a) + 1 - (k - 1)] = f[s - (k - 1)]
          BY <3>3, <5>1
        <5>3. (k - 1) + 1 <= Len(b) /\ b[Len(b) - (k - 1)] = a[Len(a) + 1 - (k - 1)]
          BY <3>2, <5>1, <5>2
        <5>4. (k - 1) + 1 = k /\ Len(b) - (k - 1) = Len(b) + 1 - k /\ s - (k - 1) = q - k
          BY <1>1, <2>1, <3>2, <3>4
        <5> QED BY <5>2, <5>3, <5>4
      <4> QED BY <4>1, <4>2
    <3> QED BY <3>5 DEF ScRolled, b
  <2> QED BY <2>5, <2>6, <2>7 DEF u, q
<1> QED BY <1>3, <1>4

(* A row changed at the cursor. *)
LEMMA PutOn ==
    ASSUME NEW h \in Nat \ {0}, NEW t, NEW s, NEW f, ScPaper(t, h, s, f), s + t.at >= 0, NEW x \in ScInk,
           NEW u \in ScTerms(h), u.at = t.at, u.above = t.above,
           \A i \in 1 .. h : u.rows[i] = IF i = t.at + 1 THEN x ELSE t.rows[i]
    PROVE  LET g == ScPut(f, s + t.at, x) IN ScPaper(u, h, s, g) /\ (ScRolled(t, s, f) => ScRolled(u, s, g))
<1> DEFINE p == s + t.at
           g == ScPut(f, p, x)
<1>1. /\ t \in ScTerms(h) /\ s \in Int /\ f \in ScTapes
      /\ \A i \in 1 .. h : s + i - 1 >= 0 => t.rows[i] = f[s + i - 1]
      /\ \A j \in Nat : j >= s + h => f[j] = ScBlank
  BY DEF ScPaper
<1>2. t.at \in 0 .. h - 1
  BY <1>1, TermIs DEF ScAsIs
<1>3. p \in Nat
  BY <1>1, <1>2
<1>4. g \in ScTapes /\ \A j \in Nat : g[j] = IF j = p THEN x ELSE f[j]
  <2> HIDE DEF p
  <2> QED BY <1>1, <1>3, PutIs
<1>5. ASSUME NEW i \in 1 .. h, s + i - 1 >= 0 PROVE u.rows[i] = g[s + i - 1]
  <2>1. s + i - 1 \in Nat /\ (i = t.at + 1 <=> s + i - 1 = p)
    BY <1>1, <1>2, <1>5
  <2> HIDE DEF p, g
  <2>2. g[s + i - 1] = IF s + i - 1 = p THEN x ELSE f[s + i - 1]
    BY <1>4, <2>1
  <2> QED BY <1>1, <1>5, <2>1, <2>2
<1>6. ASSUME NEW j \in Nat, j >= s + h PROVE g[j] = ScBlank
  <2>1. j # p
    BY <1>1, <1>2, <1>6
  <2> HIDE DEF p, g
  <2> QED BY <1>1, <1>4, <1>6, <2>1
<1>7. ScPaper(u, h, s, g)
  <2> HIDE DEF p, g
  <2> QED BY <1>1, <1>4, <1>5, <1>6 DEF ScPaper
<1>8. ASSUME ScRolled(t, s, f) PROVE ScRolled(u, s, g)
  <2>1. ASSUME NEW k \in 1 .. ScKept, k <= s PROVE g[s - k] = f[s - k]
    <3>1. s - k \in Nat /\ s - k # p
      BY <1>1, <1>2, <2>1
    <3> HIDE DEF p, g
    <3> QED BY <1>4, <3>1
  <2> HIDE DEF p, g
  <2> QED BY <1>8, <2>1 DEF ScRolled
<1> QED BY <1>7, <1>8

LEMMA ClearOn ==
    ASSUME NEW h \in Nat \ {0}, NEW t, NEW s, NEW f, ScPaper(t, h, s, f), s + t.at >= 0
    PROVE  LET u == ScClearLine(t)
               g == ScPut(f, s + t.at, ScBlank)
           IN  ScPaper(u, h, s, g) /\ u.at = t.at /\ (ScRolled(t, s, f) => ScRolled(u, s, g))
<1>1. t \in ScTerms(h) /\ ScBlank \in ScInk
  BY DEF ScPaper, ScInk
<1>2. /\ ScClearLine(t) \in ScTerms(h) /\ ScClearLine(t).at = t.at /\ ScClearLine(t).above = t.above
      /\ \A i \in 1 .. h : ScClearLine(t).rows[i] = IF i = t.at + 1 THEN ScBlank ELSE t.rows[i]
  BY <1>1, ScClearIs
<1> QED BY <1>1, <1>2, PutOn

LEMMA WriteOn ==
    ASSUME NEW h \in Nat \ {0}, NEW t, NEW s, NEW f, ScPaper(t, h, s, f), s + t.at >= 0, f[s + t.at] = ScBlank, NEW line \in ScTexts
    PROVE  LET u == ScWrite(t, line)
               g == ScPut(f, s + t.at, line)
           IN  ScPaper(u, h, s, g) /\ u.at = t.at /\ (ScRolled(t, s, f) => ScRolled(u, s, g))
<1>1. t \in ScTerms(h) /\ s \in Int /\ line \in ScInk
  BY DEF ScPaper, ScInk
<1>2. t.at \in 0 .. h - 1
  BY <1>1, TermIs DEF ScAsIs
<1>3. t.rows[t.at + 1] = ScBlank
  <2>1. t.at + 1 \in 1 .. h /\ s + (t.at + 1) - 1 = s + t.at
    BY <1>1, <1>2
  <2>2. t.rows[t.at + 1] = f[s + (t.at + 1) - 1]
    BY <2>1 DEF ScPaper
  <2> QED BY <2>1, <2>2
<1>4. /\ ScWrite(t, line) \in ScTerms(h) /\ ScWrite(t, line).at = t.at /\ ScWrite(t, line).above = t.above
      /\ \A i \in 1 .. h : ScWrite(t, line).rows[i] = IF i = t.at + 1 THEN line ELSE t.rows[i]
  BY <1>1, <1>3, WriteIs
<1> QED BY <1>1, <1>4, PutOn

(* The same, with the cursor's place on the tape, and the scrollback if it is followed. *)
ScOn(t, h, s, p, f, rolled) ==
    ScPaper(t, h, s, f) /\ p = s + t.at /\ (rolled => ScRolled(t, s, f))

LEMMA OnIs ==
    ASSUME NEW h \in Nat \ {0}, NEW t, NEW s, NEW p, NEW f, NEW rolled, ScOn(t, h, s, p, f, rolled)
    PROVE  t \in ScTerms(h) /\ s \in Int /\ p \in Int /\ f \in ScTapes /\ s <= p /\ p <= s + h - 1 /\ t.at = p - s
<1>1. t \in ScTerms(h) /\ s \in Int /\ f \in ScTapes /\ p = s + t.at
  BY DEF ScOn, ScPaper
<1>2. t.at \in 0 .. h - 1
  BY <1>1, TermIs DEF ScAsIs
<1> QED BY <1>1, <1>2

(* The cursor moves within the rows. *)
LEMMA OnMove ==
    ASSUME NEW h \in Nat \ {0}, NEW t, NEW s, NEW p, NEW f, NEW rolled, ScOn(t, h, s, p, f, rolled),
           NEW q \in Int, s <= q, q <= s + h - 1
    PROVE  /\ ScOn(ScMove(t, q - p), h, s, q, f, rolled)
           /\ q <= p => ScOn(ScUp(t, p - q), h, s, q, f, rolled)
           /\ q >= p => ScOn(ScDown(t, q - p), h, s, q, f, rolled)
<1>1. t \in ScTerms(h) /\ s \in Int /\ p \in Int /\ f \in ScTapes /\ s <= p /\ p <= s + h - 1 /\ t.at = p - s
  BY OnIs
<1>2. ScPaper(t, h, s, f) /\ (rolled => ScRolled(t, s, f))
  BY DEF ScOn
<1>3. ASSUME NEW u \in ScTerms(h), u.rows = t.rows, u.above = t.above, u.at = q - s PROVE ScOn(u, h, s, q, f, rolled)
  <2>1. ScPaper(u, h, s, f) /\ (ScRolled(t, s, f) => ScRolled(u, s, f))
    BY <1>2, <1>3, MoveOn
  <2>2. q = s + u.at
    BY <1>1, <1>3
  <2> QED BY <1>2, <2>1, <2>2 DEF ScOn
<1>4. ScOn(ScMove(t, q - p), h, s, q, f, rolled)
  <2>1. q - p \in Int /\ t.at + (q - p) \in 0 .. h - 1 /\ t.at + (q - p) = q - s
    BY <1>1
  <2>2. LET u == ScMove(t, q - p) IN u \in ScTerms(h) /\ u.rows = t.rows /\ u.above = t.above /\ u.at = q - s
    BY <1>1, <2>1, MoveIs
  <2> QED BY <1>3, <2>2
<1>5. ASSUME q <= p PROVE ScOn(ScUp(t, p - q), h, s, q, f, rolled)
  <2>1. p - q \in Nat /\ p - q <= t.at /\ t.at - (p - q) = q - s
    BY <1>1, <1>5
  <2>2. LET u == ScUp(t, p - q) IN u \in ScTerms(h) /\ u.rows = t.rows /\ u.above = t.above /\ u.at = q - s
    BY <1>1, <2>1, UpIs
  <2> QED BY <1>3, <2>2
<1>6. ASSUME q >= p PROVE ScOn(ScDown(t, q - p), h, s, q, f, rolled)
  <2>1. q - p \in Nat /\ t.at + (q - p) <= h - 1 /\ t.at + (q - p) = q - s
    BY <1>1, <1>6
  <2>2. LET u == ScDown(t, q - p) IN u \in ScTerms(h) /\ u.rows = t.rows /\ u.above = t.above /\ u.at = q - s
    BY <1>1, <2>1, DownIs
  <2> QED BY <1>3, <2>2
<1> QED BY <1>4, <1>5, <1>6

LEMMA OnReturn ==
    ASSUME ScAssumption, NEW h \in Nat \ {0}, NEW t, NEW s, NEW p, NEW f, NEW rolled, ScOn(t, h, s, p, f, rolled)
    PROVE  ScOn(ScReturn(t), h, ScMax(s, p + 2 - h), p + 1, f, rolled)
<1>1. s \in Int /\ p \in Int /\ p = s + t.at
  BY OnIs DEF ScOn
<1>2. ScPaper(t, h, s, f) /\ (rolled => ScRolled(t, s, f))
  BY DEF ScOn
<1> DEFINE u == ScReturn(t)
           q == ScMax(s, p + 2 - h)
<1>3. ScPaper(u, h, q, f) /\ q + u.at = s + t.at + 1 /\ (ScRolled(t, s, f) => ScRolled(u, q, f))
  BY <1>1, <1>2, ReturnOn
<1> HIDE DEF u, q
<1> QED BY <1>1, <1>2, <1>3 DEF ScOn, u, q

(* The cursor's row is cleared, or a line is written on it when it is blank. *)
LEMMA OnPut ==
    ASSUME NEW h \in Nat \ {0}, NEW t, NEW s, NEW p, NEW f, NEW rolled, ScOn(t, h, s, p, f, rolled), p >= 0
    PROVE  /\ ScOn(ScClearLine(t), h, s, p, ScPut(f, p, ScBlank), rolled)
           /\ f[p] = ScBlank => \A line \in ScTexts : ScOn(ScWrite(t, line), h, s, p, ScPut(f, p, line), rolled)
<1>1. s \in Int /\ p \in Int /\ p = s + t.at
  BY OnIs DEF ScOn
<1>2. ScPaper(t, h, s, f) /\ (rolled => ScRolled(t, s, f))
  BY DEF ScOn
<1>3. ScOn(ScClearLine(t), h, s, p, ScPut(f, p, ScBlank), rolled)
  <2> DEFINE u == ScClearLine(t)
  <2>1. LET g == ScPut(f, s + t.at, ScBlank) IN ScPaper(u, h, s, g) /\ u.at = t.at /\ (ScRolled(t, s, f) => ScRolled(u, s, g))
    BY <1>1, <1>2, ClearOn
  <2> HIDE DEF u
  <2> QED BY <1>1, <1>2, <2>1 DEF ScOn, u
<1>4. ASSUME f[p] = ScBlank, NEW line \in ScTexts PROVE ScOn(ScWrite(t, line), h, s, p, ScPut(f, p, line), rolled)
  <2> DEFINE u == ScWrite(t, line)
  <2>1. LET g == ScPut(f, s + t.at, line) IN ScPaper(u, h, s, g) /\ u.at = t.at /\ (ScRolled(t, s, f) => ScRolled(u, s, g))
    BY <1>1, <1>2, <1>4, WriteOn
  <2> HIDE DEF u
  <2> QED BY <1>1, <1>2, <2>1 DEF ScOn, u
<1> QED BY <1>3, <1>4

(* A line, on the cursor's row or on the next one. *)
LEMMA OnLine ==
    ASSUME ScAssumption, NEW h \in Nat \ {0}, NEW t, NEW s, NEW p, NEW f, NEW rolled, ScOn(t, h, s, p, f, rolled),
           NEW line \in ScTexts, NEW first \in BOOLEAN, NEW clears \in BOOLEAN, NEW q, q = IF first THEN p ELSE p + 1,
           q >= 0, ~clears => f[q] = ScBlank
    PROVE  ScOn(ScLine(t, line, first, clears), h, ScMax(s, q + 1 - h), q, ScPut(f, q, line), rolled)
<1>1. s \in Int /\ p \in Int /\ f \in ScTapes /\ s <= p /\ p <= s + h - 1 /\ t \in ScTerms(h)
  BY OnIs
<1> DEFINE u == IF first THEN t ELSE ScReturn(t)
           z == ScMax(s, q + 1 - h)
           v == IF clears THEN ScClearLine(u) ELSE u
           g == IF clears THEN ScPut(f, q, ScBlank) ELSE f
<1>2. ScOn(u, h, z, q, f, rolled)
  <2>1. CASE first
    <3>1. z = s
      BY <1>1, <2>1 DEF ScMax
    <3> QED BY <2>1, <3>1
  <2>2. CASE ~first
    <3>1. q = p + 1 /\ q + 1 - h = p + 2 - h
      BY <1>1, <2>2
    <3> QED BY <2>2, <3>1, OnReturn
  <2> QED BY <2>1, <2>2
<1>3. q \in Nat /\ ScBlank \in ScInk /\ line \in ScInk
  BY <1>1 DEF ScInk
<1> HIDE DEF u, z
<1>4. ScOn(v, h, z, q, g, rolled)
  <2>1. CASE clears
    <3>1. ScOn(ScClearLine(u), h, z, q, ScPut(f, q, ScBlank), rolled)
      BY <1>2, <1>3, OnPut
    <3>2. v = ScClearLine(u) /\ g = ScPut(f, q, ScBlank)
      BY <2>1
    <3> HIDE DEF v, g
    <3> QED BY <3>1, <3>2
  <2>2. CASE ~clears
    <3>1. v = u /\ g = f
      BY <2>2
    <3> HIDE DEF v, g
    <3> QED BY <1>2, <3>1
  <2> QED BY <2>1, <2>2
<1> DEFINE e == ScPut(f, q, ScBlank)
<1>9. e \in ScTapes /\ e[q] = ScBlank /\ \A j \in Nat : j # q => e[j] = f[j]
  <2>1. e \in ScTapes /\ \A j \in Nat : e[j] = IF j = q THEN ScBlank ELSE f[j]
    BY <1>1, <1>3, PutIs
  <2> HIDE DEF e
  <2> QED BY <1>3, <2>1
<1>10. g = IF clears THEN e ELSE f
  OBVIOUS
<1> HIDE DEF e, g
<1>5. g[q] = ScBlank /\ g \in ScTapes
  BY <1>1, <1>9, <1>10
<1>6. ScPut(g, q, line) = ScPut(f, q, line)
  <2>1. \A j \in Nat : j # q => g[j] = f[j]
    BY <1>9, <1>10
  <2> HIDE DEF g
  <2> QED BY <2>1 DEF ScPut
<1>7. ScLine(t, line, first, clears) = ScWrite(v, line)
  BY DEF ScLine, u
<1> HIDE DEF v
<1>8. ScOn(ScWrite(v, line), h, z, q, ScPut(g, q, line), rolled)
  BY <1>4, <1>5, OnPut
<1> QED BY <1>6, <1>7, <1>8 DEF z

(* What is done n times, one after the other. *)
ScCounts(a, F, w, n) == a = [i \in 0 .. n |-> IF i = 0 THEN w ELSE F[<<a[i - 1], i>>]]
LEMMA CountExists ==
    ASSUME NEW W, NEW F \in [W \X Nat -> W], NEW w \in W, NEW n \in Nat
    PROVE  \E a \in [0 .. n -> W] : ScCounts(a, F, w, n)
<1> DEFINE t == [i \in 1 .. n |-> i]
<1>1. t \in Seq(Nat) /\ Len(t) = n /\ \A i \in 1 .. n : t[i] = i
  <2>1. \A i \in 1 .. n : i \in Nat
    OBVIOUS
  <2> QED BY <2>1, IsASeq
<1> HIDE DEF t
<1>2. PICK a \in [0 .. Len(t) -> W] : SbSteps(a, F, w, t)
  BY <1>1, StepsExist DEF SbMoves
<1>3. a = [i \in 0 .. n |-> IF i = 0 THEN w ELSE F[<<a[i - 1], t[i]>>]]
  BY <1>1, <1>2 DEF SbSteps
<1>4. ASSUME NEW i \in 0 .. n, i # 0 PROVE F[<<a[i - 1], t[i]>>] = F[<<a[i - 1], i>>]
  <2>1. t[i] = i
    <3>1. i \in 1 .. n
      BY <1>4
    <3> QED BY <1>1, <3>1
  <2> QED BY <2>1
<1>5. [i \in 0 .. n |-> IF i = 0 THEN w ELSE F[<<a[i - 1], t[i]>>]] = [i \in 0 .. n |-> IF i = 0 THEN w ELSE F[<<a[i - 1], i>>]]
  BY <1>4
<1>6. a \in [0 .. n -> W]
  BY <1>1, <1>2
<1>7. a = [i \in 0 .. n |-> IF i = 0 THEN w ELSE F[<<a[i - 1], i>>]]
  BY <1>3, <1>5, Zenon
<1>8. ScCounts(a, F, w, n)
  BY <1>7 DEF ScCounts
<1> QED BY <1>6, <1>8

(* What holds at first and is kept by each of n steps holds at last. *)
LEMMA CountKeeps ==
    ASSUME NEW n \in Nat, NEW S \in SUBSET (0 .. n), 0 \in S, \A i \in 1 .. n : i - 1 \in S => i \in S
    PROVE  \A i \in 0 .. n : i \in S
<1> DEFINE C == (0 .. n) \ S
<1>1. SUFFICES ASSUME C # {} PROVE FALSE
  OBVIOUS
<1>2. PICK m \in C : \A k \in C : m <= k
  <2>1. C \subseteq Nat
    OBVIOUS
  <2> QED BY <1>1, <2>1, LeastPosition
<1>3. m \in 1 .. n /\ m - 1 \in 0 .. n /\ ~(m <= m - 1)
  <2>1. m # 0
    OBVIOUS
  <2> QED BY <2>1
<1>4. m - 1 \in S
  BY <1>2, <1>3
<1> QED BY <1>3, <1>4

ScReturned(a, t, n) == a[0] = t /\ \A i \in 1 .. n : a[i] = ScReturn(a[i - 1])
ScReturnedClear(a, t, n) == a[0] = t /\ \A i \in 1 .. n : a[i] = ScClearLine(ScReturn(a[i - 1]))
ScDownedClear(a, t, n) == a[0] = t /\ \A i \in 1 .. n : a[i] = ScClearLine(ScDown(a[i - 1], 1))
ScLined(a, t, lines, from, clears, n) == a[0] = t /\ \A i \in 1 .. n : a[i] = ScLine(a[i - 1], lines[from + i], i = 1, clears)

LEMMA ReturnsRun ==
    ASSUME ScAssumption, NEW h \in Nat \ {0}, NEW t \in ScTerms(h), NEW n \in Nat
    PROVE  \E a : ScReturned(a, t, n) /\ a[n] = ScReturns(t, n) /\ \A i \in 0 .. n : a[i] \in ScTerms(h)
<1> DEFINE W == ScTerms(h)
           F == [p \in W \X Nat |-> ScReturn(p[1])]
           Is(a) == a = [i \in 0 .. n |-> IF i = 0 THEN t ELSE ScReturn(a[i - 1])]
           after == CHOOSE a : Is(a)
<1>1. F \in [W \X Nat -> W] /\ t \in W
  <2>1. \A p \in W \X Nat : ScReturn(p[1]) \in W
    BY ReturnIs
  <2> QED BY <2>1
<1>2. \A x \in W, i \in Nat : F[<<x, i>>] = ScReturn(x)
  OBVIOUS
<1> HIDE DEF F, W
<1>3. PICK a \in [0 .. n -> W] : ScCounts(a, F, t, n)
  BY <1>1, CountExists
<1>4. Is(a)
  <2>1. ASSUME NEW i \in 0 .. n, i # 0 PROVE F[<<a[i - 1], i>>] = ScReturn(a[i - 1])
    <3>1. i - 1 \in 0 .. n /\ i \in Nat
      BY <2>1
    <3>2. a[i - 1] \in W
      BY <1>3, <3>1
    <3> QED BY <1>2, <3>1, <3>2
  <2>2. [i \in 0 .. n |-> IF i = 0 THEN t ELSE F[<<a[i - 1], i>>]] = [i \in 0 .. n |-> IF i = 0 THEN t ELSE ScReturn(a[i - 1])]
    BY <2>1
  <2> QED BY <1>3, <2>2 DEF ScCounts
<1>5. Is(after)
  BY <1>4
<1>6. ScReturns(t, n) = after[n]
  BY DEF ScReturns
<1> HIDE DEF after
<1>7. \A i \in 0 .. n : after[i] = IF i = 0 THEN t ELSE ScReturn(after[i - 1])
  BY <1>5
<1>8. after[0] = t /\ \A i \in 1 .. n : after[i] = ScReturn(after[i - 1])
  <2>1. 0 \in 0 .. n /\ \A i \in 1 .. n : i \in 0 .. n /\ i # 0
    OBVIOUS
  <2> QED BY <1>7, <2>1
<1>9. \A i \in 0 .. n : after[i] \in W
  <2> DEFINE S == {i \in 0 .. n : after[i] \in W}
  <2>1. S \in SUBSET (0 .. n) /\ 0 \in S
    BY <1>1, <1>8
  <2>2. ASSUME NEW i \in 1 .. n, i - 1 \in S PROVE i \in S
    <3>1. after[i - 1] \in W /\ i \in Nat /\ i \in 0 .. n
      BY <2>2
    <3>2. F[<<after[i - 1], i>>] \in W
      BY <1>1, <3>1
    <3> QED BY <1>2, <1>8, <3>1, <3>2
  <2> HIDE DEF S
  <2>3. \A i \in 0 .. n : i \in S
    BY <2>1, <2>2, CountKeeps
  <2> QED BY <2>3 DEF S
<1>10. ScReturned(after, t, n)
  BY <1>8 DEF ScReturned
<1> QED BY <1>6, <1>9, <1>10 DEF W

LEMMA ReturnsClearedRun ==
    ASSUME ScAssumption, NEW h \in Nat \ {0}, NEW t \in ScTerms(h), NEW n \in Nat
    PROVE  \E a : ScReturnedClear(a, t, n) /\ a[n] = ScReturnsCleared(t, n) /\ \A i \in 0 .. n : a[i] \in ScTerms(h)
<1> DEFINE W == ScTerms(h)
           F == [p \in W \X Nat |-> ScClearLine(ScReturn(p[1]))]
           Is(a) == a = [i \in 0 .. n |-> IF i = 0 THEN t ELSE ScClearLine(ScReturn(a[i - 1]))]
           after == CHOOSE a : Is(a)
<1>1. F \in [W \X Nat -> W] /\ t \in W
  <2>1. \A p \in W \X Nat : ScClearLine(ScReturn(p[1])) \in W
    BY ReturnIs, ScClearIs
  <2> QED BY <2>1
<1>2. \A x \in W, i \in Nat : F[<<x, i>>] = ScClearLine(ScReturn(x))
  OBVIOUS
<1> HIDE DEF F, W
<1>3. PICK a \in [0 .. n -> W] : ScCounts(a, F, t, n)
  BY <1>1, CountExists
<1>4. Is(a)
  <2>1. ASSUME NEW i \in 0 .. n, i # 0 PROVE F[<<a[i - 1], i>>] = ScClearLine(ScReturn(a[i - 1]))
    <3>1. i - 1 \in 0 .. n /\ i \in Nat
      BY <2>1
    <3>2. a[i - 1] \in W
      BY <1>3, <3>1
    <3> QED BY <1>2, <3>1, <3>2
  <2>2. [i \in 0 .. n |-> IF i = 0 THEN t ELSE F[<<a[i - 1], i>>]] = [i \in 0 .. n |-> IF i = 0 THEN t ELSE ScClearLine(ScReturn(a[i - 1]))]
    BY <2>1
  <2> QED BY <1>3, <2>2 DEF ScCounts
<1>5. Is(after)
  BY <1>4
<1>6. ScReturnsCleared(t, n) = after[n]
  BY DEF ScReturnsCleared
<1> HIDE DEF after
<1>7. \A i \in 0 .. n : after[i] = IF i = 0 THEN t ELSE ScClearLine(ScReturn(after[i - 1]))
  BY <1>5
<1>8. after[0] = t /\ \A i \in 1 .. n : after[i] = ScClearLine(ScReturn(after[i - 1]))
  <2>1. 0 \in 0 .. n /\ \A i \in 1 .. n : i \in 0 .. n /\ i # 0
    OBVIOUS
  <2> QED BY <1>7, <2>1
<1>9. \A i \in 0 .. n : after[i] \in W
  <2> DEFINE S == {i \in 0 .. n : after[i] \in W}
  <2>1. S \in SUBSET (0 .. n) /\ 0 \in S
    BY <1>1, <1>8
  <2>2. ASSUME NEW i \in 1 .. n, i - 1 \in S PROVE i \in S
    <3>1. after[i - 1] \in W /\ i \in Nat /\ i \in 0 .. n
      BY <2>2
    <3>2. F[<<after[i - 1], i>>] \in W
      BY <1>1, <3>1
    <3> QED BY <1>2, <1>8, <3>1, <3>2
  <2> HIDE DEF S
  <2>3. \A i \in 0 .. n : i \in S
    BY <2>1, <2>2, CountKeeps
  <2> QED BY <2>3 DEF S
<1>10. ScReturnedClear(after, t, n)
  BY <1>8 DEF ScReturnedClear
<1> QED BY <1>6, <1>9, <1>10 DEF W

LEMMA DownsClearedRun ==
    ASSUME ScAssumption, NEW h \in Nat \ {0}, NEW t \in ScTerms(h), NEW n \in Nat
    PROVE  \E a : ScDownedClear(a, t, n) /\ a[n] = ScDownsCleared(t, n) /\ \A i \in 0 .. n : a[i] \in ScTerms(h)
<1> DEFINE W == ScTerms(h)
           F == [p \in W \X Nat |-> ScClearLine(ScDown(p[1], 1))]
           Is(a) == a = [i \in 0 .. n |-> IF i = 0 THEN t ELSE ScClearLine(ScDown(a[i - 1], 1))]
           after == CHOOSE a : Is(a)
<1>1. F \in [W \X Nat -> W] /\ t \in W
  <2>1. \A p \in W \X Nat : ScClearLine(ScDown(p[1], 1)) \in W
    BY DownIs, ScClearIs
  <2> QED BY <2>1
<1>2. \A x \in W, i \in Nat : F[<<x, i>>] = ScClearLine(ScDown(x, 1))
  OBVIOUS
<1> HIDE DEF F, W
<1>3. PICK a \in [0 .. n -> W] : ScCounts(a, F, t, n)
  BY <1>1, CountExists
<1>4. Is(a)
  <2>1. ASSUME NEW i \in 0 .. n, i # 0 PROVE F[<<a[i - 1], i>>] = ScClearLine(ScDown(a[i - 1], 1))
    <3>1. i - 1 \in 0 .. n /\ i \in Nat
      BY <2>1
    <3>2. a[i - 1] \in W
      BY <1>3, <3>1
    <3> QED BY <1>2, <3>1, <3>2
  <2>2. [i \in 0 .. n |-> IF i = 0 THEN t ELSE F[<<a[i - 1], i>>]] = [i \in 0 .. n |-> IF i = 0 THEN t ELSE ScClearLine(ScDown(a[i - 1], 1))]
    BY <2>1
  <2> QED BY <1>3, <2>2 DEF ScCounts
<1>5. Is(after)
  BY <1>4
<1>6. ScDownsCleared(t, n) = after[n]
  BY DEF ScDownsCleared
<1> HIDE DEF after
<1>7. \A i \in 0 .. n : after[i] = IF i = 0 THEN t ELSE ScClearLine(ScDown(after[i - 1], 1))
  BY <1>5
<1>8. after[0] = t /\ \A i \in 1 .. n : after[i] = ScClearLine(ScDown(after[i - 1], 1))
  <2>1. 0 \in 0 .. n /\ \A i \in 1 .. n : i \in 0 .. n /\ i # 0
    OBVIOUS
  <2> QED BY <1>7, <2>1
<1>9. \A i \in 0 .. n : after[i] \in W
  <2> DEFINE S == {i \in 0 .. n : after[i] \in W}
  <2>1. S \in SUBSET (0 .. n) /\ 0 \in S
    BY <1>1, <1>8
  <2>2. ASSUME NEW i \in 1 .. n, i - 1 \in S PROVE i \in S
    <3>1. after[i - 1] \in W /\ i \in Nat /\ i \in 0 .. n
      BY <2>2
    <3>2. F[<<after[i - 1], i>>] \in W
      BY <1>1, <3>1
    <3> QED BY <1>2, <1>8, <3>1, <3>2
  <2> HIDE DEF S
  <2>3. \A i \in 0 .. n : i \in S
    BY <2>1, <2>2, CountKeeps
  <2> QED BY <2>3 DEF S
<1>10. ScDownedClear(after, t, n)
  BY <1>8 DEF ScDownedClear
<1> QED BY <1>6, <1>9, <1>10 DEF W

LEMMA LineIs ==
    ASSUME ScAssumption, NEW h \in Nat \ {0}, NEW t \in ScTerms(h), NEW line \in ScTexts, NEW first \in BOOLEAN, NEW clears \in BOOLEAN
    PROVE  ScLine(t, line, first, clears) \in ScTerms(h)
<1> DEFINE u == IF first THEN t ELSE ScReturn(t)
           v == IF clears THEN ScClearLine(u) ELSE u
<1>1. u \in ScTerms(h)
  BY ReturnIs
<1> HIDE DEF u
<1>2. v \in ScTerms(h)
  BY <1>1, ScClearIs
<1>3. ScLine(t, line, first, clears) = ScWrite(v, line)
  BY DEF ScLine, u
<1> HIDE DEF v
<1> QED BY <1>2, <1>3, WriteIs

LEMMA LinesRun ==
    ASSUME ScAssumption, NEW h \in Nat \ {0}, NEW t \in ScTerms(h), NEW lines \in Seq(ScTexts), NEW from \in Nat, NEW to \in Int,
           from <= to, to < Len(lines), NEW clears \in BOOLEAN, NEW n, n = to - from + 1
    PROVE  \E a : ScLined(a, t, lines, from, clears, n) /\ a[n] = ScLines(t, lines, from, to, clears) /\ \A i \in 0 .. n : a[i] \in ScTerms(h)
<1> DEFINE W == ScTerms(h)
           F == [p \in W \X Nat |-> IF p[2] \in 1 .. n THEN ScLine(p[1], lines[from + p[2]], p[2] = 1, clears) ELSE p[1]]
           Is(a) == a = [i \in 0 .. n |-> IF i = 0 THEN t ELSE ScLine(a[i - 1], lines[from + i], i = 1, clears)]
           after == CHOOSE a : Is(a)
<1>0. n \in Nat /\ \A i \in 1 .. n : lines[from + i] \in ScTexts
  <2>1. n \in Nat /\ Len(lines) \in Nat
    BY LenProperties
  <2>2. ASSUME NEW i \in 1 .. n PROVE lines[from + i] \in ScTexts
    <3>1. from + i \in 1 .. Len(lines)
      BY <2>1
    <3> QED BY <3>1, ElementOfSeq
  <2> QED BY <2>1, <2>2
<1>1. F \in [W \X Nat -> W] /\ t \in W
  <2>1. ASSUME NEW p \in W \X Nat, p[2] \in 1 .. n PROVE ScLine(p[1], lines[from + p[2]], p[2] = 1, clears) \in W
    <3>1. lines[from + p[2]] \in ScTexts
      BY <1>0, <2>1
    <3> QED BY <3>1, LineIs
  <2> QED BY <2>1
<1>2. \A x \in W, i \in Nat : i \in 1 .. n => F[<<x, i>>] = ScLine(x, lines[from + i], i = 1, clears)
  OBVIOUS
<1> HIDE DEF F, W
<1>3. PICK a \in [0 .. n -> W] : ScCounts(a, F, t, n)
  BY <1>0, <1>1, CountExists
<1>4. Is(a)
  <2>1. ASSUME NEW i \in 0 .. n, i # 0 PROVE F[<<a[i - 1], i>>] = ScLine(a[i - 1], lines[from + i], i = 1, clears)
    <3>1. i - 1 \in 0 .. n /\ i \in Nat /\ i \in 1 .. n
      BY <1>0, <2>1
    <3>2. a[i - 1] \in W
      BY <1>3, <3>1
    <3> QED BY <1>2, <3>1, <3>2
  <2>2. [i \in 0 .. n |-> IF i = 0 THEN t ELSE F[<<a[i - 1], i>>]] = [i \in 0 .. n |-> IF i = 0 THEN t ELSE ScLine(a[i - 1], lines[from + i], i = 1, clears)]
    BY <2>1
  <2> QED BY <1>3, <2>2 DEF ScCounts
<1>5. Is(after)
  BY <1>4
<1>6. ScLines(t, lines, from, to, clears) = after[n]
  BY DEF ScLines
<1> HIDE DEF after
<1>7. \A i \in 0 .. n : after[i] = IF i = 0 THEN t ELSE ScLine(after[i - 1], lines[from + i], i = 1, clears)
  BY <1>5
<1>8. after[0] = t /\ \A i \in 1 .. n : after[i] = ScLine(after[i - 1], lines[from + i], i = 1, clears)
  <2>1. 0 \in 0 .. n /\ \A i \in 1 .. n : i \in 0 .. n /\ i # 0
    BY <1>0
  <2> QED BY <1>7, <2>1
<1>9. \A i \in 0 .. n : after[i] \in W
  <2> DEFINE S == {i \in 0 .. n : after[i] \in W}
  <2>1. S \in SUBSET (0 .. n) /\ 0 \in S
    BY <1>0, <1>1, <1>8
  <2>2. ASSUME NEW i \in 1 .. n, i - 1 \in S PROVE i \in S
    <3>1. after[i - 1] \in W /\ i \in Nat /\ i \in 0 .. n
      BY <1>0, <2>2
    <3>2. F[<<after[i - 1], i>>] \in W
      BY <1>1, <3>1
    <3> QED BY <1>2, <1>8, <3>1, <3>2
  <2> HIDE DEF S
  <2>3. \A i \in 0 .. n : i \in S
    BY <1>0, <2>1, <2>2, CountKeeps
  <2> QED BY <2>3 DEF S
<1>10. ScLined(after, t, lines, from, clears, n)
  BY <1>8 DEF ScLined
<1> QED BY <1>6, <1>9, <1>10 DEF W

(* Rows cleared and lines written, on the tape. *)
ScWiped(f, p, q) == [j \in Nat |-> IF p < j /\ j <= q THEN ScBlank ELSE f[j]]
ScSaid(f, lines, from, to) == [j \in Nat |-> IF from <= j /\ j <= to THEN lines[j + 1] ELSE f[j]]

LEMMA WipedIs ==
    ASSUME NEW f \in ScTapes, NEW p \in Nat
    PROVE  /\ ScWiped(f, p, p) = f
           /\ \A i \in Nat \ {0} : ScPut(ScWiped(f, p, p + (i - 1)), p + i, ScBlank) = ScWiped(f, p, p + i)
<1>1. ScWiped(f, p, p) = f
  BY DEF ScWiped, ScTapes
<1>2. ASSUME NEW i \in Nat \ {0} PROVE ScPut(ScWiped(f, p, p + (i - 1)), p + i, ScBlank) = ScWiped(f, p, p + i)
  <2> DEFINE A(j) == IF j = p + i THEN ScBlank ELSE IF p < j /\ j <= p + (i - 1) THEN ScBlank ELSE f[j]
             B(j) == IF p < j /\ j <= p + i THEN ScBlank ELSE f[j]
  <2>1. \A j \in Nat : A(j) = B(j)
    OBVIOUS
  <2>2. ScPut(ScWiped(f, p, p + (i - 1)), p + i, ScBlank) = [j \in Nat |-> A(j)]
    BY DEF ScPut, ScWiped
  <2>3. ScWiped(f, p, p + i) = [j \in Nat |-> B(j)]
    BY DEF ScWiped
  <2> HIDE DEF A, B
  <2> QED BY <2>1, <2>2, <2>3
<1> QED BY <1>1, <1>2

LEMMA SaidIs ==
    ASSUME NEW f \in ScTapes, NEW lines \in Seq(ScTexts), NEW from \in Nat
    PROVE  /\ ScPut(f, from, lines[from + 1]) = ScSaid(f, lines, from, from)
           /\ \A i \in Nat : i > from => ScPut(ScSaid(f, lines, from, i - 1), i, lines[i + 1]) = ScSaid(f, lines, from, i)
<1>1. ScPut(f, from, lines[from + 1]) = ScSaid(f, lines, from, from)
  <2> DEFINE A(j) == IF j = from THEN lines[from + 1] ELSE f[j]
             B(j) == IF from <= j /\ j <= from THEN lines[j + 1] ELSE f[j]
  <2>1. \A j \in Nat : A(j) = B(j)
    OBVIOUS
  <2>2. ScPut(f, from, lines[from + 1]) = [j \in Nat |-> A(j)]
    BY DEF ScPut
  <2>3. ScSaid(f, lines, from, from) = [j \in Nat |-> B(j)]
    BY DEF ScSaid
  <2> HIDE DEF A, B
  <2> QED BY <2>1, <2>2, <2>3
<1>2. ASSUME NEW i \in Nat, i > from PROVE ScPut(ScSaid(f, lines, from, i - 1), i, lines[i + 1]) = ScSaid(f, lines, from, i)
  <2> DEFINE A(j) == IF j = i THEN lines[i + 1] ELSE IF from <= j /\ j <= i - 1 THEN lines[j + 1] ELSE f[j]
             B(j) == IF from <= j /\ j <= i THEN lines[j + 1] ELSE f[j]
  <2>1. \A j \in Nat : A(j) = B(j)
    BY <1>2
  <2>2. ScPut(ScSaid(f, lines, from, i - 1), i, lines[i + 1]) = [j \in Nat |-> A(j)]
    BY DEF ScPut, ScSaid
  <2>3. ScSaid(f, lines, from, i) = [j \in Nat |-> B(j)]
    BY DEF ScSaid
  <2> HIDE DEF A, B
  <2> QED BY <2>1, <2>2, <2>3
<1> QED BY <1>1, <1>2


LEMMA OnBelow ==
    ASSUME ScAssumption, NEW h \in Nat \ {0}, NEW t, NEW s, NEW p \in Nat, NEW f, NEW rolled, ScOn(t, h, s, p, f, rolled),
           NEW n \in Nat, p + n <= s + h - 1
    PROVE  /\ ScOn(ScReturnsCleared(t, n), h, s, p + n, ScWiped(f, p, p + n), rolled)
           /\ ScOn(ScDownsCleared(t, n), h, s, p + n, ScWiped(f, p, p + n), rolled)
<1>1. s \in Int /\ f \in ScTapes /\ s <= p /\ p <= s + h - 1 /\ t \in ScTerms(h)
  BY OnIs
<1> DEFINE G(u, i) == ScOn(u, h, s, p + i, ScWiped(f, p, p + i), rolled)
<1>2. G(t, 0)
  <2>1. p + 0 = p
    OBVIOUS
  <2> QED BY <1>1, <2>1, WipedIs
<1>3. ASSUME NEW i \in 1 .. n, NEW u, G(u, i - 1)
      PROVE  G(ScClearLine(ScReturn(u)), i) /\ G(ScClearLine(ScDown(u, 1)), i)
  <2> DEFINE q == p + (i - 1)
             g == ScWiped(f, p, q)
  <2>1. q + 1 = p + i /\ q \in Nat /\ q + 1 >= 0 /\ q + 1 <= s + h - 1 /\ s <= q + 1 /\ q + 2 - h <= s
    BY <1>1
  <2>2. ScOn(u, h, s, q, g, rolled)
    BY <1>3
  <2>3. ScPut(g, q + 1, ScBlank) = ScWiped(f, p, p + i)
    <3>1. i \in Nat \ {0}
      BY <1>3
    <3>4. \A k \in Nat \ {0} : ScPut(ScWiped(f, p, p + (k - 1)), p + k, ScBlank) = ScWiped(f, p, p + k)
      BY <1>1, WipedIs
    <3>2. ScPut(ScWiped(f, p, p + (i - 1)), p + i, ScBlank) = ScWiped(f, p, p + i)
      BY <3>1, <3>4
    <3>3. g = ScWiped(f, p, p + (i - 1))
      OBVIOUS
    <3>5. q + 1 = p + i
      BY <2>1
    <3> HIDE DEF q, g
    <3> QED BY <3>2, <3>3, <3>5
  <2> HIDE DEF q, g
  <2>4. ScMax(s, q + 2 - h) = s
    BY <1>1, <2>1 DEF ScMax
  <2>5. ScOn(ScReturn(u), h, s, q + 1, g, rolled)
    BY <1>1, <2>1, <2>2, <2>4, OnReturn
  <2>6. ScOn(ScDown(u, 1), h, s, q + 1, g, rolled)
    <3>1. q + 1 \in Int /\ q + 1 >= q /\ (q + 1) - q = 1
      BY <2>1
    <3> QED BY <1>1, <2>1, <2>2, <3>1, OnMove
  <2>7. ScOn(ScClearLine(ScReturn(u)), h, s, q + 1, ScPut(g, q + 1, ScBlank), rolled)
    BY <2>1, <2>5, OnPut
  <2>8. ScOn(ScClearLine(ScDown(u, 1)), h, s, q + 1, ScPut(g, q + 1, ScBlank), rolled)
    BY <2>1, <2>6, OnPut
  <2> QED BY <2>1, <2>3, <2>7, <2>8
<1> HIDE DEF G
<1>4. ASSUME NEW a, a[0] = t, \A i \in 1 .. n : G(a[i - 1], i - 1) => G(a[i], i) PROVE G(a[n], n)
  <2> DEFINE S == {i \in 0 .. n : G(a[i], i)}
  <2>1. S \in SUBSET (0 .. n) /\ 0 \in S
    BY <1>2, <1>4
  <2>2. ASSUME NEW i \in 1 .. n, i - 1 \in S PROVE i \in S
    BY <1>4, <2>2
  <2> HIDE DEF S
  <2>3. \A i \in 0 .. n : i \in S
    BY <2>1, <2>2, CountKeeps
  <2>4. n \in S
    BY <2>3
  <2> QED BY <2>4 DEF S
<1>5. G(ScReturnsCleared(t, n), n)
  <2>1. PICK a : ScReturnedClear(a, t, n) /\ a[n] = ScReturnsCleared(t, n)
    BY <1>1, ReturnsClearedRun
  <2>2. \A i \in 1 .. n : G(a[i - 1], i - 1) => G(a[i], i)
    BY <1>3, <2>1 DEF ScReturnedClear
  <2> QED BY <1>4, <2>1, <2>2 DEF ScReturnedClear
<1>6. G(ScDownsCleared(t, n), n)
  <2>1. PICK a : ScDownedClear(a, t, n) /\ a[n] = ScDownsCleared(t, n)
    BY <1>1, DownsClearedRun
  <2>2. \A i \in 1 .. n : G(a[i - 1], i - 1) => G(a[i], i)
    BY <1>3, <2>1 DEF ScDownedClear
  <2> QED BY <1>4, <2>1, <2>2 DEF ScDownedClear
<1> QED BY <1>5, <1>6 DEF G

LEMMA OnLines ==
    ASSUME ScAssumption, NEW h \in Nat \ {0}, NEW t, NEW s, NEW from \in Nat, NEW f, NEW rolled, ScOn(t, h, s, from, f, rolled),
           NEW lines \in Seq(ScTexts), NEW to \in Nat, from <= to, to < Len(lines), NEW clears \in BOOLEAN,
           ~clears => \A j \in Nat : j >= from => f[j] = ScBlank
    PROVE  ScOn(ScLines(t, lines, from, to, clears), h, ScMax(s, to + 1 - h), to, ScSaid(f, lines, from, to), rolled)
<1>1. s \in Int /\ f \in ScTapes /\ s <= from /\ from <= s + h - 1 /\ t \in ScTerms(h)
  BY OnIs
<1> DEFINE n == to - from + 1
           G(u, i) == ScOn(u, h, ScMax(s, i + 1 - h), i, ScSaid(f, lines, from, i), rolled)
<1>2. n \in Nat /\ n >= 1 /\ to = from + n - 1 /\ Len(lines) \in Nat
  BY LenProperties
<1>3. \A i \in 1 .. n : lines[from + i] \in ScTexts
  <2>1. ASSUME NEW i \in 1 .. n PROVE lines[from + i] \in ScTexts
    <3>1. from + i \in 1 .. Len(lines)
      BY <1>2
    <3> QED BY <3>1, ElementOfSeq
  <2> QED BY <2>1
<1>0. PICK a : ScLined(a, t, lines, from, clears, n) /\ a[n] = ScLines(t, lines, from, to, clears)
  BY <1>1, LinesRun
<1>4. a[0] = t /\ \A i \in 1 .. n : a[i] = ScLine(a[i - 1], lines[from + i], i = 1, clears)
  BY <1>0 DEF ScLined
<1> HIDE DEF n
<1>5. G(a[1], from)
  <2>1. 1 \in 1 .. n /\ 1 = 1 /\ 1 - 1 = 0 /\ from >= 0
    BY <1>2
  <2>2. a[1] = ScLine(t, lines[from + 1], TRUE, clears)
    <3>1. a[1] = ScLine(a[1 - 1], lines[from + 1], 1 = 1, clears)
      BY <1>4, <2>1
    <3> QED BY <1>4, <2>1, <3>1
  <2>3. ~clears => f[from] = ScBlank
    OBVIOUS
  <2>4. ScOn(ScLine(t, lines[from + 1], TRUE, clears), h, ScMax(s, from + 1 - h), from, ScPut(f, from, lines[from + 1]), rolled)
    BY <1>3, <2>1, <2>3, OnLine
  <2> QED BY <1>1, <2>2, <2>4, SaidIs
<1>6. ASSUME NEW i \in 1 .. n, i # 1, G(a[i - 1], from + i - 2) PROVE G(a[i], from + i - 1)
  <2> DEFINE q == from + i - 1
             u == a[i - 1]
             z == ScMax(s, q - h)
             g == ScSaid(f, lines, from, q - 1)
             line == lines[from + i]
  <2>1. q \in Nat /\ q > from /\ q - 1 \in Nat /\ from + i = q + 1 /\ from + i - 2 = q - 1 /\ (q - 1) + 1 = q /\ (q - 1) + 1 - h = q - h
    BY <1>2, <1>6
  <2>2. ScOn(u, h, z, q - 1, g, rolled)
    BY <1>6, <2>1 DEF G
  <2>3. ~clears => g[q] = ScBlank
    <3> HIDE DEF q
    <3>1. ~(from <= q /\ q <= q - 1) /\ q \in Nat
      BY <2>1
    <3>2. g[q] = IF from <= q /\ q <= q - 1 THEN lines[q + 1] ELSE f[q]
      BY <3>1 DEF ScSaid
    <3> HIDE DEF g
    <3>3. g[q] = f[q]
      BY <3>1, <3>2
    <3>4. q >= from
      BY <2>1
    <3> QED BY <3>1, <3>3, <3>4
  <2>4. line \in ScTexts
    BY <1>3
  <2>5. a[i] = ScLine(u, line, FALSE, clears)
    BY <1>4, <1>6
  <2>6. ScPut(g, q, line) = ScSaid(f, lines, from, q)
    BY <1>1, <2>1, SaidIs
  <2>7. ScMax(z, q + 1 - h) = ScMax(s, q + 1 - h)
    <3> HIDE DEF q
    <3> QED BY <1>1, <2>1 DEF ScMax
  <2> HIDE DEF q, u, z, g, line
  <2>8. PICK p \in Nat : p = q - 1 /\ q = IF FALSE THEN p ELSE p + 1
    BY <2>1
  <2>9. ScOn(ScLine(u, line, FALSE, clears), h, ScMax(z, q + 1 - h), q, ScPut(g, q, line), rolled)
    <3>1. ScOn(u, h, z, p, g, rolled) /\ q >= 0
      BY <2>1, <2>2, <2>8
    <3> QED BY <2>3, <2>4, <2>8, <3>1, OnLine
  <2>10. G(a[i], q)
    BY <2>5, <2>6, <2>7, <2>9
  <2> QED BY <2>10 DEF q
<1> HIDE DEF G
<1> DEFINE S == {i \in 0 .. n : i = 0 \/ G(a[i], from + i - 1)}
<1>7. S \in SUBSET (0 .. n) /\ 0 \in S
  BY <1>2
<1>8. ASSUME NEW i \in 1 .. n, i - 1 \in S PROVE i \in S
  <2>1. CASE i = 1
    <3>1. from + i - 1 = from
      BY <2>1
    <3> QED BY <1>2, <1>5, <2>1, <3>1
  <2>2. CASE i # 1
    <3>1. i - 1 # 0 /\ from + (i - 1) - 1 = from + i - 2
      BY <2>2
    <3> QED BY <1>6, <1>8, <2>2, <3>1
  <2> QED BY <2>1, <2>2
<1> HIDE DEF S
<1>9. n \in S
  <2>1. n \in 0 .. n
    BY <1>2
  <2> QED BY <1>2, <1>7, <1>8, <2>1, CountKeeps
<1>10. G(a[n], from + n - 1)
  BY <1>2, <1>9 DEF S
<1> QED BY <1>0, <1>2, <1>10 DEF G

(* What the rows say, whatever it is. *)
ScSeen(t, h, s) == [j \in Nat |-> IF s <= j /\ j < s + h THEN t.rows[j - s + 1] ELSE ScBlank]

LEMMA SeenIs ==
    ASSUME ScAssumption, NEW h \in Nat \ {0}, NEW t \in ScTerms(h), NEW s \in Int, NEW rolled, rolled => s <= 0
    PROVE  ScOn(t, h, s, s + t.at, ScSeen(t, h, s), rolled)
<1> DEFINE f == ScSeen(t, h, s)
<1>1. \A i \in 1 .. h : t.rows[i] \in ScInk
  BY TermIs DEF ScAsIs
<1>2. \A j \in Nat : f[j] = IF s <= j /\ j < s + h THEN t.rows[j - s + 1] ELSE ScBlank
  BY DEF ScSeen
<1>3. f \in ScTapes
  <2>1. ASSUME NEW j \in Nat PROVE (IF s <= j /\ j < s + h THEN t.rows[j - s + 1] ELSE ScBlank) \in ScInk
    <3>1. CASE s <= j /\ j < s + h
      <4>1. j - s + 1 \in 1 .. h
        BY <3>1
      <4> QED BY <1>1, <3>1, <4>1
    <3>2. CASE ~(s <= j /\ j < s + h)
      BY <3>2 DEF ScInk
    <3> QED BY <3>1, <3>2
  <2> QED BY <2>1 DEF ScSeen, ScTapes
<1> HIDE DEF f
<1>4. ASSUME NEW i \in 1 .. h, s + i - 1 >= 0 PROVE t.rows[i] = f[s + i - 1]
  <2>1. s + i - 1 \in Nat /\ s <= s + i - 1 /\ s + i - 1 < s + h /\ (s + i - 1) - s + 1 = i
    BY <1>4
  <2> QED BY <1>2, <2>1
<1>5. ASSUME NEW j \in Nat, j >= s + h PROVE f[j] = ScBlank
  <2>1. ~(j < s + h)
    BY <1>5
  <2> QED BY <1>2, <2>1
<1>6. ScPaper(t, h, s, f)
  BY <1>3, <1>4, <1>5 DEF ScPaper
<1>7. rolled => ScRolled(t, s, f)
  <2>1. ASSUME rolled, NEW k \in 1 .. ScKept PROVE ~(k <= s)
    <3>1. ScKept \in Nat
      BY DEF ScAssumption
    <3> QED BY <2>1, <3>1
  <2> QED BY <2>1 DEF ScRolled
<1> QED BY <1>6, <1>7 DEF ScOn, f

(* A tape that is the same where it is looked at. *)
LEMMA OtherTape ==
    ASSUME ScAssumption, NEW h \in Nat \ {0}, NEW t, NEW s, NEW p, NEW f, NEW rolled, ScOn(t, h, s, p, f, rolled),
           NEW g \in ScTapes, NEW seen, seen => rolled, \A j \in Nat : seen \/ j >= s => g[j] = f[j]
    PROVE  ScOn(t, h, s, p, g, seen)
<1>1. ScPaper(t, h, s, f) /\ p = s + t.at /\ (rolled => ScRolled(t, s, f))
  BY DEF ScOn
<1>2. /\ t \in ScTerms(h) /\ s \in Int /\ f \in ScTapes
      /\ \A i \in 1 .. h : s + i - 1 >= 0 => t.rows[i] = f[s + i - 1]
      /\ \A j \in Nat : j >= s + h => f[j] = ScBlank
  BY <1>1 DEF ScPaper
<1>3. ASSUME NEW i \in 1 .. h, s + i - 1 >= 0 PROVE t.rows[i] = g[s + i - 1]
  <2>1. s + i - 1 \in Nat /\ s + i - 1 >= s
    BY <1>2, <1>3
  <2> QED BY <1>2, <1>3, <2>1
<1>4. ASSUME NEW j \in Nat, j >= s + h PROVE g[j] = ScBlank
  <2>1. j >= s
    BY <1>2, <1>4
  <2> QED BY <1>2, <1>4, <2>1
<1>5. ScPaper(t, h, s, g)
  BY <1>2, <1>3, <1>4 DEF ScPaper
<1>6. ASSUME seen PROVE ScRolled(t, s, g)
  <2>1. ASSUME NEW k \in 1 .. ScKept, k <= s PROVE g[s - k] = f[s - k]
    <3>1. ScKept \in Nat
      BY DEF ScAssumption
    <3>2. s - k \in Nat
      BY <1>2, <2>1, <3>1
    <3> QED BY <1>6, <3>2
  <2> QED BY <1>1, <1>6, <2>1 DEF ScRolled
<1> QED BY <1>1, <1>5, <1>6 DEF ScOn

LEMMA RowAt ==
    ASSUME NEW h \in Int, NEW s \in Int, NEW n \in Int, NEW r \in Int, NEW j \in Int, s + n = r, j >= r, j < s + h
    PROVE  j - s + 1 \in n + 1 .. h
OBVIOUS

(* Lines from r to the last, with line r on the cursor's row. *)
LEMMA ScPaintedIs ==
    ASSUME ScAssumption, NEW h \in Nat \ {0}, NEW t \in ScTerms(h), NEW lines \in Seq(ScTexts), NEW r \in Nat, r <= Len(lines) - 1,
           NEW clears \in BOOLEAN, ~clears => \A i \in t.at + 1 .. h : t.rows[i] = ScBlank,
           NEW s, s = r - t.at, NEW rolled, rolled => s <= 0
    PROVE  ScOn(ScLines(t, lines, r, Len(lines) - 1, clears), h, ScMax(s, Len(lines) - h), Len(lines) - 1,
                ScSaid(ScSeen(t, h, s), lines, r, Len(lines) - 1), rolled)
<1>1. t.at \in 0 .. h - 1
  BY TermIs DEF ScAsIs
<1>2. s \in Int /\ s + t.at = r
  BY <1>1
<1> DEFINE f == ScSeen(t, h, s)
<1>3. ScOn(t, h, s, r, f, rolled)
  BY <1>2, SeenIs
<1>4. ASSUME ~clears, NEW j \in Nat, j >= r PROVE f[j] = ScBlank
  <2>1. f[j] = IF s <= j /\ j < s + h THEN t.rows[j - s + 1] ELSE ScBlank
    BY DEF ScSeen
  <2>2. CASE s <= j /\ j < s + h
    <3>1. j - s + 1 \in t.at + 1 .. h
      <4>1. PICK n \in Int : n = t.at
        BY <1>1
      <4>2. h \in Int /\ s \in Int /\ r \in Int /\ j \in Int /\ s + n = r /\ j >= r /\ j < s + h
        BY <1>2, <1>4, <2>2, <4>1
      <4>3. j - s + 1 \in n + 1 .. h
        BY <4>1, <4>2, RowAt, Zenon
      <4> QED BY <4>1, <4>3
    <3> QED BY <1>4, <2>1, <2>2, <3>1
  <2>3. CASE ~(s <= j /\ j < s + h)
    BY <2>1, <2>3
  <2> QED BY <2>2, <2>3
<1> HIDE DEF f
<1> DEFINE to == Len(lines) - 1
<1>5. to \in Nat /\ r <= to /\ to < Len(lines) /\ to + 1 - h = Len(lines) - h
  BY LenProperties
<1> HIDE DEF to
<1>6. ScOn(ScLines(t, lines, r, to, clears), h, ScMax(s, to + 1 - h), to, ScSaid(f, lines, r, to), rolled)
  BY <1>3, <1>4, <1>5, OnLines
<1> QED BY <1>5, <1>6 DEF f, to

(* The screen shows the lines: line j is on the tape's j. *)
ScTape(lines) == [j \in Nat |-> IF j < Len(lines) THEN lines[j + 1] ELSE ScBlank]
ScShows(t, h, s, lines, hw, top, rolled) ==
    /\ ScOn(t, h, s, hw, ScTape(lines), rolled)
    /\ top = ScMax(0, s) /\ top <= hw /\ hw <= Len(lines) - 1 /\ Len(lines) <= s + h

LEMMA TapeIs ==
    ASSUME NEW lines \in Seq(ScTexts)
    PROVE  ScTape(lines) \in ScTapes /\ \A j \in Nat : ScTape(lines)[j] = IF j < Len(lines) THEN lines[j + 1] ELSE ScBlank
<1>1. ASSUME NEW j \in Nat PROVE (IF j < Len(lines) THEN lines[j + 1] ELSE ScBlank) \in ScInk
  <2>1. CASE j < Len(lines)
    <3>1. j + 1 \in 1 .. Len(lines)
      BY <2>1, LenProperties
    <3>2. lines[j + 1] \in ScTexts
      BY <3>1, ElementOfSeq
    <3> QED BY <2>1, <3>2 DEF ScInk
  <2>2. CASE ~(j < Len(lines))
    BY <2>2 DEF ScInk
  <2> QED BY <2>1, <2>2
<1> QED BY <1>1 DEF ScTape, ScTapes

(* fullRender(), on a screen that is blank from the cursor on or after clearing it. *)
ScOuts(h) == [term : ScTerms(h), hw : Nat, top : Nat]
ScShown(out, h, lines, rolled) ==
    /\ out \in ScOuts(h)
    /\ \E s \in Int : ScShows(out.term, h, s, lines, out.hw, out.top, rolled)

LEMMA ClearScreenIs ==
    ASSUME NEW h \in Nat \ {0}, NEW t \in ScTerms(h)
    PROVE  /\ ScClearScreen(t) \in ScTerms(h) /\ ScClearScreen(t).at = 0
           /\ \A i \in 1 .. h : ScClearScreen(t).rows[i] = ScBlank
<1> DEFINE r == [i \in 1 .. h |-> ScBlank]
           v == [t EXCEPT !.rows = r]
<1>1. r \in Seq(ScInk) /\ Len(r) = h /\ \A i \in 1 .. h : r[i] = ScBlank
  <2>1. \A i \in 1 .. h : ScBlank \in ScInk
    BY DEF ScInk
  <2> QED BY <2>1, IsASeq
<1>2. Len(t.rows) = h
  BY TermIs DEF ScAsIs
<1>3. ScClearScreen(t) = [v EXCEPT !.at = 0]
  BY <1>2 DEF ScClearScreen, ScTerms
<1> HIDE DEF r
<1>4. v \in ScTerms(h) /\ v.rows = r
  BY <1>1, RowsSet
<1> HIDE DEF v
<1>5. 0 \in 0 .. h - 1
  OBVIOUS
<1> DEFINE w == [v EXCEPT !.at = 0]
<1>6. w \in ScTerms(h) /\ w.at = 0 /\ w.rows = r
  BY <1>4, <1>5, AtMoved
<1>7. ScClearScreen(t) = w
  BY <1>3
<1> HIDE DEF w
<1> QED BY <1>1, <1>6, <1>7

(* The lines that are rendered: never none. *)
LEMMA ContentsAre ==
    ASSUME ScAssumption, NEW lines \in ScContents
    PROVE  lines \in Seq(ScTexts) /\ Len(lines) \in Nat /\ Len(lines) >= 1
<1>1. lines \in Seq(ScTexts) /\ lines # <<>>
  BY DEF ScAssumption
<1>2. Len(lines) \in Nat /\ Len(lines) # 0
  BY <1>1, LenProperties, EmptySeq
<1> QED BY <1>1, <1>2

LEMMA RedrawIs ==
    ASSUME ScAssumption, NEW h \in Nat \ {0}, h = ScHeight, scTerm \in ScTerms(h), NEW lines \in ScContents,
           NEW clear \in BOOLEAN, ~clear => \A i \in scTerm.at + 1 .. h : scTerm.rows[i] = ScBlank,
           NEW rolled, rolled => ~clear
    PROVE  ScShown(ScRedraw(lines, clear), h, lines, rolled)
<1> DEFINE n == Len(lines)
           r == ScRedrawFrom(lines, clear)
           t == IF clear THEN ScClearScreen(scTerm) ELSE scTerm
           k == t.at
           s == r - k
           z == ScMax(s, n - h)
           u == ScLines(t, lines, r, n - 1, FALSE)
<1>1. lines \in Seq(ScTexts) /\ n \in Nat /\ n >= 1
  BY ContentsAre
<1>2. r \in Nat /\ r <= n - 1 /\ (r = 0 \/ r = n - h) /\ (r # 0 => clear)
  BY <1>1 DEF ScRedrawFrom, ScMax
<1>3. t \in ScTerms(h) /\ (clear => k = 0) /\ \A i \in t.at + 1 .. h : t.rows[i] = ScBlank
  <2>1. CASE clear
    <3>1. ScClearScreen(scTerm) \in ScTerms(h) /\ ScClearScreen(scTerm).at = 0 /\ \A i \in 1 .. h : ScClearScreen(scTerm).rows[i] = ScBlank
      BY ClearScreenIs
    <3>2. \A i \in 0 + 1 .. h : i \in 1 .. h
      OBVIOUS
    <3> QED BY <2>1, <3>1, <3>2
  <2>2. CASE ~clear
    BY <2>2
  <2> QED BY <2>1, <2>2
<1>4. ScRedraw(lines, clear) = ScOut(u, ScMax(0, n - 1), ScMax(0, n - h))
  BY DEF ScRedraw
<1> HIDE DEF r, t, u
<1>5. k \in Int /\ 0 <= k /\ k <= h - 1
  BY <1>3, TermIs DEF ScAsIs
<1> HIDE DEF k
<1>6. s \in Int /\ z \in Int /\ (rolled => r = 0 /\ s <= 0)
  BY <1>2, <1>5 DEF ScMax
<1>7. z >= n - h /\ z >= s /\ (r # 0 => z = n - h) /\ ScMax(0, z) = ScMax(0, n - h)
  <2>1. r # 0 => k = 0
    BY <1>2, <1>3
  <2> QED BY <1>1, <1>2, <1>5, <2>1 DEF ScMax
<1> DEFINE f == ScSeen(t, h, s)
           g == ScSaid(f, lines, r, n - 1)
<1>8. ScOn(u, h, z, n - 1, g, rolled)
  BY <1>1, <1>2, <1>3, <1>6, ScPaintedIs DEF k, u
<1>9. ASSUME NEW j \in Nat, rolled \/ j >= z PROVE ScTape(lines)[j] = g[j]
  <2>1. j >= r
    BY <1>1, <1>2, <1>5, <1>6, <1>7, <1>9
  <2>2. g[j] = IF r <= j /\ j <= n - 1 THEN lines[j + 1] ELSE f[j]
    BY DEF ScSaid
  <2>3. f[j] = IF s <= j /\ j < s + h THEN t.rows[j - s + 1] ELSE ScBlank
    BY DEF ScSeen
  <2>4. ScTape(lines)[j] = IF j < n THEN lines[j + 1] ELSE ScBlank
    BY DEF ScTape
  <2>5. s <= j /\ j < s + h => j - s + 1 \in k + 1 .. h
    BY <1>2, <1>5, <2>1
  <2>6. s <= j /\ j < s + h => t.rows[j - s + 1] = ScBlank
    BY <1>3, <2>5 DEF k
  <2>7. j <= n - 1 <=> j < n
    BY <1>1
  <2> HIDE DEF f, g, s, n
  <2> QED BY <2>1, <2>2, <2>3, <2>4, <2>6, <2>7
<1>10. ScOn(u, h, z, n - 1, ScTape(lines), rolled)
  <2>1. ScTape(lines) \in ScTapes
    BY <1>1, TapeIs
  <2>2. \A j \in Nat : rolled \/ j >= z => ScTape(lines)[j] = g[j]
    BY <1>9
  <2> HIDE DEF f, g, z, n
  <2> QED BY <1>8, <2>1, <2>2, OtherTape, Zenon
<1>11. u \in ScTerms(h)
  BY <1>10, OnIs
<1> HIDE DEF z, n
<1>12. ScMax(0, n - 1) = n - 1 /\ n - 1 \in Nat /\ ScMax(0, n - h) \in Nat /\ ScMax(0, n - h) <= n - 1 /\ n <= z + h
  <2>1. z \in Int /\ z >= n - h
    BY <1>6, <1>7
  <2>2. n <= z + h
    BY <1>1, <2>1
  <2> QED BY <1>1, <2>2 DEF ScMax
<1>13. ScShows(u, h, z, lines, n - 1, ScMax(0, n - h), rolled)
  <2>1. Len(lines) = n
    BY DEF n
  <2> QED BY <1>7, <1>10, <1>12, <2>1 DEF ScShows
<1> QED BY <1>4, <1>6, <1>11, <1>12, <1>13 DEF ScShown, ScOut, ScOuts

(* What the program knows of its screen; lines before are fewer than the rows from there. *)
ScKnown(h, s) ==
    /\ scPrev \in ScContents /\ scHw \in Nat /\ scTop \in Nat
    /\ ScShows(scTerm, h, s, scPrev, scHw, scTop, ~scJumped)

LEMMA KnownIs ==
    ASSUME ScAssumption, NEW h \in Nat \ {0}, NEW s, ScKnown(h, s)
    PROVE  /\ s \in Int /\ scHw \in Nat /\ scTop \in Nat /\ scPrev \in Seq(ScTexts) /\ Len(scPrev) \in Nat /\ Len(scPrev) >= 1
           /\ s <= scTop /\ (scTop = 0 \/ scTop = s) /\ scTop <= scHw /\ scHw <= s + h - 1 /\ scHw <= Len(scPrev) - 1 /\ Len(scPrev) <= s + h
           /\ scTerm \in ScTerms(h) /\ scTerm.at = scHw - s
           /\ ScOn(scTerm, h, s, scHw, ScTape(scPrev), ~scJumped)
<1>1. scPrev \in ScContents /\ scHw \in Nat /\ scTop \in Nat /\ ScShows(scTerm, h, s, scPrev, scHw, scTop, ~scJumped)
  BY DEF ScKnown
<1>2. /\ ScOn(scTerm, h, s, scHw, ScTape(scPrev), ~scJumped)
      /\ scTop = ScMax(0, s) /\ scTop <= scHw /\ scHw <= Len(scPrev) - 1 /\ Len(scPrev) <= s + h
  BY <1>1 DEF ScShows
<1>3. scPrev \in Seq(ScTexts) /\ Len(scPrev) \in Nat /\ Len(scPrev) >= 1
  BY <1>1, ContentsAre
<1>4. scTerm \in ScTerms(h) /\ s \in Int /\ scHw <= s + h - 1 /\ scTerm.at = scHw - s
  BY <1>2, OnIs
<1>5. s <= scTop /\ (scTop = 0 \/ scTop = s)
  BY <1>2, <1>4 DEF ScMax
<1> QED BY <1>1, <1>2, <1>3, <1>4, <1>5

(* fullRender() that keeps the viewport: the visible rows are written again in place. *)
LEMMA RepaintIs ==
    ASSUME ScAssumption, NEW h \in Nat \ {0}, h = ScHeight, NEW s, ScKnown(h, s), NEW lines \in ScContents, NEW rolled, ~rolled
    PROVE  ScShown(ScRepaint(lines), h, lines, rolled) /\ ScRepaint(lines).top = ScMax(0, Len(lines) - h)
<1> DEFINE n == Len(lines)
           m == Len(scPrev)
           start == ScMax(0, n - h)
           shown == n - start
           before == ScMin(h, m)
           up == ScMax(0, ScMin(before - 1, scHw - scTop))
           left == ScMax(0, before - ScMax(shown, 1))
           home == ScUp(scTerm, up)
           painted == ScLines(home, lines, start, n - 1, TRUE)
           below == ScReturnsCleared(painted, left)
           k == scTop - s
           q == start - k
           z == ScMax(q, n - h)
           f == ScSeen(home, h, q)
           g == ScSaid(f, lines, start, n - 1)
           e == ScWiped(g, n - 1, n - 1 + left)
<1>1. lines \in Seq(ScTexts) /\ n \in Nat /\ n >= 1
  BY ContentsAre
<1>2. /\ s \in Int /\ scHw \in Nat /\ scTop \in Nat /\ scPrev \in Seq(ScTexts) /\ m \in Nat /\ m >= 1
      /\ s <= scTop /\ (scTop = 0 \/ scTop = s) /\ scTop <= scHw /\ scHw <= s + h - 1 /\ scHw <= m - 1 /\ m <= s + h
      /\ scTerm \in ScTerms(h) /\ scTerm.at = scHw - s
      /\ ScOn(scTerm, h, s, scHw, ScTape(scPrev), ~scJumped)
  BY KnownIs
<1> HIDE DEF n, m
<1>3. start \in Nat /\ start <= n - 1 /\ ((start = 0 /\ n <= h) \/ start = n - h) /\ shown \in Nat /\ shown >= 1 /\ start >= n - h
  BY <1>1 DEF ScMax
<1>4. before \in Nat /\ before >= 1 /\ before <= h /\ before <= m /\ (before = h \/ before = m)
  BY <1>2 DEF ScMin
<1>5. k \in Nat /\ q \in Int /\ q <= start /\ (k = 0 \/ scTop = 0)
  BY <1>2, <1>3
<1> HIDE DEF before
<1>6. up = scHw - scTop /\ up \in Nat /\ up <= scTerm.at
  BY <1>2, <1>4 DEF ScMin, ScMax
<1> HIDE DEF start
<1>7. left \in Nat /\ left >= before - shown /\ (left = 0 \/ left = before - shown)
  BY <1>3, <1>4 DEF ScMax
<1> HIDE DEF up, left, shown
<1>8. home \in ScTerms(h) /\ home.rows = scTerm.rows /\ home.at = k
  <2>1. home \in ScTerms(h) /\ home.rows = scTerm.rows /\ home.at = scTerm.at - up
    <3>1. scTerm \in ScTerms(h) /\ up \in Nat /\ up <= scTerm.at
      BY <1>2, <1>6
    <3>2. ScUp(scTerm, up) \in ScTerms(h) /\ ScUp(scTerm, up).rows = scTerm.rows /\ ScUp(scTerm, up).at = scTerm.at - up
      <4>1. ScUp(scTerm, up) \in ScTerms(h) /\ ScUp(scTerm, up).rows = scTerm.rows
        BY <3>1, UpIs
      <4>2. ScUp(scTerm, up).at = scTerm.at - up
        BY <3>1, UpBy
      <4> QED BY <4>1, <4>2
    <3> HIDE DEF home
    <3>3. home = ScUp(scTerm, up)
      BY DEF home
    <3> QED BY <3>1, <3>2, <3>3
  <2>2. scTerm.at - up = k
    BY <1>2, <1>6
  <2> QED BY <2>1, <2>2
<1>9. ScRepaint(lines) = ScOut(ScUp(below, left), ScMax(0, n - 1), start)
  <2>1. shown # 0
    BY <1>3
  <2> QED BY <2>1 DEF ScRepaint, n, m, start, shown, before, up, left
<1> HIDE DEF home, painted, below, k
<1>10. ScOn(painted, h, z, n - 1, g, rolled)
  <2>1. q = start - home.at /\ start <= n - 1 /\ (~TRUE => \A i \in home.at + 1 .. h : home.rows[i] = ScBlank)
    BY <1>3, <1>8
  <2> HIDE DEF q
  <2> QED BY <1>1, <1>3, <1>8, <2>1, ScPaintedIs DEF n, painted
<1>11. z \in Int /\ z >= q /\ z >= n - h /\ (start # 0 => z = start) /\ start = ScMax(0, z) /\ n - 1 + left <= z + h - 1 /\ z <= n - 1
  <2>1. z \in Int /\ z >= q /\ z >= n - h /\ (z = q \/ z = n - h)
    BY <1>1, <1>3, <1>5 DEF ScMax
  <2>2. (start # 0 => z = start) /\ z <= start
    BY <1>1, <1>3, <1>5, <2>1
  <2>3. start = ScMax(0, z)
    <3> HIDE DEF z, q
    <3> QED BY <1>3, <2>1, <2>2 DEF ScMax
  <2>4. n - 1 + left <= z + h - 1
    <3>1. CASE left = 0
      BY <1>1, <2>1, <3>1
    <3>2. CASE left # 0
      <4>1. start = 0 /\ left = before - n
        BY <1>1, <1>3, <1>4, <1>7, <3>2 DEF shown
      <4>2. before <= q + h
        BY <1>2, <1>4, <4>1 DEF k
      <4> HIDE DEF z, q
      <4> QED BY <1>1, <1>4, <1>5, <2>1, <4>1, <4>2
    <3> QED BY <3>1, <3>2
  <2> HIDE DEF z, q
  <2>5. z <= n - 1
    BY <1>1, <1>3, <2>1, <2>2
  <2> QED BY <2>1, <2>2, <2>3, <2>4, <2>5
<1> HIDE DEF z
<1>12. ScOn(below, h, z, n - 1 + left, e, rolled)
  <2> DEFINE p == n - 1
  <2>1. p \in Nat /\ p + left <= z + h - 1
    BY <1>1, <1>11
  <2> HIDE DEF g, p
  <2>2. ScOn(painted, h, z, p, g, rolled)
    BY <1>10 DEF p
  <2> QED BY <1>7, <2>1, <2>2, OnBelow DEF below, p
<1>13. ScOn(ScUp(below, left), h, z, n - 1, e, rolled)
  <2> DEFINE p == n - 1 + left
  <2>1. n - 1 \in Int /\ z <= n - 1 /\ n - 1 <= z + h - 1 /\ n - 1 <= p /\ p - (n - 1) = left
    BY <1>1, <1>7, <1>11
  <2> HIDE DEF e, p
  <2>2. ScOn(below, h, z, p, e, rolled)
    BY <1>12 DEF p
  <2>3. n - 1 <= p => ScOn(ScUp(below, p - (n - 1)), h, z, n - 1, e, rolled)
    BY <2>1, <2>2, OnMove
  <2> QED BY <2>1, <2>3
<1>14. ASSUME NEW j \in Nat, j > n - 1 + left, q <= j, j < q + h PROVE home.rows[j - q + 1] = ScBlank
  <2> DEFINE i == j - q + 1
  <2>1. i \in 1 .. h
    <3> HIDE DEF q
    <3> QED BY <1>5, <1>14
  <2>2. j - start >= before
    <3>1. j >= n + left
      BY <1>1, <1>7, <1>14
    <3>2. shown = n - start
      BY DEF shown
    <3> HIDE DEF q
    <3> QED BY <1>1, <1>3, <1>4, <1>7, <3>1, <3>2
  <2>3. before = m
    <3>1. j - start + k = j - q /\ j - q < h
      BY <1>3, <1>5, <1>14
    <3> QED BY <1>3, <1>4, <1>5, <2>2, <3>1
  <2>4. s + i - 1 = j - start + scTop /\ j - start + scTop \in Nat /\ ~(j - start + scTop < m)
    BY <1>2, <1>3, <1>14, <2>2, <2>3 DEF k
  <2> HIDE DEF i, q
  <2>5. scTerm.rows[i] = ScTape(scPrev)[s + i - 1]
    <3>1. ScPaper(scTerm, h, s, ScTape(scPrev))
      BY <1>2 DEF ScOn
    <3>2. s + i - 1 >= 0
      BY <2>4
    <3> QED BY <2>1, <3>1, <3>2 DEF ScPaper
  <2>6. ScTape(scPrev)[s + i - 1] = ScBlank
    BY <1>2, <2>4, TapeIs DEF m
  <2> QED BY <1>8, <2>5, <2>6 DEF i
<1>15. ASSUME NEW j \in Nat, rolled \/ j >= z PROVE ScTape(lines)[j] = e[j]
  <2>1. j >= start
    BY <1>3, <1>11, <1>15
  <2>2. e[j] = IF n - 1 < j /\ j <= n - 1 + left THEN ScBlank ELSE g[j]
    BY DEF ScWiped
  <2>3. g[j] = IF start <= j /\ j <= n - 1 THEN lines[j + 1] ELSE f[j]
    BY DEF ScSaid
  <2>4. f[j] = IF q <= j /\ j < q + h THEN home.rows[j - q + 1] ELSE ScBlank
    BY DEF ScSeen
  <2>5. ScTape(lines)[j] = IF j < n THEN lines[j + 1] ELSE ScBlank
    BY DEF ScTape, n
  <2> HIDE DEF e, g, f, q
  <2>6. CASE j < n
    <3>1. start <= j /\ j <= n - 1 /\ ~(n - 1 < j)
      BY <1>1, <2>1, <2>6
    <3> QED BY <2>2, <2>3, <2>5, <2>6, <3>1
  <2>7. CASE ~(j < n) /\ j <= n - 1 + left
    <3>1. n - 1 < j
      BY <1>1, <2>7
    <3> QED BY <2>2, <2>5, <2>7, <3>1
  <2>8. CASE ~(j < n) /\ ~(j <= n - 1 + left)
    <3>1. ~(j <= n - 1) /\ j > n - 1 + left
      BY <1>1, <1>7, <2>8
    <3>2. f[j] = ScBlank
      BY <1>14, <2>4, <3>1
    <3> QED BY <2>2, <2>3, <2>5, <2>8, <3>1, <3>2
  <2> QED BY <2>6, <2>7, <2>8
<1>16. ScOn(ScUp(below, left), h, z, n - 1, ScTape(lines), rolled)
  <2>1. ScTape(lines) \in ScTapes
    BY <1>1, TapeIs
  <2>2. \A j \in Nat : rolled \/ j >= z => ScTape(lines)[j] = e[j]
    BY <1>15
  <2> HIDE DEF e
  <2> QED BY <1>13, <2>1, <2>2, OtherTape, Zenon
<1>17. ScUp(below, left) \in ScTerms(h)
  BY <1>16, OnIs
<1>18. ScMax(0, n - 1) = n - 1 /\ n - 1 \in Nat /\ n <= z + h
  <2>1. n <= z + h
    BY <1>1, <1>11
  <2> QED BY <1>1, <2>1 DEF ScMax
<1>19. ScShows(ScUp(below, left), h, z, lines, n - 1, start, rolled)
  <2>1. n - 1 <= Len(lines) - 1 /\ Len(lines) <= z + h
    BY <1>1, <1>18 DEF n
  <2> QED BY <1>3, <1>11, <1>16, <2>1 DEF ScShows
<1>20. start = ScMax(0, Len(lines) - h)
  BY DEF start, n
<1> QED BY <1>3, <1>9, <1>11, <1>17, <1>18, <1>19, <1>20 DEF ScShown, ScOut, ScOuts

(* The first and the last line that differ. *)
ScDiffers(lines, n, m, a, b) ==
    /\ a \in Nat /\ b \in Nat /\ a <= b /\ b < ScMax(n, m)
    /\ n > m => b = n - 1 /\ a <= m
    /\ n < m => b = m - 1 /\ a <= n
    /\ ScOldLine(a + 1) # ScNewLine(lines, a + 1)
    /\ \A j \in Nat : j < a \/ j > b => ScTape(lines)[j] = ScTape(scPrev)[j]

LEMMA DiffIs ==
    ASSUME ScAssumption, scPrev \in Seq(ScTexts), NEW lines \in Seq(ScTexts), ScChanged(lines) # {}
    PROVE  ScDiffers(lines, Len(lines), Len(scPrev), ScFirst(lines), ScLast(lines))
<1> DEFINE n == Len(lines)
           m == Len(scPrev)
           a == ScFirst(lines)
           b == ScLast(lines)
           C == ScChanged(lines)
           k == ScMax(n, m)
<1>1. n \in Nat /\ m \in Nat /\ k \in Nat /\ n <= k /\ m <= k /\ (k = n \/ k = m)
  BY LenProperties DEF ScMax
<1> HIDE DEF n, m, a, b
<1>2. C = {i \in 1 .. k : ScOldLine(i) # ScNewLine(lines, i)}
  BY DEF ScChanged, n, m
<1> HIDE DEF C, k
<1>3. C # {} /\ C \subseteq 1 .. k
  BY <1>2 DEF C
<1>4. PICK x \in C : \A y \in C : x <= y
  <2>1. C \subseteq Nat
    BY <1>1, <1>3
  <2> QED BY <1>3, <2>1, LeastPosition
<1>5. a + 1 \in C /\ (\A y \in C : a + 1 <= y) /\ a \in Int
  <2> DEFINE c == CHOOSE i \in C : \A j \in C : i <= j
  <2>1. c \in C /\ \A y \in C : c <= y
    BY <1>4
  <2>2. a = c - 1
    BY DEF ScFirst, C, a
  <2> HIDE DEF c
  <2>3. c \in Int
    BY <1>1, <1>3, <2>1
  <2>4. a + 1 = c
    BY <2>2, <2>3
  <2> QED BY <2>1, <2>2, <2>3, <2>4
<1>6. PICK z \in C : \A y \in C : z >= y
  <2>1. Max(C) \in C /\ \A y \in C : Max(C) >= y
    <3>1. C \subseteq 0 .. k
      BY <1>1, <1>3
    <3> QED BY <1>1, <1>3, <3>1, LastPosition
  <2> QED BY <2>1
<1>7. b + 1 \in C /\ (\A y \in C : b + 1 >= y) /\ b \in Int
  <2> DEFINE c == CHOOSE i \in C : \A j \in C : i >= j
  <2>1. c \in C /\ \A y \in C : c >= y
    BY <1>6
  <2>2. b = c - 1
    BY DEF ScLast, C, b
  <2> HIDE DEF c
  <2>3. c \in Int
    BY <1>1, <1>3, <2>1
  <2>4. b + 1 = c
    BY <2>2, <2>3
  <2> QED BY <2>1, <2>2, <2>3, <2>4
<1>8. a + 1 \in 1 .. k /\ b + 1 \in 1 .. k /\ a + 1 <= b + 1
  BY <1>3, <1>5, <1>7
<1>9. a \in Nat /\ b \in Nat /\ a <= b /\ b < k
  BY <1>1, <1>5, <1>7, <1>8
<1>10. ASSUME NEW i \in 1 .. k, i > n \/ i > m PROVE i \in C
  <2>1. ScOldLine(i) # ScNewLine(lines, i)
    <3>1. CASE i > n
      <4>1. i <= m /\ i \in 1 .. m /\ ~(i <= n)
        BY <1>1, <3>1
      <4>2. scPrev[i] \in ScTexts
        BY <4>1, ElementOfSeq DEF m
      <4> QED BY <4>1, <4>2 DEF ScOldLine, ScNewLine, ScAssumption, n, m
    <3>2. CASE ~(i > n)
      <4>1. i <= n /\ i \in 1 .. n /\ ~(i <= m)
        BY <1>1, <1>10, <3>2
      <4>2. lines[i] \in ScTexts
        BY <4>1, ElementOfSeq DEF n
      <4> QED BY <4>1, <4>2 DEF ScOldLine, ScNewLine, ScAssumption, n, m
    <3> QED BY <3>1, <3>2
  <2> QED BY <1>2, <2>1
<1>11. n > m => b = n - 1 /\ a <= m
  <2>1. ASSUME n > m PROVE b = n - 1 /\ a <= m
    <3>1. k \in 1 .. k /\ k = n /\ m + 1 \in 1 .. k /\ m + 1 > m /\ k > m
      BY <1>1, <2>1
    <3>2. k \in C /\ m + 1 \in C
      BY <1>10, <3>1
    <3>3. b + 1 >= k /\ a + 1 <= m + 1
      BY <1>5, <1>7, <3>2
    <3> QED BY <1>1, <1>9, <3>1, <3>3
  <2> QED BY <2>1
<1>12. n < m => b = m - 1 /\ a <= n
  <2>1. ASSUME n < m PROVE b = m - 1 /\ a <= n
    <3>1. k \in 1 .. k /\ k = m /\ n + 1 \in 1 .. k /\ n + 1 > n /\ k > n
      BY <1>1, <2>1
    <3>2. k \in C /\ n + 1 \in C
      BY <1>10, <3>1
    <3>3. b + 1 >= k /\ a + 1 <= n + 1
      BY <1>5, <1>7, <3>2
    <3> QED BY <1>1, <1>9, <3>1, <3>3
  <2> QED BY <2>1
<1>13. ScOldLine(a + 1) # ScNewLine(lines, a + 1)
  BY <1>2, <1>5
<1>14. ASSUME NEW j \in Nat, j < a \/ j > b PROVE ScTape(lines)[j] = ScTape(scPrev)[j]
  <2>1. /\ ScTape(lines)[j] = IF j < n THEN lines[j + 1] ELSE ScBlank
        /\ ScTape(scPrev)[j] = IF j < m THEN scPrev[j + 1] ELSE ScBlank
    BY TapeIs DEF n, m
  <2>2. CASE j < k
    <3>1. j + 1 \in 1 .. k
      BY <1>1, <2>2
    <3>2. j + 1 \notin C
      <4>1. CASE j < a
        <5>1. ~(a + 1 <= j + 1)
          BY <1>9, <4>1
        <5> QED BY <1>5, <5>1
      <4>2. CASE j > b
        <5>1. ~(b + 1 >= j + 1)
          BY <1>9, <4>2
        <5> QED BY <1>7, <5>1
      <4> QED BY <1>14, <4>1, <4>2
    <3>3. j + 1 <= n /\ j + 1 <= m /\ j < n /\ j < m
      <4>1. ~(j + 1 > n) /\ ~(j + 1 > m)
        BY <1>10, <3>1, <3>2
      <4> QED BY <1>1, <4>1
    <3>4. scPrev[j + 1] = lines[j + 1]
      BY <1>2, <3>1, <3>2, <3>3 DEF ScOldLine, ScNewLine, n, m
    <3> QED BY <2>1, <3>3, <3>4
  <2>3. CASE ~(j < k)
    <3>1. ~(j < n) /\ ~(j < m)
      BY <1>1, <2>3
    <3> QED BY <2>1, <3>1
  <2> QED BY <2>2, <2>3
<1>15. ScDiffers(lines, n, m, a, b)
  BY <1>1, <1>9, <1>11, <1>12, <1>13, <1>14 DEF k, ScDiffers
<1> QED BY <1>15 DEF n, m, a, b

(* Nothing differs: the lines are those before. *)
LEMMA SameIs ==
    ASSUME ScAssumption, scPrev \in Seq(ScTexts), NEW lines \in Seq(ScTexts), ScChanged(lines) = {}
    PROVE  lines = scPrev
<1> DEFINE n == Len(lines)
           m == Len(scPrev)
           k == ScMax(n, m)
<1>1. n \in Nat /\ m \in Nat /\ k \in Nat /\ n <= k /\ m <= k /\ (k = n \/ k = m)
  BY LenProperties DEF ScMax
<1>2. \A i \in 1 .. k : ScOldLine(i) = ScNewLine(lines, i)
  BY DEF ScChanged
<1> HIDE DEF n, m, k
<1>3. ~(n < m)
  <2>1. SUFFICES ASSUME n < m PROVE FALSE
    OBVIOUS
  <2>2. m \in 1 .. m /\ m \in 1 .. k /\ ~(m <= n) /\ m <= m
    BY <1>1, <2>1
  <2>3. scPrev[m] \in ScTexts
    BY <2>2, ElementOfSeq DEF m
  <2>4. ScOldLine(m) = scPrev[m] /\ ScNewLine(lines, m) = "none"
    BY <2>2 DEF ScOldLine, ScNewLine, n, m
  <2> QED BY <1>2, <2>2, <2>3, <2>4 DEF ScAssumption
<1>4. ~(m < n)
  <2>1. SUFFICES ASSUME m < n PROVE FALSE
    OBVIOUS
  <2>2. n \in 1 .. n /\ n \in 1 .. k /\ ~(n <= m) /\ n <= n
    BY <1>1, <2>1
  <2>3. lines[n] \in ScTexts
    BY <2>2, ElementOfSeq DEF n
  <2>4. ScNewLine(lines, n) = lines[n] /\ ScOldLine(n) = "none"
    BY <2>2 DEF ScOldLine, ScNewLine, n, m
  <2> QED BY <1>2, <2>2, <2>3, <2>4 DEF ScAssumption
<1>5. n = m /\ k = n
  BY <1>1, <1>3, <1>4
<1>6. ASSUME NEW i \in 1 .. n PROVE lines[i] = scPrev[i]
  <2>1. i <= n /\ i <= m /\ i \in 1 .. k
    BY <1>1, <1>5
  <2> QED BY <1>2, <2>1 DEF ScOldLine, ScNewLine, n, m
<1> QED BY <1>5, <1>6, SeqEqual DEF n, m

(* Only lines at the end are gone. *)
LEMMA DeletedIs ==
    ASSUME ScAssumption, NEW h \in Nat \ {0}, h = ScHeight, NEW s, ScKnown(h, s), NEW lines \in ScContents, NEW preserve,
           ScChanged(lines) # {}, ScFirst(lines) >= Len(lines), NEW n, n = Len(lines),
           ~(n - 1 < scTop), ~(Len(scPrev) - n > h), NEW rolled, rolled => ~scJumped
    PROVE  ScShown(ScDeleted(lines, preserve), h, lines, rolled)
<1> DEFINE m == Len(scPrev)
           x == m - n
           t == ScMove(scTerm, n - 1 - scHw)
           u == ScDownsCleared(t, x)
           f == ScTape(scPrev)
           e == ScWiped(f, n - 1, n - 1 + x)
<1>1. lines \in Seq(ScTexts) /\ n \in Nat /\ n >= 1
  BY ContentsAre
<1>2. /\ s \in Int /\ scHw \in Nat /\ scTop \in Nat /\ scPrev \in Seq(ScTexts) /\ m \in Nat /\ m >= 1
      /\ s <= scTop /\ (scTop = 0 \/ scTop = s) /\ scTop <= scHw /\ scHw <= s + h - 1 /\ scHw <= m - 1 /\ m <= s + h
      /\ scTerm \in ScTerms(h) /\ scTerm.at = scHw - s
      /\ ScOn(scTerm, h, s, scHw, f, ~scJumped)
  BY KnownIs
<1>3. n < m /\ \A j \in Nat : j < n => ScTape(lines)[j] = f[j]
  <2> DEFINE a == ScFirst(lines)
             b == ScLast(lines)
  <2>1. /\ a \in Nat /\ b \in Nat /\ a <= b /\ b < ScMax(n, m)
        /\ n < m => a <= n
        /\ \A j \in Nat : j < a \/ j > b => ScTape(lines)[j] = f[j]
    <3>1. n = Len(lines) /\ m = Len(scPrev) /\ a = ScFirst(lines) /\ b = ScLast(lines) /\ f = ScTape(scPrev)
      OBVIOUS
    <3>2. ScDiffers(lines, Len(lines), Len(scPrev), ScFirst(lines), ScLast(lines))
      BY <1>1, <1>2, DiffIs
    <3> HIDE DEF a, b, f, m
    <3>3. ScDiffers(lines, n, m, a, b)
      BY <3>1, <3>2
    <3> QED BY <3>1, <3>3 DEF ScDiffers
  <2> HIDE DEF b
  <2>2. a >= n
    OBVIOUS
  <2> HIDE DEF a, f, m
  <2>3. n < m
    <3>1. n \in Nat /\ m \in Nat /\ a \in Nat /\ b \in Nat /\ a <= b /\ b < ScMax(n, m) /\ a >= n
      BY <1>1, <1>2, <2>1, <2>2
    <3>2. n < ScMax(n, m)
      <4>1. ScMax(n, m) = n \/ ScMax(n, m) = m
        BY DEF ScMax
      <4> QED BY <3>1, <4>1
    <3> QED BY <3>1, <3>2 DEF ScMax
  <2> QED BY <1>1, <2>1, <2>2, <2>3
<1> HIDE DEF m
<1>4. ScDeleted(lines, preserve) = ScOut(ScUp(u, x), n - 1, scTop)
  <2>1. ScMax(0, n - 1) = n - 1
    BY <1>1 DEF ScMax
  <2>2. ~(n - 1 < scTop \/ m - n > ScHeight)
    BY <2>1 DEF m
  <2>3. ScDeleted(lines, preserve) = IF n - 1 < scTop \/ m - n > ScHeight THEN ScFull(lines, preserve) ELSE ScOut(ScUp(u, x), n - 1, scTop)
    BY <2>1 DEF ScDeleted, m
  <2> HIDE DEF x, t, u
  <2> QED BY <2>2, <2>3
<1> HIDE DEF x, t, u, f, e
<1>5. x \in Nat /\ n - 1 \in Nat /\ s <= n - 1 /\ n - 1 <= s + h - 1 /\ n - 1 + x = m - 1 /\ n - 1 + x <= s + h - 1
  <2>1. s \in Int /\ m \in Nat /\ s <= scTop /\ scTop \in Nat /\ m <= s + h /\ n < m /\ scTop <= n - 1
    BY <1>1, <1>2, <1>3
  <2>2. x = m - n
    BY DEF x
  <2> QED BY <1>1, <2>1, <2>2
<1>6. ScOn(t, h, s, n - 1, f, rolled)
  <2>1. ScOn(scTerm, h, s, scHw, f, rolled)
    BY <1>2 DEF ScOn
  <2>2. ScOn(ScMove(scTerm, (n - 1) - scHw), h, s, n - 1, f, rolled)
    BY <1>5, <2>1, OnMove
  <2> QED BY <2>2 DEF t
<1>7. ScOn(u, h, s, n - 1 + x, e, rolled)
  <2> DEFINE p == n - 1
  <2>1. p \in Nat /\ p + x <= s + h - 1
    BY <1>5
  <2> HIDE DEF p
  <2>2. ScOn(t, h, s, p, f, rolled)
    BY <1>6 DEF p
  <2>3. ScOn(ScDownsCleared(t, x), h, s, p + x, ScWiped(f, p, p + x), rolled)
    BY <1>5, <2>1, <2>2, OnBelow
  <2> QED BY <2>3 DEF u, e, p
<1>8. ScOn(ScUp(u, x), h, s, n - 1, e, rolled)
  <2> DEFINE p == n - 1 + x
  <2>1. n - 1 \in Int /\ n - 1 <= p /\ p - (n - 1) = x
    BY <1>1, <1>5
  <2> HIDE DEF p
  <2>2. ScOn(u, h, s, p, e, rolled)
    BY <1>7 DEF p
  <2>3. n - 1 <= p => ScOn(ScUp(u, p - (n - 1)), h, s, n - 1, e, rolled)
    BY <1>5, <2>1, <2>2, OnMove
  <2> QED BY <2>1, <2>3
<1>9. ASSUME NEW j \in Nat PROVE ScTape(lines)[j] = e[j]
  <2>1. e[j] = IF n - 1 < j /\ j <= n - 1 + x THEN ScBlank ELSE f[j]
    BY DEF ScWiped, e
  <2>2. ScTape(lines)[j] = IF j < n THEN lines[j + 1] ELSE ScBlank
    BY <1>1, TapeIs
  <2>3. f[j] = IF j < m THEN scPrev[j + 1] ELSE ScBlank
    BY <1>2, TapeIs DEF f, m
  <2>4. CASE j < n
    <3>1. ~(n - 1 < j)
      BY <1>1, <2>4
    <3> QED BY <1>3, <2>1, <2>4, <3>1
  <2>5. CASE ~(j < n)
    <3>1. ~(n - 1 < j /\ j <= n - 1 + x) => ~(j < m)
      BY <1>1, <1>2, <1>5, <2>5
    <3> QED BY <2>1, <2>2, <2>3, <2>5, <3>1
  <2> QED BY <2>4, <2>5
<1>10. ScOn(ScUp(u, x), h, s, n - 1, ScTape(lines), rolled)
  <2>1. ScTape(lines) \in ScTapes
    BY <1>1, TapeIs
  <2>2. \A j \in Nat : rolled \/ j >= s => ScTape(lines)[j] = e[j]
    BY <1>9
  <2> QED BY <1>8, <2>1, <2>2, OtherTape, Zenon
<1>11. ScUp(u, x) \in ScTerms(h)
  BY <1>10, OnIs
<1>12. ScShows(ScUp(u, x), h, s, lines, n - 1, scTop, rolled)
  <2>1. scTop = ScMax(0, s) /\ scTop <= n - 1 /\ n - 1 <= Len(lines) - 1 /\ Len(lines) <= s + h
    BY <1>1, <1>2, <1>3 DEF ScMax
  <2> QED BY <1>10, <2>1 DEF ScShows
<1> QED BY <1>2, <1>4, <1>5, <1>11, <1>12 DEF ScShown, ScOut, ScOuts

(* Down to a row that is on the screen. *)
LEMMA BelowIs ==
    ASSUME ScAssumption, NEW h \in Nat \ {0}, h = ScHeight, NEW s, ScKnown(h, s),
           NEW target \in Nat, scTop <= target, target <= s + h - 1, NEW rolled, rolled => ~scJumped
    PROVE  ScBelow(target).top = scTop /\ ScOn(ScBelow(target).term, h, s, target, ScTape(scPrev), rolled)
<1>1. /\ s \in Int /\ scHw \in Nat /\ scTop \in Nat /\ s <= scTop
      /\ ScOn(scTerm, h, s, scHw, ScTape(scPrev), ~scJumped)
  BY KnownIs
<1>2. ~(target > scTop + h - 1) /\ s <= target
  BY <1>1
<1>3. ScBelow(target) = [term |-> ScMove(scTerm, target - scHw), top |-> scTop]
  BY <1>2 DEF ScBelow
<1>4. ScOn(scTerm, h, s, scHw, ScTape(scPrev), rolled)
  BY <1>1 DEF ScOn
<1>5. ScOn(ScMove(scTerm, target - scHw), h, s, target, ScTape(scPrev), rolled)
  BY <1>2, <1>4, OnMove
<1> QED BY <1>3, <1>5

(* The rows of the lines that are gone are cleared. *)
LEMMA ScTrimmedIs ==
    ASSUME ScAssumption, NEW h \in Nat \ {0}, NEW s, NEW t, NEW f, NEW rolled, NEW end \in Nat, NEW lines,
           Len(lines) \in Nat, Len(scPrev) \in Nat, end <= Len(lines) - 1, Len(lines) < Len(scPrev), Len(scPrev) <= s + h,
           ScOn(t, h, s, end, f, rolled)
    PROVE  /\ ScTrimmed(t, lines, end).at = Len(lines) - 1
           /\ ScOn(ScTrimmed(t, lines, end).term, h, s, Len(lines) - 1, ScWiped(f, Len(lines) - 1, Len(scPrev) - 1), rolled)
<1> DEFINE n == Len(lines)
           m == Len(scPrev)
<1>0. n \in Nat /\ m \in Nat /\ end <= n - 1 /\ n < m /\ m <= s + h
  OBVIOUS
<1> HIDE DEF n, m
<1> DEFINE x == m - n
           p == n - 1
           u == ScDown(t, p - end)
           v == ScReturnsCleared(u, x)
           w == ScUp(v, x)
           e == ScWiped(f, p, p + x)
<1>1. s \in Int /\ s <= end
  BY OnIs
<1>2. x \in Nat /\ x > 0 /\ p \in Nat /\ end <= p /\ p + x = m - 1 /\ p + x <= s + h - 1 /\ p <= p + x /\ s <= p /\ p <= s + h - 1 /\ ScMax(end, p) = p
  BY <1>0, <1>1 DEF ScMax
<1>3. ScTrimmed(t, lines, end) = [term |-> w, at |-> p]
  BY <1>2 DEF ScTrimmed, n, m
<1> HIDE DEF x, p
<1>4. ScOn(u, h, s, p, f, rolled)
  <2>1. p \in Int /\ end \in Int /\ p >= end /\ s <= p /\ p <= s + h - 1
    BY <1>2
  <2> QED BY <2>1, OnMove
<1> HIDE DEF u
<1>5. ScOn(v, h, s, p + x, e, rolled)
  BY <1>1, <1>2, <1>4, OnBelow
<1> HIDE DEF v
<1>6. ScOn(w, h, s, p, e, rolled)
  <2> DEFINE q == p + x
  <2>1. q - p = x /\ p <= q /\ p \in Int
    BY <1>2
  <2>2. ScOn(v, h, s, q, e, rolled)
    BY <1>5
  <2> HIDE DEF q, e
  <2>3. p <= q => ScOn(ScUp(v, q - p), h, s, p, e, rolled)
    BY <1>2, <2>1, <2>2, OnMove
  <2> QED BY <2>1, <2>3
<1> HIDE DEF w, e
<1>7. e = ScWiped(f, n - 1, m - 1) /\ p = n - 1
  BY <1>2 DEF e, p
<1> QED BY <1>3, <1>6, <1>7 DEF n, m

(* Lines from the first that differs to the last. *)
LEMMA PatchedIs ==
    ASSUME ScAssumption, NEW h \in Nat \ {0}, h = ScHeight, NEW s, ScKnown(h, s), NEW lines \in ScContents,
           ScChanged(lines) # {}, ScFirst(lines) < Len(lines), ~(ScFirst(lines) < scTop), NEW rolled, rolled => ~scJumped
    PROVE  ScShown(ScPatched(lines), h, lines, rolled)
<1> DEFINE n == Len(lines)
           m == Len(scPrev)
           a == ScFirst(lines)
           b == ScLast(lines)
           end == ScMin(b, n - 1)
           appends == n > m /\ a = m /\ a > 0
           target == IF appends THEN a - 1 ELSE a
           moved == ScBelow(target)
           t == IF appends THEN ScReturn(moved.term) ELSE moved.term
           written == ScLines(t, lines, a, end, TRUE)
           done == ScTrimmed(written, lines, end)
           f == ScTape(scPrev)
           z == ScMax(s, end + 1 - h)
           g == ScSaid(f, lines, a, end)
           q == IF appends THEN ScMax(s, a + 1 - h) ELSE s
           e == IF n < m THEN ScWiped(g, n - 1, m - 1) ELSE g
           hw == IF n < m THEN n - 1 ELSE end
           top == ScMax(scTop, hw - h + 1)
<1>1. lines \in Seq(ScTexts) /\ n \in Nat /\ n >= 1
  BY ContentsAre
<1>2. /\ s \in Int /\ scHw \in Nat /\ scTop \in Nat /\ scPrev \in Seq(ScTexts) /\ m \in Nat /\ m >= 1
      /\ s <= scTop /\ (scTop = 0 \/ scTop = s) /\ scTop <= scHw /\ scHw <= m - 1 /\ m <= s + h
  BY KnownIs
<1>3. ScDiffers(lines, n, m, a, b)
  BY <1>1, <1>2, DiffIs
<1>4. ScPatched(lines) = ScOut(done.term, done.at, ScMax(moved.top, done.at - h + 1))
  BY DEF ScPatched
<1>5. a < n /\ ~(a < scTop)
  OBVIOUS
<1> HIDE DEF n, m, a, b, f
<1>6. /\ a \in Nat /\ b \in Nat /\ a <= b /\ b < ScMax(n, m)
      /\ (n > m => b = n - 1 /\ a <= m)
      /\ (n < m => b = m - 1 /\ a <= n)
      /\ \A j \in Nat : j < a \/ j > b => ScTape(lines)[j] = f[j]
  BY <1>3 DEF ScDiffers, f
<1>7. end \in Nat /\ a <= end /\ end <= n - 1 /\ end <= b /\ (end = b \/ end = n - 1) /\ (n > m => end = n - 1)
  BY <1>1, <1>5, <1>6 DEF ScMin
<1> HIDE DEF end
<1>8. target \in Nat /\ scTop <= target /\ target <= s + h - 1
  <2>1. CASE appends
    BY <1>2, <1>6, <2>1
  <2>2. CASE ~appends
    <3>1. a < m
      <4>1. CASE n > m
        <5>1. a # m
          BY <1>2, <1>6, <2>2, <4>1
        <5> QED BY <1>2, <1>6, <4>1, <5>1
      <4>2. CASE ~(n > m)
        BY <1>1, <1>2, <1>5, <1>6, <4>2 DEF ScMax
      <4> QED BY <4>1, <4>2
    <3> HIDE DEF appends
    <3>2. target = a
      BY <2>2
    <3> QED BY <1>2, <1>5, <1>6, <3>1, <3>2
  <2> QED BY <2>1, <2>2
<1>9. appends => target + 1 = a /\ target + 2 - h = a + 1 - h
  BY <1>6
<1>10. ~appends => target = a
  OBVIOUS
<1> HIDE DEF appends, target
<1>11. moved.top = scTop /\ ScOn(moved.term, h, s, target, f, rolled)
  BY <1>8, BelowIs DEF f
<1> HIDE DEF moved
<1>12. ScOn(t, h, q, a, f, rolled)
  <2>1. CASE appends
    <3>1. ScOn(ScReturn(moved.term), h, ScMax(s, target + 2 - h), target + 1, f, rolled)
      BY <1>8, <1>11, OnReturn
    <3> QED BY <1>9, <2>1, <3>1
  <2>2. CASE ~appends
    BY <1>10, <1>11, <2>2
  <2> QED BY <2>1, <2>2
<1> HIDE DEF t
<1>13. ScOn(written, h, z, end, g, rolled)
  <2>1. ScMax(q, end + 1 - h) = z
    BY <1>2, <1>6, <1>7 DEF ScMax
  <2>2. end < Len(lines)
    BY <1>1, <1>7 DEF n
  <2> HIDE DEF q, z, g
  <2>3. ScOn(ScLines(t, lines, a, end, TRUE), h, ScMax(q, end + 1 - h), end, ScSaid(f, lines, a, end), rolled)
    BY <1>1, <1>6, <1>7, <1>12, <2>2, OnLines
  <2> QED BY <2>1, <2>3 DEF g
<1> HIDE DEF written, q
<1>14. /\ z \in Int /\ z >= s /\ z >= end + 1 - h /\ (z = s \/ z = end + 1 - h) /\ (n < m => z = s) /\ n <= z + h
       /\ hw \in Nat /\ hw <= n - 1 /\ hw >= scTop
  <2>1. z \in Int /\ z >= s /\ z >= end + 1 - h /\ (z = s \/ z = end + 1 - h)
    BY <1>2, <1>7 DEF ScMax
  <2> HIDE DEF z
  <2>2. n < m => z = s
    BY <1>1, <1>2, <1>7, <2>1
  <2>3. n <= z + h
    BY <1>1, <1>2, <1>7, <2>1
  <2>4. hw \in Nat /\ hw <= n - 1 /\ hw >= scTop
    BY <1>1, <1>2, <1>5, <1>6, <1>7
  <2> QED BY <2>1, <2>2, <2>3, <2>4
<1>15. top = ScMax(0, z) /\ top <= hw /\ top \in Nat
  <2>1. CASE n < m
    <3>1. z = s /\ hw = n - 1 /\ hw - h + 1 <= s
      BY <1>1, <1>2, <1>14, <2>1
    <3> HIDE DEF z, hw
    <3> QED BY <1>2, <1>14, <3>1 DEF ScMax
  <2>2. CASE ~(n < m)
    <3>1. hw = end
      BY <2>2
    <3> HIDE DEF hw
    <3> QED BY <1>2, <1>7, <1>14, <3>1 DEF ScMax
  <2> QED BY <2>1, <2>2
<1>16. done.at = hw /\ ScOn(done.term, h, z, hw, e, rolled)
  <2>1. CASE n < m
    <3>1. n = Len(lines) /\ m = Len(scPrev) /\ m <= z + h
      BY <1>2, <1>14, <2>1 DEF n, m
    <3> HIDE DEF z, g
    <3>2. done.at = n - 1 /\ ScOn(done.term, h, z, n - 1, ScWiped(g, n - 1, m - 1), rolled)
      <4>1. /\ end \in Nat /\ Len(lines) \in Nat /\ Len(scPrev) \in Nat /\ end <= Len(lines) - 1 /\ Len(lines) < Len(scPrev)
            /\ Len(scPrev) <= z + h /\ ScOn(written, h, z, end, g, rolled)
        BY <1>1, <1>2, <1>7, <1>13, <2>1, <3>1
      <4> HIDE DEF done
      <4>2. done = ScTrimmed(written, lines, end)
        BY DEF done
      <4>3. /\ ScTrimmed(written, lines, end).at = Len(lines) - 1
            /\ ScOn(ScTrimmed(written, lines, end).term, h, z, Len(lines) - 1, ScWiped(g, Len(lines) - 1, Len(scPrev) - 1), rolled)
        BY <4>1, ScTrimmedIs
      <4> QED BY <3>1, <4>2, <4>3
    <3> QED BY <2>1, <3>2
  <2>2. CASE ~(n < m)
    <3>1. ~(m - n > 0)
      BY <1>1, <1>2, <2>2
    <3>2. done = [term |-> written, at |-> end]
      BY <3>1 DEF ScTrimmed, n, m
    <3> HIDE DEF z, g, done
    <3> QED BY <1>13, <2>2, <3>2
  <2> QED BY <2>1, <2>2
<1> HIDE DEF done, z, hw, top
<1>17. ASSUME NEW j \in Nat PROVE ScTape(lines)[j] = e[j]
  <2>1. g[j] = IF a <= j /\ j <= end THEN lines[j + 1] ELSE f[j]
    BY DEF ScSaid
  <2>2. n < m => e[j] = IF n - 1 < j /\ j <= m - 1 THEN ScBlank ELSE g[j]
    BY DEF ScWiped
  <2>3. ~(n < m) => e[j] = g[j]
    OBVIOUS
  <2>4. ScTape(lines)[j] = IF j < n THEN lines[j + 1] ELSE ScBlank
    BY <1>1, TapeIs DEF n
  <2>5. f[j] = IF j < m THEN scPrev[j + 1] ELSE ScBlank
    BY <1>2, TapeIs DEF f, m
  <2>6. j < a \/ j > b => ScTape(lines)[j] = f[j]
    BY <1>6
  <2> HIDE DEF e, g
  <2>7. CASE j < n
    <3>1. ~(n - 1 < j)
      BY <1>1, <2>7
    <3>2. e[j] = g[j]
      BY <2>2, <2>3, <3>1
    <3>3. CASE a <= j /\ j <= end
      BY <2>1, <2>4, <2>7, <3>2, <3>3
    <3>4. CASE ~(a <= j /\ j <= end)
      <4>1. j < a \/ j > b
        BY <1>1, <1>6, <1>7, <2>7, <3>4
      <4> QED BY <2>1, <2>6, <3>2, <3>4, <4>1
    <3> QED BY <3>3, <3>4
  <2>8. CASE ~(j < n)
    <3>1. ~(j <= end) /\ n - 1 < j
      BY <1>1, <1>7, <2>8
    <3>2. g[j] = f[j]
      BY <2>1, <3>1
    <3>3. CASE n < m /\ j <= m - 1
      BY <2>2, <2>4, <2>8, <3>1, <3>3
    <3>4. CASE ~(n < m /\ j <= m - 1)
      <4>1. ~(j < m)
        BY <1>1, <1>2, <2>8, <3>4
      <4>2. e[j] = g[j]
        BY <2>2, <2>3, <3>4
      <4> QED BY <2>4, <2>5, <2>8, <3>2, <4>1, <4>2
    <3> QED BY <3>3, <3>4
  <2> QED BY <2>7, <2>8
<1> HIDE DEF e
<1>18. ScOn(done.term, h, z, hw, ScTape(lines), rolled)
  <2>1. ScTape(lines) \in ScTapes
    BY <1>1, TapeIs
  <2>2. \A j \in Nat : rolled \/ j >= z => ScTape(lines)[j] = e[j]
    BY <1>17
  <2> QED BY <1>16, <2>1, <2>2, OtherTape, Zenon
<1>19. done.term \in ScTerms(h)
  BY <1>18, OnIs
<1>20. ScShows(done.term, h, z, lines, hw, top, rolled)
  <2>1. hw <= Len(lines) - 1 /\ Len(lines) <= z + h
    BY <1>14 DEF n
  <2> QED BY <1>15, <1>18, <2>1 DEF ScShows
<1>21. ScPatched(lines) = ScOut(done.term, hw, top)
  BY <1>4, <1>11, <1>16 DEF top
<1> QED BY <1>14, <1>15, <1>19, <1>20, <1>21 DEF ScShown, ScOut, ScOuts

(* Of a screen that is not known the types are left. *)
LEMMA TimesAre ==
    ASSUME ScAssumption, NEW h \in Nat \ {0}, NEW t \in ScTerms(h), NEW n \in Nat
    PROVE  ScReturns(t, n) \in ScTerms(h) /\ ScReturnsCleared(t, n) \in ScTerms(h) /\ ScDownsCleared(t, n) \in ScTerms(h)
<1>0. n \in 0 .. n
  OBVIOUS
<1>1. PICK a : ScReturned(a, t, n) /\ a[n] = ScReturns(t, n) /\ \A i \in 0 .. n : a[i] \in ScTerms(h)
  BY ReturnsRun
<1>2. PICK b : ScReturnedClear(b, t, n) /\ b[n] = ScReturnsCleared(t, n) /\ \A i \in 0 .. n : b[i] \in ScTerms(h)
  BY ReturnsClearedRun
<1>3. PICK c : ScDownedClear(c, t, n) /\ c[n] = ScDownsCleared(t, n) /\ \A i \in 0 .. n : c[i] \in ScTerms(h)
  BY DownsClearedRun
<1> QED BY <1>0, <1>1, <1>2, <1>3

LEMMA LinesAre ==
    ASSUME ScAssumption, NEW h \in Nat \ {0}, NEW t \in ScTerms(h), NEW lines \in Seq(ScTexts), NEW from \in Nat, NEW to \in Nat,
           from <= to, to < Len(lines), NEW clears \in BOOLEAN
    PROVE  ScLines(t, lines, from, to, clears) \in ScTerms(h)
<1> DEFINE n == to - from + 1
<1>0. n = to - from + 1 /\ n \in 0 .. n /\ to \in Int
  OBVIOUS
<1> HIDE DEF n
<1>1. PICK a : ScLined(a, t, lines, from, clears, n) /\ a[n] = ScLines(t, lines, from, to, clears) /\ \A i \in 0 .. n : a[i] \in ScTerms(h)
  BY <1>0, LinesRun
<1> QED BY <1>0, <1>1

LEMMA RepaintTyped ==
    ASSUME ScAssumption, NEW h \in Nat \ {0}, h = ScHeight, scTerm \in ScTerms(h), scHw \in Nat, scTop \in Nat, scPrev \in ScContents,
           NEW lines \in ScContents
    PROVE  ScRepaint(lines) \in ScOuts(h)
<1> DEFINE n == Len(lines)
           m == Len(scPrev)
           start == ScMax(0, n - h)
           shown == n - start
           before == ScMin(h, m)
           up == ScMax(0, ScMin(before - 1, scHw - scTop))
           left == ScMax(0, before - ScMax(shown, 1))
           home == ScUp(scTerm, up)
           painted == ScLines(home, lines, start, n - 1, TRUE)
           below == ScReturnsCleared(painted, left)
<1>1. lines \in Seq(ScTexts) /\ n \in Nat /\ n >= 1 /\ m \in Nat
  BY ContentsAre
<1> HIDE DEF n, m
<1>2. start \in Nat /\ start <= n - 1 /\ n - 1 \in Nat /\ ScMax(0, n - 1) \in Nat
  BY <1>1 DEF ScMax
<1> HIDE DEF start
<1>3. up \in Nat /\ left \in Nat
  BY <1>1, <1>2 DEF ScMax, ScMin
<1>4. shown # 0
  BY <1>1, <1>2
<1>5. ScRepaint(lines) = ScOut(ScUp(below, left), ScMax(0, n - 1), start)
  BY <1>4 DEF ScRepaint, n, m, start
<1> HIDE DEF up, left, shown, before
<1>6. home \in ScTerms(h)
  BY <1>3, UpIs
<1> HIDE DEF home
<1>7. painted \in ScTerms(h)
  <2>1. n - 1 < Len(lines)
    BY <1>1 DEF n
  <2> QED BY <1>1, <1>2, <1>6, <2>1, LinesAre
<1> HIDE DEF painted
<1>8. below \in ScTerms(h)
  BY <1>3, <1>7, TimesAre
<1> HIDE DEF below
<1>9. ScUp(below, left) \in ScTerms(h)
  BY <1>3, <1>8, UpIs
<1> QED BY <1>2, <1>5, <1>9 DEF ScOut, ScOuts

LEMMA FullTyped ==
    ASSUME ScAssumption, NEW h \in Nat \ {0}, h = ScHeight, scTerm \in ScTerms(h), scHw \in Nat, scTop \in Nat, scPrev \in ScContents,
           NEW lines \in ScContents, NEW preserve
    PROVE  ScFull(lines, preserve) \in ScOuts(h)
<1>1. ScRepaint(lines) \in ScOuts(h)
  BY RepaintTyped
<1>2. ScRedraw(lines, TRUE) \in ScOuts(h)
  <2>1. ScShown(ScRedraw(lines, TRUE), h, lines, FALSE)
    BY RedrawIs
  <2> QED BY <2>1 DEF ScShown
<1> QED BY <1>1, <1>2 DEF ScFull

LEMMA DeletedTyped ==
    ASSUME ScAssumption, NEW h \in Nat \ {0}, h = ScHeight, scTerm \in ScTerms(h), scHw \in Nat, scTop \in Nat, scPrev \in ScContents,
           NEW lines \in ScContents, NEW preserve, ScChanged(lines) # {}, ScFirst(lines) >= Len(lines)
    PROVE  ScDeleted(lines, preserve) \in ScOuts(h)
<1> DEFINE n == Len(lines)
           m == Len(scPrev)
           x == m - n
           target == ScMax(0, n - 1)
           t == ScMove(scTerm, target - scHw)
           u == ScDownsCleared(t, x)
<1>1. lines \in Seq(ScTexts) /\ scPrev \in Seq(ScTexts) /\ n \in Nat /\ n >= 1 /\ m \in Nat
  BY ContentsAre
<1>2. x \in Nat
  <2> DEFINE a == ScFirst(lines)
             b == ScLast(lines)
  <2>1. ScDiffers(lines, n, m, a, b)
    BY <1>1, DiffIs
  <2>2. a >= n
    OBVIOUS
  <2> HIDE DEF a, b, n, m
  <2>3. a \in Nat /\ b \in Nat /\ a <= b /\ b < ScMax(n, m)
    BY <2>1 DEF ScDiffers
  <2>4. n < m
    BY <1>1, <2>2, <2>3 DEF ScMax
  <2> QED BY <1>1, <2>4
<1>3. target \in Nat /\ target - scHw \in Int
  BY <1>1 DEF ScMax
<1>4. ScDeleted(lines, preserve) = ScFull(lines, preserve) \/ ScDeleted(lines, preserve) = ScOut(ScUp(u, x), target, scTop)
  BY DEF ScDeleted
<1> HIDE DEF n, m, x, target
<1>5. t \in ScTerms(h)
  BY <1>3, MoveIs
<1> HIDE DEF t
<1>6. u \in ScTerms(h)
  BY <1>2, <1>5, TimesAre
<1> HIDE DEF u
<1>7. ScUp(u, x) \in ScTerms(h)
  BY <1>2, <1>6, UpIs
<1>8. ScFull(lines, preserve) \in ScOuts(h)
  BY FullTyped
<1> QED BY <1>3, <1>4, <1>7, <1>8 DEF ScOut, ScOuts

LEMMA BelowTyped ==
    ASSUME ScAssumption, NEW h \in Nat \ {0}, h = ScHeight, scTerm \in ScTerms(h), scHw \in Nat, scTop \in Nat, NEW target \in Nat
    PROVE  ScBelow(target).term \in ScTerms(h) /\ ScBelow(target).top \in Nat
<1> DEFINE bottom == scTop + h - 1
           d == h - 1 - ScMax(0, ScMin(h - 1, scHw - scTop))
           down == ScDown(scTerm, d)
<1>1. d \in Nat /\ bottom \in Nat /\ target - scHw \in Int
  BY DEF ScMax, ScMin
<1>2. ScBelow(target) = IF target > bottom THEN [term |-> ScReturns(down, target - bottom), top |-> scTop + target - bottom]
                        ELSE [term |-> ScMove(scTerm, target - scHw), top |-> scTop]
  BY DEF ScBelow
<1> HIDE DEF bottom, d
<1>3. down \in ScTerms(h)
  BY <1>1, DownIs
<1> HIDE DEF down
<1>4. CASE target > bottom
  <2>1. target - bottom \in Nat /\ scTop + target - bottom \in Nat
    BY <1>1, <1>4
  <2>2. ScReturns(down, target - bottom) \in ScTerms(h)
    BY <1>3, <2>1, TimesAre
  <2> QED BY <1>2, <1>4, <2>1, <2>2
<1>5. CASE ~(target > bottom)
  <2>1. ScMove(scTerm, target - scHw) \in ScTerms(h)
    BY <1>1, MoveIs
  <2> QED BY <1>2, <1>5, <2>1
<1> QED BY <1>4, <1>5

LEMMA TrimmedTyped ==
    ASSUME ScAssumption, NEW h \in Nat \ {0}, NEW t \in ScTerms(h), NEW end \in Nat, NEW lines, Len(lines) \in Nat, Len(scPrev) \in Nat
    PROVE  ScTrimmed(t, lines, end).term \in ScTerms(h) /\ ScTrimmed(t, lines, end).at \in Nat
<1> DEFINE n == Len(lines)
           last == ScMax(end, n - 1)
           x == Len(scPrev) - n
           down == ScDown(t, last - end)
           u == ScReturnsCleared(down, x)
<1>1. last \in Nat /\ last - end \in Nat /\ x \in Int
  BY DEF ScMax
<1>2. ScTrimmed(t, lines, end) = IF x > 0 THEN [term |-> ScUp(u, x), at |-> last] ELSE [term |-> t, at |-> end]
  BY DEF ScTrimmed
<1> HIDE DEF n, last, x
<1>3. down \in ScTerms(h)
  BY <1>1, DownIs
<1> HIDE DEF down
<1>4. CASE x > 0
  <2>1. x \in Nat
    BY <1>1, <1>4
  <2>2. u \in ScTerms(h)
    BY <1>3, <2>1, TimesAre
  <2> HIDE DEF u
  <2>3. ScUp(u, x) \in ScTerms(h)
    BY <2>1, <2>2, UpIs
  <2> QED BY <1>1, <1>2, <1>4, <2>3
<1>5. CASE ~(x > 0)
  BY <1>2, <1>5
<1> QED BY <1>4, <1>5

LEMMA PatchedTyped ==
    ASSUME ScAssumption, NEW h \in Nat \ {0}, h = ScHeight, scTerm \in ScTerms(h), scHw \in Nat, scTop \in Nat, scPrev \in ScContents,
           NEW lines \in ScContents, ScChanged(lines) # {}, ScFirst(lines) < Len(lines)
    PROVE  ScPatched(lines) \in ScOuts(h)
<1> DEFINE n == Len(lines)
           m == Len(scPrev)
           a == ScFirst(lines)
           b == ScLast(lines)
           end == ScMin(b, n - 1)
           appends == n > m /\ a = m /\ a > 0
           target == IF appends THEN a - 1 ELSE a
           moved == ScBelow(target)
           t == IF appends THEN ScReturn(moved.term) ELSE moved.term
           written == ScLines(t, lines, a, end, TRUE)
           done == ScTrimmed(written, lines, end)
<1>1. lines \in Seq(ScTexts) /\ scPrev \in Seq(ScTexts) /\ n \in Nat /\ n >= 1 /\ m \in Nat
  BY ContentsAre
<1>2. ScDiffers(lines, n, m, a, b)
  BY <1>1, DiffIs
<1>3. ScPatched(lines) = ScOut(done.term, done.at, ScMax(moved.top, done.at - h + 1))
  BY DEF ScPatched
<1>4. a < n
  OBVIOUS
<1> HIDE DEF a, b, n, m
<1>5. a \in Nat /\ b \in Nat /\ a <= b
  BY <1>2 DEF ScDiffers
<1>6. end \in Nat /\ a <= end /\ end < n
  BY <1>1, <1>4, <1>5 DEF ScMin
<1>7. target \in Nat
  BY <1>5
<1> HIDE DEF end, target, appends
<1>8. moved.term \in ScTerms(h) /\ moved.top \in Nat
  BY <1>7, BelowTyped
<1> HIDE DEF moved
<1>9. t \in ScTerms(h)
  BY <1>8, ReturnIs
<1> HIDE DEF t
<1>10. written \in ScTerms(h)
  BY <1>1, <1>5, <1>6, <1>9, LinesAre DEF n
<1> HIDE DEF written
<1>11. done.term \in ScTerms(h) /\ done.at \in Nat
  BY <1>1, <1>6, <1>10, TrimmedTyped DEF n, m
<1> HIDE DEF done
<1>12. ScMax(moved.top, done.at - h + 1) \in Nat
  BY <1>8, <1>11 DEF ScMax
<1> QED BY <1>3, <1>11, <1>12 DEF ScOut, ScOuts

LEMMA RenderedTyped ==
    ASSUME ScAssumption, NEW h \in Nat \ {0}, h = ScHeight, scTerm \in ScTerms(h), scHw \in Nat, scTop \in Nat, scPrev \in ScContents,
           NEW lines \in ScContents, NEW preserve
    PROVE  ScRendered(lines, preserve) \in ScOuts(h)
<1>1. scPrev # <<>>
  BY DEF ScAssumption
<1>2. ScRedraw(lines, TRUE) \in ScOuts(h)
  <2>1. ScShown(ScRedraw(lines, TRUE), h, lines, FALSE)
    BY RedrawIs
  <2> QED BY <2>1 DEF ScShown
<1>3. ScOut(scTerm, scHw, scTop) \in ScOuts(h)
  BY DEF ScOut, ScOuts
<1>4. ASSUME NEW p PROVE ScFull(lines, p) \in ScOuts(h)
  BY FullTyped
<1>5. ScChanged(lines) # {} /\ ScFirst(lines) >= Len(lines) => ScDeleted(lines, preserve) \in ScOuts(h)
  BY DeletedTyped
<1>6. ScChanged(lines) # {} /\ ~(ScFirst(lines) >= Len(lines)) => ScPatched(lines) \in ScOuts(h)
  <2>1. ASSUME ScChanged(lines) # {}, ~(ScFirst(lines) >= Len(lines)) PROVE ScFirst(lines) < Len(lines)
    <3>1. lines \in Seq(ScTexts) /\ scPrev \in Seq(ScTexts) /\ Len(lines) \in Nat
      BY ContentsAre
    <3>2. ScFirst(lines) \in Nat
      BY <2>1, <3>1, DiffIs DEF ScDiffers
    <3> QED BY <2>1, <3>1, <3>2
  <2> QED BY <2>1, PatchedTyped
<1> QED BY <1>1, <1>2, <1>3, <1>4, <1>5, <1>6 DEF ScRendered

LEMMA FullIs ==
    ASSUME ScAssumption, NEW h \in Nat \ {0}, h = ScHeight, NEW s, ScKnown(h, s), NEW lines \in ScContents, NEW p, NEW rolled, ~rolled
    PROVE  ScShown(ScFull(lines, p), h, lines, rolled) /\ ScFull(lines, p).top = ScMax(0, Len(lines) - h)
<1>1. ScShown(ScRepaint(lines), h, lines, rolled) /\ ScRepaint(lines).top = ScMax(0, Len(lines) - h)
  BY RepaintIs
<1>2. ScShown(ScRedraw(lines, TRUE), h, lines, rolled)
  <2>1. scTerm \in ScTerms(h)
    BY KnownIs
  <2> QED BY <2>1, RedrawIs
<1>3. ScRedraw(lines, TRUE).top = ScMax(0, Len(lines) - h)
  BY DEF ScRedraw, ScOut
<1> QED BY <1>1, <1>2, <1>3 DEF ScFull

(* A render leaves a screen that shows the lines, when it starts on one that is
   known or blank from the cursor on, or clears the screen.               *)
ScBlankFrom(h) == scPrev = <<>> /\ \A i \in scTerm.at + 1 .. h : scTerm.rows[i] = ScBlank

LEMMA KnownRendered ==
    ASSUME ScAssumption, NEW h \in Nat \ {0}, h = ScHeight, NEW s, ScKnown(h, s), ~scStale, NEW lines \in ScContents, NEW preserve,
           NEW out, out = ScRendered(lines, preserve), NEW rolled, rolled => ~scJumped /\ ~(out.top < scTop) /\ ~ScSkips(lines)
    PROVE  ScShown(out, h, lines, rolled)
<1> DEFINE n == Len(lines)
           m == Len(scPrev)
           a == ScFirst(lines)
           b == ScLast(lines)
<1>1. lines \in Seq(ScTexts) /\ n \in Nat /\ n >= 1
  BY ContentsAre
<1>2. /\ s \in Int /\ scHw \in Nat /\ scTop \in Nat /\ scPrev \in Seq(ScTexts) /\ m \in Nat /\ m >= 1
      /\ s <= scTop /\ (scTop = 0 \/ scTop = s) /\ scTop <= scHw /\ m <= s + h /\ scTerm \in ScTerms(h)
  BY KnownIs
<1>3. scPrev # <<>>
  BY DEF ScKnown, ScAssumption
<1>4. CASE ScChanged(lines) = {}
  <2>1. out = ScOut(scTerm, scHw, scTop)
    BY <1>3, <1>4 DEF ScRendered
  <2>2. lines = scPrev
    BY <1>1, <1>2, <1>4, SameIs
  <2>3. ScShows(scTerm, h, s, scPrev, scHw, scTop, ~scJumped)
    BY DEF ScKnown
  <2>4. ScShows(scTerm, h, s, lines, scHw, scTop, rolled)
    BY <2>2, <2>3 DEF ScShows, ScOn
  <2> QED BY <1>2, <2>1, <2>4 DEF ScShown, ScOut, ScOuts
<1>5. CASE ScChanged(lines) # {} /\ a >= n
  <2>1. out = ScDeleted(lines, preserve)
    BY <1>3, <1>5 DEF ScRendered
  <2>2. CASE ~(n - 1 < scTop) /\ ~(m - n > h)
    <3>1. rolled => ~scJumped
      OBVIOUS
    <3> QED BY <1>5, <2>1, <2>2, <3>1, DeletedIs
  <2>3. CASE n - 1 < scTop \/ m - n > h
    <3>1. ScMax(0, n - 1) = n - 1
      BY <1>1 DEF ScMax
    <3>2. out = ScFull(lines, preserve)
      BY <2>1, <2>3, <3>1 DEF ScDeleted
    <3>3. n <= scTop
      <4> HIDE DEF n, m
      <4> QED BY <1>1, <1>2, <2>3
    <3>4. out.top = ScMax(0, n - h)
      <4>1. ScShown(ScFull(lines, preserve), h, lines, FALSE) /\ ScFull(lines, preserve).top = ScMax(0, Len(lines) - h)
        BY FullIs
      <4> QED BY <3>2, <4>1
    <3>5. out.top < scTop
      <4> HIDE DEF n
      <4> QED BY <1>1, <1>2, <3>3, <3>4 DEF ScMax
    <3> QED BY <3>2, <3>5, FullIs
  <2> QED BY <2>2, <2>3
<1>6. CASE ScChanged(lines) # {} /\ ~(a >= n) /\ a < scTop
  <2>1. \E p : out = ScFull(lines, p)
    BY <1>3, <1>6 DEF ScRendered, ScAbove
  <2>2. ScSkips(lines)
    <3>1. ScDiffers(lines, n, m, a, b)
      BY <1>1, <1>2, <1>6, DiffIs
    <3>2. a \in Nat /\ ScOldLine(a + 1) # ScNewLine(lines, a + 1)
      BY <3>1 DEF ScDiffers
    <3> HIDE DEF a
    <3>3. a + 1 \in 1 .. scTop
      BY <1>2, <1>6, <3>2
    <3> QED BY <3>2, <3>3 DEF ScSkips
  <2> QED BY <2>1, <2>2, FullIs
<1>7. CASE ScChanged(lines) # {} /\ ~(a >= n) /\ ~(a < scTop)
  <2>1. out = ScPatched(lines)
    BY <1>3, <1>7 DEF ScRendered, ScAbove
  <2>2. a < n
    <3>1. ScDiffers(lines, n, m, a, b)
      BY <1>1, <1>2, <1>7, DiffIs
    <3>2. a \in Nat
      BY <3>1 DEF ScDiffers
    <3> HIDE DEF a, n
    <3> QED BY <1>1, <1>7, <3>2
  <2>3. rolled => ~scJumped
    OBVIOUS
  <2> QED BY <1>7, <2>1, <2>2, <2>3, PatchedIs
<1> QED BY <1>4, <1>5, <1>6, <1>7

LEMMA RenderedIs ==
    ASSUME ScAssumption, NEW h \in Nat \ {0}, h = ScHeight, scTerm \in ScTerms(h), NEW lines \in ScContents, NEW preserve,
           \/ scStale
           \/ ScBlankFrom(h)
           \/ \E s : ScKnown(h, s),
           NEW out, out = ScRendered(lines, preserve), NEW rolled, rolled => ~scJumped /\ ~(out.top < scTop) /\ ~ScSkips(lines)
    PROVE  ScShown(out, h, lines, rolled)
<1>1. CASE scStale
  <2>1. out = ScRedraw(lines, TRUE) /\ ~rolled
    BY <1>1 DEF ScRendered, ScSkips
  <2> QED BY <2>1, RedrawIs
<1>2. CASE ~scStale /\ ScBlankFrom(h)
  <2>1. out = ScRedraw(lines, FALSE)
    BY <1>2 DEF ScRendered, ScBlankFrom
  <2>2. \A i \in scTerm.at + 1 .. h : scTerm.rows[i] = ScBlank
    BY <1>2 DEF ScBlankFrom
  <2> QED BY <2>1, <2>2, RedrawIs
<1>3. CASE ~scStale /\ \E s : ScKnown(h, s)
  <2>1. PICK s : ScKnown(h, s)
    BY <1>3
  <2> QED BY <1>3, <2>1, KnownRendered
<1> QED BY <1>1, <1>2, <1>3

(* The cursor is put on the marker's row. *)
LEMMA PlacedIs ==
    ASSUME ScAssumption, NEW h \in Nat \ {0}, h = ScHeight, NEW lines \in ScContents, NEW row \in ScMarkers(lines), NEW out \in ScOuts(h)
    PROVE  /\ ScPlaced(out, row) \in ScOuts(h)
           /\ \A rolled : ScShown(out, h, lines, rolled) /\ (row = -1 \/ row >= out.top)
                  => \E s \in Int : ScShows(ScPlaced(out, row).term, h, s, lines, ScPlaced(out, row).hw, out.top, rolled)
<1>1. out.term \in ScTerms(h) /\ out.hw \in Nat /\ out.top \in Nat
  BY DEF ScOuts
<1>2. lines \in Seq(ScTexts) /\ Len(lines) \in Nat /\ Len(lines) >= 1
  BY ContentsAre
<1>3. row = -1 \/ (row \in Nat /\ row <= Len(lines) - 1)
  BY <1>2 DEF ScMarkers, ScMax
<1>4. CASE row = -1
  <2>1. ScPlaced(out, row) = out
    BY <1>4 DEF ScPlaced
  <2> QED BY <2>1 DEF ScShown
<1>5. CASE row # -1
  <2> DEFINE t == ScMove(out.term, row - out.hw)
  <2>1. row \in Nat /\ row <= Len(lines) - 1 /\ row - out.hw \in Int
    BY <1>1, <1>3, <1>5
  <2>2. t \in ScTerms(h)
    BY <1>1, <2>1, MoveIs
  <2>3. ScPlaced(out, row) = [out EXCEPT !.term = t, !.hw = row]
    BY <1>5 DEF ScPlaced
  <2>4. ScPlaced(out, row) \in ScOuts(h) /\ ScPlaced(out, row).term = t /\ ScPlaced(out, row).hw = row
    <3> HIDE DEF t
    <3> QED BY <2>1, <2>2, <2>3 DEF ScOuts
  <2>5. ASSUME NEW rolled, ScShown(out, h, lines, rolled), row >= out.top
        PROVE  \E s \in Int : ScShows(t, h, s, lines, row, out.top, rolled)
    <3>1. PICK s \in Int : ScShows(out.term, h, s, lines, out.hw, out.top, rolled)
      BY <2>5 DEF ScShown
    <3>2. /\ ScOn(out.term, h, s, out.hw, ScTape(lines), rolled)
          /\ out.top = ScMax(0, s) /\ Len(lines) <= s + h
      BY <3>1 DEF ScShows
    <3>3. s <= row /\ row <= s + h - 1
      <4>1. s <= out.top
        BY <3>2 DEF ScMax
      <4> QED BY <1>1, <1>2, <2>1, <2>5, <3>2, <4>1
    <3>4. ScOn(t, h, s, row, ScTape(lines), rolled)
      BY <2>1, <3>2, <3>3, OnMove
    <3> HIDE DEF t
    <3>5. ScShows(t, h, s, lines, row, out.top, rolled)
      BY <2>1, <2>5, <3>2, <3>4 DEF ScShows
    <3> QED BY <3>5
  <2> HIDE DEF t
  <2> QED BY <1>5, <2>4, <2>5
<1> QED BY <1>4, <1>5

(* What is followed of the terminal. *)
LEMMA FollowedIs ==
    ASSUME ScAssumption, NEW h \in Nat \ {0}, NEW t \in ScTerms(h), NEW clamped \in BOOLEAN, NEW jumped \in BOOLEAN
    PROVE  /\ ScFollowed(t, clamped, jumped) \in ScTerms(h)
           /\ \A s, lines, hw, top : ~clamped /\ ScShows(t, h, s, lines, hw, top, ~jumped)
                  => ScShows(ScFollowed(t, clamped, jumped), h, s, lines, hw, top, ~jumped)
<1> DEFINE junk == [i \in 1 .. Len(t.rows) |-> ScJunk]
           r == IF clamped THEN junk ELSE t.rows
           k == IF clamped THEN 0 ELSE t.at
           a == IF jumped THEN <<>> ELSE t.above
           u == ScFollowed(t, clamped, jumped)
<1>1. t.rows \in Seq(ScInk) /\ Len(t.rows) = h /\ t.at \in 0 .. h - 1 /\ t.above \in Seq(ScInk)
  BY TermIs DEF ScAsIs
<1>2. junk \in Seq(ScInk) /\ Len(junk) = h
  <2>1. \A i \in 1 .. h : ScJunk \in ScInk
    BY DEF ScInk
  <2> QED BY <1>1, <2>1, IsASeq
<1>3. u = [rows |-> r, at |-> k, above |-> a]
  BY DEF ScFollowed
<1> HIDE DEF junk
<1>4. r \in Seq(ScInk) /\ Len(r) = h /\ k \in 0 .. h - 1 /\ a \in Seq(ScInk)
  BY <1>1, <1>2, EmptySeq
<1> HIDE DEF r, k, a, u
<1>5. u \in ScTerms(h) /\ u.rows = r /\ u.at = k /\ u.above = a
  BY <1>3, <1>4 DEF ScTerms
<1>6. ASSUME ~clamped, NEW s, NEW lines, NEW hw, NEW top, ScShows(t, h, s, lines, hw, top, ~jumped)
      PROVE  ScShows(u, h, s, lines, hw, top, ~jumped)
  <2>1. u.rows = t.rows /\ u.at = t.at /\ (~jumped => u.above = t.above)
    BY <1>5, <1>6 DEF r, k, a
  <2>2. ScOn(t, h, s, hw, ScTape(lines), ~jumped)
    BY <1>6 DEF ScShows
  <2>3. ScPaper(u, h, s, ScTape(lines)) /\ hw = s + u.at
    BY <1>5, <2>1, <2>2 DEF ScOn, ScPaper
  <2>4. ~jumped => ScRolled(u, s, ScTape(lines))
    BY <2>1, <2>2 DEF ScOn, ScRolled
  <2>5. ScOn(u, h, s, hw, ScTape(lines), ~jumped)
    BY <2>3, <2>4 DEF ScOn
  <2> QED BY <1>6, <2>5 DEF ScShows
<1> QED BY <1>5, <1>6 DEF u

(* stop(): below the last line. *)
LEMMA ScEndIs ==
    ASSUME ScAssumption, NEW h \in Nat \ {0}, h = ScHeight, NEW s, ScKnown(h, s)
    PROVE  /\ ScEnd \in ScTerms(h)
           /\ \A i \in ScEnd.at + 1 .. h : ScEnd.rows[i] = ScBlank
           /\ Len(scPrev) > scTop + 1 => \E i \in 1 .. ScEnd.at : ScEnd.rows[i] = scPrev[Len(scPrev)]
<1> DEFINE m == Len(scPrev)
           f == ScTape(scPrev)
           t == ScMove(scTerm, m - scHw)
<1>1. /\ s \in Int /\ scHw \in Nat /\ scTop \in Nat /\ scPrev \in Seq(ScTexts) /\ m \in Nat /\ m >= 1
      /\ s <= scTop /\ scTop <= scHw /\ scHw <= s + h - 1 /\ scHw <= m - 1 /\ m <= s + h
      /\ scTerm \in ScTerms(h) /\ scTerm.at = scHw - s /\ ScOn(scTerm, h, s, scHw, f, ~scJumped)
  BY KnownIs
<1> HIDE DEF m, f
<1>2. ScEnd = ScReturn(t)
  BY DEF ScEnd, m
<1>3. PICK p \in Nat : /\ p <= s + h - 1 /\ (p = m \/ (p = m - 1 /\ m = s + h)) /\ ScOn(t, h, s, p, f, ~scJumped)
  <2>1. CASE m <= s + h - 1
    <3>1. s <= m
      BY <1>1
    <3>2. ScOn(t, h, s, m, f, ~scJumped)
      BY <1>1, <2>1, <3>1, OnMove
    <3> QED BY <1>1, <2>1, <3>2
  <2>2. CASE ~(m <= s + h - 1)
    <3> DEFINE q == m - 1
               down == ScDown(scTerm, q - scHw)
    <3>1. m = s + h /\ q \in Nat /\ q <= s + h - 1 /\ s <= q /\ q >= scHw /\ m - scHw > 0
      BY <1>1, <2>2
    <3>2. ScOn(down, h, s, q, f, ~scJumped)
      <4> HIDE DEF q
      <4> QED BY <1>1, <3>1, OnMove
    <3>3. Len(scTerm.rows) = h
      BY <1>1, TermIs DEF ScAsIs
    <3>4. ScMin(h - 1, scTerm.at + (m - scHw)) = h - 1 /\ ScMin(h - 1, scTerm.at + (q - scHw)) = h - 1
      BY <1>1, <3>1 DEF ScMin
    <3>5. t = [scTerm EXCEPT !.at = h - 1]
      BY <3>1, <3>3, <3>4 DEF ScMove, ScDown
    <3>6. down = [scTerm EXCEPT !.at = h - 1]
      BY <3>3, <3>4 DEF ScDown
    <3> HIDE DEF t, down
    <3> QED BY <3>1, <3>2, <3>5, <3>6
  <2> QED BY <2>1, <2>2
<1> DEFINE u == ScReturn(t)
           z == ScMax(s, p + 2 - h)
<1> HIDE DEF t
<1>4. ScOn(u, h, z, p + 1, f, ~scJumped)
  BY <1>3, OnReturn
<1> HIDE DEF u
<1>5. z \in Int /\ p + 1 >= m /\ (m > scTop + 1 => z <= m - 1)
  BY <1>1, <1>3 DEF ScMax
<1> HIDE DEF z
<1>6. u \in ScTerms(h) /\ u.at = p + 1 - z /\ u.at \in 0 .. h - 1
  <2>1. u \in ScTerms(h) /\ u.at = p + 1 - z
    BY <1>4, OnIs
  <2> QED BY <2>1, TermIs DEF ScAsIs
<1>7. \A i \in 1 .. h : z + i - 1 >= 0 => u.rows[i] = f[z + i - 1]
  BY <1>4 DEF ScOn, ScPaper
<1>8. \A j \in Nat : f[j] = IF j < m THEN scPrev[j + 1] ELSE ScBlank
  BY <1>1, TapeIs DEF f, m
<1>9. ASSUME NEW i \in u.at + 1 .. h PROVE u.rows[i] = ScBlank
  <2>1. i \in 1 .. h /\ z + i - 1 \in Nat /\ z + i - 1 >= 0 /\ ~(z + i - 1 < m)
    BY <1>1, <1>3, <1>5, <1>6
  <2> QED BY <1>7, <1>8, <2>1
<1>10. ASSUME m > scTop + 1 PROVE \E i \in 1 .. u.at : u.rows[i] = scPrev[m]
  <2> DEFINE i == m - z
  <2>1. i \in 1 .. u.at /\ i \in 1 .. h /\ z + i - 1 = m - 1 /\ m - 1 \in Nat /\ m - 1 >= 0 /\ m - 1 < m /\ (m - 1) + 1 = m
    BY <1>1, <1>5, <1>6, <1>10
  <2> HIDE DEF i
  <2>2. u.rows[i] = scPrev[m]
    <3>1. u.rows[i] = f[m - 1]
      BY <1>7, <2>1
    <3>2. f[m - 1] = scPrev[(m - 1) + 1]
      BY <1>8, <2>1
    <3> QED BY <2>1, <3>1, <3>2
  <2> QED BY <2>1, <2>2
<1> QED BY <1>2, <1>6, <1>9, <1>10 DEF u, m

-----------------------------------------------------------------------------
(* The invariant.  A screen that is known shows the lines. *)
ScHolds(h, term, prev, hw, top, stale, running, clamped, jumped) ==
    /\ h \in ScHeights /\ term \in ScTerms(h) /\ prev \in ScContents \cup {<<>>} /\ hw \in Nat /\ top \in Nat
    /\ prev = <<>> => ~clamped /\ \A i \in term.at + 1 .. h : term.rows[i] = ScBlank
    /\ running /\ prev # <<>> /\ ~stale /\ ~clamped => \E s \in Int : ScShows(term, h, s, prev, hw, top, ~jumped)
ScIs == ScHolds(ScHeight, scTerm, scPrev, scHw, scTop, scStale, scRunning, scLost, scJumped)
ScIInv == ScIs /\ StopBelow

LEMMA ScHoldsIs ==
    ASSUME ScAssumption, ScIs
    PROVE  /\ ScHeight \in ScHeights /\ ScHeight \in Nat \ {0} /\ scTerm \in ScTerms(ScHeight)
           /\ scHw \in Nat /\ scTop \in Nat
           /\ scPrev \in ScContents \/ (scPrev = <<>> /\ ~scLost /\ ScBlankFrom(ScHeight))
           /\ scRunning /\ scPrev # <<>> /\ ~scStale /\ ~scLost => \E s \in Int : ScKnown(ScHeight, s)
<1>1. /\ ScHeight \in ScHeights /\ scTerm \in ScTerms(ScHeight) /\ scPrev \in ScContents \cup {<<>>} /\ scHw \in Nat /\ scTop \in Nat
      /\ scPrev = <<>> => ~scLost /\ \A i \in scTerm.at + 1 .. ScHeight : scTerm.rows[i] = ScBlank
      /\ scRunning /\ scPrev # <<>> /\ ~scStale /\ ~scLost
             => \E s \in Int : ScShows(scTerm, ScHeight, s, scPrev, scHw, scTop, ~scJumped)
  BY DEF ScIs, ScHolds
<1>2. ScHeight \in Nat \ {0}
  BY <1>1 DEF ScAssumption
<1>3. ASSUME scRunning, scPrev # <<>>, ~scStale, ~scLost PROVE \E s \in Int : ScKnown(ScHeight, s)
  <2>1. PICK s \in Int : ScShows(scTerm, ScHeight, s, scPrev, scHw, scTop, ~scJumped)
    BY <1>1, <1>3
  <2>2. scPrev \in ScContents /\ scHw \in Nat /\ scTop \in Nat
    BY <1>1, <1>3
  <2>3. ScKnown(ScHeight, s)
    BY <2>1, <2>2 DEF ScKnown
  <2> QED BY <2>3
<1>4. scPrev \in ScContents \/ (scPrev = <<>> /\ ~scLost /\ ScBlankFrom(ScHeight))
  BY <1>1 DEF ScBlankFrom
<1>5. scRunning /\ scPrev # <<>> /\ ~scStale /\ ~scLost => \E s \in Int : ScKnown(ScHeight, s)
  BY <1>3
<1> QED BY <1>1, <1>2, <1>4, <1>5

(* A render keeps it. *)
LEMMA DoRenderIs ==
    ASSUME ScAssumption, ScIs, NEW lines \in ScContents, NEW row \in ScMarkers(lines), NEW preserve,
           scRunning, ScDoRender(lines, row, preserve)
    PROVE  ScIs'
<1> DEFINE out == ScRendered(lines, preserve)
           placed == ScPlaced(out, row)
           j == scJumped'
           c == scLost'
           u == ScFollowed(placed.term, c, j)
<1>1. /\ ScHeight \in ScHeights /\ ScHeight \in Nat \ {0} /\ scTerm \in ScTerms(ScHeight)
      /\ scHw \in Nat /\ scTop \in Nat
      /\ scPrev \in ScContents \/ (scPrev = <<>> /\ ~scLost /\ ScBlankFrom(ScHeight))
      /\ scRunning /\ scPrev # <<>> /\ ~scStale /\ ~scLost => \E s \in Int : ScKnown(ScHeight, s)
  BY ScHoldsIs
<1>2. /\ scJumped' = (scJumped \/ out.top < scTop \/ ScSkips(lines))
      /\ scLost' = ((scLost /\ ~scStale) \/ (row # -1 /\ row < out.top))
      /\ scTerm' = u /\ scHw' = placed.hw /\ scTop' = out.top /\ scPrev' = lines /\ scStale' = FALSE
  BY DEF ScDoRender
<1>3. ASSUME scPrev = <<>> PROVE ~scLost /\ ScBlankFrom(ScHeight)
  <2>1. scPrev \notin ScContents
    BY <1>3 DEF ScAssumption
  <2> QED BY <1>1, <2>1
<1> HIDE DEF out
<1>4. out \in ScOuts(ScHeight)
  <2>1. CASE scPrev = <<>>
    <3>1. ScBlankFrom(ScHeight)
      BY <1>3, <2>1
    <3>2. ScShown(out, ScHeight, lines, FALSE)
      BY <1>1, <3>1, RenderedIs DEF out
    <3> QED BY <3>2 DEF ScShown
  <2>2. CASE scPrev # <<>>
    <3>1. scPrev \in ScContents
      BY <1>1, <2>2
    <3> QED BY <1>1, <3>1, RenderedTyped DEF out
  <2> QED BY <2>1, <2>2
<1>5. /\ placed \in ScOuts(ScHeight)
      /\ \A rolled : ScShown(out, ScHeight, lines, rolled) /\ (row = -1 \/ row >= out.top)
             => \E s \in Int : ScShows(placed.term, ScHeight, s, lines, placed.hw, out.top, rolled)
  BY <1>1, <1>4, PlacedIs
<1>6. placed.term \in ScTerms(ScHeight) /\ placed.hw \in Nat /\ out.top \in Nat
  BY <1>4, <1>5 DEF ScOuts
<1> HIDE DEF placed
<1>7. /\ u \in ScTerms(ScHeight)
      /\ \A s, hw, top : ~c /\ ScShows(placed.term, ScHeight, s, lines, hw, top, ~j)
             => ScShows(u, ScHeight, s, lines, hw, top, ~j)
  <2> HIDE DEF c, j
  <2>1. /\ ScFollowed(placed.term, c, j) \in ScTerms(ScHeight)
        /\ \A s, ls, hw, top : ~c /\ ScShows(placed.term, ScHeight, s, ls, hw, top, ~j)
               => ScShows(ScFollowed(placed.term, c, j), ScHeight, s, ls, hw, top, ~j)
    <3> HIDE DEF ScFollowed, ScShows
    <3> DEFINE h == ScHeight
               t == placed.term
    <3>1. h \in Nat \ {0} /\ t \in ScTerms(h)
      BY <1>1, <1>6
    <3>2. c \in BOOLEAN /\ j \in BOOLEAN
      BY <1>2 DEF c, j
    <3> HIDE DEF h, t
    <3>3. /\ ScFollowed(t, c, j) \in ScTerms(h)
          /\ \A s, ls, hw, top : ~c /\ ScShows(t, h, s, ls, hw, top, ~j)
                 => ScShows(ScFollowed(t, c, j), h, s, ls, hw, top, ~j)
      BY <3>1, <3>2, FollowedIs
    <3> QED BY <3>3 DEF h, t
  <2> QED BY <2>1
<1> HIDE DEF u
<1>8. Len(u.rows) = ScHeight
  BY <1>1, <1>7, TermIs DEF ScAsIs
<1>9. ScHeight' = ScHeight
  BY <1>2, <1>8 DEF ScHeight
<1>10. ASSUME ~c PROVE \E s \in Int : ScShows(u, ScHeight, s, lines, placed.hw, out.top, ~j)
  <2>1. (scStale \/ ~scLost) /\ (row = -1 \/ ~(row < out.top))
    BY <1>2, <1>10
  <2>2. row = -1 \/ row >= out.top
    <3>1. row \in Int
      BY ContentsAre DEF ScMarkers, ScMax
    <3> QED BY <1>6, <2>1, <3>1
  <2>3. scStale \/ ScBlankFrom(ScHeight) \/ \E s \in Int : ScKnown(ScHeight, s)
    BY <1>1, <1>3, <2>1
  <2>4. ~j => ~scJumped /\ ~(out.top < scTop) /\ ~ScSkips(lines)
    BY <1>2
  <2>5. ScShown(out, ScHeight, lines, ~j)
    <3> DEFINE rolled == ~j
    <3>1. rolled => ~scJumped /\ ~(out.top < scTop) /\ ~ScSkips(lines)
      BY <2>4
    <3> HIDE DEF rolled, j
    <3>2. \/ scStale
          \/ ScBlankFrom(ScHeight)
          \/ \E s : ScKnown(ScHeight, s)
      BY <2>3
    <3>3. ScShown(out, ScHeight, lines, rolled)
      BY <1>1, <3>1, <3>2, RenderedIs DEF out
    <3> QED BY <3>3 DEF rolled
  <2> HIDE DEF j, c
  <2>6. PICK s \in Int : ScShows(placed.term, ScHeight, s, lines, placed.hw, out.top, ~j)
    BY <1>5, <2>2, <2>5
  <2>7. ScShows(u, ScHeight, s, lines, placed.hw, out.top, ~j)
    BY <1>7, <1>10, <2>6
  <2> QED BY <2>7
<1>11. lines # <<>>
  BY DEF ScAssumption
<1>12. \A running : ScHolds(ScHeight, u, lines, placed.hw, out.top, FALSE, running, c, j)
  <2> HIDE DEF c, j
  <2> QED BY <1>1, <1>6, <1>7, <1>10, <1>11 DEF ScHolds
<1>13. ScHolds(ScHeight, u, lines, placed.hw, out.top, FALSE, scRunning', c, j)
  BY <1>12
<1> QED BY <1>2, <1>9, <1>13 DEF ScIs

(* requestRender(true), and the way to the alternate screen. *)
LEMMA ForceIs ==
    ASSUME ScAssumption, ScIs, scRunning, UNCHANGED <<scTerm, scPrev, scTop, scRunning, scLost, scJumped>>,
           \/ scStale' = TRUE /\ scHw' = 0
           \/ UNCHANGED <<scHw, scStale>>
    PROVE  ScIs'
<1>1. ScHolds(ScHeight, scTerm, scPrev, scHw, scTop, scStale, scRunning, scLost, scJumped)
  BY DEF ScIs
<1>2. ScHeight' = ScHeight
  BY DEF ScHeight
<1>3. CASE scStale' = TRUE /\ scHw' = 0
  <2>1. ScHolds(ScHeight, scTerm, scPrev, 0, scTop, TRUE, scRunning, scLost, scJumped)
    BY <1>1 DEF ScHolds
  <2> QED BY <1>2, <1>3, <2>1 DEF ScIs
<1>4. CASE UNCHANGED <<scHw, scStale>>
  BY <1>1, <1>2, <1>4 DEF ScIs
<1> QED BY <1>3, <1>4

LEMMA ResizeIs ==
    ASSUME ScAssumption, ScIs, NEW h \in ScHeights, NEW noticed \in BOOLEAN, ScResize(h, noticed)
    PROVE  ScIs'
<1> DEFINE junk == [i \in 1 .. h |-> ScJunk]
<1>1. /\ scPrev \in ScContents \cup {<<>>} /\ scHw \in Nat /\ scTop \in Nat
  BY DEF ScIs, ScHolds
<1>2. h \in Nat \ {0}
  BY DEF ScAssumption
<1>3. junk \in Seq(ScInk) /\ Len(junk) = h
  <2>1. \A i \in 1 .. h : ScJunk \in ScInk
    BY DEF ScInk
  <2> QED BY <1>2, <2>1, IsASeq
<1> HIDE DEF junk
<1>4. PICK at \in 0 .. h - 1 : scTerm' = [rows |-> junk, at |-> at, above |-> <<>>]
  BY DEF ScResize, junk
<1>5. scTerm' \in ScTerms(h) /\ Len(scTerm'.rows) = h
  <2>1. <<>> \in Seq(ScInk)
    BY EmptySeq
  <2> QED BY <1>2, <1>3, <1>4, <2>1 DEF ScTerms
<1>6. scPrev # <<>> /\ (scStale' \/ scLost') /\ UNCHANGED <<scPrev, scHw, scTop>>
  BY DEF ScResize
<1>7. ScHeight' = h
  BY <1>5 DEF ScHeight
<1> DEFINE u == scTerm'
<1>8. u \in ScTerms(h)
  BY <1>5
<1> HIDE DEF u
<1>9. \A running, stale, lost, jumped :
          stale \/ lost => ScHolds(h, u, scPrev, scHw, scTop, stale, running, lost, jumped)
  BY <1>1, <1>6, <1>8 DEF ScHolds
<1>10. ScHolds(h, u, scPrev, scHw, scTop, scStale', scRunning', scLost', scJumped')
  BY <1>6, <1>9
<1> QED BY <1>6, <1>7, <1>10 DEF ScIs, u

LEMMA StopIs ==
    ASSUME ScAssumption, ScIs, ScStop
    PROVE  ScIs' /\ StopBelow'
<1>1. /\ ScHeight \in ScHeights /\ ScHeight \in Nat \ {0} /\ scTerm \in ScTerms(ScHeight)
      /\ scHw \in Nat /\ scTop \in Nat
      /\ scRunning /\ scPrev # <<>> /\ ~scStale /\ ~scLost => \E s \in Int : ScKnown(ScHeight, s)
  BY ScHoldsIs
<1>2. scPrev \in ScContents
  <2>1. scPrev \in ScContents \cup {<<>>}
    BY DEF ScIs, ScHolds
  <2> QED BY <2>1 DEF ScStop
<1>3. /\ scRunning /\ scPrev # <<>> /\ scRunning' = FALSE /\ scTerm' = ScEnd
      /\ scPrev' = scPrev /\ scHw' = scHw /\ scTop' = scTop /\ scStale' = scStale
      /\ scLost' = scLost /\ scJumped' = scJumped
  BY DEF ScStop
<1>4. ScEnd \in ScTerms(ScHeight)
  <2>1. Len(scPrev) - scHw \in Int
    BY <1>1, <1>2, ContentsAre
  <2>2. ScMove(scTerm, Len(scPrev) - scHw) \in ScTerms(ScHeight)
    BY <1>1, <2>1, MoveIs
  <2> QED BY <1>1, <2>2, ReturnIs DEF ScEnd
<1> HIDE DEF ScEnd
<1>5. Len(ScEnd.rows) = ScHeight
  BY <1>1, <1>4, TermIs DEF ScAsIs
<1>6. ScHeight' = ScHeight
  BY <1>3, <1>5 DEF ScHeight
<1>7. ScIs'
  <2>1. \A clamped, jumped, stale : ScHolds(ScHeight, ScEnd, scPrev, scHw, scTop, stale, FALSE, clamped, jumped)
    BY <1>1, <1>2, <1>3, <1>4 DEF ScHolds
  <2>2. ScHolds(ScHeight, ScEnd, scPrev, scHw, scTop, scStale, FALSE, scLost, scJumped)
    BY <2>1
  <2> QED BY <1>3, <1>6, <2>2 DEF ScIs
<1>8. ASSUME ~scStale, ~scLost
      PROVE  /\ \A i \in ScEnd.at + 1 .. ScHeight : ScEnd.rows[i] = ScBlank
             /\ Len(scPrev) > scTop + 1 => \E i \in 1 .. ScEnd.at : ScEnd.rows[i] = scPrev[Len(scPrev)]
  <2>1. PICK s \in Int : ScKnown(ScHeight, s)
    BY <1>1, <1>3, <1>8
  <2> QED BY <1>1, <2>1, ScEndIs
<1>9. StopBelow'
  <2>1. ASSUME (~scStale)', (~scLost)'
        PROVE  /\ \A i \in (scTerm.at)' + 1 .. ScHeight' : (scTerm.rows)'[i] = ScBlank
               /\ Len(scPrev') > scTop' + 1 => \E i \in 1 .. (scTerm.at)' : (scTerm.rows)'[i] = scPrev'[Len(scPrev')]
    <3>1. (scTerm.at)' = ScEnd.at /\ (scTerm.rows)' = ScEnd.rows
      BY <1>3
    <3> QED BY <1>3, <1>6, <1>8, <2>1, <3>1
  <2> QED BY <2>1 DEF StopBelow
<1> QED BY <1>7, <1>9

LEMMA ScStarts ==
    ASSUME ScAssumption, ScInit
    PROVE  ScIInv
<1>1. PICK h \in ScHeights : \E at \in 0 .. h - 1 :
           scTerm = [rows |-> [i \in 1 .. h |-> IF i <= at THEN ScJunk ELSE ScBlank], at |-> at, above |-> <<>>]
  BY DEF ScInit
<1>2. PICK at \in 0 .. h - 1 :
           scTerm = [rows |-> [i \in 1 .. h |-> IF i <= at THEN ScJunk ELSE ScBlank], at |-> at, above |-> <<>>]
  BY <1>1
<1> DEFINE rows == [i \in 1 .. h |-> IF i <= at THEN ScJunk ELSE ScBlank]
<1>3. h \in Nat \ {0} /\ at \in Nat
  BY DEF ScAssumption
<1>4. rows \in Seq(ScInk) /\ Len(rows) = h
  <2>1. \A i \in 1 .. h : (IF i <= at THEN ScJunk ELSE ScBlank) \in ScInk
    BY DEF ScInk
  <2> QED BY <1>3, <2>1, IsASeq
<1>5. \A i \in at + 1 .. h : rows[i] = ScBlank
  BY <1>3
<1>6. scTerm.rows = rows /\ scTerm.at = at /\ scTerm = [rows |-> rows, at |-> at, above |-> <<>>]
  BY <1>2
<1> HIDE DEF rows
<1>7. scTerm \in ScTerms(h)
  <2>1. <<>> \in Seq(ScInk)
    BY EmptySeq
  <2> QED BY <1>4, <1>6, <2>1 DEF ScTerms
<1>8. ScHeight = h
  BY <1>4, <1>6 DEF ScHeight
<1>9. \A i \in scTerm.at + 1 .. h : scTerm.rows[i] = ScBlank
  BY <1>5, <1>6
<1>10. ScHolds(h, scTerm, <<>>, 0, 0, FALSE, TRUE, FALSE, FALSE)
  BY <1>7, <1>9 DEF ScHolds
<1>11. scRunning = TRUE
  BY DEF ScInit
<1> QED BY <1>8, <1>10, <1>11 DEF ScInit, ScIInv, ScIs, StopBelow

LEMMA ScMovesOn ==
    ASSUME ScAssumption, ScIInv, [ScNext]_scVars
    PROVE  ScIInv'
<1>1. ScIs /\ StopBelow
  BY DEF ScIInv
<1>2. ASSUME NEW lines \in ScContents, NEW preserve \in BOOLEAN, NEW row \in ScMarkers(lines), ScRender(lines, row, preserve)
      PROVE  ScIInv'
  <2>1. scRunning /\ scRunning' /\ ScDoRender(lines, row, preserve)
    BY <1>2 DEF ScRender
  <2>2. ScIs'
    BY <1>1, <2>1, DoRenderIs
  <2> QED BY <2>1, <2>2 DEF ScIInv, StopBelow
<1>3. ASSUME NEW lines \in ScContents, NEW preserve \in BOOLEAN, NEW row \in ScMarkers(lines), ScExitFullscreen(lines, row, preserve)
      PROVE  ScIInv'
  <2>1. scRunning /\ scRunning' /\ ScDoRender(lines, row, preserve)
    BY <1>3 DEF ScExitFullscreen
  <2>2. ScIs'
    BY <1>1, <2>1, DoRenderIs
  <2> QED BY <2>1, <2>2 DEF ScIInv, StopBelow
<1>4. ASSUME NEW h \in ScHeights, NEW noticed \in BOOLEAN, ScResize(h, noticed)
      PROVE  ScIInv'
  <2>1. scRunning'
    BY <1>4 DEF ScResize
  <2>2. ScIs'
    BY <1>1, <1>4, ResizeIs
  <2> QED BY <2>1, <2>2 DEF ScIInv, StopBelow
<1>5. CASE ScForce
  <2>1. scRunning /\ scRunning' /\ UNCHANGED <<scTerm, scPrev, scTop, scRunning, scLost, scJumped>> /\ scStale' = TRUE /\ scHw' = 0
    BY <1>5 DEF ScForce
  <2>2. ScIs'
    BY <1>1, <2>1, ForceIs
  <2> QED BY <2>1, <2>2 DEF ScIInv, StopBelow
<1>6. CASE ScEnterFullscreen
  <2>1. scRunning /\ scRunning' /\ UNCHANGED <<scTerm, scPrev, scTop, scRunning, scLost, scJumped>> /\ UNCHANGED <<scHw, scStale>>
    BY <1>6 DEF ScEnterFullscreen
  <2>2. ScIs'
    BY <1>1, <2>1, ForceIs
  <2> QED BY <2>1, <2>2 DEF ScIInv, StopBelow
<1>7. CASE ScStop
  BY <1>1, <1>7, StopIs DEF ScIInv
<1>8. CASE UNCHANGED scVars
  BY <1>1, <1>8 DEF scVars, ScIInv, ScIs, StopBelow, ScHeight
<1> QED BY <1>2, <1>3, <1>4, <1>5, <1>6, <1>7, <1>8 DEF ScNext

LEMMA ScIsSafe ==
    ASSUME ScAssumption, ScIInv
    PROVE  ScreenSafe
<1>1. /\ ScHeight \in ScHeights /\ ScHeight \in Nat \ {0} /\ scTerm \in ScTerms(ScHeight)
      /\ scHw \in Nat /\ scTop \in Nat
      /\ scPrev \in ScContents \/ (scPrev = <<>> /\ ~scLost /\ ScBlankFrom(ScHeight))
      /\ scRunning /\ scPrev # <<>> /\ ~scStale /\ ~scLost => \E s \in Int : ScKnown(ScHeight, s)
  BY ScHoldsIs DEF ScIInv
<1>2. scTerm.at \in 0 .. ScHeight - 1 /\ Len(scTerm.rows) = ScHeight
  BY <1>1, TermIs DEF ScAsIs
<1>3. ScTypeOK
  <2> HIDE DEF ScHeight
  <2> QED BY <1>1, <1>2 DEF ScTypeOK
<1>4. ASSUME ScSettled
      PROVE  \E s \in Int :
                 /\ s <= scTop /\ (scTop = 0 \/ scTop = s) /\ scTop < Len(scPrev) /\ Len(scPrev) \in Nat
                 /\ ScOffset = scTop - s
                 /\ \A i \in 1 .. ScHeight : s + i - 1 >= 0 => scTerm.rows[i] = ScTape(scPrev)[s + i - 1]
                 /\ \A j \in Nat : ScTape(scPrev)[j] = IF j < Len(scPrev) THEN scPrev[j + 1] ELSE ScBlank
                 /\ ~scJumped => ScRolled(scTerm, s, ScTape(scPrev))
  <2>1. PICK s \in Int : ScKnown(ScHeight, s)
    BY <1>1, <1>4 DEF ScSettled
  <2> DEFINE h == ScHeight
  <2>2. h \in Nat \ {0} /\ ScKnown(h, s)
    BY <1>1, <2>1
  <2> HIDE DEF h
  <2>3. /\ scPrev \in Seq(ScTexts) /\ Len(scPrev) \in Nat
        /\ s <= scTop /\ (scTop = 0 \/ scTop = s) /\ scTop <= scHw /\ scHw <= Len(scPrev) - 1
        /\ scTerm.at = scHw - s /\ ScOn(scTerm, h, s, scHw, ScTape(scPrev), ~scJumped)
    BY <2>2, KnownIs
  <2>4. scTop < Len(scPrev)
    BY <1>1, <2>3
  <2>5. ScOffset = scTop - s
    BY <1>1, <2>3 DEF ScOffset
  <2>6. \A j \in Nat : ScTape(scPrev)[j] = IF j < Len(scPrev) THEN scPrev[j + 1] ELSE ScBlank
    BY <2>3, TapeIs
  <2>7. \A i \in 1 .. h : s + i - 1 >= 0 => scTerm.rows[i] = ScTape(scPrev)[s + i - 1]
    BY <2>3 DEF ScOn, ScPaper
  <2>8. ~scJumped => ScRolled(scTerm, s, ScTape(scPrev))
    BY <2>3, Zenon DEF ScOn
  <2> HIDE DEF ScTape, ScRolled
  <2> QED BY <2>3, <2>4, <2>5, <2>6, <2>7, <2>8 DEF h
<1>5. ScreenShowsLines
  <2> SUFFICES ASSUME ScSettled
               PROVE  /\ ScOffset >= 0
                      /\ scTop > 0 => ScOffset = 0
                      /\ \A i \in 0 .. ScHeight - 1 - ScOffset :
                             scTerm.rows[ScOffset + i + 1] = IF scTop + i < Len(scPrev) THEN scPrev[scTop + i + 1] ELSE ScBlank
    BY DEF ScreenShowsLines
  <2> DEFINE h == ScHeight
             f == ScTape(scPrev)
             o == ScOffset
  <2>1. PICK s \in Int :
            /\ s <= scTop /\ (scTop = 0 \/ scTop = s) /\ scTop < Len(scPrev) /\ Len(scPrev) \in Nat
            /\ o = scTop - s
            /\ \A i \in 1 .. h : s + i - 1 >= 0 => scTerm.rows[i] = f[s + i - 1]
            /\ \A j \in Nat : f[j] = IF j < Len(scPrev) THEN scPrev[j + 1] ELSE ScBlank
    BY <1>4
  <2>2. h \in Nat
    BY <1>1
  <2> HIDE DEF h, f, o
  <2>3. ASSUME NEW i \in 0 .. h - 1 - o
        PROVE  scTerm.rows[o + i + 1] = IF scTop + i < Len(scPrev) THEN scPrev[scTop + i + 1] ELSE ScBlank
    <3>1. o + i + 1 \in 1 .. h /\ s + (o + i + 1) - 1 = scTop + i /\ scTop + i \in Nat
      BY <1>1, <2>1, <2>2
    <3>2. scTerm.rows[o + i + 1] = f[scTop + i]
      <4> DEFINE p == o + i + 1
      <4>1. p \in 1 .. h /\ s + p - 1 = scTop + i /\ s + p - 1 >= 0
        BY <3>1
      <4> HIDE DEF p
      <4>2. scTerm.rows[p] = f[s + p - 1]
        BY <2>1, <4>1
      <4> QED BY <4>1, <4>2 DEF p
    <3> QED BY <2>1, <3>1, <3>2
  <2>4. o >= 0 /\ (scTop > 0 => o = 0)
    BY <1>1, <2>1
  <2> QED BY <2>3, <2>4 DEF h, o
<1>6. ScrollbackKeeps
  <2> SUFFICES ASSUME ScSettled, ~scJumped, NEW i \in 1 .. ScMin(ScKept, scTop)
               PROVE  i <= Len(scTerm.above) /\ scTerm.above[Len(scTerm.above) + 1 - i] = scPrev[scTop + 1 - i]
    BY DEF ScrollbackKeeps
  <2> DEFINE f == ScTape(scPrev)
  <2>1. PICK s \in Int :
            /\ scTop = 0 \/ scTop = s
            /\ scTop < Len(scPrev) /\ Len(scPrev) \in Nat
            /\ \A j \in Nat : f[j] = IF j < Len(scPrev) THEN scPrev[j + 1] ELSE ScBlank
            /\ ScRolled(scTerm, s, f)
    BY <1>4
  <2>2. i \in 1 .. ScKept /\ i \in Nat /\ i <= scTop /\ i >= 1
    BY <1>1 DEF ScMin, ScAssumption
  <2>3. s = scTop
    BY <1>1, <2>1, <2>2
  <2> HIDE DEF f
  <2>4. i <= Len(scTerm.above) /\ scTerm.above[Len(scTerm.above) + 1 - i] = f[s - i]
    BY <2>1, <2>2, <2>3 DEF ScRolled
  <2>5. s - i \in Nat /\ s - i < Len(scPrev) /\ (s - i) + 1 = scTop + 1 - i
    BY <1>1, <2>1, <2>2, <2>3
  <2>6. f[s - i] = scPrev[(s - i) + 1]
    BY <2>1, <2>5
  <2> QED BY <2>4, <2>5, <2>6
<1> QED BY <1>3, <1>5, <1>6 DEF ScreenSafe, ScIInv

(* However little each render of doRender() rewrites: a screen that is known shows exactly the lines
   from previousViewportTop on, while nothing above the window changes the scrollback has the lines
   before them, and after stop() the shell's row is a blank one below them.                        *)
THEOREM ScreenIsShown == ScSpec => []ScreenSafe
<1>1. ScInit => ScIInv
  BY ScAssumption, ScStarts
<1>2. ScIInv /\ [ScNext]_scVars => ScIInv'
  BY ScAssumption, ScMovesOn
<1>3. ScIInv => ScreenSafe
  BY ScAssumption, ScIsSafe
<1> QED BY <1>1, <1>2, <1>3, PTL DEF ScSpec

=============================================================================
