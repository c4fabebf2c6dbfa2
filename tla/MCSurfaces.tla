----------------------------- MODULE MCSurfaces -----------------------------
(* The parts that meet the user and the network, for TLC.  They share no state,
   except the session and its overlays, so that one run takes them in turn:
   `focus` names the part that moves.                                       *)
EXTENDS BotGateway, RouteRegistry, EditorBuffer, EditorLayout, EditorCompletion,
        StdinBuffer, Terminal, ScreenRender, ReplSession, TranscriptView,
        KeyCodes, LineInput, StyledText, OverlayLayout

VARIABLE focus

A == EdCell("a")
Words == {<<A, EdCell(" "), A>>, <<EdCell("."), EdNL>> \o EdImage}
Ring == {<<<<A, EdNL>>, <<EdNL, EdCell(".")>>>>}
Prompts == {<<<<A, A>>, <<EdCell(".")>> \o EdImage>>}

(* Lines that wrap at words and at wide characters, and lines with markers. *)
Blank == <<<<>>>>
Pages == {Blank,
          << <<"a","a"," ","a","a","a"," ","W","a">>, <<"a">>, <<"a"," "," ","W","a">> >>,
          << <<"a","a","[","m","m","m","]","a"," ","a">>, <<>>, <<"a","[","m","m","m","]","[","m","m","m","]","a">> >>,
          << <<"a","[","m","m","m","]","a">>, <<"a"," ","a">> >>}
Commands == {<<"a", "/">>}

(* Two messages of one session and one of another. *)
Conversation == [e \in BotEvents |-> IF e = "e3" THEN "s2" ELSE "s1"]

(* What a terminal sends: keys, mouse reports, answers and pastes, in every chunking. *)
Quiet == <<"a">>
Bytes == {"E", "[", "]", "O", "P", "_", "<", "M", "~", "u", "\\", "^G", "1", "2", "9", "a"}
Streams ==
    { Quiet,
      <<"a","E","[","2","~","a","E","[","M","E","[","1","~","E","O","P">>,
      <<"E","[","9","u","a","E","[","2","~","a","E","[","1","~","a","E">>,
      <<"E","[","<","1","M","E","]","1","E","\\","E","a","E","[","M","a","a","a">>,
      <<"E","E","[","2","~","a","E","[","1","~","a">>,
      <<"E","[","9","u","E","[","2","~","E","[","1","~","a">>,
      <<"E","P","a","^G","E","\\","E","]","^G","E","_","E","\\","E","[","2","~","a">>}

(* A screen that grows, shrinks and changes a line above or in the window. *)
Draft == <<"a", "b", "c", "d", "e">>
Said == {"a", "b", "c", "d", "e", "x"}
Screens == {SubSeq(Draft, 1, n) : n \in 1 .. 5} \cup {[SubSeq(Draft, 1, n) EXCEPT ![i] = "x"] : n \in {5}, i \in 1 .. 3}

(* Every character, alone and after ESC, every legacy sequence, and every kind of key,
   with and without modifiers and locks, in the Kitty protocol and modifyOtherKeys. *)
Typed == {9, 13, 27, 32, 43, 45, 49, 57, 65, 91, 93, 97, 99, 107, 127, 1089, 57376, 57399, 57413, 57414, 57417, 57426, 65581}
Held == {{}, {"shift"}, {"ctrl"}, {"alt"}, {"ctrl", "alt"}, {"shift", "ctrl"}, {"shift", "caps"}, {"num"}, {"super"}, {"super", "num"}, {"hyper"}}
Events == {"press", "release"}
Keyboard ==
    {KeyChar(c) : c \in 0 .. 127} \cup {KeyMeta(c) : c \in 0 .. 127}
        \cup KeyTexts({"[A", "[B", "[C", "[D", "[H", "[F", "[Z", "OM"}) \cup {row[1] : row \in KeyLegacyIds}
        \cup KeyTildes(1 .. 24)
        \cup {KeyTilde(n, mods, e) : n \in {2, 3, 5, 7, 15}, mods \in Held \ {{}}, e \in Events}
        \cup {KeyFinal(f, mods, e) : f \in {"A", "D", "F", "H", "P"}, mods \in Held \ {{}}, e \in Events}
        \cup {KeyCsiU(c, 0, 0, mods, e) : c \in Typed, mods \in Held, e \in Events}
        \cup {KeyCsiU(c, 0, b, mods, "press") : c \in {1089, 49, 47, 107}, b \in {99, 118}, mods \in Held}
        \cup {KeyCsiU(97, 65, 0, mods, e) : mods \in Held, e \in Events}
        \cup {KeyOther(c, mods) : c \in Typed, mods \in Held}
        \cup {KeyPasted("release")}

(* Kill rings and pastes of the line input. *)
InputRings == {<<<<"a", " ">>, <<".">>>>}
InputPastes == {<<"W", "nl", "tab", "a">>, <<"a", " ", "W", "W", "a", ".">>}

(* Styled and linked texts, wide cells and line feeds. *)
StyledTexts == {<<"red", "W">>, <<"underline", "a">>, <<"link", "a", "W">>, <<"a", " ", "W">>,
                <<"link", "a", "a", "a", "a", " ", "a", "close">>,
                <<"bold", "dim", "a", "normal", " ", "a", "a", "green", "W">>}
StyledTokens == {"a", "W", " ", "nl", "red", "underline", "reset", "link", "normal"}
StyledOverlays ==
    {[text |-> <<"green", "a", "W", "no color", "a">>, width |-> 3],
     [text |-> <<"link", "a">>, width |-> 2], [text |-> <<"W">>, width |-> 1]}
Ellipses == {<<>>, <<".">>, <<".", ".", ".">>}

(* The dialog, the popup of completions, and overlays by anchor, percentage and cell. *)
LayoutOptions == {
    [OlDefault EXCEPT !.width = OlPercent(80), !.maxHeight = OlCells(3)],
    [OlDefault EXCEPT !.width = OlPercent(100), !.above = TRUE, !.offsetY = -1, !.passive = TRUE],
    [OlDefault EXCEPT !.width = OlCells(2), !.minWidth = 3, !.anchor = <<"bottom", "right">>, !.margin = [top |-> 1, right |-> 1, bottom |-> 1, left |-> 0], !.offsetX = 2, !.offsetY = 1],
    [OlDefault EXCEPT !.width = OlCells(3), !.row = OlPercent(50), !.col = OlPercent(100), !.passive = TRUE],
    [OlDefault EXCEPT !.width = OlCells(4), !.row = OlCells(2), !.col = OlCells(1), !.scrollback = TRUE]}
LayoutDocks == {<<>>, <<<<1, 4>>, <<0, 0>>, <<2, 5>>>>}
LayoutSizes == {<<5, 4>>, <<3, 6>>}
LayoutBodies == {<<TRUE>>, <<FALSE, TRUE, TRUE, FALSE>>, <<TRUE, FALSE, TRUE, TRUE, TRUE, FALSE>>}

(* A lost connection differs from one that stands in its name only, so that it is
   taken before the first delivery.                                        *)
BotsNext == BotNext /\ (botLink'.state = "failed" => botDeliveries' = 0)

(* Overlays that show and hide in any order, one of them passive and one that hides
   when narrow, whose handle may be used when it has been removed.         *)
OverlaysNext ==
    /\ OvNext
    /\ ovKept' # {} => Len(ovStack') <= 1
    /\ OvShown' \subseteq {"login", "apikey", IF ovKept' = {} THEN "hint" ELSE "login"}
    /\ \A e \in ovKept' : e.component = "apikey"

screenVars == <<botVars, routeVars, edVars, layVars, cpVars, sbVars, ttyVars, scVars, ovVars, rsVars, tvVars>>
textVars == <<keyVars, liVars, stVars, olVars>>
On(part, next, others) == focus = part /\ next /\ UNCHANGED <<focus, others>>

Init ==
    /\ focus \in {"bots", "routes", "buffer", "layout", "completion", "stdin", "terminal", "screen", "overlays", "session", "transcript",
                 "keys", "input", "styled", "placing"}
    /\ BotInit /\ RouteInit /\ EdInit /\ CpInit /\ TtyInit /\ RsInit
    /\ LayInit /\ (focus # "layout" => layLines = Blank /\ layWidth = 7)
    /\ SbInit /\ (focus # "stdin" => sbStream = Quiet)
    /\ ScInit /\ (focus # "screen" => Len(scTerm.rows) = 2 /\ scTerm.at = 0)
    /\ TvInit /\ (focus # "transcript" => tvText = <<>> /\ tvHeight = 4 /\ tvDock = 1)
    /\ KeyInit /\ (focus # "keys" => keyWindows = FALSE)
    /\ LiInit
    /\ StInit /\ (focus # "styled" => stText = <<"red", "W">>)
    /\ OlInit /\ (focus # "placing" => olTerm = <<5, 4>> /\ olLines = 1)

Next ==
    \/ On("bots", BotsNext, <<routeVars, edVars, layVars, cpVars, sbVars, ttyVars, scVars, ovVars, rsVars, tvVars, textVars>>)
    \/ On("routes", RouteNext, <<botVars, edVars, layVars, cpVars, sbVars, ttyVars, scVars, ovVars, rsVars, tvVars, textVars>>)
    \/ On("buffer", EdNext, <<botVars, routeVars, layVars, cpVars, sbVars, ttyVars, scVars, ovVars, rsVars, tvVars, textVars>>)
    \/ On("layout", LayNext, <<botVars, routeVars, edVars, cpVars, sbVars, ttyVars, scVars, ovVars, rsVars, tvVars, textVars>>)
    \/ On("completion", CpNext, <<botVars, routeVars, edVars, layVars, sbVars, ttyVars, scVars, ovVars, rsVars, tvVars, textVars>>)
    \/ On("stdin", SbNext, <<botVars, routeVars, edVars, layVars, cpVars, ttyVars, scVars, ovVars, rsVars, tvVars, textVars>>)
    \/ On("terminal", TtyNext, <<botVars, routeVars, edVars, layVars, cpVars, sbVars, scVars, ovVars, rsVars, tvVars, textVars>>)
    \/ On("screen", ScNext, <<botVars, routeVars, edVars, layVars, cpVars, sbVars, ttyVars, ovVars, rsVars, tvVars, textVars>>)
    \/ On("overlays", OverlaysNext, <<botVars, routeVars, edVars, layVars, cpVars, sbVars, ttyVars, scVars, rsVars, tvVars, textVars>>)
    \/ On("session", RsNext, <<botVars, routeVars, edVars, layVars, cpVars, sbVars, ttyVars, scVars, tvVars, textVars>>)
    \/ On("transcript", TvNext, <<botVars, routeVars, edVars, layVars, cpVars, sbVars, ttyVars, scVars, ovVars, rsVars, textVars>>)
    \/ On("keys", KeyNext, <<screenVars, liVars, stVars, olVars>>)
    \/ On("input", LiNext, <<screenVars, keyVars, stVars, olVars>>)
    \/ On("styled", StNext, <<screenVars, keyVars, liVars, olVars>>)
    \/ On("placing", OlNext, <<screenVars, keyVars, liVars, stVars>>)

vars == <<focus, screenVars, textVars>>

Spec == Init /\ [][Next]_vars /\ CpFairness /\ SbFairness

(* A part at rest is as it began: these are looked at while their part moves. *)
Moving(part, property) == focus = part => property

(* The lines of the editor and the cursor in them: see LayoutSafe. *)
LayoutHolds == Moving("layout", LayoutSafe)

(* Styled text wrapped, truncated, overlaid and selected: see TextSafe. *)
StyledTextHolds == Moving("styled", TextSafe)

(* The same key read from every encoding of it: see KeySafe. *)
KeyCodesHold == Moving("keys", KeySafe)
=============================================================================
