SPECIFICATION Spec
CONSTANTS
    BotEvents = {"e1", "e2", "e3", "e4"}
    BotSessionOf <- Conversation
    BotDenied = {"e4"}
    BotUnrouted = {"e3"}
    BotRestricted = {}
    BotSlots = {1, 2}
    BotMaxDeliveries = 3
    BotMaxCrashes = 1
    RouteTargets = {"t1", "t2"}
    RouteMaxConnections = 4
    EdTexts <- Words
    EdRings <- Ring
    EdHistories <- Prompts
    EdMaxSteps = 4
    EdMaxCells = 5
    EdMaxPastes = 2
    LayTexts <- Pages
    LayWidths = {2, 3, 7}
    LayRows = 2
    CpChars = {"/", "@", "a", " "}
    CpTexts <- Commands
    CpMaxLength = 4
    CpMaxSteps = 4
    SbBytes <- Bytes
    SbStreams <- Streams
    TtyTerminals = {"A", "B"}
    TtyMaxStarts = 3
    ScTexts <- Said
    ScContents <- Screens
    ScHeights = {2, 3}
    ScKept = 3
    ScMaxResizes = 1
    OvEditor = "editor"
    OvDialogs = {"settings", "login", "apikey", "r1", "r2", "hint"}
    OvPassive = {"hint"}
    OvWide = {"apikey"}
    RsRuns = {"r1", "r2"}
    RsMaxSaves = 2
    TvHeights = {4, 5}
    TvDocks = {1}
    TvMaxLines = 6
    TvMaxSteps = 3
    KeyInputs <- Keyboard
    KeyMaxInputs = 1
    LiRings <- InputRings
    LiPastes <- InputPastes
    LiWidths = {1, 2, 3, 4, 5, 6}
    LiMaxSteps = 4
    LiMaxCells = 7
    StTexts <- StyledTexts
    StTokens <- StyledTokens
    StMaxTokens = 5
    StWidths = {2, 3, 5}
    StOverlays <- StyledOverlays
    StEllipses <- Ellipses
    StScreen = 5
    OlOptions <- LayoutOptions
    OlBodies <- LayoutBodies
    OlSizes <- LayoutSizes
    OlContents = {1, 6}
    OlDocks <- LayoutDocks
    OlMaxShown = 2
INVARIANTS
    RouteSafe
    LayoutHolds
    CompletionSafe
    InputWhole
    TerminalSafe
    ScreenSafe
    OverlayFits
    SessionSafe
    KeyCodesHold
    LineInputSafe
    StyledTextHolds
PROPERTIES
    BotAccounts
    EditorKeeps
    TranscriptReads
    PopupFollows
    PendingIsReported
CHECK_DEADLOCK FALSE
