------------------------------ MODULE KeyCodes ------------------------------
(***************************************************************************)
(* What a sequence from the terminal means (keys.ts of packages/tui): the  *)
(* key it names (parseKey), the key identifiers it matches (matchesKey),   *)
(* the character it types (decodePrintableKey), whether it is a release,   *)
(* and the command of the line input it runs (keybindings.ts).  Four       *)
(* encodings meet here: plain characters, the legacy escape sequences, the *)
(* Kitty protocol and xterm's modifyOtherKeys.                             *)
(*                                                                         *)
(* A sequence is a record of what its bytes say.  A key is a code point,   *)
(* negative where the key has none, as in the code; a modifier mask is the *)
(* set of its bits.                                                        *)
(***************************************************************************)
EXTENDS Integers, FiniteSets

CONSTANTS
    KeyInputs,       \* sequences the terminal sends
    KeyMaxInputs     \* bound: sequences handled

VARIABLES
    keyData,         \* the sequence being handled
    keyKitty,        \* _kittyProtocolActive
    keyWindows,      \* isWindowsTerminalSession()
    keyCount         \* sequences handled so far

keyVars == <<keyData, keyKitty, keyWindows, keyCount>>

-----------------------------------------------------------------------------
(* Sequences: a character, ESC and a character, a legacy sequence by its text
   after ESC, CSI n ; mods : event ~, CSI 1 ; mods : event X, CSI ... u, and
   CSI 27 ; mods ; code ~.  0 stands for an alternate key that is absent.  *)
KeyBlank == [form |-> "char", code |-> 0, text |-> "", shifted |-> 0, base |-> 0, mods |-> {}, event |-> "press"]
KeyChar(c) == [KeyBlank EXCEPT !.code = c]
KeyMeta(c) == [KeyChar(c) EXCEPT !.form = "meta"]
KeyLegacy(text) == [KeyBlank EXCEPT !.form = "legacy", !.text = text]
KeyTilde(n, mods, event) == [KeyBlank EXCEPT !.form = "tilde", !.code = n, !.mods = mods, !.event = event]
KeyFinal(final, mods, event) == [KeyBlank EXCEPT !.form = "final", !.text = final, !.mods = mods, !.event = event]
KeyCsiU(c, shifted, base, mods, event) ==
    [form |-> "u", code |-> c, text |-> "", shifted |-> shifted, base |-> base, mods |-> mods, event |-> event]
KeyOther(c, mods) == [KeyBlank EXCEPT !.form = "other", !.code = c, !.mods = mods]
KeyPasted(event) == [KeyBlank EXCEPT !.form = "paste", !.event = event]

(* Keys and key identifiers. *)
KEscape == 27
KTab == 9
KEnter == 13
KSpace == 32
KBackspace == 127
KKeypadEnter == 57414
KUp == -1
KDown == -2
KRight == -3
KLeft == -4
KDelete == -10
KInsert == -11
KPageUp == -12
KPageDown == -13
KHome == -14
KEnd == -15
KClear == -20
KFunction(n) == -30 - n
KeyId(key, mods) == [key |-> key, mods |-> mods]
KeyNone == KeyId(0, {})

KeyLetters == 97 .. 122
KeyCapitals == 65 .. 90
KeyDigits == 48 .. 57
KeySymbols == (33 .. 47 \cup 58 .. 64 \cup 91 .. 96 \cup 123 .. 126) \ {34}
KeyIsSymbol(c) == c % 65536 \in KeySymbols       \* String.fromCharCode keeps 16 bits
KeyLocks == {"caps", "num"}
KeySupported == {"shift", "ctrl", "alt", "super"}

(* The keypad's own codes name the key of the main block. *)
KeyNormal(c) ==
    CASE c \in 57399 .. 57408 -> c - 57351
      [] c = 57409 -> 46   [] c = 57410 -> 47   [] c = 57411 -> 42   [] c = 57412 -> 45
      [] c = 57413 -> 43   [] c = 57415 -> 61   [] c = 57416 -> 44
      [] c = 57417 -> KLeft   [] c = 57418 -> KRight   [] c = 57419 -> KUp   [] c = 57420 -> KDown
      [] c = 57421 -> KPageUp   [] c = 57422 -> KPageDown   [] c = 57423 -> KHome   [] c = 57424 -> KEnd
      [] c = 57425 -> KInsert   [] c = 57426 -> KDelete
      [] OTHER -> c
KeyUnshifted(c, mods) == IF "shift" \in mods /\ c \in KeyCapitals THEN c + 32 ELSE c

(* What older terminals send for a key alone, with Shift and with Ctrl. *)
KeyTexts(texts) == {KeyLegacy(text) : text \in texts}
KeyTildes(ns) == {KeyTilde(n, {}, "press") : n \in ns}
KeyFunctions == {KFunction(n) : n \in 1 .. 12}
KeyLegacyFunction(n) ==
    KeyTildes({<<11, 12, 13, 14, 15, 17, 18, 19, 20, 21, 23, 24>>[n]})
        \cup (IF n <= 4 THEN KeyTexts({<<"OP", "OQ", "OR", "OS">>[n]}) ELSE {})
        \cup (IF n <= 5 THEN KeyTexts({<<"[[A", "[[B", "[[C", "[[D", "[[E">>[n]}) ELSE {})
KeyLegacyPlain(key) ==
    CASE key = KUp -> KeyTexts({"[A", "OA"})     [] key = KDown -> KeyTexts({"[B", "OB"})
      [] key = KRight -> KeyTexts({"[C", "OC"})  [] key = KLeft -> KeyTexts({"[D", "OD"})
      [] key = KHome -> KeyTexts({"[H", "OH"}) \cup KeyTildes({1, 7})
      [] key = KEnd -> KeyTexts({"[F", "OF"}) \cup KeyTildes({4, 8})
      [] key = KInsert -> KeyTildes({2})         [] key = KDelete -> KeyTildes({3})
      [] key = KPageUp -> KeyTildes({5}) \cup KeyTexts({"[[5~"})
      [] key = KPageDown -> KeyTildes({6}) \cup KeyTexts({"[[6~"})
      [] key = KClear -> KeyTexts({"[E", "OE"})
      [] key \in KeyFunctions -> KeyLegacyFunction(-30 - key)
KeyShiftedTexts == <<<<KUp, "[a">>, <<KDown, "[b">>, <<KRight, "[c">>, <<KLeft, "[d">>, <<KClear, "[e">>, <<KInsert, "[2$">>,
                     <<KDelete, "[3$">>, <<KPageUp, "[5$">>, <<KPageDown, "[6$">>, <<KHome, "[7$">>, <<KEnd, "[8$">>>>
KeyCtrlTexts == <<<<KUp, "Oa">>, <<KDown, "Ob">>, <<KRight, "Oc">>, <<KLeft, "Od">>, <<KClear, "Oe">>, <<KInsert, "[2^">>,
                  <<KDelete, "[3^">>, <<KPageUp, "[5^">>, <<KPageDown, "[6^">>, <<KHome, "[7^">>, <<KEnd, "[8^">>>>
KeyRows(rows, mods) == {<<KeyLegacy(rows[i][2]), KeyId(rows[i][1], mods)>> : i \in DOMAIN rows}

(* matchesLegacyModifierSequence() *)
KeyMatchesModified(d, key, mods) ==
    \/ mods = {"shift"} /\ <<d, KeyId(key, mods)>> \in KeyRows(KeyShiftedTexts, {"shift"})
    \/ mods = {"ctrl"} /\ <<d, KeyId(key, mods)>> \in KeyRows(KeyCtrlTexts, {"ctrl"})

-----------------------------------------------------------------------------
(* The Kitty protocol and modifyOtherKeys. *)
KeyRead(c, base, d) == {[code |-> c, base |-> base, mods |-> d.mods, event |-> d.event]}

(* parseKittySequence(): at most one reading. *)
KeyKittyReading(d) ==
    CASE d.form = "u" -> KeyRead(d.code, d.base, d)
      [] d.form = "final" /\ d.text \in {"A", "B", "C", "D", "H", "F"} ->
            KeyRead(CASE d.text = "A" -> KUp [] d.text = "B" -> KDown [] d.text = "C" -> KRight
                      [] d.text = "D" -> KLeft [] d.text = "H" -> KHome [] d.text = "F" -> KEnd, 0, d)
      [] d.form = "tilde" /\ d.code \in {2, 3, 5, 6, 7, 8} ->
            KeyRead(CASE d.code = 2 -> KInsert [] d.code = 3 -> KDelete [] d.code = 5 -> KPageUp
                      [] d.code = 6 -> KPageDown [] d.code = 7 -> KHome [] d.code = 8 -> KEnd, 0, d)
      [] OTHER -> {}

(* matchesKittySequence(): the base layout key counts only when the code point
   is neither a Latin letter nor a symbol.                                 *)
KeyMatchesKitty_AnyBase(d, key, mods) ==
    \E r \in KeyKittyReading(d) :
        /\ r.mods \ KeyLocks = mods \ KeyLocks
        /\ KeyUnshifted(KeyNormal(r.code), r.mods) = KeyUnshifted(KeyNormal(key), mods) \/ (r.base # 0 /\ r.base = key)
KeyMatchesKitty(d, key, mods) ==
    \E r \in KeyKittyReading(d) :
        LET c == KeyUnshifted(KeyNormal(r.code), r.mods)
        IN  /\ r.mods \ KeyLocks = mods \ KeyLocks
            /\ \/ c = KeyUnshifted(KeyNormal(key), mods)
               \/ r.base # 0 /\ r.base = key /\ c \notin KeyLetters /\ ~KeyIsSymbol(c)

KeyMatchesOther(d, key, mods) == d.form = "other" /\ d.code = key /\ d.mods = mods
KeyMatchesTyped(d, key, mods) ==
    /\ mods # {} /\ d.form = "other" /\ d.mods = mods
    /\ KeyUnshifted(d.code, d.mods) = KeyUnshifted(key, mods)
KeyMatchesEither(d, key, mods) == KeyMatchesKitty(d, key, mods) \/ KeyMatchesOther(d, key, mods)

(* matchesRawBackspace(): byte 8 is Ctrl+Backspace in Windows Terminal only. *)
KeyMatchesRawBackspace(d, mods) ==
    \/ d = KeyChar(127) /\ mods = {}
    \/ d = KeyChar(8) /\ mods = IF keyWindows THEN {"ctrl"} ELSE {}

(* rawCtrlChar(): the control characters a key stands for with Ctrl. *)
KeyCtrlChar(key) ==
    IF key \in KeyLetters THEN {key - 96}
    ELSE IF key \in 91 .. 93 THEN {key - 64}
    ELSE IF key \in {95, 45} THEN {31} ELSE {}

-----------------------------------------------------------------------------
(* matchesKey(), key by key. *)
KeyMatchesEscape(d, mods) == mods = {} /\ (d = KeyChar(27) \/ KeyMatchesEither(d, KEscape, {}))
KeyMatchesSpace(d, mods) ==
    \/ ~keyKitty /\ <<d, mods>> \in {<<KeyChar(0), {"ctrl"}>>, <<KeyMeta(32), {"alt"}>>}
    \/ mods = {} /\ d = KeyChar(32)
    \/ KeyMatchesEither(d, KSpace, mods)
KeyMatchesTab(d, mods) ==
    \/ mods = {"shift"} /\ d = KeyLegacy("[Z")
    \/ mods = {} /\ d = KeyChar(9)
    \/ KeyMatchesKitty(d, KTab, mods)
    \/ mods # {} /\ KeyMatchesOther(d, KTab, mods)
KeyMatchesEnter(d, mods) ==
    \/ KeyMatchesKitty(d, KEnter, mods) \/ KeyMatchesKitty(d, KKeypadEnter, mods)
    \/ mods # {} /\ KeyMatchesOther(d, KEnter, mods)
    \/ mods = {"shift"} /\ keyKitty /\ d \in {KeyMeta(13), KeyChar(10)}
    \/ mods = {"alt"} /\ ~keyKitty /\ d = KeyMeta(13)
    \/ mods = {} /\ (d \in {KeyChar(13), KeyLegacy("OM")} \/ (~keyKitty /\ d = KeyChar(10)))
KeyMatchesBackspace(d, mods) ==
    \/ mods = {"alt"} /\ d \in {KeyMeta(127), KeyMeta(8)}
    \/ mods \in {{}, {"ctrl"}} /\ KeyMatchesRawBackspace(d, mods)
    \/ KeyMatchesEither(d, KBackspace, mods)

(* Insert, Delete, Home, End, Page Up and Page Down; the arrows, of which Left
   and Right also know the Meta letters of Emacs; Clear; the function keys. *)
KeyMatchesNamed(d, key, mods) ==
    \/ mods = {} /\ d \in KeyLegacyPlain(key)
    \/ KeyMatchesModified(d, key, mods) \/ KeyMatchesKitty(d, key, mods)
KeyMatchesVertical(d, key, mods) ==
    IF mods = {"alt"}
    THEN \/ d = KeyMeta(IF key = KUp THEN 112 ELSE 110)
         \/ KeyMatchesKitty(d, key, mods)
    ELSE KeyMatchesNamed(d, key, mods)
KeyMatchesHorizontal(d, key, mods) ==
    IF mods = {"alt"}
    THEN \/ d = KeyMeta(IF key = KLeft THEN 98 ELSE 102)
         \/ ~keyKitty /\ d = KeyMeta(IF key = KLeft THEN 66 ELSE 70)
         \/ KeyMatchesKitty(d, key, mods)
    ELSE KeyMatchesNamed(d, key, mods)
KeyMatchesClear(d, mods) == (mods = {} /\ d \in KeyLegacyPlain(KClear)) \/ KeyMatchesModified(d, KClear, mods)
KeyMatchesFunction(d, key, mods) == mods = {} /\ d \in KeyLegacyPlain(key)

(* Letters, digits and symbols. *)
KeyMatchesPrintable(d, key, mods) ==
    \/ mods = {"ctrl", "alt"} /\ ~keyKitty /\ d \in {KeyMeta(c) : c \in KeyCtrlChar(key)}
    \/ mods = {"alt"} /\ ~keyKitty /\ key \in KeyLetters \cup KeyDigits /\ d = KeyMeta(key)
    \/ mods = {"ctrl"} /\ d \in {KeyChar(c) : c \in KeyCtrlChar(key)}
    \/ mods = {"shift"} /\ key \in KeyLetters /\ d = KeyChar(key - 32)
    \/ mods = {} /\ d = KeyChar(key)
    \/ KeyMatchesKitty(d, key, mods) \/ KeyMatchesTyped(d, key, mods)

(* parseKeyId(): lower case, split at "+", so that "+" itself has no key. *)
KeyIdKey(id) == IF id.key \in KeyCapitals THEN id.key + 32 ELSE id.key
KeyMatches(d, id) ==
    LET key == KeyIdKey(id)
    IN  CASE key = KEscape -> KeyMatchesEscape(d, id.mods)
          [] key = KSpace -> KeyMatchesSpace(d, id.mods)
          [] key = KTab -> KeyMatchesTab(d, id.mods)
          [] key = KEnter -> KeyMatchesEnter(d, id.mods)
          [] key = KBackspace -> KeyMatchesBackspace(d, id.mods)
          [] key \in {KInsert, KDelete, KHome, KEnd, KPageUp, KPageDown} -> KeyMatchesNamed(d, key, id.mods)
          [] key \in {KUp, KDown} -> KeyMatchesVertical(d, key, id.mods)
          [] key \in {KLeft, KRight} -> KeyMatchesHorizontal(d, key, id.mods)
          [] key = KClear -> KeyMatchesClear(d, id.mods)
          [] key \in KeyFunctions -> KeyMatchesFunction(d, key, id.mods)
          [] key \in (KeyLetters \cup KeyDigits \cup KeySymbols) \ {43} -> KeyMatchesPrintable(d, key, id.mods)
          [] OTHER -> FALSE

-----------------------------------------------------------------------------
(* parseKey(). *)
KeyKnown == {KEscape, KTab, KEnter, KSpace, KBackspace, KDelete, KInsert, KHome, KEnd, KPageUp, KPageDown, KUp, KDown, KLeft, KRight}

(* formatParsedKey(), formatKeyNameWithModifiers() *)
KeyFormatted(code, mods, base) ==
    LET c == KeyUnshifted(KeyNormal(code), mods)
        used == IF c \in KeyLetters \cup KeyDigits \/ KeyIsSymbol(c) \/ base = 0 THEN c ELSE base
        key == IF used = KKeypadEnter THEN KEnter
               ELSE IF used \in KeyKnown \cup KeyDigits \cup KeyLetters THEN used
               ELSE IF KeyIsSymbol(used) THEN used % 65536 ELSE 0
    IN  IF key = 0 \/ ~(mods \ KeyLocks \subseteq KeySupported) THEN KeyNone ELSE KeyId(key, mods \ KeyLocks)

(* LEGACY_SEQUENCE_KEY_IDS *)
KeyLegacyIds ==
    {<<KeyLegacy("OA"), KeyId(KUp, {})>>, <<KeyLegacy("OB"), KeyId(KDown, {})>>, <<KeyLegacy("OC"), KeyId(KRight, {})>>,
     <<KeyLegacy("OD"), KeyId(KLeft, {})>>, <<KeyLegacy("OH"), KeyId(KHome, {})>>, <<KeyLegacy("OF"), KeyId(KEnd, {})>>,
     <<KeyLegacy("[E"), KeyId(KClear, {})>>, <<KeyLegacy("OE"), KeyId(KClear, {})>>,
     <<KeyLegacy("[[5~"), KeyId(KPageUp, {})>>, <<KeyLegacy("[[6~"), KeyId(KPageDown, {})>>,
     <<KeyMeta(98), KeyId(KLeft, {"alt"})>>, <<KeyMeta(102), KeyId(KRight, {"alt"})>>,
     <<KeyMeta(112), KeyId(KUp, {"alt"})>>, <<KeyMeta(110), KeyId(KDown, {"alt"})>>}
        \cup KeyRows(KeyShiftedTexts, {"shift"}) \cup KeyRows(KeyCtrlTexts, {"ctrl"})
        \cup UNION {{<<d, KeyId(KFunction(n), {})>> : d \in KeyLegacyFunction(n)} : n \in 1 .. 12}

(* The raw characters and sequences parseKey() compares one by one. *)
KeyRawIds ==
    {<<KeyChar(27), KeyId(KEscape, {})>>, <<KeyChar(28), KeyId(92, {"ctrl"})>>, <<KeyChar(29), KeyId(93, {"ctrl"})>>,
     <<KeyChar(31), KeyId(45, {"ctrl"})>>, <<KeyMeta(27), KeyId(91, {"ctrl", "alt"})>>, <<KeyMeta(28), KeyId(92, {"ctrl", "alt"})>>,
     <<KeyMeta(29), KeyId(93, {"ctrl", "alt"})>>, <<KeyMeta(31), KeyId(45, {"ctrl", "alt"})>>,
     <<KeyChar(9), KeyId(KTab, {})>>, <<KeyChar(13), KeyId(KEnter, {})>>, <<KeyLegacy("OM"), KeyId(KEnter, {})>>,
     <<KeyChar(0), KeyId(KSpace, {"ctrl"})>>, <<KeyChar(32), KeyId(KSpace, {})>>, <<KeyChar(127), KeyId(KBackspace, {})>>,
     <<KeyChar(8), KeyId(KBackspace, IF keyWindows THEN {"ctrl"} ELSE {})>>, <<KeyLegacy("[Z"), KeyId(KTab, {"shift"})>>,
     <<KeyMeta(127), KeyId(KBackspace, {"alt"})>>, <<KeyMeta(8), KeyId(KBackspace, {"alt"})>>,
     <<KeyLegacy("[A"), KeyId(KUp, {})>>, <<KeyLegacy("[B"), KeyId(KDown, {})>>, <<KeyLegacy("[C"), KeyId(KRight, {})>>,
     <<KeyLegacy("[D"), KeyId(KLeft, {})>>, <<KeyLegacy("[H"), KeyId(KHome, {})>>, <<KeyLegacy("[F"), KeyId(KEnd, {})>>}
        \cup (IF keyKitty THEN {}
              ELSE {<<KeyChar(10), KeyId(KEnter, {})>>, <<KeyMeta(13), KeyId(KEnter, {"alt"})>>, <<KeyMeta(32), KeyId(KSpace, {"alt"})>>,
                    <<KeyMeta(66), KeyId(KLeft, {"alt"})>>, <<KeyMeta(70), KeyId(KRight, {"alt"})>>})

(* What is left: Meta and Ctrl letters by arithmetic, and the printable characters. *)
KeyByCode(d) ==
    IF d.form = "meta" /\ ~keyKitty /\ d.code \in 1 .. 26 THEN KeyId(d.code + 96, {"ctrl", "alt"})
    ELSE IF d.form = "meta" /\ ~keyKitty /\ d.code \in KeyLetters \cup KeyDigits THEN KeyId(d.code, {"alt"})
    ELSE IF d.form = "char" /\ d.code \in 1 .. 26 THEN KeyId(d.code + 96, {"ctrl"})
    ELSE IF d.form = "char" /\ d.code \in 32 .. 126 THEN KeyId(d.code, {})
    ELSE KeyNone
KeyLookedUp(d, rows, otherwise) == IF \E row \in rows : row[1] = d THEN (CHOOSE row \in rows : row[1] = d)[2] ELSE otherwise
KeyParsed(d) ==
    IF KeyKittyReading(d) # {}
    THEN LET r == CHOOSE r \in KeyKittyReading(d) : TRUE IN KeyFormatted(r.code, r.mods, r.base)
    ELSE IF d.form = "other" THEN KeyFormatted(d.code, d.mods, 0)
    ELSE IF keyKitty /\ d \in {KeyMeta(13), KeyChar(10)} THEN KeyId(KEnter, {"shift"})
    ELSE KeyLookedUp(d, KeyLegacyIds, KeyLookedUp(d, KeyRawIds, KeyByCode(d)))

-----------------------------------------------------------------------------
(* isKeyRelease(): never inside a paste. *)
KeyIsRelease(d) ==
    /\ d.form # "paste" /\ d.event = "release"
    /\ d.form = "final" => d.text \in {"A", "B", "C", "D", "H", "F"}

(* decodeKittyPrintable(), decodeModifyOtherKeysPrintable(), decodePrintableKey():
   the code point typed, 0 when none.                                      *)
KeyPrintable(c) == IF c \in 32 .. 1114111 THEN c ELSE 0
KeyTypedByKitty(d) ==
    IF d.form = "u" /\ d.mods \subseteq {"shift"} \cup KeyLocks
    THEN KeyPrintable(KeyNormal(IF "shift" \in d.mods /\ d.shifted # 0 THEN d.shifted ELSE d.code)) ELSE 0
KeyTypedByOther(d) == IF d.form = "other" /\ d.mods \ KeyLocks \subseteq {"shift"} THEN KeyPrintable(d.code) ELSE 0
KeyTyped(d) == IF KeyTypedByKitty(d) # 0 THEN KeyTypedByKitty(d) ELSE KeyTypedByOther(d)

(* TUI_KEYBINDINGS: the commands the line input asks for, and their keys. *)
KeyPlain(key) == KeyId(key, {})
KeyCtrl(key) == KeyId(key, {"ctrl"})
KeyAlt(key) == KeyId(key, {"alt"})
KeyBindings ==
    [cancel |-> {KeyPlain(KEscape), KeyCtrl(99)}, undo |-> {KeyCtrl(45)}, submit |-> {KeyPlain(KEnter)},
     deleteCharBackward |-> {KeyPlain(KBackspace)}, deleteCharForward |-> {KeyPlain(KDelete), KeyCtrl(100)},
     deleteWordBackward |-> {KeyCtrl(119), KeyAlt(KBackspace)}, deleteWordForward |-> {KeyAlt(100), KeyAlt(KDelete)},
     deleteToLineStart |-> {KeyCtrl(117)}, deleteToLineEnd |-> {KeyCtrl(107)}, yank |-> {KeyCtrl(121)}, yankPop |-> {KeyAlt(121)},
     cursorLeft |-> {KeyPlain(KLeft), KeyCtrl(98)}, cursorRight |-> {KeyPlain(KRight), KeyCtrl(102)},
     cursorLineStart |-> {KeyPlain(KHome), KeyCtrl(97)}, cursorLineEnd |-> {KeyPlain(KEnd), KeyCtrl(101)},
     cursorWordLeft |-> {KeyAlt(KLeft), KeyCtrl(KLeft), KeyAlt(98)}, cursorWordRight |-> {KeyAlt(KRight), KeyCtrl(KRight), KeyAlt(102)}]
KeyRuns(d, binding) == \E id \in KeyBindings[binding] : KeyMatches(d, id)

-----------------------------------------------------------------------------
KeyInit == keyData = KeyChar(97) /\ keyKitty = FALSE /\ keyWindows \in BOOLEAN /\ keyCount = 0
KeyReceive ==
    /\ keyCount < KeyMaxInputs /\ keyCount' = keyCount + 1
    /\ \E d \in KeyInputs : keyData' = d
    /\ UNCHANGED <<keyKitty, keyWindows>>
(* setKittyProtocolActive(): the answer of the terminal arrives between keys. *)
KeySetProtocol == \E active \in BOOLEAN : keyKitty' = active /\ UNCHANGED <<keyData, keyWindows, keyCount>>
KeyNext == KeyReceive \/ KeySetProtocol

-----------------------------------------------------------------------------
(* parseKey() and matchesKey() are written apart and agree: whatever the
   encoding and the mode, a sequence matches the key it is said to be.  Not so
   for a modified Escape, for "+" and the double quote, for a capital, for the legacy
   control sequences once the Kitty protocol is on, and for an astral code
   point whose low bits are a symbol.  Nor for what modifyOtherKeys reports while
   a lock is on, whose bit the matcher keeps and the parser drops, without a
   modifier, but for Escape, Space and Backspace, and of the keypad, which only
   the parser takes for the main block.                                    *)
KeyOtherDiffers(d, key) ==
    \/ d.mods \cap KeyLocks # {}
    \/ d.mods = {} /\ key \notin {KSpace, KBackspace, KEscape}
    \/ KeyNormal(d.code) # d.code \/ d.code = KKeypadEnter
KeyNamesDiffer(d) ==
    LET id == KeyParsed(d)
    IN  \/ id.key = KEscape /\ id.mods # {}
        \/ id.key = 43
        \/ d.form = "char" /\ d.code \in KeyCapitals \cup {34}
        \/ keyKitty /\ d \in {KeyChar(0), KeyMeta(27), KeyMeta(28), KeyMeta(29), KeyMeta(31)}
        \/ d.form \in {"u", "other"} /\ d.code > 65535
        \/ d.form = "other" /\ KeyOtherDiffers(d, id.key)
KeyNamesAgree == KeyParsed(keyData) # KeyNone /\ ~KeyNamesDiffer(keyData) => KeyMatches(keyData, KeyParsed(keyData))

(* The Kitty protocol leaves no doubt: a sequence of it matches at most one key
   identifier, but for a digit that stands on the place of another key.    *)
KeyIds == [key : KeyKnown \cup {KClear, 45, 47, 49, 91, 93, 97, 99, 107, 118}, mods : SUBSET {"shift", "ctrl", "alt"}]
KeyUnambiguous ==
    keyData.form = "u" /\ ~(keyData.base # 0 /\ KeyNormal(keyData.code) \in KeyDigits) =>
        Cardinality({id \in KeyIds : KeyMatches(keyData, id)}) <= 1

(* What types a character is no key with Ctrl or Alt and, Backspace and the
   keypad's Enter apart, no key without a character.                       *)
KeyTypesText ==
    KeyTyped(keyData) # 0 /\ keyData.code \notin {KBackspace, KKeypadEnter} =>
        \A id \in KeyIds : KeyMatches(keyData, id) => id.mods \subseteq {"shift"} /\ id.key >= 32

(* One key runs one command of the line input, whatever the order of its tests. *)
KeyRunsOne == Cardinality({binding \in DOMAIN KeyBindings : KeyRuns(keyData, binding)}) <= 1

(* A release is told from a press, so that no key acts twice, and pasted text
   is never taken for a release.                                           *)
KeyReleaseFiltered ==
    /\ \A r \in KeyKittyReading(keyData) : KeyIsRelease(keyData) <=> r.event = "release"
    /\ keyData.form = "paste" => ~KeyIsRelease(keyData)

(* However a terminal encodes a key, the parser, the matcher, the decoder and the
   release test read the same key in it, but for what KeyNamesDiffer lists. *)
KeySafe ==
    /\ keyKitty \in BOOLEAN /\ KeyNamesAgree /\ KeyUnambiguous
    /\ KeyTypesText /\ KeyRunsOne /\ KeyReleaseFiltered
=============================================================================
