---------------------------- MODULE SessionProofs ----------------------------
(***************************************************************************)
(* Theorems about the overlays (OverlayFocus), the session that shows its  *)
(* dialogs in them (ReplSession), the line that searches the settings      *)
(* (LineInput) and the input their keys come from (StdinBuffer), for any   *)
(* components, runs, saves, kill rings, widths and streams.                *)
(*                                                                         *)
(* An overlay remembers what had the focus when it was shown.  That a key  *)
(* goes to something that can be seen therefore needs the past: no overlay *)
(* remembers itself (PreDiffers), unless the focus has gone astray.  The   *)
(* session never lets it: its dialogs are always seen and capture the keys,*)
(* and none of a command remembers another one of a command (RsShows); one *)
(* command waits for its dialog at a time (OneCommand), because commands   *)
(* are typed into the editor, which has the keys when nothing is shown.    *)
(*                                                                         *)
(* The line's invariant says where its text is cut: what is before the     *)
(* cursor, the newest entry of the ring and what is after it are the line  *)
(* a run of kills began with (LiKillKeeps), and what a yank put in stays   *)
(* between two texts that do not change (LiYankPopKeeps).  That the cursor *)
(* is in view is arithmetic over the columns of the cells (ViewShows).     *)
(*                                                                         *)
(* Input is read in chunks as it would be in one, because process() on a   *)
(* text and then on more is process() on all of it (ProcessOn), and none   *)
(* of it is lost because a call moves its text from what is pending to     *)
(* what is reported (CallOrder).                                           *)
(***************************************************************************)
EXTENDS ReplSession, LineInput, StdinBuffer, FiniteSetTheorems, SequenceTheorems, WellFoundedInduction, TLAPS

(* What a stack shows, each component once. *)
ShownIn(stack) == {stack[i].component : i \in DOMAIN stack}
OnceEach(stack) == \A i, j \in DOMAIN stack : stack[i].component = stack[j].component => i = j
Stacked(stack) == stack \in Seq(OvRow) /\ OnceEach(stack)

LEMMA RowsOfStack ==
    ASSUME NEW stack \in Seq(OvRow)
    PROVE  /\ DOMAIN stack = 1 .. Len(stack) /\ Len(stack) \in Nat
           /\ \A i \in DOMAIN stack : /\ stack[i] \in OvRow
                                      /\ stack[i].component \in OvDialogs
                                      /\ stack[i].preFocus \in OvDialogs \cup {OvEditor}
                                      /\ stack[i].hidden \in BOOLEAN
<1>1. DOMAIN stack = 1 .. Len(stack) /\ Len(stack) \in Nat
  BY LenProperties
<1>2. ASSUME NEW i \in DOMAIN stack PROVE stack[i] \in OvRow
  BY <1>1, <1>2, ElementOfSeq
<1> QED BY <1>1, <1>2 DEF OvRow

(* A set of positions has a first one, and a last one if it has a bound. *)
LEMMA LeastPosition ==
    ASSUME NEW S, S \subseteq Nat, S # {}
    PROVE  \E x \in S : \A y \in S : x <= y
<1> DEFINE R == OpToRel(<, Nat)
<1>1. IsWellFoundedOn(R, Nat)
  BY NatLessThanWellFounded
<1>2. \A x, y \in Nat : x < y => <<x, y>> \in R
  BY DEF OpToRel
<1> HIDE DEF R
<1>3. PICK x \in S : \A y \in S : ~(<<y, x>> \in R)
  BY <1>1, WFMin
<1>4. ASSUME NEW y \in S PROVE x <= y
  <2>1. x \in Nat /\ y \in Nat
    OBVIOUS
  <2>2. ~(y < x)
    BY <2>1, <1>2, <1>3, Zenon
  <2> QED BY <2>1, <2>2
<1> QED BY <1>4

LEMMA LastPosition ==
    ASSUME NEW n \in Nat, NEW S, S \subseteq 0 .. n, S # {}
    PROVE  Max(S) \in S /\ \A y \in S : Max(S) >= y
<1> DEFINE T == {n - x : x \in S}
<1>1. T \subseteq Nat /\ T # {}
  <2>1. \A x \in S : n - x \in Nat
    OBVIOUS
  <2> QED BY <2>1
<1>2. PICK u \in T : \A y \in T : u <= y
  BY <1>1, LeastPosition
<1>3. PICK x \in S : u = n - x
  OBVIOUS
<1>4. ASSUME NEW y \in S PROVE x >= y
  <2>1. n - y \in T /\ x \in 0 .. n /\ y \in 0 .. n
    OBVIOUS
  <2>2. n - x <= n - y
    BY <1>2, <1>3, <2>1
  <2> QED BY <2>1, <2>2
<1>5. \E z \in S : \A y \in S : z >= y
  BY <1>4
<1> QED BY <1>5 DEF Max

LEMMA FirstPosition ==
    ASSUME NEW S, S \subseteq Nat, S # {}
    PROVE  Min(S) \in S /\ \A y \in S : Min(S) <= y
BY LeastPosition DEF Min

(* The topmost modal is one of those that capture the keys and can be seen. *)
LEMMA TopIsModal ==
    ASSUME NEW stack \in Seq(OvRow), NEW other
    PROVE  \/ OvModals(stack) = {} /\ OvTopOr(stack, other) = other
           \/ \E i \in OvModals(stack) : OvTopOr(stack, other) = stack[i].component
<1>1. OvModals(stack) \subseteq 1 .. Len(stack) /\ Len(stack) \in Nat
  BY RowsOfStack DEF OvModals
<1>2. OvModals(stack) # {} => Max(OvModals(stack)) \in OvModals(stack)
  BY <1>1, LastPosition
<1> QED BY <1>2 DEF OvTopOr

LEMMA PlaceOf ==
    ASSUME Stacked(ovStack), NEW c \in OvShown
    PROVE  /\ OvPlace(c) \in DOMAIN ovStack /\ ovStack[OvPlace(c)].component = c
           /\ OvEntry(c) = ovStack[OvPlace(c)] /\ OvEntry(c) \in OvRow
           /\ \A i \in DOMAIN ovStack : ovStack[i].component = c => OvEntry(c) = ovStack[i]
<1>1. \E i \in DOMAIN ovStack : ovStack[i].component = c
  BY DEF OvShown
<1>2. OvPlace(c) \in DOMAIN ovStack /\ ovStack[OvPlace(c)].component = c
  BY <1>1 DEF OvPlace
<1> QED BY <1>2, RowsOfStack DEF Stacked, OnceEach, OvEntry

LEMMA AllButOne ==
    ASSUME NEW T, NEW stack \in Seq(T), NEW k \in 1 .. Len(stack)
    PROVE  /\ RemoveAt(stack, k) \in Seq(T)
           /\ Len(RemoveAt(stack, k)) = Len(stack) - 1
           /\ \A i \in 1 .. Len(stack) - 1 : RemoveAt(stack, k)[i] = stack[IF i < k THEN i ELSE i + 1]
<1> DEFINE s == SubSeq(stack, 1, k - 1)  t == SubSeq(stack, k + 1, Len(stack))
<1>1. Len(stack) \in Nat /\ k \in Nat /\ k >= 1 /\ k <= Len(stack)
  BY LenProperties
<1>2. s \in Seq(T) /\ Len(s) = k - 1 /\ \A i \in 1 .. k - 1 : s[i] = stack[i]
  BY <1>1, SubSeqProperties
<1>3. t \in Seq(T) /\ Len(t) = Len(stack) - k /\ \A i \in 1 .. Len(stack) - k : t[i] = stack[k + i]
  BY <1>1, SubSeqProperties
<1>4. RemoveAt(stack, k) = s \o t
  BY DEF RemoveAt
<1> HIDE DEF s, t
<1>5. /\ s \o t \in Seq(T) /\ Len(s \o t) = Len(s) + Len(t)
      /\ \A i \in 1 .. Len(s) + Len(t) : (s \o t)[i] = IF i <= Len(s) THEN s[i] ELSE t[i - Len(s)]
  BY <1>2, <1>3, ConcatProperties
<1>6. Len(RemoveAt(stack, k)) = Len(stack) - 1
  <2>1. Len(s) + Len(t) = Len(stack) - 1
    BY <1>1, <1>2, <1>3
  <2> QED BY <2>1, <1>5, <1>4
<1>7. ASSUME NEW i \in 1 .. Len(stack) - 1
      PROVE  RemoveAt(stack, k)[i] = stack[IF i < k THEN i ELSE i + 1]
  <2>1. CASE i < k
    <3>1. i \in 1 .. k - 1 /\ i <= Len(s) /\ i \in 1 .. Len(s) + Len(t)
      BY <1>1, <1>2, <1>3, <2>1
    <3> QED BY <3>1, <1>2, <1>5, <1>4, <2>1
  <2>2. CASE ~(i < k)
    <3>1. i - (k - 1) \in 1 .. Len(stack) - k /\ ~(i <= Len(s)) /\ i \in 1 .. Len(s) + Len(t)
      BY <1>1, <1>2, <1>3, <2>2
    <3>2. (s \o t)[i] = t[i - (k - 1)] /\ t[i - (k - 1)] = stack[k + (i - (k - 1))]
      BY <1>2, <1>3, <1>5, <3>1
    <3>3. k + (i - (k - 1)) = i + 1
      BY <1>1
    <3> QED BY <3>2, <3>3, <1>4, <2>2
  <2> QED BY <2>1, <2>2
<1> QED BY <1>5, <1>4, <1>6, <1>7

LEMMA Pushed ==
    ASSUME NEW stack, Stacked(stack), NEW row \in OvRow, row.component \notin ShownIn(stack)
    PROVE  /\ Stacked(Append(stack, row)) /\ Append(stack, row) # <<>> /\ Last(Append(stack, row)) = row
           /\ ShownIn(Append(stack, row)) = ShownIn(stack) \cup {row.component}
           /\ \A i \in DOMAIN Append(stack, row) :
                 Append(stack, row)[i] = row \/ \E j \in DOMAIN stack : Append(stack, row)[i] = stack[j]
<1> DEFINE s == Append(stack, row)  n == Len(stack)
<1>1. n \in Nat /\ DOMAIN stack = 1 .. n
  BY RowsOfStack DEF Stacked
<1>2. /\ s \in Seq(OvRow) /\ Len(s) = n + 1 /\ \A i \in 1 .. n : s[i] = stack[i]
      /\ s[n + 1] = row
  BY AppendProperties DEF Stacked
<1>3. DOMAIN s = 1 .. n + 1
  BY <1>2, RowsOfStack
<1>4. Last(s) = row /\ s # <<>>
  BY <1>1, <1>2 DEF Last
<1> HIDE DEF s, n
<1>5. ShownIn(s) = ShownIn(stack) \cup {row.component}
  BY <1>1, <1>2, <1>3 DEF ShownIn
<1>6. OnceEach(s)
  BY <1>1, <1>2, <1>3 DEF OnceEach, Stacked, ShownIn
<1>7. \A i \in DOMAIN s : s[i] = row \/ \E j \in DOMAIN stack : s[i] = stack[j]
  BY <1>1, <1>2, <1>3
<1> QED BY <1>2, <1>4, <1>5, <1>6, <1>7 DEF Stacked, s

LEMMA Removed ==
    ASSUME Stacked(ovStack), NEW c \in OvShown
    PROVE  /\ Stacked(OvWithout(c)) /\ ShownIn(OvWithout(c)) = OvShown \ {c}
           /\ \A i \in DOMAIN OvWithout(c) : \E j \in DOMAIN ovStack : OvWithout(c)[i] = ovStack[j]
<1> DEFINE s == OvWithout(c)  n == Len(ovStack)  k == OvPlace(c)
           at(i) == IF i < k THEN i ELSE i + 1
<1>1. n \in Nat /\ DOMAIN ovStack = 1 .. n /\ k \in 1 .. n /\ ovStack[k].component = c
  BY RowsOfStack, PlaceOf DEF Stacked
<1>2. s \in Seq(OvRow) /\ Len(s) = n - 1 /\ \A i \in 1 .. n - 1 : s[i] = ovStack[at(i)]
  BY <1>1, AllButOne DEF Stacked, OvWithout
<1>3. DOMAIN s = 1 .. n - 1
  BY <1>2, RowsOfStack
<1> HIDE DEF s, n, k
<1>4. /\ \A i \in 1 .. n - 1 : at(i) \in 1 .. n /\ at(i) # k
      /\ \A i, j \in 1 .. n - 1 : at(i) = at(j) => i = j
      /\ \A j \in (1 .. n) \ {k} : \E i \in 1 .. n - 1 : at(i) = j
  <2>1. ASSUME NEW j \in (1 .. n) \ {k} PROVE \E i \in 1 .. n - 1 : at(i) = j
    <3>1. CASE j < k
      BY <1>1, <3>1
    <3>2. CASE j > k
      <4>1. j - 1 \in 1 .. n - 1 /\ at(j - 1) = j
        BY <1>1, <3>2
      <4> QED BY <4>1
    <3> QED BY <1>1, <3>1, <3>2
  <2> QED BY <1>1, <2>1
<1> HIDE DEF at
<1>5. OnceEach(s)
  BY <1>1, <1>2, <1>3, <1>4 DEF OnceEach, Stacked
<1>6. ShownIn(s) = OvShown \ {c}
  <2>1. ASSUME NEW i \in 1 .. n - 1 PROVE s[i].component \in OvShown \ {c}
    <3>1. at(i) \in 1 .. n /\ at(i) # k /\ s[i] = ovStack[at(i)]
      BY <1>2, <1>4
    <3>2. ovStack[at(i)].component # c
      BY <1>1, <3>1 DEF Stacked, OnceEach
    <3> QED BY <1>1, <3>1, <3>2 DEF OvShown
  <2>2. ASSUME NEW x \in OvShown \ {c} PROVE \E i \in 1 .. n - 1 : s[i].component = x
    <3>1. PICK j \in 1 .. n : ovStack[j].component = x
      BY <1>1 DEF OvShown
    <3>2. j # k
      BY <1>1, <3>1
    <3> QED BY <1>2, <1>4, <3>1, <3>2
  <2> QED BY <1>3, <2>1, <2>2 DEF ShownIn
<1>7. \A i \in DOMAIN s : \E j \in DOMAIN ovStack : s[i] = ovStack[j]
  BY <1>1, <1>2, <1>3, <1>4
<1> QED BY <1>2, <1>5, <1>6, <1>7 DEF Stacked, s

-----------------------------------------------------------------------------
(* What is on the screen, of a stack and a width. *)
SeenIn(stack, wide, c) ==
    \/ c = OvEditor
    \/ \E i \in DOMAIN stack : stack[i].component = c /\ ~stack[i].hidden /\ (c \in OvWide => wide)

LEMMA OnScreenIs ==
    ASSUME Stacked(ovStack), NEW c
    PROVE  OvOnScreen(c) <=> SeenIn(ovStack, ovIsWide, c)
<1>1. c \in OvShown <=> \E i \in DOMAIN ovStack : ovStack[i].component = c
  BY DEF OvShown
<1>2. ASSUME NEW i \in DOMAIN ovStack, ovStack[i].component = c PROVE OvEntry(c) = ovStack[i]
  BY <1>1, <1>2, PlaceOf
<1>3. ASSUME NEW i \in DOMAIN ovStack, ovStack[i].component = c
      PROVE  OvVisible(OvEntry(c)) <=> ~ovStack[i].hidden /\ (c \in OvWide => ovIsWide)
  BY <1>2, <1>3 DEF OvVisible
<1>4. CASE c = OvEditor
  BY <1>4 DEF OvOnScreen, SeenIn
<1>5. CASE c # OvEditor /\ c \notin OvShown
  <2>1. ~OvOnScreen(c)
    BY <1>5 DEF OvOnScreen
  <2>2. ~SeenIn(ovStack, ovIsWide, c)
    BY <1>1, <1>5 DEF SeenIn
  <2> QED BY <2>1, <2>2
<1>6. CASE c # OvEditor /\ c \in OvShown
  <2>1. PICK i \in DOMAIN ovStack : ovStack[i].component = c
    BY <1>1, <1>6
  <2>2. OvOnScreen(c) <=> ~ovStack[i].hidden /\ (c \in OvWide => ovIsWide)
    BY <1>3, <1>6, <2>1 DEF OvOnScreen
  <2>3. \A j \in DOMAIN ovStack : ovStack[j].component = c => j = i
    BY <2>1 DEF Stacked, OnceEach
  <2>4. SeenIn(ovStack, ovIsWide, c) <=> ~ovStack[i].hidden /\ (c \in OvWide => ovIsWide)
    BY <1>6, <2>1, <2>3 DEF SeenIn
  <2> QED BY <2>2, <2>4
<1> QED BY <1>4, <1>5, <1>6

(* An overlay whose focus is kept from it was shown by something else. *)
PreDiffers == ovStray \/ \A i \in DOMAIN ovStack : ovStack[i].preFocus # ovStack[i].component

OvInv == OvTypeOK /\ FocusIsShown /\ PreDiffers

LEMMA StackedInv == ASSUME OvInv PROVE Stacked(ovStack) /\ OvEditor \notin OvShown /\ OvShown \subseteq OvDialogs
<1>1. Stacked(ovStack)
  BY DEF OvInv, OvTypeOK, Stacked, OnceEach
<1>2. \A i \in DOMAIN ovStack : ovStack[i].component \in OvDialogs
  BY <1>1, RowsOfStack DEF Stacked
<1> QED BY <1>1, <1>2, OvAssumption DEF OvShown

(* The focus moves to what is shown, or falls back, which is noted. *)
LEMMA FocusMoves ==
    ASSUME OvInv, Stacked(ovStack'), ovIsWide' = ovIsWide, NEW c, NEW fallback \in BOOLEAN, OvFocuses(c, fallback),
           c \in OvDialogs \cup {OvEditor},
           c \in ShownIn(ovStack') \cup {OvEditor} \/ fallback \/ ovStray,
           ovStray \/ \A i \in DOMAIN ovStack' : ovStack'[i].preFocus # ovStack'[i].component
    PROVE  OvInv'
<1>1. ovFocus' = c /\ ovStray' = ((ovStack' # <<>> \/ c # OvEditor) /\ (ovStray \/ (fallback /\ ~OvOnScreen(ovFocus)')))
  BY DEF OvFocuses
<1>2. ovIsWide \in BOOLEAN /\ ovStray \in BOOLEAN
  BY DEF OvInv, OvTypeOK
<1>3. OvOnScreen(ovFocus)' => c \in ShownIn(ovStack') \cup {OvEditor}
  BY <1>1 DEF OvOnScreen, OvShown, ShownIn
<1>4. ovStray' \in BOOLEAN
  BY <1>1, <1>2
<1>5. OvTypeOK'
  BY <1>1, <1>2, <1>4 DEF OvTypeOK, Stacked, OnceEach
<1>6. ovStray' \/ c \in ShownIn(ovStack') \cup {OvEditor}
  BY <1>1, <1>3
<1>7. FocusIsShown'
  BY <1>1, <1>6 DEF FocusIsShown, OvShown, ShownIn
<1>8. CASE ovStack' = <<>>
  BY <1>5, <1>7, <1>8 DEF OvInv, PreDiffers
<1>9. CASE ovStack' # <<>>
  <2>1. ovStray => ovStray'
    BY <1>1, <1>9
  <2> QED BY <1>5, <1>7, <2>1 DEF OvInv, PreDiffers
<1> QED BY <1>8, <1>9

(* Rows that were there before were shown by something else. *)
RowsDiffer(stack) == ovStray \/ \A i \in DOMAIN stack : stack[i].preFocus # stack[i].component

LEMMA OvTyped ==
    ASSUME OvInv
    PROVE  /\ Stacked(ovStack) /\ OvShown \subseteq OvDialogs /\ OvEditor \notin OvDialogs
           /\ OvShown = ShownIn(ovStack) /\ RowsDiffer(ovStack)
           /\ ovFocus \in OvDialogs \cup {OvEditor} /\ (ovStray \/ ovFocus \in OvShown \cup {OvEditor})
BY StackedInv, OvAssumption DEF OvInv, OvTypeOK, FocusIsShown, PreDiffers, RowsDiffer, OvShown, ShownIn

LEMMA TopIsShown ==
    ASSUME NEW stack \in Seq(OvRow), NEW other
    PROVE  OvTopOr(stack, other) \in ShownIn(stack) \/ OvTopOr(stack, other) = other
BY TopIsModal DEF OvModals, ShownIn

LEMMA ShowKeeps ==
    ASSUME OvInv, NEW c \in OvDialogs, OvShow(c) PROVE OvInv'
<1> DEFINE row == [component |-> c, preFocus |-> ovFocus, hidden |-> FALSE]
<1>1. /\ c \notin OvShown /\ ovStack' = Append(ovStack, row) /\ ovIsWide' = ovIsWide
      /\ OvFocuses(OvFocusShown(c, ovStack'), FALSE)
  BY DEF OvShow
<1>2. row \in OvRow /\ row.component = c /\ row.preFocus = ovFocus
  BY OvTyped DEF OvRow
<1> HIDE DEF row
<1>3. /\ Stacked(ovStack') /\ ShownIn(ovStack') = OvShown \cup {c}
      /\ \A i \in DOMAIN ovStack' : ovStack'[i] = row \/ \E j \in DOMAIN ovStack : ovStack'[i] = ovStack[j]
  BY <1>1, <1>2, OvTyped, Pushed
<1>4. OvFocusShown(c, ovStack') \in {c, ovFocus}
  BY DEF OvFocusShown
<1>5. ovStray \/ ovFocus # c
  BY <1>1, OvTyped
<1>6. ovStray \/ \A i \in DOMAIN ovStack' : ovStack'[i].preFocus # ovStack'[i].component
  BY <1>2, <1>3, <1>5, OvTyped DEF RowsDiffer
<1> QED BY <1>1, <1>3, <1>4, <1>6, OvTyped, FocusMoves

(* An entry goes; the focus is given to the editor, stays, or falls back. *)
LEMMA RemoveKeeps ==
    ASSUME OvInv, NEW c \in OvShown, NEW after, OvRemove(OvEntry(c), after),
           after = OvEditor \/ after = OvAfterRemoval(OvEntry(c))
    PROVE  OvInv' /\ Stacked(ovStack') /\ ShownIn(ovStack') = OvShown \ {c} /\ ovStack' = OvWithout(c)
<1> DEFINE e == OvEntry(c)
<1>1. e.component = c /\ e.preFocus \in OvDialogs \cup {OvEditor}
  BY OvTyped, PlaceOf, RowsOfStack DEF Stacked
<1>2. /\ ovStack' = OvWithout(c) /\ ovIsWide' = ovIsWide
      /\ OvFocuses(after, ovFocus = c /\ after = e.preFocus)
  BY <1>1 DEF OvRemove
<1>3. /\ Stacked(ovStack') /\ ShownIn(ovStack') = OvShown \ {c}
      /\ \A i \in DOMAIN ovStack' : \E j \in DOMAIN ovStack : ovStack'[i] = ovStack[j]
  BY <1>2, OvTyped, Removed
<1>4. ovStray \/ \A i \in DOMAIN ovStack' : ovStack'[i].preFocus # ovStack'[i].component
  BY <1>3, OvTyped DEF RowsDiffer
<1>5. \/ after = OvEditor \/ (ovFocus # c /\ after = ovFocus)
      \/ ovFocus = c /\ after \in ShownIn(ovStack') \cup {e.preFocus}
  <2>1. CASE ovFocus = c /\ after = OvAfterRemoval(e)
    <3>1. after = OvTopOr(ovStack', e.preFocus)
      BY <1>1, <1>2, <2>1 DEF OvAfterRemoval, OvFallback
    <3> QED BY <1>3, <2>1, <3>1, TopIsShown DEF Stacked
  <2>2. CASE ovFocus # c /\ after = OvAfterRemoval(e)
    BY <1>1, <2>2 DEF OvAfterRemoval
  <2> QED BY <2>1, <2>2
<1>6. after \in OvDialogs \cup {OvEditor}
  BY <1>1, <1>3, <1>5, OvTyped
<1>7. after \in ShownIn(ovStack') \cup {OvEditor} \/ (ovFocus = c /\ after = e.preFocus) \/ ovStray
  BY <1>3, <1>5, OvTyped
<1> HIDE DEF e
<1>8. OvInv'
  BY <1>2, <1>3, <1>4, <1>6, <1>7, FocusMoves
<1> QED BY <1>2, <1>3, <1>8

(* The focus moves, the stack does not. *)
LEMMA MovesKeep ==
    ASSUME OvInv, UNCHANGED <<ovStack, ovIsWide>>, NEW c, NEW fallback \in BOOLEAN, OvFocuses(c, fallback),
           c \in OvDialogs \cup {OvEditor}, c \in OvShown \cup {OvEditor} \/ fallback \/ ovStray
    PROVE  OvInv'
<1>1. Stacked(ovStack') /\ ShownIn(ovStack') = OvShown
  BY OvTyped
<1>2. ovStray \/ \A i \in DOMAIN ovStack' : ovStack'[i].preFocus # ovStack'[i].component
  BY OvTyped DEF RowsDiffer
<1> QED BY <1>1, <1>2, FocusMoves

LEMMA UnfocusKeeps == ASSUME OvInv, NEW c \in OvDialogs, OvUnfocus(c) PROVE OvInv'
<1>1. c \in OvShown /\ OvEntry(c).preFocus \in OvDialogs \cup {OvEditor}
  BY OvTyped, PlaceOf, RowsOfStack DEF OvUnfocus, Stacked
<1>2. OvTopOr(ovStack, c) \in OvDialogs
  BY OvTyped, TopIsShown DEF Stacked
<1> QED BY <1>1, <1>2, MovesKeep DEF OvUnfocus

(* The handle of an overlay that was removed moves the focus as a fallback does. *)
LEMMA UnfocusLateKeeps == ASSUME OvInv, OvKeptOK, NEW e \in ovKept, OvUnfocusLate(e) PROVE OvInv'
<1>1. e \in OvRow
  BY DEF OvKeptOK
<1>2. e.preFocus \in OvDialogs \cup {OvEditor}
  BY <1>1 DEF OvRow
<1>3. OvFallback(ovStack, e) \in OvDialogs \cup {OvEditor}
  BY <1>2, OvTyped, TopIsShown DEF Stacked, OvFallback
<1>4. UNCHANGED <<ovStack, ovIsWide>> /\ OvFocuses(OvFallback(ovStack, e), TRUE)
  BY DEF OvUnfocusLate
<1> QED BY <1>3, <1>4, MovesKeep

LEMMA SetHiddenLateKeeps == ASSUME OvInv, OvKeptOK, NEW e \in ovKept, OvSetHiddenLate(e) PROVE OvInv' /\ OvKeptOK'
<1> DEFINE turned == [e EXCEPT !.hidden = ~@]  after == OvFocusHidden(ovStack, turned)
<1>1. e \in OvRow
  BY DEF OvKeptOK
<1>2. turned \in OvRow
  BY <1>1 DEF OvRow
<1>3. turned.preFocus \in OvDialogs \cup {OvEditor} /\ turned.component \in OvDialogs
  BY <1>1 DEF OvRow
<1>4. ovKept' = (ovKept \ {e}) \cup {turned} /\ UNCHANGED <<ovStack, ovIsWide>> /\ OvFocuses(after, TRUE)
  BY DEF OvSetHiddenLate
<1>5. OvKeptOK'
  BY <1>2, <1>4 DEF OvKeptOK
<1> HIDE DEF turned
<1>6. OvFallback(ovStack, turned) \in OvDialogs \cup {OvEditor}
  BY <1>3, OvTyped, TopIsShown DEF Stacked, OvFallback
<1>7. after \in OvDialogs \cup {OvEditor}
  BY <1>3, <1>6, OvTyped DEF OvFocusHidden
<1> HIDE DEF after
<1>8. OvInv'
  BY <1>4, <1>7, MovesKeep
<1> QED BY <1>5, <1>8

(* A key goes where the focus is, or takes it along. *)
LEMMA RecipientIs ==
    ASSUME OvInv
    PROVE  OvRecipient \in OvDialogs \cup {OvEditor}
<1>1. OvTopOr(ovStack, OvEditor) \in OvDialogs \cup {OvEditor}
  BY OvTyped, TopIsShown DEF Stacked
<1>2. ovFocus \in OvShown => OvEntry(ovFocus).preFocus \in OvDialogs \cup {OvEditor}
  BY OvTyped, PlaceOf, RowsOfStack DEF Stacked
<1>3. OvVerified \in OvDialogs \cup {OvEditor}
  BY <1>2, OvTyped DEF OvVerified
<1> QED BY <1>1, <1>3 DEF OvRecipient

LEMMA KeyKeeps == ASSUME OvInv, OvKey PROVE OvInv'
<1>1. OvFocuses(OvRecipient, OvRecipient # ovFocus) /\ UNCHANGED <<ovStack, ovIsWide>>
  BY DEF OvKey
<1>2. OvRecipient \in OvShown \cup {OvEditor} \/ OvRecipient # ovFocus \/ ovStray
  BY OvTyped
<1> QED BY <1>1, <1>2, RecipientIs, MovesKeep

LEMMA SetHiddenKeeps ==
    ASSUME OvInv, NEW c \in OvDialogs, NEW hidden \in BOOLEAN, OvSetHidden(c, hidden) PROVE OvInv'
<1> DEFINE k == OvPlace(c)  e == [OvEntry(c) EXCEPT !.hidden = hidden]
           after == OvFocusHidden(ovStack', e)
<1>1. /\ c \in OvShown /\ ovIsWide' = ovIsWide /\ OvFocuses(after, hidden)
      /\ ovStack' = [ovStack EXCEPT ![k] = [@ EXCEPT !.hidden = hidden]]
  BY DEF OvSetHidden
<1>2. /\ k \in DOMAIN ovStack /\ ovStack[k].component = c
      /\ OvEntry(c) = ovStack[k] /\ OvEntry(c) \in OvRow
  BY <1>1, OvTyped, PlaceOf
<1>3. ovStack' = [ovStack EXCEPT ![k] = e]
  BY <1>1, <1>2
<1>4. e \in OvRow /\ e.component = c /\ e.preFocus = ovStack[k].preFocus
  BY <1>2 DEF OvRow
<1>0. e.hidden = hidden
  BY <1>2 DEF OvRow
<1> HIDE DEF k, e
<1>5. ovStack' \in Seq(OvRow) /\ DOMAIN ovStack' = DOMAIN ovStack
  BY <1>2, <1>3, <1>4, OvTyped, ExceptSeq, RowsOfStack DEF Stacked
<1>6. \A i \in DOMAIN ovStack : /\ ovStack'[i].component = ovStack[i].component
                                /\ ovStack'[i].preFocus = ovStack[i].preFocus
  BY <1>2, <1>3, <1>4
<1>7. Stacked(ovStack') /\ ShownIn(ovStack') = OvShown
  BY <1>5, <1>6, OvTyped DEF Stacked, OnceEach, OvShown, ShownIn
<1>8. ovStray \/ \A i \in DOMAIN ovStack' : ovStack'[i].preFocus # ovStack'[i].component
  BY <1>5, <1>6, OvTyped DEF RowsDiffer
<1>9. \/ hidden /\ after = OvTopOr(ovStack', e.preFocus)
      \/ after \in {c, ovFocus}
  BY <1>0, <1>4 DEF OvFallback, OvFocusHidden
<1>10. e.preFocus \in OvDialogs \cup {OvEditor}
  BY <1>4 DEF OvRow
<1>11. after \in OvDialogs \cup {OvEditor} /\ (after \in OvShown \cup {OvEditor} \/ hidden \/ ovStray)
  <2>1. CASE hidden /\ after = OvTopOr(ovStack', e.preFocus)
    BY <1>7, <1>10, <2>1, OvTyped, TopIsShown DEF Stacked
  <2>2. CASE after \in {c, ovFocus}
    BY <1>1, <2>2, OvTyped
  <2> QED BY <1>9, <2>1, <2>2
<1> HIDE DEF after
<1> QED BY <1>1, <1>7, <1>8, <1>11, FocusMoves

LEMMA LastIsEntry ==
    ASSUME OvInv, ovStack # <<>>
    PROVE  Last(ovStack).component \in OvShown /\ OvEntry(Last(ovStack).component) = Last(ovStack)
<1>1. Len(ovStack) \in DOMAIN ovStack
  <2>1. Len(ovStack) \in Nat /\ DOMAIN ovStack = 1 .. Len(ovStack) /\ ovStack \in Seq(OvRow)
    BY OvTyped, RowsOfStack DEF Stacked
  <2>2. Len(ovStack) # 0
    BY <2>1, EmptySeq
  <2> QED BY <2>1, <2>2
<1>2. Last(ovStack) = ovStack[Len(ovStack)]
  BY DEF Last
<1>3. Last(ovStack).component \in OvShown
  BY <1>1, <1>2 DEF OvShown
<1> QED BY <1>1, <1>2, <1>3, OvTyped, PlaceOf

LEMMA OvRemovalKeeps ==
    ASSUME OvInv, OvKeptOK, OvPop \/ \E c \in OvDialogs : OvHide(c) PROVE OvInv' /\ OvKeptOK'
<1>1. ASSUME NEW c \in OvShown, OvKeeps(OvEntry(c)) PROVE OvKeptOK'
  <2>1. OvEntry(c) \in OvRow
    BY OvTyped, PlaceOf
  <2> QED BY <1>1, <2>1 DEF OvKeeps, OvKeptOK
<1>2. ASSUME NEW c \in OvDialogs, OvHide(c) PROVE OvInv' /\ OvKeptOK'
  <2>1. c \in OvShown /\ OvRemove(OvEntry(c), OvAfterRemoval(OvEntry(c))) /\ OvKeeps(OvEntry(c))
    BY <1>2 DEF OvHide
  <2> QED BY <1>1, <2>1, RemoveKeeps
<1>3. CASE OvPop
  <2> DEFINE c == Last(ovStack).component
  <2>1. ovStack # <<>> /\ OvRemove(Last(ovStack), OvAfterRemoval(Last(ovStack))) /\ OvKeeps(Last(ovStack))
    BY <1>3 DEF OvPop
  <2>2. c \in OvShown /\ OvEntry(c) = Last(ovStack)
    BY <2>1, LastIsEntry
  <2> HIDE DEF c
  <2> QED BY <1>1, <2>1, <2>2, RemoveKeeps
<1> QED BY <1>2, <1>3

LEMMA OvNextKeeps == OvInv /\ OvKeptOK /\ [OvNext]_ovVars => OvInv' /\ OvKeptOK'
<1> SUFFICES ASSUME OvInv, OvKeptOK, [OvNext]_ovVars PROVE OvInv' /\ OvKeptOK'
  OBVIOUS
<1>1. ASSUME NEW c \in OvDialogs, OvFocusOn(c) PROVE OvInv'
  BY <1>1, MovesKeep DEF OvFocusOn, OvSetFocus
<1>2. ASSUME OvResize PROVE OvInv'
  <2>1. ovStack' = ovStack /\ ovFocus' = ovFocus /\ ovStray' = ovStray /\ ovIsWide' = ~ovIsWide
    BY <1>2 DEF OvResize
  <2> QED BY <2>1 DEF OvInv, OvTypeOK, FocusIsShown, PreDiffers, OvShown
<1>3. UNCHANGED ovKept => OvKeptOK'
  BY DEF OvKeptOK
<1>4. CASE UNCHANGED ovVars
  BY <1>4 DEF ovVars, OvInv, OvTypeOK, FocusIsShown, PreDiffers, OvShown, OvKeptOK
<1>5. CASE OvPop \/ \E c \in OvDialogs : OvHide(c)
  BY <1>5, OvRemovalKeeps
<1>6. CASE \E e \in ovKept : OvSetHiddenLate(e)
  BY <1>6, SetHiddenLateKeeps
<1>7. ASSUME NEW c \in OvDialogs, OvShow(c) \/ OvFocusOn(c) \/ OvUnfocus(c) PROVE OvInv'
  BY <1>1, <1>7, ShowKeeps, UnfocusKeeps
<1>8. ASSUME NEW c \in OvDialogs, NEW hidden \in BOOLEAN, OvSetHidden(c, hidden) PROVE OvInv'
  BY <1>8, SetHiddenKeeps
<1>9. ASSUME NEW e \in ovKept, OvUnfocusLate(e) PROVE OvInv'
  BY <1>9, UnfocusLateKeeps
<1> QED BY <1>2, <1>3, <1>4, <1>5, <1>6, <1>7, <1>8, <1>9, KeyKeeps DEF OvNext

LEMMA OvInitIs == OvInit => OvInv /\ OvKeptOK
<1> SUFFICES ASSUME OvInit PROVE OvInv /\ OvKeptOK
  OBVIOUS
<1>1. ovStack = <<>> /\ ovFocus = OvEditor /\ ovIsWide = TRUE /\ ovKept = {} /\ ovStray = FALSE
  BY DEF OvInit
<1>2. ovStack \in Seq(OvRow) /\ DOMAIN ovStack = {}
  BY <1>1
<1>3. OvTypeOK
  BY <1>1, <1>2 DEF OvTypeOK
<1>4. FocusIsShown /\ PreDiffers
  BY <1>1, <1>2 DEF FocusIsShown, PreDiffers
<1>5. OvKeptOK
  BY <1>1 DEF OvKeptOK
<1> QED BY <1>3, <1>4, <1>5 DEF OvInv

(* A modal can be seen; without one a key goes to what has the focus, if that can
   be seen, or to what had it before.                                      *)
LEMMA KeysAreSeen == OvInv /\ OvKeptOK => OverlaySafe
<1> SUFFICES ASSUME OvInv, OvKeptOK PROVE KeysGoToTheVisible
  BY DEF OverlaySafe, OvInv
<1>1. CASE OvIsModal
  <2>1. OvRecipient = OvTopOr(ovStack, OvEditor) /\ OvRecipient # OvEditor
    BY <1>1 DEF OvRecipient, OvIsModal
  <2>2. PICK i \in OvModals(ovStack) : OvRecipient = ovStack[i].component
    BY <2>1, OvTyped, TopIsModal DEF Stacked
  <2>3. i \in DOMAIN ovStack /\ OvVisible(ovStack[i])
    BY <2>2 DEF OvModals
  <2>4. SeenIn(ovStack, ovIsWide, OvRecipient)
    BY <2>2, <2>3 DEF SeenIn, OvVisible
  <2> QED BY <2>1, <2>4, OvTyped, OnScreenIs DEF KeysGoToTheVisible
<1>2. CASE ~OvIsModal
  <2>1. OvRecipient = OvVerified
    BY <1>2 DEF OvRecipient
  <2>2. SUFFICES ASSUME ~ovStray, OvVerified = ovFocus PROVE OvOnScreen(ovFocus)
    BY <1>2, <2>1 DEF KeysGoToTheVisible
  <2>3. ovFocus \in OvShown \cup {OvEditor}
    BY <2>2, OvTyped
  <2>4. CASE ovFocus \in OvShown
    <3>1. OvEntry(ovFocus).preFocus # ovFocus
      BY <2>2, <2>4, OvTyped, PlaceOf DEF RowsDiffer
    <3> QED BY <2>2, <2>4, <3>1 DEF OvVerified, OvOnScreen
  <2> QED BY <2>3, <2>4 DEF OvOnScreen
<1> QED BY <1>1, <1>2

(* In whatever order overlays are shown, hidden, focused and removed, and however
   the terminal is resized, handleInput() sends a key to something on the screen. *)
THEOREM OverlaysAreSafe == OvSpec => []OverlaySafe
<1> QED BY OvInitIs, OvNextKeeps, KeysAreSeen, PTL DEF OvSpec

-----------------------------------------------------------------------------
(* The session's dialogs can be seen and capture the keys, and one command waits
   for its dialog at a time.                                               *)
RsStates == {"free", "model", "asking", "over"}

RsRow(e) ==
    /\ ~e.hidden /\ e.component \in RsRuns \cup RsDialogs
    /\ e.component \in RsDialogs => e.preFocus \notin RsDialogs

RsShows ==
    /\ ovIsWide /\ ~ovStray
    /\ \A i \in DOMAIN ovStack : RsRow(ovStack[i])

OneCommand == \A c, d \in OvShown \cap RsDialogs : c = d

RsInv ==
    /\ OvInv /\ rsRun \in [RsRuns -> RsStates] /\ rsAwait \subseteq RsDialogs /\ RsShows /\ OneCommand
    /\ ApprovalHasDialog /\ CommandHasDialog /\ ExecutingMeansRun

LEMMA RsNames ==
    /\ RsRuns \subseteq OvDialogs /\ RsDialogs \subseteq OvDialogs
    /\ RsRuns \cap RsDialogs = {} /\ (RsRuns \cup RsDialogs) \cap OvPassive = {}
    /\ OvEditor \notin RsRuns \cup RsDialogs
    /\ "settings" \in RsDialogs /\ "login" \in RsDialogs /\ "apikey" \in RsDialogs
BY RsAssumption, OvAssumption DEF RsDialogs

(* All that is shown is modal: without a modal nothing is. *)
LEMMA ShownIsModal ==
    ASSUME RsInv
    PROVE  /\ OvModals(ovStack) = DOMAIN ovStack
           /\ OvIsModal <=> OvShown # {}
           /\ OvIsModal => OvRecipient \in OvShown
           /\ OvShown = {} => OvRecipient = ovFocus /\ ovFocus = OvEditor
<1>1. \A i \in DOMAIN ovStack : OvVisible(ovStack[i]) /\ OvCaptures(ovStack[i])
  BY RsNames DEF RsInv, RsShows, RsRow, OvVisible, OvCaptures
<1>2. OvModals(ovStack) = DOMAIN ovStack
  BY <1>1 DEF OvModals
<1>3. OvShown # {} <=> DOMAIN ovStack # {}
  BY DEF OvShown
<1>4. OvInv /\ Stacked(ovStack) /\ OvEditor \notin OvShown
  BY OvTyped DEF RsInv
<1>5. \/ DOMAIN ovStack = {} /\ OvTopOr(ovStack, OvEditor) = OvEditor
      \/ DOMAIN ovStack # {} /\ OvTopOr(ovStack, OvEditor) \in OvShown
  BY <1>2, <1>4, TopIsModal DEF Stacked, OvShown
<1>6. OvIsModal <=> OvShown # {}
  BY <1>3, <1>4, <1>5 DEF OvIsModal
<1>7. OvIsModal => OvRecipient \in OvShown
  BY <1>3, <1>5, <1>6 DEF OvRecipient
<1>8. OvShown = {} => OvRecipient = ovFocus /\ ovFocus = OvEditor
  BY <1>4, <1>6, OvTyped DEF OvRecipient, OvVerified, RsInv, RsShows
<1> QED BY <1>2, <1>6, <1>7, <1>8

(* Keys go to the editor when nothing is shown, to a dialog when it is. *)
LEMMA EditorHasAll == ASSUME RsInv, RsEditorHasKeys PROVE OvShown = {} /\ ovFocus = OvEditor
BY ShownIsModal, OvTyped DEF RsEditorHasKeys, RsInv

LEMMA DialogIsShown ==
    ASSUME RsInv, NEW d, RsDialogHasKeys(d) PROVE d \in OvShown /\ d = OvRecipient
<1>1. OvIsModal /\ OvTopOr(ovStack, OvEditor) = d
  BY DEF RsDialogHasKeys
<1>2. OvRecipient = d
  BY <1>1 DEF OvRecipient
<1> QED BY <1>1, <1>2, ShownIsModal

(* No focus goes astray: what is shown is on the screen. *)
LEMMA NoStray ==
    ASSUME RsInv, NEW c, NEW fallback, OvFocuses(c, fallback), ovIsWide' = ovIsWide,
           \A i \in DOMAIN ovStack' : RsRow(ovStack'[i]),
           c = OvEditor \/ c \in ShownIn(ovStack') \/ ~fallback
    PROVE  ~ovStray' /\ RsShows'
<1>1. ovFocus' = c /\ ovStray' = ((ovStack' # <<>> \/ c # OvEditor) /\ (ovStray \/ (fallback /\ ~OvOnScreen(ovFocus)')))
  BY DEF OvFocuses
<1>2. ovIsWide' /\ ~ovStray
  BY DEF RsInv, RsShows
<1>3. ASSUME c \in ShownIn(ovStack') PROVE OvOnScreen(ovFocus)'
  <2>1. c \in OvShown' /\ \E i \in DOMAIN ovStack' : ovStack'[i].component = c
    BY <1>3 DEF ShownIn, OvShown
  <2>2. PICK k \in DOMAIN ovStack' : OvEntry(ovFocus)' = ovStack'[k]
    <3>1. OvPlace(ovFocus)' \in DOMAIN ovStack'
      BY <1>1, <2>1 DEF OvPlace
    <3> QED BY <3>1 DEF OvEntry
  <2>3. OvVisible(OvEntry(ovFocus))'
    BY <1>2, <2>2 DEF OvVisible, RsRow
  <2> QED BY <1>1, <2>1, <2>3 DEF OvOnScreen
<1>4. ovFocus' = OvEditor => OvOnScreen(ovFocus)'
  BY DEF OvOnScreen
<1>5. ~ovStray'
  BY <1>1, <1>2, <1>3, <1>4
<1> QED BY <1>2, <1>5 DEF RsShows

(* A dialog on top of a stack of the session. *)
LEMMA RsPushed ==
    ASSUME RsInv, NEW stack, Stacked(stack), \A i \in DOMAIN stack : RsRow(stack[i]) /\ stack[i].preFocus # stack[i].component,
           NEW row \in OvRow, RsRow(row), row.component \notin ShownIn(stack), row.preFocus # row.component,
           ovStack' = Append(stack, row), ovIsWide' = ovIsWide, NEW c, OvFocuses(c, FALSE),
           c \in ShownIn(stack) \cup {row.component, OvEditor}
    PROVE  OvInv' /\ RsShows' /\ OvShown' = ShownIn(stack) \cup {row.component}
<1>1. /\ Stacked(ovStack') /\ ShownIn(ovStack') = ShownIn(stack) \cup {row.component}
      /\ \A i \in DOMAIN ovStack' : ovStack'[i] = row \/ \E j \in DOMAIN stack : ovStack'[i] = stack[j]
  BY Pushed
<1>2. \A i \in DOMAIN ovStack' : RsRow(ovStack'[i]) /\ ovStack'[i].preFocus # ovStack'[i].component
  BY <1>1
<1>3. RsShows'
  BY <1>2, NoStray
<1>4. ShownIn(ovStack') \subseteq OvDialogs
  <2>1. ovStack' \in Seq(OvRow)
    BY <1>1 DEF Stacked
  <2>2. \A i \in DOMAIN ovStack' : ovStack'[i].component \in OvDialogs
    BY <2>1, RowsOfStack
  <2> QED BY <2>2 DEF ShownIn
<1>5. c \in ShownIn(ovStack') \cup {OvEditor} /\ c \in OvDialogs \cup {OvEditor}
  BY <1>1, <1>4
<1>6. OvInv /\ FALSE \in BOOLEAN
  BY DEF RsInv
<1>7. OvInv'
  BY <1>1, <1>2, <1>5, <1>6, FocusMoves
<1> QED BY <1>1, <1>3, <1>7 DEF OvShown, ShownIn

LEMMA RsStack ==
    ASSUME RsInv
    PROVE  /\ OvInv /\ Stacked(ovStack) /\ OvShown = ShownIn(ovStack) /\ OvShown \subseteq RsRuns \cup RsDialogs
           /\ ovFocus \in OvShown \cup {OvEditor}
           /\ \A i \in DOMAIN ovStack : RsRow(ovStack[i]) /\ ovStack[i].preFocus # ovStack[i].component
BY OvTyped DEF RsInv, RsShows, RsRow, RowsDiffer, ShownIn

LEMMA RsShown ==
    ASSUME RsInv, NEW c \in RsRuns \cup RsDialogs, OvShow(c), c \in RsDialogs => ovFocus = OvEditor
    PROVE  OvInv' /\ RsShows' /\ OvShown' = OvShown \cup {c}
<1> DEFINE row == [component |-> c, preFocus |-> ovFocus, hidden |-> FALSE]
<1>1. /\ c \notin OvShown /\ ovStack' = Append(ovStack, row) /\ ovIsWide' = ovIsWide
      /\ OvFocuses(OvFocusShown(c, ovStack'), FALSE)
  BY DEF OvShow
<1>2. row \in OvRow /\ row.component = c /\ row.preFocus = ovFocus /\ ~row.hidden
  BY RsStack, OvTyped, RsNames DEF OvRow
<1> HIDE DEF row
<1>3. RsRow(row) /\ row.preFocus # row.component
  BY <1>1, <1>2, RsStack, RsNames DEF RsRow
<1>4. OvFocusShown(c, ovStack') \in OvShown \cup {c, OvEditor}
  BY RsStack DEF OvFocusShown
<1> QED BY <1>1, <1>2, <1>3, <1>4, RsStack, RsPushed

(* Without one of its dialogs a stack of the session is one. *)
LEMMA RsWithout ==
    ASSUME RsInv, NEW c \in OvShown
    PROVE  /\ Stacked(OvWithout(c)) /\ ShownIn(OvWithout(c)) = OvShown \ {c}
           /\ \A i \in DOMAIN OvWithout(c) : /\ RsRow(OvWithout(c)[i])
                                             /\ OvWithout(c)[i].preFocus # OvWithout(c)[i].component
BY RsStack, Removed

LEMMA RsClosed ==
    ASSUME RsInv, NEW c, RsClose(c)
    PROVE  c \in OvShown /\ OvInv' /\ RsShows' /\ OvShown' = OvShown \ {c}
<1>1. c \in OvShown /\ OvRemove(OvEntry(c), OvEditor)
  BY DEF RsClose
<1>2. OvInv' /\ Stacked(ovStack') /\ ShownIn(ovStack') = OvShown \ {c} /\ ovStack' = OvWithout(c)
  BY <1>1, RsStack, RemoveKeeps
<1>3. /\ ovIsWide' = ovIsWide
      /\ OvFocuses(OvEditor, ovFocus = OvEntry(c).component /\ OvEditor = OvEntry(c).preFocus)
  BY <1>1 DEF OvRemove
<1>4. \A i \in DOMAIN ovStack' : RsRow(ovStack'[i])
  BY <1>1, <1>2, RsWithout
<1>5. RsShows'
  BY <1>3, <1>4, NoStray
<1> QED BY <1>1, <1>2, <1>5 DEF OvShown, ShownIn

(* The focus goes to the editor or to a dialog that is shown. *)
LEMMA RsMoved ==
    ASSUME RsInv, UNCHANGED <<ovStack, ovIsWide>>, NEW c \in OvShown \cup {OvEditor},
           NEW fallback \in BOOLEAN, OvFocuses(c, fallback)
    PROVE  OvInv' /\ RsShows' /\ OvShown' = OvShown
<1>1. OvInv'
  BY RsStack, OvTyped, MovesKeep
<1>2. RsShows'
  BY RsStack, NoStray
<1> QED BY <1>1, <1>2 DEF OvShown

LEMMA RsSame ==
    ASSUME RsInv, UNCHANGED ovVars PROVE OvInv' /\ RsShows' /\ OvShown' = OvShown
BY DEF ovVars, RsInv, RsShows, OvInv, OvTypeOK, FocusIsShown, PreDiffers, OvShown

LEMMA RsReplaced ==
    ASSUME RsInv, NEW next \in {"login", "apikey"}, "settings" \in OvShown, RsReplace("settings", next)
    PROVE  OvInv' /\ RsShows' /\ OvShown' = (OvShown \ {"settings"}) \cup {next}
<1> DEFINE e == OvEntry("settings")
           stack == OvWithout("settings")
           before == OvFallback(stack, e)
           row == [component |-> next, preFocus |-> before, hidden |-> FALSE]
<1>1. /\ ovStack' = Append(stack, row) /\ ovIsWide' = ovIsWide /\ OvFocuses(OvEditor, FALSE)
  BY DEF RsReplace
<1>2. /\ Stacked(stack) /\ ShownIn(stack) = OvShown \ {"settings"}
      /\ \A i \in DOMAIN stack : RsRow(stack[i]) /\ stack[i].preFocus # stack[i].component
  BY RsWithout
<1>3. next \in RsDialogs /\ next # "settings" /\ "settings" \in RsDialogs
  BY DEF RsDialogs
<1>4. OvShown \ {"settings"} \subseteq RsRuns
  BY <1>3, RsStack DEF RsInv, OneCommand
<1>5. next \notin ShownIn(stack)
  BY <1>2, <1>3, <1>4, RsNames
<1>6. e.preFocus \notin RsDialogs /\ e.preFocus \in OvDialogs \cup {OvEditor}
  BY <1>3, RsStack, PlaceOf, RowsOfStack DEF RsRow, Stacked
<1>7. before = OvTopOr(stack, e.preFocus)
  BY DEF OvFallback
<1>8. before \in ShownIn(stack) \cup {e.preFocus}
  BY <1>2, <1>7, TopIsShown DEF Stacked
<1>9. before \notin RsDialogs /\ before \in OvDialogs \cup {OvEditor}
  BY <1>2, <1>4, <1>6, <1>8, RsNames
<1> HIDE DEF before, stack, e
<1>10. row \in OvRow /\ row.component = next /\ row.preFocus = before /\ RsRow(row) /\ row.preFocus # row.component
  BY <1>3, <1>9, RsNames DEF OvRow, RsRow
<1> HIDE DEF row
<1> QED BY <1>1, <1>2, <1>5, <1>10, RsPushed

(* What an action has to show. *)
LEMMA RsKept ==
    ASSUME OvInv', RsShows', rsRun' \in [RsRuns -> RsStates], rsAwait' \subseteq OvShown' \cap RsDialogs,
           \A r \in RsRuns : rsRun'[r] = "asking" <=> r \in OvShown',
           \A c, d \in OvShown' \cap RsDialogs : c = d,
           rsExecuting' => \E r \in RsRuns : rsRun'[r] \in {"model", "asking"}
    PROVE  RsInv'
<1>1. ApprovalHasDialog' /\ CommandHasDialog' /\ OneCommand'
  BY DEF ApprovalHasDialog, CommandHasDialog, OneCommand
<1>2. ExecutingMeansRun'
  BY DEF ExecutingMeansRun, RsActive
<1> QED BY <1>1, <1>2 DEF RsInv

LEMMA RsFacts ==
    ASSUME RsInv
    PROVE  /\ rsRun \in [RsRuns -> RsStates] /\ rsAwait \subseteq OvShown \cap RsDialogs
           /\ \A r \in RsRuns : rsRun[r] = "asking" <=> r \in OvShown
           /\ \A c, d \in OvShown \cap RsDialogs : c = d
           /\ rsExecuting => \E r \in RsRuns : rsRun[r] \in {"model", "asking"}
<1>1. \A r \in RsRuns : rsRun[r] = "asking" <=> r \in OvShown
  BY DEF RsInv, ApprovalHasDialog
<1>2. rsExecuting => \E r \in RsRuns : rsRun[r] \in {"model", "asking"}
  BY DEF RsInv, ExecutingMeansRun, RsActive
<1> QED BY <1>1, <1>2 DEF RsInv, CommandHasDialog, OneCommand

(* A run goes to another state, which is that of an approval with its dialog. *)
LEMMA RunKept ==
    ASSUME RsInv, OvInv', RsShows', NEW r \in RsRuns, NEW state \in RsStates,
           rsRun' = [rsRun EXCEPT ![r] = state], rsAwait' = rsAwait,
           OvShown' = (IF state = "asking" THEN OvShown \cup {r} ELSE OvShown \ {r}),
           rsExecuting' => state \in {"model", "asking"}
    PROVE  RsInv'
<1>1. rsRun' \in [RsRuns -> RsStates] /\ \A q \in RsRuns : rsRun'[q] = IF q = r THEN state ELSE rsRun[q]
  BY RsFacts
<1>2. \A q \in RsRuns : rsRun'[q] = "asking" <=> q \in OvShown'
  BY <1>1, RsFacts
<1>3. r \notin RsDialogs
  BY RsNames
<1>4. OvShown' \cap RsDialogs = OvShown \cap RsDialogs
  BY <1>3
<1>5. rsAwait' \subseteq OvShown' \cap RsDialogs
  BY <1>4, RsFacts
<1>6. rsExecuting' => \E q \in RsRuns : rsRun'[q] \in {"model", "asking"}
  BY <1>1
<1> QED BY <1>1, <1>2, <1>4, <1>5, <1>6, RsFacts, RsKept

(* A dialog of a command comes or goes; the runs go on. *)
LEMMA CommandKept ==
    ASSUME RsInv, OvInv', RsShows', UNCHANGED <<rsRun, rsExecuting>>,
           NEW gone \in SUBSET RsDialogs, NEW come \in SUBSET RsDialogs,
           OvShown' = (OvShown \ gone) \cup come, rsAwait' \subseteq (rsAwait \ gone) \cup come,
           \A c, d \in come : c = d, OvShown \cap RsDialogs \subseteq gone \/ come = {}
    PROVE  RsInv'
<1>1. \A r \in RsRuns : rsRun'[r] = "asking" <=> r \in OvShown'
  BY RsFacts, RsNames
<1>2. rsAwait' \subseteq OvShown' \cap RsDialogs
  BY RsFacts
<1>3. \A c, d \in OvShown' \cap RsDialogs : c = d
  BY RsFacts
<1> QED BY <1>1, <1>2, <1>3, RsFacts, RsKept

(* Nothing of the stack's or the runs' changes. *)
LEMMA RestKept ==
    ASSUME RsInv, OvInv', RsShows', OvShown' = OvShown, UNCHANGED <<rsRun, rsAwait>>, rsExecuting' => rsExecuting
    PROVE  RsInv'
BY RsFacts, RsKept

-----------------------------------------------------------------------------
LEMMA SubmitStep == ASSUME RsInv, NEW r \in RsRuns, RsSubmit(r) PROVE RsInv'
<1>1. /\ RsEditorHasKeys /\ rsRun[r] = "free" /\ rsRun' = [rsRun EXCEPT ![r] = "model"]
      /\ rsAwait' = rsAwait /\ OvKey
  BY DEF RsSubmit
<1>2. OvShown = {} /\ OvRecipient = OvEditor
  BY <1>1, EditorHasAll DEF RsEditorHasKeys
<1>3. UNCHANGED <<ovStack, ovIsWide>> /\ OvFocuses(OvEditor, OvEditor # ovFocus)
  BY <1>1, <1>2 DEF OvKey
<1>4. OvInv' /\ RsShows' /\ OvShown' = OvShown
  BY <1>3, RsMoved
<1> QED BY <1>1, <1>2, <1>4, RunKept DEF RsStates

LEMMA AskStep == ASSUME RsInv, NEW r \in RsRuns, RsAsk(r) PROVE RsInv'
<1>1. OvShow(r) /\ rsRun' = [rsRun EXCEPT ![r] = "asking"] /\ rsAwait' = rsAwait
  BY DEF RsAsk
<1>2. OvInv' /\ RsShows' /\ OvShown' = OvShown \cup {r}
  BY <1>1, RsShown, RsNames
<1> QED BY <1>1, <1>2, RunKept DEF RsStates

LEMMA DecideStep == ASSUME RsInv, NEW r \in RsRuns, NEW approved \in BOOLEAN, RsDecide(r, approved) PROVE RsInv'
<1>1. RsClose(r) /\ rsRun' = [rsRun EXCEPT ![r] = "model"] /\ rsAwait' = rsAwait
  BY DEF RsDecide
<1>2. OvInv' /\ RsShows' /\ OvShown' = OvShown \ {r}
  BY <1>1, RsClosed
<1> QED BY <1>1, <1>2, RunKept DEF RsStates

LEMMA EndStep == ASSUME RsInv, NEW r \in RsRuns, RsEnd(r) PROVE RsInv'
<1>1. /\ rsRun[r] = "model" /\ rsRun' = [rsRun EXCEPT ![r] = "over"] /\ rsAwait' = rsAwait
      /\ ~rsExecuting' /\ OvSetFocus(OvEditor)
  BY DEF RsEnd, RsFlagAtEnd
<1>2. OvInv' /\ RsShows' /\ OvShown' = OvShown
  BY <1>1, RsMoved DEF OvSetFocus
<1>3. r \notin OvShown
  BY <1>1, RsFacts
<1> QED BY <1>1, <1>2, <1>3, RunKept DEF RsStates

LEMMA InterruptStep == ASSUME RsInv, RsInterrupt PROVE RsInv'
<1>1. ~rsExecuting' /\ UNCHANGED <<rsRun, rsAwait>> /\ (OvSetFocus(OvEditor) \/ UNCHANGED ovVars)
  BY DEF RsInterrupt, rsAgent
<1>2. OvInv' /\ RsShows' /\ OvShown' = OvShown
  BY <1>1, RsMoved, RsSame DEF OvSetFocus
<1> QED BY <1>1, <1>2, RestKept

LEMMA CommandStep == ASSUME RsInv, NEW d \in RsDialogs, RsCommand(d) PROVE RsInv'
<1>1. /\ RsEditorHasKeys /\ OvShow(d) /\ rsAwait' = rsAwait \cup {d}
      /\ UNCHANGED <<rsRun, rsExecuting>>
  BY DEF RsCommand, rsAgent
<1>2. OvShown = {} /\ ovFocus = OvEditor
  BY <1>1, EditorHasAll
<1>3. OvInv' /\ RsShows' /\ OvShown' = OvShown \cup {d}
  BY <1>1, <1>2, RsShown
<1> DEFINE come == {d}  gone == {}
<1>4. /\ come \in SUBSET RsDialogs /\ gone \in SUBSET RsDialogs /\ OvShown' = (OvShown \ gone) \cup come
      /\ rsAwait' \subseteq (rsAwait \ gone) \cup come /\ \A x, y \in come : x = y
      /\ OvShown \cap RsDialogs \subseteq gone
  BY <1>1, <1>2, <1>3
<1> HIDE DEF come, gone
<1> QED BY <1>1, <1>3, <1>4, CommandKept

LEMMA LoginByKeyStep == ASSUME RsInv, RsLoginByKey PROVE RsInv'
<1> DEFINE row == [component |-> "apikey", preFocus |-> ovFocus, hidden |-> FALSE]
<1>1. /\ RsEditorHasKeys /\ ovStack' = Append(ovStack, row) /\ ovIsWide' = ovIsWide
      /\ OvFocuses(OvEditor, FALSE) /\ UNCHANGED <<rsRun, rsExecuting, rsAwait>>
  BY DEF RsLoginByKey, rsVars
<1>2. OvShown = {} /\ ovFocus = OvEditor
  BY <1>1, EditorHasAll
<1>3. row \in OvRow /\ row.component = "apikey" /\ row.preFocus = OvEditor /\ RsRow(row)
  BY <1>2, RsNames DEF OvRow, RsRow
<1> HIDE DEF row
<1>4. row.component \notin ShownIn(ovStack) /\ row.preFocus # row.component
  BY <1>2, <1>3, RsStack, RsNames
<1>5. OvInv' /\ RsShows' /\ OvShown' = OvShown \cup {"apikey"}
  BY <1>1, <1>3, <1>4, RsStack, RsPushed
<1> DEFINE come == {"apikey"}  gone == {}
<1>6. /\ come \in SUBSET RsDialogs /\ gone \in SUBSET RsDialogs /\ OvShown' = (OvShown \ gone) \cup come
      /\ rsAwait' \subseteq (rsAwait \ gone) \cup come /\ \A x, y \in come : x = y
      /\ OvShown \cap RsDialogs \subseteq gone
  BY <1>1, <1>2, <1>5, RsNames
<1>7. UNCHANGED <<rsRun, rsExecuting>>
  BY <1>1
<1> HIDE DEF come, gone
<1> QED BY <1>5, <1>6, <1>7, CommandKept

(* A command's dialog closes, and with it the wait for it. *)
LEMMA ClosedKept ==
    ASSUME RsInv, NEW d \in RsDialogs, RsClose(d), rsAwait' \subseteq rsAwait \ {d}, UNCHANGED <<rsRun, rsExecuting>>
    PROVE  RsInv'
<1>1. OvInv' /\ RsShows' /\ OvShown' = OvShown \ {d}
  BY RsClosed
<1> DEFINE come == {}  gone == {d}
<1>2. /\ come \in SUBSET RsDialogs /\ gone \in SUBSET RsDialogs /\ OvShown' = (OvShown \ gone) \cup come
      /\ rsAwait' \subseteq (rsAwait \ gone) \cup come /\ \A x, y \in come : x = y /\ come = {}
  BY <1>1
<1>3. come = {}
  OBVIOUS
<1> HIDE DEF come, gone
<1> QED BY <1>1, <1>2, <1>3, CommandKept

LEMMA CloseSteps == ASSUME RsInv, RsCloseSettings \/ RsLoginEnds \/ RsCancelKey PROVE RsInv'
<1>1. CASE RsCloseSettings
  BY <1>1, ClosedKept, RsNames DEF RsCloseSettings, rsAgent
<1>2. CASE RsLoginEnds
  BY <1>2, ClosedKept, RsNames DEF RsLoginEnds, rsAgent
<1>3. CASE RsCancelKey
  BY <1>3, ClosedKept, RsNames DEF RsCancelKey, rsAgent
<1> QED BY <1>1, <1>2, <1>3

LEMMA PickProviderStep ==
    ASSUME RsInv, NEW next \in {"login", "apikey"}, RsPickProvider(next) PROVE RsInv'
<1>1. /\ RsDialogHasKeys("settings") /\ RsReplace("settings", next)
      /\ rsAwait' = rsAwait \ {"settings"} /\ UNCHANGED <<rsRun, rsExecuting>>
  BY DEF RsPickProvider, RsResolved, rsAgent
<1>2. "settings" \in OvShown
  BY <1>1, DialogIsShown
<1>3. OvInv' /\ RsShows' /\ OvShown' = (OvShown \ {"settings"}) \cup {next}
  BY <1>1, <1>2, RsReplaced
<1> DEFINE come == {next}  gone == {"settings"}
<1>4. /\ come \in SUBSET RsDialogs /\ gone \in SUBSET RsDialogs /\ OvShown' = (OvShown \ gone) \cup come
      /\ rsAwait' \subseteq (rsAwait \ gone) \cup come /\ \A x, y \in come : x = y
      /\ OvShown \cap RsDialogs \subseteq gone
  BY <1>1, <1>2, <1>3, RsFacts, RsNames
<1> HIDE DEF come, gone
<1> QED BY <1>1, <1>3, <1>4, CommandKept

LEMMA SaveKeyStep == ASSUME RsInv, RsSaveKey PROVE RsInv'
<1>1. RsDialogHasKeys("apikey") /\ OvKey /\ UNCHANGED <<rsRun, rsExecuting, rsAwait>>
  BY DEF RsSaveKey, rsAgent
<1>2. OvRecipient \in OvShown
  BY <1>1, DialogIsShown
<1>3. OvInv' /\ RsShows' /\ OvShown' = OvShown
  BY <1>1, <1>2, RsMoved DEF OvKey
<1> QED BY <1>1, <1>3, RestKept

LEMMA KeySavedStep == ASSUME RsInv, RsKeySaved PROVE RsInv'
<1>1. CASE "apikey" \notin rsAwait
  <2>1. RsClose("apikey") /\ rsAwait' = rsAwait /\ UNCHANGED <<rsRun, rsExecuting>>
    BY <1>1 DEF RsKeySaved, rsAgent
  <2>2. rsAwait' \subseteq rsAwait \ {"apikey"}
    BY <1>1, <2>1
  <2> QED BY <2>1, <2>2, ClosedKept, RsNames
<1>2. CASE "apikey" \in rsAwait
  <2> DEFINE stack == OvWithout("apikey")
             row == [component |-> "settings", preFocus |-> OvEditor, hidden |-> FALSE]
  <2>1. /\ ovStack' = Append(stack, row) /\ ovIsWide' = ovIsWide /\ OvFocuses("settings", FALSE)
        /\ rsAwait' = (rsAwait \ {"apikey"}) \cup {"settings"} /\ UNCHANGED <<rsRun, rsExecuting>>
    BY <1>2 DEF RsKeySaved, rsAgent
  <2>2. "apikey" \in OvShown
    BY <1>2, RsFacts
  <2>3. /\ Stacked(stack) /\ ShownIn(stack) = OvShown \ {"apikey"}
        /\ \A i \in DOMAIN stack : RsRow(stack[i]) /\ stack[i].preFocus # stack[i].component
    BY <2>2, RsWithout
  <2>4. row \in OvRow /\ row.component = "settings" /\ row.preFocus = OvEditor /\ RsRow(row) /\ row.preFocus # "settings"
    BY RsNames DEF OvRow, RsRow
  <2>5. OvShown \cap RsDialogs = {"apikey"} /\ "settings" # "apikey"
    BY <2>2, RsFacts, RsNames
  <2> HIDE DEF stack, row
  <2>6. row.component \notin ShownIn(stack)
    BY <2>3, <2>4, <2>5, RsNames
  <2>7. OvInv' /\ RsShows' /\ OvShown' = (OvShown \ {"apikey"}) \cup {"settings"}
    BY <2>1, <2>3, <2>4, <2>6, RsPushed
  <2> DEFINE come == {"settings"}  gone == {"apikey"}
  <2>8. /\ come \in SUBSET RsDialogs /\ gone \in SUBSET RsDialogs /\ OvShown' = (OvShown \ gone) \cup come
        /\ rsAwait' \subseteq (rsAwait \ gone) \cup come /\ \A x, y \in come : x = y
        /\ OvShown \cap RsDialogs \subseteq gone
    BY <2>1, <2>5, <2>7, RsNames
  <2>9. UNCHANGED <<rsRun, rsExecuting>>
    BY <2>1
  <2> HIDE DEF come, gone
  <2> QED BY <2>7, <2>8, <2>9, CommandKept
<1> QED BY <1>1, <1>2

LEMMA KeySavedLateStep == ASSUME RsInv, RsKeySavedLate PROVE RsInv'
<1>1. OvSetFocus(OvEditor) /\ UNCHANGED <<rsRun, rsExecuting, rsAwait>>
  BY DEF RsKeySavedLate, rsAgent
<1>2. OvInv' /\ RsShows' /\ OvShown' = OvShown
  BY <1>1, RsMoved DEF OvSetFocus
<1> QED BY <1>1, <1>2, RestKept

LEMMA StillStep ==
    ASSUME RsInv, RsToggleMode \/ RsExit \/ UNCHANGED <<ovVars, rsVars>> PROVE RsInv'
<1>1. UNCHANGED <<rsRun, rsExecuting, rsAwait>> /\ UNCHANGED ovVars
  BY DEF RsToggleMode, RsExit, rsVars, rsAgent
<1> QED BY <1>1, RsSame, RestKept

LEMMA RsNextKeeps == RsInv /\ [RsNext]_<<ovVars, rsVars>> => RsInv'
BY SubmitStep, AskStep, DecideStep, EndStep, InterruptStep, CommandStep, LoginByKeyStep, CloseSteps,
   PickProviderStep, SaveKeyStep, KeySavedStep, KeySavedLateStep, StillStep DEF RsNext

LEMMA RsInitIs == RsInit => RsInv /\ OvKeptOK
<1> SUFFICES ASSUME RsInit PROVE RsInv /\ OvKeptOK
  OBVIOUS
<1>1. /\ OvInit /\ rsRun = [r \in RsRuns |-> "free"] /\ ~rsExecuting /\ rsAwait = {}
  BY DEF RsInit
<1>2. OvInv /\ OvKeptOK /\ DOMAIN ovStack = {} /\ ovIsWide /\ ~ovStray
  BY <1>1, OvInitIs DEF OvInit
<1>3. OvShown = {} /\ RsShows /\ OneCommand
  BY <1>2 DEF OvShown, RsShows, OneCommand
<1>4. rsRun \in [RsRuns -> RsStates] /\ \A r \in RsRuns : rsRun[r] # "asking"
  BY <1>1 DEF RsStates
<1> QED BY <1>1, <1>2, <1>3, <1>4 DEF RsInv, ApprovalHasDialog, CommandHasDialog, ExecutingMeansRun

(* The handles of removed overlays are not used. *)
LEMMA RsKeepsNone == OvKeptOK /\ [RsNext]_<<ovVars, rsVars>> => OvKeptOK'
BY DEF RsNext, ovVars, OvKeptOK

(* The focus is on what is shown, and without a dialog on the editor. *)
LEMMA RsInvIsSafe == RsInv /\ OvKeptOK => SessionSafe /\ EditorGetsItBack
<1> SUFFICES ASSUME RsInv, OvKeptOK PROVE SessionSafe /\ EditorGetsItBack
  OBVIOUS
<1>1. OverlaySafe
  BY RsStack, KeysAreSeen
<1>2. ovStack = <<>> => ovFocus = OvEditor
  <2>1. ovStack = <<>> => OvShown = {}
    BY DEF OvShown
  <2> QED BY <2>1, RsStack
<1> QED BY <1>1, <1>2 DEF SessionSafe, EditorGetsItBack, RsInv

(* What happens in an order nobody tried - a login that comes back late, a key
   saved twice, a run that ends below an approval - leaves no run and no command
   waiting without its dialog, and no key in a dialog that has gone.        *)
THEOREM SessionIsSafe == RsSpec => [](SessionSafe /\ EditorGetsItBack)
<1> QED BY RsInitIs, RsNextKeeps, RsKeepsNone, RsInvIsSafe, PTL DEF RsSpec

-----------------------------------------------------------------------------
(* Cuts of a sequence and what is spliced into one.                         *)

(* A cut of a sequence, the two sides of one, and the sides of what was put together. *)
LEMMA Cut ==
    ASSUME NEW S, NEW s \in Seq(S), NEW i \in 0 .. Len(s), NEW j \in i .. Len(s)
    PROVE  /\ SubSeq(s, i + 1, j) \in Seq(S)
           /\ Len(SubSeq(s, i + 1, j)) = j - i
           /\ \A k \in 1 .. j - i : SubSeq(s, i + 1, j)[k] = s[i + k]
<1>1. Len(s) \in Nat /\ \A k \in 1 .. Len(s) : s[k] \in S
  BY LenProperties, ElementOfSeq
<1>2. \A k \in i + 1 .. j : s[k] \in S
  BY <1>1
<1> DEFINE c == SubSeq(s, i + 1, j)
<1>3. /\ c \in Seq(S) /\ Len(c) = IF i + 1 <= j THEN j - (i + 1) + 1 ELSE 0
      /\ \A k \in 1 .. j - (i + 1) + 1 : c[k] = s[i + 1 + k - 1]
  <2>1. i + 1 \in Int /\ j \in Int
    BY <1>1
  <2> QED BY <1>2, <2>1, SubSeqProperties
<1> HIDE DEF c
<1>4. ASSUME NEW k \in 1 .. j - i PROVE c[k] = s[i + k]
  <2>1. i + 1 + k - 1 = i + k /\ k \in 1 .. j - (i + 1) + 1
    BY <1>1
  <2> QED BY <1>3, <2>1
<1>5. Len(c) = j - i
  BY <1>1, <1>3
<1> QED BY <1>3, <1>4, <1>5 DEF c

LEMMA Sides ==
    ASSUME NEW S, NEW s \in Seq(S), NEW i \in 0 .. Len(s)
    PROVE  /\ SubSeq(s, 1, i) \in Seq(S) /\ Len(SubSeq(s, 1, i)) = i
           /\ SubSeq(s, i + 1, Len(s)) \in Seq(S) /\ Len(SubSeq(s, i + 1, Len(s))) = Len(s) - i
           /\ SubSeq(s, 1, i) \o SubSeq(s, i + 1, Len(s)) = s
<1>1. Len(s) \in Nat
  BY LenProperties
<1>2. 0 \in 0 .. Len(s) /\ i \in 0 .. Len(s) /\ Len(s) \in i .. Len(s) /\ 0 + 1 = 1 /\ i - 0 = i
  BY <1>1
<1>3. SubSeq(s, 1, i) \in Seq(S) /\ Len(SubSeq(s, 1, i)) = i
  BY <1>2, Cut
<1>4. SubSeq(s, i + 1, Len(s)) \in Seq(S) /\ Len(SubSeq(s, i + 1, Len(s))) = Len(s) - i
  BY <1>2, Cut
<1>5. 1 \in 1 .. Len(s) + 1 /\ i \in 1 - 1 .. Len(s)
  BY <1>1
<1>6. SubSeq(s, 1, i) \o SubSeq(s, i + 1, Len(s)) = SubSeq(s, 1, Len(s))
  BY <1>2, <1>5, ConcatAdjacentSubSeq
<1> QED BY <1>3, <1>4, <1>6, SubSeqFull

LEMMA Halves ==
    ASSUME NEW S, NEW x \in Seq(S), NEW y \in Seq(S)
    PROVE  /\ SubSeq(x \o y, 1, Len(x)) = x
           /\ SubSeq(x \o y, Len(x) + 1, Len(x \o y)) = y
<1> DEFINE s == x \o y
           n == Len(x)
<1>1. /\ s \in Seq(S) /\ Len(s) = n + Len(y) /\ n \in Nat /\ Len(y) \in Nat
      /\ \A i \in 1 .. n + Len(y) : s[i] = IF i <= n THEN x[i] ELSE y[i - n]
  BY ConcatProperties, LenProperties
<1> HIDE DEF s
<1>2. n \in 0 .. Len(s) /\ 0 \in 0 .. Len(s) /\ n \in 0 .. Len(s) /\ Len(s) \in n .. Len(s)
  BY <1>1
<1>3. /\ SubSeq(s, 0 + 1, n) \in Seq(S) /\ Len(SubSeq(s, 0 + 1, n)) = n - 0
      /\ \A k \in 1 .. n - 0 : SubSeq(s, 0 + 1, n)[k] = s[0 + k]
  BY <1>1, <1>2, Cut
<1>4. /\ SubSeq(s, n + 1, Len(s)) \in Seq(S) /\ Len(SubSeq(s, n + 1, Len(s))) = Len(s) - n
      /\ \A k \in 1 .. Len(s) - n : SubSeq(s, n + 1, Len(s))[k] = s[n + k]
  BY <1>1, <1>2, Cut
<1> DEFINE a == SubSeq(s, 1, n)
           b == SubSeq(s, n + 1, Len(s))
<1>5. a \in Seq(S) /\ Len(a) = n /\ \A k \in 1 .. n : a[k] = s[k]
  <2>1. 0 + 1 = 1 /\ n - 0 = n /\ \A k \in 1 .. n : 0 + k = k
    BY <1>1
  <2> QED BY <1>3, <2>1
<1>6. b \in Seq(S) /\ Len(b) = Len(y) /\ \A k \in 1 .. Len(y) : b[k] = s[n + k]
  <2>1. Len(s) - n = Len(y)
    BY <1>1
  <2> QED BY <1>4, <2>1
<1> HIDE DEF a, b, n
<1>7. a = x
  <2>1. \A k \in 1 .. n : a[k] = x[k]
    BY <1>1, <1>5
  <2> QED BY <1>5, <2>1, SeqEqual DEF n
<1>8. b = y
  <2>1. \A k \in 1 .. Len(y) : b[k] = y[k]
    <3> SUFFICES ASSUME NEW k \in 1 .. Len(y) PROVE b[k] = y[k]
      OBVIOUS
    <3>0. n \in Nat /\ Len(y) \in Nat
      BY <1>1
    <3>1. n + k \in 1 .. n + Len(y) /\ ~(n + k <= n) /\ n + k - n = k
      BY <3>0
    <3>2. s[n + k] = y[n + k - n]
      BY <1>1, <3>1
    <3>3. b[k] = s[n + k]
      BY <1>6
    <3> QED BY <3>1, <3>2, <3>3
  <2> QED BY <1>6, <2>1, SeqEqual
<1> QED BY <1>7, <1>8 DEF a, b, s, n

(* The newest entry of a list, and the ones before it. *)
LEMMA LastIs ==
    ASSUME NEW S, NEW s \in Seq(S), s # <<>>
    PROVE  /\ Len(s) \in Nat \ {0}
           /\ Last(s) \in S /\ Last(s) = s[Len(s)]
           /\ Front(s) \in Seq(S) /\ Len(Front(s)) = Len(s) - 1
           /\ \A k \in 1 .. Len(s) - 1 : Front(s)[k] = s[k]
<1>1. Len(s) \in Nat /\ Len(s) # 0
  BY LenProperties, EmptySeq
<1>2. Last(s) \in S /\ Last(s) = s[Len(s)]
  BY <1>1, ElementOfSeq DEF Last
<1>3. /\ SubSeq(s, 0 + 1, Len(s) - 1) \in Seq(S) /\ Len(SubSeq(s, 0 + 1, Len(s) - 1)) = Len(s) - 1 - 0
      /\ \A k \in 1 .. Len(s) - 1 - 0 : SubSeq(s, 0 + 1, Len(s) - 1)[k] = s[0 + k]
  <2>1. 0 \in 0 .. Len(s) /\ Len(s) - 1 \in 0 .. Len(s)
    BY <1>1
  <2> QED BY <2>1, Cut
<1>4. Len(s) - 1 - 0 = Len(s) - 1 /\ 0 + 1 = 1 /\ \A k \in 1 .. Len(s) - 1 : 0 + k = k
  BY <1>1
<1> QED BY <1>1, <1>2, <1>3, <1>4 DEF Front

LEMMA Added ==
    ASSUME NEW S, NEW s \in Seq(S), NEW e \in S
    PROVE  /\ Append(s, e) \in Seq(S) /\ Append(s, e) # <<>>
           /\ Last(Append(s, e)) = e
           /\ Len(Append(s, e)) = Len(s) + 1
           /\ \A k \in 1 .. Len(s) : Append(s, e)[k] = s[k]
BY AppendProperties DEF Last

-----------------------------------------------------------------------------
(* The single-line input.                                                    *)

LiText == Seq(LiCell)
LiEntry == [value : LiText, cursor : Nat]

(* An undo stack leads back to the empty line, and to no place outside of one. *)
LiLeadsBack(undo, value) ==
    /\ \A i \in DOMAIN undo : undo[i].cursor \in 0 .. Len(undo[i].value)
    /\ IF undo = <<>> THEN value = <<>> ELSE undo[1].value = <<>>

LiTypeOK ==
    /\ liValue \in LiText /\ liCursor \in 0 .. Len(liValue)
    /\ liRing \in Seq(LiText) /\ liUndo \in Seq(LiEntry)
    /\ liAround[1] \in LiText /\ liAround[2] \in LiText
    /\ liLast \in {"kill", "yank"} => liRing # <<>>
    /\ liLast = "type-word" => liUndo # <<>>
LiInv == LiTypeOK /\ LiKillsRestore /\ LiYankStaysPut /\ LiLeadsBack(liUndo, liValue)

LEMMA EmptyLine == <<>> \in LiText /\ Len(<<>>) = 0
BY EmptySeq DEF LiText

LEMMA LiSides ==
    ASSUME LiTypeOK
    PROVE  /\ Len(liValue) \in Nat /\ liCursor \in Nat /\ liCursor <= Len(liValue)
           /\ LiBefore \in LiText /\ Len(LiBefore) = liCursor
           /\ LiAfter \in LiText /\ Len(LiAfter) = Len(liValue) - liCursor
           /\ LiBefore \o LiAfter = liValue
<1>1. liValue \in Seq(LiCell) /\ liCursor \in 0 .. Len(liValue) /\ Len(liValue) \in Nat
  BY LenProperties DEF LiTypeOK, LiText
<1>2. /\ LiBefore \in Seq(LiCell) /\ Len(LiBefore) = liCursor
      /\ LiAfter \in Seq(LiCell) /\ Len(LiAfter) = Len(liValue) - liCursor
      /\ LiBefore \o LiAfter = liValue
  BY <1>1, Sides DEF LiBefore, LiAfter
<1>3. liCursor \in Nat /\ liCursor <= Len(liValue)
  BY <1>1
<1> QED BY <1>1, <1>2, <1>3 DEF LiText

LEMMA LiPushed ==
    ASSUME LiInv, NEW value
    PROVE  LiPush \in Seq(LiEntry) /\ LiPush # <<>> /\ LiLeadsBack(LiPush, value)
<1>1. LiSnapshot \in LiEntry
  BY LiSides DEF LiSnapshot, LiEntry, LiInv, LiTypeOK
<1>2. liUndo \in Seq(LiEntry) /\ Len(liUndo) \in Nat /\ DOMAIN liUndo = 1 .. Len(liUndo)
  BY LenProperties DEF LiInv, LiTypeOK
<1>3. /\ LiPush \in Seq(LiEntry) /\ LiPush # <<>> /\ Last(LiPush) = LiSnapshot
      /\ Len(LiPush) = Len(liUndo) + 1
      /\ \A k \in 1 .. Len(liUndo) : LiPush[k] = liUndo[k]
  BY <1>1, <1>2, Added DEF LiPush
<1>4. DOMAIN LiPush = 1 .. Len(liUndo) + 1 /\ LiPush[Len(liUndo) + 1] = LiSnapshot
  BY <1>2, <1>3, LenProperties DEF Last
<1>5. LiSnapshot.value = liValue /\ LiSnapshot.cursor = liCursor
  BY DEF LiSnapshot
<1> HIDE DEF LiPush, LiSnapshot
<1>6. ASSUME NEW i \in DOMAIN LiPush PROVE LiPush[i].cursor \in 0 .. Len(LiPush[i].value)
  <2>1. CASE i = Len(liUndo) + 1
    BY <1>4, <1>5, <2>1 DEF LiInv, LiTypeOK
  <2>2. CASE i # Len(liUndo) + 1
    <3>1. i \in 1 .. Len(liUndo) /\ LiPush[i] = liUndo[i]
      BY <1>2, <1>3, <1>4, <2>2
    <3> QED BY <1>2, <3>1 DEF LiInv, LiLeadsBack
  <2> QED BY <2>1, <2>2
<1>7. LiPush[1].value = <<>>
  <2>1. CASE liUndo = <<>>
    <3>1. Len(liUndo) = 0 /\ liValue = <<>>
      BY <2>1, EmptyLine DEF LiInv, LiLeadsBack
    <3> QED BY <1>4, <1>5, <3>1
  <2>2. CASE liUndo # <<>>
    <3>1. 1 \in 1 .. Len(liUndo)
      BY <1>2, <2>2, EmptySeq
    <3>2. LiPush[1] = liUndo[1]
      BY <1>3, <3>1
    <3> QED BY <2>2, <3>2 DEF LiInv, LiLeadsBack
  <2> QED BY <2>1, <2>2
<1> QED BY <1>3, <1>6, <1>7 DEF LiLeadsBack

(* What changes the line by other means than a kill or a yank. *)
LEMMA LiEditKeeps ==
    ASSUME LiInv, NEW value \in LiText, NEW cursor \in 0 .. Len(value), NEW last \in {"none", "type-word"},
           NEW undo \in Seq(LiEntry), LiLeadsBack(undo, value), last = "type-word" => undo # <<>>,
           LiEdit(value, cursor, last, undo)
    PROVE  LiInv'
<1>1. /\ liValue' = value /\ liCursor' = cursor /\ liLast' = last /\ liUndo' = undo
      /\ liRing' = liRing /\ liAround' = liAround /\ liRun' = liRun
  BY DEF LiEdit, LiGhostStays, liGhost
<1>2. liLast' # "kill" /\ liLast' # "yank"
  BY <1>1
<1>3. LiTypeOK'
  BY <1>1, <1>2 DEF LiInv, LiTypeOK
<1>4. LiKillsRestore' /\ LiYankStaysPut'
  BY <1>2 DEF LiKillsRestore, LiYankStaysPut
<1>5. LiLeadsBack(liUndo, liValue)'
  BY <1>1 DEF LiLeadsBack
<1> QED BY <1>3, <1>4, <1>5 DEF LiInv

LEMMA LiMoveKeeps ==
    ASSUME LiInv, NEW cursor \in 0 .. Len(liValue), LiMoveTo(cursor)
    PROVE  LiInv'
<1>1. liValue \in LiText /\ liUndo \in Seq(LiEntry) /\ LiLeadsBack(liUndo, liValue)
  BY DEF LiInv, LiTypeOK
<1> QED BY <1>1, LiEditKeeps DEF LiMoveTo

LEMMA LiPushKeeps ==
    ASSUME LiInv, NEW value \in LiText, NEW cursor \in 0 .. Len(value), NEW last \in {"none", "type-word"},
           LiEdit(value, cursor, last, LiPush)
    PROVE  LiInv'
BY LiPushed, LiEditKeeps

(* What is spliced in at the cursor. *)
LEMMA Spliced ==
    ASSUME NEW x \in LiText, NEW t \in LiText, NEW y \in LiText
    PROVE  /\ x \o t \in LiText /\ Len(x \o t) = Len(x) + Len(t)
           /\ x \o t \o y \in LiText
           /\ Len(x) + Len(t) \in 0 .. Len(x \o t \o y)
           /\ SubSeq(x \o t \o y, 1, Len(x) + Len(t)) = x \o t
           /\ SubSeq(x \o t \o y, Len(x) + Len(t) + 1, Len(x \o t \o y)) = y
<1>1. x \o t \in Seq(LiCell) /\ Len(x \o t) = Len(x) + Len(t) /\ Len(x) \in Nat /\ Len(t) \in Nat /\ Len(y) \in Nat
  BY ConcatProperties, LenProperties DEF LiText
<1> DEFINE xt == x \o t
<1>2. xt \in Seq(LiCell) /\ Len(xt) = Len(x) + Len(t)
  BY <1>1
<1> HIDE DEF xt
<1>3. xt \o y \in Seq(LiCell) /\ Len(xt \o y) = Len(xt) + Len(y)
  BY <1>2, ConcatProperties DEF LiText
<1>4. SubSeq(xt \o y, 1, Len(xt)) = xt /\ SubSeq(xt \o y, Len(xt) + 1, Len(xt \o y)) = y
  BY <1>2, Halves DEF LiText
<1>6. Len(x) + Len(t) \in 0 .. Len(xt \o y)
  BY <1>1, <1>2, <1>3
<1>7. xt = x \o t
  BY DEF xt
<1> QED BY <1>1, <1>2, <1>3, <1>4, <1>6, <1>7 DEF LiText

LEMMA LiTypeKeeps ==
    ASSUME LiInv, NEW cell \in LiCell, LiType(cell)
    PROVE  LiInv'
<1> DEFINE value == LiBefore \o <<cell>> \o LiAfter
<1>1. LiBefore \in LiText /\ LiAfter \in LiText /\ Len(LiBefore) = liCursor
  BY LiSides DEF LiInv
<1>2. <<cell>> \in LiText /\ Len(<<cell>>) = 1
  BY DEF LiText
<1>3. value \in LiText /\ liCursor + 1 \in 0 .. Len(value)
  BY <1>1, <1>2, Spliced
<1> HIDE DEF value
<1>4. CASE cell = " " \/ liLast # "type-word"
  <2>1. LiEdit(value, liCursor + 1, "type-word", LiPush)
    BY <1>4 DEF LiType, value
  <2> QED BY <1>3, <2>1, LiPushKeeps
<1>5. CASE ~(cell = " " \/ liLast # "type-word")
  <2>1. LiEdit(value, liCursor + 1, "type-word", liUndo)
    BY <1>5 DEF LiType, value
  <2>2. liUndo \in Seq(LiEntry) /\ liUndo # <<>> /\ LiLeadsBack(liUndo, liValue)
    BY <1>5 DEF LiInv, LiTypeOK
  <2>3. LiLeadsBack(liUndo, value)
    BY <2>2 DEF LiLeadsBack
  <2> QED BY <1>3, <2>1, <2>2, <2>3, LiEditKeeps
<1> QED BY <1>4, <1>5

LEMMA LiBackspaceKeeps == ASSUME LiInv, LiBackspace PROVE LiInv'
<1>1. /\ liCursor \in Nat /\ Len(liValue) \in Nat /\ liCursor <= Len(liValue)
      /\ LiBefore \in LiText /\ LiAfter \in LiText /\ Len(LiBefore) = liCursor
  BY LiSides DEF LiInv
<1>2. CASE liCursor > 0
  <2>1. LiEdit(Front(LiBefore) \o LiAfter, liCursor - 1, "none", LiPush)
    BY <1>2 DEF LiBackspace
  <2>2. LiBefore # <<>>
    BY <1>1, <1>2, EmptyLine
  <2>3. Front(LiBefore) \in LiText /\ Len(Front(LiBefore)) = liCursor - 1
    BY <1>1, <2>2, LastIs DEF LiText
  <2>4. Front(LiBefore) \o LiAfter \in LiText /\ Len(Front(LiBefore) \o LiAfter) = liCursor - 1 + Len(LiAfter)
    BY <1>1, <2>3, ConcatProperties DEF LiText
  <2>5. Len(LiAfter) \in Nat
    BY <1>1, LenProperties DEF LiText
  <2>6. liCursor - 1 \in 0 .. Len(Front(LiBefore) \o LiAfter)
    BY <1>1, <1>2, <2>4, <2>5
  <2> QED BY <2>1, <2>4, <2>6, LiPushKeeps
<1>3. CASE ~(liCursor > 0)
  <2>1. LiMoveTo(liCursor)
    BY <1>3 DEF LiBackspace
  <2> QED BY <1>1, <2>1, LiMoveKeeps
<1> QED BY <1>2, <1>3

LEMMA LiForwardDeleteKeeps == ASSUME LiInv, LiForwardDelete PROVE LiInv'
<1>1. /\ liCursor \in Nat /\ Len(liValue) \in Nat /\ liCursor <= Len(liValue)
      /\ LiBefore \in LiText /\ LiAfter \in LiText /\ Len(LiBefore) = liCursor
      /\ Len(LiAfter) = Len(liValue) - liCursor
  BY LiSides DEF LiInv
<1>2. CASE liCursor < Len(liValue)
  <2>1. LiEdit(LiBefore \o Tail(LiAfter), liCursor, "none", LiPush)
    BY <1>2 DEF LiForwardDelete
  <2>2. LiAfter # <<>>
    BY <1>1, <1>2, EmptyLine
  <2>3. Tail(LiAfter) \in LiText /\ Len(Tail(LiAfter)) \in Nat
    BY <1>1, <2>2, HeadTailProperties, LenProperties DEF LiText
  <2>4. LiBefore \o Tail(LiAfter) \in LiText /\ Len(LiBefore \o Tail(LiAfter)) = liCursor + Len(Tail(LiAfter))
    <3>1. LiBefore \in Seq(LiCell) /\ Tail(LiAfter) \in Seq(LiCell)
      BY <1>1, <2>3 DEF LiText
    <3>2. /\ LiBefore \o Tail(LiAfter) \in Seq(LiCell)
          /\ Len(LiBefore \o Tail(LiAfter)) = Len(LiBefore) + Len(Tail(LiAfter))
      BY <3>1, ConcatProperties
    <3> QED BY <1>1, <3>2 DEF LiText
  <2>5. liCursor \in 0 .. Len(LiBefore \o Tail(LiAfter))
    BY <1>1, <2>3, <2>4
  <2> QED BY <2>1, <2>4, <2>5, LiPushKeeps
<1>3. CASE ~(liCursor < Len(liValue))
  <2>1. LiMoveTo(liCursor)
    BY <1>3 DEF LiForwardDelete
  <2> QED BY <1>1, <2>1, LiMoveKeeps
<1> QED BY <1>2, <1>3

LEMMA LiUndoKeeps == ASSUME LiInv, LiUndoKey PROVE LiInv'
<1> DEFINE last == Last(liUndo)
           undo == Front(liUndo)
           n == Len(liUndo)
<1>1. liUndo \in Seq(LiEntry) /\ liUndo # <<>> /\ LiEdit(last.value, last.cursor, "none", undo)
  BY DEF LiInv, LiTypeOK, LiUndoKey
<1>2. /\ n \in Nat \ {0} /\ last \in LiEntry /\ last = liUndo[n]
      /\ undo \in Seq(LiEntry) /\ Len(undo) = n - 1
      /\ \A k \in 1 .. n - 1 : undo[k] = liUndo[k]
  BY <1>1, LastIs
<1>3. DOMAIN liUndo = 1 .. n /\ DOMAIN undo = 1 .. n - 1
  BY <1>1, <1>2, LenProperties
<1>4. liUndo[1].value = <<>> /\ \A i \in 1 .. n : liUndo[i].cursor \in 0 .. Len(liUndo[i].value)
  BY <1>1, <1>3 DEF LiInv, LiLeadsBack
<1> HIDE DEF last, undo, n
<1>5. last.value \in LiText /\ last.cursor \in 0 .. Len(last.value)
  <2>1. n \in 1 .. n
    BY <1>2
  <2> QED BY <1>2, <1>4, <2>1 DEF LiEntry
<1>6. LiLeadsBack(undo, last.value)
  <2>1. \A i \in DOMAIN undo : undo[i].cursor \in 0 .. Len(undo[i].value)
    <3> SUFFICES ASSUME NEW i \in DOMAIN undo PROVE undo[i].cursor \in 0 .. Len(undo[i].value)
      OBVIOUS
    <3>1. i \in 1 .. n - 1 /\ i \in 1 .. n
      BY <1>2, <1>3
    <3> QED BY <1>2, <1>4, <3>1
  <2>2. CASE undo = <<>>
    <3>1. n = 1
      BY <1>2, <2>2, EmptyLine
    <3> QED BY <1>2, <1>4, <2>1, <2>2, <3>1 DEF LiLeadsBack
  <2>3. CASE undo # <<>>
    <3>1. Len(undo) # 0
      BY <1>2, <2>3, EmptySeq
    <3>2. 1 \in 1 .. n - 1
      BY <1>2, <3>1
    <3>3. undo[1].value = <<>>
      BY <1>2, <1>4, <3>2
    <3> QED BY <2>1, <2>3, <3>3 DEF LiLeadsBack
  <2> QED BY <2>2, <2>3
<1> QED BY <1>1, <1>2, <1>5, <1>6, LiEditKeeps

(* A word ends within the text. *)
LEMMA LiWordType ==
    ASSUME NEW cells, Len(cells) \in Nat
    PROVE  LiWordLength(cells) \in 0 .. Len(cells)
<1> DEFINE n == Len(cells)
           S == {k \in 0 .. n : k < n => LiClass(cells[k + 1]) # "space"}
           start == Min(S)
           T == {k \in start .. n : k < n => LiClass(cells[k + 1]) # LiClass(cells[start + 1])}
<1>1. n \in S /\ S \subseteq Nat
  OBVIOUS
<1>2. start \in S
  <2> HIDE DEF S
  <2> QED BY <1>1, FirstPosition
<1>3. start \in Nat /\ start <= n
  BY <1>2
<1> HIDE DEF start
<1>4. n \in T /\ T \subseteq 0 .. n /\ T \subseteq Nat
  BY <1>3
<1>5. Min(T) \in T
  <2> HIDE DEF T
  <2> QED BY <1>4, FirstPosition
<1>6. LiWordLength(cells) = Min(T)
  BY DEF LiWordLength, start
<1> QED BY <1>4, <1>5, <1>6

LEMMA LiWords == ASSUME LiInv PROVE LiWordLeft \in 0 .. liCursor /\ LiWordRight \in liCursor .. Len(liValue)
<1>1. /\ liCursor \in Nat /\ Len(liValue) \in Nat /\ liCursor <= Len(liValue)
      /\ Len(LiBefore) = liCursor /\ Len(LiAfter) = Len(liValue) - liCursor
      /\ LiBefore \in LiText
  BY LiSides DEF LiInv
<1>2. Len(Reverse(LiBefore)) = liCursor
  <2>1. Reverse(LiBefore) = [i \in 1 .. liCursor |-> LiBefore[liCursor - i + 1]]
    BY <1>1 DEF Reverse
  <2>2. DOMAIN Reverse(LiBefore) = 1 .. liCursor
    BY <2>1
  <2>3. Reverse(LiBefore) \in Seq(LiCell)
    <3>1. \A i \in 1 .. liCursor : LiBefore[liCursor - i + 1] \in LiCell
      <4> SUFFICES ASSUME NEW i \in 1 .. liCursor PROVE LiBefore[liCursor - i + 1] \in LiCell
        OBVIOUS
      <4>1. liCursor - i + 1 \in 1 .. Len(LiBefore)
        BY <1>1
      <4> QED BY <1>1, <4>1, ElementOfSeq DEF LiText
    <3> QED BY <1>1, <2>1, <3>1, IsASeq
  <2> QED BY <1>1, <2>2, <2>3, LenProperties
<1>3. LiWordLength(Reverse(LiBefore)) \in 0 .. liCursor /\ LiWordLength(LiAfter) \in 0 .. Len(liValue) - liCursor
  BY <1>1, <1>2, LiWordType
<1> HIDE DEF LiBefore, LiAfter
<1> QED BY <1>1, <1>3 DEF LiWordLeft, LiWordRight

LEMMA LineJoins ==
    ASSUME NEW u \in LiText, NEW v \in LiText, NEW w \in LiText
    PROVE  (u \o v) \o w = u \o (v \o w) /\ u \o v \in LiText
<1>1. u \in Seq(LiCell) /\ v \in Seq(LiCell) /\ w \in Seq(LiCell)
  BY DEF LiText
<1>2. (u \o v) \o w = u \o (v \o w)
  BY <1>1, ConcatAssociative
<1>3. u \o v \in Seq(LiCell)
  BY <1>1, ConcatProperties
<1> QED BY <1>2, <1>3 DEF LiText

(* A kill at the cursor, backwards or forwards: what it cuts out and what it
   leaves are the line, and the entry of the ring goes where it came from.   *)
LEMMA LiKillKeeps ==
    ASSUME LiInv, NEW from \in 0 .. Len(liValue), NEW to \in from .. Len(liValue), NEW prepend \in BOOLEAN,
           IF prepend THEN to = liCursor ELSE from = liCursor, LiKill(from, to, prepend)
    PROVE  LiInv'
<1> DEFINE x == SubSeq(liValue, 1, from)
           t == SubSeq(liValue, from + 1, to)
           y == SubSeq(liValue, to + 1, Len(liValue))
           entry == Last(liRing')
<1>1. /\ liValue \in LiText /\ Len(liValue) \in Nat /\ liRing \in Seq(LiText)
      /\ liAround[1] \in LiText /\ liAround[2] \in LiText
  BY LiSides DEF LiInv, LiTypeOK
<1>2. to \in 0 .. Len(liValue) /\ from \in 0 .. to /\ 0 \in 0 .. Len(liValue)
  BY <1>1
<1>3. x \in LiText /\ Len(x) = from
  BY <1>1, Sides DEF LiText
<1>4. t \in LiText
  BY <1>1, Cut DEF LiText
<1>5. y \in LiText
  BY <1>1, <1>2, Sides DEF LiText
<1>6. x \o t = SubSeq(liValue, 1, to)
  <2>1. 1 \in 1 .. Len(liValue) + 1 /\ from \in 1 - 1 .. Len(liValue) /\ to \in from .. Len(liValue)
    BY <1>1
  <2> QED BY <1>1, <2>1, ConcatAdjacentSubSeq DEF LiText
<1>7. (x \o t) \o y = liValue
  BY <1>1, <1>2, <1>6, Sides DEF LiText
<1>8. t \o y = SubSeq(liValue, from + 1, Len(liValue))
  <2>1. from + 1 \in 1 .. Len(liValue) + 1 /\ to \in (from + 1) - 1 .. Len(liValue) /\ Len(liValue) \in to .. Len(liValue)
    BY <1>1
  <2> QED BY <1>1, <2>1, ConcatAdjacentSubSeq DEF LiText
<1>9. IF prepend THEN LiBefore = x \o t /\ LiAfter = y ELSE LiBefore = x /\ LiAfter = t \o y
  BY <1>6, <1>8 DEF LiBefore, LiAfter
<1>10. /\ liValue' = x \o y /\ liCursor' = from /\ liLast' = "kill" /\ liUndo' = LiPush
       /\ liRing' = LiRingWith(t, prepend) /\ liAround' = liAround
       /\ liRun' = IF liLast = "kill" THEN liRun ELSE liValue
  BY DEF LiKill
<1> HIDE DEF x, t, y
<1>11. x \o y \in LiText /\ SubSeq(x \o y, 1, from) = x /\ SubSeq(x \o y, from + 1, Len(x \o y)) = y
       /\ from \in 0 .. Len(x \o y)
  <2>1. x \o y \in LiText /\ Len(x \o y) = Len(x) + Len(y) /\ Len(y) \in Nat
    BY <1>3, <1>5, ConcatProperties, LenProperties DEF LiText
  <2>2. from \in 0 .. Len(x \o y)
    BY <1>1, <1>3, <2>1
  <2> QED BY <1>3, <1>5, <2>1, <2>2, Halves DEF LiText
<1>12. LiBefore' = x /\ LiAfter' = y
  BY <1>10, <1>11 DEF LiBefore, LiAfter
<1>13. ASSUME liLast = "kill"
       PROVE  liRing' \in Seq(LiText) /\ liRing' # <<>> /\ x \o Last(liRing') \o y = liRun'
  <2>1. liRing # <<>> /\ LiBefore \o Last(liRing) \o LiAfter = liRun
    BY <1>13 DEF LiInv, LiTypeOK, LiKillsRestore
  <2>2. Last(liRing) \in LiText /\ Front(liRing) \in Seq(LiText)
    BY <1>1, <2>1, LastIs
  <2>3. PICK old : old = Last(liRing)
    OBVIOUS
  <2>4. PICK all : all = IF prepend THEN t \o old ELSE old \o t
    OBVIOUS
  <2>5. all \in LiText
    BY <1>4, <2>2, <2>3, <2>4, ConcatProperties DEF LiText
  <2>6. liRing' = Append(Front(liRing), all)
    BY <1>10, <1>13, <2>1, <2>3, <2>4 DEF LiRingWith
  <2>7. liRing' \in Seq(LiText) /\ liRing' # <<>> /\ Last(liRing') = all
    BY <2>2, <2>5, <2>6, Added
  <2>8. x \o all \o y = liRun
    <3>1. CASE prepend
      <4>1. (x \o t) \o old \o y = liRun
        BY <1>9, <2>1, <2>3, <3>1
      <4>2. (x \o t) \o old = x \o (t \o old)
        BY <1>3, <1>4, <2>2, <2>3, LineJoins
      <4> QED BY <2>4, <3>1, <4>1, <4>2
    <3>2. CASE ~prepend
      <4>1. (x \o old) \o (t \o y) = liRun
        BY <1>9, <2>1, <2>3, <3>2
      <4>2. x \o old \in LiText
        BY <1>3, <2>2, <2>3, ConcatProperties DEF LiText
      <4>3. (x \o old) \o (t \o y) = ((x \o old) \o t) \o y
        <5> DEFINE xo == x \o old
        <5>1. xo \in LiText
          BY <4>2
        <5> HIDE DEF xo
        <5>2. (xo \o t) \o y = xo \o (t \o y)
          BY <1>4, <1>5, <5>1, LineJoins
        <5> QED BY <5>2 DEF xo
      <4>4. (x \o old) \o t = x \o (old \o t)
        BY <1>3, <1>4, <2>2, <2>3, LineJoins
      <4> QED BY <2>4, <3>2, <4>1, <4>3, <4>4
    <3> QED BY <3>1, <3>2
  <2> QED BY <1>10, <1>13, <2>7, <2>8
<1>14. ASSUME liLast # "kill"
       PROVE  liRing' \in Seq(LiText) /\ liRing' # <<>> /\ x \o Last(liRing') \o y = liRun'
  <2>1. liRing' = Append(liRing, t)
    BY <1>10, <1>14 DEF LiRingWith
  <2>2. liRing' \in Seq(LiText) /\ liRing' # <<>> /\ Last(liRing') = t
    BY <1>1, <1>4, <2>1, Added
  <2> QED BY <1>7, <1>10, <1>14, <2>2
<1>15. liRing' \in Seq(LiText) /\ liRing' # <<>> /\ x \o Last(liRing') \o y = liRun'
  BY <1>13, <1>14
<1>16. LiPush \in Seq(LiEntry) /\ LiLeadsBack(LiPush, x \o y)
  BY LiPushed
<1>17. LiTypeOK'
  BY <1>1, <1>10, <1>11, <1>15, <1>16 DEF LiTypeOK
<1>18. LiKillsRestore'
  BY <1>12, <1>15 DEF LiKillsRestore
<1>19. LiYankStaysPut'
  BY <1>10 DEF LiYankStaysPut
<1>20. LiLeadsBack(liUndo, liValue)'
  BY <1>10, <1>16 DEF LiLeadsBack
<1> QED BY <1>17, <1>18, <1>19, <1>20 DEF LiInv

LEMMA LiKillsKeep ==
    ASSUME LiInv, LiDeleteToLineStart \/ LiDeleteToLineEnd \/ LiDeleteWordBackwards \/ LiDeleteWordForward
    PROVE  LiInv'
<1>1. liCursor \in Nat /\ Len(liValue) \in Nat /\ liCursor <= Len(liValue)
  BY LiSides DEF LiInv
<1>2. liCursor \in 0 .. Len(liValue) /\ liCursor \in liCursor .. Len(liValue) /\ Len(liValue) \in liCursor .. Len(liValue)
      /\ 0 \in 0 .. Len(liValue) /\ liCursor \in 0 .. Len(liValue)
  BY <1>1
<1>3. CASE LiDeleteToLineStart
  BY <1>2, <1>3, LiKillKeeps DEF LiDeleteToLineStart
<1>4. CASE LiDeleteToLineEnd
  BY <1>2, <1>4, LiKillKeeps DEF LiDeleteToLineEnd
<1>5. CASE LiDeleteWordBackwards
  <2>1. LiWordLeft \in 0 .. Len(liValue) /\ liCursor \in LiWordLeft .. Len(liValue)
    BY <1>1, LiWords
  <2> QED BY <1>5, <2>1, LiKillKeeps DEF LiDeleteWordBackwards
<1>6. CASE LiDeleteWordForward
  <2>1. LiWordRight \in liCursor .. Len(liValue)
    BY <1>1, LiWords
  <2> QED BY <1>2, <1>6, <2>1, LiKillKeeps DEF LiDeleteWordForward
<1> QED BY <1>3, <1>4, <1>5, <1>6

LEMMA LiYankKeeps == ASSUME LiInv, LiYank PROVE LiInv'
<1> DEFINE x == LiBefore
           y == LiAfter
           t == Last(liRing)
<1>1. /\ liRing \in Seq(LiText) /\ liRing # <<>>
      /\ x \in LiText /\ y \in LiText /\ Len(x) = liCursor
  BY LiSides DEF LiInv, LiTypeOK, LiYank
<1>2. t \in LiText
  BY <1>1, LastIs
<1>3. /\ liValue' = x \o t \o y /\ liCursor' = Len(x) + Len(t) /\ liLast' = "yank" /\ liUndo' = LiPush
      /\ liAround' = <<x, y>> /\ liRing' = liRing
  BY <1>1 DEF LiYank
<1> HIDE DEF x, y, t
<1>4. x \o t \o y \in LiText /\ Len(x) + Len(t) \in 0 .. Len(x \o t \o y)
  BY <1>1, <1>2, Spliced
<1>5. LiPush \in Seq(LiEntry) /\ LiLeadsBack(LiPush, x \o t \o y)
  BY LiPushed
<1>6. LiTypeOK'
  BY <1>1, <1>3, <1>4, <1>5 DEF LiTypeOK
<1>7. LiKillsRestore'
  BY <1>3 DEF LiKillsRestore
<1>8. Last(liRing') = t
  BY <1>3 DEF t
<1>9. LiYankStaysPut'
  BY <1>3, <1>8 DEF LiYankStaysPut
<1>10. LiLeadsBack(liUndo, liValue)'
  BY <1>3, <1>5 DEF LiLeadsBack
<1> QED BY <1>6, <1>7, <1>9, <1>10 DEF LiInv

(* The newest entry is put in front of the others. *)
LEMMA LiRotatedIs ==
    ASSUME liRing \in Seq(LiText), Len(liRing) > 1
    PROVE  LiRotated \in Seq(LiText) /\ LiRotated # <<>> /\ Last(LiRotated) \in LiText
<1>1. liRing # <<>>
  BY EmptyLine
<1>2. Last(liRing) \in LiText /\ Front(liRing) \in Seq(LiText) /\ Len(Front(liRing)) = Len(liRing) - 1 /\ Len(liRing) \in Nat
  BY <1>1, LastIs
<1>3. <<Last(liRing)>> \in Seq(LiText) /\ Len(<<Last(liRing)>>) = 1
  BY <1>2
<1>4. LiRotated \in Seq(LiText) /\ Len(LiRotated) = 1 + (Len(liRing) - 1)
  BY <1>2, <1>3, ConcatProperties DEF LiRotated
<1>5. LiRotated # <<>>
  BY <1>2, <1>4, EmptyLine
<1> QED BY <1>4, <1>5, LastIs

LEMMA LiYankPopKeeps == ASSUME LiInv, LiYankPop PROVE LiInv'
<1> DEFINE old == Last(liRing)
           x == liAround[1]
           y == liAround[2]
           kept == SubSeq(liValue, 1, liCursor - Len(old))
           t == Last(LiRotated)
<1>1. /\ liRing \in Seq(LiText) /\ Len(liRing) > 1 /\ liLast = "yank" /\ liRing # <<>>
      /\ x \in LiText /\ y \in LiText
      /\ liValue = x \o old \o y /\ liCursor = Len(x) + Len(old)
  BY DEF LiInv, LiTypeOK, LiYankStaysPut, LiYankPop
<1>2. old \in LiText /\ t \in LiText /\ LiRotated \in Seq(LiText) /\ LiRotated # <<>>
  BY <1>1, LastIs, LiRotatedIs
<1>3. /\ liValue' = kept \o t \o LiAfter /\ liCursor' = Len(kept \o t)
      /\ liRing' = LiRotated /\ liUndo' = LiPush /\ liLast' = "yank" /\ liAround' = liAround
  BY <1>1 DEF LiYankPop, liGhost
<1> HIDE DEF old, x, y, t
<1>13. x \in LiText /\ old \in LiText /\ y \in LiText
  BY <1>1, <1>2
<1>4. LiAfter = y
  <2>1. SubSeq(x \o old \o y, Len(x) + Len(old) + 1, Len(x \o old \o y)) = y
    BY <1>13, Spliced
  <2> QED BY <1>1, <2>1 DEF LiAfter
<1>5. kept = x
  <2>1. liCursor - Len(old) = Len(x)
    BY <1>1, <1>2, LenProperties DEF LiText
  <2>2. old \o y \in LiText /\ x \o old \o y = x \o (old \o y)
    <3>1. x \o old \o y = x \o (old \o y)
      BY <1>13, ConcatAssociative DEF LiText
    <3>2. old \o y \in LiText
      BY <1>13, ConcatProperties DEF LiText
    <3> QED BY <3>1, <3>2
  <2>3. SubSeq(x \o (old \o y), 1, Len(x)) = x
    BY <1>1, <2>2, Halves DEF LiText
  <2> QED BY <1>1, <2>1, <2>2, <2>3
<1> HIDE DEF kept
<1>6. liValue' = x \o t \o y /\ liCursor' = Len(x) + Len(t)
  <2>1. Len(x \o t) = Len(x) + Len(t)
    BY <1>1, <1>2, Spliced
  <2> QED BY <1>3, <1>4, <1>5, <2>1
<1>7. x \o t \o y \in LiText /\ Len(x) + Len(t) \in 0 .. Len(x \o t \o y)
  BY <1>1, <1>2, Spliced
<1>8. LiPush \in Seq(LiEntry) /\ LiLeadsBack(LiPush, x \o t \o y)
  BY LiPushed
<1>9. LiTypeOK'
  <2>1. liAround'[1] \in LiText /\ liAround'[2] \in LiText
    BY <1>1, <1>3 DEF x, y
  <2> QED BY <1>2, <1>3, <1>6, <1>7, <1>8, <2>1 DEF LiTypeOK
<1>10. LiKillsRestore'
  BY <1>3 DEF LiKillsRestore
<1>11. LiYankStaysPut'
  <2>1. Last(liRing') = t
    BY <1>3 DEF t
  <2>2. liAround'[1] = x /\ liAround'[2] = y
    BY <1>3 DEF x, y
  <2> QED BY <1>6, <2>1, <2>2 DEF LiYankStaysPut
<1>12. LiLeadsBack(liUndo, liValue)'
  BY <1>3, <1>6, <1>8 DEF LiLeadsBack
<1> QED BY <1>9, <1>10, <1>11, <1>12 DEF LiInv

(* Texts put one after the other are a text: the function FlattenSeq builds
   exists, and the first of its values that is none would follow one that is. *)
FlatStep(texts, f, i) == IF i = 1 THEN texts[i] ELSE f[i - 1] \o texts[i]

LEMMA FlatExists ==
    ASSUME NEW texts, NEW n \in Nat
    PROVE  \E f : f = [i \in 1 .. n |-> FlatStep(texts, f, i)]
<1> DEFINE Defined(k) == \E f : f = [i \in 1 .. k |-> FlatStep(texts, f, i)]
           C == {k \in Nat : ~Defined(k)}
<1>1. SUFFICES ASSUME C # {} PROVE FALSE
  OBVIOUS
<1>2. PICK m \in C : \A k \in C : m <= k
  BY <1>1, LeastPosition
<1>3. m \in Nat /\ ~Defined(m)
  BY <1>2
<1>4. m # 0
  <2> DEFINE f == [i \in 1 .. 0 |-> 0]
  <2>1. f = [i \in 1 .. 0 |-> FlatStep(texts, f, i)]
    OBVIOUS
  <2>2. Defined(0)
    BY <2>1
  <2> QED BY <1>3, <2>2
<1>5. m - 1 \in Nat /\ ~(m <= m - 1)
  BY <1>3, <1>4
<1>6. Defined(m - 1)
  BY <1>2, <1>5
<1>7. PICK f : f = [i \in 1 .. m - 1 |-> FlatStep(texts, f, i)]
  BY <1>6
<1> DEFINE g == [i \in 1 .. m |-> IF i < m THEN f[i] ELSE FlatStep(texts, f, m)]
<1>8. ASSUME NEW i \in 1 .. m PROVE g[i] = FlatStep(texts, g, i)
  <2>1. i \in Nat /\ i >= 1 /\ i <= m
    BY <1>3
  <2>2. i # 1 => f[i - 1] = g[i - 1]
    <3> SUFFICES ASSUME i # 1 PROVE f[i - 1] = g[i - 1]
      OBVIOUS
    <3>1. i - 1 \in 1 .. m /\ i - 1 < m
      BY <1>3, <2>1
    <3> QED BY <3>1
  <2>3. FlatStep(texts, f, i) = FlatStep(texts, g, i)
    BY <2>2 DEF FlatStep
  <2>4. g[i] = FlatStep(texts, f, i)
    <3>1. CASE i < m
      <4>1. i \in 1 .. m - 1
        BY <1>3, <2>1, <3>1
      <4> QED BY <1>7, <3>1, <4>1
    <3>2. CASE i = m
      BY <1>3, <3>2
    <3> QED BY <1>3, <2>1, <3>1, <3>2
  <2> QED BY <2>3, <2>4
<1>9. g = [i \in 1 .. m |-> FlatStep(texts, g, i)]
  BY <1>8
<1> QED BY <1>3, <1>9

LEMMA Flattened ==
    ASSUME NEW texts \in Seq(LiText)
    PROVE  FlattenSeq(texts) \in LiText
<1> DEFINE n == Len(texts)
           Is(f) == f = [i \in 1 .. n |-> IF i = 1 THEN texts[i] ELSE f[i - 1] \o texts[i]]
           flat == CHOOSE f : Is(f)
<1>1. n \in Nat /\ \A i \in 1 .. n : texts[i] \in LiText
  BY LenProperties, ElementOfSeq
<1>2. \E f : Is(f)
  <2>1. \E f : f = [i \in 1 .. n |-> FlatStep(texts, f, i)]
    BY <1>1, FlatExists
  <2> QED BY <2>1 DEF FlatStep
<1>3. Is(flat)
  BY <1>2
<1>4. \A i \in 1 .. n : flat[i] = IF i = 1 THEN texts[i] ELSE flat[i - 1] \o texts[i]
  <2> HIDE DEF flat
  <2> QED BY <1>3
<1>5. FlattenSeq(texts) = IF n = 0 THEN texts ELSE flat[n]
  BY DEF FlattenSeq
<1> HIDE DEF flat
<1> DEFINE C == {i \in 1 .. n : flat[i] \notin LiText}
<1>6. C = {}
  <2>1. SUFFICES ASSUME C # {} PROVE FALSE
    OBVIOUS
  <2>2. C \subseteq Nat
    BY <1>1
  <2>3. PICK m \in C : \A k \in C : m <= k
    BY <2>1, <2>2, LeastPosition
  <2>4. m \in 1 .. n /\ flat[m] \notin LiText /\ m \in Nat
    BY <1>1, <2>3
  <2>5. m # 1
    BY <1>1, <1>4, <2>4
  <2>6. m - 1 \in 1 .. n /\ ~(m <= m - 1)
    BY <1>1, <2>4, <2>5
  <2>7. flat[m - 1] \in LiText
    BY <2>3, <2>6
  <2>8. flat[m] = flat[m - 1] \o texts[m]
    BY <1>4, <2>4, <2>5
  <2>9. texts[m] \in LiText
    BY <1>1, <2>4
  <2>10. flat[m - 1] \o texts[m] \in LiText
    BY <2>7, <2>9, ConcatProperties DEF LiText
  <2> QED BY <2>4, <2>8, <2>10
<1>7. CASE n = 0
  BY <1>5, <1>7, EmptyLine, EmptySeq
<1>8. CASE n # 0
  <2>1. n \in 1 .. n
    BY <1>1, <1>8
  <2>2. flat[n] \in LiText
    BY <1>6, <2>1
  <2> QED BY <1>5, <1>8, <2>2
<1> QED BY <1>7, <1>8

LEMMA LiCleanType == ASSUME NEW text \in LiPastes PROVE LiClean(text) \in LiText
<1> DEFINE Of(cell) == IF cell = "nl" THEN <<>> ELSE IF cell = "tab" THEN <<" ", " ">> ELSE <<cell>>
           texts == [i \in DOMAIN text |-> Of(text[i])]
<1>1. text \in Seq(LiCell \cup {"nl", "tab"})
  BY LiAssumption
<1>2. DOMAIN text = 1 .. Len(text) /\ Len(text) \in Nat /\ \A i \in 1 .. Len(text) : text[i] \in LiCell \cup {"nl", "tab"}
  BY <1>1, LenProperties, ElementOfSeq
<1>3. ASSUME NEW cell \in LiCell \cup {"nl", "tab"} PROVE Of(cell) \in LiText
  <2>1. <<>> \in LiText /\ <<" ", " ">> \in LiText
    <3>1. " " \in LiCell
      BY DEF LiCell
    <3>2. \A cell1 \in LiCell : <<cell1, cell1>> \in Seq(LiCell)
      OBVIOUS
    <3> QED BY <3>1, <3>2, EmptyLine DEF LiText
  <2>2. cell \in LiCell => <<cell>> \in LiText
    BY DEF LiText
  <2> QED BY <2>1, <2>2
<1> HIDE DEF Of
<1>4. texts \in Seq(LiText)
  BY <1>2, <1>3, IsASeq
<1>5. LiClean(text) = FlattenSeq(texts)
  BY DEF LiClean, Of
<1> QED BY <1>4, <1>5, Flattened

LEMMA LiPasteKeeps == ASSUME LiInv, NEW text \in LiPastes, LiPaste(text) PROVE LiInv'
<1> DEFINE t == LiClean(text)
           value == LiBefore \o t \o LiAfter
<1>1. t \in LiText
  BY LiCleanType
<1>2. LiBefore \in LiText /\ LiAfter \in LiText /\ Len(LiBefore) = liCursor
  BY LiSides DEF LiInv
<1>3. LiEdit(value, liCursor + Len(t), "none", LiPush)
  BY DEF LiPaste
<1> HIDE DEF t
<1>4. value \in LiText /\ Len(LiBefore) + Len(t) \in 0 .. Len(value)
  BY <1>1, <1>2, Spliced
<1> HIDE DEF value
<1> QED BY <1>2, <1>3, <1>4, LiPushKeeps

LEMMA LiCursorKeeps ==
    ASSUME LiInv,
           LiCursorLeft \/ LiCursorRight \/ LiLineStart \/ LiLineEnd \/ LiCursorWordLeft \/ LiCursorWordRight
    PROVE  LiInv'
<1>1. liCursor \in Nat /\ Len(liValue) \in Nat /\ liCursor <= Len(liValue)
  BY LiSides DEF LiInv
<1>2. PICK cursor : cursor \in 0 .. Len(liValue) /\ LiMoveTo(cursor)
  <2>1. CASE LiCursorLeft
    BY <1>1, <2>1 DEF LiCursorLeft
  <2>2. CASE LiCursorRight
    BY <1>1, <2>2 DEF LiCursorRight
  <2>3. CASE LiLineStart \/ LiLineEnd
    BY <1>1, <2>3 DEF LiLineStart, LiLineEnd
  <2>4. CASE LiCursorWordLeft \/ LiCursorWordRight
    <3>1. LiWordLeft \in 0 .. Len(liValue) /\ LiWordRight \in 0 .. Len(liValue)
      BY <1>1, LiWords
    <3> QED BY <2>4, <3>1 DEF LiCursorWordLeft, LiCursorWordRight
  <2> QED BY <2>1, <2>2, <2>3, <2>4
<1> QED BY <1>2, LiMoveKeeps

LEMMA LiNextKeeps == LiInv /\ [LiNext]_liVars => LiInv'
<1> SUFFICES ASSUME LiInv, [LiNext]_liVars PROVE LiInv'
  OBVIOUS
<1>1. ASSUME NEW cell \in LiCell, LiType(cell) PROVE LiInv'
  BY <1>1, LiTypeKeeps
<1>2. ASSUME NEW text \in LiPastes, LiPaste(text) PROVE LiInv'
  BY <1>2, LiPasteKeeps
<1>3. CASE LiUndoKey \/ LiBackspace \/ LiForwardDelete
  BY <1>3, LiUndoKeeps, LiBackspaceKeeps, LiForwardDeleteKeeps
<1>4. CASE LiDeleteWordBackwards \/ LiDeleteWordForward \/ LiDeleteToLineStart \/ LiDeleteToLineEnd
  BY <1>4, LiKillsKeep
<1>5. CASE LiYank \/ LiYankPop
  BY <1>5, LiYankKeeps, LiYankPopKeeps
<1>6. CASE LiCursorLeft \/ LiCursorRight \/ LiLineStart \/ LiLineEnd \/ LiCursorWordLeft \/ LiCursorWordRight
  BY <1>6, LiCursorKeeps
<1>7. CASE UNCHANGED liVars
  BY <1>7 DEF LiInv, LiTypeOK, LiKillsRestore, LiYankStaysPut, LiLeadsBack, LiBefore, LiAfter, liVars, liGhost
<1> QED BY <1>1, <1>2, <1>3, <1>4, <1>5, <1>6, <1>7 DEF LiNext

LEMMA LiInitIs == LiInit => LiInv
<1> SUFFICES ASSUME LiInit PROVE LiInv
  OBVIOUS
<1>1. liRing \in Seq(LiText)
  BY LiAssumption DEF LiInit, LiText
<1>2. <<>> \in Seq(LiEntry) /\ DOMAIN <<>> = {}
  BY EmptySeq
<1>3. LiTypeOK
  BY <1>1, <1>2, EmptyLine DEF LiInit, LiTypeOK
<1>4. LiLeadsBack(liUndo, liValue)
  BY <1>2 DEF LiInit, LiLeadsBack
<1> QED BY <1>3, <1>4 DEF LiInit, LiInv, LiKillsRestore, LiYankStaysPut

-----------------------------------------------------------------------------
(* What the line shows.                                                      *)

LEMMA WidthIs ==
    ASSUME NEW cells \in LiText
    PROVE  /\ IsFiniteSet({i \in DOMAIN cells : cells[i] = "W"})
           /\ Cardinality({i \in DOMAIN cells : cells[i] = "W"}) \in Nat
           /\ LiWidth(cells) \in Nat /\ LiWidth(cells) >= Len(cells)
<1> DEFINE wide == {i \in DOMAIN cells : cells[i] = "W"}
<1>1. DOMAIN cells = 1 .. Len(cells) /\ Len(cells) \in Nat
  BY LenProperties DEF LiText
<1>2. IsFiniteSet(1 .. Len(cells))
  BY <1>1, FS_Interval
<1>3. IsFiniteSet(wide)
  BY <1>1, <1>2, FS_Subset
<1>4. Cardinality(wide) \in Nat
  BY <1>3, FS_CardinalityType
<1>5. LiWidth(cells) = Len(cells) + Cardinality(wide)
  BY DEF LiWidth
<1> HIDE DEF wide
<1>6. LiWidth(cells) \in Nat /\ LiWidth(cells) >= Len(cells)
  BY <1>1, <1>4, <1>5
<1> QED BY <1>3, <1>4, <1>6 DEF wide

(* The columns of two texts put together are those of both. *)
LEMMA WidthAdds ==
    ASSUME NEW x \in LiText, NEW y \in LiText
    PROVE  LiWidth(x \o y) = LiWidth(x) + LiWidth(y)
<1> DEFINE s == x \o y
           n == Len(x)
           A == {i \in DOMAIN x : x[i] = "W"}
           B == {i \in DOMAIN y : y[i] = "W"}
           C == {i \in DOMAIN s : s[i] = "W"}
           D == {i \in C : i > n}
           f == [i \in B |-> n + i]
<1>1. /\ s \in LiText /\ Len(s) = n + Len(y) /\ n \in Nat /\ Len(y) \in Nat
      /\ \A i \in 1 .. n + Len(y) : s[i] = IF i <= n THEN x[i] ELSE y[i - n]
      /\ DOMAIN x = 1 .. n /\ DOMAIN y = 1 .. Len(y)
  BY ConcatProperties, LenProperties DEF LiText
<1>2. DOMAIN s = 1 .. n + Len(y)
  BY <1>1, LenProperties DEF LiText
<1> HIDE DEF s
<1>3. C = A \cup D
  <2>1. ASSUME NEW i \in C, ~(i > n) PROVE i \in A
    <3>1. i \in 1 .. n + Len(y) /\ s[i] = "W"
      BY <1>2
    <3>2. i <= n /\ i \in 1 .. n
      BY <1>1, <2>1, <3>1
    <3> QED BY <1>1, <3>1, <3>2
  <2>2. ASSUME NEW i \in A PROVE i \in C
    <3>1. i \in 1 .. n /\ x[i] = "W"
      BY <1>1
    <3>2. i \in 1 .. n + Len(y) /\ i <= n
      BY <1>1, <3>1
    <3> QED BY <1>1, <1>2, <3>1, <3>2
  <2> QED BY <2>1, <2>2
<1>4. A \cap D = {}
  BY <1>1
<1>5. f \in Bijection(B, D)
  <2>1. ASSUME NEW i \in B PROVE n + i \in D
    <3>1. i \in 1 .. Len(y) /\ y[i] = "W"
      BY <1>1
    <3>2. n + i \in 1 .. n + Len(y) /\ ~(n + i <= n) /\ n + i > n /\ n + i - n = i
      BY <1>1, <3>1
    <3>3. s[n + i] = y[n + i - n]
      BY <1>1, <3>2
    <3>4. s[n + i] = "W"
      BY <3>1, <3>2, <3>3
    <3> QED BY <1>2, <3>2, <3>4
  <2>2. ASSUME NEW j \in D PROVE \E i \in B : j = n + i
    <3>1. j \in 1 .. n + Len(y) /\ s[j] = "W" /\ j > n
      BY <1>2
    <3>2. j - n \in 1 .. Len(y) /\ ~(j <= n) /\ n + (j - n) = j
      BY <1>1, <3>1
    <3>3. y[j - n] = "W"
      BY <1>1, <3>1, <3>2
    <3>4. j - n \in B
      BY <1>1, <3>2, <3>3
    <3> QED BY <3>2, <3>4
  <2>3. \A i, j \in B : n + i = n + j => i = j
    BY <1>1
  <2> HIDE DEF B, D
  <2>4. f \in [B -> D] /\ \A i \in B : f[i] = n + i
    BY <2>1
  <2> HIDE DEF f
  <2>5. \A i, j \in B : f[i] = f[j] => i = j
    BY <2>3, <2>4
  <2>6. \A j \in D : \E i \in B : f[i] = j
    BY <2>2, <2>4
  <2> QED BY <2>4, <2>5, <2>6, Zenon DEF Bijection, Injection, Surjection, IsInjective
<1>6. IsFiniteSet(A) /\ IsFiniteSet(B) /\ Cardinality(A) \in Nat /\ Cardinality(B) \in Nat
  BY WidthIs
<1> HIDE DEF A, B, C, D, f
<1>7. IsFiniteSet(D) /\ Cardinality(D) = Cardinality(B)
  BY <1>5, <1>6, FS_Bijection DEF ExistsBijection
<1>8. Cardinality(A \cup D) = Cardinality(A) + Cardinality(D)
  <2>1. Cardinality(A \cup D) = Cardinality(A) + Cardinality(D) - Cardinality(A \cap D)
    BY <1>6, <1>7, FS_Union
  <2>2. Cardinality(A \cap D) = 0
    BY <1>4, FS_EmptySet
  <2> QED BY <1>6, <1>7, <2>1, <2>2
<1>9. /\ LiWidth(s) = Len(s) + Cardinality(C)
      /\ LiWidth(x) = n + Cardinality(A)
      /\ LiWidth(y) = Len(y) + Cardinality(B)
  BY DEF LiWidth, A, B, C, s
<1>10. LiWidth(s) = (n + Cardinality(A)) + (Len(y) + Cardinality(B))
  BY <1>1, <1>3, <1>6, <1>7, <1>8, <1>9
<1> QED BY <1>9, <1>10 DEF s

(* A blank takes one column, a cell one or two. *)
LEMMA BlankAdds == ASSUME NEW cells \in LiText PROVE LiWidth(Append(cells, " ")) = LiWidth(cells) + 1
<1> DEFINE blank == <<" ">>
<1>1. " " \in LiCell /\ blank \in LiText
  <2>1. " " \in LiCell
    BY DEF LiCell
  <2>2. \A cell \in LiCell : <<cell>> \in Seq(LiCell)
    OBVIOUS
  <2> QED BY <2>1, <2>2 DEF LiText
<1>2. Append(cells, " ") = cells \o blank
  BY <1>1, AppendIsConcat DEF LiText
<1>3. Len(blank) = 1 /\ \A i \in DOMAIN blank : blank[i] # "W"
  <2>1. Len(blank) = 1 /\ DOMAIN blank = 1 .. 1
    OBVIOUS
  <2>2. blank[1] = " "
    OBVIOUS
  <2>3. " " # "W" /\ \A i \in 1 .. 1 : i = 1
    OBVIOUS
  <2> HIDE DEF blank
  <2>4. \A i \in DOMAIN blank : i = 1
    BY <2>1, <2>3
  <2> QED BY <2>1, <2>2, <2>3, <2>4
<1> HIDE DEF blank
<1>4. {i \in DOMAIN blank : blank[i] = "W"} = {}
  BY <1>3
<1>5. LiWidth(blank) = 1 + 0
  BY <1>3, <1>4, FS_EmptySet DEF LiWidth
<1>6. LiWidth(cells \o blank) = LiWidth(cells) + LiWidth(blank)
  BY <1>1, WidthAdds
<1>7. LiWidth(blank) = 1
  BY <1>5
<1> QED BY <1>2, <1>6, <1>7

LEMMA OneCell == ASSUME NEW cells \in LiText, Len(cells) = 1 PROVE LiWidth(cells) \in {1, 2}
<1> DEFINE wide == {i \in DOMAIN cells : cells[i] = "W"}
<1>1. wide \subseteq {1}
  BY LenProperties DEF LiText
<1>2. IsFiniteSet({1}) /\ Cardinality({1}) = 1
  BY FS_Singleton
<1>3. Cardinality(wide) \in Nat /\ Cardinality(wide) <= 1
  BY <1>1, <1>2, WidthIs, FS_Subset
<1>4. LiWidth(cells) = 1 + Cardinality(wide)
  BY DEF LiWidth
<1> HIDE DEF wide
<1> QED BY <1>3, <1>4

(* The columns before a position, and those of what is between two. *)
LEMMA ColumnsBetween ==
    ASSUME LiTypeOK, NEW i \in 0 .. Len(liValue), NEW j \in i .. Len(liValue)
    PROVE  /\ LiColumn(i) \in Nat /\ LiColumn(j) \in Nat
           /\ SubSeq(liValue, i + 1, j) \in LiText
           /\ LiWidth(SubSeq(liValue, i + 1, j)) = LiColumn(j) - LiColumn(i)
           /\ LiColumn(j) >= LiColumn(i) + (j - i)
           /\ j = i + 1 => LiColumn(j) <= LiColumn(i) + 2
<1> DEFINE x == SubSeq(liValue, 1, i)
           y == SubSeq(liValue, i + 1, j)
<1>1. liValue \in Seq(LiCell) /\ Len(liValue) \in Nat
  BY LenProperties DEF LiTypeOK, LiText
<1>2. i \in 0 .. Len(liValue) /\ j \in 0 .. Len(liValue) /\ i \in Nat /\ j \in Nat /\ i <= j
  BY <1>1
<1>3. x \in LiText
  BY <1>1, Sides DEF LiText
<1>4. y \in LiText /\ Len(y) = j - i
  BY <1>1, <1>2, Cut DEF LiText
<1>5. x \o y = SubSeq(liValue, 1, j)
  <2>1. 1 \in 1 .. Len(liValue) + 1 /\ i \in 1 - 1 .. Len(liValue) /\ j \in i .. Len(liValue)
    BY <1>1, <1>2
  <2> QED BY <1>1, <2>1, ConcatAdjacentSubSeq
<1>6. LiColumn(i) = LiWidth(x) /\ LiColumn(j) = LiWidth(x \o y)
  BY <1>5 DEF LiColumn
<1> HIDE DEF x, y
<1>7. LiWidth(x \o y) = LiWidth(x) + LiWidth(y)
  BY <1>3, <1>4, WidthAdds
<1>8. LiWidth(x) \in Nat /\ LiWidth(y) \in Nat /\ LiWidth(y) >= j - i
  BY <1>3, <1>4, WidthIs
<1>9. j = i + 1 => LiWidth(y) \in {1, 2}
  BY <1>2, <1>4, OneCell
<1>10. LiWidth(y) = LiColumn(j) - LiColumn(i)
  BY <1>6, <1>7, <1>8
<1>11. LiColumn(j) >= LiColumn(i) + (j - i) /\ (j = i + 1 => LiColumn(j) <= LiColumn(i) + 2)
  BY <1>2, <1>6, <1>7, <1>8, <1>9
<1>12. LiColumn(i) \in Nat /\ LiColumn(j) \in Nat
  BY <1>6, <1>7, <1>8
<1> QED BY <1>4, <1>10, <1>11, <1>12 DEF y

LEMMA ColumnEnds == ASSUME LiTypeOK PROVE LiColumn(0) = 0 /\ LiColumn(Len(liValue)) = LiWidth(liValue)
<1>1. liValue \in Seq(LiCell) /\ Len(liValue) \in Nat
  BY LenProperties DEF LiTypeOK, LiText
<1>2. LiColumn(Len(liValue)) = LiWidth(liValue)
  BY <1>1, SubSeqFull DEF LiColumn
<1>3. 0 \in 0 .. Len(liValue) /\ 0 \in 0 .. 0 /\ 0 + 1 = 1
  BY <1>1
<1>4. LiWidth(SubSeq(liValue, 1, 0)) = LiColumn(0) - LiColumn(0) /\ LiColumn(0) \in Nat
  <2>1. 0 \in 0 .. Len(liValue)
    BY <1>3
  <2> QED BY <1>1, <1>3, ColumnsBetween
<1>5. LiColumn(0) = LiWidth(SubSeq(liValue, 1, 0))
  BY DEF LiColumn
<1>6. LiColumn(0) = 0
  <2> DEFINE k == LiColumn(0)
  <2>1. k \in Nat /\ k = k - k
    BY <1>4, <1>5
  <2> HIDE DEF k
  <2>2. k = 0
    BY <2>1
  <2> QED BY <2>2 DEF k
<1> QED BY <1>2, <1>6

(* The cells between two columns: the first that does not begin before them
   to the last that does not reach beyond.                                   *)
LEMMA SliceIs ==
    ASSUME LiTypeOK, NEW from \in Nat, NEW to \in Nat, from <= LiWidth(liValue)
    PROVE  /\ LiFrom(from) \in 0 .. Len(liValue) /\ LiColumn(LiFrom(from)) >= from
           /\ \A i \in 0 .. Len(liValue) : LiColumn(i) >= from => LiFrom(from) <= i
           /\ LiUpTo(to) \in 0 .. Len(liValue) /\ LiColumn(LiUpTo(to)) <= to
           /\ \A i \in 0 .. Len(liValue) : LiColumn(i) <= to => i <= LiUpTo(to)
           /\ LiSlice(from, to) \in LiText
           /\ LiFrom(from) <= LiUpTo(to) =>
                  /\ Len(LiSlice(from, to)) = LiUpTo(to) - LiFrom(from)
                  /\ LiWidth(LiSlice(from, to)) = LiColumn(LiUpTo(to)) - LiColumn(LiFrom(from))
                  /\ \A k \in 1 .. LiUpTo(to) - LiFrom(from) : LiSlice(from, to)[k] = liValue[LiFrom(from) + k]
           /\ ~(LiFrom(from) <= LiUpTo(to)) => Len(LiSlice(from, to)) = 0 /\ LiWidth(LiSlice(from, to)) = 0
<1> DEFINE n == Len(liValue)
           F == {i \in 0 .. n : LiColumn(i) >= from}
           T == {i \in 0 .. n : LiColumn(i) <= to}
           a == Min(F)
           b == Max(T)
<1>1. liValue \in Seq(LiCell) /\ n \in Nat
  BY LenProperties DEF LiTypeOK, LiText
<1>2. n \in F /\ 0 \in T
  BY <1>1, ColumnEnds
<1>3. F \subseteq Nat /\ T \subseteq 0 .. n
  OBVIOUS
<1>4. a \in F /\ \A i \in F : a <= i
  <2> HIDE DEF F
  <2> QED BY <1>2, <1>3, FirstPosition
<1>5. b \in T /\ \A i \in T : b >= i
  <2> HIDE DEF T
  <2> QED BY <1>1, <1>2, <1>3, LastPosition
<1> HIDE DEF a, b
<1>6. LiFrom(from) = a /\ LiUpTo(to) = b
  BY DEF LiFrom, LiUpTo, a, b
<1>7. a \in 0 .. n /\ LiColumn(a) >= from /\ \A i \in 0 .. n : LiColumn(i) >= from => a <= i
  BY <1>4
<1>8. b \in 0 .. n /\ LiColumn(b) <= to /\ \A i \in 0 .. n : LiColumn(i) <= to => i <= b
  <2>1. ASSUME NEW i \in 0 .. n, LiColumn(i) <= to PROVE i <= b
    <3>1. b >= i
      BY <1>5, <2>1
    <3> QED BY <1>1, <1>5, <3>1
  <2> QED BY <1>5, <2>1
<1> DEFINE t == SubSeq(liValue, a + 1, b)
<1>9. ASSUME a <= b
      PROVE  /\ t \in LiText /\ Len(t) = b - a /\ LiWidth(t) = LiColumn(b) - LiColumn(a)
             /\ \A k \in 1 .. b - a : t[k] = liValue[a + k]
  <2>1. b \in a .. n
    BY <1>1, <1>7, <1>8, <1>9
  <2>2. t \in Seq(LiCell) /\ Len(t) = b - a /\ \A k \in 1 .. b - a : t[k] = liValue[a + k]
    BY <1>1, <1>7, <2>1, Cut
  <2>3. t \in LiText /\ LiWidth(t) = LiColumn(b) - LiColumn(a)
    BY <1>7, <2>1, ColumnsBetween
  <2> QED BY <2>2, <2>3
<1>10. ASSUME ~(a <= b) PROVE t \in LiText /\ Len(t) = 0 /\ LiWidth(t) = 0
  <2>1. t = <<>>
    BY <1>1, <1>7, <1>8, <1>10, SubSeqEmpty
  <2>2. {i \in DOMAIN <<>> : <<>>[i] = "W"} = {}
    OBVIOUS
  <2>3. LiWidth(<<>>) = 0
    BY <2>2, EmptyLine, FS_EmptySet DEF LiWidth
  <2> HIDE DEF t
  <2> QED BY <2>1, <2>3, EmptyLine
<1>11. LiSlice(from, to) = t
  BY <1>6 DEF LiSlice
<1> HIDE DEF t
<1>12. t \in LiText
  BY <1>9, <1>10
<1> QED BY <1>6, <1>7, <1>8, <1>9, <1>10, <1>11, <1>12

(* The shown columns start at or before the cursor and end behind it. *)
LEMMA StartIs ==
    ASSUME LiTypeOK, NEW width \in Nat, width >= 1, LiWidth(liValue) >= width
    PROVE  /\ LiStartColumn(width) \in Nat /\ LiStartColumn(width) <= LiColumn(liCursor)
           /\ liCursor < Len(liValue) =>
                  /\ LiColumn(liCursor) < LiStartColumn(width) + width
                  /\ width >= 3 => LiColumn(liCursor + 1) <= LiStartColumn(width) + width
<1> DEFINE column == LiColumn(liCursor)
           total == LiWidth(liValue)
           half == width \div 2
           start == LiStartColumn(width)
           next == LiColumn(liCursor + 1)
<1>1. liCursor \in Nat /\ Len(liValue) \in Nat /\ liCursor <= Len(liValue) /\ liValue \in LiText
  BY LiSides DEF LiTypeOK
<1>2. liCursor \in 0 .. Len(liValue) /\ Len(liValue) \in liCursor .. Len(liValue)
  BY <1>1
<1>3. column \in Nat /\ total \in Nat /\ total >= column + (Len(liValue) - liCursor)
  BY <1>2, ColumnsBetween, ColumnEnds
<1>4. half \in Nat /\ 2 * half <= width /\ width <= 2 * half + 1
  OBVIOUS
<1>5. ASSUME liCursor < Len(liValue) PROVE next \in Nat /\ next <= column + 2 /\ next <= total /\ column < total
  <2>1. /\ liCursor + 1 \in liCursor .. Len(liValue) /\ liCursor + 1 \in 0 .. Len(liValue)
        /\ Len(liValue) \in liCursor + 1 .. Len(liValue)
    BY <1>1, <1>5
  <2>2. next \in Nat /\ next <= column + 2
    BY <1>2, <2>1, ColumnsBetween
  <2>3. total >= next + (Len(liValue) - (liCursor + 1))
    BY <2>1, ColumnsBetween, ColumnEnds
  <2> HIDE DEF next, total, column
  <2> QED BY <1>1, <1>3, <1>5, <2>2, <2>3
<1>6. start = IF column < half THEN 0
              ELSE IF column > total - half THEN (IF total > width THEN total - width ELSE 0)
              ELSE column - half
  BY DEF LiStartColumn
<1>7. total >= width
  OBVIOUS
<1> HIDE DEF column, total, half, start, next
<1>8. start \in Nat /\ start <= column
  BY <1>3, <1>4, <1>6, <1>7
<1>9. ASSUME liCursor < Len(liValue) PROVE column < start + width /\ (width >= 3 => next <= start + width)
  <2>1. next \in Nat /\ next <= column + 2 /\ next <= total /\ column < total
    BY <1>5, <1>9
  <2>2. CASE column < half
    BY <1>3, <1>4, <1>6, <2>1, <2>2
  <2>3. CASE ~(column < half) /\ column > total - half
    BY <1>3, <1>4, <1>6, <1>7, <2>1, <2>3
  <2>4. CASE ~(column < half) /\ ~(column > total - half)
    BY <1>3, <1>4, <1>6, <2>1, <2>4
  <2> QED BY <2>2, <2>3, <2>4
<1> QED BY <1>8, <1>9 DEF column, start, next

LEMMA ViewShows ==
    ASSUME LiTypeOK, NEW room \in LiWidths
    PROVE  /\ LiWidth(LiShown(LiView(room))) <= room
           /\ room >= 4 => LiAtCursor(LiView(room)) = IF liCursor < Len(liValue) THEN liValue[liCursor + 1] ELSE " "
<1> DEFINE view == LiView(room)
           width == LiScrollWidth(room)
           start == LiStartColumn(width)
           n == Len(liValue)
           c == liCursor
           t == view.text
           own == IF c < n THEN liValue[c + 1] ELSE " "
<1>1. room \in Nat /\ room >= 1
  BY LiAssumption
<1>2. c \in Nat /\ n \in Nat /\ c <= n /\ liValue \in LiText /\ c \in 0 .. n
  BY LiSides DEF LiTypeOK
<1>3. width = IF c = n THEN room - 1 ELSE room
  BY DEF LiScrollWidth
<1>4. LiShown(view) = IF view.cursor < Len(t) THEN t ELSE Append(t, " ")
  BY DEF LiShown
<1>5. LiAtCursor(view) = IF view.cursor < Len(t) THEN t[view.cursor + 1] ELSE " "
  BY DEF LiAtCursor
<1>6. ASSUME LiWidth(liValue) < room PROVE LiWidth(LiShown(view)) <= room /\ LiAtCursor(view) = own
  <2>1. view = [text |-> liValue, cursor |-> c]
    BY <1>6 DEF LiView
  <2>2. t = liValue /\ view.cursor = c
    BY <2>1
  <2> HIDE DEF view, t
  <2>3. LiWidth(Append(liValue, " ")) = LiWidth(liValue) + 1
    BY <1>2, BlankAdds
  <2>6. LiWidth(liValue) \in Nat
    BY <1>2, WidthIs
  <2>4. CASE c < n
    <3>1. view.cursor < Len(t) /\ t[view.cursor + 1] = liValue[c + 1]
      BY <2>2, <2>4
    <3>2. LiShown(view) = t /\ LiAtCursor(view) = own
      BY <1>4, <1>5, <2>4, <3>1
    <3> HIDE DEF own
    <3>3. LiWidth(LiShown(view)) = LiWidth(liValue)
      BY <2>2, <3>2
    <3> DEFINE total == LiWidth(liValue)
               shown == LiWidth(LiShown(view))
    <3>4. shown <= room
      <4>1. total \in Nat /\ ~(room <= total)
        BY <1>1, <1>6, <2>6
      <4>2. shown = total \/ shown = total + 1
        BY <3>3
      <4> HIDE DEF total, shown
      <4> QED BY <1>1, <4>1, <4>2
    <3> QED BY <3>2, <3>4
  <2>5. CASE ~(c < n)
    <3>1. ~(view.cursor < Len(t))
      BY <2>2, <2>5
    <3>2. LiShown(view) = Append(liValue, " ") /\ LiAtCursor(view) = own
      BY <1>4, <1>5, <2>2, <2>5, <3>1
    <3> HIDE DEF own
    <3>3. LiWidth(LiShown(view)) = LiWidth(liValue) + 1
      BY <2>3, <3>2
    <3> DEFINE total == LiWidth(liValue)
               shown == LiWidth(LiShown(view))
    <3>4. shown <= room
      <4>1. total \in Nat /\ ~(room <= total)
        BY <1>1, <1>6, <2>6
      <4>2. shown = total \/ shown = total + 1
        BY <3>3
      <4> HIDE DEF total, shown
      <4> QED BY <1>1, <4>1, <4>2
    <3> QED BY <3>2, <3>4
  <2> QED BY <2>4, <2>5
<1>7. ASSUME ~(LiWidth(liValue) < room), width <= 0
      PROVE  LiWidth(LiShown(view)) <= room /\ ~(room >= 4)
  <2>1. view = [text |-> <<>>, cursor |-> 0]
    BY <1>7 DEF LiView
  <2>2. t = <<>> /\ view.cursor = 0
    BY <2>1
  <2> HIDE DEF view, t
  <2>3. {i \in DOMAIN <<>> : <<>>[i] = "W"} = {}
    OBVIOUS
  <2>4. LiWidth(<<>>) = 0
    BY <2>3, EmptyLine, FS_EmptySet DEF LiWidth
  <2>5. LiWidth(Append(<<>>, " ")) = LiWidth(<<>>) + 1
    BY EmptyLine, BlankAdds
  <2>6. LiShown(view) = Append(<<>>, " ")
    <3>1. Len(t) = 0 /\ ~(view.cursor < Len(t))
      BY <2>2, EmptyLine
    <3>2. LiShown(view) = Append(t, " ")
      BY <1>4, <3>1
    <3> QED BY <2>2, <3>2
  <2>8. LiWidth(Append(<<>>, " ")) = 1
    <3> DEFINE empty == LiWidth(<<>>)
               one == LiWidth(Append(<<>>, " "))
    <3>1. empty = 0 /\ one = empty + 1
      BY <2>4, <2>5
    <3> HIDE DEF empty, one
    <3>2. one = 1
      BY <3>1
    <3> QED BY <3>2 DEF one
  <2>7. LiWidth(LiShown(view)) = 1
    BY <2>6, <2>8
  <2> HIDE DEF width
  <2> QED BY <1>1, <1>3, <1>7, <2>7
<1>8. ASSUME ~(LiWidth(liValue) < room), ~(width <= 0)
      PROVE  LiWidth(LiShown(view)) <= room /\ (room >= 4 => LiAtCursor(view) = own)
  <2>1. view = [text |-> LiSlice(start, start + width), cursor |-> Len(LiSlice(start, LiColumn(c)))]
    BY <1>8 DEF LiView
  <2>2. t = LiSlice(start, start + width) /\ view.cursor = Len(LiSlice(start, LiColumn(c)))
    BY <2>1
  <2> HIDE DEF view, t
  <2>3. LiWidth(liValue) \in Nat
    BY <1>2, WidthIs
  <2>4. width \in Nat /\ width >= 1 /\ LiWidth(liValue) >= width /\ (c < n => width = room) /\ (c = n => width = room - 1)
    <3> HIDE DEF width
    <3> QED BY <1>1, <1>2, <1>3, <1>8, <2>3
  <2> HIDE DEF width
  <2>5. /\ start \in Nat /\ start <= LiColumn(c)
        /\ c < n => /\ LiColumn(c) < start + width
                    /\ width >= 3 => LiColumn(c + 1) <= start + width
    BY <2>4, StartIs
  <2> HIDE DEF start
  <2>6. LiColumn(c) \in Nat /\ LiColumn(c) <= LiWidth(liValue)
    <3>1. c \in 0 .. n /\ n \in c .. n
      BY <1>2
    <3>2. LiColumn(c) \in Nat /\ LiColumn(n) >= LiColumn(c) + (n - c) /\ LiColumn(n) = LiWidth(liValue)
      BY <3>1, ColumnsBetween, ColumnEnds
    <3> QED BY <1>2, <2>3, <3>2
  <2>7. start <= LiWidth(liValue) /\ start + width \in Nat
    BY <2>3, <2>4, <2>5, <2>6
  <2> DEFINE a == LiFrom(start)
             b == LiUpTo(start + width)
             d == LiUpTo(LiColumn(c))
  <2>8. /\ a \in 0 .. n /\ LiColumn(a) >= start
        /\ \A i \in 0 .. n : LiColumn(i) >= start => a <= i
        /\ b \in 0 .. n /\ LiColumn(b) <= start + width
        /\ \A i \in 0 .. n : LiColumn(i) <= start + width => i <= b
        /\ t \in LiText
        /\ a <= b => /\ Len(t) = b - a
                     /\ LiWidth(t) = LiColumn(b) - LiColumn(a)
                     /\ \A k \in 1 .. b - a : t[k] = liValue[a + k]
        /\ ~(a <= b) => Len(t) = 0 /\ LiWidth(t) = 0
    <3>1. LiTypeOK /\ start \in Nat /\ start + width \in Nat /\ start <= LiWidth(liValue)
      BY <2>5, <2>7
    <3>2. /\ LiFrom(start) \in 0 .. Len(liValue) /\ LiColumn(LiFrom(start)) >= start
          /\ \A i \in 0 .. Len(liValue) : LiColumn(i) >= start => LiFrom(start) <= i
          /\ LiUpTo(start + width) \in 0 .. Len(liValue) /\ LiColumn(LiUpTo(start + width)) <= start + width
          /\ \A i \in 0 .. Len(liValue) : LiColumn(i) <= start + width => i <= LiUpTo(start + width)
      BY <3>1, SliceIs
    <3>3. /\ LiSlice(start, start + width) \in LiText
          /\ LiFrom(start) <= LiUpTo(start + width) =>
                 /\ Len(LiSlice(start, start + width)) = LiUpTo(start + width) - LiFrom(start)
                 /\ LiWidth(LiSlice(start, start + width)) = LiColumn(LiUpTo(start + width)) - LiColumn(LiFrom(start))
                 /\ \A k \in 1 .. LiUpTo(start + width) - LiFrom(start) :
                       LiSlice(start, start + width)[k] = liValue[LiFrom(start) + k]
          /\ ~(LiFrom(start) <= LiUpTo(start + width)) =>
                 Len(LiSlice(start, start + width)) = 0 /\ LiWidth(LiSlice(start, start + width)) = 0
      BY <3>1, SliceIs
    <3> QED BY <2>2, <3>2, <3>3
  <2>9. a <= c /\ a \in Nat /\ b \in Nat
    BY <1>2, <2>5, <2>8
  <2>10. view.cursor = c - a
    <3>1. /\ d \in 0 .. n /\ LiColumn(d) <= LiColumn(c)
          /\ \A i \in 0 .. n : LiColumn(i) <= LiColumn(c) => i <= d
          /\ a <= d => Len(LiSlice(start, LiColumn(c))) = d - a
      BY <2>5, <2>6, <2>7, SliceIs
    <3> HIDE DEF a, d
    <3>2. c <= d
      BY <1>2, <2>6, <3>1
    <3>3. LiColumn(d) >= LiColumn(c) + (d - c) /\ LiColumn(d) \in Nat
      <4>1. d \in c .. n
        BY <1>2, <3>1, <3>2
      <4> QED BY <1>2, <4>1, ColumnsBetween
    <3>4. d = c
      BY <1>2, <2>6, <3>1, <3>2, <3>3
    <3> QED BY <2>2, <2>9, <3>1, <3>4
  <2> HIDE DEF a, b, d
  <2>11. LiColumn(a) \in Nat /\ LiColumn(b) \in Nat
    <3>1. a \in a .. n /\ b \in b .. n
      BY <1>2, <2>8
    <3> QED BY <2>8, <3>1, ColumnsBetween
  <2>12. LiWidth(t) \in Nat /\ LiWidth(t) <= width /\ Len(t) \in Nat
    <3>1. LiWidth(t) \in Nat /\ Len(t) \in Nat
      BY <2>8, WidthIs, LenProperties DEF LiText
    <3> QED BY <2>4, <2>5, <2>8, <2>11, <3>1
  <2>13. LiWidth(Append(t, " ")) = LiWidth(t) + 1
    BY <2>8, BlankAdds
  <2>14. LiWidth(LiShown(view)) <= room
    <3>1. CASE view.cursor < Len(t)
      <4>1. LiShown(view) = t
        BY <1>4, <3>1
      <4> QED BY <1>1, <1>2, <2>4, <2>12, <4>1
    <3>2. CASE ~(view.cursor < Len(t))
      <4>1. LiWidth(LiShown(view)) = LiWidth(t) + 1
        BY <1>4, <2>13, <3>2
      <4>2. c < n => LiWidth(t) <= width - 1
        <5> SUFFICES ASSUME c < n PROVE LiWidth(t) <= width - 1
          OBVIOUS
        <5>1. CASE ~(a <= b)
          BY <2>4, <2>8, <5>1
        <5>2. CASE a <= b
          <6>1. b <= c
            BY <1>2, <2>8, <2>9, <2>10, <3>2, <5>2
          <6>2. LiColumn(b) <= LiColumn(c)
            <7>1. c \in b .. n
              BY <1>2, <2>9, <6>1
            <7>2. LiColumn(c) >= LiColumn(b) + (c - b)
              BY <2>8, <7>1, ColumnsBetween
            <7> QED BY <1>2, <2>6, <2>9, <2>11, <6>1, <7>2
          <6>3. LiWidth(t) = LiColumn(b) - LiColumn(a) /\ LiColumn(a) >= start /\ LiColumn(c) < start + width
            BY <2>5, <2>8, <5>2
          <6> QED BY <2>4, <2>5, <2>6, <2>11, <6>2, <6>3
        <5> QED BY <5>1, <5>2
      <4> QED BY <1>1, <1>2, <2>4, <2>12, <4>1, <4>2
    <3> QED BY <3>1, <3>2
  <2>15. ASSUME room >= 4 PROVE LiAtCursor(view) = own
    <3>1. CASE c < n
      <4>1. LiColumn(c + 1) <= start + width
        BY <1>1, <2>4, <2>5, <2>15, <3>1
      <4>2. c + 1 <= b
        <5>1. c + 1 \in 0 .. n
          BY <1>2, <3>1
        <5> QED BY <2>8, <4>1, <5>1
      <4>3. Len(t) = b - a /\ view.cursor < Len(t) /\ c - a + 1 \in 1 .. b - a /\ a + (c - a + 1) = c + 1
        BY <1>2, <2>8, <2>9, <2>10, <4>2
      <4>4. t[c - a + 1] = liValue[a + (c - a + 1)]
        BY <2>8, <2>9, <1>2, <4>2, <4>3
      <4> QED BY <1>5, <2>10, <3>1, <4>3, <4>4
    <3>2. CASE ~(c < n)
      <4>1. ~(view.cursor < Len(t))
        BY <1>2, <2>8, <2>9, <2>10, <3>2
      <4> QED BY <1>5, <3>2, <4>1
    <3> QED BY <3>1, <3>2
  <2> QED BY <2>14, <2>15
<1> HIDE DEF view, width
<1> QED BY <1>6, <1>7, <1>8 DEF view

LEMMA LiInvIsSafe == LiInv => LineInputSafe
<1> SUFFICES ASSUME LiInv PROVE LineInputSafe
  OBVIOUS
<1>1. liCursor \in 0 .. Len(liValue) /\ LiKillsRestore /\ LiYankStaysPut
  BY DEF LiInv, LiTypeOK
<1>2. LiUndoable
  BY DEF LiInv, LiLeadsBack, LiUndoable
<1>3. LiShowsCursor
  BY ViewShows DEF LiInv, LiShowsCursor
<1> QED BY <1>1, <1>2, <1>3 DEF LineInputSafe

(* The search of the settings list, whatever keys are pressed, however much
   was killed before, whatever is pasted and however narrow it is shown: the
   ring gives back what a run of kills took, popping a yank changes nothing
   around it, undo leads back to the empty line, and the line fits its row
   with the cursor on its own cell (components/input.ts).                    *)
THEOREM LineInputIsSafe == LiSpec => []LineInputSafe
<1>1. LiInit => LiInv
  BY LiInitIs
<1>2. LiInv /\ [LiNext]_liVars => LiInv'
  BY LiNextKeeps
<1>3. LiInv => LineInputSafe
  BY LiInvIsSafe
<1> QED BY <1>1, <1>2, <1>3, PTL DEF LiSpec

-----------------------------------------------------------------------------
(* Sequences put one after the other, a list of one, and the sides of a
   sequence.  Proofs use these names rather than what they stand for.      *)
Cat(a, b) == a \o b
One(l) == <<l>>
Pre(s, k) == SubSeq(s, 1, k)
Post(s, k) == SubSeq(s, k + 1, Len(s))

LEMMA CatType ==
    ASSUME NEW K, NEW a \in Seq(K), NEW b \in Seq(K)
    PROVE  Cat(a, b) \in Seq(K)
BY ConcatProperties DEF Cat

LEMMA CatAssoc ==
    ASSUME NEW K, NEW a \in Seq(K), NEW b \in Seq(K), NEW c \in Seq(K)
    PROVE  Cat(Cat(a, b), c) = Cat(a, Cat(b, c))
BY ConcatAssociative DEF Cat

LEMMA CatEmpty ==
    ASSUME NEW K, NEW a \in Seq(K)
    PROVE  Cat(a, <<>>) = a /\ Cat(<<>>, a) = a
BY ConcatEmptySeq DEF Cat

LEMMA CatNotEmpty ==
    ASSUME NEW K, NEW a \in Seq(K), NEW b \in Seq(K), a # <<>> \/ b # <<>>
    PROVE  Cat(a, b) # <<>>
BY ConcatEqualIffEmpty DEF Cat

LEMMA OneType ==
    ASSUME NEW K, NEW l \in K
    PROVE  One(l) \in Seq(K) /\ Len(One(l)) = 1 /\ One(l)[1] = l /\ One(l) # <<>>
BY DEF One

LEMMA OneMore ==
    ASSUME NEW K, NEW s \in Seq(K), NEW e \in K
    PROVE  Append(s, e) = Cat(s, One(e))
BY AppendIsConcat DEF One, Cat

(* A sequence begins with its first element, and grows by one. *)
LEMMA Beginnings ==
    ASSUME NEW S, NEW b \in Seq(S)
    PROVE  /\ Len(b) \in Nat /\ Pre(b, 0) = <<>> /\ Pre(b, Len(b)) = b
           /\ \A k \in 0 .. Len(b) : Pre(b, k) \in Seq(S) /\ Len(Pre(b, k)) = k
           /\ \A k \in 1 .. Len(b) : /\ b[k] \in S /\ k - 1 \in 0 .. Len(b)
                                     /\ Pre(b, k) = Cat(Pre(b, k - 1), One(b[k]))
                                     /\ Pre(b, k) = Append(Pre(b, k - 1), b[k])
<1>1. Len(b) \in Nat /\ \A k \in 1 .. Len(b) : b[k] \in S
  BY LenProperties, ElementOfSeq
<1>2. \A k \in 0 .. Len(b) : Pre(b, k) \in Seq(S) /\ Len(Pre(b, k)) = k
  BY Sides DEF Pre
<1>3. Pre(b, 0) = <<>> /\ Pre(b, Len(b)) = b
  BY SubSeqEmpty, SubSeqFull DEF Pre
<1>4. ASSUME NEW k \in 1 .. Len(b)
      PROVE  /\ b[k] \in S /\ k - 1 \in 0 .. Len(b)
             /\ Pre(b, k) = Cat(Pre(b, k - 1), One(b[k]))
             /\ Pre(b, k) = Append(Pre(b, k - 1), b[k])
  <2>1. 1 \in 1 .. Len(b) /\ k \in 1 .. Len(b) /\ k - 1 \in 0 .. Len(b)
    BY <1>1
  <2>2. SubSeq(b, 1, k) = SubSeq(b, 1, k - 1) \o <<b[k]>>
    BY <2>1, SubSeqRecursiveSecond
  <2>3. Pre(b, k - 1) \in Seq(S) /\ b[k] \in S
    BY <1>1, <1>2, <2>1
  <2>4. Pre(b, k) = Cat(Pre(b, k - 1), One(b[k]))
    BY <2>2 DEF Cat, One, Pre
  <2>5. Append(Pre(b, k - 1), b[k]) = Cat(Pre(b, k - 1), One(b[k]))
    BY <2>3, OneMore
  <2> QED BY <2>1, <2>3, <2>4, <2>5
<1> QED BY <1>1, <1>2, <1>3, <1>4

(* A list is what comes before its last element, and that. *)
LEMMA FrontLast ==
    ASSUME NEW S, NEW s \in Seq(S), s # <<>>
    PROVE  Front(s) \in Seq(S) /\ Last(s) \in S /\ s = Append(Front(s), Last(s))
<1>1. Len(s) \in Nat \ {0} /\ Last(s) \in S /\ Last(s) = s[Len(s)] /\ Front(s) \in Seq(S)
  BY LastIs
<1>2. Len(s) \in 1 .. Len(s)
  BY <1>1
<1>3. Pre(s, Len(s)) = s /\ Pre(s, Len(s)) = Append(Pre(s, Len(s) - 1), s[Len(s)])
  BY <1>2, Beginnings
<1>4. Front(s) = Pre(s, Len(s) - 1)
  BY DEF Front, Pre
<1> QED BY <1>1, <1>3, <1>4

LEMMA FrontOfMore ==
    ASSUME NEW S, NEW s \in Seq(S), NEW e \in S
    PROVE  Front(Append(s, e)) = s /\ Last(Append(s, e)) = e
<1> DEFINE t == Append(s, e)
<1>1. t \in Seq(S) /\ t # <<>> /\ Last(t) = e
  BY Added
<1>2. Front(t) \in Seq(S) /\ Last(t) \in S /\ t = Append(Front(t), Last(t))
  BY <1>1, FrontLast
<1>3. Append(s, e) = Append(Front(t), Last(t))
  BY <1>2
<1>4. s = Front(t)
  <2> HIDE DEF t
  <2> QED BY <1>2, <1>3, AppendInjective
<1> QED BY <1>1, <1>4

(* Cuts of what was put together.                                          *)
LEMMA CatLen ==
    ASSUME NEW S, NEW a \in Seq(S), NEW b \in Seq(S)
    PROVE  /\ Len(a) \in Nat /\ Len(b) \in Nat /\ Len(Cat(a, b)) = Len(a) + Len(b)
           /\ \A i \in 1 .. Len(a) + Len(b) : Cat(a, b)[i] = IF i <= Len(a) THEN a[i] ELSE b[i - Len(a)]
BY LenProperties, ConcatProperties DEF Cat

LEMMA CutSides ==
    ASSUME NEW S, NEW a \in Seq(S), NEW b \in Seq(S)
    PROVE  Pre(Cat(a, b), Len(a)) = a /\ Post(Cat(a, b), Len(a)) = b
BY Halves DEF Pre, Post, Cat

LEMMA SidesMake ==
    ASSUME NEW S, NEW s \in Seq(S), NEW i \in 0 .. Len(s)
    PROVE  /\ Pre(s, i) \in Seq(S) /\ Len(Pre(s, i)) = i
           /\ Post(s, i) \in Seq(S) /\ Len(Post(s, i)) = Len(s) - i
           /\ Cat(Pre(s, i), Post(s, i)) = s
BY Sides DEF Pre, Post, Cat

LEMMA Inside ==
    ASSUME NEW S, NEW a \in Seq(S), NEW k \in Seq(S), NEW b \in Seq(S)
    PROVE  SubSeq(Cat(a, Cat(k, b)), Len(a) + 1, Len(a) + Len(k)) = k
<1> DEFINE s == Cat(a, Cat(k, b))
           n == Len(a)
           m == Len(k)
           r == SubSeq(s, n + 1, n + m)
<1>1. Cat(k, b) \in Seq(S) /\ s \in Seq(S)
  BY CatType
<1>2. /\ n \in Nat /\ m \in Nat /\ Len(b) \in Nat /\ Len(s) = n + (m + Len(b))
      /\ \A i \in 1 .. n + (m + Len(b)) : s[i] = IF i <= n THEN a[i] ELSE Cat(k, b)[i - n]
      /\ \A i \in 1 .. m + Len(b) : Cat(k, b)[i] = IF i <= m THEN k[i] ELSE b[i - m]
  <2>1. Len(Cat(k, b)) = m + Len(b) /\ m \in Nat /\ Len(b) \in Nat
        /\ \A i \in 1 .. m + Len(b) : Cat(k, b)[i] = IF i <= m THEN k[i] ELSE b[i - m]
    BY CatLen
  <2> DEFINE u == Cat(k, b)
  <2> HIDE DEF u
  <2>2. n \in Nat /\ Len(Cat(a, u)) = n + Len(u)
        /\ \A i \in 1 .. n + Len(u) : Cat(a, u)[i] = IF i <= n THEN a[i] ELSE u[i - n]
    BY <1>1, CatLen DEF u
  <2> QED BY <2>1, <2>2 DEF u
<1> HIDE DEF s, n, m
<1>3. n \in 0 .. Len(s) /\ n + m \in n .. Len(s) /\ n + m - n = m
  BY <1>2
<1>4. r \in Seq(S) /\ Len(r) = m /\ \A i \in 1 .. m : r[i] = s[n + i]
  <2>1. PICK j \in n .. Len(s) : j = n + m
    BY <1>3
  <2>2. j - n = m
    <3>1. n \in Nat /\ m \in Nat
      BY <1>2
    <3> QED BY <2>1, <3>1
  <2>3. /\ SubSeq(s, n + 1, j) \in Seq(S) /\ Len(SubSeq(s, n + 1, j)) = j - n
        /\ \A i \in 1 .. j - n : SubSeq(s, n + 1, j)[i] = s[n + i]
    BY <1>1, <1>3, Cut
  <2>4. r = SubSeq(s, n + 1, j)
    BY <2>1
  <2> HIDE DEF r
  <2> QED BY <2>2, <2>3, <2>4
<1> HIDE DEF r
<1>5. ASSUME NEW i \in 1 .. m PROVE r[i] = k[i]
  <2>1. n + i \in 1 .. n + (m + Len(b)) /\ ~(n + i <= n) /\ n + i - n = i /\ i \in 1 .. m + Len(b) /\ i <= m
    BY <1>2
  <2>2. s[n + i] = Cat(k, b)[n + i - n]
    BY <1>2, <2>1
  <2>3. Cat(k, b)[i] = k[i]
    BY <1>2, <2>1
  <2> QED BY <1>4, <2>1, <2>2, <2>3
<1>6. r = k
  BY <1>4, <1>5, SeqEqual DEF m
<1> QED BY <1>6 DEF r, s, n, m

(* A list of two or more: the first, what is between, and the last. *)
LEMMA FirstAndLast ==
    ASSUME NEW S, NEW s \in Seq(S), Len(s) > 1
    PROVE  LET M == SubSeq(s, 2, Len(s) - 1) IN
           /\ Head(s) \in S /\ Last(s) \in S /\ M \in Seq(S) /\ Len(M) = Len(s) - 2 /\ Head(s) = s[1]
           /\ s = Cat(One(Head(s)), Append(M, Last(s)))
<1> DEFINE M == SubSeq(s, 2, Len(s) - 1)
<1>1. Len(s) \in Nat /\ s # <<>>
  <2>1. Len(s) \in Nat
    BY LenProperties
  <2>2. s # <<>>
    <3>1. Len(<<>>) = 0
      OBVIOUS
    <3> QED BY <3>1
  <2> QED BY <2>1, <2>2
<1>2. 1 \in 0 .. Len(s) /\ Len(s) - 1 \in 1 .. Len(s) /\ 1 + 1 = 2 /\ Len(s) - 1 - 1 = Len(s) - 2
  BY <1>1
<1>3. M \in Seq(S) /\ Len(M) = Len(s) - 2
  <2>1. SubSeq(s, 1 + 1, Len(s) - 1) \in Seq(S) /\ Len(SubSeq(s, 1 + 1, Len(s) - 1)) = Len(s) - 1 - 1
    BY <1>2, Cut
  <2> QED BY <1>2, <2>1
<1>4. Head(s) \in S /\ Head(s) = s[1] /\ Last(s) \in S /\ Last(s) = s[Len(s)]
  BY <1>1, HeadTailProperties, LastIs
<1>5. 1 \in 1 .. Len(s) /\ Len(s) \in 1 .. Len(s) /\ 2 \in 1 .. Len(s) /\ Len(s) \in 2 .. Len(s)
  BY <1>1
<1>6. SubSeq(s, 1, Len(s)) = <<s[1]>> \o SubSeq(s, 1 + 1, Len(s))
  BY <1>5, SubSeqRecursiveFirst
<1>7. SubSeq(s, 2, Len(s)) = M \o <<s[Len(s)]>>
  BY <1>5, SubSeqRecursiveSecond
<1>8. s = Cat(One(Head(s)), Cat(M, One(Last(s))))
  BY <1>2, <1>4, <1>6, <1>7, SubSeqFull DEF Cat, One
<1>9. Append(M, Last(s)) = Cat(M, One(Last(s)))
  <2> HIDE DEF M
  <2> QED BY <1>3, <1>4, OneMore
<1> QED BY <1>3, <1>4, <1>8, <1>9

-----------------------------------------------------------------------------
(* The terminal's input. *)
SbLine == Seq(SbBytes)
SbEntry == [kind : {"data", "paste"}, text : SbLine]
SbFields == [buffer : SbLine, paste : BOOLEAN, pasted : SbLine, key : {"none", "a"}, out : Seq(SbEntry), cut : BOOLEAN]

LEMMA BytesAre ==
    /\ \A b \in {"E", "[", "]", "O", "P", "_", "<", "M", "~", "u", "\\", "^G", "1", "2", "9", "a"} : b \in SbBytes
    /\ "none" \notin SbBytes
    /\ SbStart \in SbLine /\ SbEnd \in SbLine /\ Len(SbStart) = 4 /\ Len(SbEnd) = 4
<1>1. \A b \in {"E", "[", "]", "O", "P", "_", "<", "M", "~", "u", "\\", "^G", "1", "2", "9", "a"} : b \in SbBytes
  BY SbAssumption
<1>2. "none" \notin SbBytes
  BY SbAssumption
<1>3. "E" \in SbBytes /\ "[" \in SbBytes /\ "1" \in SbBytes /\ "2" \in SbBytes /\ "~" \in SbBytes
  BY SbAssumption
<1>4. SbStart \in SbLine /\ Len(SbStart) = 4
  BY <1>3 DEF SbStart, SbLine
<1>5. SbEnd \in SbLine /\ Len(SbEnd) = 4
  BY <1>3 DEF SbEnd, SbLine
<1> QED BY <1>1, <1>2, <1>4, <1>5

-----------------------------------------------------------------------------
(* Where a marker is found in a text, in its beginning and in its end. *)
SbPlaces(t, part) == 1 .. Len(t) - Len(part) + 1
SbMatch(t, part, i) == \A j \in 1 .. Len(part) : t[i + j - 1] = part[j]

LEMMA FindIs ==
    ASSUME NEW S, NEW t \in Seq(S), NEW part \in Seq(S)
    PROVE  /\ Len(t) \in Nat /\ Len(part) \in Nat
           /\ \A i : i \in SbFind(t, part) <=> i \in SbPlaces(t, part) /\ SbMatch(t, part, i)
<1>1. Len(t) \in Nat /\ Len(part) \in Nat
  BY LenProperties
<1>2. ASSUME NEW i \in 1 .. Len(t) - Len(part) + 1
      PROVE  SubSeq(t, i, i + Len(part) - 1) = part <=> \A j \in 1 .. Len(part) : t[i + j - 1] = part[j]
  <2> DEFINE c == SubSeq(t, i, i + Len(part) - 1)
             a == i - 1
             b == i + Len(part) - 1
  <2>1. a \in 0 .. Len(t) /\ b \in a .. Len(t) /\ a + 1 = i /\ b - a = Len(part)
    BY <1>1
  <2>2. /\ SubSeq(t, a + 1, b) \in Seq(S)
        /\ Len(SubSeq(t, a + 1, b)) = b - a
        /\ \A k \in 1 .. b - a : SubSeq(t, a + 1, b)[k] = t[a + k]
    <3> HIDE DEF a, b
    <3> QED BY <2>1, Cut
  <2>3. SubSeq(t, a + 1, b) = c
    BY <2>1
  <2>4. \A k \in 1 .. Len(part) : a + k = i + k - 1
    BY <1>1
  <2> HIDE DEF a, b, c
  <2>5. c \in Seq(S) /\ Len(c) = Len(part) /\ \A k \in 1 .. Len(part) : c[k] = t[i + k - 1]
    BY <2>1, <2>2, <2>3, <2>4
  <2>6. (\A j \in 1 .. Len(part) : c[j] = part[j]) => c = part
    BY <2>5, SeqEqual
  <2> QED BY <2>5, <2>6 DEF c
<1> QED BY <1>1, <1>2 DEF SbFind, SbPlaces, SbMatch

LEMMA FirstIs ==
    ASSUME NEW S, NEW t \in Seq(S), NEW part \in Seq(S), Len(part) > 0
    PROVE  /\ SbFind(t, part) # {} =>
                  /\ SbFirst(t, part) \in SbFind(t, part) /\ SbFirst(t, part) \in Nat
                  /\ SbFirst(t, part) \in 1 .. Len(t) - Len(part) + 1
                  /\ \A j \in SbFind(t, part) : SbFirst(t, part) <= j
           /\ \A i \in SbFind(t, part) : (\A j \in SbFind(t, part) : i <= j) => SbFirst(t, part) = i
<1>1. SbFind(t, part) \subseteq 1 .. Len(t) - Len(part) + 1 /\ Len(t) \in Nat /\ Len(part) \in Nat
  BY FindIs DEF SbPlaces
<1>2. SbFind(t, part) \subseteq Nat
  BY <1>1
<1>3. ASSUME SbFind(t, part) # {}
      PROVE  SbFirst(t, part) \in SbFind(t, part) /\ \A j \in SbFind(t, part) : SbFirst(t, part) <= j
  <2>1. \E i \in SbFind(t, part) : \A j \in SbFind(t, part) : i <= j
    BY <1>2, <1>3, LeastPosition
  <2> QED BY <2>1 DEF SbFirst
<1>4. ASSUME NEW i \in SbFind(t, part), \A j \in SbFind(t, part) : i <= j PROVE SbFirst(t, part) = i
  <2>1. SbFirst(t, part) \in SbFind(t, part) /\ \A j \in SbFind(t, part) : SbFirst(t, part) <= j
    BY <1>3
  <2>2. i <= SbFirst(t, part) /\ SbFirst(t, part) <= i /\ i \in Nat /\ SbFirst(t, part) \in Nat
    BY <1>2, <1>4, <2>1
  <2> QED BY <2>2
<1> QED BY <1>1, <1>2, <1>3, <1>4

LEMMA FoundBefore ==
    ASSUME NEW S, NEW u \in Seq(S), NEW v \in Seq(S), NEW part \in Seq(S)
    PROVE  \A i : i \in SbFind(u, part) <=> i \in SbFind(Cat(u, v), part) /\ i <= Len(u) - Len(part) + 1
<1> DEFINE t == Cat(u, v)
<1>1. /\ Len(u) \in Nat /\ Len(v) \in Nat /\ t \in Seq(S) /\ Len(t) = Len(u) + Len(v)
      /\ \A k \in 1 .. Len(u) + Len(v) : t[k] = IF k <= Len(u) THEN u[k] ELSE v[k - Len(u)]
  BY CatLen, CatType
<1> HIDE DEF t
<1>2. /\ Len(part) \in Nat
      /\ \A i : i \in SbFind(u, part) <=>
            i \in 1 .. Len(u) - Len(part) + 1 /\ \A j \in 1 .. Len(part) : u[i + j - 1] = part[j]
      /\ \A i : i \in SbFind(t, part) <=>
            i \in 1 .. Len(t) - Len(part) + 1 /\ \A j \in 1 .. Len(part) : t[i + j - 1] = part[j]
  <2>1. \A i : i \in SbFind(u, part) <=> i \in SbPlaces(u, part) /\ SbMatch(u, part, i)
    BY FindIs
  <2>2. t \in Seq(S)
    BY <1>1
  <2>3. \A i : i \in SbFind(t, part) <=> i \in SbPlaces(t, part) /\ SbMatch(t, part, i)
    BY <2>2, FindIs
  <2>4. Len(part) \in Nat
    BY LenProperties
  <2> QED BY <2>1, <2>3, <2>4, Zenon DEF SbPlaces, SbMatch
<1>3. ASSUME NEW i \in 1 .. Len(u) - Len(part) + 1, NEW j \in 1 .. Len(part) PROVE t[i + j - 1] = u[i + j - 1]
  <2>1. i + j - 1 \in 1 .. Len(u) + Len(v) /\ i + j - 1 <= Len(u)
    BY <1>1, <1>2
  <2> QED BY <1>1, <2>1
<1>4. ASSUME NEW i PROVE i \in SbFind(u, part) <=> i \in SbFind(t, part) /\ i <= Len(u) - Len(part) + 1
  <2>1. CASE i \in 1 .. Len(u) - Len(part) + 1
    <3>1. i \in 1 .. Len(t) - Len(part) + 1 /\ i <= Len(u) - Len(part) + 1
      BY <1>1, <1>2, <2>1
    <3> QED BY <1>2, <1>3, <2>1, <3>1
  <2>2. CASE i \notin 1 .. Len(u) - Len(part) + 1
    <3>1. i \notin SbFind(u, part)
      BY <1>2, <2>2
    <3>2. ~(i \in 1 .. Len(t) - Len(part) + 1 /\ i <= Len(u) - Len(part) + 1)
      BY <1>1, <1>2, <2>2
    <3> QED BY <1>2, <3>1, <3>2
  <2> QED BY <2>1, <2>2
<1> QED BY <1>4 DEF t

LEMMA FoundBehind ==
    ASSUME NEW S, NEW u \in Seq(S), NEW v \in Seq(S), NEW part \in Seq(S)
    PROVE  \A i \in Int : i \in SbFind(v, part) <=> i > 0 /\ i + Len(u) \in SbFind(Cat(u, v), part)
<1> DEFINE t == Cat(u, v)
<1>1. /\ Len(u) \in Nat /\ Len(v) \in Nat /\ t \in Seq(S) /\ Len(t) = Len(u) + Len(v)
      /\ \A k \in 1 .. Len(u) + Len(v) : t[k] = IF k <= Len(u) THEN u[k] ELSE v[k - Len(u)]
  BY CatLen, CatType
<1> HIDE DEF t
<1>2. /\ Len(part) \in Nat
      /\ \A i : i \in SbFind(v, part) <=>
            i \in 1 .. Len(v) - Len(part) + 1 /\ \A j \in 1 .. Len(part) : v[i + j - 1] = part[j]
      /\ \A i : i \in SbFind(t, part) <=>
            i \in 1 .. Len(t) - Len(part) + 1 /\ \A j \in 1 .. Len(part) : t[i + j - 1] = part[j]
  <2>1. \A i : i \in SbFind(v, part) <=> i \in SbPlaces(v, part) /\ SbMatch(v, part, i)
    BY FindIs
  <2>2. t \in Seq(S)
    BY <1>1
  <2>3. \A i : i \in SbFind(t, part) <=> i \in SbPlaces(t, part) /\ SbMatch(t, part, i)
    BY <2>2, FindIs
  <2>4. Len(part) \in Nat
    BY LenProperties
  <2> QED BY <2>1, <2>3, <2>4, Zenon DEF SbPlaces, SbMatch
<1>3. ASSUME NEW i \in 1 .. Len(v) - Len(part) + 1, NEW j \in 1 .. Len(part) PROVE t[(i + Len(u)) + j - 1] = v[i + j - 1]
  <2>1. (i + Len(u)) + j - 1 \in 1 .. Len(u) + Len(v) /\ ~((i + Len(u)) + j - 1 <= Len(u))
        /\ (i + Len(u)) + j - 1 - Len(u) = i + j - 1
    BY <1>1, <1>2
  <2> DEFINE k == (i + Len(u)) + j - 1
  <2>2. k \in 1 .. Len(u) + Len(v) /\ ~(k <= Len(u)) /\ k - Len(u) = i + j - 1
    BY <2>1
  <2> HIDE DEF k
  <2>3. t[k] = v[k - Len(u)]
    BY <1>1, <2>2
  <2> QED BY <2>2, <2>3 DEF k
<1>4. ASSUME NEW i \in Int PROVE i \in SbFind(v, part) <=> i > 0 /\ i + Len(u) \in SbFind(t, part)
  <2>1. CASE i \in 1 .. Len(v) - Len(part) + 1
    <3>1. i > 0 /\ i + Len(u) \in 1 .. Len(t) - Len(part) + 1
      BY <1>1, <1>2, <2>1
    <3>2. i \in SbFind(v, part) <=> \A j \in 1 .. Len(part) : v[i + j - 1] = part[j]
      BY <1>2, <2>1
    <3>3. i + Len(u) \in SbFind(t, part) <=> \A j \in 1 .. Len(part) : t[(i + Len(u)) + j - 1] = part[j]
      BY <1>2, <3>1
    <3> QED BY <1>3, <2>1, <3>1, <3>2, <3>3
  <2>2. CASE i \notin 1 .. Len(v) - Len(part) + 1
    <3>1. i \notin SbFind(v, part)
      BY <1>2, <2>2
    <3>2. ~(i > 0 /\ i + Len(u) \in 1 .. Len(t) - Len(part) + 1)
      BY <1>1, <1>2, <2>2
    <3> QED BY <1>2, <3>1, <3>2
  <2> QED BY <2>1, <2>2
<1> QED BY <1>4 DEF t

LEMMA FirstKept ==
    ASSUME NEW S, NEW u \in Seq(S), NEW v \in Seq(S), NEW part \in Seq(S), Len(part) > 0, SbFind(u, part) # {}
    PROVE  SbFind(Cat(u, v), part) # {} /\ SbFirst(Cat(u, v), part) = SbFirst(u, part)
<1>1. Cat(u, v) \in Seq(S) /\ Len(u) \in Nat /\ Len(part) \in Nat
  BY CatType, LenProperties
<1> DEFINE i == SbFirst(u, part)
           last == Len(u) - Len(part) + 1
<1>2. i \in SbFind(u, part) /\ i \in Nat /\ i <= last /\ \A j \in SbFind(u, part) : i <= j
  BY <1>1, FirstIs
<1>3. \A j : j \in SbFind(u, part) <=> j \in SbFind(Cat(u, v), part) /\ j <= last
  BY FoundBefore
<1>4. \A j \in SbFind(Cat(u, v), part) : j \in Int
  <2>1. SbFind(Cat(u, v), part) \subseteq Int
    BY DEF SbFind
  <2> QED BY <2>1
<1>5. last \in Int
  BY <1>1
<1> HIDE DEF i, last
<1>6. i \in SbFind(Cat(u, v), part)
  BY <1>2, <1>3
<1>7. ASSUME NEW j \in SbFind(Cat(u, v), part) PROVE i <= j
  <2>1. CASE j <= last
    BY <1>2, <1>3, <2>1
  <2>2. CASE ~(j <= last)
    BY <1>2, <1>4, <1>5, <2>2
  <2> QED BY <2>1, <2>2
<1>8. SbFirst(Cat(u, v), part) = i
  BY <1>1, <1>6, <1>7, FirstIs
<1> QED BY <1>6, <1>8 DEF i

-----------------------------------------------------------------------------
(* A recursion along a sequence: the definitions below are instances. *)
SbMoves(W, S) == [W \X S -> W]
SbSteps(f, F, w, t) == f = [i \in 0 .. Len(t) |-> IF i = 0 THEN w ELSE F[<<f[i - 1], t[i]>>]]
SbFold(F, w, t) == (CHOOSE f : SbSteps(f, F, w, t))[Len(t)]

LEMMA StepsExist ==
    ASSUME NEW W, NEW S, NEW F \in SbMoves(W, S), NEW w \in W, NEW t \in Seq(S)
    PROVE  \E f \in [0 .. Len(t) -> W] : SbSteps(f, F, w, t)
<1> DEFINE Ends(k) == \E f \in [0 .. k -> W] : f[0] = w /\ \A i \in 1 .. k : f[i] = F[<<f[i - 1], t[i]>>]
           C == {k \in 0 .. Len(t) : ~Ends(k)}
<1>1. Len(t) \in Nat /\ \A i \in 1 .. Len(t) : t[i] \in S
  BY LenProperties, ElementOfSeq
<1>2. Ends(0)
  <2> DEFINE f == [i \in 0 .. 0 |-> w]
  <2>1. f \in [0 .. 0 -> W] /\ f[0] = w /\ \A i \in 1 .. 0 : f[i] = F[<<f[i - 1], t[i]>>]
    OBVIOUS
  <2> QED BY <2>1
<1>3. ASSUME NEW k \in 0 .. Len(t), k # Len(t), Ends(k) PROVE Ends(k + 1)
  <2>1. PICK f \in [0 .. k -> W] : f[0] = w /\ \A i \in 1 .. k : f[i] = F[<<f[i - 1], t[i]>>]
    BY <1>3
  <2> DEFINE next == F[<<f[k], t[k + 1]>>]
             g == [i \in 0 .. k + 1 |-> IF i = k + 1 THEN next ELSE f[i]]
  <2>2. k \in Nat /\ k + 1 \in 1 .. Len(t) /\ k \in 0 .. k
    BY <1>1, <1>3
  <2>3. f[k] \in W /\ t[k + 1] \in S
    BY <1>1, <2>1, <2>2
  <2>4. next \in W
    BY <2>3 DEF SbMoves
  <2> HIDE DEF next
  <2>5. \A i \in 0 .. k + 1 : g[i] \in W
    BY <2>1, <2>2, <2>4
  <2>6. g \in [0 .. k + 1 -> W]
    BY <2>5
  <2>7. g[0] = w
    BY <2>1, <2>2
  <2>8. ASSUME NEW i \in 1 .. k + 1 PROVE g[i] = F[<<g[i - 1], t[i]>>]
    <3>1. CASE i = k + 1
      <4>1. g[i] = next /\ g[i - 1] = f[k]
        BY <2>2, <3>1
      <4> QED BY <3>1, <4>1 DEF next
    <3>2. CASE i # k + 1
      <4>1. i \in 1 .. k /\ i \in 0 .. k + 1 /\ i - 1 \in 0 .. k + 1 /\ i - 1 # k + 1
        BY <2>2, <3>2
      <4> QED BY <2>1, <4>1
    <3> QED BY <3>1, <3>2
  <2> HIDE DEF g
  <2> QED BY <2>6, <2>7, <2>8
<1> HIDE DEF Ends
<1>4. C = {}
  <2>1. SUFFICES ASSUME C # {} PROVE FALSE
    OBVIOUS
  <2>2. C \subseteq Nat
    BY <1>1
  <2>3. PICK m \in C : \A k \in C : m <= k
    BY <2>1, <2>2, LeastPosition
  <2>4. m \in 0 .. Len(t) /\ m \in Nat /\ ~Ends(m) /\ m # 0
    BY <1>1, <1>2, <2>3
  <2>5. m - 1 \in 0 .. Len(t) /\ m - 1 # Len(t) /\ ~(m <= m - 1) /\ (m - 1) + 1 = m
    BY <1>1, <2>4
  <2>6. Ends(m - 1)
    BY <2>3, <2>5
  <2> QED BY <1>3, <2>4, <2>5, <2>6
<1>5. Ends(Len(t))
  BY <1>1, <1>4
<1>6. PICK f \in [0 .. Len(t) -> W] : f[0] = w /\ \A i \in 1 .. Len(t) : f[i] = F[<<f[i - 1], t[i]>>]
  BY <1>5 DEF Ends
<1>7. \A i \in 0 .. Len(t) : f[i] = IF i = 0 THEN w ELSE F[<<f[i - 1], t[i]>>]
  BY <1>1, <1>6
<1>8. SbSteps(f, F, w, t)
  BY <1>6, <1>7 DEF SbSteps
<1> QED BY <1>8

(* Two that start alike and go on alike are alike. *)
SbGoes(f, W, F, w, t, n) == f[0] = w /\ \A i \in 1 .. n : f[i - 1] \in W => f[i] = F[<<f[i - 1], t[i]>>]

LEMMA StepsAlike ==
    ASSUME NEW W, NEW S, NEW F \in SbMoves(W, S), NEW w \in W, NEW t \in Seq(S), NEW n \in 0 .. Len(t),
           NEW f, NEW g, SbGoes(f, W, F, w, t, n) /\ SbGoes(g, W, F, w, t, n)
    PROVE  f[n] = g[n] /\ f[n] \in W
<1> DEFINE C == {i \in 0 .. n : ~(f[i] = g[i] /\ f[i] \in W)}
<1>0. n \in Nat /\ \A i \in 1 .. n : t[i] \in S
  BY LenProperties, ElementOfSeq
<1>1. SUFFICES ASSUME C # {} PROVE FALSE
  BY <1>0
<1>2. PICK m \in C : \A k \in C : m <= k
  <2>1. C \subseteq Nat
    OBVIOUS
  <2> QED BY <1>1, <2>1, LeastPosition
<1>3. m \in 1 .. n /\ m - 1 \in 0 .. n /\ ~(m <= m - 1)
  <2>1. m # 0
    BY <1>2 DEF SbGoes
  <2> QED BY <1>0, <1>2, <2>1
<1>4. f[m - 1] = g[m - 1] /\ f[m - 1] \in W
  BY <1>2, <1>3
<1>5. t[m] \in S
  BY <1>0, <1>3
<1>6. f[m] = F[<<f[m - 1], t[m]>>] /\ g[m] = F[<<g[m - 1], t[m]>>]
  BY <1>3, <1>4 DEF SbGoes
<1>7. F[<<f[m - 1], t[m]>>] \in W
  BY <1>4, <1>5 DEF SbMoves
<1> QED BY <1>2, <1>4, <1>6, <1>7

LEMMA FoldIs ==
    ASSUME NEW W, NEW S, NEW F \in SbMoves(W, S), NEW w \in W
    PROVE  /\ SbFold(F, w, <<>>) = w
           /\ \A t \in Seq(S) : SbFold(F, w, t) \in W
           /\ \A t \in Seq(S), x \in S : SbFold(F, w, Append(t, x)) = F[<<SbFold(F, w, t), x>>]
<1> DEFINE c(t) == CHOOSE f : SbSteps(f, F, w, t)
<1>1. ASSUME NEW t \in Seq(S)
      PROVE  /\ Len(t) \in Nat /\ \A i \in 1 .. Len(t) : t[i] \in S
             /\ c(t)[0] = w /\ \A i \in 1 .. Len(t) : c(t)[i] = F[<<c(t)[i - 1], t[i]>>]
  <2>1. Len(t) \in Nat /\ \A i \in 1 .. Len(t) : t[i] \in S
    BY LenProperties, ElementOfSeq
  <2>2. \E f : SbSteps(f, F, w, t)
    BY StepsExist
  <2> DEFINE f == c(t)
  <2>3. SbSteps(f, F, w, t)
    BY <2>2
  <2> HIDE DEF f
  <2>4. \A i \in 0 .. Len(t) : f[i] = IF i = 0 THEN w ELSE F[<<f[i - 1], t[i]>>]
    BY <2>3 DEF SbSteps
  <2>5. f[0] = w
    <3>1. 0 \in 0 .. Len(t)
      BY <2>1
    <3> QED BY <2>4, <3>1
  <2>6. ASSUME NEW i \in 1 .. Len(t) PROVE f[i] = F[<<f[i - 1], t[i]>>]
    <3>1. i \in 0 .. Len(t) /\ i # 0
      BY <2>1
    <3> QED BY <2>4, <3>1
  <2> QED BY <2>1, <2>5, <2>6 DEF f
<1>2. \A t : SbFold(F, w, t) = c(t)[Len(t)]
  BY DEF SbFold
<1> HIDE DEF c
<1>3. SbFold(F, w, <<>>) = w
  <2>1. <<>> \in Seq(S) /\ Len(<<>>) = 0
    BY EmptySeq
  <2> QED BY <1>1, <1>2, <2>1
<1>4. ASSUME NEW t \in Seq(S) PROVE SbFold(F, w, t) \in W
  <2> DEFINE f == c(t)
             n == Len(t)
  <2>1. SbGoes(f, W, F, w, t, n)
    BY <1>1 DEF SbGoes
  <2>2. n \in 0 .. Len(t)
    BY <1>1
  <2> HIDE DEF f, n
  <2>3. f[n] \in W
    BY <2>1, <2>2, StepsAlike
  <2> QED BY <1>2, <2>3 DEF f, n
<1>5. ASSUME NEW t \in Seq(S), NEW x \in S PROVE SbFold(F, w, Append(t, x)) = F[<<SbFold(F, w, t), x>>]
  <2> DEFINE f == c(t)
             u == Append(t, x)
             g == c(u)
             n == Len(t)
  <2>1. n \in Nat /\ \A i \in 1 .. n : t[i] \in S
    BY <1>1
  <2>2. u \in Seq(S) /\ Len(u) = n + 1 /\ u[n + 1] = x /\ \A i \in 1 .. n : u[i] = t[i]
    BY <2>1
  <2>3. f[0] = w /\ \A i \in 1 .. n : f[i] = F[<<f[i - 1], t[i]>>]
    BY <1>1
  <2>4. g[0] = w /\ \A i \in 1 .. n + 1 : g[i] = F[<<g[i - 1], u[i]>>]
    BY <1>1, <2>2
  <2>5. SbFold(F, w, t) = f[n] /\ SbFold(F, w, u) = g[n + 1]
    BY <1>2, <2>2
  <2> HIDE DEF f, u, g, n
  <2>6. \A i \in 1 .. n : i \in 1 .. n + 1
    BY <2>1
  <2>7. \A i \in 1 .. n : g[i] = F[<<g[i - 1], t[i]>>]
    BY <2>2, <2>4, <2>6
  <2>8. f[n] = g[n]
    <3>1. SbGoes(f, W, F, w, t, n) /\ SbGoes(g, W, F, w, t, n)
      BY <2>3, <2>4, <2>7 DEF SbGoes
    <3>2. n \in 0 .. Len(t)
      BY <1>1 DEF n
    <3> QED BY <3>1, <3>2, StepsAlike
  <2>9. n + 1 \in 1 .. n + 1 /\ (n + 1) - 1 = n
    BY <2>1
  <2>10. g[n + 1] = F[<<g[(n + 1) - 1], u[n + 1]>>]
    BY <2>4, <2>9
  <2>11. g[n + 1] = F[<<g[n], x>>]
    BY <2>2, <2>9, <2>10
  <2> QED BY <2>5, <2>8, <2>11 DEF u
<1> QED BY <1>3, <1>4, <1>5

(* What is defined by such a recursion is the fold. *)
LEMMA FoldOf ==
    ASSUME NEW W, NEW S, NEW F \in SbMoves(W, S), NEW w \in W, NEW t \in Seq(S),
           NEW f, SbGoes(f, W, F, w, t, Len(t))
    PROVE  f[Len(t)] = SbFold(F, w, t)
<1> DEFINE g == CHOOSE g : SbSteps(g, F, w, t)
           n == Len(t)
<1>1. n \in Nat /\ \A i \in 1 .. n : t[i] \in S
  BY LenProperties, ElementOfSeq
<1>2. \E h : SbSteps(h, F, w, t)
  BY StepsExist
<1>3. SbSteps(g, F, w, t)
  BY <1>2
<1>4. SbFold(F, w, t) = g[n]
  BY DEF SbFold
<1> HIDE DEF g
<1>5. \A i \in 0 .. n : g[i] = IF i = 0 THEN w ELSE F[<<g[i - 1], t[i]>>]
  BY <1>3 DEF SbSteps
<1>6. SbGoes(g, W, F, w, t, n)
  <2>1. g[0] = w
    <3>1. 0 \in 0 .. n
      BY <1>1
    <3> QED BY <1>5, <3>1
  <2>2. ASSUME NEW i \in 1 .. n PROVE g[i] = F[<<g[i - 1], t[i]>>]
    <3>1. i \in 0 .. n /\ i # 0
      BY <1>1
    <3> QED BY <1>5, <3>1
  <2> QED BY <2>1, <2>2 DEF SbGoes
<1>7. f[n] = g[n]
  <2>1. SbGoes(f, W, F, w, t, n) /\ n \in 0 .. Len(t)
    BY <1>1 DEF n
  <2> QED BY <1>6, <2>1, StepsAlike
<1> QED BY <1>4, <1>7 DEF n

LEMMA ByAppending ==
    ASSUME NEW S, NEW A, <<>> \in A, \A t \in Seq(S), x \in S : t \in A => Append(t, x) \in A
    PROVE  \A t \in Seq(S) : t \in A
<1> SUFFICES ASSUME NEW t \in Seq(S) PROVE t \in A
  OBVIOUS
<1> DEFINE C == {k \in 0 .. Len(t) : Pre(t, k) \notin A}
<1>1. /\ Len(t) \in Nat /\ Pre(t, 0) = <<>> /\ Pre(t, Len(t)) = t
      /\ \A k \in 0 .. Len(t) : Pre(t, k) \in Seq(S)
      /\ \A k \in 1 .. Len(t) : t[k] \in S /\ k - 1 \in 0 .. Len(t) /\ Pre(t, k) = Append(Pre(t, k - 1), t[k])
  BY Beginnings
<1>2. C = {}
  <2>1. SUFFICES ASSUME C # {} PROVE FALSE
    OBVIOUS
  <2>2. PICK m \in C : \A k \in C : m <= k
    <3>1. C \subseteq Nat
      BY <1>1
    <3> QED BY <2>1, <3>1, LeastPosition
  <2>3. m \in 1 .. Len(t) /\ ~(m <= m - 1)
    BY <1>1, <2>2
  <2>4. m - 1 \in 0 .. Len(t) /\ Pre(t, m - 1) \in A /\ Pre(t, m - 1) \in Seq(S) /\ t[m] \in S
    BY <1>1, <2>2, <2>3
  <2>5. Append(Pre(t, m - 1), t[m]) \in A
    BY <2>4
  <2> QED BY <1>1, <2>2, <2>3, <2>5
<1>3. Len(t) \in 0 .. Len(t)
  BY <1>1
<1> QED BY <1>1, <1>2, <1>3

-----------------------------------------------------------------------------
(* What is open at the end of a text, and what its whole sequences add to what was reported. *)
SbHeld == [sequences : Seq(SbLine), rest : SbLine]
SbWhole(t) == t[1] # "E" \/ SbComplete(t)

LEMMA TakenIs ==
    ASSUME NEW a \in SbHeld, NEW b \in SbBytes
    PROVE  /\ SbTaken(a, b) \in SbHeld /\ Append(a.rest, b) \in SbLine
           /\ SbWhole(Append(a.rest, b)) =>
                  SbTaken(a, b).rest = <<>> /\ SbTaken(a, b).sequences = Append(a.sequences, Append(a.rest, b))
           /\ ~SbWhole(Append(a.rest, b)) =>
                  SbTaken(a, b).rest = Append(a.rest, b) /\ SbTaken(a, b).sequences = a.sequences
<1> DEFINE r == Append(a.rest, b)
<1>1. a.rest \in SbLine /\ a.sequences \in Seq(SbLine) /\ r \in SbLine
  BY AppendProperties DEF SbHeld, SbLine
<1>2. Append(a.sequences, r) \in Seq(SbLine)
  BY <1>1, AppendProperties
<1>3. <<>> \in SbLine
  BY EmptySeq DEF SbLine
<1>4. SbTaken(a, b) = IF r[1] # "E" \/ SbComplete(r) THEN [sequences |-> Append(a.sequences, r), rest |-> <<>>]
                      ELSE [a EXCEPT !.rest = r]
  BY DEF SbTaken
<1> HIDE DEF r
<1>5. CASE SbWhole(r)
  BY <1>1, <1>2, <1>3, <1>4, <1>5 DEF SbWhole, SbHeld, r
<1>6. CASE ~SbWhole(r)
  <2>1. SbTaken(a, b) = [a EXCEPT !.rest = r]
    BY <1>4, <1>6 DEF SbWhole
  <2>2. [a EXCEPT !.rest = r] \in SbHeld /\ [a EXCEPT !.rest = r].rest = r /\ [a EXCEPT !.rest = r].sequences = a.sequences
    BY <1>1 DEF SbHeld
  <2> QED BY <1>1, <1>6, <2>1, <2>2 DEF r
<1> QED BY <1>5, <1>6

LEMMA ExtractIs ==
    /\ SbExtract(<<>>) = SbNothing
    /\ \A t \in SbLine : SbExtract(t) \in SbHeld
    /\ \A t \in SbLine, b \in SbBytes : SbExtract(Append(t, b)) = SbTaken(SbExtract(t), b)
<1> DEFINE F == [p \in SbHeld \X SbBytes |-> SbTaken(p[1], p[2])]
<1>1. F \in SbMoves(SbHeld, SbBytes) /\ SbNothing \in SbHeld
  <2>1. \A p \in SbHeld \X SbBytes : SbTaken(p[1], p[2]) \in SbHeld
    BY TakenIs
  <2>2. SbNothing \in SbHeld
    BY EmptySeq DEF SbHeld, SbNothing, SbLine
  <2> QED BY <2>1, <2>2 DEF SbMoves
<1>2. \A a \in SbHeld, b \in SbBytes : F[<<a, b>>] = SbTaken(a, b)
  OBVIOUS
<1> HIDE DEF F
<1>3. /\ SbFold(F, SbNothing, <<>>) = SbNothing
      /\ \A t \in SbLine : SbFold(F, SbNothing, t) \in SbHeld
      /\ \A t \in SbLine, x \in SbBytes : SbFold(F, SbNothing, Append(t, x)) = F[<<SbFold(F, SbNothing, t), x>>]
  BY <1>1, FoldIs DEF SbLine
<1>4. ASSUME NEW t \in SbLine PROVE SbExtract(t) = SbFold(F, SbNothing, t)
  <2> DEFINE n == Len(t)
             Is(f) == f = [i \in 0 .. n |-> IF i = 0 THEN SbNothing ELSE SbTaken(f[i - 1], t[i])]
             taken == CHOOSE f : Is(f)
  <2>1. SbExtract(t) = taken[n]
    BY DEF SbExtract
  <2>2. n \in Nat /\ \A i \in 1 .. n : t[i] \in SbBytes
    BY LenProperties, ElementOfSeq DEF SbLine
  <2>3. \E f : Is(f)
    <3>1. PICK f \in [0 .. n -> SbHeld] : SbSteps(f, F, SbNothing, t)
      BY <1>1, StepsExist DEF SbLine
    <3>2. f = [i \in 0 .. n |-> IF i = 0 THEN SbNothing ELSE F[<<f[i - 1], t[i]>>]]
      BY <3>1 DEF SbSteps
    <3>3. ASSUME NEW i \in 0 .. n, i # 0 PROVE F[<<f[i - 1], t[i]>>] = SbTaken(f[i - 1], t[i])
      <4>1. i - 1 \in 0 .. n /\ t[i] \in SbBytes
        BY <2>2, <3>3
      <4>2. f[i - 1] \in SbHeld
        BY <3>1, <4>1
      <4> QED BY <1>2, <4>1, <4>2
    <3> HIDE DEF n
    <3>4. [i \in 0 .. n |-> IF i = 0 THEN SbNothing ELSE F[<<f[i - 1], t[i]>>]]
          = [i \in 0 .. n |-> IF i = 0 THEN SbNothing ELSE SbTaken(f[i - 1], t[i])]
      BY <3>3
    <3> QED BY <3>2, <3>4
  <2>4. Is(taken)
    BY <2>3
  <2> HIDE DEF taken
  <2>5. \A i \in 0 .. n : taken[i] = IF i = 0 THEN SbNothing ELSE SbTaken(taken[i - 1], t[i])
    BY <2>4
  <2>6. SbGoes(taken, SbHeld, F, SbNothing, t, n)
    <3>1. taken[0] = SbNothing
      <4>1. 0 \in 0 .. n
        BY <2>2
      <4> QED BY <2>5, <4>1
    <3>2. ASSUME NEW i \in 1 .. n, taken[i - 1] \in SbHeld PROVE taken[i] = F[<<taken[i - 1], t[i]>>]
      <4>1. i \in 0 .. n /\ i # 0 /\ t[i] \in SbBytes
        BY <2>2
      <4> QED BY <1>2, <2>5, <3>2, <4>1
    <3> QED BY <3>1, <3>2 DEF SbGoes
  <2>7. taken[n] = SbFold(F, SbNothing, t)
    BY <1>1, <2>6, FoldOf DEF SbLine
  <2> QED BY <2>1, <2>7
<1>5. <<>> \in SbLine /\ \A t \in SbLine, b \in SbBytes : Append(t, b) \in SbLine
  BY EmptySeq, AppendProperties DEF SbLine
<1>6. SbExtract(<<>>) = SbNothing
  BY <1>3, <1>4, <1>5
<1>7. ASSUME NEW t \in SbLine PROVE SbExtract(t) \in SbHeld
  BY <1>3, <1>4
<1>8. ASSUME NEW t \in SbLine, NEW b \in SbBytes PROVE SbExtract(Append(t, b)) = SbTaken(SbExtract(t), b)
  <2>1. SbExtract(Append(t, b)) = F[<<SbExtract(t), b>>]
    BY <1>3, <1>4, <1>5
  <2> QED BY <1>2, <1>7, <2>1
<1> QED BY <1>6, <1>7, <1>8

(* What emitting changes, and on what it depends. *)
LEMMA EmitIs ==
    ASSUME NEW s \in SbFields, NEW q \in SbLine
    PROVE  /\ SbEmit(s, q) \in SbFields
           /\ SbEmit(s, q).buffer = s.buffer /\ SbEmit(s, q).paste = s.paste
           /\ SbEmit(s, q).pasted = s.pasted /\ SbEmit(s, q).cut = s.cut
           /\ q = <<s.key>> => SbEmit(s, q).key = "none" /\ SbEmit(s, q).out = s.out
           /\ q # <<s.key>> => SbEmit(s, q).key = SbKittyKey(q) /\ SbEmit(s, q).out = Append(s.out, SbData(q))
<1>1. SbKittyKey(q) \in {"none", "a"}
  BY DEF SbKittyKey
<1>2. Append(s.out, SbData(q)) \in Seq(SbEntry)
  <2>1. SbData(q) \in SbEntry
    BY DEF SbData, SbEntry
  <2>2. s.out \in Seq(SbEntry)
    BY DEF SbFields
  <2> QED BY <2>1, <2>2, AppendProperties
<1> DEFINE k == SbKittyKey(q)
           o == Append(s.out, SbData(q))
<1>3. SbEmit(s, q) = IF q = <<s.key>> THEN [s EXCEPT !.key = "none"] ELSE [s EXCEPT !.key = k, !.out = o]
  BY DEF SbEmit
<1> HIDE DEF k, o
<1>4. CASE q = <<s.key>>
  BY <1>3, <1>4 DEF SbFields
<1>5. CASE q # <<s.key>>
  BY <1>1, <1>2, <1>3, <1>5 DEF SbFields, k, o
<1> QED BY <1>4, <1>5

LEMMA EmitAllIs ==
    ASSUME NEW s \in SbFields
    PROVE  /\ SbEmitAll(s, <<>>) = s
           /\ \A q \in Seq(SbLine) : SbEmitAll(s, q) \in SbFields
           /\ \A q \in Seq(SbLine), t \in SbLine : SbEmitAll(s, Append(q, t)) = SbEmit(SbEmitAll(s, q), t)
<1> DEFINE F == [p \in SbFields \X SbLine |-> SbEmit(p[1], p[2])]
<1>1. F \in SbMoves(SbFields, SbLine)
  <2>1. \A p \in SbFields \X SbLine : SbEmit(p[1], p[2]) \in SbFields
    BY EmitIs
  <2> QED BY <2>1 DEF SbMoves
<1>2. \A a \in SbFields, b \in SbLine : F[<<a, b>>] = SbEmit(a, b)
  OBVIOUS
<1> HIDE DEF F
<1>3. /\ SbFold(F, s, <<>>) = s
      /\ \A q \in Seq(SbLine) : SbFold(F, s, q) \in SbFields
      /\ \A q \in Seq(SbLine), t \in SbLine : SbFold(F, s, Append(q, t)) = F[<<SbFold(F, s, q), t>>]
  BY <1>1, FoldIs
<1>4. ASSUME NEW q \in Seq(SbLine) PROVE SbEmitAll(s, q) = SbFold(F, s, q)
  <2> DEFINE n == Len(q)
             Is(f) == f = [i \in 0 .. n |-> IF i = 0 THEN s ELSE SbEmit(f[i - 1], q[i])]
             emitted == CHOOSE f : Is(f)
  <2>1. SbEmitAll(s, q) = emitted[n]
    BY DEF SbEmitAll
  <2>2. n \in Nat /\ \A i \in 1 .. n : q[i] \in SbLine
    BY LenProperties, ElementOfSeq
  <2>3. \E f : Is(f)
    <3>1. PICK f \in [0 .. n -> SbFields] : SbSteps(f, F, s, q)
      BY <1>1, StepsExist
    <3>2. f = [i \in 0 .. n |-> IF i = 0 THEN s ELSE F[<<f[i - 1], q[i]>>]]
      BY <3>1 DEF SbSteps
    <3>3. ASSUME NEW i \in 0 .. n, i # 0 PROVE F[<<f[i - 1], q[i]>>] = SbEmit(f[i - 1], q[i])
      <4>1. i - 1 \in 0 .. n /\ q[i] \in SbLine
        BY <2>2, <3>3
      <4>2. f[i - 1] \in SbFields
        BY <3>1, <4>1
      <4> QED BY <1>2, <4>1, <4>2
    <3> HIDE DEF n
    <3>4. [i \in 0 .. n |-> IF i = 0 THEN s ELSE F[<<f[i - 1], q[i]>>]]
          = [i \in 0 .. n |-> IF i = 0 THEN s ELSE SbEmit(f[i - 1], q[i])]
      BY <3>3
    <3> QED BY <3>2, <3>4
  <2>4. Is(emitted)
    BY <2>3
  <2> HIDE DEF emitted
  <2>5. \A i \in 0 .. n : emitted[i] = IF i = 0 THEN s ELSE SbEmit(emitted[i - 1], q[i])
    BY <2>4
  <2>6. SbGoes(emitted, SbFields, F, s, q, n)
    <3>1. emitted[0] = s
      <4>1. 0 \in 0 .. n
        BY <2>2
      <4> QED BY <2>5, <4>1
    <3>2. ASSUME NEW i \in 1 .. n, emitted[i - 1] \in SbFields PROVE emitted[i] = F[<<emitted[i - 1], q[i]>>]
      <4>1. i \in 0 .. n /\ i # 0 /\ q[i] \in SbLine
        BY <2>2
      <4> QED BY <1>2, <2>5, <3>2, <4>1
    <3> QED BY <3>1, <3>2 DEF SbGoes
  <2>7. emitted[n] = SbFold(F, s, q)
    BY <1>1, <2>6, FoldOf
  <2> QED BY <2>1, <2>7
<1>5. <<>> \in Seq(SbLine)
  BY EmptySeq
<1>6. SbEmitAll(s, <<>>) = s
  BY <1>3, <1>4, <1>5
<1>7. ASSUME NEW q \in Seq(SbLine) PROVE SbEmitAll(s, q) \in SbFields
  BY <1>3, <1>4
<1>8. ASSUME NEW q \in Seq(SbLine), NEW t \in SbLine PROVE SbEmitAll(s, Append(q, t)) = SbEmit(SbEmitAll(s, q), t)
  <2>1. Append(q, t) \in Seq(SbLine)
    BY AppendProperties
  <2>2. SbEmitAll(s, Append(q, t)) = F[<<SbEmitAll(s, q), t>>]
    BY <1>3, <1>4, <2>1
  <2> QED BY <1>2, <1>7, <2>2
<1> QED BY <1>6, <1>7, <1>8

SbOpen(t) == SbExtract(t).rest
SbGiven(s, t) == SbEmitAll(s, SbExtract(t).sequences)

LEMMA GivenIs ==
    ASSUME NEW s \in SbFields
    PROVE  /\ SbOpen(<<>>) = <<>> /\ SbGiven(s, <<>>) = s
           /\ \A t \in SbLine : SbOpen(t) \in SbLine /\ SbGiven(s, t) \in SbFields
           /\ \A t \in SbLine, b \in SbBytes :
                  /\ Append(t, b) \in SbLine /\ Append(SbOpen(t), b) \in SbLine
                  /\ SbWhole(Append(SbOpen(t), b)) =>
                         /\ SbOpen(Append(t, b)) = <<>>
                         /\ SbGiven(s, Append(t, b)) = SbEmit(SbGiven(s, t), Append(SbOpen(t), b))
                  /\ ~SbWhole(Append(SbOpen(t), b)) =>
                         SbOpen(Append(t, b)) = Append(SbOpen(t), b) /\ SbGiven(s, Append(t, b)) = SbGiven(s, t)
<1>1. SbOpen(<<>>) = <<>> /\ SbGiven(s, <<>>) = s
  BY ExtractIs, EmitAllIs DEF SbOpen, SbGiven, SbNothing
<1>2. ASSUME NEW t \in SbLine
      PROVE  /\ SbExtract(t) \in SbHeld /\ SbExtract(t).sequences \in Seq(SbLine)
             /\ SbOpen(t) \in SbLine /\ SbGiven(s, t) \in SbFields
  <2>1. SbExtract(t) \in SbHeld
    BY ExtractIs
  <2>2. SbExtract(t).sequences \in Seq(SbLine) /\ SbExtract(t).rest \in SbLine
    BY <2>1 DEF SbHeld
  <2> QED BY <2>1, <2>2, EmitAllIs DEF SbOpen, SbGiven
<1>3. ASSUME NEW t \in SbLine, NEW b \in SbBytes
      PROVE  /\ Append(t, b) \in SbLine /\ Append(SbOpen(t), b) \in SbLine
             /\ SbWhole(Append(SbOpen(t), b)) =>
                    /\ SbOpen(Append(t, b)) = <<>>
                    /\ SbGiven(s, Append(t, b)) = SbEmit(SbGiven(s, t), Append(SbOpen(t), b))
             /\ ~SbWhole(Append(SbOpen(t), b)) =>
                    SbOpen(Append(t, b)) = Append(SbOpen(t), b) /\ SbGiven(s, Append(t, b)) = SbGiven(s, t)
  <2> DEFINE a == SbExtract(t)
             r == Append(SbOpen(t), b)
  <2>1. Append(t, b) \in SbLine /\ r \in SbLine
    BY <1>2, AppendProperties DEF SbLine
  <2>2. SbExtract(Append(t, b)) = SbTaken(a, b) /\ r = Append(a.rest, b) /\ a \in SbHeld
    BY <1>2, ExtractIs DEF SbOpen
  <2>3. SbGiven(s, t) = SbEmitAll(s, a.sequences) /\ a.sequences \in Seq(SbLine)
    BY <1>2 DEF SbGiven
  <2> HIDE DEF a, r
  <2>4. CASE SbWhole(r)
    <3>1. SbTaken(a, b).rest = <<>> /\ SbTaken(a, b).sequences = Append(a.sequences, r)
      BY <2>2, <2>4, TakenIs
    <3>2. SbEmitAll(s, Append(a.sequences, r)) = SbEmit(SbEmitAll(s, a.sequences), r)
      BY <2>1, <2>3, EmitAllIs
    <3>3. SbOpen(Append(t, b)) = <<>> /\ SbGiven(s, Append(t, b)) = SbEmit(SbGiven(s, t), r)
      BY <2>2, <2>3, <3>1, <3>2 DEF SbOpen, SbGiven
    <3> QED BY <2>1, <2>4, <3>3 DEF r
  <2>5. CASE ~SbWhole(r)
    <3>1. SbTaken(a, b).rest = r /\ SbTaken(a, b).sequences = a.sequences
      BY <2>2, <2>5, TakenIs
    <3>2. SbOpen(Append(t, b)) = r /\ SbGiven(s, Append(t, b)) = SbGiven(s, t)
      BY <2>2, <2>3, <3>1 DEF SbOpen, SbGiven
    <3> QED BY <2>1, <2>5, <3>2 DEF r
  <2> QED BY <2>4, <2>5
<1> QED BY <1>1, <1>2, <1>3

LEMMA GivenWhole ==
    ASSUME NEW s \in SbFields, NEW t \in SbLine, NEW b \in SbBytes, SbWhole(Append(SbOpen(t), b))
    PROVE  SbOpen(Append(t, b)) = <<>> /\ SbGiven(s, Append(t, b)) = SbEmit(SbGiven(s, t), Append(SbOpen(t), b))
BY GivenIs

LEMMA GivenOpen ==
    ASSUME NEW s \in SbFields, NEW t \in SbLine, NEW b \in SbBytes, ~SbWhole(Append(SbOpen(t), b))
    PROVE  SbOpen(Append(t, b)) = Append(SbOpen(t), b) /\ SbGiven(s, Append(t, b)) = SbGiven(s, t)
BY GivenIs

LEMMA GivenKeeps ==
    ASSUME NEW s \in SbFields
    PROVE  \A t \in SbLine : /\ SbGiven(s, t).buffer = s.buffer /\ SbGiven(s, t).paste = s.paste
                             /\ SbGiven(s, t).pasted = s.pasted /\ SbGiven(s, t).cut = s.cut
<1> DEFINE Same(x) == x.buffer = s.buffer /\ x.paste = s.paste /\ x.pasted = s.pasted /\ x.cut = s.cut
           A == {t \in SbLine : Same(SbGiven(s, t))}
<1>1. \A t \in Seq(SbBytes) : t \in A
  <2>1. <<>> \in A
    <3>1. <<>> \in SbLine /\ SbGiven(s, <<>>) = s
      BY EmptySeq, GivenIs DEF SbLine
    <3> QED BY <3>1
  <2>2. ASSUME NEW t \in Seq(SbBytes), NEW b \in SbBytes, t \in A PROVE Append(t, b) \in A
    <3> DEFINE g == SbGiven(s, t)
               r == Append(SbOpen(t), b)
    <3>1. t \in SbLine /\ g \in SbFields /\ r \in SbLine /\ Append(t, b) \in SbLine /\ Same(g)
      BY <2>2, GivenIs DEF SbLine
    <3>2. SbGiven(s, Append(t, b)) = SbEmit(g, r) \/ SbGiven(s, Append(t, b)) = g
      BY <3>1, GivenIs
    <3> HIDE DEF g, r
    <3>3. Same(SbEmit(g, r))
      BY <3>1, EmitIs
    <3>4. Same(SbGiven(s, Append(t, b)))
      BY <3>1, <3>2, <3>3
    <3> QED BY <3>1, <3>4
  <2> HIDE DEF A
  <2> QED BY <2>1, <2>2, ByAppending
<1> QED BY <1>1 DEF SbLine

LEMMA GivenAlike ==
    ASSUME NEW s \in SbFields, NEW z \in SbFields, s.key = z.key, s.out = z.out
    PROVE  \A t \in SbLine : SbGiven(s, t).key = SbGiven(z, t).key /\ SbGiven(s, t).out = SbGiven(z, t).out
<1> DEFINE Same(x, y) == x.key = y.key /\ x.out = y.out
           A == {t \in SbLine : Same(SbGiven(s, t), SbGiven(z, t))}
<1>1. \A t \in Seq(SbBytes) : t \in A
  <2>1. <<>> \in A
    <3>1. <<>> \in SbLine /\ SbGiven(s, <<>>) = s /\ SbGiven(z, <<>>) = z
      BY EmptySeq, GivenIs DEF SbLine
    <3> QED BY <3>1
  <2>2. ASSUME NEW t \in Seq(SbBytes), NEW b \in SbBytes, t \in A PROVE Append(t, b) \in A
    <3> DEFINE g == SbGiven(s, t)
               h == SbGiven(z, t)
               r == Append(SbOpen(t), b)
    <3>1. t \in SbLine /\ g \in SbFields /\ h \in SbFields /\ r \in SbLine /\ Append(t, b) \in SbLine /\ Same(g, h)
      BY <2>2, GivenIs DEF SbLine
    <3>2. CASE SbWhole(r)
      <4>1. SbGiven(s, Append(t, b)) = SbEmit(g, r) /\ SbGiven(z, Append(t, b)) = SbEmit(h, r)
        BY <3>1, <3>2, GivenIs
      <4> HIDE DEF g, h, r
      <4>2. Same(SbEmit(g, r), SbEmit(h, r))
        <5>1. CASE r = <<g.key>>
          <6>1. r = <<h.key>>
            BY <3>1, <5>1
          <6>2. SbEmit(g, r).key = "none" /\ SbEmit(g, r).out = g.out
            BY <3>1, <5>1, EmitIs
          <6>3. SbEmit(h, r).key = "none" /\ SbEmit(h, r).out = h.out
            BY <3>1, <6>1, EmitIs
          <6> QED BY <3>1, <6>2, <6>3
        <5>2. CASE r # <<g.key>>
          <6>1. r # <<h.key>>
            BY <3>1, <5>2
          <6>2. SbEmit(g, r).key = SbKittyKey(r) /\ SbEmit(g, r).out = Append(g.out, SbData(r))
            BY <3>1, <5>2, EmitIs
          <6>3. SbEmit(h, r).key = SbKittyKey(r) /\ SbEmit(h, r).out = Append(h.out, SbData(r))
            BY <3>1, <6>1, EmitIs
          <6> QED BY <3>1, <6>2, <6>3
        <5> QED BY <5>1, <5>2
      <4> QED BY <3>1, <4>1, <4>2
    <3>3. CASE ~SbWhole(r)
      <4>1. SbGiven(s, Append(t, b)) = g /\ SbGiven(z, Append(t, b)) = h
        BY <3>1, <3>3, GivenIs
      <4> QED BY <3>1, <4>1
    <3> QED BY <3>2, <3>3
  <2> HIDE DEF A
  <2> QED BY <2>1, <2>2, ByAppending
<1> QED BY <1>1 DEF SbLine

(* What is open stays as it is when it is read again: it begins with an escape and holds no whole sequence. *)
LEMMA OpenIs ==
    ASSUME NEW s \in SbFields
    PROVE  \A t \in SbLine :
               /\ SbOpen(SbOpen(t)) = SbOpen(t) /\ SbGiven(s, SbOpen(t)) = s
               /\ SbOpen(t) # <<>> => SbOpen(t)[1] = "E"
               /\ \E g \in SbLine : t = Cat(g, SbOpen(t))
<1> DEFINE Fits(t, o) == /\ SbOpen(o) = o /\ SbGiven(s, o) = s
                         /\ o # <<>> => o[1] = "E"
                         /\ \E g \in SbLine : t = Cat(g, o)
           A == {t \in SbLine : Fits(t, SbOpen(t))}
<1>0. <<>> \in SbLine /\ SbGiven(s, <<>>) = s /\ SbOpen(<<>>) = <<>>
  BY EmptySeq, GivenIs DEF SbLine
<1>1. \A t \in SbLine : Fits(t, <<>>)
  <2> SUFFICES ASSUME NEW t \in SbLine PROVE Fits(t, <<>>)
    OBVIOUS
  <2>1. t = Cat(t, <<>>)
    BY CatEmpty DEF SbLine
  <2> QED BY <1>0, <2>1
<1>2. \A t \in Seq(SbBytes) : t \in A
  <2>1. <<>> \in A
    BY <1>0, <1>1
  <2>2. ASSUME NEW t \in Seq(SbBytes), NEW b \in SbBytes, t \in A PROVE Append(t, b) \in A
    <3> DEFINE o == SbOpen(t)
               r == Append(o, b)
               u == Append(t, b)
    <3>1. t \in SbLine /\ o \in SbLine /\ r \in SbLine /\ u \in SbLine /\ Fits(t, o)
      BY <2>2, GivenIs DEF SbLine
    <3>2. CASE SbWhole(r)
      <4>1. SbOpen(u) = <<>>
        BY <3>1, <3>2, GivenWhole
      <4> HIDE DEF u
      <4>2. u \in A
        BY <1>1, <3>1, <4>1
      <4> QED BY <4>2 DEF u
    <3>3. CASE ~SbWhole(r)
      <4>1. SbOpen(u) = r
        BY <3>1, <3>3, GivenOpen
      <4>2. SbOpen(r) = r /\ SbGiven(s, r) = s
        <5>1. SbOpen(o) = o /\ SbGiven(s, o) = s
          BY <3>1
        <5> HIDE DEF o
        <5>2. ~SbWhole(Append(SbOpen(o), b)) =>
                  SbOpen(Append(o, b)) = Append(SbOpen(o), b) /\ SbGiven(s, Append(o, b)) = SbGiven(s, o)
          BY <3>1, GivenOpen
        <5> QED BY <3>3, <5>1, <5>2
      <4>3. r[1] = "E"
        BY <3>3 DEF SbWhole
      <4>4. \E g \in SbLine : u = Cat(g, r)
        <5>1. PICK g \in SbLine : t = Cat(g, o)
          BY <3>1
        <5> HIDE DEF o
        <5>2. u = Cat(t, One(b)) /\ r = Cat(o, One(b)) /\ One(b) \in Seq(SbBytes)
          BY <3>1, OneMore, OneType DEF SbLine
        <5>3. Cat(Cat(g, o), One(b)) = Cat(g, Cat(o, One(b)))
          BY <3>1, <5>2, CatAssoc DEF SbLine
        <5>4. u = Cat(g, r)
          BY <5>1, <5>2, <5>3
        <5> QED BY <5>4
      <4> HIDE DEF u, r
      <4>5. Fits(u, r)
        BY <4>2, <4>3, <4>4
      <4>6. u \in A
        BY <3>1, <4>1, <4>5
      <4> QED BY <4>6 DEF u
    <3> QED BY <3>2, <3>3
  <2> HIDE DEF A
  <2> QED BY <2>1, <2>2, ByAppending
<1> QED BY <1>2 DEF SbLine

(* Reading on from what is open gives what reading all of it gives. *)
LEMMA GivenOn ==
    ASSUME NEW s \in SbFields, NEW x \in SbLine
    PROVE  \A t \in SbLine : /\ SbOpen(Cat(x, t)) = SbOpen(Cat(SbOpen(x), t))
                             /\ SbGiven(s, Cat(x, t)) = SbGiven(SbGiven(s, x), Cat(SbOpen(x), t))
<1> DEFINE y == SbOpen(x)
           z == SbGiven(s, x)
           Same(t) == SbOpen(Cat(x, t)) = SbOpen(Cat(y, t)) /\ SbGiven(s, Cat(x, t)) = SbGiven(z, Cat(y, t))
           A == {t \in SbLine : Same(t)}
<1>1. y \in SbLine /\ z \in SbFields
  BY GivenIs
<1>2. SbOpen(y) = y /\ SbGiven(z, y) = z
  BY <1>1, OpenIs
<1>3. \A t \in Seq(SbBytes) : t \in A
  <2>1. <<>> \in A
    <3>1. <<>> \in SbLine /\ Cat(x, <<>>) = x /\ Cat(y, <<>>) = y
      BY <1>1, EmptySeq, CatEmpty DEF SbLine
    <3> QED BY <1>2, <3>1
  <2>2. ASSUME NEW t \in Seq(SbBytes), NEW b \in SbBytes, t \in A PROVE Append(t, b) \in A
    <3> HIDE DEF y, z
    <3> DEFINE u == Cat(x, t)
               v == Cat(y, t)
               r == Append(SbOpen(u), b)
    <3>1. t \in SbLine /\ Append(t, b) \in SbLine /\ u \in SbLine /\ v \in SbLine
      BY <1>1, <2>2, AppendProperties, CatType DEF SbLine
    <3>2. Cat(x, Append(t, b)) = Append(u, b) /\ Cat(y, Append(t, b)) = Append(v, b)
      <4>1. One(b) \in Seq(SbBytes)
        BY OneType
      <4>2. Append(t, b) = Cat(t, One(b)) /\ Append(u, b) = Cat(u, One(b)) /\ Append(v, b) = Cat(v, One(b))
        BY <3>1, OneMore DEF SbLine
      <4>3. Cat(Cat(x, t), One(b)) = Cat(x, Cat(t, One(b))) /\ Cat(Cat(y, t), One(b)) = Cat(y, Cat(t, One(b)))
        BY <1>1, <3>1, <4>1, CatAssoc DEF SbLine
      <4> QED BY <4>2, <4>3
    <3>3. SbOpen(u) = SbOpen(v) /\ SbGiven(s, u) = SbGiven(z, v)
      BY <2>2
    <3> HIDE DEF u, v
    <3>4. CASE SbWhole(r)
      <4>1. SbOpen(Append(u, b)) = <<>> /\ SbGiven(s, Append(u, b)) = SbEmit(SbGiven(s, u), r)
        BY <3>1, <3>4, GivenWhole
      <4>2. SbOpen(Append(v, b)) = <<>> /\ SbGiven(z, Append(v, b)) = SbEmit(SbGiven(z, v), r)
        BY <1>1, <3>1, <3>3, <3>4, GivenWhole
      <4> QED BY <3>1, <3>2, <3>3, <4>1, <4>2
    <3>5. CASE ~SbWhole(r)
      <4>1. SbOpen(Append(u, b)) = r /\ SbGiven(s, Append(u, b)) = SbGiven(s, u)
        BY <3>1, <3>5, GivenOpen
      <4>2. SbOpen(Append(v, b)) = r /\ SbGiven(z, Append(v, b)) = SbGiven(z, v)
        BY <1>1, <3>1, <3>3, <3>5, GivenOpen
      <4> QED BY <3>1, <3>2, <3>3, <4>1, <4>2
    <3> QED BY <3>4, <3>5
  <2> HIDE DEF A
  <2> QED BY <2>1, <2>2, ByAppending
<1> QED BY <1>3 DEF SbLine

(* The beginning of a marker stays open. *)
LEMMA OpenGrows ==
    ASSUME NEW s \in SbFields, NEW t \in SbLine, NEW b \in SbBytes,
           SbOpen(t) = t, SbGiven(s, t) = s, ~SbWhole(Append(t, b))
    PROVE  SbOpen(Append(t, b)) = Append(t, b) /\ SbGiven(s, Append(t, b)) = s
BY GivenOpen

LEMMA TwoAndThree ==
    ASSUME NEW S, NEW a \in S, NEW b \in S, NEW c \in S
    PROVE  Append(<<a>>, b) = <<a, b>> /\ Append(<<a, b>>, c) = <<a, b, c>>
<1>1. Append(<<a>>, b) = <<a, b>>
  <2> DEFINE s == Append(<<a>>, b)
             t == <<a, b>>
  <2>1. s \in Seq(S) /\ Len(s) = 2 /\ s[1] = a /\ s[2] = b
    OBVIOUS
  <2>2. t \in Seq(S) /\ Len(t) = 2 /\ t[1] = a /\ t[2] = b
    OBVIOUS
  <2> HIDE DEF s, t
  <2>3. \A i \in 1 .. Len(s) : s[i] = t[i]
    BY <2>1, <2>2
  <2>4. s = t
    BY <2>1, <2>2, <2>3, SeqEqual
  <2> QED BY <2>4 DEF s, t
<1>2. Append(<<a, b>>, c) = <<a, b, c>>
  <2> DEFINE s == Append(<<a, b>>, c)
             t == <<a, b, c>>
  <2>1. s \in Seq(S) /\ Len(s) = 3 /\ s[1] = a /\ s[2] = b /\ s[3] = c
    OBVIOUS
  <2>2. t \in Seq(S) /\ Len(t) = 3 /\ t[1] = a /\ t[2] = b /\ t[3] = c
    OBVIOUS
  <2> HIDE DEF s, t
  <2>3. \A i \in 1 .. Len(s) : s[i] = t[i]
    BY <2>1, <2>2
  <2>4. s = t
    BY <2>1, <2>2, <2>3, SeqEqual
  <2> QED BY <2>4 DEF s, t
<1> QED BY <1>1, <1>2

LEMMA MarkerOpen ==
    ASSUME NEW s \in SbFields, NEW t \in {<<>>, <<"E">>, <<"E", "[">>, <<"E", "[", "2">>}
    PROVE  SbOpen(t) = t /\ SbGiven(s, t) = s
<1>1. "E" \in SbBytes /\ "[" \in SbBytes /\ "2" \in SbBytes
  BY BytesAre
<1>2. <<>> \in SbLine /\ <<"E">> \in SbLine /\ <<"E", "[">> \in SbLine
  BY <1>1 DEF SbLine
<1>3. Append(<<>>, "E") = <<"E">> /\ Append(<<"E">>, "[") = <<"E", "[">> /\ Append(<<"E", "[">>, "2") = <<"E", "[", "2">>
  <2>1. Append(<<>>, "E") = <<"E">>
    OBVIOUS
  <2>2. Append(<<"E">>, "[") = <<"E", "[">>
    BY <1>1, TwoAndThree
  <2>3. Append(<<"E", "[">>, "2") = <<"E", "[", "2">>
    BY <1>1, TwoAndThree
  <2> QED BY <2>1, <2>2, <2>3
<1>4. ~SbWhole(<<"E">>) /\ ~SbWhole(<<"E", "[">>) /\ ~SbWhole(<<"E", "[", "2">>)
  <2>1. ~SbWhole(<<"E">>)
    BY DEF SbWhole, SbComplete
  <2>2. ~SbWhole(<<"E", "[">>)
    BY DEF SbWhole, SbComplete, SbCompleteCsi
  <2>3. ~SbWhole(<<"E", "[", "2">>)
    <3>1. Last(<<"E", "[", "2">>) = "2"
      BY DEF Last
    <3> QED BY <3>1 DEF SbWhole, SbComplete, SbCompleteCsi, SbFinal, SbDigits
  <2> QED BY <2>1, <2>2, <2>3
<1>5. SbOpen(<<>>) = <<>> /\ SbGiven(s, <<>>) = s
  BY GivenIs
<1> DEFINE n == <<>>
           x == <<"E">>
           y == <<"E", "[">>
           z == <<"E", "[", "2">>
<1>6. /\ n \in SbLine /\ x \in SbLine /\ y \in SbLine
      /\ x = Append(n, "E") /\ y = Append(x, "[") /\ z = Append(y, "2")
      /\ ~SbWhole(Append(n, "E")) /\ ~SbWhole(Append(x, "[")) /\ ~SbWhole(Append(y, "2"))
      /\ SbOpen(n) = n /\ SbGiven(s, n) = s
  BY <1>2, <1>3, <1>4, <1>5
<1>7. t \in {n, x, y, z}
  OBVIOUS
<1> HIDE DEF n, x, y, z
<1>8. SbOpen(x) = x /\ SbGiven(s, x) = s
  BY <1>1, <1>6, OpenGrows
<1>9. SbOpen(y) = y /\ SbGiven(s, y) = s
  BY <1>1, <1>6, <1>8, OpenGrows
<1>10. SbOpen(z) = z /\ SbGiven(s, z) = s
  BY <1>1, <1>6, <1>9, OpenGrows
<1> QED BY <1>6, <1>7, <1>8, <1>9, <1>10

-----------------------------------------------------------------------------
(* A text is what is before a marker, the marker and what follows. *)
LEMMA SplitAt ==
    ASSUME NEW S, NEW t \in Seq(S), NEW part \in Seq(S), Len(part) > 0, SbFind(t, part) # {}
    PROVE  LET f == SbFirst(t, part)
               a == SubSeq(t, 1, f - 1)
               c == SbFrom(t, f + Len(part))
           IN  /\ f \in Nat /\ f >= 1 /\ f + Len(part) - 1 <= Len(t)
               /\ a = Pre(t, f - 1) /\ a \in Seq(S) /\ Len(a) = f - 1
               /\ c \in Seq(S) /\ Len(c) = Len(t) - f - Len(part) + 1
               /\ t = Cat(a, Cat(part, c))
<1> DEFINE f == SbFirst(t, part)
           n == Len(part)
           a == SubSeq(t, 1, f - 1)
           c == SbFrom(t, f + Len(part))
           e == f + n - 1
<1>1. f \in SbFind(t, part) /\ f \in Nat /\ f \in 1 .. Len(t) - n + 1 /\ Len(t) \in Nat /\ n \in Nat /\ n > 0
  BY FirstIs, LenProperties
<1>2. \A j \in 1 .. n : t[f + j - 1] = part[j]
  BY <1>1, FindIs DEF SbMatch
<1>3. a = Pre(t, f - 1) /\ f - 1 \in 0 .. Len(t)
  BY <1>1 DEF Pre
<1>4. c = SubSeq(t, e + 1, Len(t)) /\ e \in 0 .. Len(t)
  <2>1. e + 1 = f + n /\ e \in 0 .. Len(t)
    BY <1>1
  <2>2. c = SubSeq(t, f + n, Len(t))
    BY DEF SbFrom
  <2> HIDE DEF e, c
  <2> QED BY <2>1, <2>2
<1>5. a \in Seq(S) /\ Len(a) = f - 1 /\ \A k \in 1 .. f - 1 : a[k] = t[k]
  <2>1. SubSeq(t, 0 + 1, f - 1) \in Seq(S) /\ Len(SubSeq(t, 0 + 1, f - 1)) = (f - 1) - 0
        /\ \A k \in 1 .. (f - 1) - 0 : SubSeq(t, 0 + 1, f - 1)[k] = t[0 + k]
    <3> DEFINE g == f - 1
    <3>1. g \in 0 .. Len(t) /\ 0 \in 0 .. Len(t)
      BY <1>1
    <3> HIDE DEF g
    <3>2. SubSeq(t, 0 + 1, g) \in Seq(S) /\ Len(SubSeq(t, 0 + 1, g)) = g - 0
          /\ \A k \in 1 .. g - 0 : SubSeq(t, 0 + 1, g)[k] = t[0 + k]
      BY <3>1, Cut
    <3> QED BY <3>2 DEF g
  <2>2. 0 + 1 = 1 /\ (f - 1) - 0 = f - 1 /\ \A k \in 1 .. f - 1 : 0 + k = k
    BY <1>1
  <2> QED BY <2>1, <2>2
<1>6. c \in Seq(S) /\ Len(c) = Len(t) - e /\ \A k \in 1 .. Len(t) - e : c[k] = t[e + k]
  <2> HIDE DEF e, c
  <2>1. Len(t) \in e .. Len(t)
    BY <1>1, <1>4
  <2> QED BY <1>4, <2>1, Cut
<1> HIDE DEF a, c, f, n
<1>7. t = Cat(a, Cat(part, c))
  <2> DEFINE b == Cat(part, c)
             d == Cat(a, b)
  <2>1. b \in Seq(S) /\ Len(b) = n + Len(c) /\ \A i \in 1 .. n + Len(c) : b[i] = IF i <= n THEN part[i] ELSE c[i - n]
    BY <1>6, CatLen, CatType DEF n
  <2> HIDE DEF b
  <2>2. /\ d \in Seq(S) /\ Len(d) = Len(a) + Len(b)
        /\ \A i \in 1 .. Len(a) + Len(b) : d[i] = IF i <= Len(a) THEN a[i] ELSE b[i - Len(a)]
    BY <1>5, <2>1, CatLen, CatType
  <2> HIDE DEF d
  <2>3. Len(d) = Len(t)
    BY <1>1, <1>5, <1>6, <2>1, <2>2
  <2>4. ASSUME NEW i \in 1 .. Len(t) PROVE d[i] = t[i]
    <3>1. CASE i <= f - 1
      <4>1. i \in 1 .. Len(a) + Len(b) /\ i <= Len(a) /\ i \in 1 .. f - 1
        BY <1>1, <1>5, <2>2, <2>3, <3>1
      <4>2. d[i] = a[i]
        BY <2>2, <4>1
      <4> QED BY <1>5, <4>1, <4>2
    <3>2. CASE ~(i <= f - 1) /\ i <= e
      <4> DEFINE j == i - (f - 1)
      <4>1. j \in 1 .. n /\ f + j - 1 = i /\ j \in 1 .. n + Len(c) /\ i \in 1 .. Len(a) + Len(b) /\ j = i - Len(a)
        BY <1>1, <1>5, <1>6, <2>2, <2>3, <3>2
      <4> HIDE DEF j
      <4>2. d[i] = b[j]
        BY <1>1, <1>5, <2>2, <3>2, <4>1
      <4>3. b[j] = part[j]
        <5>1. b[j] = IF j <= n THEN part[j] ELSE c[j - n]
          BY <2>1, <4>1
        <5>2. j <= n
          BY <1>1, <4>1
        <5> QED BY <5>1, <5>2
      <4> QED BY <1>2, <4>1, <4>2, <4>3
    <3>3. CASE ~(i <= e)
      <4> DEFINE j == i - (f - 1)
                 k == i - e
      <4>1. /\ j \in 1 .. n + Len(c) /\ ~(j <= n) /\ j - n = k /\ i \in 1 .. Len(a) + Len(b) /\ j = i - Len(a)
            /\ k \in 1 .. Len(t) - e /\ e + k = i /\ ~(i <= f - 1)
        BY <1>1, <1>5, <1>6, <2>2, <2>3, <3>3
      <4> HIDE DEF j, k, e
      <4>2. d[i] = b[j]
        BY <1>1, <1>5, <2>2, <4>1
      <4>3. b[j] = c[k]
        <5>1. b[j] = IF j <= n THEN part[j] ELSE c[j - n]
          BY <2>1, <4>1
        <5> QED BY <4>1, <5>1
      <4>4. c[k] = t[e + k]
        BY <1>6, <4>1
      <4> QED BY <4>1, <4>2, <4>3, <4>4
    <3> QED BY <3>1, <3>2, <3>3
  <2>5. d = t
    BY <2>2, <2>3, <2>4, SeqEqual
  <2> QED BY <2>5 DEF d, b
<1>8. f >= 1 /\ e <= Len(t) /\ Len(t) - e = Len(t) - f - n + 1
  BY <1>1
<1> QED BY <1>1, <1>3, <1>5, <1>6, <1>7, <1>8 DEF f, n, a, c

(* The calls of process(): their types, their cases and what is left for the next one. *)
SbWorks == [state : SbFields, input : SbLine]
SbSize(w) == Len(w.state.pasted) + Len(w.state.buffer) + Len(w.input)

LEMMA PastingIs ==
    ASSUME NEW s \in SbFields, NEW t \in SbLine
    PROVE  /\ SbPasting(s, t) \in SbWorks
           /\ SbPasting(s, t).state.buffer = <<>> /\ SbPasting(s, t).state.cut = s.cut
           /\ SbFind(t, SbEnd) = {} => SbPasting(s, t) = [state |-> SbPasteGoesOn(s, t), input |-> <<>>]
           /\ SbFind(t, SbEnd) # {} =>
                  /\ SbPasting(s, t) = [state |-> SbPasteDone(s, t), input |-> SbFrom(t, SbFirst(t, SbEnd) + Len(SbEnd))]
                  /\ SbPasting(s, t).state.pasted = <<>>
                  /\ Len(SbPasting(s, t).input) < Len(t)
<1>1. <<>> \in SbLine /\ SbEnd \in Seq(SbBytes) /\ Len(SbEnd) = 4 /\ t \in Seq(SbBytes) /\ Len(t) \in Nat
  BY EmptySeq, BytesAre, LenProperties DEF SbLine
<1>2. CASE SbFind(t, SbEnd) = {}
  <2>1. SbPasting(s, t) = [state |-> SbPasteGoesOn(s, t), input |-> <<>>]
    BY <1>2 DEF SbPasting
  <2>2. SbPasteGoesOn(s, t) \in SbFields /\ SbPasteGoesOn(s, t).buffer = <<>> /\ SbPasteGoesOn(s, t).cut = s.cut
    BY <1>1 DEF SbPasteGoesOn, SbFields
  <2> QED BY <1>1, <1>2, <2>1, <2>2 DEF SbWorks
<1>3. CASE SbFind(t, SbEnd) # {}
  <2> DEFINE f == SbFirst(t, SbEnd)
             body == SubSeq(t, 1, f - 1)
             more == SbFrom(t, f + Len(SbEnd))
             o == Append(s.out, [kind |-> "paste", text |-> body])
  <2>1. body \in SbLine /\ more \in SbLine /\ f \in Nat /\ f >= 1 /\ Len(more) = Len(t) - f - Len(SbEnd) + 1
    <3>1. Len(SbEnd) > 0
      BY <1>1
    <3>2. /\ body \in Seq(SbBytes) /\ more \in Seq(SbBytes) /\ f \in Nat /\ f >= 1
          /\ Len(more) = Len(t) - f - Len(SbEnd) + 1
      BY <1>1, <1>3, <3>1, SplitAt, Zenon
    <3> QED BY <3>2 DEF SbLine
  <2>2. SbPasting(s, t) = [state |-> SbPasteDone(s, t), input |-> more]
    BY <1>3 DEF SbPasting
  <2>3. Len(more) < Len(t)
    BY <1>1, <2>1
  <2>4. SbPasteDone(s, t) = [s EXCEPT !.buffer = <<>>, !.paste = FALSE, !.pasted = <<>>, !.key = "none", !.out = o]
    BY DEF SbPasteDone
  <2> HIDE DEF body, more
  <2>5. o \in Seq(SbEntry)
    <3>1. [kind |-> "paste", text |-> body] \in SbEntry
      BY <2>1 DEF SbEntry
    <3>2. s.out \in Seq(SbEntry)
      BY DEF SbFields
    <3> QED BY <3>1, <3>2, AppendProperties
  <2> HIDE DEF o
  <2>6. /\ SbPasteDone(s, t) \in SbFields /\ SbPasteDone(s, t).buffer = <<>>
        /\ SbPasteDone(s, t).cut = s.cut /\ SbPasteDone(s, t).pasted = <<>>
    BY <1>1, <2>4, <2>5 DEF SbFields
  <2>7. SbPasting(s, t) \in SbWorks
    BY <2>1, <2>2, <2>6 DEF SbWorks
  <2> QED BY <1>3, <2>2, <2>3, <2>6, <2>7 DEF more, f
<1> QED BY <1>2, <1>3

SbEntered(s, t) == [SbGiven(s, t) EXCEPT !.key = "none", !.cut = @ \/ SbOpen(t) # <<>>]

LEMMA EnteredIs ==
    ASSUME NEW s \in SbFields, NEW t \in SbLine
    PROVE  /\ SbEntered(s, t) \in SbFields /\ SbEntered(s, t).cut = (s.cut \/ SbOpen(t) # <<>>)
           /\ SbEntered(s, t).buffer = s.buffer /\ SbEntered(s, t).paste = s.paste /\ SbEntered(s, t).pasted = s.pasted
           /\ SbEntered(s, t).key = "none" /\ SbEntered(s, t).out = SbGiven(s, t).out
<1> DEFINE g == SbGiven(s, t)
           o == SbOpen(t) # <<>>
<1>1. g \in SbFields /\ g.cut = s.cut /\ g.buffer = s.buffer /\ g.paste = s.paste /\ g.pasted = s.pasted
  BY GivenIs, GivenKeeps
<1>2. SbEntered(s, t) = [g EXCEPT !.key = "none", !.cut = @ \/ o] /\ o \in BOOLEAN
  BY DEF SbEntered
<1> HIDE DEF g, o
<1>3. /\ SbEntered(s, t) \in SbFields /\ SbEntered(s, t).cut = (g.cut \/ o)
      /\ SbEntered(s, t).buffer = g.buffer /\ SbEntered(s, t).paste = g.paste /\ SbEntered(s, t).pasted = g.pasted
      /\ SbEntered(s, t).key = "none" /\ SbEntered(s, t).out = g.out
  BY <1>1, <1>2 DEF SbFields
<1> QED BY <1>1, <1>3 DEF g, o

LEMMA PlainIs ==
    ASSUME NEW s \in SbFields, NEW t \in SbLine
    PROVE  /\ SbPlain(s, t) \in SbWorks /\ SbPlain(s, t).input = <<>>
           /\ SbPlain(s, t).state.buffer = SbOpen(t) /\ SbPlain(s, t).state.paste = s.paste
           /\ SbPlain(s, t).state.pasted = s.pasted /\ SbPlain(s, t).state.cut = s.cut
           /\ SbPlain(s, t).state.key = SbGiven(s, t).key /\ SbPlain(s, t).state.out = SbGiven(s, t).out
<1> DEFINE z == [s EXCEPT !.buffer = SbOpen(t)]
<1>1. SbPlain(s, t) = [state |-> SbGiven(z, t), input |-> <<>>]
  BY DEF SbPlain, SbGiven, SbOpen, SbRemainder
<1>2. SbOpen(t) \in SbLine /\ <<>> \in SbLine
  BY GivenIs, EmptySeq DEF SbLine
<1>3. /\ z \in SbFields /\ z.buffer = SbOpen(t) /\ z.paste = s.paste /\ z.pasted = s.pasted /\ z.cut = s.cut
      /\ z.key = s.key /\ z.out = s.out
  BY <1>2 DEF SbFields
<1> HIDE DEF z
<1>4. /\ SbGiven(z, t) \in SbFields /\ SbGiven(z, t).buffer = z.buffer /\ SbGiven(z, t).paste = z.paste
      /\ SbGiven(z, t).pasted = z.pasted /\ SbGiven(z, t).cut = z.cut
  BY <1>3, GivenIs, GivenKeeps
<1>5. SbGiven(z, t).key = SbGiven(s, t).key /\ SbGiven(z, t).out = SbGiven(s, t).out
  BY <1>3, GivenAlike
<1>6. SbPlain(s, t) \in SbWorks
  BY <1>1, <1>2, <1>4 DEF SbWorks
<1> QED BY <1>1, <1>3, <1>4, <1>5, <1>6

SbTextOf(w) == Cat(w.state.buffer, w.input)

LEMMA CallCases ==
    ASSUME NEW w \in SbWorks
    PROVE  /\ w.state \in SbFields /\ w.input \in SbLine /\ SbTextOf(w) \in SbLine /\ Cat(w.state.pasted, SbTextOf(w)) \in SbLine
           /\ w.state.buffer \in SbLine /\ w.state.pasted \in SbLine
           /\ w.input = <<>> => SbCall(w) = w
           /\ w.input # <<>> /\ w.state.paste => SbCall(w) = SbPasting(w.state, Cat(w.state.pasted, SbTextOf(w)))
           /\ w.input # <<>> /\ ~w.state.paste /\ SbFind(SbTextOf(w), SbStart) # {} =>
                  SbCall(w) = SbPasting(SbEntered(w.state, SubSeq(SbTextOf(w), 1, SbFirst(SbTextOf(w), SbStart) - 1)),
                                        SbFrom(SbTextOf(w), SbFirst(SbTextOf(w), SbStart) + Len(SbStart)))
           /\ w.input # <<>> /\ ~w.state.paste /\ SbFind(SbTextOf(w), SbStart) = {} =>
                  SbCall(w) = SbPlain(w.state, SbTextOf(w))
<1>1. w.state \in SbFields /\ w.input \in SbLine /\ w.state.buffer \in SbLine /\ w.state.pasted \in SbLine
  BY DEF SbWorks, SbFields
<1>2. SbTextOf(w) \in SbLine /\ Cat(w.state.pasted, SbTextOf(w)) \in SbLine
  BY <1>1, CatType DEF SbLine, SbTextOf
<1>3. SbTextOf(w) = w.state.buffer \o w.input /\ Cat(w.state.pasted, SbTextOf(w)) = w.state.pasted \o SbTextOf(w)
  BY DEF SbTextOf, Cat
<1>4. SbCall(w) = CASE w.input = <<>> -> w
                    [] w.input # <<>> /\ w.state.paste -> SbPasting(w.state, w.state.pasted \o SbTextOf(w))
                    [] w.input # <<>> /\ ~w.state.paste /\ SbFind(SbTextOf(w), SbStart) # {} -> SbPasteBegins(w.state, SbTextOf(w))
                    [] OTHER -> SbPlain(w.state, SbTextOf(w))
  BY DEF SbCall, SbTextOf, Cat
<1> DEFINE y == SbTextOf(w)
<1>5. SbPasteBegins(w.state, y) = SbPasting(SbEntered(w.state, SubSeq(y, 1, SbFirst(y, SbStart) - 1)),
                                            SbFrom(y, SbFirst(y, SbStart) + Len(SbStart)))
  BY DEF SbPasteBegins, SbEntered, SbGiven, SbOpen
<1> HIDE DEF y
<1>6. w.input = <<>> => SbCall(w) = w
  BY <1>4
<1>7. w.input # <<>> /\ w.state.paste => SbCall(w) = SbPasting(w.state, Cat(w.state.pasted, y))
  BY <1>3, <1>4 DEF y
<1>8. w.input # <<>> /\ ~w.state.paste /\ SbFind(y, SbStart) # {} => SbCall(w) = SbPasteBegins(w.state, y)
  BY <1>4 DEF y
<1>9. w.input # <<>> /\ ~w.state.paste /\ SbFind(y, SbStart) = {} => SbCall(w) = SbPlain(w.state, y)
  BY <1>4 DEF y
<1> QED BY <1>1, <1>2, <1>5, <1>6, <1>7, <1>8, <1>9 DEF y

LEMMA SizeIs ==
    ASSUME NEW w \in SbWorks
    PROVE  /\ Len(w.state.pasted) \in Nat /\ Len(w.state.buffer) \in Nat /\ Len(w.input) \in Nat
           /\ SbSize(w) = Len(w.state.pasted) + (Len(w.state.buffer) + Len(w.input))
           /\ SbSize(w) \in Nat /\ Len(w.input) <= SbSize(w)
           /\ Len(w.state.buffer) + Len(w.input) <= SbSize(w)
<1> DEFINE a == Len(w.state.pasted)
           b == Len(w.state.buffer)
           c == Len(w.input)
<1>1. w.state.pasted \in Seq(SbBytes) /\ w.state.buffer \in Seq(SbBytes) /\ w.input \in Seq(SbBytes)
  BY DEF SbWorks, SbFields, SbLine
<1>2. a \in Nat /\ b \in Nat /\ c \in Nat
  BY <1>1, LenProperties
<1>3. SbSize(w) = a + b + c
  BY DEF SbSize
<1> HIDE DEF a, b, c
<1>4. SbSize(w) = a + (b + c) /\ SbSize(w) \in Nat /\ c <= SbSize(w) /\ b + c <= SbSize(w)
  BY <1>2, <1>3
<1> QED BY <1>2, <1>4 DEF a, b, c

LEMMA CallIs ==
    ASSUME NEW w \in SbWorks
    PROVE  /\ SbCall(w) \in SbWorks /\ SbSize(w) \in Nat /\ SbSize(SbCall(w)) \in Nat
           /\ w.input # <<>> => Len(w.input) > 0 /\ (SbCall(w).input = <<>> \/ SbSize(SbCall(w)) < SbSize(w))
           /\ w.state.cut => SbCall(w).state.cut
<1> DEFINE s == w.state
           y == SbTextOf(w)
           t == Cat(s.pasted, y)
           c == SbCall(w)
<1>1. /\ s \in SbFields /\ w.input \in SbLine /\ y \in SbLine /\ t \in SbLine
      /\ s.buffer \in SbLine /\ s.pasted \in SbLine
  BY CallCases
<1>2. /\ Len(w.input) \in Nat /\ Len(s.buffer) \in Nat /\ Len(s.pasted) \in Nat
      /\ Len(y) = Len(s.buffer) + Len(w.input) /\ Len(t) = Len(s.pasted) + Len(y)
  <2>1. /\ Len(w.input) \in Nat /\ Len(s.buffer) \in Nat /\ Len(s.pasted) \in Nat
    BY SizeIs
  <2>2. Len(y) = Len(s.buffer) + Len(w.input)
    BY <1>1, CatLen DEF SbLine, SbTextOf
  <2>3. Len(t) = Len(s.pasted) + Len(y)
    BY <1>1, CatLen DEF SbLine
  <2> QED BY <2>1, <2>2, <2>3
<1>3. SbSize(w) \in Nat /\ Len(y) <= SbSize(w) /\ Len(t) = SbSize(w)
  <2>1. Len(y) <= SbSize(w)
    BY <1>2, SizeIs
  <2>2. Len(t) = SbSize(w)
    BY <1>2, SizeIs
  <2> QED BY <2>1, <2>2, SizeIs
<1>4. w.input # <<>> => Len(w.input) > 0
  BY <1>1, <1>2, EmptySeq DEF SbLine
<1>5. ASSUME c \in SbWorks PROVE SbSize(c) \in Nat
  BY <1>5, SizeIs
<1>6. ASSUME NEW x \in SbFields, NEW z \in SbLine, Len(z) <= SbSize(w), c = SbPasting(x, z), s.cut => x.cut
      PROVE  c \in SbWorks /\ (c.input = <<>> \/ SbSize(c) < SbSize(w)) /\ (s.cut => c.state.cut)
  <2> HIDE DEF s, c
  <2>1. c \in SbWorks /\ c.state.buffer = <<>> /\ c.state.cut = x.cut
    BY <1>6, PastingIs
  <2>2. CASE SbFind(z, SbEnd) = {}
    <3>1. c = [state |-> SbPasteGoesOn(x, z), input |-> <<>>]
      BY <1>6, <2>2, PastingIs
    <3>2. c.input = <<>>
      BY <3>1
    <3> QED BY <1>6, <2>1, <3>2
  <2>3. CASE SbFind(z, SbEnd) # {}
    <3>1. c.state.pasted = <<>> /\ Len(c.input) < Len(z)
      BY <1>6, <2>3, PastingIs
    <3>2. Len(z) \in Nat /\ Len(c.input) \in Nat /\ Len(<<>>) = 0
      <4>1. c.input \in SbLine
        BY <2>1 DEF SbWorks
      <4>2. Len(z) \in Nat /\ Len(c.input) \in Nat
        BY <4>1, LenProperties DEF SbLine
      <4> QED BY <4>2
    <3>3. SbSize(c) = Len(c.input)
      BY <2>1, <3>1, <3>2 DEF SbSize
    <3>4. SbSize(c) < SbSize(w)
      BY <1>3, <1>6, <3>1, <3>2, <3>3
    <3> QED BY <1>6, <2>1, <3>4
  <2> QED BY <2>2, <2>3
<1>7. c \in SbWorks /\ (w.input # <<>> => c.input = <<>> \/ SbSize(c) < SbSize(w)) /\ (s.cut => c.state.cut)
  <2>1. CASE w.input = <<>>
    <3>1. c = w
      BY <2>1, CallCases
    <3> QED BY <2>1, <3>1
  <2>2. CASE w.input # <<>> /\ s.paste
    <3>1. c = SbPasting(s, t) /\ Len(t) <= SbSize(w)
      BY <1>3, <2>2, CallCases
    <3> HIDE DEF c, s, t
    <3> QED BY <1>1, <1>6, <3>1
  <2>3. CASE w.input # <<>> /\ ~s.paste /\ SbFind(y, SbStart) # {}
    <3> DEFINE a == SubSeq(y, 1, SbFirst(y, SbStart) - 1)
               z == SbFrom(y, SbFirst(y, SbStart) + Len(SbStart))
               x == SbEntered(s, a)
    <3>1. c = SbPasting(x, z)
      BY <2>3, CallCases
    <3>2. a \in SbLine /\ z \in SbLine /\ Len(z) <= Len(y)
      <4>1. y \in Seq(SbBytes) /\ SbStart \in Seq(SbBytes) /\ Len(SbStart) = 4 /\ Len(SbStart) > 0
        <5>1. SbStart \in Seq(SbBytes) /\ Len(SbStart) = 4
          BY BytesAre DEF SbLine
        <5>2. y \in Seq(SbBytes)
          BY <1>1 DEF SbLine
        <5> QED BY <5>1, <5>2
      <4> DEFINE f == SbFirst(y, SbStart)
      <4>2. /\ a \in Seq(SbBytes) /\ z \in Seq(SbBytes) /\ f \in Nat /\ f >= 1
            /\ Len(z) = Len(y) - f - Len(SbStart) + 1
        <5> HIDE DEF y
        <5> QED BY <2>3, <4>1, SplitAt, Zenon
      <4> HIDE DEF a, z, f
      <4>3. Len(z) <= Len(y)
        <5>1. Len(y) \in Nat
          BY <1>1, LenProperties DEF SbLine
        <5> QED BY <4>1, <4>2, <5>1
      <4> QED BY <4>2, <4>3 DEF SbLine
    <3> HIDE DEF a, z
    <3>3. x \in SbFields /\ (s.cut => x.cut)
      BY <1>1, <3>2, EnteredIs
    <3>4. Len(z) <= SbSize(w)
      <4>1. Len(z) \in Nat /\ Len(y) \in Nat
        BY <1>1, <3>2, LenProperties DEF SbLine
      <4> QED BY <1>3, <3>2, <4>1
    <3> HIDE DEF c, s, x
    <3> QED BY <1>6, <3>1, <3>2, <3>3, <3>4
  <2>4. CASE w.input # <<>> /\ ~s.paste /\ SbFind(y, SbStart) = {}
    <3>1. c = SbPlain(s, y)
      BY <2>4, CallCases
    <3> QED BY <1>1, <3>1, PlainIs
  <2> QED BY <2>1, <2>2, <2>3, <2>4
<1> QED BY <1>3, <1>4, <1>5, <1>7

(* What holds when no input is left, and before a call if after it, holds always. *)
LEMMA ByCalls ==
    ASSUME NEW A, \A w \in SbWorks : w.input = <<>> => w \in A,
           \A w \in SbWorks : w.input # <<>> /\ SbCall(w) \in A => w \in A
    PROVE  \A w \in SbWorks : w \in A
<1> DEFINE C == {SbSize(w) : w \in {x \in SbWorks : x \notin A}}
<1>1. SUFFICES ASSUME NEW v \in SbWorks, v \notin A PROVE FALSE
  OBVIOUS
<1>2. C \subseteq Nat /\ C # {}
  BY <1>1, CallIs
<1>3. PICK m \in C : \A k \in C : m <= k
  BY <1>2, LeastPosition
<1>4. PICK w \in SbWorks : w \notin A /\ SbSize(w) = m
  BY <1>3
<1> DEFINE c == SbCall(w)
<1>5. w.input # <<>> /\ c \in SbWorks /\ c \notin A
  BY <1>4, CallIs
<1>6. c.input # <<>>
  BY <1>5
<1>7. SbSize(c) < SbSize(w) /\ SbSize(c) \in Nat /\ SbSize(w) \in Nat
  BY <1>4, <1>5, <1>6, CallIs
<1>8. SbSize(c) \in C
  BY <1>5
<1> HIDE DEF C, c
<1> QED BY <1>3, <1>4, <1>7, <1>8

LEMMA ByCounting ==
    ASSUME NEW A, 0 \in A, \A n \in Nat : n \in A => n + 1 \in A
    PROVE  \A n \in Nat : n \in A
<1> DEFINE C == {n \in Nat : n \notin A}
<1>1. SUFFICES ASSUME C # {} PROVE FALSE
  OBVIOUS
<1>2. PICK m \in C : \A k \in C : m <= k
  BY <1>1, LeastPosition
<1>3. m # 0 /\ m \in Nat /\ m \notin A
  BY <1>2
<1>4. m - 1 \in Nat /\ ~(m <= m - 1) /\ (m - 1) + 1 = m
  BY <1>3
<1>5. m - 1 \in A
  BY <1>2, <1>4
<1> QED BY <1>3, <1>4, <1>5

(* The calls one after the other. *)
SbMoved == [p \in SbWorks \X {0} |-> SbCall(p[1])]
SbZeros(n) == [i \in 1 .. n |-> 0]
SbAfter(w, n) == SbFold(SbMoved, w, SbZeros(n))

LEMMA AfterIs ==
    ASSUME NEW w \in SbWorks
    PROVE  /\ SbAfter(w, 0) = w
           /\ \A n \in Nat : SbAfter(w, n) \in SbWorks /\ SbAfter(w, n + 1) = SbCall(SbAfter(w, n))
<1>1. SbMoved \in SbMoves(SbWorks, {0}) /\ \A v \in SbWorks : SbMoved[<<v, 0>>] = SbCall(v)
  <2>1. \A p \in SbWorks \X {0} : SbCall(p[1]) \in SbWorks
    BY CallIs
  <2> QED BY <2>1 DEF SbMoved, SbMoves
<1>2. SbZeros(0) = <<>>
  <2>1. SbZeros(0) \in Seq({0}) /\ Len(SbZeros(0)) = 0
    BY DEF SbZeros
  <2> QED BY <2>1, EmptySeq
<1>3. ASSUME NEW n \in Nat PROVE SbZeros(n) \in Seq({0}) /\ Append(SbZeros(n), 0) = SbZeros(n + 1)
  <2> DEFINE a == Append(SbZeros(n), 0)
             b == SbZeros(n + 1)
  <2>1. SbZeros(n) \in Seq({0}) /\ Len(SbZeros(n)) = n /\ \A i \in 1 .. n : SbZeros(n)[i] = 0
    BY DEF SbZeros
  <2>2. b \in Seq({0}) /\ Len(b) = n + 1 /\ \A i \in 1 .. n + 1 : b[i] = 0
    BY DEF SbZeros
  <2>3. a \in Seq({0}) /\ Len(a) = n + 1 /\ \A i \in 1 .. n + 1 : a[i] = 0
    BY <2>1
  <2> HIDE DEF a, b
  <2>4. a = b
    BY <2>2, <2>3, SeqEqual
  <2> QED BY <2>1, <2>4 DEF a, b
<1>4. /\ SbFold(SbMoved, w, <<>>) = w
      /\ \A t \in Seq({0}) : SbFold(SbMoved, w, t) \in SbWorks
      /\ \A t \in Seq({0}), x \in {0} : SbFold(SbMoved, w, Append(t, x)) = SbMoved[<<SbFold(SbMoved, w, t), x>>]
  BY <1>1, FoldIs
<1>5. SbAfter(w, 0) = w
  BY <1>2, <1>4 DEF SbAfter
<1>6. ASSUME NEW n \in Nat PROVE SbAfter(w, n) \in SbWorks /\ SbAfter(w, n + 1) = SbCall(SbAfter(w, n))
  <2>1. SbAfter(w, n) \in SbWorks
    BY <1>3, <1>4 DEF SbAfter
  <2>2. SbFold(SbMoved, w, Append(SbZeros(n), 0)) = SbMoved[<<SbFold(SbMoved, w, SbZeros(n)), 0>>]
    BY <1>3, <1>4
  <2> QED BY <1>1, <1>3, <2>1, <2>2 DEF SbAfter
<1> QED BY <1>5, <1>6

LEMMA AfterCall ==
    ASSUME NEW w \in SbWorks
    PROVE  \A n \in Nat : SbAfter(w, n + 1) = SbAfter(SbCall(w), n)
<1> DEFINE A == {n \in Nat : SbAfter(w, n + 1) = SbAfter(SbCall(w), n)}
<1>1. SbCall(w) \in SbWorks
  BY CallIs
<1>2. 0 \in A
  <2>1. SbAfter(w, 0 + 1) = SbCall(SbAfter(w, 0)) /\ SbAfter(w, 0) = w /\ SbAfter(SbCall(w), 0) = SbCall(w)
    BY <1>1, AfterIs
  <2> QED BY <2>1
<1>3. ASSUME NEW n \in Nat, n \in A PROVE n + 1 \in A
  <2>1. n + 1 \in Nat
    OBVIOUS
  <2>2. SbAfter(w, (n + 1) + 1) = SbCall(SbAfter(w, n + 1))
    BY <2>1, AfterIs
  <2>3. SbAfter(SbCall(w), n + 1) = SbCall(SbAfter(SbCall(w), n))
    BY <1>1, AfterIs
  <2>4. SbAfter(w, (n + 1) + 1) = SbAfter(SbCall(w), n + 1)
    BY <1>3, <2>2, <2>3
  <2> QED BY <2>1, <2>4
<1> HIDE DEF A
<1>4. \A n \in Nat : n \in A
  BY <1>2, <1>3, ByCounting
<1> QED BY <1>4 DEF A

LEMMA AfterAll ==
    ASSUME NEW w \in SbWorks
    PROVE  /\ \A n \in Nat : SbAfter(w, n).input = <<>> => \A k \in Nat : SbAfter(w, n + k) = SbAfter(w, n)
           /\ SbAfter(w, SbSize(w)).input = <<>>
<1>1. ASSUME NEW n \in Nat, SbAfter(w, n).input = <<>> PROVE \A k \in Nat : SbAfter(w, n + k) = SbAfter(w, n)
  <2> DEFINE v == SbAfter(w, n)
             A == {k \in Nat : SbAfter(w, n + k) = v}
  <2>1. v \in SbWorks /\ SbCall(v) = v
    BY <1>1, AfterIs, CallCases
  <2>2. 0 \in A
    <3>1. n + 0 = n
      OBVIOUS
    <3> QED BY <3>1
  <2>3. ASSUME NEW k \in Nat, k \in A PROVE k + 1 \in A
    <3>1. n + k \in Nat /\ n + (k + 1) = (n + k) + 1 /\ k + 1 \in Nat
      OBVIOUS
    <3>2. SbAfter(w, (n + k) + 1) = SbCall(SbAfter(w, n + k))
      BY <3>1, AfterIs
    <3>3. SbAfter(w, n + (k + 1)) = v
      BY <2>1, <2>3, <3>1, <3>2
    <3> QED BY <3>1, <3>3
  <2> HIDE DEF A
  <2>4. \A k \in Nat : k \in A
    BY <2>2, <2>3, ByCounting
  <2> QED BY <2>4 DEF A
<1>2. SbAfter(w, SbSize(w)).input = <<>>
  <2> DEFINE A == {n \in Nat : SbAfter(w, n).input = <<>> \/ SbSize(SbAfter(w, n)) + n <= SbSize(w)}
  <2>1. SbSize(w) \in Nat
    BY CallIs
  <2>2. 0 \in A
    <3>1. SbAfter(w, 0) = w
      BY AfterIs
    <3> QED BY <2>1, <3>1
  <2>3. ASSUME NEW n \in Nat, n \in A PROVE n + 1 \in A
    <3> DEFINE v == SbAfter(w, n)
    <3>1. v \in SbWorks /\ SbAfter(w, n + 1) = SbCall(v) /\ n + 1 \in Nat
      BY AfterIs
    <3>2. v.input = <<>> \/ SbSize(v) + n <= SbSize(w)
      BY <2>3
    <3> HIDE DEF v
    <3>3. CASE v.input = <<>>
      <4>1. SbCall(v).input = <<>>
        BY <3>1, <3>3, CallCases
      <4> QED BY <3>1, <4>1
    <3>4. CASE v.input # <<>>
      <4>1. SbSize(v) \in Nat /\ SbSize(SbCall(v)) \in Nat
        BY <3>1, CallIs
      <4>2. SbCall(v).input = <<>> \/ SbSize(SbCall(v)) < SbSize(v)
        BY <3>1, <3>4, CallIs
      <4>3. SbCall(v).input = <<>> \/ SbSize(SbCall(v)) + (n + 1) <= SbSize(w)
        BY <2>1, <3>2, <3>4, <4>1, <4>2
      <4> QED BY <3>1, <4>3
    <3> QED BY <3>3, <3>4
  <2>4. \A n \in Nat : n \in A
    <3> HIDE DEF A
    <3> QED BY <2>2, <2>3, ByCounting
  <2> DEFINE z == SbAfter(w, SbSize(w))
  <2>5. z \in SbWorks /\ (z.input = <<>> \/ SbSize(z) + SbSize(w) <= SbSize(w))
    BY <2>1, <2>4, AfterIs
  <2> HIDE DEF z
  <2>6. SbSize(z) \in Nat /\ z.input \in SbLine /\ z.state.pasted \in SbLine /\ z.state.buffer \in SbLine
    BY <2>5, CallIs DEF SbWorks, SbFields
  <2>7. CASE SbSize(z) + SbSize(w) <= SbSize(w)
    <3>1. SbSize(z) = 0
      BY <2>1, <2>6, <2>7
    <3>2. Len(z.input) = 0
      <4>1. Len(z.input) \in Nat /\ Len(z.input) <= SbSize(z)
        BY <2>5, SizeIs
      <4> QED BY <3>1, <4>1
    <3>3. z.input = <<>>
      BY <2>6, <3>2, EmptySeq DEF SbLine
    <3> QED BY <3>3 DEF z
  <2> QED BY <2>5, <2>7 DEF z
<1> QED BY <1>1, <1>2

SbDone(w) == SbProcess(w.state, w.input)

LEMMA ProcessIs ==
    ASSUME NEW w \in SbWorks
    PROVE  /\ SbDone(w) \in SbFields
           /\ w.input = <<>> => SbDone(w) = w.state
           /\ SbDone(SbCall(w)) = SbDone(w)
<1>1. ASSUME NEW v \in SbWorks PROVE SbDone(v) = SbAfter(v, SbSize(v)).state
  <2> DEFINE most == Len(v.state.pasted) + Len(v.state.buffer) + Len(v.input)
             u == [state |-> v.state, input |-> v.input]
             Is(f) == f = [n \in 0 .. most |-> IF n = 0 THEN u ELSE SbCall(f[n - 1])]
             calls == CHOOSE f : Is(f)
             z == SbZeros(most)
  <2>1. SbDone(v) = calls[most].state
    BY DEF SbDone, SbProcess
  <2>2. u = v /\ most = SbSize(v) /\ most \in Nat
    BY CallIs DEF SbWorks, SbSize
  <2> HIDE DEF u, most
  <2>3. z \in Seq({0}) /\ Len(z) = most /\ \A i \in 1 .. most : z[i] = 0
    BY <2>2 DEF SbZeros
  <2> HIDE DEF z
  <2>4. SbMoved \in SbMoves(SbWorks, {0}) /\ \A x \in SbWorks : SbMoved[<<x, 0>>] = SbCall(x)
    <3>1. \A p \in SbWorks \X {0} : SbCall(p[1]) \in SbWorks
      BY CallIs
    <3> QED BY <3>1 DEF SbMoved, SbMoves
  <2>5. \E f : Is(f)
    <3>1. PICK f \in [0 .. Len(z) -> SbWorks] : SbSteps(f, SbMoved, v, z)
      BY <2>3, <2>4, StepsExist
    <3>2. f = [i \in 0 .. most |-> IF i = 0 THEN v ELSE SbMoved[<<f[i - 1], z[i]>>]]
      BY <2>3, <3>1 DEF SbSteps
    <3>3. ASSUME NEW i \in 0 .. most, i # 0 PROVE SbMoved[<<f[i - 1], z[i]>>] = SbCall(f[i - 1])
      <4>1. i - 1 \in 0 .. most /\ z[i] = 0
        BY <2>2, <2>3, <3>3
      <4>2. f[i - 1] \in SbWorks
        BY <2>3, <3>1, <4>1
      <4> QED BY <2>4, <4>1, <4>2
    <3>4. [i \in 0 .. most |-> IF i = 0 THEN v ELSE SbMoved[<<f[i - 1], z[i]>>]]
          = [i \in 0 .. most |-> IF i = 0 THEN u ELSE SbCall(f[i - 1])]
      BY <2>2, <3>3
    <3> QED BY <3>2, <3>4
  <2>6. Is(calls)
    BY <2>5
  <2> HIDE DEF calls
  <2>7. \A i \in 0 .. most : calls[i] = IF i = 0 THEN v ELSE SbCall(calls[i - 1])
    BY <2>2, <2>6
  <2>8. SbGoes(calls, SbWorks, SbMoved, v, z, Len(z))
    <3>1. calls[0] = v
      <4>1. 0 \in 0 .. most
        BY <2>2
      <4> QED BY <2>7, <4>1
    <3>2. ASSUME NEW i \in 1 .. most, calls[i - 1] \in SbWorks PROVE calls[i] = SbMoved[<<calls[i - 1], z[i]>>]
      <4>1. i \in 0 .. most /\ i # 0 /\ z[i] = 0
        BY <2>2, <2>3
      <4> QED BY <2>4, <2>7, <3>2, <4>1
    <3> QED BY <2>3, <3>1, <3>2 DEF SbGoes
  <2>9. calls[Len(z)] = SbFold(SbMoved, v, z)
    BY <2>3, <2>4, <2>8, FoldOf
  <2> QED BY <2>1, <2>2, <2>3, <2>9 DEF z, SbAfter
<1> DEFINE c == SbCall(w)
           n == SbSize(w)
<1>2. c \in SbWorks /\ n \in Nat /\ SbSize(c) \in Nat
  BY CallIs
<1>3. SbDone(w) \in SbFields
  <2>1. SbAfter(w, n) \in SbWorks
    BY <1>2, AfterIs
  <2> QED BY <1>1, <2>1 DEF SbWorks
<1>4. ASSUME NEW v \in SbWorks, v.input = <<>> PROVE \A k \in Nat : SbAfter(v, k) = v
  <2>1. SbAfter(v, 0) = v
    BY AfterIs
  <2>2. \A k \in Nat : SbAfter(v, 0 + k) = v
    BY <1>4, <2>1, AfterAll
  <2>3. \A k \in Nat : 0 + k = k
    OBVIOUS
  <2> QED BY <2>2, <2>3
<1>5. w.input = <<>> => SbDone(w) = w.state
  BY <1>1, <1>2, <1>4
<1>6. SbDone(c) = SbDone(w)
  <2>1. CASE w.input = <<>>
    <3>1. c = w
      BY <2>1, CallCases
    <3> QED BY <3>1
  <2>2. CASE w.input # <<>>
    <3>1. n > 0
      <4>1. Len(w.input) > 0
        BY <2>2, CallIs
      <4>2. Len(w.input) \in Nat /\ Len(w.input) <= SbSize(w)
        BY SizeIs
      <4> QED BY <1>2, <4>1, <4>2
    <3>2. n - 1 \in Nat /\ (n - 1) + 1 = n
      BY <1>2, <3>1
    <3> HIDE DEF n, c
    <3>3. SbAfter(w, n) = SbAfter(c, n - 1)
      <4>1. SbAfter(w, (n - 1) + 1) = SbAfter(c, n - 1)
        BY <3>2, AfterCall DEF c
      <4> QED BY <3>2, <4>1
    <3>4. SbAfter(c, n - 1) = SbAfter(c, SbSize(c))
      <4>1. CASE c.input = <<>>
        BY <1>2, <1>4, <3>2, <4>1
      <4>2. CASE c.input # <<>>
        <5>1. SbSize(c) < n
          BY <2>2, <4>2, CallIs DEF c, n
        <5> DEFINE k == (n - 1) - SbSize(c)
        <5>2. k \in Nat /\ SbSize(c) + k = n - 1
          BY <1>2, <3>2, <5>1
        <5> HIDE DEF k
        <5>3. SbAfter(c, SbSize(c)).input = <<>>
          BY <1>2, AfterAll
        <5>4. SbAfter(c, SbSize(c) + k) = SbAfter(c, SbSize(c))
          BY <1>2, <5>2, <5>3, AfterAll
        <5> QED BY <5>2, <5>4
      <4> QED BY <4>1, <4>2
    <3>5. SbDone(c) = SbAfter(c, SbSize(c)).state /\ SbDone(w) = SbAfter(w, n).state
      BY <1>1, <1>2 DEF n
    <3>6. SbDone(c) = SbDone(w)
      BY <3>3, <3>4, <3>5
    <3> QED BY <3>6
  <2> QED BY <2>1, <2>2
<1> QED BY <1>3, <1>5, <1>6

-----------------------------------------------------------------------------
(* How a call on more input goes on from the call on less. *)
LEMMA CatCancel ==
    ASSUME NEW S, NEW a \in Seq(S), NEW b \in Seq(S), NEW c \in Seq(S), NEW d \in Seq(S),
           Cat(a, b) = Cat(c, d), Len(a) = Len(c)
    PROVE  a = c /\ b = d
<1>1. Pre(Cat(a, b), Len(a)) = a /\ Post(Cat(a, b), Len(a)) = b
  BY CutSides
<1>2. Pre(Cat(c, d), Len(c)) = c /\ Post(Cat(c, d), Len(c)) = d
  BY CutSides
<1> QED BY <1>1, <1>2

LEMMA SplitKept ==
    ASSUME NEW S, NEW u \in Seq(S), NEW v \in Seq(S), NEW part \in Seq(S), Len(part) > 0, SbFind(u, part) # {}
    PROVE  LET f == SbFirst(u, part)
           IN  /\ SbFind(Cat(u, v), part) # {} /\ SbFirst(Cat(u, v), part) = f
               /\ SubSeq(Cat(u, v), 1, f - 1) = SubSeq(u, 1, f - 1)
               /\ SbFrom(Cat(u, v), f + Len(part)) = Cat(SbFrom(u, f + Len(part)), v)
<1> DEFINE f == SbFirst(u, part)
           t == Cat(u, v)
           a == SubSeq(u, 1, f - 1)
           c == SbFrom(u, f + Len(part))
           d == SubSeq(t, 1, f - 1)
           e == SbFrom(t, f + Len(part))
<1>1. SbFind(t, part) # {} /\ SbFirst(t, part) = f /\ t \in Seq(S)
  BY FirstKept, CatType
<1>2. a \in Seq(S) /\ Len(a) = f - 1 /\ c \in Seq(S) /\ u = Cat(a, Cat(part, c))
  BY SplitAt
<1>3. d \in Seq(S) /\ Len(d) = f - 1 /\ e \in Seq(S) /\ t = Cat(d, Cat(part, e))
  <2>1. /\ SubSeq(t, 1, SbFirst(t, part) - 1) \in Seq(S)
        /\ Len(SubSeq(t, 1, SbFirst(t, part) - 1)) = SbFirst(t, part) - 1
        /\ SbFrom(t, SbFirst(t, part) + Len(part)) \in Seq(S)
        /\ t = Cat(SubSeq(t, 1, SbFirst(t, part) - 1), Cat(part, SbFrom(t, SbFirst(t, part) + Len(part))))
    <3> HIDE DEF t
    <3> QED BY <1>1, SplitAt
  <2> QED BY <1>1, <2>1
<1>4. t = Cat(u, v)
  OBVIOUS
<1> HIDE DEF a, c, d, e, f, t
<1>5. t = Cat(a, Cat(part, Cat(c, v)))
  <2>1. Cat(part, c) \in Seq(S)
    BY <1>2, CatType
  <2>2. Cat(Cat(a, Cat(part, c)), v) = Cat(a, Cat(Cat(part, c), v))
    BY <1>2, <2>1, CatAssoc
  <2>3. Cat(Cat(part, c), v) = Cat(part, Cat(c, v))
    BY <1>2, CatAssoc
  <2> QED BY <1>2, <1>4, <2>2, <2>3
<1>6. Cat(c, v) \in Seq(S) /\ Cat(part, Cat(c, v)) \in Seq(S) /\ Cat(part, e) \in Seq(S)
  BY <1>2, <1>3, CatType
<1>7. a = d /\ Cat(part, Cat(c, v)) = Cat(part, e)
  <2>1. Cat(a, Cat(part, Cat(c, v))) = Cat(d, Cat(part, e)) /\ Len(a) = Len(d)
    BY <1>2, <1>3, <1>5
  <2> QED BY <1>2, <1>3, <1>6, <2>1, CatCancel
<1>8. Cat(c, v) = e
  BY <1>3, <1>6, <1>7, CatCancel
<1> QED BY <1>1, <1>7, <1>8 DEF a, c, d, e, f, t

(* What a paste overwrites does not matter to it. *)
LEMMA PastingAlike ==
    ASSUME NEW x \in SbFields, NEW y \in SbFields, x.key = y.key, x.out = y.out, x.cut = y.cut, NEW t \in SbLine
    PROVE  SbPasting(x, t) = SbPasting(y, t)
<1>1. SbPasteGoesOn(x, t) = SbPasteGoesOn(y, t)
  BY DEF SbPasteGoesOn, SbFields
<1>2. SbPasteDone(x, t) = SbPasteDone(y, t)
  <2> DEFINE o == Append(x.out, [kind |-> "paste", text |-> SubSeq(t, 1, SbFirst(t, SbEnd) - 1)])
  <2>1. /\ SbPasteDone(x, t) = [x EXCEPT !.buffer = <<>>, !.paste = FALSE, !.pasted = <<>>, !.key = "none", !.out = o]
        /\ SbPasteDone(y, t) = [y EXCEPT !.buffer = <<>>, !.paste = FALSE, !.pasted = <<>>, !.key = "none", !.out = o]
    BY DEF SbPasteDone
  <2> HIDE DEF o
  <2> DEFINE a == [x EXCEPT !.buffer = <<>>, !.paste = FALSE, !.pasted = <<>>]
             b == [y EXCEPT !.buffer = <<>>, !.paste = FALSE, !.pasted = <<>>]
  <2>2. a = b
    BY DEF SbFields
  <2>3. [x EXCEPT !.buffer = <<>>, !.paste = FALSE, !.pasted = <<>>, !.key = "none", !.out = o] = [a EXCEPT !.key = "none", !.out = o]
    OBVIOUS
  <2>4. [y EXCEPT !.buffer = <<>>, !.paste = FALSE, !.pasted = <<>>, !.key = "none", !.out = o] = [b EXCEPT !.key = "none", !.out = o]
    OBVIOUS
  <2> HIDE DEF a, b
  <2> QED BY <2>1, <2>2, <2>3, <2>4
<1> QED BY <1>1, <1>2 DEF SbPasting

LEMMA PastingOn ==
    ASSUME NEW s \in SbFields, NEW t \in SbLine, NEW v \in SbLine, v # <<>>
    PROVE  /\ SbFind(t, SbEnd) # {} =>
                  /\ SbPasting(s, Cat(t, v)).state = SbPasting(s, t).state
                  /\ SbPasting(s, Cat(t, v)).input = Cat(SbPasting(s, t).input, v)
           /\ SbFind(t, SbEnd) = {} =>
                  /\ SbPasting(s, t).input = <<>>
                  /\ SbCall([state |-> SbPasting(s, t).state, input |-> v]) = SbPasting(s, Cat(t, v))
<1> DEFINE u == Cat(t, v)
<1>1. t \in Seq(SbBytes) /\ v \in Seq(SbBytes) /\ u \in SbLine /\ SbEnd \in Seq(SbBytes) /\ Len(SbEnd) > 0
  <2>1. SbEnd \in Seq(SbBytes) /\ Len(SbEnd) = 4
    BY BytesAre DEF SbLine
  <2>2. t \in Seq(SbBytes) /\ v \in Seq(SbBytes)
    BY DEF SbLine
  <2>3. u \in SbLine
    BY <2>2, CatType DEF SbLine
  <2> QED BY <2>1, <2>2, <2>3
<1>2. CASE SbFind(t, SbEnd) # {}
  <2> DEFINE f == SbFirst(t, SbEnd)
             z == SbFrom(t, f + Len(SbEnd))
             b == SubSeq(t, 1, f - 1)
  <2>1. SbFind(u, SbEnd) # {} /\ SbFirst(u, SbEnd) = f /\ SubSeq(u, 1, f - 1) = b /\ SbFrom(u, f + Len(SbEnd)) = Cat(z, v)
    <3>1. SbFind(u, SbEnd) # {} /\ SbFirst(u, SbEnd) = f
      BY <1>1, <1>2, FirstKept
    <3>2. SubSeq(u, 1, f - 1) = b
      BY <1>1, <1>2, SplitKept
    <3>3. SbFrom(u, f + Len(SbEnd)) = Cat(z, v)
      BY <1>1, <1>2, SplitKept
    <3> QED BY <3>1, <3>2, <3>3
  <2>2. SbPasting(s, t) = [state |-> SbPasteDone(s, t), input |-> z]
    BY <1>2 DEF SbPasting
  <2>3. SbPasting(s, u) = [state |-> SbPasteDone(s, u), input |-> Cat(z, v)]
    <3>1. SbPasting(s, u) = [state |-> SbPasteDone(s, u), input |-> SbFrom(u, SbFirst(u, SbEnd) + Len(SbEnd))]
      BY <2>1 DEF SbPasting
    <3> QED BY <2>1, <3>1
  <2>4. SbPasteDone(s, u) = SbPasteDone(s, t)
    <3>1. SubSeq(u, 1, SbFirst(u, SbEnd) - 1) = SubSeq(t, 1, SbFirst(t, SbEnd) - 1)
      BY <2>1
    <3> HIDE DEF u
    <3> QED BY <3>1 DEF SbPasteDone
  <2> HIDE DEF z
  <2> QED BY <1>2, <2>2, <2>3, <2>4
<1>3. CASE SbFind(t, SbEnd) = {}
  <2> DEFINE x == SbPasteGoesOn(s, t)
             w == [state |-> x, input |-> v]
  <2>1. SbPasting(s, t) = [state |-> x, input |-> <<>>]
    BY <1>3 DEF SbPasting
  <2>2. /\ x \in SbFields /\ x.buffer = <<>> /\ x.paste /\ x.pasted = t
        /\ x.key = s.key /\ x.out = s.out /\ x.cut = s.cut
    <3>1. <<>> \in SbLine
      BY EmptySeq DEF SbLine
    <3> QED BY <3>1 DEF SbPasteGoesOn, SbFields
  <2> HIDE DEF x
  <2>3. w \in SbWorks /\ w.state = x /\ w.input = v
    BY <2>2 DEF SbWorks
  <2> HIDE DEF w
  <2>4. SbTextOf(w) = v
    BY <1>1, <2>2, <2>3, CatEmpty DEF SbTextOf
  <2>5. SbCall(w) = SbPasting(x, Cat(x.pasted, SbTextOf(w)))
    BY <2>2, <2>3, CallCases
  <2>6. SbCall(w) = SbPasting(x, u)
    BY <2>2, <2>4, <2>5
  <2>7. SbPasting(x, u) = SbPasting(s, u)
    <3> HIDE DEF u
    <3> QED BY <1>1, <2>2, PastingAlike
  <2> QED BY <1>3, <2>1, <2>6, <2>7 DEF w
<1> QED BY <1>2, <1>3

(* A marker that only the later input completes is found behind what was read already,
   unless a sequence was open where it begins.                              *)
LEMMA MarkerBegins ==
    ASSUME NEW m \in SbLine, Len(m) < 4, \A j \in 1 .. Len(m) : m[j] = SbStart[j]
    PROVE  m \in {<<>>, <<"E">>, <<"E", "[">>, <<"E", "[", "2">>}
<1>1. m \in Seq(SbBytes) /\ Len(m) \in 0 .. 3
  <2>1. m \in Seq(SbBytes)
    BY DEF SbLine
  <2>2. Len(m) \in Nat
    BY <2>1, LenProperties
  <2>3. Len(m) < 4
    OBVIOUS
  <2> DEFINE n == Len(m)
  <2>4. n \in Nat /\ n < 4
    BY <2>2, <2>3
  <2> HIDE DEF n
  <2>5. n \in 0 .. 3
    BY <2>4
  <2> QED BY <2>1, <2>5 DEF n
<1>2. "E" \in SbBytes /\ "[" \in SbBytes /\ "2" \in SbBytes
  BY BytesAre
<1>3. SbStart[1] = "E" /\ SbStart[2] = "[" /\ SbStart[3] = "2"
  BY DEF SbStart
<1>4. CASE Len(m) = 0
  BY <1>1, <1>4, EmptySeq
<1>5. CASE Len(m) = 1
  <2> DEFINE t == <<"E">>
  <2>1. t \in Seq(SbBytes) /\ Len(t) = 1 /\ t[1] = "E"
    BY <1>2
  <2>2. m[1] = "E"
    BY <1>3, <1>5
  <2> HIDE DEF t
  <2>3. \A i \in 1 .. Len(m) : m[i] = t[i]
    BY <1>5, <2>1, <2>2
  <2>4. m = t
    BY <1>1, <1>5, <2>1, <2>3, SeqEqual
  <2> QED BY <2>4 DEF t
<1>6. CASE Len(m) = 2
  <2> DEFINE t == <<"E", "[">>
  <2>1. t \in Seq(SbBytes) /\ Len(t) = 2 /\ t[1] = "E" /\ t[2] = "["
    BY <1>2
  <2>2. m[1] = "E" /\ m[2] = "["
    BY <1>3, <1>6
  <2> HIDE DEF t
  <2>3. \A i \in 1 .. Len(m) : m[i] = t[i]
    BY <1>6, <2>1, <2>2
  <2>4. m = t
    BY <1>1, <1>6, <2>1, <2>3, SeqEqual
  <2> QED BY <2>4 DEF t
<1>7. CASE Len(m) = 3
  <2> DEFINE t == <<"E", "[", "2">>
  <2>1. t \in Seq(SbBytes) /\ Len(t) = 3 /\ t[1] = "E" /\ t[2] = "[" /\ t[3] = "2"
    BY <1>2
  <2>2. m[1] = "E" /\ m[2] = "[" /\ m[3] = "2"
    BY <1>3, <1>7
  <2> HIDE DEF t
  <2>3. \A i \in 1 .. Len(m) : m[i] = t[i]
    BY <1>7, <2>1, <2>2
  <2>4. m = t
    BY <1>1, <1>7, <2>1, <2>3, SeqEqual
  <2> QED BY <2>4 DEF t
<1> QED BY <1>1, <1>4, <1>5, <1>6, <1>7

SbReads(y, v, a, z, g) ==
    Cat(y, v) = Cat(a, Cat(SbStart, z)) /\ SbFind(y, SbStart) = {} /\ SbOpen(a) = <<>> /\ y = Cat(g, SbOpen(y))
SbReadOn(s, y, a, g) == \E b \in SbLine : a = Cat(g, b) /\ SbOpen(b) = <<>> /\ SbGiven(SbGiven(s, y), b) = SbGiven(s, a)

LEMMA ReadAlready ==
    ASSUME NEW s \in SbFields, NEW y \in SbLine, NEW v \in SbLine, NEW a \in SbLine, NEW z \in SbLine, NEW g \in SbLine,
           SbReads(y, v, a, z, g)
    PROVE  SbReadOn(s, y, a, g)
<1> SUFFICES ASSUME Cat(y, v) = Cat(a, Cat(SbStart, z)), SbFind(y, SbStart) = {}, SbOpen(a) = <<>>, y = Cat(g, SbOpen(y))
             PROVE  \E b \in SbLine : a = Cat(g, b) /\ SbOpen(b) = <<>> /\ SbGiven(SbGiven(s, y), b) = SbGiven(s, a)
  BY DEF SbReads, SbReadOn
<1> DEFINE r == SbOpen(y)
           t == Cat(y, v)
<1>1. /\ r \in SbLine /\ r \in Seq(SbBytes) /\ y \in Seq(SbBytes) /\ v \in Seq(SbBytes) /\ a \in Seq(SbBytes)
      /\ z \in Seq(SbBytes) /\ g \in Seq(SbBytes) /\ SbStart \in Seq(SbBytes) /\ Len(SbStart) = 4
  <2>1. r \in SbLine
    BY GivenIs
  <2>2. SbStart \in SbLine /\ Len(SbStart) = 4
    BY BytesAre
  <2> QED BY <2>1, <2>2 DEF SbLine
<1>2. Len(a) \in Nat /\ Len(y) \in Nat /\ Len(v) \in Nat /\ Len(r) \in Nat /\ Len(g) \in Nat
  BY <1>1, LenProperties
<1>3. SbGiven(s, y) \in SbFields /\ SbGiven(s, a) \in SbFields
  BY GivenIs
<1>4. /\ t \in Seq(SbBytes) /\ Len(t) = Len(y) + Len(v)
      /\ \A i \in 1 .. Len(y) + Len(v) : t[i] = IF i <= Len(y) THEN y[i] ELSE v[i - Len(y)]
  BY <1>1, CatLen, CatType
<1>5. CASE Len(a) >= Len(y)
  <2> DEFINE n == Len(a) - Len(y)
             c == Pre(v, n)
             d == Post(v, n)
  <2>1. n \in 0 .. Len(v)
    <3>1. Cat(SbStart, z) \in Seq(SbBytes)
      BY <1>1, CatType
    <3>2. Len(Cat(a, Cat(SbStart, z))) = Len(a) + Len(Cat(SbStart, z)) /\ Len(Cat(SbStart, z)) \in Nat
      BY <1>1, <3>1, CatLen
    <3> QED BY <1>2, <1>4, <1>5, <3>2
  <2>2. c \in Seq(SbBytes) /\ Len(c) = n /\ d \in Seq(SbBytes) /\ Cat(c, d) = v
    <3> HIDE DEF n
    <3> QED BY <1>1, <2>1, SidesMake
  <2> HIDE DEF c, d
  <2>3. Cat(y, c) \in Seq(SbBytes) /\ Len(Cat(y, c)) = Len(a)
    <3>1. Len(Cat(y, c)) = Len(y) + Len(c)
      BY <1>1, <2>2, CatLen
    <3> QED BY <1>1, <1>2, <2>2, <3>1, CatType
  <2>4. Cat(Cat(y, c), d) = Cat(a, Cat(SbStart, z))
    <3>1. Cat(Cat(y, c), d) = Cat(y, Cat(c, d))
      BY <1>1, <2>2, CatAssoc
    <3> QED BY <2>2, <3>1
  <2>5. Cat(y, c) = a
    <3>1. Cat(SbStart, z) \in Seq(SbBytes)
      BY <1>1, CatType
    <3> QED BY <1>1, <2>2, <2>3, <2>4, <3>1, CatCancel
  <2> DEFINE b == Cat(r, c)
  <2>6. b \in SbLine /\ a = Cat(g, b)
    <3>1. Cat(Cat(g, r), c) = Cat(g, Cat(r, c))
      BY <1>1, <2>2, CatAssoc
    <3>2. b \in SbLine
      BY <1>1, <2>2, CatType DEF SbLine
    <3> QED BY <2>5, <3>1, <3>2
  <2>7. SbOpen(Cat(y, c)) = SbOpen(b) /\ SbGiven(s, Cat(y, c)) = SbGiven(SbGiven(s, y), b)
    <3>1. c \in SbLine
      BY <2>2 DEF SbLine
    <3> QED BY <3>1, GivenOn
  <2> HIDE DEF b
  <2> QED BY <2>5, <2>6, <2>7
<1>6. CASE ~(Len(a) >= Len(y))
  <2> DEFINE m == Post(y, Len(a))
  <2>1. Len(a) \in 0 .. Len(y)
    BY <1>2, <1>6
  <2>2. m \in Seq(SbBytes) /\ Len(m) = Len(y) - Len(a) /\ Len(Pre(y, Len(a))) = Len(a) /\ Pre(y, Len(a)) \in Seq(SbBytes)
        /\ Cat(Pre(y, Len(a)), m) = y
    BY <1>1, <2>1, SidesMake
  <2> HIDE DEF m
  <2>3. Pre(y, Len(a)) = a
    <3>1. Cat(m, v) \in Seq(SbBytes) /\ Cat(SbStart, z) \in Seq(SbBytes)
      BY <1>1, <2>2, CatType
    <3>2. Cat(Cat(Pre(y, Len(a)), m), v) = Cat(Pre(y, Len(a)), Cat(m, v))
      BY <1>1, <2>2, CatAssoc
    <3>3. Cat(Pre(y, Len(a)), Cat(m, v)) = Cat(a, Cat(SbStart, z))
      BY <2>2, <3>2
    <3> QED BY <1>1, <2>2, <3>1, <3>3, CatCancel
  <2>4. y = Cat(a, m)
    BY <2>2, <2>3
  <2>5. \A j \in 1 .. 4 : t[Len(a) + j] = SbStart[j]
    <3> DEFINE c == Cat(SbStart, z)
    <3>1. c \in Seq(SbBytes) /\ Len(c) = 4 + Len(z) /\ Len(z) \in Nat
          /\ \A i \in 1 .. 4 + Len(z) : c[i] = IF i <= 4 THEN SbStart[i] ELSE z[i - 4]
      <4> DEFINE k == Len(SbStart)
      <4>1. c \in Seq(SbBytes) /\ Len(c) = k + Len(z) /\ Len(z) \in Nat
            /\ \A i \in 1 .. k + Len(z) : c[i] = IF i <= k THEN SbStart[i] ELSE z[i - k]
        BY <1>1, CatLen, CatType
      <4>2. k = 4
        BY <1>1
      <4> HIDE DEF k, c
      <4> QED BY <4>1, <4>2
    <3> HIDE DEF c
    <3>2. \A i \in 1 .. Len(a) + Len(c) : Cat(a, c)[i] = IF i <= Len(a) THEN a[i] ELSE c[i - Len(a)]
      BY <1>1, <3>1, CatLen
    <3>3. ASSUME NEW j \in 1 .. 4 PROVE t[Len(a) + j] = SbStart[j]
      <4> DEFINE i == Len(a) + j
      <4>1. i \in 1 .. Len(a) + Len(c) /\ ~(i <= Len(a)) /\ i - Len(a) = j /\ j \in 1 .. 4 + Len(z) /\ j <= 4
        BY <1>2, <3>1
      <4>2. t = Cat(a, c)
        BY DEF c
      <4> HIDE DEF i, t
      <4>3. t[i] = c[j]
        BY <3>2, <4>1, <4>2
      <4> QED BY <3>1, <4>1, <4>3 DEF i
    <3> QED BY <3>3
  <2>6. \A j \in 1 .. Len(m) : m[j] = t[Len(a) + j]
    <3>1. \A i \in 1 .. Len(a) + Len(m) : Cat(a, m)[i] = IF i <= Len(a) THEN a[i] ELSE m[i - Len(a)]
      BY <1>1, <2>2, CatLen
    <3> SUFFICES ASSUME NEW j \in 1 .. Len(m) PROVE m[j] = t[Len(a) + j]
      OBVIOUS
    <3> DEFINE i == Len(a) + j
    <3>2. i \in 1 .. Len(a) + Len(m) /\ ~(i <= Len(a)) /\ i - Len(a) = j /\ i \in 1 .. Len(y) + Len(v) /\ i <= Len(y)
      BY <1>2, <2>2
    <3> HIDE DEF i, t
    <3>3. y[i] = m[j]
      BY <2>4, <3>1, <3>2
    <3>4. t[i] = y[i]
      BY <1>4, <3>2
    <3> QED BY <3>3, <3>4 DEF i
  <2>7. Len(m) < 4
    <3> SUFFICES ASSUME ~(Len(m) < 4) PROVE FALSE
      OBVIOUS
    <3> DEFINE f == Len(a) + 1
    <3>1. f \in SbPlaces(y, SbStart)
      BY <1>1, <1>2, <2>2 DEF SbPlaces
    <3>2. SbMatch(y, SbStart, f)
      <4> SUFFICES ASSUME NEW j \in 1 .. 4 PROVE y[f + j - 1] = SbStart[j]
        BY <1>1 DEF SbMatch
      <4> DEFINE i == Len(a) + j
      <4>1. f + j - 1 = i /\ i \in 1 .. Len(y) + Len(v) /\ i <= Len(y)
        BY <1>2, <2>2
      <4> HIDE DEF i, f, t
      <4>2. t[i] = y[i]
        BY <1>4, <4>1
      <4>3. t[i] = SbStart[j]
        BY <2>5 DEF i
      <4> QED BY <4>1, <4>2, <4>3
    <3>3. f \in SbFind(y, SbStart)
      <4> HIDE DEF f
      <4> QED BY <1>1, <3>1, <3>2, FindIs
    <3> QED BY <3>3
  <2>8. m \in {<<>>, <<"E">>, <<"E", "[">>, <<"E", "[", "2">>}
    <3>1. \A j \in 1 .. Len(m) : m[j] = SbStart[j]
      <4>1. \A j \in 1 .. Len(m) : j \in 1 .. 4
        BY <1>2, <2>2, <2>7
      <4> QED BY <2>5, <2>6, <4>1
    <3> QED BY <2>2, <2>7, <3>1, MarkerBegins DEF SbLine
  <2>9. SbOpen(y) = m /\ SbGiven(s, y) = SbGiven(s, a)
    <3>1. SbOpen(Cat(a, m)) = SbOpen(Cat(SbOpen(a), m)) /\ SbGiven(s, Cat(a, m)) = SbGiven(SbGiven(s, a), Cat(SbOpen(a), m))
      <4>1. m \in SbLine
        BY <2>2 DEF SbLine
      <4> QED BY <4>1, GivenOn
    <3>2. Cat(SbOpen(a), m) = m
      BY <2>2, CatEmpty
    <3>3. SbOpen(m) = m /\ SbGiven(SbGiven(s, a), m) = SbGiven(s, a)
      BY <1>3, <2>8, MarkerOpen
    <3> QED BY <2>4, <3>1, <3>2, <3>3
  <2>10. a = g
    <3>1. Len(Cat(a, m)) = Len(a) + Len(m) /\ Len(Cat(g, m)) = Len(g) + Len(m) /\ Len(m) \in Nat
      BY <1>1, <2>2, CatLen
    <3>2. Cat(a, m) = Cat(g, m)
      BY <2>4, <2>9
    <3>3. Len(a) = Len(g)
      BY <1>2, <3>1, <3>2
    <3> QED BY <1>1, <2>2, <3>2, <3>3, CatCancel
  <2>11. <<>> \in SbLine /\ SbOpen(<<>>) = <<>> /\ SbGiven(SbGiven(s, y), <<>>) = SbGiven(s, y) /\ Cat(g, <<>>) = g
    BY <1>1, <1>3, EmptySeq, GivenIs, CatEmpty DEF SbLine
  <2> QED BY <2>9, <2>10, <2>11
<1> QED BY <1>5, <1>6

LEMMA MarkerBehind ==
    ASSUME NEW s \in SbFields, NEW y \in SbLine, NEW v \in SbLine,
           SbFind(y, SbStart) = {}, SbFind(Cat(y, v), SbStart) # {},
           SbOpen(SubSeq(Cat(y, v), 1, SbFirst(Cat(y, v), SbStart) - 1)) = <<>>
    PROVE  LET t == Cat(y, v)
               u == Cat(SbOpen(y), v)
               a == SubSeq(t, 1, SbFirst(t, SbStart) - 1)
               b == SubSeq(u, 1, SbFirst(u, SbStart) - 1)
           IN  /\ SbFind(u, SbStart) # {} /\ a \in SbLine /\ b \in SbLine
               /\ SbOpen(b) = <<>> /\ SbGiven(SbGiven(s, y), b) = SbGiven(s, a)
               /\ SbFrom(u, SbFirst(u, SbStart) + Len(SbStart)) = SbFrom(t, SbFirst(t, SbStart) + Len(SbStart))
<1> DEFINE r == SbOpen(y)
           t == Cat(y, v)
           u == Cat(r, v)
           f == SbFirst(t, SbStart)
           a == SubSeq(t, 1, f - 1)
           z == SbFrom(t, f + Len(SbStart))
           h == SbFirst(u, SbStart)
           b == SubSeq(u, 1, h - 1)
           x == SbFrom(u, h + Len(SbStart))
<1>1. SbStart \in Seq(SbBytes) /\ Len(SbStart) > 0
  <2>1. SbStart \in Seq(SbBytes) /\ Len(SbStart) = 4
    BY BytesAre DEF SbLine
  <2> QED BY <2>1
<1>2. y \in Seq(SbBytes) /\ v \in Seq(SbBytes) /\ r \in SbLine /\ r \in Seq(SbBytes)
  BY GivenIs DEF SbLine
<1>3. t \in Seq(SbBytes) /\ u \in Seq(SbBytes)
  BY <1>2, CatType
<1>4. PICK g \in SbLine : y = Cat(g, r)
  BY OpenIs
<1>5. g \in Seq(SbBytes) /\ Len(g) \in Nat
  BY <1>4, LenProperties DEF SbLine
<1>6. t = Cat(g, u)
  BY <1>2, <1>4, <1>5, CatAssoc
<1>7. SbFind(t, SbStart) # {} /\ SbOpen(a) = <<>> /\ t = Cat(y, v)
  OBVIOUS
<1> HIDE DEF t, u, r
<1>8. /\ a \in Seq(SbBytes) /\ Len(a) = f - 1 /\ z \in Seq(SbBytes) /\ f \in Nat /\ f >= 1
      /\ t = Cat(a, Cat(SbStart, z))
  <2>1. a \in Seq(SbBytes) /\ Len(a) = f - 1 /\ z \in Seq(SbBytes) /\ f \in Nat /\ f >= 1
    BY <1>1, <1>3, <1>7, SplitAt
  <2>2. t = Cat(a, Cat(SbStart, z))
    BY <1>1, <1>3, <1>7, SplitAt
  <2> QED BY <2>1, <2>2
<1>9. \A j \in SbFind(t, SbStart) : f <= j
  BY <1>1, <1>3, <1>7, FirstIs
<1>10. f \in SbFind(t, SbStart)
  BY <1>1, <1>3, <1>7, FirstIs
<1> HIDE DEF a, z, f
<1>11. a \in SbLine /\ z \in SbLine
  BY <1>8 DEF SbLine
<1>12. PICK c \in SbLine : a = Cat(g, c) /\ SbOpen(c) = <<>> /\ SbGiven(SbGiven(s, y), c) = SbGiven(s, a)
  <2>1. Cat(y, v) = Cat(a, Cat(SbStart, z)) /\ y = Cat(g, SbOpen(y))
    BY <1>4, <1>7, <1>8 DEF r
  <2>2. \E e \in SbLine : a = Cat(g, e) /\ SbOpen(e) = <<>> /\ SbGiven(SbGiven(s, y), e) = SbGiven(s, a)
    <3>1. SbReads(y, v, a, z, g)
      BY <1>7, <2>1 DEF SbReads
    <3>2. SbReadOn(s, y, a, g)
      BY <1>4, <1>11, <3>1, ReadAlready
    <3> QED BY <3>2 DEF SbReadOn
  <2> QED BY <2>2
<1>13. c \in Seq(SbBytes) /\ Len(c) \in Nat /\ Len(a) = Len(g) + Len(c)
  <2>1. c \in Seq(SbBytes)
    BY <1>12 DEF SbLine
  <2> QED BY <1>5, <1>12, <2>1, CatLen
<1>14. u = Cat(c, Cat(SbStart, z))
  <2>1. Cat(SbStart, z) \in Seq(SbBytes) /\ Cat(c, Cat(SbStart, z)) \in Seq(SbBytes)
    BY <1>1, <1>8, <1>13, CatType
  <2>2. Cat(Cat(g, c), Cat(SbStart, z)) = Cat(g, Cat(c, Cat(SbStart, z)))
    BY <1>5, <1>13, <2>1, CatAssoc
  <2>3. Cat(g, u) = Cat(g, Cat(c, Cat(SbStart, z)))
    BY <1>6, <1>8, <1>12, <2>2
  <2> QED BY <1>3, <1>5, <2>1, <2>3, CatCancel
<1> DEFINE k == Len(c) + 1
<1>15. k \in Int /\ k > 0 /\ k + Len(g) = f
  <2>1. Len(a) = f - 1 /\ f \in Nat
    BY <1>8
  <2> QED BY <1>5, <1>13, <2>1
<1>16. \A i \in Int : i \in SbFind(u, SbStart) <=> i > 0 /\ i + Len(g) \in SbFind(t, SbStart)
  <2>1. \A i \in Int : i \in SbFind(u, SbStart) <=> i > 0 /\ i + Len(g) \in SbFind(Cat(g, u), SbStart)
    BY <1>1, <1>3, <1>5, FoundBehind
  <2> QED BY <1>6, <2>1
<1> HIDE DEF k
<1>17. k \in SbFind(u, SbStart)
  BY <1>10, <1>15, <1>16
<1>18. ASSUME NEW i \in SbFind(u, SbStart) PROVE k <= i
  <2>1. i \in Int
    BY DEF SbFind
  <2>2. f <= i + Len(g)
    BY <1>9, <1>16, <2>1
  <2> QED BY <1>5, <1>15, <2>1, <2>2
<1>19. SbFirst(u, SbStart) = k
  BY <1>1, <1>3, <1>17, <1>18, FirstIs
<1>20. h = k /\ h - 1 = Len(c)
  BY <1>13, <1>15, <1>19 DEF k
<1>21. b \in Seq(SbBytes) /\ Len(b) = h - 1 /\ x \in Seq(SbBytes) /\ u = Cat(b, Cat(SbStart, x))
  <2>1. b \in Seq(SbBytes) /\ Len(b) = h - 1 /\ x \in Seq(SbBytes)
    BY <1>1, <1>3, <1>17, SplitAt
  <2>2. u = Cat(b, Cat(SbStart, x))
    BY <1>1, <1>3, <1>17, SplitAt
  <2> QED BY <2>1, <2>2
<1> HIDE DEF b, x, h
<1>22. b = c /\ Cat(SbStart, x) = Cat(SbStart, z)
  <2>1. Cat(SbStart, z) \in Seq(SbBytes) /\ Cat(SbStart, x) \in Seq(SbBytes)
    BY <1>1, <1>8, <1>21, CatType
  <2>2. Cat(b, Cat(SbStart, x)) = Cat(c, Cat(SbStart, z)) /\ Len(b) = Len(c)
    BY <1>14, <1>20, <1>21
  <2> QED BY <1>13, <1>21, <2>1, <2>2, CatCancel
<1>23. x = z
  BY <1>1, <1>8, <1>21, <1>22, CatCancel
<1>24. /\ SbFind(u, SbStart) # {} /\ a \in SbLine /\ b \in SbLine
       /\ SbOpen(b) = <<>> /\ SbGiven(SbGiven(s, y), b) = SbGiven(s, a) /\ x = z
  BY <1>11, <1>12, <1>17, <1>22, <1>23
<1> QED BY <1>24 DEF a, b, x, z, h, f, t, u, r

LEMMA CallOn ==
    ASSUME NEW w \in SbWorks, w.input # <<>>, NEW v \in SbLine, v # <<>>
    PROVE  LET c == SbCall(w)
               d == SbCall([state |-> w.state, input |-> Cat(w.input, v)])
           IN  \/ d.state = c.state /\ d.input = Cat(c.input, v)
               \/ c.input = <<>> /\ SbCall([state |-> c.state, input |-> v]) = d
               \/ d.state.cut
<1> DEFINE s == w.state
           more == [state |-> s, input |-> Cat(w.input, v)]
           c == SbCall(w)
           d == SbCall(more)
           y == SbTextOf(w)
           t == Cat(s.pasted, y)
           rest == [state |-> c.state, input |-> v]
           Fits == \/ d.state = c.state /\ d.input = Cat(c.input, v)
                   \/ c.input = <<>> /\ SbCall(rest) = d
                   \/ d.state.cut
<1> SUFFICES Fits
  OBVIOUS
<1>1. /\ s \in SbFields /\ w.input \in SbLine /\ y \in SbLine /\ t \in SbLine
      /\ s.buffer \in SbLine /\ s.pasted \in SbLine
  BY CallCases
<1>2. more \in SbWorks /\ more.state = s /\ more.input = Cat(w.input, v) /\ more.input # <<>>
  <2>1. Cat(w.input, v) \in SbLine
    BY <1>1, CatType DEF SbLine
  <2>2. Cat(w.input, v) # <<>>
    BY <1>1, CatNotEmpty DEF SbLine
  <2> HIDE DEF s
  <2> QED BY <1>1, <2>1, <2>2 DEF SbWorks
<1>3. SbTextOf(more) = Cat(y, v) /\ Cat(s.pasted, SbTextOf(more)) = Cat(t, v)
  <2>1. SbTextOf(more) = Cat(s.buffer, Cat(w.input, v))
    BY <1>2 DEF SbTextOf
  <2>2. Cat(s.buffer, Cat(w.input, v)) = Cat(Cat(s.buffer, w.input), v)
    BY <1>1, CatAssoc DEF SbLine
  <2>3. Cat(s.pasted, Cat(y, v)) = Cat(t, v)
    BY <1>1, CatAssoc DEF SbLine
  <2> QED BY <2>1, <2>2, <2>3 DEF SbTextOf
<1>4. c \in SbWorks
  BY CallIs
<1>5. rest \in SbWorks /\ rest.state = c.state /\ rest.input = v
  BY <1>4 DEF SbWorks
<1>6. Cat(y, v) \in SbLine /\ Cat(t, v) \in SbLine
  BY <1>1, CatType DEF SbLine
<1> HIDE DEF c, d, s, y, t, more
<1>7. ASSUME NEW x \in SbFields, NEW z \in SbLine, c = SbPasting(x, z), d = SbPasting(x, Cat(z, v)) PROVE Fits
  <2>1. CASE SbFind(z, SbEnd) # {}
    <3>1. d.state = c.state /\ d.input = Cat(c.input, v)
      BY <1>7, <2>1, PastingOn
    <3> QED BY <3>1
  <2>2. CASE SbFind(z, SbEnd) = {}
    <3>1. c.input = <<>> /\ SbCall([state |-> c.state, input |-> v]) = d
      BY <1>7, <2>2, PastingOn
    <3> QED BY <3>1
  <2> QED BY <2>1, <2>2
<1> HIDE DEF Fits
<1>8. CASE s.paste
  <2>1. c = SbPasting(s, t)
    BY <1>8, CallCases DEF c, s, t, y
  <2>2. d = SbPasting(s, Cat(t, v))
    BY <1>2, <1>3, <1>8, CallCases DEF d
  <2> QED BY <1>1, <1>7, <2>1, <2>2
<1>9. SbStart \in Seq(SbBytes) /\ Len(SbStart) > 0
  <2>1. SbStart \in Seq(SbBytes) /\ Len(SbStart) = 4
    BY BytesAre DEF SbLine
  <2> QED BY <2>1
<1>10. y \in Seq(SbBytes) /\ v \in Seq(SbBytes) /\ Cat(y, v) \in Seq(SbBytes)
  BY <1>1, <1>6 DEF SbLine
<1>11. CASE ~s.paste /\ SbFind(y, SbStart) # {}
  <2> DEFINE f == SbFirst(y, SbStart)
             a == SubSeq(y, 1, f - 1)
             z == SbFrom(y, f + Len(SbStart))
             x == SbEntered(s, a)
  <2>1. c = SbPasting(x, z)
    BY <1>11, CallCases DEF c, s, y
  <2>2. SbFind(Cat(y, v), SbStart) # {} /\ SbFirst(Cat(y, v), SbStart) = f
    BY <1>9, <1>10, <1>11, FirstKept
  <2>3. SubSeq(Cat(y, v), 1, f - 1) = a
    BY <1>9, <1>10, <1>11, SplitKept
  <2>4. SbFrom(Cat(y, v), f + Len(SbStart)) = Cat(z, v)
    BY <1>9, <1>10, <1>11, SplitKept
  <2>5. d = SbPasting(SbEntered(s, SubSeq(Cat(y, v), 1, SbFirst(Cat(y, v), SbStart) - 1)),
                      SbFrom(Cat(y, v), SbFirst(Cat(y, v), SbStart) + Len(SbStart)))
    BY <1>2, <1>3, <1>11, <2>2, CallCases DEF d
  <2>6. d = SbPasting(x, Cat(z, v))
    BY <2>2, <2>3, <2>4, <2>5
  <2>7. a \in SbLine /\ z \in SbLine
    BY <1>9, <1>10, <1>11, SplitAt DEF SbLine
  <2> HIDE DEF a, z
  <2>8. x \in SbFields
    BY <1>1, <2>7, EnteredIs
  <2> HIDE DEF x
  <2> QED BY <1>7, <2>1, <2>6, <2>7, <2>8
<1>12. CASE ~s.paste /\ SbFind(y, SbStart) = {}
  <2> DEFINE r == SbOpen(y)
             p == c.state
             given == SbGiven(s, y)
  <2>1. c = SbPlain(s, y)
    BY <1>12, CallCases DEF c, s, y
  <2>2. /\ c.input = <<>> /\ p \in SbFields /\ p.buffer = r /\ ~p.paste /\ p.pasted = s.pasted /\ p.cut = s.cut
        /\ p.key = given.key /\ p.out = given.out
    BY <1>1, <1>4, <1>12, <2>1, PlainIs DEF SbWorks
  <2>3. SbTextOf(rest) = Cat(r, v)
    BY <1>5, <2>2 DEF SbTextOf
  <2>4. r \in SbLine /\ r \in Seq(SbBytes) /\ Cat(r, v) \in SbLine /\ given \in SbFields
    <3>1. r \in SbLine /\ given \in SbFields
      BY <1>1, GivenIs
    <3> HIDE DEF r
    <3> QED BY <1>10, <3>1, CatType DEF SbLine
  <2>5. given.cut = s.cut /\ SbGiven(given, Cat(r, v)) = SbGiven(s, Cat(y, v)) /\ SbOpen(Cat(r, v)) = SbOpen(Cat(y, v))
    BY <1>1, GivenOn, GivenKeeps
  <2> HIDE DEF r, p, given
  <2>6. CASE SbFind(Cat(y, v), SbStart) = {}
    <3>1. SbFind(Cat(r, v), SbStart) = {}
      <4> SUFFICES ASSUME NEW i \in SbFind(Cat(r, v), SbStart) PROVE FALSE
        OBVIOUS
      <4>1. PICK g \in SbLine : y = Cat(g, r)
        BY <1>1, OpenIs DEF r
      <4>2. g \in Seq(SbBytes) /\ Cat(r, v) \in Seq(SbBytes)
        BY <2>4, <4>1 DEF SbLine
      <4>3. Cat(y, v) = Cat(g, Cat(r, v))
        BY <1>10, <2>4, <4>1, <4>2, CatAssoc
      <4>4. i \in Int
        BY DEF SbFind
      <4>5. i + Len(g) \in SbFind(Cat(g, Cat(r, v)), SbStart)
        BY <1>9, <4>2, <4>4, FoundBehind
      <4> QED BY <2>6, <4>3, <4>5
    <3>2. d = SbPlain(s, Cat(y, v))
      BY <1>2, <1>3, <1>12, <2>6, CallCases DEF d
    <3>3. SbCall(rest) = SbPlain(p, Cat(r, v))
      <4>1. rest.state = p
        BY <1>5 DEF p
      <4> HIDE DEF rest
      <4>2. rest.input # <<>> /\ ~rest.state.paste /\ SbFind(SbTextOf(rest), SbStart) = {}
        BY <1>5, <2>2, <2>3, <3>1, <4>1
      <4>3. SbCall(rest) = SbPlain(rest.state, SbTextOf(rest))
        BY <1>5, <4>2, CallCases
      <4> QED BY <2>3, <4>1, <4>3
    <3> DEFINE m == SbPlain(p, Cat(r, v))
               n == SbPlain(s, Cat(y, v))
    <3>4. SbGiven(p, Cat(r, v)).key = SbGiven(given, Cat(r, v)).key /\ SbGiven(p, Cat(r, v)).out = SbGiven(given, Cat(r, v)).out
      BY <2>2, <2>4, GivenAlike
    <3>5. /\ m \in SbWorks /\ m.input = <<>> /\ m.state.buffer = SbOpen(Cat(r, v)) /\ m.state.paste = p.paste
          /\ m.state.pasted = p.pasted /\ m.state.cut = p.cut
          /\ m.state.key = SbGiven(p, Cat(r, v)).key /\ m.state.out = SbGiven(p, Cat(r, v)).out
      BY <2>2, <2>4, PlainIs
    <3>6. /\ n \in SbWorks /\ n.input = <<>> /\ n.state.buffer = SbOpen(Cat(y, v)) /\ n.state.paste = s.paste
          /\ n.state.pasted = s.pasted /\ n.state.cut = s.cut
          /\ n.state.key = SbGiven(s, Cat(y, v)).key /\ n.state.out = SbGiven(s, Cat(y, v)).out
      BY <1>1, <1>6, PlainIs
    <3> HIDE DEF m, n
    <3>7. m.state.paste = n.state.paste
      <4>1. p.paste = FALSE /\ s.paste = FALSE
        BY <1>1, <1>12, <2>2 DEF SbFields
      <4> QED BY <3>5, <3>6, <4>1
    <3>8. /\ m.state \in SbFields /\ n.state \in SbFields /\ m.state.buffer = n.state.buffer /\ m.state.pasted = n.state.pasted
          /\ m.state.cut = n.state.cut /\ m.state.key = n.state.key /\ m.state.out = n.state.out
      BY <2>2, <2>5, <3>4, <3>5, <3>6 DEF SbWorks
    <3>9. m.state = n.state
      BY <3>7, <3>8 DEF SbFields
    <3>10. m = n
      BY <3>5, <3>6, <3>9 DEF SbWorks
    <3>11. SbCall(rest) = d
      BY <3>2, <3>3, <3>10 DEF m, n
    <3> QED BY <2>2, <3>11 DEF Fits, p
  <2>7. CASE SbFind(Cat(y, v), SbStart) # {}
    <3> DEFINE u == Cat(y, v)
               a == SubSeq(u, 1, SbFirst(u, SbStart) - 1)
               z == SbFrom(u, SbFirst(u, SbStart) + Len(SbStart))
               x == SbEntered(s, a)
    <3>1. d = SbPasting(x, z)
      BY <1>2, <1>3, <1>12, <2>7, CallCases DEF d
    <3>2. a \in SbLine /\ z \in SbLine
      <4> HIDE DEF u
      <4> QED BY <1>9, <1>10, <2>7, SplitAt DEF SbLine, u
    <3>3. x \in SbFields /\ x.cut = (s.cut \/ SbOpen(a) # <<>>) /\ x.key = "none" /\ x.out = SbGiven(s, a).out
      <4> HIDE DEF a, z
      <4> QED BY <1>1, <3>2, EnteredIs
    <3>4. CASE SbOpen(a) # <<>>
      <4>1. d.state.cut = x.cut
        <5> HIDE DEF x, z
        <5> QED BY <3>1, <3>2, <3>3, PastingIs
      <4>2. d.state.cut
        <5> HIDE DEF a, z, x
        <5> QED BY <3>3, <3>4, <4>1
      <4> QED BY <4>2 DEF Fits
    <3>5. CASE SbOpen(a) = <<>>
      <4> DEFINE k == Cat(r, v)
                 b == SubSeq(k, 1, SbFirst(k, SbStart) - 1)
                 e == SbFrom(k, SbFirst(k, SbStart) + Len(SbStart))
                 q == SbEntered(p, b)
      <4>1. SbFind(k, SbStart) # {} /\ b \in SbLine /\ SbOpen(b) = <<>> /\ SbGiven(given, b) = SbGiven(s, a) /\ e = z
        BY <1>1, <1>12, <2>7, <3>5, MarkerBehind DEF r, given
      <4>2. SbCall(rest) = SbPasting(q, e)
        <5>1. rest.state = p
          BY <1>5 DEF p
        <5> HIDE DEF rest
        <5>2. rest.input # <<>> /\ ~rest.state.paste /\ SbFind(SbTextOf(rest), SbStart) # {}
          BY <1>5, <2>2, <2>3, <4>1, <5>1
        <5>3. SbCall(rest) = SbPasting(SbEntered(rest.state, SubSeq(SbTextOf(rest), 1, SbFirst(SbTextOf(rest), SbStart) - 1)),
                                       SbFrom(SbTextOf(rest), SbFirst(SbTextOf(rest), SbStart) + Len(SbStart)))
          BY <1>5, <5>2, CallCases
        <5> QED BY <2>3, <5>1, <5>3
      <4> HIDE DEF a, b, z, e, k, u
      <4>3. q \in SbFields /\ q.cut = (p.cut \/ SbOpen(b) # <<>>) /\ q.key = "none" /\ q.out = SbGiven(p, b).out
        BY <2>2, <4>1, EnteredIs
      <4>4. SbGiven(p, b).out = SbGiven(given, b).out
        BY <2>2, <2>4, <4>1, GivenAlike
      <4>5. q.key = x.key /\ q.out = x.out /\ q.cut = x.cut
        <5> HIDE DEF q, x
        <5>1. q.key = x.key
          BY <3>3, <4>3
        <5>2. q.out = x.out
          BY <3>3, <4>1, <4>3, <4>4
        <5>3. q.cut = x.cut
          <6>1. x.cut = (s.cut \/ FALSE) /\ q.cut = (p.cut \/ FALSE)
            BY <3>3, <3>5, <4>1, <4>3
          <6> QED BY <2>2, <6>1
        <5> QED BY <5>1, <5>2, <5>3
      <4> HIDE DEF q, x
      <4>6. SbPasting(q, z) = SbPasting(x, z)
        BY <3>2, <3>3, <4>3, <4>5, PastingAlike
      <4>7. SbCall(rest) = d
        BY <3>1, <4>1, <4>2, <4>6
      <4> QED BY <2>2, <4>7 DEF Fits, p
    <3> QED BY <3>4, <3>5
  <2> QED BY <2>6, <2>7
<1> QED BY <1>8, <1>11, <1>12

(* What came of a marker over an open sequence stays lost. *)
LEMMA CutKept == \A w \in SbWorks : w.state.cut => SbDone(w).cut
<1> DEFINE A == {w \in SbWorks : w.state.cut => SbDone(w).cut}
<1>1. ASSUME NEW w \in SbWorks, w.input = <<>> PROVE w \in A
  BY <1>1, ProcessIs
<1>2. ASSUME NEW w \in SbWorks, w.input # <<>>, SbCall(w) \in A PROVE w \in A
  <2>1. w.state.cut => SbCall(w).state.cut
    BY CallIs
  <2>2. SbDone(SbCall(w)) = SbDone(w)
    BY ProcessIs
  <2> QED BY <1>2, <2>1, <2>2
<1>3. \A w \in SbWorks : w \in A
  <2> HIDE DEF A
  <2> QED BY <1>1, <1>2, ByCalls
<1> QED BY <1>3

(* process() on a text and then on more is process() on all of it, unless that loses a sequence. *)
SbMore(w, v) == [state |-> w.state, input |-> Cat(w.input, v)]
SbThen(s, v) == [state |-> s, input |-> v]

LEMMA ProcessOn ==
    ASSUME NEW v \in SbLine, v # <<>>
    PROVE  \A w \in SbWorks : ~SbDone(SbMore(w, v)).cut => SbDone(SbMore(w, v)) = SbDone(SbThen(SbDone(w), v))
<1> DEFINE A == {w \in SbWorks : ~SbDone(SbMore(w, v)).cut => SbDone(SbMore(w, v)) = SbDone(SbThen(SbDone(w), v))}
<1>1. ASSUME NEW w \in SbWorks, w.input = <<>> PROVE w \in A
  <2>1. SbDone(w) = w.state
    BY <1>1, ProcessIs
  <2>2. Cat(w.input, v) = v
    BY <1>1, CatEmpty DEF SbLine
  <2>3. SbMore(w, v) = SbThen(SbDone(w), v)
    BY <2>1, <2>2 DEF SbMore, SbThen
  <2> QED BY <2>3
<1>2. ASSUME NEW w \in SbWorks, w.input # <<>>, SbCall(w) \in A PROVE w \in A
  <2> DEFINE c == SbCall(w)
             more == SbMore(w, v)
             d == SbCall(more)
  <2>1. c \in SbWorks /\ (~SbDone(SbMore(c, v)).cut => SbDone(SbMore(c, v)) = SbDone(SbThen(SbDone(c), v)))
    BY <1>2
  <2>2. SbDone(w) = SbDone(c)
    BY ProcessIs
  <2>3. more \in SbWorks
    <3>1. w.state \in SbFields /\ w.input \in SbLine
      BY CallCases
    <3>2. Cat(w.input, v) \in SbLine
      BY <3>1, CatType DEF SbLine
    <3> QED BY <3>1, <3>2 DEF SbMore, SbWorks
  <2>4. d \in SbWorks /\ SbDone(more) = SbDone(d)
    BY <2>3, CallIs, ProcessIs
  <2>5. \/ d.state = c.state /\ d.input = Cat(c.input, v)
        \/ c.input = <<>> /\ SbCall(SbThen(c.state, v)) = d
        \/ d.state.cut
    BY <1>2, CallOn DEF SbMore, SbThen
  <2> HIDE DEF c, d, more
  <2>6. CASE d.state = c.state /\ d.input = Cat(c.input, v)
    <3>1. d = SbMore(c, v)
      BY <2>4, <2>6 DEF SbMore, SbWorks
    <3>2. ~SbDone(more).cut => SbDone(more) = SbDone(SbThen(SbDone(w), v))
      BY <2>1, <2>2, <2>4, <3>1
    <3> QED BY <3>2 DEF more
  <2>7. CASE c.input = <<>> /\ SbCall(SbThen(c.state, v)) = d
    <3>1. SbDone(c) = c.state
      BY <2>1, <2>7, ProcessIs
    <3>2. SbThen(c.state, v) \in SbWorks
      BY <2>1 DEF SbThen, SbWorks
    <3>3. SbDone(SbThen(c.state, v)) = SbDone(d)
      BY <2>7, <3>2, ProcessIs
    <3>4. SbDone(more) = SbDone(SbThen(SbDone(w), v))
      BY <2>2, <2>4, <3>1, <3>3
    <3> QED BY <3>4 DEF more
  <2>8. CASE d.state.cut
    <3>1. SbDone(more).cut
      BY <2>4, <2>8, CutKept
    <3> QED BY <3>1 DEF more
  <2> QED BY <2>5, <2>6, <2>7, <2>8
<1>3. \A w \in SbWorks : w \in A
  <2> HIDE DEF A
  <2> QED BY <1>1, <1>2, ByCalls
<1> QED BY <1>3

-----------------------------------------------------------------------------
(* Nothing is lost, repeated or reordered: what was reported, as text. *)
LEMMA FlatIs ==
    ASSUME NEW texts \in Seq(SbLine)
    PROVE  /\ texts = <<>> => FlattenSeq(texts) = <<>>
           /\ texts # <<>> =>
                  \E f : /\ FlattenSeq(texts) = f[Len(texts)]
                         /\ \A i \in 1 .. Len(texts) : f[i] = IF i = 1 THEN texts[i] ELSE f[i - 1] \o texts[i]
<1> DEFINE n == Len(texts)
           Is(f) == f = [i \in 1 .. n |-> IF i = 1 THEN texts[i] ELSE f[i - 1] \o texts[i]]
           flat == CHOOSE f : Is(f)
<1>1. n \in Nat
  BY LenProperties
<1>2. \E f : Is(f)
  <2>1. \E f : f = [i \in 1 .. n |-> FlatStep(texts, f, i)]
    BY <1>1, FlatExists
  <2> QED BY <2>1 DEF FlatStep
<1>3. Is(flat)
  BY <1>2
<1>4. \A i \in 1 .. n : flat[i] = IF i = 1 THEN texts[i] ELSE flat[i - 1] \o texts[i]
  <2> HIDE DEF flat
  <2> QED BY <1>3
<1>5. FlattenSeq(texts) = IF n = 0 THEN texts ELSE flat[n]
  BY DEF FlattenSeq
<1> HIDE DEF flat
<1>6. n = 0 <=> texts = <<>>
  BY <1>1, EmptySeq
<1> QED BY <1>4, <1>5, <1>6

LEMMA FlatGrows ==
    ASSUME NEW texts \in Seq(SbLine), NEW x \in SbLine
    PROVE  FlattenSeq(Append(texts, x)) = Cat(FlattenSeq(texts), x)
<1> DEFINE n == Len(texts)
           more == Append(texts, x)
<1>1. /\ more \in Seq(SbLine) /\ Len(more) = n + 1 /\ more # <<>> /\ n \in Nat
      /\ more[n + 1] = x /\ \A i \in 1 .. n : more[i] = texts[i]
  BY AppendProperties, LenProperties
<1> HIDE DEF more
<1>2. PICK g : /\ FlattenSeq(more) = g[n + 1]
               /\ \A i \in 1 .. n + 1 : g[i] = IF i = 1 THEN more[i] ELSE g[i - 1] \o more[i]
  BY <1>1, FlatIs
<1>3. CASE texts = <<>>
  <2>1. n = 0 /\ FlattenSeq(texts) = <<>>
    BY <1>3, FlatIs
  <2>2. g[1] = x /\ FlattenSeq(more) = x
    BY <1>1, <1>2, <2>1
  <2>3. Cat(<<>>, x) = x
    BY CatEmpty DEF SbLine
  <2> QED BY <2>1, <2>2, <2>3 DEF more
<1>4. CASE texts # <<>>
  <2>1. PICK f : /\ FlattenSeq(texts) = f[n]
                 /\ \A i \in 1 .. n : f[i] = IF i = 1 THEN texts[i] ELSE f[i - 1] \o texts[i]
    BY <1>4, FlatIs
  <2>2. n > 0
    BY <1>1, <1>4, EmptySeq
  <2> DEFINE C == {i \in 1 .. n : f[i] # g[i]}
  <2>3. C = {}
    <3>1. SUFFICES ASSUME C # {} PROVE FALSE
      OBVIOUS
    <3>2. C \subseteq Nat
      BY <1>1
    <3>3. PICK m \in C : \A k \in C : m <= k
      BY <3>1, <3>2, LeastPosition
    <3>4. m \in 1 .. n /\ f[m] # g[m] /\ m \in Nat /\ m \in 1 .. n + 1
      BY <1>1, <3>3
    <3>5. more[m] = texts[m]
      BY <1>1, <3>4
    <3>6. m # 1
      BY <1>2, <2>1, <3>4, <3>5
    <3>7. m - 1 \in 1 .. n /\ ~(m <= m - 1)
      BY <1>1, <3>4, <3>6
    <3>8. f[m - 1] = g[m - 1]
      BY <3>3, <3>7
    <3>9. f[m] = f[m - 1] \o texts[m] /\ g[m] = g[m - 1] \o more[m]
      BY <1>2, <2>1, <3>4, <3>6
    <3> QED BY <3>4, <3>5, <3>8, <3>9
  <2>4. n \in 1 .. n /\ n + 1 \in 1 .. n + 1 /\ n + 1 # 1 /\ n + 1 - 1 = n
    BY <1>1, <2>2
  <2>5. f[n] = g[n]
    BY <2>3, <2>4
  <2>6. g[n + 1] = g[n] \o more[n + 1]
    <3> DEFINE i == n + 1
    <3>1. i \in 1 .. n + 1 /\ i # 1 /\ i - 1 = n
      BY <2>4
    <3> HIDE DEF i
    <3>2. g[i] = g[i - 1] \o more[i]
      BY <1>2, <3>1
    <3>3. g[i] = g[n] \o more[i]
      BY <3>1, <3>2
    <3> QED BY <3>3 DEF i
  <2> QED BY <1>1, <1>2, <2>1, <2>5, <2>6 DEF Cat, more
<1> QED BY <1>3, <1>4

SbTexts(out) == [i \in 1 .. Len(out) |-> SbText(out[i])]
SbTold(out) == FlattenSeq(SbTexts(out))

LEMMA TextOf ==
    /\ \A e \in SbEntry : SbText(e) \in SbLine
    /\ \A t \in SbLine : SbData(t) \in SbEntry /\ SbText(SbData(t)) = t
    /\ \A t \in SbLine : /\ [kind |-> "paste", text |-> t] \in SbEntry
                         /\ SbText([kind |-> "paste", text |-> t]) = Cat(SbStart, Cat(t, SbEnd))
<1>1. SbStart \in Seq(SbBytes) /\ SbEnd \in Seq(SbBytes)
  BY BytesAre DEF SbLine
<1>2. ASSUME NEW t \in Seq(SbBytes)
      PROVE  /\ Cat(Cat(SbStart, t), SbEnd) = Cat(SbStart, Cat(t, SbEnd))
             /\ Cat(Cat(SbStart, t), SbEnd) \in Seq(SbBytes)
  <2>1. Cat(SbStart, t) \in Seq(SbBytes)
    BY <1>1, CatType
  <2> QED BY <1>1, <2>1, CatType, CatAssoc
<1>3. ASSUME NEW e \in SbEntry PROVE SbText(e) \in SbLine
  <2>1. e.text \in Seq(SbBytes)
    BY DEF SbEntry, SbLine
  <2>2. SbText(e) = IF e.kind = "paste" THEN Cat(Cat(SbStart, e.text), SbEnd) ELSE e.text
    BY DEF SbText, Cat
  <2> QED BY <1>2, <2>1, <2>2 DEF SbLine
<1>4. ASSUME NEW t \in SbLine PROVE SbData(t) \in SbEntry /\ SbText(SbData(t)) = t
  BY DEF SbData, SbEntry, SbText
<1>5. ASSUME NEW t \in SbLine
      PROVE  /\ [kind |-> "paste", text |-> t] \in SbEntry
             /\ SbText([kind |-> "paste", text |-> t]) = Cat(SbStart, Cat(t, SbEnd))
  <2> DEFINE e == [kind |-> "paste", text |-> t]
  <2>1. e \in SbEntry /\ e.kind = "paste" /\ e.text = t
    BY DEF SbEntry
  <2> HIDE DEF e
  <2>2. SbText(e) = Cat(Cat(SbStart, t), SbEnd)
    BY <2>1 DEF SbText, Cat
  <2>3. t \in Seq(SbBytes)
    BY DEF SbLine
  <2>4. SbText(e) = Cat(SbStart, Cat(t, SbEnd))
    BY <1>2, <2>2, <2>3
  <2> QED BY <2>1, <2>4 DEF e
<1> QED BY <1>3, <1>4, <1>5

LEMMA ToldIs ==
    /\ SbTold(<<>>) = <<>>
    /\ \A out \in Seq(SbEntry) : SbTold(out) \in SbLine
    /\ \A out \in Seq(SbEntry), e \in SbEntry : SbTold(Append(out, e)) = Cat(SbTold(out), SbText(e))
<1>1. ASSUME NEW out \in Seq(SbEntry) PROVE SbTexts(out) \in Seq(SbLine) /\ Len(SbTexts(out)) = Len(out) /\ Len(out) \in Nat
  <2>1. Len(out) \in Nat /\ \A i \in 1 .. Len(out) : SbText(out[i]) \in SbLine
    BY LenProperties, ElementOfSeq, TextOf
  <2> QED BY <2>1, IsASeq, LenProperties DEF SbTexts
<1>2. SbTold(<<>>) = <<>>
  <2>1. <<>> \in Seq(SbEntry)
    BY EmptySeq
  <2>2. SbTexts(<<>>) = <<>>
    BY <1>1, <2>1, EmptySeq
  <2> QED BY <1>1, <2>1, <2>2, FlatIs DEF SbTold
<1>3. ASSUME NEW out \in Seq(SbEntry), NEW e \in SbEntry PROVE SbTold(Append(out, e)) = Cat(SbTold(out), SbText(e))
  <2> DEFINE m == Append(out, e)
             k == SbTexts(m)
             l == Append(SbTexts(out), SbText(e))
  <2>1. m \in Seq(SbEntry) /\ Len(m) = Len(out) + 1 /\ m[Len(out) + 1] = e /\ \A i \in 1 .. Len(out) : m[i] = out[i]
    BY AppendProperties
  <2> HIDE DEF m
  <2>2. SbText(e) \in SbLine
    BY TextOf
  <2>3. l \in Seq(SbLine) /\ Len(l) = Len(out) + 1 /\ l[Len(out) + 1] = SbText(e)
        /\ \A i \in 1 .. Len(out) : l[i] = SbTexts(out)[i]
    BY <1>1, <2>2, AppendProperties
  <2>4. k \in Seq(SbLine) /\ Len(k) = Len(out) + 1
    BY <1>1, <2>1
  <2>5. \A i \in 1 .. Len(out) + 1 : k[i] = SbText(m[i])
    BY <2>1 DEF SbTexts
  <2>6. \A i \in 1 .. Len(out) : SbTexts(out)[i] = SbText(out[i])
    BY DEF SbTexts
  <2> HIDE DEF k, l
  <2>7. ASSUME NEW i \in 1 .. Len(k) PROVE k[i] = l[i]
    <3>1. Len(out) \in Nat
      BY <1>1
    <3>2. CASE i = Len(out) + 1
      BY <2>1, <2>3, <2>4, <2>5, <3>2
    <3>3. CASE i # Len(out) + 1
      <4>1. i \in 1 .. Len(out) /\ i \in 1 .. Len(out) + 1
        BY <2>4, <3>1, <3>3
      <4> QED BY <2>1, <2>3, <2>5, <2>6, <4>1
    <3> QED BY <3>2, <3>3
  <2>8. k = l
    BY <2>3, <2>4, <2>7, SeqEqual
  <2>9. SbTold(m) = FlattenSeq(l)
    BY <2>8 DEF SbTold, k
  <2>10. FlattenSeq(l) = Cat(SbTold(out), SbText(e))
    BY <1>1, <2>2, FlatGrows DEF SbTold, l
  <2> QED BY <2>9, <2>10 DEF m
<1>4. \A out \in Seq(SbEntry) : SbTold(out) \in SbLine
  <2> DEFINE A == {out \in Seq(SbEntry) : SbTold(out) \in SbLine}
  <2>1. <<>> \in A
    BY <1>2, EmptySeq DEF SbLine
  <2>2. ASSUME NEW out \in Seq(SbEntry), NEW e \in SbEntry, out \in A PROVE Append(out, e) \in A
    <3>1. Append(out, e) \in Seq(SbEntry)
      BY AppendProperties
    <3>2. Cat(SbTold(out), SbText(e)) \in SbLine
      BY <2>2, TextOf, CatType DEF SbLine
    <3> QED BY <1>3, <3>1, <3>2
  <2> HIDE DEF A
  <2>3. \A out \in Seq(SbEntry) : out \in A
    BY <2>1, <2>2, ByAppending
  <2> QED BY <2>3 DEF A
<1> QED BY <1>2, <1>3, <1>4

(* A Kitty key that came twice is in what it is part of. *)
SbKitty == <<"E", "[", "9", "u">>
SbAgain == <<"E", "[", "9", "u", "a">>
SbLinked(s) == s.key = "a" => \E u \in SbLine : SbTold(s.out) = Cat(u, SbKitty)

LEMMA KittyIs ==
    /\ SbKitty \in SbLine /\ SbAgain \in SbLine /\ <<"a">> \in SbLine /\ Len(SbAgain) = 5 /\ SbAgain = Cat(SbKitty, <<"a">>)
    /\ \A t \in SbLine : SbTwice(t) <=> SbFind(t, SbAgain) # {}
<1>1. "E" \in SbBytes /\ "[" \in SbBytes /\ "9" \in SbBytes /\ "u" \in SbBytes /\ "a" \in SbBytes
  BY BytesAre
<1>2. SbKitty \in SbLine /\ SbAgain \in SbLine /\ <<"a">> \in SbLine /\ Len(SbAgain) = 5
  BY <1>1 DEF SbKitty, SbAgain, SbLine
<1>3. SbAgain = Cat(SbKitty, <<"a">>)
  BY <1>1 DEF SbKitty, SbAgain, Cat
<1>4. ASSUME NEW t \in SbLine PROVE SbTwice(t) <=> SbFind(t, SbAgain) # {}
  <2> DEFINE n == Len(SbAgain)
  <2>1. n = 5 /\ Len(t) \in Nat
    BY <1>2, LenProperties DEF SbLine
  <2>2. SbFind(t, SbAgain) = {i \in 1 .. Len(t) - n + 1 : SubSeq(t, i, i + n - 1) = SbAgain}
    BY DEF SbFind
  <2>3. SbTwice(t) <=> \E i \in 1 .. Len(t) - 4 : SubSeq(t, i, i + 4) = SbAgain
    BY DEF SbTwice, SbAgain
  <2> HIDE DEF n
  <2>4. 1 .. Len(t) - n + 1 = 1 .. Len(t) - 4 /\ \A i \in Int : i + n - 1 = i + 4
    BY <2>1
  <2>5. \A i \in 1 .. Len(t) - 4 : SubSeq(t, i, i + n - 1) = SubSeq(t, i, i + 4)
    BY <2>1, <2>4
  <2> QED BY <2>2, <2>3, <2>4, <2>5
<1> QED BY <1>2, <1>3, <1>4

LEMMA TwiceIn ==
    ASSUME NEW u \in SbLine, NEW v \in SbLine, ~SbTwice(Cat(u, v))
    PROVE  ~SbTwice(u) /\ ~SbTwice(v)
<1>1. /\ u \in Seq(SbBytes) /\ v \in Seq(SbBytes) /\ SbAgain \in Seq(SbBytes) /\ Len(u) \in Int
      /\ SbFind(Cat(u, v), SbAgain) = {}
  <2>1. u \in Seq(SbBytes) /\ v \in Seq(SbBytes) /\ SbAgain \in Seq(SbBytes) /\ Len(u) \in Int
    BY KittyIs, LenProperties DEF SbLine
  <2>2. Cat(u, v) \in SbLine
    BY <2>1, CatType DEF SbLine
  <2> QED BY <2>1, <2>2, KittyIs
<1>2. SbFind(u, SbAgain) = {}
  BY <1>1, FoundBefore, CatType
<1>3. SbFind(v, SbAgain) = {}
  <2> SUFFICES ASSUME NEW i \in SbFind(v, SbAgain) PROVE FALSE
    OBVIOUS
  <2>1. i \in Int
    BY DEF SbFind
  <2>2. i + Len(u) \in SbFind(Cat(u, v), SbAgain)
    BY <1>1, <2>1, FoundBehind
  <2> QED BY <1>1, <2>2
<1> QED BY <1>2, <1>3, KittyIs

LEMMA TwiceAt ==
    ASSUME NEW u \in SbLine
    PROVE  SbTwice(Cat(Cat(u, SbKitty), <<"a">>))
<1> DEFINE a == <<"a">>
           t == Cat(Cat(u, SbKitty), a)
<1>1. /\ u \in Seq(SbBytes) /\ SbKitty \in Seq(SbBytes) /\ a \in Seq(SbBytes) /\ SbAgain \in Seq(SbBytes)
      /\ SbAgain = Cat(SbKitty, a)
  BY KittyIs DEF SbLine
<1> HIDE DEF a
<1>2. t = Cat(u, SbAgain)
  BY <1>1, CatAssoc
<1>3. SbAgain = Cat(SbAgain, <<>>) /\ <<>> \in Seq(SbBytes)
  BY <1>1, CatEmpty, EmptySeq
<1>4. SubSeq(Cat(u, Cat(SbAgain, <<>>)), Len(u) + 1, Len(u) + Len(SbAgain)) = SbAgain
  BY <1>1, <1>3, Inside
<1>5. Len(t) = Len(u) + 5 /\ Len(u) \in Nat /\ Len(SbAgain) = 5
  <2>1. Len(Cat(u, SbAgain)) = Len(u) + Len(SbAgain) /\ Len(u) \in Nat
    BY <1>1, CatLen
  <2>2. Len(SbAgain) = 5
    BY KittyIs
  <2> QED BY <1>2, <2>1, <2>2
<1> HIDE DEF t
<1>6. SubSeq(t, Len(u) + 1, Len(u) + Len(SbAgain)) = SbAgain
  BY <1>2, <1>3, <1>4
<1> DEFINE i == Len(u) + 1
<1>7. i \in 1 .. Len(t) - Len(SbAgain) + 1 /\ i + Len(SbAgain) - 1 = Len(u) + Len(SbAgain)
  BY <1>5
<1>8. SubSeq(t, i, i + Len(SbAgain) - 1) = SbAgain
  BY <1>6, <1>7
<1> HIDE DEF i
<1>9. i \in SbFind(t, SbAgain)
  BY <1>7, <1>8 DEF SbFind
<1>10. t \in SbLine
  BY <1>1, <1>2, CatType DEF SbLine
<1> QED BY <1>9, <1>10, KittyIs DEF t, a

(* What is reported of a sequence is the sequence. *)
LEMMA EmitOrder ==
    ASSUME NEW s \in SbFields, NEW q \in SbLine, SbLinked(s), ~SbTwice(Cat(SbTold(s.out), q))
    PROVE  SbTold(SbEmit(s, q).out) = Cat(SbTold(s.out), q) /\ SbLinked(SbEmit(s, q))
<1> DEFINE e == SbEmit(s, q)
<1>1. s.out \in Seq(SbEntry) /\ s.key \in {"none", "a"} /\ SbTold(s.out) \in SbLine
  BY ToldIs DEF SbFields
<1>2. q # <<s.key>>
  <2> SUFFICES ASSUME q = <<s.key>> PROVE FALSE
    OBVIOUS
  <2>1. q # <<"none">>
    <3> SUFFICES ASSUME q = <<"none">> PROVE FALSE
      OBVIOUS
    <3>1. <<"none">> \in Seq(SbBytes) /\ Len(<<"none">>) = 1 /\ <<"none">>[1] = "none"
      BY DEF SbLine
    <3>2. 1 \in 1 .. Len(<<"none">>)
      BY <3>1
    <3>3. "none" \in SbBytes
      BY <3>1, <3>2, ElementOfSeq
    <3> QED BY <3>3, BytesAre
  <2>2. s.key = "a" /\ q = <<"a">>
    BY <1>1, <2>1
  <2>3. PICK u \in SbLine : SbTold(s.out) = Cat(u, SbKitty)
    BY <2>2 DEF SbLinked
  <2>4. SbTwice(Cat(SbTold(s.out), q))
    BY <2>2, <2>3, TwiceAt
  <2> QED BY <2>4
<1>3. e.key = SbKittyKey(q) /\ e.out = Append(s.out, SbData(q))
  BY <1>2, EmitIs
<1> HIDE DEF e
<1>4. SbTold(e.out) = Cat(SbTold(s.out), q)
  <2>1. SbData(q) \in SbEntry /\ SbText(SbData(q)) = q
    BY TextOf
  <2>2. SbTold(Append(s.out, SbData(q))) = Cat(SbTold(s.out), SbText(SbData(q)))
    BY <1>1, <2>1, ToldIs
  <2> QED BY <1>3, <2>1, <2>2
<1>5. SbLinked(e)
  <2> SUFFICES ASSUME e.key = "a" PROVE \E u \in SbLine : SbTold(e.out) = Cat(u, SbKitty)
    BY DEF SbLinked
  <2>1. q = SbKitty
    BY <1>3 DEF SbKittyKey, SbKitty
  <2> QED BY <1>1, <1>4, <2>1
<1> QED BY <1>4, <1>5 DEF e

LEMMA GivenOrder ==
    ASSUME NEW s \in SbFields, SbLinked(s)
    PROVE  \A t \in SbLine : ~SbTwice(Cat(SbTold(s.out), t)) =>
               /\ Cat(SbTold(SbGiven(s, t).out), SbOpen(t)) = Cat(SbTold(s.out), t)
               /\ SbLinked(SbGiven(s, t))
<1> DEFINE told == SbTold(s.out)
           Keeps(t) == /\ Cat(SbTold(SbGiven(s, t).out), SbOpen(t)) = Cat(told, t)
                       /\ SbLinked(SbGiven(s, t))
           A == {t \in SbLine : ~SbTwice(Cat(told, t)) => Keeps(t)}
<1>1. told \in SbLine /\ told \in Seq(SbBytes)
  BY ToldIs DEF SbFields, SbLine
<1>2. <<>> \in A
  <2>1. <<>> \in SbLine /\ SbOpen(<<>>) = <<>> /\ SbGiven(s, <<>>) = s
    BY EmptySeq, GivenIs DEF SbLine
  <2> QED BY <2>1
<1> HIDE DEF told
<1>3. ASSUME NEW t \in SbLine, NEW b \in SbBytes, t \in A PROVE Append(t, b) \in A
  <2> DEFINE o == SbOpen(t)
             g == SbGiven(s, t)
             x == Append(o, b)
             m == Append(t, b)
             had == SbTold(g.out)
  <2>1. m \in SbLine /\ o \in SbLine /\ g \in SbFields /\ x \in SbLine
    BY GivenIs
  <2>2. had \in SbLine
    <3>1. g.out \in Seq(SbEntry)
      BY <2>1 DEF SbFields
    <3> QED BY <3>1, ToldIs
  <2> SUFFICES ASSUME ~SbTwice(Cat(told, m)) PROVE Keeps(m)
    BY <2>1
  <2>3. Cat(told, m) = Cat(Cat(told, t), One(b)) /\ Cat(told, t) \in SbLine /\ One(b) \in SbLine
    <3>1. t \in Seq(SbBytes) /\ One(b) \in Seq(SbBytes)
      BY OneType DEF SbLine
    <3>2. m = Cat(t, One(b))
      BY <3>1, OneMore
    <3> QED BY <1>1, <3>1, <3>2, CatAssoc, CatType DEF SbLine
  <2>4. ~SbTwice(Cat(told, t))
    BY <2>3, TwiceIn
  <2>5. Cat(had, o) = Cat(told, t) /\ SbLinked(g)
    BY <1>3, <2>4
  <2> HIDE DEF o, g, had
  <2>6. Cat(had, x) = Cat(told, m)
    <3>1. o \in Seq(SbBytes) /\ One(b) \in Seq(SbBytes) /\ had \in Seq(SbBytes)
      BY <2>1, <2>2, OneType DEF SbLine
    <3>2. x = Cat(o, One(b))
      BY <3>1, OneMore
    <3> QED BY <2>3, <2>5, <3>1, <3>2, CatAssoc
  <2> HIDE DEF m
  <2>7. CASE SbWhole(x)
    <3>1. SbOpen(m) = <<>> /\ SbGiven(s, m) = SbEmit(g, x)
      BY <2>7, GivenWhole DEF x, m, g, o
    <3>2. SbTold(SbEmit(g, x).out) = Cat(had, x) /\ SbLinked(SbEmit(g, x))
      <4> HIDE DEF x
      <4> QED BY <2>1, <2>5, <2>6, EmitOrder DEF had
    <3>3. Cat(SbTold(SbEmit(g, x).out), <<>>) = Cat(had, x)
      <4>1. Cat(had, x) \in Seq(SbBytes)
        BY <2>1, <2>2, CatType DEF SbLine
      <4> QED BY <3>2, <4>1, CatEmpty
    <3> QED BY <2>6, <3>1, <3>2, <3>3
  <2>8. CASE ~SbWhole(x)
    <3>1. SbOpen(m) = x /\ SbGiven(s, m) = g
      BY <2>8, GivenOpen DEF x, m, g, o
    <3> QED BY <2>5, <2>6, <3>1 DEF had
  <2> QED BY <2>7, <2>8
<1>4. \A t \in Seq(SbBytes) : t \in A
  <2> HIDE DEF A
  <2> QED BY <1>2, <1>3, ByAppending DEF SbLine
<1> QED BY <1>4 DEF SbLine, told

(* A sequence that is pending begins with an escape, and no paste is then read. *)
SbWf(s) == (s.paste => s.buffer = <<>>) /\ (s.buffer # <<>> => s.buffer[1] = "E")
SbWaits(s) == Cat(s.buffer, IF s.paste THEN Cat(SbStart, s.pasted) ELSE <<>>)
SbHolds(s) == Cat(SbTold(s.out), SbWaits(s))
SbTotal(w) == Cat(SbHolds(w.state), w.input)

LEMMA HoldsIs ==
    ASSUME NEW s \in SbFields
    PROVE  SbTold(s.out) \in SbLine /\ SbWaits(s) \in SbLine /\ SbHolds(s) \in SbLine
<1>1. SbTold(s.out) \in Seq(SbBytes)
  BY ToldIs DEF SbFields, SbLine
<1>2. s.buffer \in Seq(SbBytes) /\ s.pasted \in Seq(SbBytes) /\ SbStart \in Seq(SbBytes) /\ <<>> \in Seq(SbBytes)
  BY BytesAre, EmptySeq DEF SbFields, SbLine
<1>3. Cat(SbStart, s.pasted) \in Seq(SbBytes)
  BY <1>2, CatType
<1>4. SbWaits(s) \in Seq(SbBytes)
  <2>1. (IF s.paste THEN Cat(SbStart, s.pasted) ELSE <<>>) \in Seq(SbBytes)
    BY <1>2, <1>3
  <2> QED BY <1>2, <2>1, CatType DEF SbWaits
<1> QED BY <1>1, <1>4, CatType DEF SbHolds, SbLine

LEMMA CallWf ==
    ASSUME NEW w \in SbWorks, SbWf(w.state)
    PROVE  SbWf(SbCall(w).state)
<1>1. ASSUME NEW s \in SbFields, NEW t \in SbLine PROVE SbWf(SbPasting(s, t).state)
  BY PastingIs DEF SbWf
<1> DEFINE y == SbTextOf(w)
           s == w.state
<1>2. s \in SbFields /\ y \in SbLine /\ Cat(s.pasted, y) \in SbLine
  BY CallCases
<1>3. CASE w.input = <<>>
  BY <1>3, CallCases
<1>4. CASE w.input # <<>> /\ s.paste
  <2>1. SbCall(w) = SbPasting(s, Cat(s.pasted, y))
    BY <1>4, CallCases
  <2> QED BY <1>1, <1>2, <2>1
<1>5. CASE w.input # <<>> /\ ~s.paste /\ SbFind(y, SbStart) # {}
  <2> DEFINE a == SubSeq(y, 1, SbFirst(y, SbStart) - 1)
             z == SbFrom(y, SbFirst(y, SbStart) + Len(SbStart))
  <2>1. SbCall(w) = SbPasting(SbEntered(s, a), z)
    BY <1>5, CallCases
  <2>2. a \in SbLine /\ z \in SbLine
    <3>1. SbStart \in Seq(SbBytes) /\ Len(SbStart) = 4
      BY BytesAre DEF SbLine
    <3>2. SbStart \in Seq(SbBytes) /\ Len(SbStart) > 0
      BY <3>1
    <3> HIDE DEF y
    <3> QED BY <1>2, <1>5, <3>2, SplitAt DEF SbLine
  <2> HIDE DEF a, z
  <2>3. SbEntered(s, a) \in SbFields
    BY <1>2, <2>2, EnteredIs
  <2> QED BY <1>1, <2>1, <2>2, <2>3
<1>6. CASE w.input # <<>> /\ ~s.paste /\ SbFind(y, SbStart) = {}
  <2>1. SbCall(w) = SbPlain(s, y)
    BY <1>6, CallCases
  <2>2. SbPlain(s, y).state.buffer = SbOpen(y) /\ SbPlain(s, y).state.paste = s.paste
    BY <1>2, PlainIs
  <2>3. SbOpen(y) # <<>> => SbOpen(y)[1] = "E"
    BY <1>2, OpenIs
  <2> QED BY <1>6, <2>1, <2>2, <2>3 DEF SbWf
<1> QED BY <1>3, <1>4, <1>5, <1>6

LEMMA ProcessWf == \A w \in SbWorks : SbWf(w.state) => SbWf(SbDone(w))
<1> DEFINE A == {w \in SbWorks : SbWf(w.state) => SbWf(SbDone(w))}
<1>1. ASSUME NEW w \in SbWorks, w.input = <<>> PROVE w \in A
  BY <1>1, ProcessIs
<1>2. ASSUME NEW w \in SbWorks, w.input # <<>>, SbCall(w) \in A PROVE w \in A
  <2>1. SbWf(w.state) => SbWf(SbCall(w).state)
    BY CallWf
  <2>2. SbDone(SbCall(w)) = SbDone(w)
    BY ProcessIs
  <2> QED BY <1>2, <2>1, <2>2
<1>3. \A w \in SbWorks : w \in A
  <2> HIDE DEF A
  <2> QED BY <1>1, <1>2, ByCalls
<1> QED BY <1>3

(* What process() was given of a paste is held, or reported with what follows it left over. *)
LEMMA PastingOrder ==
    ASSUME NEW s \in SbFields, NEW t \in SbLine, SbLinked(s)
    PROVE  /\ SbTotal(SbPasting(s, t)) = Cat(SbTold(s.out), Cat(SbStart, t))
           /\ SbLinked(SbPasting(s, t).state)
<1> DEFINE told == SbTold(s.out)
           p == SbPasting(s, t)
<1>1. /\ told \in Seq(SbBytes) /\ SbStart \in Seq(SbBytes) /\ SbEnd \in Seq(SbBytes) /\ t \in Seq(SbBytes) /\ <<>> \in Seq(SbBytes)
      /\ Len(SbEnd) > 0
  <2>1. told \in SbLine
    BY HoldsIs
  <2>2. SbStart \in SbLine /\ SbEnd \in SbLine /\ Len(SbEnd) = 4
    BY BytesAre
  <2> QED BY <2>1, <2>2, EmptySeq DEF SbLine
<1>2. Cat(SbStart, t) \in Seq(SbBytes) /\ Cat(told, Cat(SbStart, t)) \in Seq(SbBytes)
  BY <1>1, CatType
<1>3. p \in SbWorks
  BY PastingIs
<1>4. CASE SbFind(t, SbEnd) = {}
  <2>1. p = [state |-> SbPasteGoesOn(s, t), input |-> <<>>]
    BY <1>4, PastingIs
  <2>2. p.input = <<>> /\ p.state.buffer = <<>> /\ p.state.paste = TRUE /\ p.state.pasted = t /\ p.state.key = s.key /\ p.state.out = s.out
    <3> DEFINE m == SbPasteGoesOn(s, t)
    <3>1. m.buffer = <<>> /\ m.paste = TRUE /\ m.pasted = t /\ m.key = s.key /\ m.out = s.out
      BY DEF SbPasteGoesOn, SbFields
    <3> HIDE DEF m
    <3>2. p.input = <<>> /\ p.state = m
      BY <2>1 DEF m
    <3> QED BY <3>1, <3>2
  <2> HIDE DEF p
  <2>3. SbWaits(p.state) = Cat(SbStart, t)
    BY <1>2, <2>2, CatEmpty DEF SbWaits
  <2>4. SbHolds(p.state) = Cat(told, Cat(SbStart, t))
    BY <2>2, <2>3 DEF SbHolds
  <2>5. SbTotal(p) = Cat(told, Cat(SbStart, t))
    BY <1>2, <2>2, <2>4, CatEmpty DEF SbTotal
  <2> QED BY <2>2, <2>5 DEF SbLinked, p
<1>5. CASE SbFind(t, SbEnd) # {}
  <2> DEFINE a == SubSeq(t, 1, SbFirst(t, SbEnd) - 1)
             z == SbFrom(t, SbFirst(t, SbEnd) + Len(SbEnd))
             e == [kind |-> "paste", text |-> a]
  <2>1. p = [state |-> SbPasteDone(s, t), input |-> z]
    BY <1>5, PastingIs
  <2>2. /\ p.input = z /\ p.state.buffer = <<>> /\ p.state.paste = FALSE /\ p.state.key = "none"
        /\ p.state.out = Append(s.out, e)
    <3> DEFINE m == SbPasteDone(s, t)
               o == Append(s.out, e)
    <3>1. m = [s EXCEPT !.buffer = <<>>, !.paste = FALSE, !.pasted = <<>>, !.key = "none", !.out = o]
      BY DEF SbPasteDone
    <3> HIDE DEF o, m
    <3>2. m.buffer = <<>> /\ m.paste = FALSE /\ m.key = "none" /\ m.out = o
      BY <3>1 DEF SbFields
    <3> HIDE DEF z, e
    <3>3. p.input = z /\ p.state = m
      BY <2>1 DEF m
    <3> HIDE DEF p
    <3> QED BY <3>2, <3>3 DEF o
  <2>3. a \in Seq(SbBytes) /\ z \in Seq(SbBytes) /\ t = Cat(a, Cat(SbEnd, z))
    <3>1. a \in Seq(SbBytes) /\ z \in Seq(SbBytes)
      BY <1>1, <1>5, SplitAt
    <3>2. t = Cat(a, Cat(SbEnd, z))
      BY <1>1, <1>5, SplitAt
    <3> QED BY <3>1, <3>2
  <2> HIDE DEF p, a, z
  <2>4. e \in SbEntry /\ SbText(e) = Cat(SbStart, Cat(a, SbEnd))
    BY <2>3, TextOf DEF SbLine
  <2> HIDE DEF e
  <2>5. SbTold(p.state.out) = Cat(told, Cat(SbStart, Cat(a, SbEnd)))
    <3>1. s.out \in Seq(SbEntry)
      BY DEF SbFields
    <3> QED BY <2>2, <2>4, <3>1, ToldIs
  <2>6. SbWaits(p.state) = <<>>
    BY <1>1, <2>2, CatEmpty DEF SbWaits
  <2>7. SbHolds(p.state) = Cat(told, Cat(SbStart, Cat(a, SbEnd)))
    <3>1. Cat(told, Cat(SbStart, Cat(a, SbEnd))) \in Seq(SbBytes)
      BY <1>1, <2>3, CatType
    <3> QED BY <2>5, <2>6, <3>1, CatEmpty DEF SbHolds
  <2>8. Cat(Cat(told, Cat(SbStart, Cat(a, SbEnd))), z) = Cat(told, Cat(SbStart, Cat(a, Cat(SbEnd, z))))
    <3>1. Cat(a, SbEnd) \in Seq(SbBytes) /\ Cat(SbStart, Cat(a, SbEnd)) \in Seq(SbBytes)
      BY <1>1, <2>3, CatType
    <3>2. Cat(Cat(a, SbEnd), z) = Cat(a, Cat(SbEnd, z))
      BY <1>1, <2>3, CatAssoc
    <3>3. Cat(Cat(SbStart, Cat(a, SbEnd)), z) = Cat(SbStart, Cat(Cat(a, SbEnd), z))
      BY <1>1, <2>3, <3>1, CatAssoc
    <3>4. Cat(Cat(told, Cat(SbStart, Cat(a, SbEnd))), z) = Cat(told, Cat(Cat(SbStart, Cat(a, SbEnd)), z))
      BY <1>1, <2>3, <3>1, CatAssoc
    <3> QED BY <3>2, <3>3, <3>4
  <2>9. SbTotal(p) = Cat(told, Cat(SbStart, t))
    BY <2>2, <2>3, <2>7, <2>8 DEF SbTotal
  <2>10. SbLinked(p.state)
    BY <2>2 DEF SbLinked
  <2> QED BY <2>9, <2>10 DEF p
<1> QED BY <1>4, <1>5

LEMMA CallOrder ==
    ASSUME NEW w \in SbWorks, SbWf(w.state), SbLinked(w.state), ~SbTwice(SbTotal(w)), ~SbCall(w).state.cut
    PROVE  SbTotal(SbCall(w)) = SbTotal(w) /\ SbLinked(SbCall(w).state)
<1> DEFINE s == w.state
           y == SbTextOf(w)
           told == SbTold(s.out)
           c == SbCall(w)
<1>1. /\ s \in SbFields /\ y \in SbLine /\ w.input \in SbLine /\ Cat(s.pasted, y) \in SbLine
      /\ s.buffer \in SbLine /\ s.pasted \in SbLine /\ c \in SbWorks
  BY CallCases, CallIs
<1>2. /\ told \in Seq(SbBytes) /\ SbStart \in Seq(SbBytes) /\ Len(SbStart) > 0 /\ y \in Seq(SbBytes) /\ w.input \in Seq(SbBytes)
      /\ s.buffer \in Seq(SbBytes) /\ s.pasted \in Seq(SbBytes)
  <2>1. told \in SbLine
    BY <1>1, HoldsIs
  <2>2. SbStart \in SbLine /\ Len(SbStart) = 4
    BY BytesAre
  <2> QED BY <1>1, <2>1, <2>2 DEF SbLine
<1>3. CASE w.input = <<>>
  BY <1>3, CallCases
<1>4. CASE w.input # <<>> /\ s.paste
  <2>1. c = SbPasting(s, Cat(s.pasted, y))
    BY <1>4, CallCases
  <2>2. s.buffer = <<>> /\ y = w.input
    <3>1. s.buffer = <<>>
      BY <1>4 DEF SbWf
    <3> QED BY <1>2, <3>1, CatEmpty DEF SbTextOf
  <2>3. SbTotal(c) = Cat(told, Cat(SbStart, Cat(s.pasted, y))) /\ SbLinked(c.state)
    <3> HIDE DEF y, s, c
    <3>1. SbLinked(s)
      BY DEF s
    <3> QED BY <1>1, <2>1, <3>1, PastingOrder
  <2>4. SbTotal(w) = Cat(told, Cat(SbStart, Cat(s.pasted, y)))
    <3>1. Cat(SbStart, s.pasted) \in Seq(SbBytes)
      BY <1>2, CatType
    <3>2. SbWaits(s) = Cat(SbStart, s.pasted)
      BY <1>4, <2>2, <3>1, CatEmpty DEF SbWaits
    <3>3. SbTotal(w) = Cat(Cat(told, Cat(SbStart, s.pasted)), w.input)
      BY <3>2 DEF SbTotal, SbHolds
    <3>4. Cat(Cat(told, Cat(SbStart, s.pasted)), w.input) = Cat(told, Cat(Cat(SbStart, s.pasted), w.input))
      BY <1>2, <3>1, CatAssoc
    <3>5. Cat(Cat(SbStart, s.pasted), w.input) = Cat(SbStart, Cat(s.pasted, w.input))
      BY <1>2, CatAssoc
    <3> QED BY <2>2, <3>3, <3>4, <3>5
  <2> QED BY <2>3, <2>4
<1>5. ~s.paste => SbTotal(w) = Cat(told, y)
  <2> SUFFICES ASSUME ~s.paste PROVE SbTotal(w) = Cat(told, y)
    OBVIOUS
  <2>1. SbWaits(s) = s.buffer
    BY <1>2, CatEmpty DEF SbWaits
  <2>2. SbTotal(w) = Cat(Cat(told, s.buffer), w.input)
    BY <2>1 DEF SbTotal, SbHolds
  <2> QED BY <1>2, <2>2, CatAssoc DEF SbTextOf
<1>6. CASE w.input # <<>> /\ ~s.paste /\ SbFind(y, SbStart) # {}
  <2> DEFINE a == SubSeq(y, 1, SbFirst(y, SbStart) - 1)
             z == SbFrom(y, SbFirst(y, SbStart) + Len(SbStart))
             x == SbEntered(s, a)
  <2>1. c = SbPasting(x, z)
    BY <1>6, CallCases
  <2> HIDE DEF y
  <2>2. a \in Seq(SbBytes) /\ z \in Seq(SbBytes) /\ y = Cat(a, Cat(SbStart, z))
    <3>1. a \in Seq(SbBytes) /\ z \in Seq(SbBytes)
      BY <1>2, <1>6, SplitAt
    <3>2. y = Cat(a, Cat(SbStart, z))
      BY <1>2, <1>6, SplitAt
    <3> QED BY <3>1, <3>2
  <2>3. a \in SbLine /\ z \in SbLine
    BY <2>2 DEF SbLine
  <2> HIDE DEF a, z, c
  <2>4. x \in SbFields /\ x.cut = (s.cut \/ SbOpen(a) # <<>>) /\ x.key = "none" /\ x.out = SbGiven(s, a).out
    BY <1>1, <2>3, EnteredIs
  <2> HIDE DEF x
  <2>5. SbOpen(a) = <<>>
    <3>1. c.state.cut = x.cut
      BY <2>1, <2>3, <2>4, PastingIs
    <3>2. ~c.state.cut
      BY DEF c
    <3> QED BY <2>4, <3>1, <3>2
  <2>6. Cat(told, y) = Cat(Cat(told, a), Cat(SbStart, z)) /\ Cat(SbStart, z) \in SbLine /\ Cat(told, a) \in SbLine
    <3>1. Cat(SbStart, z) \in Seq(SbBytes)
      BY <1>2, <2>2, CatType
    <3> QED BY <1>2, <2>2, <3>1, CatAssoc, CatType DEF SbLine
  <2>7. ~SbTwice(Cat(told, a))
    <3>1. ~SbTwice(Cat(told, y))
      BY <1>5, <1>6
    <3> QED BY <2>6, <3>1, TwiceIn
  <2>8. SbTold(x.out) = Cat(told, a)
    <3> DEFINE g == SbGiven(s, a)
    <3>1. SbLinked(s)
      OBVIOUS
    <3>2. Cat(SbTold(g.out), SbOpen(a)) = Cat(told, a)
      <4> HIDE DEF s
      <4> QED BY <1>1, <2>3, <2>7, <3>1, GivenOrder
    <3>3. g \in SbFields
      <4> HIDE DEF s
      <4> QED BY <1>1, <2>3, GivenIs
    <3>4. SbTold(g.out) \in Seq(SbBytes)
      <4> HIDE DEF g
      <4> QED BY <3>3, HoldsIs DEF SbLine
    <3> QED BY <2>4, <2>5, <3>2, <3>4, CatEmpty
  <2>9. SbTotal(c) = Cat(SbTold(x.out), Cat(SbStart, z)) /\ SbLinked(c.state)
    <3>1. SbLinked(x)
      BY <2>4 DEF SbLinked
    <3> QED BY <2>1, <2>3, <2>4, <3>1, PastingOrder
  <2>10. SbTotal(c) = SbTotal(w)
    BY <1>5, <1>6, <2>6, <2>8, <2>9
  <2> QED BY <2>9, <2>10 DEF c
<1>7. CASE w.input # <<>> /\ ~s.paste /\ SbFind(y, SbStart) = {}
  <2> DEFINE g == SbGiven(s, y)
  <2>1. c = SbPlain(s, y)
    BY <1>7, CallCases
  <2>2. ~SbTwice(Cat(told, y))
    BY <1>5, <1>7
  <2>3. SbLinked(s)
    OBVIOUS
  <2> HIDE DEF c, y, s
  <2>4. /\ c.input = <<>> /\ c.state.buffer = SbOpen(y) /\ c.state.paste = s.paste /\ c.state.key = g.key /\ c.state.out = g.out
    BY <1>1, <2>1, PlainIs
  <2>5. Cat(SbTold(g.out), SbOpen(y)) = Cat(told, y)
    BY <1>1, <2>2, <2>3, GivenOrder
  <2>6. SbLinked(g)
    BY <1>1, <2>2, <2>3, GivenOrder
  <2>7. SbOpen(y) \in Seq(SbBytes) /\ Cat(told, y) \in Seq(SbBytes)
    <3>1. SbOpen(y) \in SbLine
      BY <1>1, GivenIs
    <3> QED BY <1>2, <3>1, CatType DEF SbLine
  <2> HIDE DEF g
  <2>8. SbWaits(c.state) = SbOpen(y)
    BY <1>7, <2>4, <2>7, CatEmpty DEF SbWaits
  <2>9. SbHolds(c.state) = Cat(told, y)
    BY <2>4, <2>5, <2>8 DEF SbHolds
  <2>10. SbTotal(c) = Cat(told, y)
    BY <2>4, <2>7, <2>9, CatEmpty DEF SbTotal
  <2>11. SbTotal(c) = SbTotal(w)
    BY <1>5, <1>7, <2>10
  <2>12. SbLinked(c.state)
    BY <2>4, <2>6 DEF SbLinked
  <2> QED BY <2>11, <2>12 DEF c
<1> QED BY <1>3, <1>4, <1>6, <1>7

(* As long as nothing is lost, process() keeps what was reported and what is pending the input so far. *)
SbOrderly(w) == SbWf(w.state) /\ SbLinked(w.state) /\ ~SbTwice(SbTotal(w)) /\ ~SbDone(w).cut

LEMMA ProcessOrder == \A w \in SbWorks : SbOrderly(w) => SbHolds(SbDone(w)) = SbTotal(w) /\ SbLinked(SbDone(w))
<1> DEFINE A == {w \in SbWorks : SbOrderly(w) => SbHolds(SbDone(w)) = SbTotal(w) /\ SbLinked(SbDone(w))}
<1>1. ASSUME NEW w \in SbWorks, w.input = <<>> PROVE w \in A
  <2>1. SbDone(w) = w.state
    BY <1>1, ProcessIs
  <2>2. SbHolds(w.state) \in Seq(SbBytes)
    <3>1. w.state \in SbFields
      BY DEF SbWorks
    <3> QED BY <3>1, HoldsIs DEF SbLine
  <2>3. SbTotal(w) = SbHolds(w.state)
    BY <1>1, <2>2, CatEmpty DEF SbTotal
  <2> QED BY <2>1, <2>3 DEF SbOrderly
<1>2. ASSUME NEW w \in SbWorks, w.input # <<>>, SbCall(w) \in A PROVE w \in A
  <2> DEFINE c == SbCall(w)
  <2>1. SbDone(c) = SbDone(w)
    BY ProcessIs
  <2> SUFFICES ASSUME SbOrderly(w) PROVE SbHolds(SbDone(w)) = SbTotal(w) /\ SbLinked(SbDone(w))
    OBVIOUS
  <2>2. SbWf(w.state) /\ SbLinked(w.state) /\ ~SbTwice(SbTotal(w)) /\ ~SbDone(w).cut
    BY DEF SbOrderly
  <2>3. c \in SbWorks /\ (SbOrderly(c) => SbHolds(SbDone(c)) = SbTotal(c) /\ SbLinked(SbDone(c)))
    BY <1>2
  <2> HIDE DEF A
  <2>4. ~c.state.cut
    <3> HIDE DEF c
    <3> QED BY <2>1, <2>2, <2>3, CutKept
  <2>5. SbWf(c.state)
    BY <2>2, CallWf
  <2>6. SbTotal(c) = SbTotal(w) /\ SbLinked(c.state)
    BY <2>2, <2>4, CallOrder
  <2>7. SbOrderly(c)
    BY <2>1, <2>2, <2>5, <2>6 DEF SbOrderly
  <2> QED BY <2>1, <2>3, <2>6, <2>7
<1>3. \A w \in SbWorks : w \in A
  <2> HIDE DEF A
  <2> QED BY <1>1, <1>2, ByCalls
<1> QED BY <1>3

-----------------------------------------------------------------------------
(* The state after a part of the input is what one call with that part gives, and what was
   reported and is pending is that part. *)
SbRead(t) == SbProcess(SbEmpty, t)
SbTyped ==
    /\ sbStream \in SbStreams /\ sbAt \in 0 .. Len(sbStream) /\ sbState \in SbFields
    /\ sbTimer \in BOOLEAN /\ sbFlushed \in BOOLEAN
SbAsOne == ~sbFlushed /\ ~SbRead(sbStream).cut => sbState = SbRead(Pre(sbStream, sbAt))
SbOrdered == ~sbState.cut /\ ~SbTwice(sbStream) => SbHolds(sbState) = Pre(sbStream, sbAt) /\ SbLinked(sbState)
SbInv == SbTyped /\ SbWf(sbState) /\ SbAsOne /\ SbOrdered

LEMMA EmptyIs ==
    /\ SbEmpty \in SbFields /\ ~SbEmpty.cut /\ SbWf(SbEmpty) /\ SbLinked(SbEmpty) /\ SbHolds(SbEmpty) = <<>>
    /\ \A t \in SbLine : SbThen(SbEmpty, t) \in SbWorks
<1>1. <<>> \in SbLine /\ <<>> \in Seq(SbEntry) /\ <<>> \in Seq(SbBytes)
  BY EmptySeq DEF SbLine
<1>2. SbEmpty \in SbFields /\ ~SbEmpty.cut
  BY <1>1 DEF SbEmpty, SbFields
<1>3. SbEmpty.buffer = <<>> /\ SbEmpty.paste = FALSE /\ SbEmpty.key = "none" /\ SbEmpty.out = <<>>
  BY DEF SbEmpty
<1>4. SbWf(SbEmpty) /\ SbLinked(SbEmpty)
  BY <1>3 DEF SbWf, SbLinked
<1>5. SbHolds(SbEmpty) = <<>>
  <2>1. SbTold(SbEmpty.out) = <<>>
    BY <1>3, ToldIs
  <2>2. SbWaits(SbEmpty) = <<>>
    BY <1>1, <1>3, CatEmpty DEF SbWaits
  <2> QED BY <1>1, <2>1, <2>2, CatEmpty DEF SbHolds
<1>6. ASSUME NEW t \in SbLine PROVE SbThen(SbEmpty, t) \in SbWorks
  BY <1>2 DEF SbThen, SbWorks
<1> QED BY <1>2, <1>4, <1>5, <1>6

(* How a call on a part goes on when the whole loses nothing. *)
LEMMA ReadOn ==
    ASSUME NEW t \in SbLine, NEW v \in SbLine, v # <<>>, ~SbRead(Cat(t, v)).cut
    PROVE  ~SbRead(t).cut /\ SbRead(Cat(t, v)) = SbProcess(SbRead(t), v)
<1> DEFINE w == SbThen(SbEmpty, t)
<1>1. w \in SbWorks /\ w.state = SbEmpty /\ w.input = t
  BY EmptyIs DEF SbThen
<1>2. SbDone(w) = SbRead(t)
  BY DEF SbDone, SbRead, SbThen
<1>3. SbDone(SbMore(w, v)) = SbRead(Cat(t, v))
  BY DEF SbDone, SbRead, SbThen, SbMore
<1> HIDE DEF w
<1>4. SbDone(SbMore(w, v)) = SbDone(SbThen(SbDone(w), v))
  BY <1>1, <1>3, ProcessOn
<1>5. SbDone(SbThen(SbDone(w), v)) = SbProcess(SbRead(t), v)
  BY <1>2 DEF SbDone, SbThen
<1>6. ~SbRead(t).cut
  <2>1. SbDone(w) \in SbFields
    BY <1>1, ProcessIs
  <2> DEFINE z == SbThen(SbDone(w), v)
  <2>2. z \in SbWorks /\ z.state = SbRead(t)
    BY <1>2, <2>1 DEF SbWorks, SbThen
  <2>3. ~SbDone(z).cut
    BY <1>3, <1>4
  <2> HIDE DEF z
  <2> QED BY <2>2, <2>3, CutKept
<1> QED BY <1>3, <1>4, <1>5, <1>6

(* The part of the input a chunk adds to. *)
LEMMA PartIs ==
    ASSUME SbTyped, NEW n \in 0 .. Len(sbStream), sbAt <= n
    PROVE  /\ sbStream \in SbLine /\ Len(sbStream) \in Nat /\ Pre(sbStream, sbAt) \in SbLine
           /\ SubSeq(sbStream, sbAt + 1, n) \in SbLine
           /\ sbAt < n => SubSeq(sbStream, sbAt + 1, n) # <<>>
           /\ Pre(sbStream, n) = Cat(Pre(sbStream, sbAt), SubSeq(sbStream, sbAt + 1, n))
           /\ Pre(sbStream, n) \in SbLine /\ Post(sbStream, n) \in SbLine /\ sbStream = Cat(Pre(sbStream, n), Post(sbStream, n))
<1>1. sbStream \in Seq(SbBytes) /\ Len(sbStream) \in Nat /\ sbAt \in 0 .. Len(sbStream)
  BY SbAssumption, LenProperties DEF SbTyped
<1>2. /\ Pre(sbStream, n) \in Seq(SbBytes) /\ Len(Pre(sbStream, n)) = n
      /\ Post(sbStream, n) \in Seq(SbBytes) /\ Cat(Pre(sbStream, n), Post(sbStream, n)) = sbStream
  BY <1>1, SidesMake
<1> DEFINE t == Pre(sbStream, n)
           v == SubSeq(sbStream, sbAt + 1, n)
           k == sbAt
<1>3. k \in 0 .. Len(t) /\ n \in Nat /\ n <= Len(sbStream)
  BY <1>1, <1>2
<1>4. Pre(sbStream, k) = Pre(t, k)
  <2>1. \A i \in 1 .. k : t[i] = sbStream[i]
    <3>1. \A i \in 1 .. n : t[i] = sbStream[i]
      BY <1>1, <1>3 DEF Pre
    <3> QED BY <1>1, <1>3, <3>1
  <2>2. /\ Pre(sbStream, k) \in Seq(SbBytes) /\ Len(Pre(sbStream, k)) = k /\ Pre(t, k) \in Seq(SbBytes) /\ Len(Pre(t, k)) = k
    <3> HIDE DEF t
    <3> QED BY <1>1, <1>2, <1>3, SidesMake DEF t
  <2>3. \A i \in 1 .. k : Pre(sbStream, k)[i] = sbStream[i] /\ Pre(t, k)[i] = t[i]
    <3> HIDE DEF t
    <3> QED BY <1>1, <1>2, <1>3 DEF Pre
  <2> HIDE DEF t
  <2>4. \A i \in 1 .. Len(Pre(t, k)) : Pre(sbStream, k)[i] = Pre(t, k)[i]
    BY <2>1, <2>2, <2>3
  <2> QED BY <2>2, <2>4, SeqEqual
<1>5. v = Post(t, k)
  <2>1. v \in Seq(SbBytes) /\ Len(v) = n - k /\ \A i \in 1 .. n - k : v[i] = sbStream[k + i]
    BY <1>1, <1>3, SubSeqProperties
  <2>2. Post(t, k) \in Seq(SbBytes) /\ Len(Post(t, k)) = n - k
    <3> HIDE DEF t
    <3> QED BY <1>2, <1>3, SidesMake DEF t
  <2>3. \A i \in 1 .. n - k : Post(t, k)[i] = t[k + i]
    <3> HIDE DEF t
    <3> QED BY <1>2, <1>3 DEF Post, t
  <2>4. \A i \in 1 .. n - k : t[k + i] = sbStream[k + i]
    <3>1. \A i \in 1 .. n : t[i] = sbStream[i]
      BY <1>1, <1>3 DEF Pre
    <3>2. \A i \in 1 .. n - k : k + i \in 1 .. n
      BY <1>1, <1>3
    <3> QED BY <3>1, <3>2
  <2> HIDE DEF v, t
  <2>5. \A i \in 1 .. Len(v) : v[i] = Post(t, k)[i]
    BY <2>1, <2>3, <2>4
  <2> QED BY <2>1, <2>2, <2>5, SeqEqual
<1>6. Pre(t, k) \in Seq(SbBytes) /\ Post(t, k) \in Seq(SbBytes) /\ Cat(Pre(t, k), Post(t, k)) = t /\ Len(Post(t, k)) = n - k
  <2> HIDE DEF t
  <2> QED BY <1>2, <1>3, SidesMake DEF t
<1>7. k < n => v # <<>>
  <2>1. Len(v) = n - k
    BY <1>5, <1>6
  <2> HIDE DEF v
  <2> QED BY <1>1, <1>3, <2>1, EmptySeq
<1> QED BY <1>1, <1>2, <1>4, <1>5, <1>6, <1>7 DEF SbLine

LEMMA SbChunkKeeps ==
    ASSUME SbInv, NEW n \in 1 .. Len(sbStream), SbChunk(n)
    PROVE  SbInv'
<1> DEFINE k == sbAt + n
           v == SubSeq(sbStream, sbAt + 1, k)
           t == Pre(sbStream, sbAt)
           w == SbThen(sbState, v)
<1>1. /\ k <= Len(sbStream) /\ sbAt' = k /\ sbState' = SbProcess(sbState, v) /\ sbTimer' = (sbState'.buffer # <<>>)
      /\ UNCHANGED <<sbStream, sbFlushed>>
  BY DEF SbChunk, SbRearmed
<1>2. SbTyped /\ SbWf(sbState) /\ SbAsOne /\ SbOrdered
  BY DEF SbInv
<1>3. k \in 0 .. Len(sbStream) /\ sbAt <= k /\ sbAt < k /\ Len(sbStream) \in Nat
  <2>1. Len(sbStream) \in Nat /\ sbAt \in 0 .. Len(sbStream)
    BY <1>2, SbAssumption, LenProperties DEF SbTyped
  <2> QED BY <1>1, <2>1
<1> HIDE DEF k
<1>4. /\ t \in SbLine /\ v \in SbLine /\ v # <<>> /\ Pre(sbStream, k) = Cat(t, v) /\ Pre(sbStream, k) \in SbLine
      /\ Post(sbStream, k) \in SbLine /\ sbStream = Cat(Pre(sbStream, k), Post(sbStream, k))
  BY <1>2, <1>3, PartIs
<1> HIDE DEF t, v
<1>5. w \in SbWorks /\ w.state = sbState /\ w.input = v /\ SbDone(w) = SbProcess(sbState, v)
  BY <1>2, <1>4 DEF SbThen, SbWorks, SbTyped, SbDone
<1> HIDE DEF w
<1>6. SbTyped'
  <2>1. sbState' \in SbFields
    BY <1>1, <1>5, ProcessIs
  <2>2. sbTimer' \in BOOLEAN /\ sbFlushed' \in BOOLEAN /\ sbStream' \in SbStreams /\ sbAt' \in 0 .. Len(sbStream')
    BY <1>1, <1>2, <1>3 DEF SbTyped
  <2> QED BY <2>1, <2>2 DEF SbTyped
<1>7. SbWf(sbState)'
  BY <1>1, <1>2, <1>5, ProcessWf
<1>8. SbAsOne'
  <2> SUFFICES ASSUME ~sbFlushed, ~SbRead(sbStream).cut PROVE SbProcess(sbState, v) = SbRead(Cat(t, v))
    BY <1>1, <1>4 DEF SbAsOne
  <2>1. ~SbRead(Cat(t, v)).cut
    <3> DEFINE p == Post(sbStream, k)
    <3>1. Cat(t, v) \in SbLine /\ p \in SbLine /\ sbStream = Cat(Cat(t, v), p)
      BY <1>4
    <3> HIDE DEF p
    <3>2. CASE p = <<>>
      <4>1. Cat(Cat(t, v), p) = Cat(t, v)
        BY <3>1, <3>2, CatEmpty DEF SbLine
      <4> QED BY <3>1, <4>1
    <3>3. CASE p # <<>>
      BY <3>1, <3>3, ReadOn
    <3> QED BY <3>2, <3>3
  <2>2. SbRead(Cat(t, v)) = SbProcess(SbRead(t), v)
    BY <1>4, <2>1, ReadOn
  <2>3. sbState = SbRead(t)
    BY <1>2 DEF SbAsOne, t
  <2> QED BY <2>2, <2>3
<1>9. SbOrdered'
  <2> SUFFICES ASSUME ~SbDone(w).cut, ~SbTwice(sbStream)
               PROVE  SbHolds(SbDone(w)) = Cat(t, v) /\ SbLinked(SbDone(w))
    BY <1>1, <1>4, <1>5 DEF SbOrdered
  <2>1. ~sbState.cut
    BY <1>5, CutKept
  <2>2. SbHolds(sbState) = t /\ SbLinked(sbState)
    BY <1>2, <2>1 DEF SbOrdered, t
  <2>3. SbTotal(w) = Cat(t, v)
    BY <1>5, <2>2 DEF SbTotal
  <2>4. ~SbTwice(Cat(t, v))
    BY <1>4, TwiceIn
  <2>5. SbOrderly(w)
    BY <1>2, <1>5, <2>2, <2>3, <2>4 DEF SbOrderly
  <2> QED BY <1>5, <2>3, <2>5, ProcessOrder
<1> QED BY <1>6, <1>7, <1>8, <1>9 DEF SbInv

LEMMA SbTimeoutKeeps == ASSUME SbInv, SbTimeout PROVE SbInv'
<1> DEFINE s == sbState
           x == [s EXCEPT !.buffer = <<>>, !.key = "none"]
           q == s.buffer
           m == SbEmit(x, q)
<1>1. sbTimer' = FALSE /\ sbFlushed' = TRUE /\ sbState' = m /\ UNCHANGED <<sbStream, sbAt>>
  BY DEF SbTimeout
<1>2. SbTyped /\ SbWf(s) /\ SbOrdered
  BY DEF SbInv
<1>3. s \in SbFields /\ q \in SbLine /\ q \in Seq(SbBytes) /\ s.pasted \in Seq(SbBytes)
  BY <1>2 DEF SbTyped, SbFields, SbLine
<1>4. x \in SbFields /\ x.buffer = <<>> /\ x.key = "none" /\ x.out = s.out /\ x.paste = s.paste /\ x.pasted = s.pasted /\ x.cut = s.cut
  <2>1. <<>> \in SbLine
    BY EmptySeq DEF SbLine
  <2> QED BY <1>3, <2>1 DEF SbFields
<1> HIDE DEF q, s, x
<1>5. m \in SbFields /\ m.buffer = <<>> /\ m.paste = s.paste /\ m.pasted = s.pasted /\ m.cut = s.cut
  BY <1>3, <1>4, EmitIs
<1>6. SbTyped'
  BY <1>1, <1>2, <1>5 DEF SbTyped
<1> HIDE DEF m
<1>7. SbWf(sbState)'
  BY <1>1, <1>5 DEF SbWf
<1>8. SbAsOne'
  BY <1>1 DEF SbAsOne
<1>9. SbOrdered'
  <2> SUFFICES ASSUME ~m.cut, ~SbTwice(sbStream) PROVE SbHolds(m) = Pre(sbStream, sbAt) /\ SbLinked(m)
    BY <1>1 DEF SbOrdered
  <2> DEFINE had == SbTold(s.out)
             left == IF s.paste THEN Cat(SbStart, s.pasted) ELSE <<>>
  <2>1. SbHolds(s) = Pre(sbStream, sbAt)
    BY <1>2, <1>5 DEF SbOrdered, s
  <2>2. SbHolds(s) = Cat(had, Cat(q, left)) /\ SbHolds(m) = Cat(SbTold(m.out), Cat(<<>>, left))
    BY <1>5 DEF SbHolds, SbWaits, q
  <2>3. had \in Seq(SbBytes) /\ left \in Seq(SbBytes) /\ Cat(<<>>, left) = left
    <3>1. had \in Seq(SbBytes)
      BY <1>3, HoldsIs DEF SbLine
    <3>2. SbStart \in Seq(SbBytes) /\ <<>> \in Seq(SbBytes)
      BY BytesAre, EmptySeq DEF SbLine
    <3>3. Cat(SbStart, s.pasted) \in Seq(SbBytes)
      BY <1>3, <3>2, CatType
    <3>4. left \in Seq(SbBytes)
      BY <3>2, <3>3
    <3> HIDE DEF left
    <3> QED BY <3>1, <3>4, CatEmpty
  <2> HIDE DEF had, left
  <2>4. Cat(had, Cat(q, left)) = Cat(Cat(had, q), left) /\ Cat(had, q) \in SbLine /\ left \in SbLine
    BY <1>3, <2>3, CatAssoc, CatType DEF SbLine
  <2>5. ~SbTwice(Cat(had, q))
    <3>1. Pre(sbStream, sbAt) \in SbLine /\ Post(sbStream, sbAt) \in SbLine /\ sbStream = Cat(Pre(sbStream, sbAt), Post(sbStream, sbAt))
      <4>1. sbAt \in 0 .. Len(sbStream) /\ sbAt <= sbAt
        <5>1. sbStream \in Seq(SbBytes) /\ sbAt \in 0 .. Len(sbStream)
          BY <1>2, SbAssumption DEF SbTyped
        <5>2. Len(sbStream) \in Nat
          BY <5>1, LenProperties
        <5> QED BY <5>1, <5>2
      <4> QED BY <1>2, <4>1, PartIs
    <3>2. ~SbTwice(Pre(sbStream, sbAt))
      BY <3>1, TwiceIn
    <3>3. ~SbTwice(Cat(Cat(had, q), left))
      BY <2>1, <2>2, <2>4, <3>2
    <3> QED BY <2>4, <3>3, TwiceIn
  <2>6. SbLinked(x)
    BY <1>4 DEF SbLinked
  <2>7. SbTold(m.out) = Cat(had, q) /\ SbLinked(m)
    <3>1. ~SbTwice(Cat(SbTold(x.out), q))
      BY <1>4, <2>5 DEF had
    <3> QED BY <1>3, <1>4, <2>6, <3>1, EmitOrder DEF m, had
  <2> QED BY <2>1, <2>2, <2>3, <2>4, <2>7
<1> QED BY <1>6, <1>7, <1>8, <1>9 DEF SbInv

LEMMA SbNextKeeps == SbInv /\ [SbNext]_sbVars => SbInv'
<1> SUFFICES ASSUME SbInv, [SbNext]_sbVars PROVE SbInv'
  OBVIOUS
<1>1. CASE SbTimeout
  BY <1>1, SbTimeoutKeeps
<1>2. ASSUME NEW n \in 1 .. Len(sbStream), SbChunk(n) PROVE SbInv'
  BY <1>2, SbChunkKeeps
<1>3. CASE UNCHANGED sbVars
  BY <1>3 DEF sbVars, SbInv, SbTyped, SbAsOne, SbOrdered
<1> QED BY <1>1, <1>2, <1>3 DEF SbNext

LEMMA SbInitIs == SbInit => SbInv
<1> SUFFICES ASSUME SbInit PROVE SbInv
  OBVIOUS
<1>1. sbStream \in SbStreams /\ sbAt = 0 /\ sbState = SbEmpty /\ sbTimer = FALSE /\ sbFlushed = FALSE
  BY DEF SbInit
<1>2. sbStream \in Seq(SbBytes) /\ Len(sbStream) \in Nat
  BY <1>1, SbAssumption, LenProperties
<1>3. Pre(sbStream, sbAt) = <<>>
  BY <1>1, <1>2, Beginnings
<1>4. SbTyped
  <2>1. sbAt \in 0 .. Len(sbStream)
    BY <1>1, <1>2
  <2> QED BY <1>1, <2>1, EmptyIs DEF SbTyped
<1>5. SbRead(<<>>) = SbEmpty
  <2>1. <<>> \in SbLine
    BY EmptySeq DEF SbLine
  <2> DEFINE w == SbThen(SbEmpty, <<>>)
  <2>2. w \in SbWorks /\ w.input = <<>> /\ w.state = SbEmpty /\ SbDone(w) = SbRead(<<>>)
    BY <2>1, EmptyIs DEF SbThen, SbDone, SbRead
  <2> HIDE DEF w
  <2> QED BY <2>2, ProcessIs
<1>6. SbAsOne /\ SbOrdered /\ SbWf(sbState)
  BY <1>1, <1>3, <1>5, EmptyIs DEF SbAsOne, SbOrdered
<1> QED BY <1>4, <1>6 DEF SbInv

LEMMA SbInvIsWhole == SbInv => InputWhole
<1> SUFFICES ASSUME SbInv PROVE InputWhole
  OBVIOUS
<1>1. SbTyped /\ SbWf(sbState) /\ SbAsOne /\ SbOrdered
  BY DEF SbInv
<1>2. SbTypeOK
  <2>1. sbState.key \in {"none", "a"} /\ sbState.paste \in BOOLEAN
    BY <1>1 DEF SbTyped, SbFields
  <2>2. sbState.buffer # <<>> => sbState.buffer[1] = "E" /\ ~sbState.paste
    BY <1>1 DEF SbWf
  <2> QED BY <1>1, <2>1, <2>2 DEF SbTyped, SbTypeOK
<1>3. sbAt \in 0 .. Len(sbStream) /\ Len(sbStream) \in Nat /\ sbStream \in Seq(SbBytes)
  BY <1>1, SbAssumption, LenProperties DEF SbTyped
<1>4. ChunkingIrrelevant
  <2> SUFFICES ASSUME ~sbFlushed, ~SbRead(sbStream).cut
               PROVE  (IF sbAt = Len(sbStream) THEN sbState ELSE SbProcess(sbState, SbFrom(sbStream, sbAt + 1))) = SbRead(sbStream)
    BY DEF ChunkingIrrelevant, SbRead
  <2>1. sbState = SbRead(Pre(sbStream, sbAt))
    BY <1>1 DEF SbAsOne
  <2>2. CASE sbAt = Len(sbStream)
    <3>1. Pre(sbStream, Len(sbStream)) = sbStream
      BY <1>3, Beginnings
    <3> QED BY <2>1, <2>2, <3>1
  <2>3. CASE sbAt # Len(sbStream)
    <3> DEFINE n == Len(sbStream)
               t == Pre(sbStream, sbAt)
               v == SubSeq(sbStream, sbAt + 1, n)
    <3>1. n \in 0 .. Len(sbStream) /\ sbAt <= n /\ sbAt < n
      BY <1>3, <2>3
    <3>2. t \in SbLine /\ v \in SbLine /\ v # <<>> /\ Pre(sbStream, n) = Cat(t, v)
      <4> HIDE DEF n
      <4> QED BY <1>1, <3>1, PartIs
    <3>3. Pre(sbStream, n) = sbStream
      BY <1>3, Beginnings
    <3>4. SbFrom(sbStream, sbAt + 1) = v
      BY DEF SbFrom
    <3> HIDE DEF t, v, n
    <3>5. SbRead(Cat(t, v)) = SbProcess(SbRead(t), v)
      BY <3>2, <3>3, ReadOn
    <3>6. SbProcess(sbState, v) = SbRead(sbStream)
      BY <2>1, <3>2, <3>3, <3>5 DEF t
    <3> QED BY <2>3, <3>4, <3>6
  <2> QED BY <2>2, <2>3
<1>5. InputInOrder
  <2> SUFFICES ASSUME ~sbState.cut, ~SbTwice(sbStream)
               PROVE  FlattenSeq([i \in 1 .. Len(sbState.out) |-> SbText(sbState.out[i])]) \o SbPending = SubSeq(sbStream, 1, sbAt)
    BY DEF InputInOrder
  <2>1. SbHolds(sbState) = Pre(sbStream, sbAt)
    BY <1>1 DEF SbOrdered
  <2>2. SbHolds(sbState) = FlattenSeq([i \in 1 .. Len(sbState.out) |-> SbText(sbState.out[i])]) \o SbPending
    BY DEF SbHolds, SbTold, SbTexts, SbWaits, SbPending, Cat
  <2> QED BY <2>1, <2>2 DEF Pre
<1> QED BY <1>2, <1>4, <1>5 DEF InputWhole

(* However the terminal's bytes are cut into chunks and whenever the timer runs out, for every
   stream: as long as it has not run out the chunks give what one call with all of it would
   give, and what was reported and is pending is the input so far.           *)
THEOREM InputIsWhole == SbSpec => []InputWhole
<1>1. SbInit => SbInv
  BY SbInitIs
<1>2. SbInv /\ [SbNext]_sbVars => SbInv'
  BY SbNextKeeps
<1>3. SbInv => InputWhole
  BY SbInvIsWhole
<1> QED BY <1>1, <1>2, <1>3, PTL DEF SbSpec
=============================================================================
