----------------------------- MODULE StdinBuffer -----------------------------
(***************************************************************************)
(* StdinBuffer of packages/tui: terminal input arrives in chunks cut       *)
(* anywhere and is reported as whole sequences and whole pastes; what is   *)
(* left of a sequence is reported as it is when a timer runs out.          *)
(*                                                                         *)
(* Bytes are "E" (escape), "[", "]", "O", "P", "_", "<", "M", "~", "u",    *)
(* "\\", "^G" (bell), digits and letters.  The markers of a bracketed      *)
(* paste are shortened to E[2~ and E[1~, and E[9u is the key "a" in the    *)
(* Kitty protocol.                                                         *)
(***************************************************************************)
EXTENDS Integers, Sequences, SequencesExt

CONSTANTS
    SbBytes,    \* bytes
    SbStreams   \* what the terminal sends

ASSUME SbAssumption ==
    /\ SbStreams \subseteq Seq(SbBytes) /\ "none" \notin SbBytes
    /\ {"E", "[", "]", "O", "P", "_", "<", "M", "~", "u", "\\", "^G", "1", "2", "9", "a"} \subseteq SbBytes

VARIABLES
    sbStream, sbAt,   \* what it sends, and how much has arrived
    sbState,          \* [buffer, paste, pasted, key, out, cut]: the fields, what was reported, and history:
                      \* a paste began while a sequence was open, and what there was of that is lost
    sbTimer,          \* the timer runs
    sbFlushed         \* history: the timer has run out

sbVars == <<sbStream, sbAt, sbState, sbTimer, sbFlushed>>

SbStart == <<"E", "[", "2", "~">>
SbEnd == <<"E", "[", "1", "~">>
SbFrom(t, i) == SubSeq(t, i, Len(t))
SbEndsWith(t, end) == Len(t) >= Len(end) /\ SbFrom(t, Len(t) - Len(end) + 1) = end
SbFind(t, part) == {i \in 1 .. Len(t) - Len(part) + 1 : SubSeq(t, i, i + Len(part) - 1) = part}
SbFirst(t, part) == CHOOSE i \in SbFind(t, part) : \A j \in SbFind(t, part) : i <= j

SbDigits == {"1", "2", "9"}
SbFinal(b) == b \notin SbDigits \cup {"E", ";", "<", "^G"}   \* 0x40-0x7E

-----------------------------------------------------------------------------
(* isCompleteSequence() of a sequence that starts with an escape. *)
SbCompleteCsi(t) ==
    /\ Len(t) >= 3 /\ SbFinal(Last(t))
    /\ t[3] = "<" => Len(t) = 5 /\ t[4] \in SbDigits /\ t[5] = "M"   \* one coordinate stands for three

SbTerminated(t) == SbEndsWith(t, <<"E", "\\">>)
SbComplete(t) ==
    /\ Len(t) >= 2
    /\ CASE t[2] = "[" /\ Len(t) >= 3 /\ t[3] = "M" -> Len(t) >= 6
         [] t[2] = "[" /\ ~(Len(t) >= 3 /\ t[3] = "M") -> SbCompleteCsi(t)
         [] t[2] = "]" -> SbTerminated(t) \/ Last(t) = "^G"
         [] t[2] \in {"P", "_"} -> SbTerminated(t)
         [] t[2] = "O" -> Len(t) >= 3
         [] OTHER -> TRUE

(* extractCompleteSequences() *)
SbRemainder_Dropped(t) == <<>>
SbRemainder(t) == t
SbNothing == [sequences |-> <<>>, rest |-> <<>>]
SbTaken(a, b) ==
    LET rest == Append(a.rest, b)
    IN  IF rest[1] # "E" \/ SbComplete(rest) THEN [sequences |-> Append(a.sequences, rest), rest |-> <<>>]
        ELSE [a EXCEPT !.rest = rest]
SbExtract(t) ==
    LET taken[n \in 0 .. Len(t)] == IF n = 0 THEN SbNothing ELSE SbTaken(taken[n - 1], t[n])
    IN  taken[Len(t)]

(* emitDataSequence(): a key reported in the Kitty protocol may be sent again
   as the plain character; that one is left out.                           *)
SbKittyKey(sequence) == IF sequence = <<"E", "[", "9", "u">> THEN "a" ELSE "none"
SbData(t) == [kind |-> "data", text |-> t]
SbEmit(s, sequence) ==
    IF sequence = <<s.key>> THEN [s EXCEPT !.key = "none"]
    ELSE [s EXCEPT !.key = SbKittyKey(sequence), !.out = Append(@, SbData(sequence))]
SbEmitAll(s, sequences) ==
    LET emitted[n \in 0 .. Len(sequences)] == IF n = 0 THEN s ELSE SbEmit(emitted[n - 1], sequences[n])
    IN  emitted[Len(sequences)]

(* The text of a paste so far, with what follows it as the next input. *)
SbPasteDone(s, t) == [s EXCEPT !.buffer = <<>>, !.paste = FALSE, !.pasted = <<>>, !.key = "none",
                               !.out = Append(@, [kind |-> "paste", text |-> SubSeq(t, 1, SbFirst(t, SbEnd) - 1)])]
SbPasteGoesOn(s, t) == [s EXCEPT !.buffer = <<>>, !.paste = TRUE, !.pasted = t]
SbPasting(s, t) ==
    IF SbFind(t, SbEnd) = {} THEN [state |-> SbPasteGoesOn(s, t), input |-> <<>>]
    ELSE [state |-> SbPasteDone(s, t), input |-> SbFrom(t, SbFirst(t, SbEnd) + Len(SbEnd))]

(* process(), which calls itself for what follows a paste: once for every call. *)
SbPasteBegins(s, text) ==
    LET start == SbFirst(text, SbStart)
        before == SbExtract(SubSeq(text, 1, start - 1))
    IN  SbPasting([SbEmitAll(s, before.sequences) EXCEPT !.key = "none", !.cut = @ \/ before.rest # <<>>],
                  SbFrom(text, start + Len(SbStart)))
SbPlain(s, text) ==
    [state |-> SbEmitAll([s EXCEPT !.buffer = SbRemainder(SbExtract(text).rest)], SbExtract(text).sequences), input |-> <<>>]
SbCall(call) ==
    LET text == call.state.buffer \o call.input
    IN  CASE call.input = <<>> -> call
          [] call.input # <<>> /\ call.state.paste -> SbPasting(call.state, call.state.pasted \o text)
          [] call.input # <<>> /\ ~call.state.paste /\ SbFind(text, SbStart) # {} -> SbPasteBegins(call.state, text)
          [] OTHER -> SbPlain(call.state, text)
SbProcess(s, chunk) ==
    LET most == Len(s.pasted) + Len(s.buffer) + Len(chunk)
        calls[n \in 0 .. most] == IF n = 0 THEN [state |-> s, input |-> chunk] ELSE SbCall(calls[n - 1])
    IN  calls[most].state

-----------------------------------------------------------------------------
SbEmpty == [buffer |-> <<>>, paste |-> FALSE, pasted |-> <<>>, key |-> "none", out |-> <<>>, cut |-> FALSE]

SbInit ==
    /\ sbStream \in SbStreams /\ sbAt = 0
    /\ sbState = SbEmpty /\ sbTimer = FALSE /\ sbFlushed = FALSE

(* A chunk of n bytes arrives; the timer is set again if a sequence is begun. *)
SbRearmed_Once(buffer) == buffer # <<>> /\ ~sbTimer
SbRearmed(buffer) == buffer # <<>>

SbChunk(n) ==
    /\ sbAt + n <= Len(sbStream) /\ sbAt' = sbAt + n
    /\ sbState' = SbProcess(sbState, SubSeq(sbStream, sbAt + 1, sbAt + n))
    /\ sbTimer' = SbRearmed(sbState'.buffer)
    /\ UNCHANGED <<sbStream, sbFlushed>>

(* The timer runs out: flush(), and the listener gets what there was. *)
SbTimeout ==
    /\ sbTimer /\ sbTimer' = FALSE /\ sbFlushed' = TRUE
    /\ sbState' = SbEmit([sbState EXCEPT !.buffer = <<>>, !.key = "none"], sbState.buffer)
    /\ UNCHANGED <<sbStream, sbAt>>

SbNext == SbTimeout \/ \E n \in 1 .. Len(sbStream) : SbChunk(n)

SbFairness == WF_sbVars(SbTimeout)

SbSpec == SbInit /\ [][SbNext]_sbVars

-----------------------------------------------------------------------------
SbTypeOK ==
    /\ sbStream \in SbStreams /\ sbAt \in 0 .. Len(sbStream)
    /\ sbState.key \in {"none", "a"} /\ sbState.paste \in BOOLEAN
    /\ sbState.buffer # <<>> => sbState.buffer[1] = "E" /\ ~sbState.paste
    /\ sbTimer \in BOOLEAN /\ sbFlushed \in BOOLEAN

(* "Without buffering, partial sequences can be misinterpreted": as long as the
   timer has not run out, how the input is cut into chunks does not matter; what
   is reported in the end is what one chunk with all of it would have given,
   unless a paste begins in it while a sequence is open.                    *)
ChunkingIrrelevant ==
    ~sbFlushed /\ ~SbProcess(SbEmpty, sbStream).cut =>
        LET done == IF sbAt = Len(sbStream) THEN sbState ELSE SbProcess(sbState, SbFrom(sbStream, sbAt + 1))
        IN  done = SbProcess(SbEmpty, sbStream)

(* Nothing is lost, repeated or reordered, timer or not: what was reported and
   what is pending are the input so far, unless a Kitty key came twice or a paste
   began while a sequence was open.                                         *)
SbText(entry) == IF entry.kind = "paste" THEN SbStart \o entry.text \o SbEnd ELSE entry.text
SbPending == sbState.buffer \o (IF sbState.paste THEN SbStart \o sbState.pasted ELSE <<>>)
SbTwice(t) == \E i \in 1 .. Len(t) - 4 : SubSeq(t, i, i + 4) = <<"E", "[", "9", "u", "a">>
InputInOrder ==
    ~sbState.cut /\ ~SbTwice(sbStream) =>
        FlattenSeq([i \in 1 .. Len(sbState.out) |-> SbText(sbState.out[i])]) \o SbPending = SubSeq(sbStream, 1, sbAt)

(* A lone escape, or a sequence that is never finished, is reported in the end:
   the timer is always set again.                                          *)
PendingIsReported == sbState.buffer # <<>> ~> sbState.buffer = <<>>

(* However the terminal's bytes are cut into chunks, the same keys come out, whole and in order. *)
InputWhole == SbTypeOK /\ ChunkingIrrelevant /\ InputInOrder
=============================================================================
