--------------------------- MODULE StreamDecoder ---------------------------
(***************************************************************************)
(* The incremental decoder of the synthetic call's arguments:              *)
(* internal/synthetic/stream_decoder.go, IncrementalJSONStringDecoder.     *)
(*                                                                         *)
(* The model's arguments are a JSON object with one string, in the symbols *)
(* of ArgumentsRepair; the upstream cuts its text into chunks anywhere, and *)
(* may end it anywhere.  Text that is not such an object (raw or fenced    *)
(* text) is not fed; the limit of 500 bytes on the key is left out.        *)
(***************************************************************************)
EXTENDS ArgumentsRepair, TransportText

CONSTANTS
    Bodies,  \* the strings to send, each a sequence of items (see Source)
    Keys,    \* subset of {"content", "text", "other"}
    Gaps     \* white space allowed, a set of functions from Places to BOOLEAN

ASSUME KeysAssumption == Keys \subseteq {"content", "text", "other"}
ASSUME GapsAssumption == Gaps \subseteq [Places -> BOOLEAN]

-----------------------------------------------------------------------------
Document(key, gap, body) ==
    [text |-> Json(key, gap, body), body |-> body, start |-> Len(Opening(key, gap))]

(* Without white space after it, an unknown key is found by the text q:. *)
Documents ==
    {Document(k, g, b) : k \in Keys \ {"other"}, g \in Gaps, b \in Bodies}
        \cup {Document(k, g, b) : k \in Keys \cap {"other"}, g \in {g \in Gaps : ~g["afterKey"]},
                                  b \in Bodies}

-----------------------------------------------------------------------------
(* The decoder.                                                            *)

New == [state |-> "Init", key |-> <<>>, pending |-> <<>>, pendingQuote |-> FALSE,
        high |-> FALSE, contentEmitted |-> FALSE, out |-> <<>>]

BraceFirst(w) == StartsWith(TrimLeft(w), "close")

Emit(d, s) == [d EXCEPT !.out = Append(@, s)]

(* A symbol of the object before the string; consumed unless it is the     *)
(* start of the string itself.                                             *)
LookingForKey(d, s) ==
    LET key == Append(d.key, s)
        n == Len(key)
    IN  IF s = "q" /\ n >= 3 /\ key[n - 1] \in {"content", "text"} /\ key[n - 2] = "q"
        THEN [d EXCEPT !.state = "LookingForColon", !.key = <<>>]
        ELSE IF s = ":" /\ n >= 2 /\ key[n - 1] = "q"
        THEN [d EXCEPT !.state = "LookingForQuote", !.key = <<>>]
        ELSE [d EXCEPT !.key = key]

(* Mutant: the two halves of a surrogate pair are decoded separately. *)
EscapeHalves(d, w, i) ==
    IF w[i + 1] = "u"
    THEN [len |-> 3, d |-> Emit(d, IF w[i + 2] = "X" THEN "U+X" ELSE "U+FFFD")]
    ELSE [len |-> 2, d |-> Emit(d, IF w[i + 1] = "n" THEN "NL" ELSE w[i + 1])]

(* One escape at w[i], all of it present: the decoder and its length.      *)
Escape(d, w, i) ==
    LET next == w[i + 1]
    IN  CASE next = "q"  -> [d |-> Emit(d, "q"), len |-> 2]
          [] next = "\\" -> [d |-> Emit(d, "\\"), len |-> 2]
          [] next = "n"  -> [d |-> Emit(d, "NL"), len |-> 2]
          [] next = "u"  ->
                [len |-> 3,
                 d |-> CASE w[i + 2] = "H" -> [d EXCEPT !.high = TRUE]
                         [] w[i + 2] = "L" /\ d.high -> [Emit(d, "U+HL") EXCEPT !.high = FALSE]
                         [] w[i + 2] = "L" /\ ~d.high -> Emit(d, "U+FFFD")
                         [] OTHER -> Emit(d, "U+X")]
          [] OTHER -> [d |-> Emit(Emit(d, "\\"), next), len |-> 2]

Complete(w, i) ==
    CASE w[i] = "\\" -> i < Len(w) /\ (w[i + 1] = "u" => i + 2 <= Len(w))
      [] w[i] = "r1" -> i < Len(w)
      [] OTHER -> TRUE

(* The string at position i of w: the decoder after some symbols, and how  *)
(* many; all the rest if it holds them back or takes them for the end.     *)
StringFrom(d, w, i) ==
    LET rest == Len(w) - i + 1
    IN  CASE ~Complete(w, i) -> [d |-> [d EXCEPT !.pending = Rest(w, i)], len |-> rest]
          [] Complete(w, i) /\ w[i] = "\\" -> Escape(d, w, i)
          [] Complete(w, i) /\ w[i] = "r1" -> [d |-> Emit(Emit(d, "r1"), w[i + 1]), len |-> 2]
          [] w[i] = "q" /\ i = Len(w) -> [d |-> [d EXCEPT !.pendingQuote = TRUE], len |-> 1]
          [] w[i] = "q" /\ i < Len(w) /\ BraceFirst(Rest(w, i + 1)) ->
                [d |-> [d EXCEPT !.state = "Completed"], len |-> rest]
          [] OTHER -> [d |-> Emit(d, w[i]), len |-> 1]

(* A quote at the end of the last chunk was the closing one, or text.      *)
InString(e, w, i) ==
    LET d == [e EXCEPT !.state = "InString"]
        after == Rest(w, i)
    IN  IF ~d.pendingQuote THEN StringFrom(d, w, i)
        ELSE IF BraceFirst(after) \/ Blank(after)
        THEN [d |-> [d EXCEPT !.pendingQuote = FALSE, !.state = "Completed"], len |-> Len(after)]
        ELSE StringFrom(Emit([d EXCEPT !.pendingQuote = FALSE], "q"), w, i)

One(d) == [d |-> d, len |-> 1]

(* One round of the loop of Feed, at position i of the chunk w.            *)
Round(d, w, i) ==
    CASE d.state = "Init" /\ w[i] = "open" -> One([d EXCEPT !.state = "LookingForKey"])
      [] d.state = "Init" /\ w[i] = "q" ->
            One([d EXCEPT !.state = "LookingForKey", !.key = <<"q">>])
      [] d.state = "Init" /\ w[i] \in White \cup {"fence"} -> One(d)
      [] d.state = "LookingForKey" -> One(LookingForKey(d, w[i]))
      [] d.state \in {"LookingForColon", "LookingForQuote"} /\ w[i] \in White -> One(d)
      [] d.state = "LookingForColon" /\ w[i] = ":" -> One([d EXCEPT !.state = "LookingForQuote"])
      [] d.state \in {"LookingForColon", "LookingForQuote"} /\ w[i] = "q" ->
            One([d EXCEPT !.state = "InString"])
      [] d.state = "Completed" /\ TrimSpace(Rest(w, i)) \in {<<>>, <<"close">>, <<"close", ",">>} ->
            [d |-> d, len |-> Len(w) - i + 1]
      [] OTHER -> InString(d, w, i)

(* The loop: of the first i symbols of w, some at a time.                  *)
Worked(d, w) ==
    LET worked[i \in 0..Len(w)] ==
            IF i = 0 THEN [d |-> d, next |-> 1]
            ELSE LET r == worked[i - 1]
                     s == Round(r.d, w, i)
                 IN  IF r.next > i THEN r ELSE [d |-> s.d, next |-> i + s.len]
    IN  worked

(* What was held back of an escape or a character precedes the chunk.      *)
Feed(d, chunk) ==
    LET w == d.pending \o chunk
        e == Worked([d EXCEPT !.pending = <<>>], w)[Len(w)].d
    IN  [e EXCEPT !.contentEmitted = @ \/ e.out # d.out]

(* What was held back; but if nothing at all was delivered and the whole   *)
(* text can be repaired, that.                                             *)
Finish(d, raw) ==
    LET repaired == RepairSyntheticArguments(raw)
        held == (IF d.pendingQuote /\ ~d.contentEmitted THEN <<"q">> ELSE <<>>) \o d.pending
    IN  [d EXCEPT !.out = @ \o (IF ~d.contentEmitted /\ repaired.content # <<>>
                                THEN repaired.content ELSE held),
                  !.pending = <<>>,
                  !.pendingQuote = @ /\ d.contentEmitted]

-----------------------------------------------------------------------------
VARIABLES
    document,  \* what the model says
    pos,       \* how much of it was fed
    decoder,
    finished

vars == <<document, pos, decoder, finished>>

Init == document \in Documents /\ pos = 0 /\ decoder = New /\ finished = FALSE

(* The next chunk, of any length. *)
FeedChunk ==
    /\ ~finished
    /\ \E n \in (pos + 1)..Len(document.text) :
        /\ decoder' = Feed(decoder, SubSeq(document.text, pos + 1, n))
        /\ pos' = n
        /\ UNCHANGED <<document, finished>>

(* A finish reason, after the whole text or before. *)
FinishReason ==
    /\ ~finished
    /\ decoder' = Finish(decoder, SubSeq(document.text, 1, pos))
    /\ finished' = TRUE
    /\ UNCHANGED <<document, pos>>

Next == FeedChunk \/ FinishReason

Spec == Init /\ [][Next]_vars

-----------------------------------------------------------------------------
Received == SubSeq(document.body, 1, ItemsIn(document.body, document.start, pos))

(* At every moment the client has exactly the characters whose text was    *)
(* read to its end: nothing is held back without need, and nothing is      *)
(* delivered that would have to be taken back, wherever the chunks were    *)
(* cut ("validated chunks are flushed immediately").                       *)
DeliveredPromptly == ~finished => decoder.out = Flat(Meaning, Received)

(* All of it is delivered by the end, wherever the chunks were cut.  If    *)
(* the upstream ended the text early, all that came complete is delivered, *)
(* and of an escape or character that was cut in two at most what came of  *)
(* it.  One more character is delivered for the empty string that lacks    *)
(* its brace: the quote that was held back (stream_decoder.go:287).        *)
DeliveredInFull ==
    finished =>
        LET extra == Len(decoder.out) - Len(Flat(Meaning, Received))
            bareQuote == document.body = <<>> /\ pos = document.start + 1
        IN  /\ IsPrefix(Flat(Meaning, Received), decoder.out)
            /\ \/ extra <= CutItem(document.body, document.start, pos)
               \/ bareQuote /\ decoder.out = <<"q">>
=============================================================================
