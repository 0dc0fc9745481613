-------------------------- MODULE ArgumentsRepair --------------------------
(***************************************************************************)
(* RepairSyntheticArguments (internal/synthetic/repair.go): the content of *)
(* the arguments of a transport call, valid JSON or not.                   *)
(*                                                                         *)
(* The text is a sequence of symbols, one per class of bytes that this     *)
(* code and the incremental decoder tell apart:                            *)
(*     "open" "close"  the braces        ":" ","  themselves               *)
(*     "q"  the double quote                                               *)
(*     "\\"  the backslash               "s"  a space   "NL" a newline     *)
(*     "content"   the key of the schema, "text" one of the other keys     *)
(*                 that are known (answer, response, ...), "other" any     *)
(*                 other word                                              *)
(*     "fence"     three backticks                                         *)
(*     "a", "n"    plain characters; after a backslash n is the newline    *)
(*     "u"         after a backslash, the start of a unicode escape        *)
(*     "X" "H" "L" its four digits: a plain character, a high and a low    *)
(*                 surrogate                                               *)
(*     "r1" "r2"   the two bytes of a multi-byte character                 *)
(* The decoded text has "U+X", "U+HL" (a pair) and "U+FFFD" besides.       *)
(* Arrays are left out, as is the limit on the length, which is also that  *)
(* of the response the arguments are part of.                              *)
(***************************************************************************)
EXTENDS Integers, Sequences, SequencesExt

White == {"s", "NL"}

Rest(w, i) == SubSeq(w, i, Len(w))

Blank(w) == \A i \in DOMAIN w : w[i] \in White

FirstOf(S) == CHOOSE i \in S : \A j \in S : i <= j

LastOf(S) == CHOOSE i \in S : \A j \in S : j <= i

TrimLeft(w) == IF Blank(w) THEN <<>> ELSE Rest(w, FirstOf({i \in DOMAIN w : w[i] \notin White}))

TrimRight(w, cutset) ==
    LET kept == {i \in DOMAIN w : w[i] \notin cutset}
    IN  IF kept = {} THEN <<>> ELSE SubSeq(w, 1, LastOf(kept))

TrimSpace(w) == TrimRight(TrimLeft(w), White)

StartsWith(w, s) == w # <<>> /\ w[1] = s

Undecoded == [ok |-> FALSE, content |-> <<>>]

Decoded(w) == [ok |-> TRUE, content |-> w]

-----------------------------------------------------------------------------
(* encoding/json on a string literal without its quotes: no bare quote, no *)
(* control character, complete escapes; a surrogate without its partner    *)
(* and a truncated character are replaced by U+FFFD.                       *)
UnquoteStep(st, s) ==
    LET to(mode, out) == [mode |-> mode, out |-> out, high |-> FALSE]
        within(mode) == [mode |-> mode, out |-> st.out, high |-> st.high]
    IN  CASE st.mode = "plain" /\ s = "\\" -> within("escaped")
          [] st.mode = "plain" /\ s \notin {"\\", "q", "NL"} -> to("plain", Append(st.out, s))
          [] st.mode = "escaped" /\ s \in {"q", "\\"} -> to("plain", Append(st.out, s))
          [] st.mode = "escaped" /\ s = "n" -> to("plain", Append(st.out, "NL"))
          [] st.mode = "escaped" /\ s = "u" -> within("unicode")
          [] st.mode = "unicode" /\ s = "X" -> to("plain", Append(st.out, "U+X"))
          [] st.mode = "unicode" /\ s = "H" ->
                [mode |-> "plain", out |-> Append(st.out, "U+FFFD"), high |-> TRUE]
          [] st.mode = "unicode" /\ s = "L" ->
                to("plain", IF st.high THEN Append(Front(st.out), "U+HL")
                            ELSE Append(st.out, "U+FFFD"))
          [] OTHER -> to("invalid", <<>>)

(* The state after the first i symbols. *)
Unquoting(w) ==
    LET st[i \in 0..Len(w)] ==
            IF i = 0 THEN [mode |-> "plain", out |-> <<>>, high |-> FALSE]
            ELSE UnquoteStep(st[i - 1], w[i])
    IN  st

Unquote(w) ==
    LET end == Unquoting(w)[Len(w)]
        out == IF end.out # <<>> /\ Last(end.out) = "r1" THEN Append(Front(end.out), "U+FFFD")
               ELSE end.out
    IN  IF end.mode = "plain" THEN Decoded(out) ELSE Undecoded

(* json.Unmarshal into a struct with the one field Content *string, which  *)
(* must be there afterwards: an object with that key and a string.         *)
StringValue(w) ==
    IF Len(w) >= 2 /\ w[1] = "q" /\ Last(w) = "q" THEN Unquote(SubSeq(w, 2, Len(w) - 1))
    ELSE Undecoded

Value(w) == IF StartsWith(w, ":") THEN StringValue(TrimLeft(Tail(w))) ELSE Undecoded

Member(w) ==
    IF Len(w) > 3 /\ SubSeq(w, 1, 3) = <<"q", "content", "q">> THEN Value(TrimLeft(Rest(w, 4)))
    ELSE Undecoded

Object(w) ==
    IF Len(w) >= 2 /\ w[1] = "open" /\ Last(w) = "close"
    THEN Member(TrimSpace(SubSeq(w, 2, Len(w) - 1)))
    ELSE Undecoded

Unmarshal(w) == Object(TrimSpace(w))

OrElse(first, second) == IF first.ok THEN first ELSE second

-----------------------------------------------------------------------------
StripMarkdownCodeFences(w) ==
    IF ~StartsWith(w, "fence") THEN w
    ELSE LET newlines == {i \in DOMAIN w : w[i] = "NL"}
             opened == IF newlines = {} THEN Tail(w) ELSE Rest(w, FirstOf(newlines) + 1)
             fences == {i \in DOMAIN opened : opened[i] = "fence"}
         IN  TrimSpace(IF fences = {} THEN opened ELSE SubSeq(opened, 1, LastOf(fences) - 1))

(* One symbol of the scan for open strings and braces. *)
StructuralStep(st, s) ==
    LET put(w, inString, escaped, openBraces) ==
            [out |-> st.out \o w, inString |-> inString, escaped |-> escaped,
             openBraces |-> openBraces]
        inside(w, escaped) == put(w, TRUE, escaped, st.openBraces)
        outside(openBraces) == put(<<s>>, FALSE, FALSE, openBraces)
    IN  IF st.inString THEN
            CASE st.escaped -> inside(<<s>>, FALSE)
              [] ~st.escaped /\ s = "\\" -> inside(<<s>>, TRUE)
              [] ~st.escaped /\ s = "q" -> outside(st.openBraces)
              [] ~st.escaped /\ s = "NL" -> inside(<<"\\", "n">>, FALSE)
              [] OTHER -> inside(<<s>>, FALSE)
        ELSE CASE s = "q" -> inside(<<s>>, FALSE)
               [] s = "open" -> outside(st.openBraces + 1)
               [] s = "close" -> IF st.openBraces = 0 THEN st ELSE outside(st.openBraces - 1)
               [] OTHER -> outside(st.openBraces)

(* The state after the first i symbols. *)
Structuring(w) ==
    LET st[i \in 0..Len(w)] ==
            IF i = 0 THEN [out |-> <<>>, inString |-> FALSE, escaped |-> FALSE, openBraces |-> 0]
            ELSE StructuralStep(st[i - 1], w[i])
    IN  st

(* From the first brace on, control characters in a string are escaped, an *)
(* open string is closed, a trailing comma removed, and braces balanced.   *)
AttemptStructuralRepair(w) ==
    LET braces == {i \in DOMAIN w : w[i] = "open"}
        object == Rest(w, FirstOf(braces))
        end == Structuring(object)[Len(object)]
        closed == IF end.inString THEN Append(end.out, "q") ELSE end.out
    IN  IF braces = {} THEN w
        ELSE TrimRight(closed, White \cup {","}) \o [i \in 1..end.openBraces |-> "close"]

-----------------------------------------------------------------------------
(* Mutant: the first quote ends the string, whatever follows. *)
ClosingFirst(w, i) == TRUE

(* A quote ends the string if nothing, a brace or a comma follows.         *)
Closing(w, i) ==
    LET rest == TrimLeft(Rest(w, i + 1))
    IN  rest = <<>> \/ rest[1] \in {"close", ","}

(* One symbol of a string literal whose opening quote was removed; each    *)
(* unicode escape stands for itself.                                       *)
ScanStep(w, st, i) ==
    LET s == w[i]
        put(out) == [mode |-> "plain", out |-> st.out \o out]
        within(mode) == [mode |-> mode, out |-> st.out]
    IN  CASE st.mode = "closed" -> st
          [] st.mode = "escaped" /\ s = "n" -> put(<<"NL">>)
          [] st.mode = "escaped" /\ s = "u" ->
                IF i < Len(w) /\ w[i + 1] \in {"X", "H", "L"} THEN within("unicode")
                ELSE put(<<"\\", "u">>)
          [] st.mode = "escaped" /\ s \notin {"n", "u"} -> put(<<s>>)
          [] st.mode = "unicode" -> put(IF s = "X" THEN <<"U+X">> ELSE <<"U+FFFD">>)
          [] st.mode = "plain" /\ s = "\\" -> within("escaped")
          [] st.mode = "plain" /\ s = "q" ->
                IF Closing(w, i) THEN within("closed") ELSE put(<<"q">>)
          [] OTHER -> put(<<s>>)

(* The state after the first i symbols. *)
Scanning(w) ==
    LET st[i \in 0..Len(w)] ==
            IF i = 0 THEN [mode |-> "plain", out |-> <<>>] ELSE ScanStep(w, st[i - 1], i)
    IN  st

Scan(w) == Scanning(w)[Len(w)]

(* Mutant: a string that is not closed is no value. *)
ScanKeyClosed(w, key) ==
    LET found == {i \in 1..(Len(w) - 2) : SubSeq(w, i, i + 2) = <<"q", key, "q">>}
        after == Rest(w, FirstOf(found) + 3)
        colons == {i \in DOMAIN after : after[i] = ":"}
        value == TrimSpace(Rest(after, FirstOf(colons) + 1))
        end == Scan(Tail(value))
    IN  IF found = {} \/ colons = {} THEN Undecoded
        ELSE IF ~StartsWith(value, "q") \/ end.mode # "closed" THEN Undecoded
        ELSE Decoded(end.out)

(* The value after the first occurrence of the key in quotes, if any.      *)
ScanKey(w, key) ==
    LET found == {i \in 1..(Len(w) - 2) : SubSeq(w, i, i + 2) = <<"q", key, "q">>}
        after == Rest(w, FirstOf(found) + 3)
        colons == {i \in DOMAIN after : after[i] = ":"}
        value == TrimSpace(Rest(after, FirstOf(colons) + 1))
        end == Scan(Tail(value))
    IN  IF found = {} \/ colons = {} THEN Undecoded
        ELSE IF ~StartsWith(value, "q") THEN Undecoded
        ELSE IF end.mode = "closed" \/ end.out # <<>> THEN Decoded(end.out)
        ELSE Undecoded

ScanAndExtractContent(w) == OrElse(ScanKey(w, "content"), ScanKey(w, "text"))

-----------------------------------------------------------------------------
(* The stages, each tried when the one before it found nothing.            *)
RepairCleaned(w) ==
    OrElse(Unmarshal(w), OrElse(Unmarshal(AttemptStructuralRepair(w)), ScanAndExtractContent(w)))

RepairSyntheticArguments(w) ==
    OrElse(Unmarshal(w), RepairCleaned(StripMarkdownCodeFences(TrimSpace(w))))

=============================================================================
