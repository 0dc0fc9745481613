--------------------------- MODULE TransportText ---------------------------
(***************************************************************************)
(* What the model may write as the arguments of a transport call, in the   *)
(* symbols of ArgumentsRepair, and what it means: the reference for        *)
(* ArgumentsRepair and StreamDecoder.                                      *)
(***************************************************************************)
EXTENDS ArgumentsRepair, FiniteSets

(* The JSON text of a string, and the characters it stands for.  An item   *)
(* is a character or one of its escaped forms; the raw ones are not valid  *)
(* JSON, but models write them.                                            *)
Source == [a     |-> <<"a">>,
           n     |-> <<"n">>,
           space |-> <<"s">>,
           brace |-> <<"close">>,
           fence |-> <<"fence">>,
           rune  |-> <<"r1", "r2">>,
           rawNewline |-> <<"NL">>,
           rawQuote  |-> <<"q">>,
           newline   |-> <<"\\", "n">>,
           quote     |-> <<"\\", "q">>,
           backslash |-> <<"\\", "\\">>,
           unicode   |-> <<"\\", "u", "X">>,
           pair      |-> <<"\\", "u", "H", "\\", "u", "L">>]

Meaning == [a     |-> <<"a">>,
            n     |-> <<"n">>,
            space |-> <<"s">>,
            brace |-> <<"close">>,
            fence |-> <<"fence">>,
            rune  |-> <<"r1", "r2">>,
            rawNewline |-> <<"NL">>,
            rawQuote  |-> <<"q">>,
            newline   |-> <<"NL">>,
            quote     |-> <<"q">>,
            backslash |-> <<"\\">>,
            unicode   |-> <<"U+X">>,
            pair      |-> <<"U+HL">>]

Flat(f, body) == FlattenSeq([i \in DOMAIN body |-> f[body[i]]])

(* White space is allowed at these places.                                 *)
Places == {"afterKey", "afterColon", "beforeBrace"}

Space(gap, place) == IF gap[place] THEN <<"s">> ELSE <<>>

Opening(key, gap) ==
    <<"open", "q", key, "q">> \o Space(gap, "afterKey") \o <<":">> \o Space(gap, "afterColon")
        \o <<"q">>

Closed(gap) == <<"q">> \o Space(gap, "beforeBrace") \o <<"close">>

Json(key, gap, body) == Opening(key, gap) \o Flat(Source, body) \o Closed(gap)

(* What surrounds the object, or stands before its last brace.             *)
Before == [plain |-> <<>>, comma |-> <<>>, prose |-> <<"other", "s">>,
           fenced |-> <<"fence", "other", "NL">>]

After == [plain |-> <<>>, comma |-> <<>>, prose |-> <<>>, fenced |-> <<"NL", "fence">>]

Text(key, gap, body, dress) ==
    LET opening == Before[dress] \o Opening(key, gap)
        close == IF dress = "comma" THEN <<"q", ",", "close">> ELSE Closed(gap)
    IN  [raw |-> opening \o Flat(Source, body) \o close \o After[dress],
         body |-> body, start |-> Len(opening), key |-> key, dress |-> dress]

(* The items of a body whose text is complete in the first n symbols, and  *)
(* how many symbols there are of the next one.                             *)
ItemsIn(body, start, n) ==
    Cardinality({k \in DOMAIN body : start + Len(Flat(Source, SubSeq(body, 1, k))) <= n})

CutItem(body, start, n) ==
    LET k == ItemsIn(body, start, n)
    IN  IF k = Len(body) \/ n < start THEN 0
        ELSE n - start - Len(Flat(Source, SubSeq(body, 1, k)))

-----------------------------------------------------------------------------
(* What must come back of a writing [text, cut]: the first `cut` symbols   *)
(* of a text.  A raw quote is text unless what follows it looks like the   *)
(* end.                                                                    *)
Ambiguous(body) ==
    \E i \in DOMAIN body : body[i] = "rawQuote" /\
        (i = Len(body) \/ body[i + 1] \in {"space", "rawNewline", "brace"})

IsWriting(w) ==
    /\ w.text.body \in Seq(DOMAIN Source) /\ ~Ambiguous(w.text.body)
    /\ \E key \in {"content", "text", "other"}, gap \in [Places -> BOOLEAN], dress \in DOMAIN Before :
          w.text = Text(key, gap, w.text.body, dress)
    /\ w.cut \in 0..Len(w.text.raw)

(* The items of a writing that came complete.                              *)
Arrived(w) == SubSeq(w.text.body, 1, ItemsIn(w.text.body, w.text.start, w.cut))

CutOff(w) == w.cut <= w.text.start + Len(Flat(Source, w.text.body))

(* Those of them that the client must get.  Not so white space at the end  *)
(* of a text that was cut off, and a bare quote there, which is taken for  *)
(* the closing one.  If a fenced text was cut before its closing fence, a  *)
(* fence within it is taken for that (repair.go:90).                       *)
Owed(w) ==
    LET fences == {i \in DOMAIN Arrived(w) : Arrived(w)[i] = "fence"}
    IN  IF w.text.dress = "fenced" /\ w.cut < Len(w.text.raw) /\ fences # {}
        THEN TrimRight(SubSeq(Arrived(w), 1, LastOf(fences) - 1),
                       {"space", "rawNewline", "rawQuote"})
        ELSE TrimRight(Arrived(w), IF CutOff(w) THEN {"space", "rawNewline", "rawQuote"} ELSE {})

(* A scan of the text for the string does not join surrogate pairs         *)
(* (repair.go:234): that is what becomes of a key other than "content", of *)
(* what is not valid JSON, and of a text cut off within an escape.         *)
Scanned(w) ==
    \/ w.text.key # "content" \/ w.text.dress = "comma"
    \/ "rawQuote" \in Range(w.text.body)
    \/ CutItem(w.text.body, w.text.start, w.cut) > 0

Meanings(w) ==
    {Meaning} \cup IF Scanned(w) THEN {[Meaning EXCEPT !["pair"] = <<"U+FFFD", "U+FFFD">>]} ELSE {}

(* The text has all that the client must get of a writing, and nothing     *)
(* but what came complete and then, of an escape or character that was cut *)
(* in two, at most what came of it.                                        *)
Carries(text, w) ==
    \E m \in Meanings(w) :
        LET all == Flat(m, Arrived(w))
        IN  /\ IsPrefix(Flat(m, Owed(w)), text)
            /\ \/ IsPrefix(text, all)
               \/ /\ IsPrefix(all, text)
                  /\ Len(text) - Len(all) <= CutItem(w.text.body, w.text.start, w.cut)

=============================================================================
