-------------------------- MODULE TransportProofs ---------------------------
(***************************************************************************)
(* Theorems about the two ways back of Transport.                          *)
(*                                                                         *)
(* Of the incremental decoder, for every document of unambiguous items and *)
(* every division of it into chunks: after each chunk exactly the items    *)
(* read to their end are sent, and Finish sends what the repair of the     *)
(* whole text gives beyond them.                                           *)
(*                                                                         *)
(* Of Exchange, for all lists of messages, tools and configurations: the   *)
(* requests sent upstream end with a turn of the user, and what the client *)
(* sent is in them; of the answers, for all lists of choices and calls,    *)
(* the client gets the calls of its own tools, the text of the transport   *)
(* calls as far as it arrived, a finish reason that agrees with them, and  *)
(* an error only for a cause.                                              *)
(***************************************************************************)
EXTENDS Transport, RepairProofs

(* The items that are not ambiguous.                                       *)
ClearItems == Items \ {"rawQuote"}

(* A clear body is a body. *)
LEMMA ClearItemsAre ==
    ASSUME NEW body \in Seq(ClearItems)
    PROVE  body \in Seq(Items) /\ \A k \in 1..Len(body) : body[k] \in ClearItems
BY DEF ClearItems

-----------------------------------------------------------------------------
(* Where the text of the first k items of a document ends.                 *)
End(doc, k) == doc.start + Len(Flat(Source, SubSeq(doc.body, 1, k)))

Sent(doc, k) == Flat(Meaning, SubSeq(doc.body, 1, k))

(* The position of the colon.                                              *)
Colon(doc) == IF doc.text[5] = ":" THEN 5 ELSE 6

-----------------------------------------------------------------------------
(* What the text of a document has before its string, in it and after it.  *)
HasOpening(doc) ==
    /\ doc.start \in {Colon(doc) + 1, Colon(doc) + 2}
    /\ doc.text[1] = "open" /\ doc.text[2] = "q" /\ doc.text[4] = "q"
    /\ doc.text[3] \in {"content", "text", "other"} /\ (doc.text[3] = "other" => Colon(doc) = 5)
    /\ Colon(doc) = 6 => doc.text[5] = "s"
    /\ doc.text[Colon(doc)] = ":"
    /\ doc.start = Colon(doc) + 2 => doc.text[Colon(doc) + 1] = "s"
    /\ doc.text[doc.start] = "q"

HasString(doc) ==
    /\ doc.body \in Seq(ClearItems)
    /\ End(doc, 0) = doc.start
    /\ \A k \in 0..Len(doc.body) : End(doc, k) \in Nat
    /\ \A k \in 1..Len(doc.body) :
          /\ End(doc, k) = End(doc, k - 1) + Len(Source[doc.body[k]])
          /\ \A j \in 1..Len(Source[doc.body[k]]) :
                doc.text[End(doc, k - 1) + j] = Source[doc.body[k]][j]

HasEnding(doc) ==
    LET end == End(doc, Len(doc.body))
    IN  doc.text[end + 1] = "q" /\ doc.text[end + 2] = "close" /\ Len(doc.text) = end + 2

Layout(doc) ==
    /\ doc.text \in Seq(Symbols) /\ doc.start \in Nat /\ Colon(doc) \in {5, 6}
    /\ HasOpening(doc) /\ HasString(doc) /\ HasEnding(doc)

(* The layout of a document: its opening, its items one after the other, its close. *)
LEMMA DocumentLayout ==
    ASSUME Bodies \subseteq Seq(ClearItems), \A g \in Gaps : ~g["beforeBrace"],
           NEW doc \in Documents
    PROVE  Layout(doc)
<1>1. PICK key \in {"content", "text", "other"}, gap \in Gaps, body \in Bodies :
         doc = Document(key, gap, body) /\ (key = "other" => ~gap["afterKey"])
  BY KeysAssumption DEF Documents
<1>2. gap \in [Places -> BOOLEAN] /\ ~gap["beforeBrace"] /\ gap["afterKey"] \in BOOLEAN
  BY GapsAssumption DEF Places
<1>3. body \in Seq(ClearItems)
  OBVIOUS
<1> DEFINE o == Opening(key, gap)
           f == Flat(Source, SubSeq(body, 1, Len(body)))
           two == <<"q", "close">>
           c == IF gap["afterKey"] THEN 6 ELSE 5
           m == Len(body)
           front == o \o f
           text == front \o two
<1>4. c \in {5, 6} /\ (c = 6 <=> gap["afterKey"])
  BY <1>2
<1> HIDE DEF c
<1>5. doc.body = body /\ doc.start = Len(o) /\ doc.text = text
  <2>1. SubSeq(body, 1, Len(body)) = body
    BY <1>3
  <2>2. Closed(gap) = two
    BY <1>2, ClosedIs
  <2> QED
    BY <1>1, <2>1, <2>2 DEF Document, Json
<1>6. /\ o \in Seq(Symbols) /\ Len(o) \in {c + 1, c + 2}
      /\ o[1] = "open" /\ o[2] = "q" /\ o[3] = key /\ o[4] = "q"
      /\ c = 6 => o[5] = "s"
      /\ o[c] = ":" /\ (Len(o) = c + 2 => o[c + 1] = "s") /\ o[Len(o)] = "q"
  <2> HIDE DEF o
  <2>1. o = Opening(key, gap)
    BY DEF o
  <2>2. Opens(o, key, c)
    BY <1>2, <1>4, <2>1, OpeningIs
  <2> QED
    BY <2>2 DEF Opens
<1>7. f \in Seq(Symbols) /\ m \in Nat
  <2>1. m \in Nat /\ m \in 0..m
    BY <1>3
  <2> HIDE DEF m
  <2>2. \A k \in 0..m : Flat(Source, SubSeq(body, 1, k)) \in Seq(Symbols)
    BY <1>3, ClearItemsAre, FlatSource DEF m
  <2>3. Flat(Source, SubSeq(body, 1, m)) \in Seq(Symbols)
    BY <2>1, <2>2
  <2> QED
    BY <2>1, <2>3 DEF m
<1>8. two \in Seq(Symbols) /\ Len(two) = 2 /\ two[1] = "q" /\ two[2] = "close"
  BY DEF Symbols
<1> HIDE DEF o, f, two
<1>9. Joined(front, o, f)
  BY <1>6, <1>7, PutTogether
<1>10. front \in Seq(Symbols)
  BY <1>9 DEF Joined
<1> HIDE DEF front
<1>11. Joined(text, front, two)
  BY <1>8, <1>10, PutTogether
<1> HIDE DEF text
<1>12. Len(front) = Len(o) + Len(f) /\ Len(o) \in Nat /\ Len(f) \in Nat
  BY <1>9 DEF Joined
<1>13. /\ text \in Seq(Symbols)
       /\ \A i \in 1..Len(o) : text[i] = o[i]
       /\ \A i \in 1..Len(f) : text[Len(o) + i] = f[i]
       /\ Len(text) = Len(o) + Len(f) + 2
       /\ text[Len(o) + Len(f) + 1] = "q" /\ text[Len(o) + Len(f) + 2] = "close"
  BY <1>8, <1>9, <1>11, <1>12 DEF Joined
<1>14. Colon(doc) = c /\ HasOpening(doc)
  <2>1. /\ 1 \in 1..Len(o) /\ 2 \in 1..Len(o) /\ 3 \in 1..Len(o) /\ 4 \in 1..Len(o)
        /\ 5 \in 1..Len(o) /\ c \in 1..Len(o) /\ c + 1 \in 1..Len(o) /\ Len(o) \in 1..Len(o)
    BY <1>4, <1>6
  <2>2. c = 5 => text[5] = ":"
    BY <1>6, <1>13, <2>1
  <2>3. c = 6 => text[5] = "s"
    BY <1>6, <1>13, <2>1
  <2>4. Colon(doc) = c
    BY <1>4, <1>5, <2>2, <2>3 DEF Colon
  <2>5. key = "other" => c = 5
    BY <1>1, <1>4
  <2>6. text[3] = key /\ text[1] = "open" /\ text[2] = "q" /\ text[4] = "q" /\ text[c] = ":"
        /\ text[Len(o)] = "q"
    BY <1>6, <1>13, <2>1
  <2>7. Len(o) = c + 2 => text[c + 1] = "s"
    BY <1>6, <1>13, <2>1
  <2> QED
    BY <1>5, <1>6, <2>3, <2>4, <2>5, <2>6, <2>7 DEF HasOpening
<1>15. \A k \in 0..m : Flat(Source, SubSeq(body, 1, k)) \in Seq(Symbols)
  BY <1>3, ClearItemsAre, FlatSource
<1>16. HasString(doc)
  <2>1. End(doc, 0) = doc.start
    <3>1. Flat(Source, SubSeq(body, 1, 0)) = <<>>
      BY <1>3, ClearItemsAre, FlatSource
    <3> QED
      BY <1>5, <1>12, <3>1 DEF End
  <2>2. ASSUME NEW k \in 0..m PROVE End(doc, k) \in Nat
    BY <1>5, <1>12, <1>15 DEF End
  <2>3. ASSUME NEW k \in 1..m
        PROVE  /\ End(doc, k) = End(doc, k - 1) + Len(Source[body[k]])
               /\ \A j \in 1..Len(Source[body[k]]) :
                    text[End(doc, k - 1) + j] = Source[body[k]][j]
    <3> DEFINE before == Flat(Source, SubSeq(body, 1, k - 1))
               item == Source[body[k]]
               upto == Flat(Source, SubSeq(body, 1, k))
    <3>1. before \in Seq(Symbols) /\ upto \in Seq(Symbols) /\ item \in Seq(Symbols)
      <4>1. k - 1 \in 0..m /\ k \in 0..m /\ body[k] \in Items
        BY <1>3, <1>7, ClearItemsAre DEF ClearItems
      <4> QED
        BY <1>15, <4>1, TextsTyped
    <3>2. upto = before \o item
      BY <1>3, ClearItemsAre, FlatSource
    <3>3. End(doc, k) = Len(o) + Len(upto) /\ End(doc, k - 1) = Len(o) + Len(before)
      BY <1>5 DEF End
    <3>4. ASSUME NEW j \in 1..Len(item)
          PROVE  Len(before) + j <= Len(f) /\ f[Len(before) + j] = item[j]
      <4>1. m \in 0..m
        BY <1>7
      <4> QED
        BY <1>3, <4>1, ClearItemsAre, FlatPlaces DEF f
    <3> HIDE DEF before, item, upto
    <3>5. Len(upto) = Len(before) + Len(item) /\ Len(before) \in Nat /\ Len(item) \in Nat
      BY <3>1, <3>2
    <3>6. ASSUME NEW j \in 1..Len(item)
          PROVE  text[Len(o) + Len(before) + j] = item[j]
      <4>1. Len(before) + j \in 1..Len(f)
        BY <1>12, <3>4, <3>5
      <4>2. text[Len(o) + (Len(before) + j)] = f[Len(before) + j]
        BY <1>13, <4>1
      <4>3. Len(o) + (Len(before) + j) = Len(o) + Len(before) + j
        BY <1>12, <3>5
      <4> QED
        BY <3>4, <4>2, <4>3
    <3> QED
      BY <1>12, <3>3, <3>5, <3>6, SMTT(30) DEF item
  <2> QED
    BY <1>3, <1>5, <2>1, <2>2, <2>3 DEF HasString
<1>17. HasEnding(doc)
  BY <1>5, <1>13 DEF HasEnding, End, f
<1> QED
  BY <1>4, <1>5, <1>12, <1>13, <1>14, <1>16, <1>17 DEF Layout

-----------------------------------------------------------------------------
(* The decoder, and what it is at with nothing held back: before the       *)
(* string, or in it.                                                       *)
States == {"Init", "LookingForKey", "LookingForColon", "LookingForQuote", "InString", "Completed"}

Decoders ==
    [state : States, key : Seq(Symbols), pending : Seq(Symbols), pendingQuote : BOOLEAN,
     high : BOOLEAN, contentEmitted : BOOLEAN, out : Seq(Symbols)]

Waiting(d, state) ==
    /\ d \in Decoders
    /\ d.state = state /\ d.pending = <<>> /\ ~d.pendingQuote /\ ~d.high /\ d.out = <<>>

Inside(d) == d \in Decoders /\ d.state = "InString" /\ d.pending = <<>> /\ ~d.pendingQuote

(* The fields of a decoder. *)
LEMMA FieldTypes ==
    ASSUME NEW d \in Decoders
    PROVE  /\ d.state \in States /\ d.key \in Seq(Symbols) /\ d.pending \in Seq(Symbols)
           /\ d.pendingQuote \in BOOLEAN /\ d.high \in BOOLEAN /\ d.contentEmitted \in BOOLEAN
           /\ d.out \in Seq(Symbols)
BY DEF Decoders

(* A decoder in another state. *)
LEMMA WithState ==
    ASSUME NEW d \in Decoders, NEW x \in States, NEW e, e = [d EXCEPT !.state = x]
    PROVE  /\ e \in Decoders /\ e.state = x /\ e.key = d.key /\ e.pending = d.pending
           /\ e.pendingQuote = d.pendingQuote /\ e.high = d.high /\ e.out = d.out
BY DEF Decoders

(* A decoder that has read another part of a key. *)
LEMMA WithKey ==
    ASSUME NEW d \in Decoders, NEW x \in Seq(Symbols), NEW e, e = [d EXCEPT !.key = x]
    PROVE  /\ e \in Decoders /\ e.state = d.state /\ e.key = x /\ e.pending = d.pending
           /\ e.pendingQuote = d.pendingQuote /\ e.high = d.high /\ e.out = d.out
BY DEF Decoders

(* A decoder that holds other symbols back. *)
LEMMA WithPending ==
    ASSUME NEW d \in Decoders, NEW x \in Seq(Symbols), NEW e, e = [d EXCEPT !.pending = x]
    PROVE  /\ e \in Decoders /\ e.state = d.state /\ e.key = d.key /\ e.pending = x
           /\ e.pendingQuote = d.pendingQuote /\ e.high = d.high /\ e.out = d.out
BY DEF Decoders

(* A decoder that waits behind a quote, or no longer does. *)
LEMMA WithQuote ==
    ASSUME NEW d \in Decoders, NEW x \in BOOLEAN, NEW e, e = [d EXCEPT !.pendingQuote = x]
    PROVE  /\ e \in Decoders /\ e.state = d.state /\ e.key = d.key /\ e.pending = d.pending
           /\ e.pendingQuote = x /\ e.high = d.high /\ e.out = d.out
BY DEF Decoders

(* A decoder that waits for a low surrogate, or no longer does. *)
LEMMA WithHigh ==
    ASSUME NEW d \in Decoders, NEW x \in BOOLEAN, NEW e, e = [d EXCEPT !.high = x]
    PROVE  /\ e \in Decoders /\ e.state = d.state /\ e.key = d.key /\ e.pending = d.pending
           /\ e.pendingQuote = d.pendingQuote /\ e.high = x /\ e.out = d.out
BY DEF Decoders

(* A decoder that has sent something else. *)
LEMMA WithOut ==
    ASSUME NEW d \in Decoders, NEW x \in Seq(Symbols), NEW e, e = [d EXCEPT !.out = x]
    PROVE  /\ e \in Decoders /\ e.state = d.state /\ e.key = d.key /\ e.pending = d.pending
           /\ e.pendingQuote = d.pendingQuote /\ e.high = d.high /\ e.out = x
BY DEF Decoders

(* Emit sends one symbol more. *)
LEMMA Emitting ==
    ASSUME NEW d \in Decoders, NEW s \in Symbols, NEW e, e = Emit(d, s)
    PROVE  /\ e \in Decoders /\ e.state = d.state /\ e.key = d.key /\ e.pending = d.pending
           /\ e.pendingQuote = d.pendingQuote /\ e.high = d.high /\ e.out = Append(d.out, s)
<1> DEFINE x == Append(d.out, s)
<1>1. e = [d EXCEPT !.out = x]
  BY DEF Emit
<1>2. x \in Seq(Symbols)
  <2>1. d.out \in Seq(Symbols)
    BY FieldTypes
  <2> QED
    BY <2>1
<1> HIDE DEF x
<1>3. /\ e \in Decoders /\ e.state = d.state /\ e.key = d.key /\ e.pending = d.pending
      /\ e.pendingQuote = d.pendingQuote /\ e.high = d.high /\ e.out = x
  BY <1>1, <1>2, WithOut
<1> QED
  BY <1>3 DEF x

(* Rounds of the decoder. *)
LEMMA RoundInit ==
    ASSUME NEW d, NEW w, NEW i, d.state = "Init", w[i] = "open"
    PROVE  Round(d, w, i) = One([d EXCEPT !.state = "LookingForKey"])
BY DEF Round, White

(* A round that looks for the key. *)
LEMMA RoundKey ==
    ASSUME NEW d, NEW w, NEW i, NEW s, d.state = "LookingForKey", w[i] = s
    PROVE  Round(d, w, i) = One(LookingForKey(d, s))
BY DEF Round

(* A round that skips a space. *)
LEMMA RoundSpace ==
    ASSUME NEW d, NEW w, NEW i, d.state \in {"LookingForColon", "LookingForQuote"}, w[i] = "s"
    PROVE  Round(d, w, i) = One(d)
BY DEF Round, White

(* A round that finds the colon. *)
LEMMA RoundColon ==
    ASSUME NEW d, NEW w, NEW i, d.state = "LookingForColon", w[i] = ":"
    PROVE  Round(d, w, i) = One([d EXCEPT !.state = "LookingForQuote"])
BY DEF Round, White

(* A round that finds the quote of the string. *)
LEMMA RoundQuote ==
    ASSUME NEW d, NEW w, NEW i, d.state = "LookingForQuote", w[i] = "q"
    PROVE  Round(d, w, i) = One([d EXCEPT !.state = "InString"])
BY DEF Round, White

(* A round inside the string. *)
LEMMA RoundInside ==
    ASSUME NEW d, Inside(d), NEW w, NEW i
    PROVE  Round(d, w, i) = StringFrom(d, w, i)
<1>1. d.state = "InString"
  BY DEF Inside
<1>2. Round(d, w, i) = InString(d, w, i)
  BY <1>1 DEF Round
<1>3. [d EXCEPT !.state = "InString"] = d
  BY DEF Inside, Decoders
<1>4. InString(d, w, i) = StringFrom(d, w, i)
  BY <1>3 DEF InString, Inside
<1> QED
  BY <1>2, <1>4

(* What the decoder makes of the string at i, by the symbols there. *)
LEMMA StringPlain ==
    ASSUME NEW d, NEW w, NEW i, w[i] \notin {"\\", "r1", "q"}
    PROVE  StringFrom(d, w, i) = [d |-> Emit(d, w[i]), len |-> 1]
BY DEF StringFrom, Complete

(* A rune or an escape that is not complete is held back. *)
LEMMA StringHeld ==
    ASSUME NEW d, NEW w \in Seq(Symbols), NEW i \in 1..Len(w),
           \/ w[i] \in {"\\", "r1"} /\ i = Len(w)
           \/ w[i] = "\\" /\ i + 1 = Len(w) /\ w[i + 1] = "u"
    PROVE  StringFrom(d, w, i)
             = [d |-> [d EXCEPT !.pending = Rest(w, i)], len |-> Len(w) - i + 1]
<1>1. ~Complete(w, i)
  BY DEF Complete
<1> QED
  BY <1>1 DEF StringFrom

(* A complete rune is sent. *)
LEMMA StringRune ==
    ASSUME NEW d, NEW w \in Seq(Symbols), NEW i \in 1..Len(w), w[i] = "r1", i # Len(w)
    PROVE  StringFrom(d, w, i) = [d |-> Emit(Emit(d, "r1"), w[i + 1]), len |-> 2]
<1>1. Complete(w, i)
  BY DEF Complete
<1> QED
  BY <1>1 DEF StringFrom

(* A complete escape is sent as what it means. *)
LEMMA StringEscape ==
    ASSUME NEW d, NEW w \in Seq(Symbols), NEW i \in 1..Len(w), w[i] = "\\", i # Len(w)
    PROVE  /\ w[i + 1] = "q" => StringFrom(d, w, i) = [d |-> Emit(d, "q"), len |-> 2]
           /\ w[i + 1] = "\\" => StringFrom(d, w, i) = [d |-> Emit(d, "\\"), len |-> 2]
           /\ w[i + 1] = "n" => StringFrom(d, w, i) = [d |-> Emit(d, "NL"), len |-> 2]
<1>1. w[i + 1] # "u" => Complete(w, i) /\ StringFrom(d, w, i) = Escape(d, w, i)
  <2>1. w[i + 1] # "u" => Complete(w, i)
    BY DEF Complete
  <2> QED
    BY <2>1 DEF StringFrom
<1> QED
  BY <1>1 DEF Escape

(* A complete code is sent, or kept until its low surrogate comes. *)
LEMMA StringUnicode ==
    ASSUME NEW d, NEW w \in Seq(Symbols), NEW i \in 1..Len(w), w[i] = "\\", w[i + 1] = "u",
           i + 2 <= Len(w)
    PROVE  /\ w[i + 2] = "X" => StringFrom(d, w, i) = [d |-> Emit(d, "U+X"), len |-> 3]
           /\ w[i + 2] = "H" =>
                StringFrom(d, w, i) = [d |-> [d EXCEPT !.high = TRUE], len |-> 3]
           /\ w[i + 2] = "L" /\ d.high =>
                StringFrom(d, w, i) = [d |-> [Emit(d, "U+HL") EXCEPT !.high = FALSE], len |-> 3]
<1>1. Complete(w, i)
  BY DEF Complete
<1>2. StringFrom(d, w, i) = Escape(d, w, i)
  BY <1>1 DEF StringFrom
<1>3. w[i + 2] = "X" => Escape(d, w, i) = [d |-> Emit(d, "U+X"), len |-> 3]
  BY DEF Escape
<1>4. w[i + 2] = "H" => Escape(d, w, i) = [d |-> [d EXCEPT !.high = TRUE], len |-> 3]
  BY DEF Escape
<1>5. w[i + 2] = "L" /\ d.high =>
        Escape(d, w, i) = [d |-> [Emit(d, "U+HL") EXCEPT !.high = FALSE], len |-> 3]
  BY DEF Escape
<1> QED
  BY <1>2, <1>3, <1>4, <1>5

(* The rest from the first symbol is all. *)
LEMMA RestIsAll == ASSUME NEW S, NEW w \in Seq(S) PROVE Rest(w, 1) = w
BY DEF Rest

(* A brace alone begins with one. *)
LEMMA BraceIsFirst ==
    ASSUME NEW w, w = <<"close">>
    PROVE  BraceFirst(w)
<1>1. DOMAIN w = {1} /\ w[1] = "close" /\ Len(w) = 1 /\ w # <<>> /\ w \in Seq({"close"})
  BY SMT
<1>2. ~Blank(w)
  BY <1>1 DEF Blank, White
<1>3. {i \in DOMAIN w : w[i] \notin White} = {1}
  BY <1>1 DEF White
<1>4. FirstOf({1}) = 1
  BY DEF FirstOf
<1>5. Rest(w, 1) = w
  <2> DEFINE S == {"close"}
  <2>1. w \in Seq(S)
    BY <1>1
  <2> HIDE DEF S
  <2> QED
    BY <2>1, RestIsAll
<1>6. TrimLeft(w) = w
  BY <1>2, <1>3, <1>4, <1>5 DEF TrimLeft
<1> QED
  BY <1>1, <1>6 DEF BraceFirst, StartsWith

(* A quote at the end of a chunk is held back; before a brace it ends the string. *)
LEMMA StringQuote ==
    ASSUME NEW d, NEW w \in Seq(Symbols), NEW i \in 1..Len(w), w[i] = "q"
    PROVE  /\ i = Len(w) =>
                StringFrom(d, w, i) = [d |-> [d EXCEPT !.pendingQuote = TRUE], len |-> 1]
           /\ i + 1 = Len(w) /\ w[i + 1] = "close" =>
                StringFrom(d, w, i) = [d |-> [d EXCEPT !.state = "Completed"], len |-> 2]
<1>1. Complete(w, i)
  BY DEF Complete
<1>2. i = Len(w) =>
        StringFrom(d, w, i) = [d |-> [d EXCEPT !.pendingQuote = TRUE], len |-> 1]
  BY <1>1 DEF StringFrom
<1>3. ASSUME i + 1 = Len(w), w[i + 1] = "close"
      PROVE  StringFrom(d, w, i) = [d |-> [d EXCEPT !.state = "Completed"], len |-> 2]
  <2> DEFINE rest == Rest(w, i + 1)
  <2>1. rest \in Seq(Symbols) /\ Len(rest) = 1 /\ rest[1] = "close"
    BY <1>3 DEF Rest
  <2>2. rest = <<"close">>
    <3> HIDE DEF rest
    <3>1. DOMAIN rest = 1..1
      BY <2>1
    <3> QED
      BY <2>1, <3>1
  <2>3. BraceFirst(rest)
    <3> HIDE DEF rest
    <3> QED
      BY <2>2, BraceIsFirst
  <2>4. Len(w) - i + 1 = 2 /\ i # Len(w) /\ i < Len(w)
    BY <1>3
  <2> QED
    BY <1>1, <2>3, <2>4 DEF StringFrom
<1> QED
  BY <1>2, <1>3

-----------------------------------------------------------------------------
(* Where the decoder is once it used the first g symbols of a document,    *)
(* with nothing held back: before the string, between two items, or        *)
(* between the two halves of a surrogate pair.                             *)
AtOpening(doc, g, d) ==
    \/ g = 0 /\ Waiting(d, "Init") /\ d.key = <<>>
    \/ g = 1 /\ Waiting(d, "LookingForKey") /\ d.key = <<>>
    \/ g = 2 /\ Waiting(d, "LookingForKey") /\ d.key = <<"q">>
    \/ g = 3 /\ Waiting(d, "LookingForKey") /\ d.key = <<"q", doc.text[3]>>
    \/ g = 4 /\ Waiting(d, "LookingForKey") /\ d.key = <<"q", "other", "q">>
             /\ doc.text[3] = "other"
    \/ g \in 4..(Colon(doc) - 1) /\ Waiting(d, "LookingForColon")
    \/ g \in Colon(doc)..(doc.start - 1) /\ Waiting(d, "LookingForQuote")

AtItem(doc, g, d) ==
    \E k \in 0..Len(doc.body) :
        g = End(doc, k) /\ Inside(d) /\ ~d.high /\ d.out = Sent(doc, k)

AtHalf(doc, g, d) ==
    \E k \in 1..Len(doc.body) :
        /\ doc.body[k] = "pair" /\ g = End(doc, k - 1) + 3
        /\ Inside(d) /\ d.high /\ d.out = Sent(doc, k - 1)

At(doc, g, d) == AtOpening(doc, g, d) \/ AtItem(doc, g, d) \/ AtHalf(doc, g, d)

(* The key, symbol by symbol. *)
LEMMA KeySteps ==
    ASSUME NEW d
    PROVE  /\ d.key = <<>> => LookingForKey(d, "q") = [d EXCEPT !.key = <<"q">>]
           /\ \A s \in {"content", "text", "other"} :
                 d.key = <<"q">> => LookingForKey(d, s) = [d EXCEPT !.key = <<"q", s>>]
           /\ \A s \in {"content", "text"} :
                 d.key = <<"q", s>> =>
                     LookingForKey(d, "q")
                       = [[d EXCEPT !.state = "LookingForColon"] EXCEPT !.key = <<>>]
           /\ d.key = <<"q", "other">> =>
                LookingForKey(d, "q") = [d EXCEPT !.key = <<"q", "other", "q">>]
           /\ d.key = <<"q", "other", "q">> =>
                LookingForKey(d, ":")
                  = [[d EXCEPT !.state = "LookingForQuote"] EXCEPT !.key = <<>>]
<1>1. d.key = <<>> => LookingForKey(d, "q") = [d EXCEPT !.key = <<"q">>]
  <2>1. Append(<<>>, "q") = <<"q">> /\ Len(<<"q">>) = 1
    OBVIOUS
  <2> QED
    BY <2>1 DEF LookingForKey
<1>2. ASSUME NEW s \in {"content", "text", "other"}, d.key = <<"q">>
      PROVE  LookingForKey(d, s) = [d EXCEPT !.key = <<"q", s>>]
  <2> DEFINE key == <<"q", s>>
  <2>1. key = Append(d.key, s) /\ Len(key) = 2 /\ key[1] = "q"
    BY <1>2
  <2>2. s # "q" /\ s # ":"
    OBVIOUS
  <2> HIDE DEF key
  <2>3. LookingForKey(d, s) = [d EXCEPT !.key = key]
    BY <2>1, <2>2 DEF LookingForKey
  <2> QED
    BY <2>3 DEF key
<1>3. ASSUME NEW s \in {"content", "text"}, d.key = <<"q", s>>
      PROVE  LookingForKey(d, "q")
               = [[d EXCEPT !.state = "LookingForColon"] EXCEPT !.key = <<>>]
  <2> DEFINE key == <<"q", s, "q">>
  <2>1. key = Append(d.key, "q") /\ Len(key) = 3 /\ key[2] = s /\ key[1] = "q"
    BY <1>3
  <2> HIDE DEF key
  <2> QED
    BY <2>1 DEF LookingForKey
<1>4. ASSUME d.key = <<"q", "other">>
      PROVE  LookingForKey(d, "q") = [d EXCEPT !.key = <<"q", "other", "q">>]
  <2> DEFINE key == <<"q", "other", "q">>
  <2>1. key = Append(d.key, "q") /\ Len(key) = 3 /\ key[2] = "other" /\ key[1] = "q"
    BY <1>4
  <2> HIDE DEF key
  <2>2. LookingForKey(d, "q") = [d EXCEPT !.key = key]
    BY <2>1 DEF LookingForKey
  <2> QED
    BY <2>2 DEF key
<1>5. ASSUME d.key = <<"q", "other", "q">>
      PROVE  LookingForKey(d, ":")
                  = [[d EXCEPT !.state = "LookingForQuote"] EXCEPT !.key = <<>>]
  <2> DEFINE key == <<"q", "other", "q", ":">>
  <2>1. key = Append(d.key, ":") /\ Len(key) = 4 /\ key[3] = "q"
    BY <1>5
  <2> HIDE DEF key
  <2> QED
    BY <2>1 DEF LookingForKey
<1> QED
  BY <1>1, <1>2, <1>3, <1>4, <1>5

(* The parts of a key are texts. *)
LEMMA KeyTypes ==
    /\ <<>> \in Seq(Symbols) /\ <<"q">> \in Seq(Symbols)
    /\ \A s \in {"content", "text", "other"} : <<"q", s>> \in Seq(Symbols)
    /\ <<"q", "other", "q">> \in Seq(Symbols)
<1>1. "q" \in Symbols /\ "other" \in Symbols /\ {"content", "text", "other"} \subseteq Symbols
  BY DEF Symbols
<1>2. <<>> \in Seq(Symbols)
  OBVIOUS
<1>3. <<"q">> \in Seq(Symbols)
  BY <1>1, OneIsSeq
<1>4. \A s \in {"content", "text", "other"} : <<"q", s>> \in Seq(Symbols)
  BY <1>1, TwoAreSeq
<1>5. <<"q", "other", "q">> \in Seq(Symbols)
  BY <1>1, ThreeAreSeq
<1> QED
  BY <1>2, <1>3, <1>4, <1>5

(* Before the string, every symbol leads to the next place. *)
LEMMA OpeningStep ==
    ASSUME NEW doc, Layout(doc), NEW g, NEW d, AtOpening(doc, g, d), NEW w, NEW i,
           w[i] = doc.text[g + 1]
    PROVE  /\ g \in 0..(doc.start - 1)
           /\ Round(d, w, i).len = 1 /\ At(doc, g + 1, Round(d, w, i).d)
<1> DEFINE c == Colon(doc)
           r == Round(d, w, i)
           t == doc.text
<1>1. c \in {5, 6} /\ doc.start \in {c + 1, c + 2} /\ doc.start \in Nat
  BY DEF Layout, HasOpening
<1>2. /\ t[1] = "open" /\ t[2] = "q" /\ t[4] = "q" /\ t[c] = ":" /\ t[doc.start] = "q"
      /\ t[3] \in {"content", "text", "other"} /\ (t[3] = "other" => c = 5)
      /\ (c = 6 => t[5] = "s") /\ (doc.start = c + 2 => t[c + 1] = "s")
  BY DEF Layout, HasOpening
<1>3. \A x : One(x).len = 1 /\ One(x).d = x
  BY DEF One
<1> HIDE DEF c, t
<1>4. CASE g = 0 /\ Waiting(d, "Init") /\ d.key = <<>>
  <2>1. d \in Decoders /\ d.state = "Init" /\ w[i] = "open"
    BY <1>2, <1>4 DEF Waiting, t
  <2> DEFINE e == [d EXCEPT !.state = "LookingForKey"]
  <2>2. r = One(e)
    BY <2>1, RoundInit
  <2>3. Waiting(e, "LookingForKey") /\ e.key = <<>>
    <3> HIDE DEF e
    <3>1. e = [d EXCEPT !.state = "LookingForKey"] /\ "LookingForKey" \in States
      BY DEF e, States
    <3> QED
      BY <1>4, <2>1, <3>1, WithState DEF Waiting
  <2> HIDE DEF e, r
  <2>4. AtOpening(doc, g + 1, e)
    BY <1>4, <2>3 DEF AtOpening
  <2> QED
    BY <1>1, <1>3, <1>4, <2>2, <2>4 DEF At, r
<1>5. CASE g = 1 /\ Waiting(d, "LookingForKey") /\ d.key = <<>>
  <2>1. d \in Decoders /\ d.state = "LookingForKey" /\ w[i] = "q"
    BY <1>2, <1>5 DEF Waiting, t
  <2> DEFINE key == <<"q">>
             e == [d EXCEPT !.key = key]
  <2>2. r = One(e)
    <3>1. LookingForKey(d, "q") = e
      BY <1>5, KeySteps
    <3>2. r = One(LookingForKey(d, "q"))
      BY <2>1, RoundKey
    <3> QED
      BY <3>1, <3>2
  <2>3. Waiting(e, "LookingForKey") /\ e.key = <<"q">>
    <3>1. key \in Seq(Symbols) /\ key = <<"q">>
      BY KeyTypes
    <3>2. key \in Seq(Symbols)
      BY <3>1
    <3> HIDE DEF key
    <3>3. Waiting(e, "LookingForKey") /\ e.key = key
      BY <1>5, <2>1, <3>2, WithKey DEF Waiting
    <3> QED
      BY <3>1, <3>3
  <2> HIDE DEF e, r
  <2>4. AtOpening(doc, g + 1, e)
    BY <1>5, <2>3 DEF AtOpening
  <2> QED
    BY <1>1, <1>3, <1>5, <2>2, <2>4 DEF At, r
<1>6. CASE g = 2 /\ Waiting(d, "LookingForKey") /\ d.key = <<"q">>
  <2>1. d \in Decoders /\ d.state = "LookingForKey" /\ w[i] = t[3]
    BY <1>6 DEF Waiting, t
  <2> DEFINE s == t[3]
             key == <<"q", s>>
             e == [d EXCEPT !.key = key]
  <2>2. r = One(e)
    <3>1. LookingForKey(d, t[3]) = e
      BY <1>2, <1>6, KeySteps
    <3> HIDE DEF s
    <3>2. r = One(LookingForKey(d, s))
      BY <2>1, RoundKey DEF s
    <3> QED
      BY <3>1, <3>2 DEF s
  <2>3. Waiting(e, "LookingForKey") /\ e.key = <<"q", t[3]>>
    <3>1. key \in Seq(Symbols) /\ key = <<"q", t[3]>>
      BY <1>2, KeyTypes
    <3>2. key \in Seq(Symbols)
      BY <3>1
    <3> HIDE DEF key
    <3>3. Waiting(e, "LookingForKey") /\ e.key = key
      BY <1>6, <2>1, <3>2, WithKey DEF Waiting
    <3> QED
      BY <3>1, <3>3
  <2> HIDE DEF e, r
  <2>4. AtOpening(doc, g + 1, e)
    BY <1>6, <2>3 DEF AtOpening, t
  <2> QED
    BY <1>1, <1>3, <1>6, <2>2, <2>4 DEF At, r
<1>7. CASE g = 3 /\ Waiting(d, "LookingForKey") /\ d.key = <<"q", t[3]>>
  <2>1. d \in Decoders /\ d.state = "LookingForKey" /\ w[i] = "q"
    BY <1>2, <1>7 DEF Waiting, t
  <2>2. r = One(LookingForKey(d, "q"))
    BY <2>1, RoundKey
  <2>3. CASE t[3] = "other"
    <3> DEFINE key == <<"q", "other", "q">>
               e == [d EXCEPT !.key = key]
    <3>1. r = One(e)
      <4>1. d.key = <<"q", "other">>
        BY <1>7, <2>3
      <4>2. LookingForKey(d, "q") = e
        BY <4>1, KeySteps
      <4> QED
        BY <2>2, <4>2
    <3>2. Waiting(e, "LookingForKey") /\ e.key = <<"q", "other", "q">>
      <4>1. key \in Seq(Symbols) /\ key = <<"q", "other", "q">>
        BY KeyTypes
      <4>2. key \in Seq(Symbols)
        BY <4>1
      <4> HIDE DEF key
      <4>3. Waiting(e, "LookingForKey") /\ e.key = key
        BY <1>7, <2>1, <4>2, WithKey DEF Waiting
      <4> QED
        BY <4>1, <4>3
    <3> HIDE DEF e, r
    <3>3. AtOpening(doc, g + 1, e)
      BY <1>7, <2>3, <3>2 DEF AtOpening, t
    <3> QED
      BY <1>1, <1>3, <1>7, <3>1, <3>3 DEF At, r
  <2>4. CASE t[3] # "other"
    <3> DEFINE f == [d EXCEPT !.state = "LookingForColon"]
               none == <<>>
               e == [f EXCEPT !.key = none]
    <3>1. r = One(e)
      <4>1. t[3] \in {"content", "text"}
        BY <1>2, <2>4
      <4>2. LookingForKey(d, "q") = e
        BY <1>7, <4>1, KeySteps
      <4> QED
        BY <2>2, <4>2
    <3>2. Waiting(f, "LookingForColon")
      BY <1>7, <2>1, WithState DEF Waiting, States
    <3> HIDE DEF f
    <3>3. Waiting(e, "LookingForColon")
      <4>1. none \in Seq(Symbols) /\ f \in Decoders
        BY <3>2, KeyTypes DEF Waiting
      <4> HIDE DEF none
      <4> QED
        BY <3>2, <4>1, WithKey DEF Waiting
    <3> HIDE DEF e, r
    <3>4. AtOpening(doc, g + 1, e)
      BY <1>1, <1>7, <3>3 DEF AtOpening, c
    <3> QED
      BY <1>1, <1>3, <1>7, <3>1, <3>4 DEF At, r
  <2> QED
    BY <2>3, <2>4

<1>8. CASE g = 4 /\ Waiting(d, "LookingForKey") /\ d.key = <<"q", "other", "q">> /\ t[3] = "other"
  <2>1. c = 5 /\ d \in Decoders /\ d.state = "LookingForKey" /\ w[i] = ":"
    BY <1>2, <1>8 DEF Waiting, t
  <2> DEFINE f == [d EXCEPT !.state = "LookingForQuote"]
             none == <<>>
             e == [f EXCEPT !.key = none]
  <2>2. r = One(e)
    <3>1. LookingForKey(d, ":") = e
      BY <1>8, KeySteps
    <3>2. r = One(LookingForKey(d, ":"))
      BY <2>1, RoundKey
    <3> QED
      BY <3>1, <3>2
  <2>3. Waiting(f, "LookingForQuote")
    BY <1>8, <2>1, WithState DEF Waiting, States
  <2> HIDE DEF f
  <2>4. Waiting(e, "LookingForQuote")
    <3>1. none \in Seq(Symbols) /\ f \in Decoders
      BY <2>3, KeyTypes DEF Waiting
    <3> HIDE DEF none
    <3> QED
      BY <2>3, <3>1, WithKey DEF Waiting
  <2> HIDE DEF e, r
  <2>5. AtOpening(doc, g + 1, e)
    BY <1>1, <1>8, <2>1, <2>4 DEF AtOpening, c
  <2> QED
    BY <1>1, <1>3, <1>8, <2>2, <2>5 DEF At, r
<1>9. CASE g \in 4..(c - 1) /\ Waiting(d, "LookingForColon")
  <2>1. g \in {4, 5} /\ d \in Decoders /\ d.state = "LookingForColon" /\ w[i] = t[g + 1]
    BY <1>1, <1>9 DEF Waiting, t
  <2>2. CASE g + 1 = c
    <3> DEFINE e == [d EXCEPT !.state = "LookingForQuote"]
    <3>1. w[i] = ":"
      BY <1>2, <2>1, <2>2
    <3>2. r = One(e)
      BY <2>1, <3>1, RoundColon
    <3>3. Waiting(e, "LookingForQuote")
      BY <1>9, <2>1, WithState DEF Waiting, States
    <3> HIDE DEF e, r
    <3>4. AtOpening(doc, g + 1, e)
      BY <1>1, <2>1, <2>2, <3>3 DEF AtOpening, c
    <3> QED
      BY <1>1, <1>3, <2>1, <3>2, <3>4 DEF At, r
  <2>3. CASE g + 1 # c
    <3>1. g = 4 /\ c = 6 /\ w[i] = "s"
      BY <1>1, <1>2, <1>9, <2>1, <2>3
    <3>2. r = One(d)
      BY <2>1, <3>1, RoundSpace
    <3> HIDE DEF r
    <3>3. AtOpening(doc, g + 1, d)
      BY <1>9, <3>1 DEF AtOpening, c
    <3> QED
      BY <1>1, <1>3, <3>1, <3>2, <3>3 DEF At, r
  <2> QED
    BY <2>2, <2>3
<1>10. CASE g \in c..(doc.start - 1) /\ Waiting(d, "LookingForQuote")
  <2>1. g \in Nat /\ d \in Decoders /\ d.state = "LookingForQuote" /\ w[i] = t[g + 1]
    BY <1>1, <1>10 DEF Waiting, t
  <2>2. CASE g + 1 = doc.start
    <3> DEFINE e == [d EXCEPT !.state = "InString"]
    <3>1. w[i] = "q"
      BY <1>2, <2>1, <2>2
    <3>2. r = One(e)
      BY <2>1, <3>1, RoundQuote
    <3>3. Inside(e) /\ ~e.high /\ e.out = <<>>
      BY <1>10, <2>1, WithState DEF Waiting, Inside, States
    <3> HIDE DEF e, r
    <3>4. End(doc, 0) = g + 1 /\ 0 \in 0..Len(doc.body) /\ Sent(doc, 0) = <<>>
      <4>1. End(doc, 0) = doc.start /\ doc.body \in Seq(ClearItems)
        BY DEF Layout, HasString
      <4>2. Flat(Meaning, SubSeq(doc.body, 1, 0)) = <<>>
        BY <4>1, ClearItemsAre, FlatMeaning
      <4>3. 0 \in 0..Len(doc.body)
        BY <4>1
      <4> QED
        BY <2>2, <4>1, <4>2, <4>3 DEF Sent
    <3>5. AtItem(doc, g + 1, e)
      BY <3>3, <3>4 DEF AtItem
    <3> QED
      BY <1>1, <1>3, <1>10, <3>2, <3>5 DEF At, r
  <2>3. CASE g + 1 # doc.start
    <3>1. g = c /\ doc.start = c + 2 /\ w[i] = "s"
      BY <1>1, <1>2, <1>10, <2>1, <2>3
    <3>2. r = One(d)
      BY <2>1, <3>1, RoundSpace
    <3> HIDE DEF r
    <3>3. AtOpening(doc, g + 1, d)
      BY <1>1, <1>10, <3>1 DEF AtOpening, c
    <3> QED
      BY <1>1, <1>3, <3>1, <3>2, <3>3 DEF At, r
  <2> QED
    BY <2>2, <2>3
<1> QED
  BY <1>4, <1>5, <1>6, <1>7, <1>8, <1>9, <1>10 DEF AtOpening, c, t

-----------------------------------------------------------------------------
(* Where the decoder is at the end of a chunk with something held back:    *)
(* some of an item or of the second half of a pair, or the quote; and at   *)
(* the end of the document.                                                *)
HeldItem(doc, n, d) ==
    \E k \in 1..Len(doc.body) : \E g \in End(doc, k - 1)..(n - 1) :
        /\ n < End(doc, k)
        /\ \/ g = End(doc, k - 1) /\ ~d.high
           \/ doc.body[k] = "pair" /\ g = End(doc, k - 1) + 3 /\ d.high
        /\ d \in Decoders /\ d.state = "InString" /\ ~d.pendingQuote
        /\ d.out = Sent(doc, k - 1) /\ d.pending = SubSeq(doc.text, g + 1, n)

HeldQuote(doc, n, d) ==
    /\ n = End(doc, Len(doc.body)) + 1
    /\ d \in Decoders /\ d.state = "InString" /\ d.pending = <<>> /\ d.pendingQuote
    /\ d.out = Sent(doc, Len(doc.body))

AtEnd(doc, n, d) ==
    /\ n = End(doc, Len(doc.body)) + 2
    /\ d \in Decoders /\ d.pending = <<>> /\ ~d.pendingQuote /\ d.out = Sent(doc, Len(doc.body))

(* The decoder after the first n symbols of a document, in any chunks.     *)
Between(doc, n, d) ==
    At(doc, n, d) \/ HeldItem(doc, n, d) \/ HeldQuote(doc, n, d) \/ AtEnd(doc, n, d)

(* A round from symbol g on, in a chunk that ends with symbol n. *)
Good(doc, g, n, r) ==
    /\ r.len \in Nat \ {0} /\ g + r.len <= n
    /\ \/ At(doc, g + r.len, r.d)
       \/ g + r.len = n /\ Between(doc, n, r.d)

(* The symbols of w from i on are those of the text t from g + 1 to n.     *)
Window(t, g, n, w, i) ==
    /\ w \in Seq(Symbols) /\ i \in 1..Len(w) /\ g \in Nat /\ n \in Nat /\ n <= Len(t)
    /\ Len(w) - i + 1 = n - g
    /\ \A j \in 1..(n - g) : w[i + j - 1] = t[g + j]
    /\ Rest(w, i) = SubSeq(t, g + 1, n)

(* The symbols of a document in the window the decoder works on. *)
LEMMA WindowSymbols ==
    ASSUME NEW t, NEW g, NEW n, NEW w, NEW i, Window(t, g, n, w, i)
    PROVE  /\ w \in Seq(Symbols) /\ i \in 1..Len(w) /\ g \in Nat /\ n \in Nat
           /\ w[i] = t[g + 1] /\ g + 1 <= n
           /\ n = g + 1 => i = Len(w)
           /\ n # g + 1 => i # Len(w) /\ g + 2 <= n
           /\ n = g + 2 => i + 1 = Len(w)
           /\ n # g + 1 /\ n # g + 2 => g + 3 <= n
           /\ g + 2 <= n => w[i + 1] = t[g + 2] /\ i + 1 <= Len(w)
           /\ g + 3 <= n => w[i + 2] = t[g + 3] /\ i + 2 <= Len(w)
<1>1. i \in Nat /\ Len(w) \in Nat /\ i <= Len(w) /\ g \in Nat /\ n \in Nat
      /\ Len(w) - i + 1 = n - g
  BY DEF Window
<1>2. g + 1 <= n
  BY <1>1
<1>3. \A j \in 1..(n - g) : w[i + j - 1] = t[g + j]
  BY DEF Window
<1>4. w[i] = t[g + 1]
  <2> DEFINE j == 1
  <2>1. j \in 1..(n - g) /\ i + j - 1 = i /\ g + j = g + 1
    BY <1>1, <1>2
  <2> HIDE DEF j
  <2>2. w[i + j - 1] = t[g + j]
    BY <1>3, <2>1
  <2> QED
    BY <2>1, <2>2
<1>5. ASSUME g + 2 <= n PROVE w[i + 1] = t[g + 2] /\ i + 1 <= Len(w)
  <2> DEFINE j == 2
  <2>1. j \in 1..(n - g) /\ i + j - 1 = i + 1 /\ g + j = g + 2
    BY <1>1, <1>5
  <2> HIDE DEF j
  <2>2. w[i + j - 1] = t[g + j]
    BY <1>3, <2>1
  <2> QED
    BY <1>1, <1>5, <2>1, <2>2
<1>6. ASSUME g + 3 <= n PROVE w[i + 2] = t[g + 3] /\ i + 2 <= Len(w)
  <2> DEFINE j == 3
  <2>1. j \in 1..(n - g) /\ i + j - 1 = i + 2 /\ g + j = g + 3
    BY <1>1, <1>6
  <2> HIDE DEF j
  <2>2. w[i + j - 1] = t[g + j]
    BY <1>3, <2>1
  <2> QED
    BY <1>1, <1>6, <2>1, <2>2
<1>7. /\ n = g + 1 => i = Len(w)
      /\ n # g + 1 => i # Len(w) /\ g + 2 <= n
      /\ n = g + 2 => i + 1 = Len(w)
      /\ n # g + 1 /\ n # g + 2 => g + 3 <= n
  BY <1>1, <1>2
<1> QED
  BY <1>1, <1>2, <1>4, <1>5, <1>6, <1>7 DEF Window

(* What the first items mean grows item by item. *)
LEMMA SentTypes ==
    ASSUME NEW doc, Layout(doc)
    PROVE  /\ \A k \in 0..Len(doc.body) : Sent(doc, k) \in Seq(Symbols)
           /\ \A k \in 1..Len(doc.body) :
                /\ doc.body[k] \in Items
                /\ Sent(doc, k) = Sent(doc, k - 1) \o Meaning[doc.body[k]]
<1>1. doc.body \in Seq(ClearItems)
  BY DEF Layout, HasString
<1>2. \A k \in 1..Len(doc.body) : doc.body[k] \in Items
  BY <1>1, ClearItemsAre DEF ClearItems
<1> QED
  BY <1>1, <1>2, ClearItemsAre, FlatMeaning DEF Sent

(* An item is delivered. *)
LEMMA NextItem ==
    ASSUME NEW doc, Layout(doc), NEW k \in 1..Len(doc.body), NEW e, Inside(e), ~e.high,
           e.out = Sent(doc, k - 1) \o Meaning[doc.body[k]]
    PROVE  At(doc, End(doc, k), e)
<1>1. e.out = Sent(doc, k) /\ k \in 0..Len(doc.body)
  <2>1. Sent(doc, k) = Sent(doc, k - 1) \o Meaning[doc.body[k]]
    BY SentTypes
  <2> QED
    BY <2>1 DEF Layout, HasString
<1>2. AtItem(doc, End(doc, k), e)
  BY <1>1 DEF AtItem
<1> QED
  BY <1>2 DEF At

(* A decoder that sends an item of one symbol is behind it. *)
LEMMA NextItemEmitted ==
    ASSUME NEW doc, Layout(doc), NEW k \in 1..Len(doc.body), NEW s \in Symbols,
           Meaning[doc.body[k]] = <<s>>, NEW d, Inside(d), ~d.high, d.out = Sent(doc, k - 1)
    PROVE  At(doc, End(doc, k), Emit(d, s))
<1> DEFINE e == Emit(d, s)
<1>1. d \in Decoders
  BY DEF Inside
<1>2. /\ e \in Decoders /\ e.state = d.state /\ e.key = d.key /\ e.pending = d.pending
      /\ e.pendingQuote = d.pendingQuote /\ e.high = d.high /\ e.out = Append(d.out, s)
  BY <1>1, Emitting
<1> HIDE DEF e
<1>3. Inside(e) /\ ~e.high
  BY <1>2 DEF Inside
<1>4. Sent(doc, k - 1) \in Seq(Symbols)
  <2>1. k - 1 \in 0..Len(doc.body)
    BY DEF Layout, HasString
  <2> QED
    BY <2>1, SentTypes
<1>5. Append(d.out, s) = d.out \o <<s>>
  BY <1>4
<1>6. At(doc, End(doc, k), e)
  BY <1>2, <1>3, <1>5, NextItem
<1> QED
  BY <1>6 DEF e

(* The decoder is about to read item k, or the second half of its pair.    *)
Ready(doc, k, d) ==
    k \in 1..Len(doc.body) /\ Inside(d) /\ ~d.high /\ d.out = Sent(doc, k - 1)

HalfRead(doc, k, d) ==
    /\ k \in 1..Len(doc.body) /\ Inside(d) /\ d.high /\ d.out = Sent(doc, k - 1)
    /\ doc.body[k] = "pair"

(* Where the symbols of an item are in the document. *)
LEMMA ItemText ==
    ASSUME NEW doc, Layout(doc), NEW k \in 1..Len(doc.body)
    PROVE  /\ End(doc, k - 1) \in Nat /\ End(doc, k) \in Nat /\ doc.body[k] \in Items
           /\ End(doc, k) = End(doc, k - 1) + Len(Source[doc.body[k]])
           /\ \A j \in 1..Len(Source[doc.body[k]]) :
                 doc.text[End(doc, k - 1) + j] = Source[doc.body[k]][j]
<1>1. doc.body \in Seq(ClearItems) /\ k - 1 \in 0..Len(doc.body) /\ k \in 0..Len(doc.body)
  BY DEF Layout, HasString
<1>2. doc.body[k] \in Items
  BY <1>1, ClearItemsAre DEF ClearItems
<1>3. \A l \in 0..Len(doc.body) : End(doc, l) \in Nat
  BY DEF Layout, HasString
<1>4. End(doc, k - 1) \in Nat /\ End(doc, k) \in Nat
  BY <1>1, <1>3
<1> QED
  BY <1>2, <1>4 DEF Layout, HasString

(* The rest of a text is a text. *)
LEMMA RestTyped ==
    ASSUME NEW w \in Seq(Symbols), NEW i \in 1..Len(w)
    PROVE  Rest(w, i) \in Seq(Symbols)
BY DEF Rest

(* A round that took len symbols. *)
LEMMA RoundTook ==
    ASSUME NEW d, NEW w, NEW i, NEW e, NEW len, Round(d, w, i) = [d |-> e, len |-> len]
    PROVE  Round(d, w, i).d = e /\ Round(d, w, i).len = len
OBVIOUS

(* Some of an item is held back. *)
LEMMA HoldingBack ==
    ASSUME NEW doc, Layout(doc), NEW k, NEW g, NEW n, NEW w, NEW i, NEW d,
           \/ Ready(doc, k, d) /\ g = End(doc, k - 1)
           \/ HalfRead(doc, k, d) /\ g = End(doc, k - 1) + 3,
           Window(doc.text, g, n, w, i), n < End(doc, k),
           Round(d, w, i) = [d |-> [d EXCEPT !.pending = Rest(w, i)], len |-> Len(w) - i + 1]
    PROVE  Good(doc, g, n, Round(d, w, i))
<1> DEFINE p == Rest(w, i)
           e == [d EXCEPT !.pending = p]
<1>1. /\ g \in Nat /\ n \in Nat /\ p = SubSeq(doc.text, g + 1, n) /\ Len(w) - i + 1 = n - g
      /\ g + 1 <= n
  BY WindowSymbols DEF Window
<1>2. d \in Decoders /\ d.state = "InString" /\ ~d.pendingQuote /\ d.out = Sent(doc, k - 1)
      /\ k \in 1..Len(doc.body)
  BY DEF Ready, HalfRead, Inside
<1>3. p \in Seq(Symbols)
  BY RestTyped DEF Window
<1> HIDE DEF p
<1>4. /\ e \in Decoders /\ e.state = d.state /\ e.pending = p
      /\ e.pendingQuote = d.pendingQuote /\ e.high = d.high /\ e.out = d.out
  BY <1>2, <1>3, WithPending
<1> HIDE DEF e
<1>5. End(doc, k - 1) \in Nat
  BY <1>2, ItemText
<1>6. \/ g = End(doc, k - 1) /\ ~e.high
      \/ doc.body[k] = "pair" /\ g = End(doc, k - 1) + 3 /\ e.high
  BY <1>4 DEF Ready, HalfRead
<1>7. g \in End(doc, k - 1)..(n - 1)
  BY <1>1, <1>5, <1>6
<1>8. HeldItem(doc, n, e)
  BY <1>1, <1>2, <1>4, <1>6, <1>7 DEF HeldItem
<1>9. Round(d, w, i).d = e /\ Round(d, w, i).len = n - g
  BY <1>1 DEF e, p
<1> DEFINE len == n - g
<1>10. len \in Nat \ {0} /\ g + len = n
  <2>1. g \in Nat /\ n \in Nat /\ g + 1 <= n
    BY <1>1
  <2> QED
    BY <2>1
<1>11. Round(d, w, i).len = len
  BY <1>9
<1> HIDE DEF len
<1>12. Between(doc, n, Round(d, w, i).d)
  BY <1>8, <1>9 DEF Between
<1> DEFINE r == Round(d, w, i)
<1>13. r.len \in Nat \ {0} /\ g + r.len = n /\ n <= n /\ Between(doc, n, r.d)
  BY <1>1, <1>10, <1>11, <1>12
<1> HIDE DEF r
<1>14. Good(doc, g, n, r)
  BY <1>13 DEF Good
<1> QED
  BY <1>14 DEF r

(* An item was read to its end. *)
LEMMA ReadItem ==
    ASSUME NEW doc, Layout(doc), NEW k, NEW g, NEW n, NEW w, NEW i, NEW d,
           NEW e, NEW len \in Nat \ {0}, g + len = End(doc, k), End(doc, k) <= n,
           At(doc, End(doc, k), e), Round(d, w, i) = [d |-> e, len |-> len]
    PROVE  Good(doc, g, n, Round(d, w, i))
BY RoundTook DEF Good

(* The items written with a single plain symbol. *)
LEMMA PlainItems ==
    ASSUME NEW x \in {"a", "n", "space", "brace", "fence", "rawNewline"}
    PROVE  \E s \in Symbols :
              s \notin {"\\", "r1", "q"} /\ Source[x] = <<s>> /\ Meaning[x] = <<s>>
<1>1. {"a", "n", "s", "close", "fence", "NL"} \subseteq Symbols
  BY DEF Symbols
<1>2. CASE x = "a"
  BY <1>1, <1>2, ItemTexts
<1>3. CASE x = "n"
  BY <1>1, <1>3, ItemTexts
<1>4. CASE x = "space"
  BY <1>1, <1>4, ItemTexts
<1>5. CASE x = "brace"
  BY <1>1, <1>5, ItemTexts
<1>6. CASE x = "fence"
  BY <1>1, <1>6, ItemTexts
<1>7. CASE x = "rawNewline"
  BY <1>1, <1>7, ItemTexts
<1> QED
  BY <1>2, <1>3, <1>4, <1>5, <1>6, <1>7

(* A round over a plain item. *)
LEMMA PlainStep ==
    ASSUME NEW doc, Layout(doc), NEW k, NEW d, Ready(doc, k, d), NEW n, NEW w, NEW i,
           doc.body[k] \in {"a", "n", "space", "brace", "fence", "rawNewline"},
           NEW g, g = End(doc, k - 1), Window(doc.text, g, n, w, i)
    PROVE  Good(doc, g, n, Round(d, w, i))
<1> DEFINE x == doc.body[k]
<1>1. PICK s \in Symbols :
         s \notin {"\\", "r1", "q"} /\ Source[x] = <<s>> /\ Meaning[x] = <<s>>
  BY PlainItems
<1>2. k \in 1..Len(doc.body) /\ Inside(d) /\ ~d.high /\ d.out = Sent(doc, k - 1)
  BY DEF Ready
<1>3. Len(<<s>>) = 1 /\ <<s>>[1] = s
  OBVIOUS
<1>4. /\ g \in Nat /\ End(doc, k) = g + Len(Source[x])
      /\ \A j \in 1..Len(Source[x]) : doc.text[g + j] = Source[x][j]
  <2>1. /\ End(doc, k - 1) \in Nat
        /\ End(doc, k) = End(doc, k - 1) + Len(Source[doc.body[k]])
        /\ \A j \in 1..Len(Source[doc.body[k]]) :
              doc.text[End(doc, k - 1) + j] = Source[doc.body[k]][j]
    BY ONLY <1>2, Layout(doc), ItemText
  <2> QED
    BY <2>1
<1>5. End(doc, k) = g + 1 /\ doc.text[g + 1] = s
  <2> HIDE DEF x
  <2>1. Len(Source[x]) = 1 /\ Source[x][1] = s
    BY <1>1, <1>3
  <2> QED
    BY <1>4, <2>1
<1>6. w[i] = s /\ g + 1 <= n
  BY <1>5, WindowSymbols
<1>7. StringFrom(d, w, i) = [d |-> Emit(d, s), len |-> 1]
  BY <1>1, <1>6, StringPlain
<1>8. Round(d, w, i) = [d |-> Emit(d, s), len |-> 1]
  BY <1>2, <1>7, RoundInside
<1>9. At(doc, End(doc, k), Emit(d, s))
  BY <1>1, <1>2, NextItemEmitted
<1> DEFINE e == Emit(d, s)
           len == 1
<1>10. len \in Nat \ {0} /\ g + len = End(doc, k) /\ End(doc, k) <= n
  BY <1>5, <1>6
<1>11. Round(d, w, i) = [d |-> e, len |-> len] /\ At(doc, End(doc, k), e)
  BY <1>8, <1>9
<1> HIDE DEF e, len
<1> QED
  BY <1>10, <1>11, ReadItem

(* The escapes of one symbol. *)
LEMMA EscapeItems ==
    ASSUME NEW x \in {"newline", "quote", "backslash"}
    PROVE  \E s, t \in Symbols :
              /\ Source[x] = <<"\\", s>> /\ Meaning[x] = <<t>>
              /\ \/ s = "q" /\ t = "q"
                 \/ s = "\\" /\ t = "\\"
                 \/ s = "n" /\ t = "NL"
<1>1. {"n", "NL", "q", "\\"} \subseteq Symbols
  BY DEF Symbols
<1>2. CASE x = "newline"
  BY <1>1, <1>2, ItemTexts
<1>3. CASE x = "quote"
  BY <1>1, <1>3, ItemTexts
<1>4. CASE x = "backslash"
  BY <1>1, <1>4, ItemTexts
<1> QED
  BY <1>2, <1>3, <1>4

(* A round over an escape. *)
LEMMA EscapeStep ==
    ASSUME NEW doc, Layout(doc), NEW k, NEW d, Ready(doc, k, d), NEW n, NEW w, NEW i,
           doc.body[k] \in {"newline", "quote", "backslash"},
           NEW g, g = End(doc, k - 1), Window(doc.text, g, n, w, i)
    PROVE  Good(doc, g, n, Round(d, w, i))
<1> DEFINE x == doc.body[k]
<1>1. PICK s \in Symbols, t \in Symbols :
         /\ Source[x] = <<"\\", s>> /\ Meaning[x] = <<t>>
         /\ \/ s = "q" /\ t = "q"
            \/ s = "\\" /\ t = "\\"
            \/ s = "n" /\ t = "NL"
  BY EscapeItems
<1>2. k \in 1..Len(doc.body) /\ Inside(d) /\ ~d.high /\ d.out = Sent(doc, k - 1)
  BY DEF Ready
<1>3. Len(<<"\\", s>>) = 2 /\ <<"\\", s>>[1] = "\\" /\ <<"\\", s>>[2] = s
  OBVIOUS
<1>4. /\ g \in Nat /\ End(doc, k) = g + Len(Source[x])
      /\ \A j \in 1..Len(Source[x]) : doc.text[g + j] = Source[x][j]
  <2>1. /\ End(doc, k - 1) \in Nat
        /\ End(doc, k) = End(doc, k - 1) + Len(Source[doc.body[k]])
        /\ \A j \in 1..Len(Source[doc.body[k]]) :
              doc.text[End(doc, k - 1) + j] = Source[doc.body[k]][j]
    BY ONLY <1>2, Layout(doc), ItemText
  <2> QED
    BY <2>1
<1>5. End(doc, k) = g + 2 /\ doc.text[g + 1] = "\\" /\ doc.text[g + 2] = s
  <2> HIDE DEF x
  <2>1. Len(Source[x]) = 2 /\ Source[x][1] = "\\" /\ Source[x][2] = s
    BY <1>1, <1>3
  <2> QED
    BY <1>4, <2>1
<1>6. /\ w[i] = "\\" /\ n \in Nat /\ w \in Seq(Symbols) /\ i \in 1..Len(w)
      /\ n = g + 1 => i = Len(w)
      /\ n # g + 1 => i # Len(w) /\ g + 2 <= n
  BY <1>5, WindowSymbols
<1>9. n # g + 1 => w[i + 1] = s
  BY <1>5, <1>6, WindowSymbols
<1>7. CASE n = g + 1
  <2>1. i = Len(w) /\ n < End(doc, k)
    BY <1>4, <1>5, <1>6, <1>7
  <2>2. StringFrom(d, w, i)
          = [d |-> [d EXCEPT !.pending = Rest(w, i)], len |-> Len(w) - i + 1]
    BY <1>6, <2>1, StringHeld
  <2>3. Round(d, w, i)
          = [d |-> [d EXCEPT !.pending = Rest(w, i)], len |-> Len(w) - i + 1]
    BY <1>2, <2>2, RoundInside
  <2> QED
    BY <2>1, <2>3, HoldingBack
<1>8. CASE n # g + 1
  <2>1. g + 2 <= n /\ i # Len(w) /\ w[i + 1] = s
    BY <1>6, <1>9, <1>8
  <2>2. StringFrom(d, w, i) = [d |-> Emit(d, t), len |-> 2]
    BY <1>1, <1>6, <2>1, StringEscape
  <2>3. Round(d, w, i) = [d |-> Emit(d, t), len |-> 2]
    BY <1>2, <2>2, RoundInside
  <2>4. At(doc, End(doc, k), Emit(d, t))
    BY <1>1, <1>2, NextItemEmitted
  <2> DEFINE e == Emit(d, t)
             len == 2
  <2>5. len \in Nat \ {0} /\ g + len = End(doc, k) /\ End(doc, k) <= n
    BY <1>5, <2>1
  <2>6. Round(d, w, i) = [d |-> e, len |-> len] /\ At(doc, End(doc, k), e)
    BY <2>3, <2>4
  <2> HIDE DEF e, len
  <2> QED
    BY <2>5, <2>6, ReadItem
<1> QED
  BY <1>7, <1>8

(* A round over a rune. *)
LEMMA RuneStep ==
    ASSUME NEW doc, Layout(doc), NEW k, NEW d, Ready(doc, k, d), NEW n, NEW w, NEW i,
           doc.body[k] = "rune",
           NEW g, g = End(doc, k - 1), Window(doc.text, g, n, w, i)
    PROVE  Good(doc, g, n, Round(d, w, i))
<1> DEFINE x == doc.body[k]
           r2 == <<"r1", "r2">>
<1>1. Source[x] = r2 /\ Meaning[x] = r2
  BY ItemTexts
<1>2. k \in 1..Len(doc.body) /\ Inside(d) /\ ~d.high /\ d.out = Sent(doc, k - 1)
  BY DEF Ready
<1>3. Len(r2) = 2 /\ r2[1] = "r1" /\ r2[2] = "r2" /\ r2 \in Seq(Symbols)
  BY DEF Symbols
<1> HIDE DEF r2
<1>4. /\ g \in Nat /\ End(doc, k) = g + Len(Source[x])
      /\ \A j \in 1..Len(Source[x]) : doc.text[g + j] = Source[x][j]
  <2>1. /\ End(doc, k - 1) \in Nat
        /\ End(doc, k) = End(doc, k - 1) + Len(Source[doc.body[k]])
        /\ \A j \in 1..Len(Source[doc.body[k]]) :
              doc.text[End(doc, k - 1) + j] = Source[doc.body[k]][j]
    BY ONLY <1>2, Layout(doc), ItemText
  <2> QED
    BY <2>1
<1>5. End(doc, k) = g + 2 /\ doc.text[g + 1] = "r1" /\ doc.text[g + 2] = "r2"
  <2> HIDE DEF x
  <2>1. Len(Source[x]) = 2 /\ Source[x][1] = "r1" /\ Source[x][2] = "r2"
    BY <1>1, <1>3
  <2> QED
    BY <1>4, <2>1
<1>6. /\ w[i] = "r1" /\ n \in Nat /\ w \in Seq(Symbols) /\ i \in 1..Len(w)
      /\ n = g + 1 => i = Len(w)
      /\ n # g + 1 => i # Len(w) /\ g + 2 <= n
  BY <1>5, WindowSymbols
<1>9. n # g + 1 => w[i + 1] = "r2"
  BY <1>5, <1>6, WindowSymbols
<1>7. CASE n = g + 1
  <2>1. i = Len(w) /\ n < End(doc, k)
    BY <1>4, <1>5, <1>6, <1>7
  <2>2. StringFrom(d, w, i)
          = [d |-> [d EXCEPT !.pending = Rest(w, i)], len |-> Len(w) - i + 1]
    BY <1>6, <2>1, StringHeld
  <2>3. Round(d, w, i)
          = [d |-> [d EXCEPT !.pending = Rest(w, i)], len |-> Len(w) - i + 1]
    BY <1>2, <2>2, RoundInside
  <2> QED
    BY <2>1, <2>3, HoldingBack
<1>8. CASE n # g + 1
  <2>1. g + 2 <= n /\ i # Len(w) /\ w[i + 1] = "r2"
    BY <1>6, <1>9, <1>8
  <2> DEFINE f == Emit(d, "r1")
             e == Emit(f, "r2")
             len == 2
  <2>2. StringFrom(d, w, i) = [d |-> e, len |-> 2]
    BY <1>6, <2>1, StringRune
  <2>3. Round(d, w, i) = [d |-> e, len |-> len]
    BY <1>2, <2>2, RoundInside
  <2>4. "r1" \in Symbols /\ "r2" \in Symbols /\ d \in Decoders
    BY <1>2 DEF Symbols, Inside
  <2>5. /\ f \in Decoders /\ f.state = d.state /\ f.pending = d.pending
        /\ f.pendingQuote = d.pendingQuote /\ f.high = d.high /\ f.out = Append(d.out, "r1")
    BY <2>4, Emitting
  <2> HIDE DEF f
  <2>6. /\ e \in Decoders /\ e.state = f.state /\ e.pending = f.pending
        /\ e.pendingQuote = f.pendingQuote /\ e.high = f.high /\ e.out = Append(f.out, "r2")
    BY <2>4, <2>5, Emitting
  <2> HIDE DEF e
  <2>7. Inside(e) /\ ~e.high
    BY <1>2, <2>5, <2>6 DEF Inside
  <2>8. e.out = d.out \o r2
    <3>1. d.out \in Seq(Symbols)
      BY <2>4, FieldTypes
    <3>2. Append(Append(d.out, "r1"), "r2") = d.out \o <<"r1", "r2">>
      BY <3>1
    <3> QED
      BY <2>5, <2>6, <3>2 DEF r2
  <2>9. At(doc, End(doc, k), e)
    BY <1>1, <1>2, <2>7, <2>8, NextItem
  <2>10. len \in Nat \ {0} /\ g + len = End(doc, k) /\ End(doc, k) <= n
    BY <1>5, <2>1
  <2> HIDE DEF len
  <2> QED
    BY <2>3, <2>9, <2>10, ReadItem
<1> QED
  BY <1>7, <1>8

(* Of a unicode escape only the backslash came, or the u after it. *)
LEMMA HeldUnicode ==
    ASSUME NEW doc, Layout(doc), NEW k, NEW g, NEW n, NEW w, NEW i, NEW d,
           \/ Ready(doc, k, d) /\ g = End(doc, k - 1)
           \/ HalfRead(doc, k, d) /\ g = End(doc, k - 1) + 3,
           Window(doc.text, g, n, w, i), n < End(doc, k), n \in {g + 1, g + 2},
           doc.text[g + 1] = "\\", doc.text[g + 2] = "u"
    PROVE  Good(doc, g, n, Round(d, w, i))
<1>1. Inside(d)
  BY DEF Ready, HalfRead
<1>2. /\ w \in Seq(Symbols) /\ i \in 1..Len(w) /\ w[i] = "\\" /\ g \in Nat /\ n \in Nat
      /\ n = g + 1 => i = Len(w)
      /\ n = g + 2 => i + 1 = Len(w)
  BY WindowSymbols
<1>3. n = g + 2 => w[i + 1] = "u"
  <2>1. n = g + 2 => g + 2 <= n
    BY <1>2
  <2> QED
    BY <2>1, WindowSymbols
<1>4. StringFrom(d, w, i) = [d |-> [d EXCEPT !.pending = Rest(w, i)], len |-> Len(w) - i + 1]
  BY <1>2, <1>3, StringHeld
<1>5. Round(d, w, i) = [d |-> [d EXCEPT !.pending = Rest(w, i)], len |-> Len(w) - i + 1]
  BY <1>1, <1>4, RoundInside
<1> QED
  BY <1>5, HoldingBack

(* A round over a code. *)
LEMMA UnicodeStep ==
    ASSUME NEW doc, Layout(doc), NEW k, NEW d, Ready(doc, k, d), NEW n, NEW w, NEW i,
           doc.body[k] = "unicode",
           NEW g, g = End(doc, k - 1), Window(doc.text, g, n, w, i)
    PROVE  Good(doc, g, n, Round(d, w, i))
<1> DEFINE x == doc.body[k]
           text == <<"\\", "u", "X">>
           s == "U+X"
<1>1. Source[x] = text /\ Meaning[x] = <<s>> /\ s \in Symbols
  BY ItemTexts DEF Symbols
<1>2. k \in 1..Len(doc.body) /\ Inside(d) /\ ~d.high /\ d.out = Sent(doc, k - 1)
  BY DEF Ready
<1>3. Len(text) = 3 /\ text[1] = "\\" /\ text[2] = "u" /\ text[3] = "X"
  OBVIOUS
<1> HIDE DEF text
<1>4. /\ g \in Nat /\ End(doc, k) = g + Len(Source[x])
      /\ \A j \in 1..Len(Source[x]) : doc.text[g + j] = Source[x][j]
  <2>1. /\ End(doc, k - 1) \in Nat
        /\ End(doc, k) = End(doc, k - 1) + Len(Source[doc.body[k]])
        /\ \A j \in 1..Len(Source[doc.body[k]]) :
              doc.text[End(doc, k - 1) + j] = Source[doc.body[k]][j]
    BY ONLY <1>2, Layout(doc), ItemText
  <2> QED
    BY <2>1
<1>5. /\ End(doc, k) = g + 3
      /\ doc.text[g + 1] = "\\" /\ doc.text[g + 2] = "u" /\ doc.text[g + 3] = "X"
  <2> HIDE DEF x
  <2>1. Len(Source[x]) = 3 /\ Source[x][1] = "\\" /\ Source[x][2] = "u" /\ Source[x][3] = "X"
    BY <1>1, <1>3
  <2> QED
    BY <1>4, <2>1
<1>6. CASE n \in {g + 1, g + 2}
  <2>1. n < End(doc, k)
    BY <1>4, <1>5, <1>6
  <2> QED
    BY <1>5, <1>6, <2>1, HeldUnicode
<1>7. CASE n \notin {g + 1, g + 2}
  <2>1. w \in Seq(Symbols) /\ i \in 1..Len(w) /\ w[i] = "\\" /\ g + 3 <= n /\ n \in Nat
    BY <1>5, <1>7, WindowSymbols
  <2>2. g + 2 <= n
    BY <1>4, <2>1
  <2>3. w[i + 1] = "u" /\ w[i + 2] = "X" /\ i + 2 <= Len(w)
    BY <1>5, <2>1, <2>2, WindowSymbols
  <2>4. StringFrom(d, w, i) = [d |-> Emit(d, s), len |-> 3]
    BY <2>1, <2>3, StringUnicode
  <2>5. Round(d, w, i) = [d |-> Emit(d, s), len |-> 3]
    BY <1>2, <2>4, RoundInside
  <2> HIDE DEF s
  <2>6. At(doc, End(doc, k), Emit(d, s))
    BY <1>1, <1>2, NextItemEmitted
  <2> DEFINE e == Emit(d, s)
             len == 3
  <2>7. len \in Nat \ {0} /\ g + len = End(doc, k) /\ End(doc, k) <= n
    BY <1>5, <2>1
  <2>8. Round(d, w, i) = [d |-> e, len |-> len] /\ At(doc, End(doc, k), e)
    BY <2>5, <2>6
  <2> HIDE DEF e, len
  <2> QED
    BY <2>7, <2>8, ReadItem
<1> QED
  BY <1>6, <1>7

PairAt(t, g) ==
    /\ t[g + 1] = "\\" /\ t[g + 2] = "u" /\ t[g + 3] = "H"
    /\ t[g + 4] = "\\" /\ t[g + 5] = "u" /\ t[g + 6] = "L"

(* The symbols of a surrogate pair. *)
LEMMA PairSymbols ==
    ASSUME NEW doc, Layout(doc), NEW k \in 1..Len(doc.body), doc.body[k] = "pair",
           NEW g, g = End(doc, k - 1)
    PROVE  g \in Nat /\ End(doc, k) = g + 6 /\ PairAt(doc.text, g)
<1> DEFINE x == doc.body[k]
           text == <<"\\", "u", "H", "\\", "u", "L">>
<1>1. Source[x] = text
  BY ItemTexts
<1>2. Len(text) = 6 /\ text[1] = "\\" /\ text[2] = "u" /\ text[3] = "H" /\ text[4] = "\\"
      /\ text[5] = "u" /\ text[6] = "L"
  OBVIOUS
<1> HIDE DEF text
<1>3. /\ g \in Nat /\ End(doc, k) = g + Len(Source[x])
      /\ \A j \in 1..Len(Source[x]) : doc.text[g + j] = Source[x][j]
  BY ItemText
<1> HIDE DEF x
<1>4. \A j \in 1..6 : doc.text[g + j] = text[j]
  BY <1>1, <1>2, <1>3
<1>5. doc.text[g + 1] = text[1] /\ doc.text[g + 2] = text[2] /\ doc.text[g + 3] = text[3]
  BY <1>4
<1>6. doc.text[g + 4] = text[4] /\ doc.text[g + 5] = text[5] /\ doc.text[g + 6] = text[6]
  BY <1>4
<1>7. g \in Nat /\ Len(Source[x]) = 6 /\ End(doc, k) = g + 6
  BY <1>1, <1>2, <1>3
<1> QED
  BY <1>2, <1>5, <1>6, <1>7 DEF PairAt

(* A round over the first half of a pair. *)
LEMMA PairFirstStep ==
    ASSUME NEW doc, Layout(doc), NEW k, NEW d, Ready(doc, k, d), NEW n, NEW w, NEW i,
           doc.body[k] = "pair",
           NEW g, g = End(doc, k - 1), Window(doc.text, g, n, w, i)
    PROVE  Good(doc, g, n, Round(d, w, i))
<1>1. /\ k \in 1..Len(doc.body) /\ Inside(d) /\ ~d.high /\ d.out = Sent(doc, k - 1)
      /\ d \in Decoders
  BY DEF Ready, Inside
<1>2. /\ g \in Nat /\ End(doc, k) = g + 6
      /\ doc.text[g + 1] = "\\" /\ doc.text[g + 2] = "u" /\ doc.text[g + 3] = "H"
  <2>1. g \in Nat /\ End(doc, k) = g + 6 /\ PairAt(doc.text, g)
    BY <1>1, PairSymbols
  <2> QED
    BY <2>1 DEF PairAt
<1>3. CASE n \in {g + 1, g + 2}
  <2>1. n < End(doc, k)
    BY <1>2, <1>3
  <2> QED
    BY <1>2, <1>3, <2>1, HeldUnicode
<1>4. CASE n \notin {g + 1, g + 2}
  <2>1. w \in Seq(Symbols) /\ i \in 1..Len(w) /\ w[i] = "\\" /\ g + 3 <= n /\ n \in Nat
    BY <1>2, <1>4, WindowSymbols, SMTT(30)
  <2>2. g + 2 <= n
    BY <1>2, <2>1
  <2>3. w[i + 1] = "u" /\ w[i + 2] = "H" /\ i + 2 <= Len(w)
    <3>1. w[i + 1] = doc.text[g + 2]
      BY <2>2, WindowSymbols
    <3>2. w[i + 2] = doc.text[g + 3] /\ i + 2 <= Len(w)
      BY <2>1, WindowSymbols
    <3> QED
      BY <1>2, <3>1, <3>2
  <2> DEFINE e == [d EXCEPT !.high = TRUE]
             len == 3
             g3 == g + 3
  <2>4. StringFrom(d, w, i) = [d |-> e, len |-> len]
    BY <2>1, <2>3, StringUnicode
  <2>5. Round(d, w, i) = [d |-> e, len |-> len]
    BY <1>1, <2>4, RoundInside
  <2>6. /\ e \in Decoders /\ e.state = d.state /\ e.pending = d.pending
        /\ e.pendingQuote = d.pendingQuote /\ e.high /\ e.out = d.out
    BY <1>1 DEF Decoders
  <2> HIDE DEF e
  <2>7. Inside(e)
    BY <1>1, <2>6 DEF Inside
  <2>8. AtHalf(doc, g3, e)
    BY <1>1, <2>6, <2>7 DEF AtHalf
  <2>9. len \in Nat \ {0} /\ g + len = g3 /\ g3 <= n
    BY <2>1
  <2> HIDE DEF len, g3
  <2>10. Round(d, w, i).d = e /\ Round(d, w, i).len = len
    BY <2>5, RoundTook
  <2>11. At(doc, g3, e)
    BY <2>8 DEF At
  <2> QED
    BY <2>9, <2>10, <2>11 DEF Good
<1> QED
  BY <1>3, <1>4

(* A round over the second half of a pair. *)
LEMMA PairSecondStep ==
    ASSUME NEW doc, Layout(doc), NEW k, NEW d, HalfRead(doc, k, d), NEW n, NEW w, NEW i,
           NEW g, g = End(doc, k - 1) + 3, Window(doc.text, g, n, w, i)
    PROVE  Good(doc, g, n, Round(d, w, i))
<1> DEFINE f == End(doc, k - 1)
<1>1. /\ k \in 1..Len(doc.body) /\ Inside(d) /\ d.high /\ d.out = Sent(doc, k - 1)
      /\ d \in Decoders /\ doc.body[k] = "pair"
  BY DEF HalfRead, Inside
<1>2. /\ f \in Nat /\ End(doc, k) = f + 6
      /\ doc.text[f + 4] = "\\" /\ doc.text[f + 5] = "u" /\ doc.text[f + 6] = "L"
  <2>1. f \in Nat /\ End(doc, k) = f + 6 /\ PairAt(doc.text, f)
    BY <1>1, PairSymbols
  <2> QED
    BY <2>1 DEF PairAt
<1>3. /\ g \in Nat /\ End(doc, k) = g + 3
      /\ doc.text[g + 1] = "\\" /\ doc.text[g + 2] = "u" /\ doc.text[g + 3] = "L"
  <2>1. g + 1 = f + 4 /\ g + 2 = f + 5 /\ g + 3 = f + 6 /\ g \in Nat
    BY <1>2
  <2> QED
    BY <1>2, <2>1
<1>4. CASE n \in {g + 1, g + 2}
  <2>1. n < End(doc, k)
    BY <1>3, <1>4
  <2> QED
    BY <1>3, <1>4, <2>1, HeldUnicode
<1>5. CASE n \notin {g + 1, g + 2}
  <2>1. w \in Seq(Symbols) /\ i \in 1..Len(w) /\ w[i] = "\\" /\ g + 3 <= n /\ n \in Nat
    BY <1>3, <1>5, WindowSymbols
  <2>2. g + 2 <= n
    BY <1>3, <2>1
  <2>3. w[i + 1] = "u" /\ w[i + 2] = "L" /\ i + 2 <= Len(w)
    BY <1>3, <2>1, <2>2, WindowSymbols, SMTT(30)
  <2> DEFINE s == "U+HL"
             l == Emit(d, s)
             e == [l EXCEPT !.high = FALSE]
             len == 3
  <2>4. StringFrom(d, w, i) = [d |-> e, len |-> len]
    BY <1>1, <2>1, <2>3, StringUnicode
  <2>5. Round(d, w, i) = [d |-> e, len |-> len]
    BY <1>1, <2>4, RoundInside
  <2>6. s \in Symbols /\ Meaning[doc.body[k]] = <<s>>
    BY <1>1, ItemTexts DEF Symbols
  <2> HIDE DEF s
  <2>7. /\ l \in Decoders /\ l.state = d.state /\ l.pending = d.pending
        /\ l.pendingQuote = d.pendingQuote /\ l.out = Append(d.out, s)
    BY <1>1, <2>6, Emitting
  <2> HIDE DEF l
  <2>8. /\ e \in Decoders /\ e.state = l.state /\ e.pending = l.pending
        /\ e.pendingQuote = l.pendingQuote /\ ~e.high /\ e.out = l.out
    BY <2>7 DEF Decoders
  <2> HIDE DEF e
  <2>9. Inside(e)
    BY <1>1, <2>7, <2>8 DEF Inside
  <2>10. e.out = d.out \o <<s>>
    <3>1. d.out \in Seq(Symbols)
      BY <1>1, FieldTypes
    <3>2. Append(d.out, s) = d.out \o <<s>>
      BY <3>1
    <3> QED
      BY <2>7, <2>8, <3>2
  <2>11. At(doc, End(doc, k), e)
    BY <1>1, <2>6, <2>8, <2>9, <2>10, NextItem
  <2>12. len \in Nat \ {0} /\ g + len = End(doc, k) /\ End(doc, k) <= n
    BY <1>3, <2>1
  <2> HIDE DEF len
  <2> QED
    BY <2>5, <2>11, <2>12, ReadItem
<1> QED
  BY <1>4, <1>5

(* The closing quote, and the brace if it came with it. *)
LEMMA QuoteStep ==
    ASSUME NEW doc, Layout(doc), NEW d, Inside(d), NEW m, m = Len(doc.body),
           d.out = Sent(doc, m), NEW n, NEW w, NEW i,
           NEW g, g = End(doc, m), Window(doc.text, g, n, w, i)
    PROVE  Good(doc, g, n, Round(d, w, i))
<1>1. doc.text[g + 1] = "q" /\ doc.text[g + 2] = "close" /\ Len(doc.text) = g + 2
  BY DEF Layout, HasEnding
<1>2. n <= g + 2 /\ d \in Decoders
  BY <1>1 DEF Window, Inside
<1>3. /\ w \in Seq(Symbols) /\ i \in 1..Len(w) /\ g \in Nat /\ n \in Nat /\ w[i] = "q"
      /\ g + 1 <= n /\ (n = g + 1 => i = Len(w))
      /\ (n # g + 1 => g + 2 <= n) /\ (n = g + 2 => i + 1 = Len(w))
  BY <1>1, WindowSymbols, SMTT(30)
<1>4. CASE n = g + 1
  <2> DEFINE e == [d EXCEPT !.pendingQuote = TRUE]
             len == 1
  <2>1. StringFrom(d, w, i) = [d |-> e, len |-> len]
    BY <1>3, <1>4, StringQuote
  <2>2. Round(d, w, i) = [d |-> e, len |-> len]
    BY <2>1, RoundInside
  <2>3. /\ e \in Decoders /\ e.state = d.state /\ e.pending = d.pending
        /\ e.pendingQuote /\ e.out = d.out
    BY <1>2 DEF Decoders
  <2> HIDE DEF e
  <2>4. HeldQuote(doc, n, e)
    BY <1>4, <2>3 DEF HeldQuote, Inside
  <2>5. len \in Nat \ {0} /\ g + len = n /\ n <= n
    BY <1>3, <1>4
  <2> HIDE DEF len
  <2>6. Round(d, w, i).d = e /\ Round(d, w, i).len = len
    BY <2>2, RoundTook
  <2>7. Between(doc, n, e)
    BY <2>4 DEF Between
  <2> QED
    BY <2>5, <2>6, <2>7 DEF Good
<1>5. CASE n # g + 1
  <2> DEFINE e == [d EXCEPT !.state = "Completed"]
             len == 2
  <2>1. n = g + 2 /\ g + 2 <= n /\ i + 1 = Len(w)
    BY <1>2, <1>3, <1>5
  <2>2. w[i + 1] = "close"
    BY <1>1, <2>1, WindowSymbols
  <2>3. StringFrom(d, w, i) = [d |-> e, len |-> len]
    BY <1>3, <2>1, <2>2, StringQuote
  <2>4. Round(d, w, i) = [d |-> e, len |-> len]
    BY <2>3, RoundInside
  <2>5. e \in Decoders /\ e.out = d.out /\ e.pending = d.pending /\ e.pendingQuote = d.pendingQuote
    BY <1>2, WithState DEF States
  <2> HIDE DEF e
  <2>6. AtEnd(doc, n, e)
    BY <2>1, <2>5 DEF AtEnd, Inside
  <2>7. len \in Nat \ {0} /\ g + len = n /\ n <= n
    BY <1>3, <2>1
  <2> HIDE DEF len
  <2>8. Round(d, w, i).d = e /\ Round(d, w, i).len = len
    BY <2>4, RoundTook
  <2>9. Between(doc, n, e)
    BY <2>6 DEF Between
  <2> QED
    BY <2>7, <2>8, <2>9 DEF Good
<1> QED
  BY <1>4, <1>5

(* A round over an item, whichever it is. *)
LEMMA ItemStep ==
    ASSUME NEW doc, Layout(doc), NEW k, NEW d, Ready(doc, k, d), NEW n, NEW w, NEW i,
           NEW g, g = End(doc, k - 1), Window(doc.text, g, n, w, i)
    PROVE  Good(doc, g, n, Round(d, w, i))
<1>1. k \in 1..Len(doc.body)
  BY DEF Ready
<1>2. doc.body[k] \in Items /\ doc.body[k] # "rawQuote"
  <2>1. doc.body \in Seq(ClearItems)
    BY DEF Layout, HasString
  <2> QED
    BY <1>1, <2>1, ClearItemsAre DEF ClearItems
<1>3. \/ doc.body[k] \in {"a", "n", "space", "brace", "fence", "rawNewline"}
      \/ doc.body[k] \in {"newline", "quote", "backslash"}
      \/ doc.body[k] = "rune"
      \/ doc.body[k] = "unicode"
      \/ doc.body[k] = "pair"
  BY <1>2, ItemIsOne
<1> QED
  BY <1>3, PlainStep, EscapeStep, RuneStep, UnicodeStep, PairFirstStep

(* From every place a round leads to a place, or to the end of the chunk. *)
LEMMA RoundStep ==
    ASSUME NEW doc, Layout(doc), NEW g, NEW d, At(doc, g, d), NEW n, NEW w, NEW i,
           Window(doc.text, g, n, w, i)
    PROVE  Good(doc, g, n, Round(d, w, i))
<1>1. CASE AtOpening(doc, g, d)
  <2>1. w[i] = doc.text[g + 1] /\ g + 1 <= n
    BY WindowSymbols
  <2>2. Round(d, w, i).len = 1 /\ At(doc, g + 1, Round(d, w, i).d)
    BY <1>1, <2>1, OpeningStep
  <2> DEFINE r == Round(d, w, i)
  <2> HIDE DEF r
  <2>3. r.len = 1 /\ At(doc, g + 1, r.d)
    BY <2>2 DEF r
  <2>4. Good(doc, g, n, r)
    BY <2>1, <2>3 DEF Good
  <2> QED
    BY <2>4 DEF r
<1>2. CASE AtItem(doc, g, d)
  <2>1. PICK k \in 0..Len(doc.body) :
           g = End(doc, k) /\ Inside(d) /\ ~d.high /\ d.out = Sent(doc, k)
    BY <1>2 DEF AtItem
  <2>2. Len(doc.body) \in Nat
    BY DEF Layout, HasString
  <2>3. CASE k = Len(doc.body)
    BY <2>1, <2>3, QuoteStep
  <2>4. CASE k # Len(doc.body)
    <3> DEFINE l == k + 1
    <3>1. l \in 1..Len(doc.body) /\ l - 1 = k
      BY <2>2, <2>4
    <3> HIDE DEF l
    <3>2. Ready(doc, l, d) /\ g = End(doc, l - 1)
      BY <2>1, <3>1 DEF Ready
    <3> QED
      BY <3>2, ItemStep
  <2> QED
    BY <2>3, <2>4
<1>3. CASE AtHalf(doc, g, d)
  <2>1. PICK k \in 1..Len(doc.body) :
          /\ doc.body[k] = "pair" /\ g = End(doc, k - 1) + 3
          /\ Inside(d) /\ d.high /\ d.out = Sent(doc, k - 1)
    BY <1>3 DEF AtHalf
  <2>2. HalfRead(doc, k, d)
    BY <2>1 DEF HalfRead
  <2> QED
    BY <2>1, <2>2, PairSecondStep
<1> QED
  BY <1>1, <1>2, <1>3 DEF At

-----------------------------------------------------------------------------
(* The rounds of one chunk. *)
Works(f, d, w, m) ==
    /\ f[0] = [d |-> d, next |-> 1]
    /\ \A i \in 1..m :
          f[i] = IF f[i - 1].next > i THEN f[i - 1]
                 ELSE [d |-> Round(f[i - 1].d, w, i).d,
                       next |-> i + Round(f[i - 1].d, w, i).len]

(* The work on a chunk, round by round. *)
LEMMA WorkedDefined ==
    ASSUME NEW d, NEW w \in Seq(Symbols)
    PROVE  Works(Worked(d, w), d, w, Len(w))
<1> DEFINE m == Len(w)
           more(r, i) == IF r.next > i THEN r
                         ELSE [d |-> Round(r.d, w, i).d, next |-> i + Round(r.d, w, i).len]
           first == [d |-> d, next |-> 1]
           Upon(f, i) == IF i = 0 THEN first ELSE more(f[i - 1], i)
           I == {j \in Nat : \E f : f = [i \in 0..j |-> Upon(f, i)]}
<1>1. m \in Nat
  OBVIOUS
<1> HIDE DEF more, first
<1>2. 0 \in I
  <2> DEFINE f == [i \in 0..0 |-> first]
  <2>1. f = [i \in 0..0 |-> Upon(f, i)]
    OBVIOUS
  <2>2. \E v : v = [i \in 0..0 |-> Upon(v, i)]
    BY <2>1
  <2> QED
    BY <2>2
<1>3. ASSUME NEW t \in 1..m, t - 1 \in I PROVE t \in I
  <2>1. t \in Nat /\ t - 1 \in Nat
    BY <1>1
  <2>2. PICK f : f = [i \in 0..(t - 1) |-> Upon(f, i)]
    BY <1>3
  <2> DEFINE v == [i \in 0..t |-> Upon(f, i)]
  <2>3. \A i \in 0..t : Upon(v, i) = Upon(f, i)
    <3> SUFFICES ASSUME NEW i \in 0..t PROVE Upon(v, i) = Upon(f, i)
      OBVIOUS
    <3>1. CASE i = 0
      BY <3>1
    <3>2. CASE i # 0
      <4>1. i - 1 \in 0..(t - 1) /\ i - 1 \in 0..t
        BY <2>1, <3>2
      <4>2. v[i - 1] = Upon(f, i - 1)
        BY <4>1
      <4>3. f[i - 1] = [j \in 0..(t - 1) |-> Upon(f, j)][i - 1]
        BY <2>2
      <4>4. f[i - 1] = Upon(f, i - 1)
        BY <4>1, <4>3
      <4>5. v[i - 1] = f[i - 1]
        BY <4>2, <4>4
      <4> HIDE DEF v
      <4> QED
        BY <4>5
    <3> QED
      BY <3>1, <3>2
  <2>4. v = [i \in 0..t |-> Upon(v, i)]
    BY <2>3
  <2>5. \E u : u = [i \in 0..t |-> Upon(u, i)]
    BY <2>4
  <2> QED
    BY <2>1, <2>5
<1>4. m \in I
  <2> HIDE DEF I, m
  <2>1. \A n \in 0..m : n \in I
    BY <1>1, <1>2, <1>3, UpToInduction
  <2> QED
    BY <1>1, <2>1
<1>5. \E f : f = [i \in 0..m |-> Upon(f, i)]
  BY <1>4
<1> DEFINE worked == Worked(d, w)
<1>6. worked = [i \in 0..m |-> Upon(worked, i)]
  <2>1. worked = CHOOSE f : f = [i \in 0..m |-> Upon(f, i)]
    BY DEF Worked, more, first
  <2> HIDE DEF worked
  <2> QED
    BY <1>5, <2>1
<1> HIDE DEF worked
<1>7. \A i \in 0..m : worked[i] = Upon(worked, i)
  BY <1>6
<1>8. worked[0] = first
  <2>1. 0 \in 0..m
    BY <1>1
  <2>2. worked[0] = Upon(worked, 0)
    BY <1>7, <2>1
  <2> QED
    BY <2>2
<1>9. ASSUME NEW i \in 1..m
      PROVE  worked[i] = more(worked[i - 1], i)
  <2>1. i \in 0..m /\ i # 0
    BY <1>1
  <2>2. worked[i] = Upon(worked, i)
    BY <1>7, <2>1
  <2> QED
    BY <2>1, <2>2
<1> QED
  BY <1>8, <1>9 DEF worked, first, more, Works

Part(b, t, g, n) ==
    b \in Seq(Symbols) /\ Len(b) = n - g /\ \A j \in 1..(n - g) : b[j] = t[g + j]

(* The symbols of a part of a document. *)
LEMMA SubSeqIs ==
    ASSUME NEW t \in Seq(Symbols), NEW g \in Nat, NEW n \in Nat, g <= n, n <= Len(t),
           NEW b, b = SubSeq(t, g + 1, n)
    PROVE  Part(b, t, g, n)
BY DEF Part

(* The rest of a chunk is a window. *)
LEMMA RestOfWindow ==
    ASSUME NEW t \in Seq(Symbols), NEW o \in Nat, NEW n \in Nat, n <= Len(t), o <= n,
           NEW w, w = SubSeq(t, o + 1, n), NEW i \in 1..Len(w), NEW g, g = o + i - 1
    PROVE  Window(t, g, n, w, i)
<1>1. w \in Seq(Symbols) /\ Len(w) = n - o /\ \A j \in 1..(n - o) : w[j] = t[o + j]
  OBVIOUS
<1>2. g \in Nat /\ Len(w) - i + 1 = n - g /\ i \in Nat
  BY <1>1
<1>3. ASSUME NEW j \in 1..(n - g) PROVE w[i + j - 1] = t[g + j]
  <2> DEFINE l == i + j - 1
  <2>1. l \in 1..(n - o) /\ o + l = g + j
    BY <1>1, <1>2
  <2> HIDE DEF l
  <2>2. w[l] = t[o + l]
    BY <1>1, <2>1
  <2> QED
    BY <2>1, <2>2 DEF l
<1> DEFINE a == Rest(w, i)
           b == SubSeq(t, g + 1, n)
<1>4. a \in Seq(Symbols) /\ Len(a) = n - g /\ \A j \in 1..(n - g) : a[j] = w[i + j - 1]
  BY <1>1, <1>2 DEF Rest
<1>5. b \in Seq(Symbols) /\ Len(b) = n - g /\ \A j \in 1..(n - g) : b[j] = t[g + j]
  <2>1. g <= n
    BY <1>1, <1>2
  <2>2. b = SubSeq(t, g + 1, n)
    OBVIOUS
  <2> HIDE DEF b
  <2> QED
    BY <1>2, <2>1, <2>2, SubSeqIs DEF Part
<1> HIDE DEF a, b
<1>6. \A j \in 1..(n - g) : a[j] = b[j]
  BY <1>3, <1>4, <1>5
<1>7. a = b
  BY <1>4, <1>5, <1>6
<1> QED
  BY <1>1, <1>2, <1>3, <1>7 DEF a, b, Window

(* A chunk, from a place on: the decoder is between two chunks again. *)
LEMMA ChunkDecoded ==
    ASSUME NEW doc, Layout(doc), NEW o \in Nat, NEW n \in Nat, o <= n, n <= Len(doc.text),
           NEW d, At(doc, o, d), NEW w, w = SubSeq(doc.text, o + 1, n)
    PROVE  Between(doc, n, Worked(d, w)[Len(w)].d)
<1> DEFINE m == Len(w)
           worked == Worked(d, w)
           P(i) == /\ worked[i].next \in (i + 1)..(m + 1)
                   /\ \/ At(doc, o + worked[i].next - 1, worked[i].d)
                      \/ worked[i].next = m + 1 /\ Between(doc, n, worked[i].d)
           I == {i \in 0..m : P(i)}
<1>1. doc.text \in Seq(Symbols)
  BY DEF Layout
<1>2. w \in Seq(Symbols) /\ m = n - o /\ m \in Nat
  BY <1>1
<1>3. Works(worked, d, w, m)
  BY <1>2, WorkedDefined
<1> HIDE DEF worked, m
<1>4. P(0)
  <2>1. worked[0].d = d /\ worked[0].next = 1
    BY <1>3 DEF Works
  <2>2. o + worked[0].next - 1 = o
    BY <2>1
  <2>3. worked[0].next \in (0 + 1)..(m + 1)
    BY <1>2, <2>1
  <2> QED
    BY <2>1, <2>2, <2>3
<1>5. ASSUME NEW i \in 1..m, P(i - 1) PROVE P(i)
  <2> DEFINE r == worked[i - 1]
  <2>1. i \in Nat /\ i <= m /\ r.next \in i..(m + 1) /\ r.next \in Nat
    <3>1. i \in Nat /\ i <= m /\ (i - 1) + 1 = i
      BY <1>2
    <3>2. r.next \in ((i - 1) + 1)..(m + 1)
      BY <1>5
    <3> QED
      BY <1>2, <3>1, <3>2
  <2>2. \/ At(doc, o + r.next - 1, r.d)
        \/ r.next = m + 1 /\ Between(doc, n, r.d)
    BY <1>5
  <2>3. worked[i] = IF r.next > i THEN r
                    ELSE [d |-> Round(r.d, w, i).d, next |-> i + Round(r.d, w, i).len]
    BY <1>3 DEF Works
  <2> HIDE DEF r
  <2>4. CASE r.next > i
    <3>1. worked[i] = r
      BY <2>3, <2>4
    <3>2. r.next \in (i + 1)..(m + 1)
      BY <1>2, <2>1, <2>4
    <3> QED
      BY <2>2, <3>1, <3>2
  <2>5. CASE ~(r.next > i)
    <3>1. r.next = i
      BY <2>1, <2>5
    <3> DEFINE g == o + i - 1
               s == Round(r.d, w, i)
    <3>2. At(doc, g, r.d)
      BY <1>2, <2>1, <2>2, <3>1
    <3>3. Window(doc.text, g, n, w, i)
      <4>1. i \in 1..Len(w)
        BY DEF m
      <4> HIDE DEF g
      <4>2. g = o + i - 1
        BY DEF g
      <4> DEFINE t == doc.text
      <4>3. t \in Seq(Symbols) /\ w = SubSeq(t, o + 1, n) /\ n <= Len(t)
        BY <1>1
      <4> HIDE DEF t
      <4>4. Window(t, g, n, w, i)
        BY <4>1, <4>2, <4>3, RestOfWindow
      <4> QED
        BY <4>4 DEF t
    <3> HIDE DEF s
    <3>4. Good(doc, g, n, s)
      <4> HIDE DEF g
      <4> QED
        BY <3>2, <3>3, RoundStep DEF s
    <3>5. worked[i] = [d |-> s.d, next |-> i + s.len]
      BY <2>3, <2>5 DEF s
    <3> DEFINE next == i + s.len
    <3>6. worked[i].d = s.d /\ worked[i].next = next
      BY <3>5
    <3>7. s.len \in Nat /\ s.len >= 1 /\ g + s.len <= n
          /\ (At(doc, g + s.len, s.d) \/ (g + s.len = n /\ Between(doc, n, s.d)))
      <4> HIDE DEF g
      <4> QED
        BY <3>4 DEF Good
    <3>8. next \in (i + 1)..(m + 1) /\ o + next - 1 = g + s.len
      BY <1>2, <2>1, <3>7
    <3>9. g + s.len = n => next = m + 1
      BY <1>2, <2>1, <3>7
    <3> HIDE DEF next, g
    <3>10. \/ At(doc, o + next - 1, s.d)
           \/ next = m + 1 /\ Between(doc, n, s.d)
      BY <3>7, <3>8, <3>9
    <3> QED
      BY <3>6, <3>8, <3>10
  <2> QED
    BY <2>4, <2>5
<1>6. \A i \in 0..m : i \in I
  <2> HIDE DEF P
  <2>1. 0 \in I
    BY <1>2, <1>4
  <2>2. \A i \in 1..m : i - 1 \in I => i \in I
    BY <1>2, <1>5
  <2> HIDE DEF I
  <2> QED
    BY <1>2, <2>1, <2>2, UpToInduction
<1>7. P(m)
  <2>1. m \in 0..m
    BY <1>2
  <2>2. m \in I
    BY <1>6, <2>1
  <2> HIDE DEF P
  <2> QED
    BY <2>2
<1>8. worked[m].next = m + 1 /\ o + worked[m].next - 1 = n
  <2>1. worked[m].next \in (m + 1)..(m + 1)
    BY <1>7
  <2>2. worked[m].next = m + 1
    BY <1>2, <2>1
  <2>3. o + (m + 1) - 1 = n
    BY <1>2
  <2> QED
    BY <2>2, <2>3
<1>9. At(doc, n, worked[m].d) \/ Between(doc, n, worked[m].d)
  BY <1>7, <1>8
<1>10. Between(doc, n, worked[m].d)
  BY <1>9 DEF Between
<1> QED
  BY <1>10 DEF worked, m

-----------------------------------------------------------------------------
(* The next chunk. *)
Alike(d, e) ==
    /\ e \in Decoders /\ e.state = d.state /\ e.key = d.key /\ e.pending = d.pending
    /\ e.pendingQuote = d.pendingQuote /\ e.high = d.high /\ e.out = d.out

(* A decoder at a place holds nothing back. *)
LEMMA AtTyped ==
    ASSUME NEW doc, NEW g, NEW d, At(doc, g, d)
    PROVE  d \in Decoders /\ d.pending = <<>>
BY DEF At, AtOpening, AtItem, AtHalf, Waiting, Inside

(* A decoder between two places is a decoder. *)
LEMMA BetweenTyped ==
    ASSUME NEW doc, NEW n, NEW d, Between(doc, n, d)
    PROVE  d \in Decoders
BY AtTyped DEF Between, HeldItem, HeldQuote, AtEnd

(* Being at a place does not depend on the note of what was emitted. *)
LEMMA AtAlike ==
    ASSUME NEW doc, NEW g, NEW d, NEW e, At(doc, g, d), Alike(d, e)
    PROVE  At(doc, g, e)
<1>1. \A s : Waiting(d, s) => Waiting(e, s)
  BY DEF Waiting, Alike
<1>2. Inside(d) => Inside(e)
  BY DEF Inside, Alike
<1>3. AtOpening(doc, g, d) => AtOpening(doc, g, e)
  BY <1>1 DEF AtOpening, Alike
<1>4. AtItem(doc, g, d) => AtItem(doc, g, e)
  BY <1>2 DEF AtItem, Alike
<1>5. AtHalf(doc, g, d) => AtHalf(doc, g, e)
  BY <1>2 DEF AtHalf, Alike
<1> QED
  BY <1>3, <1>4, <1>5 DEF At

(* Nor does being between two. *)
LEMMA BetweenAlike ==
    ASSUME NEW doc, NEW n, NEW d, NEW e, Between(doc, n, d), Alike(d, e)
    PROVE  Between(doc, n, e)
<1>1. At(doc, n, d) => At(doc, n, e)
  BY AtAlike
<1>2. HeldItem(doc, n, d) => HeldItem(doc, n, e)
  BY DEF HeldItem, Alike
<1>3. HeldQuote(doc, n, d) => HeldQuote(doc, n, e)
  BY DEF HeldQuote, Alike
<1>4. AtEnd(doc, n, d) => AtEnd(doc, n, e)
  BY DEF AtEnd, Alike
<1> QED
  BY <1>1, <1>2, <1>3, <1>4 DEF Between

(* Two parts of a document that follow each other are one. *)
LEMMA JoinedParts ==
    ASSUME NEW t \in Seq(Symbols), NEW g \in Nat, NEW p \in Nat, NEW n \in Nat,
           g <= p, p <= n, n <= Len(t),
           NEW a, a = SubSeq(t, g + 1, p), NEW b, b = SubSeq(t, p + 1, n)
    PROVE  a \o b = SubSeq(t, g + 1, n)
<1>1. a \in Seq(Symbols) /\ Len(a) = p - g /\ \A j \in 1..(p - g) : a[j] = t[g + j]
  <2>1. p <= Len(t)
    OBVIOUS
  <2>2. Part(a, t, g, p)
    BY <2>1, SubSeqIs
  <2> QED
    BY <2>2 DEF Part
<1>2. b \in Seq(Symbols) /\ Len(b) = n - p /\ \A j \in 1..(n - p) : b[j] = t[p + j]
  <2>1. Part(b, t, p, n)
    BY SubSeqIs
  <2> QED
    BY <2>1 DEF Part
<1> DEFINE w == a \o b
           c == SubSeq(t, g + 1, n)
<1>3. c \in Seq(Symbols) /\ Len(c) = n - g /\ \A j \in 1..(n - g) : c[j] = t[g + j]
  <2>1. g <= n /\ c = SubSeq(t, g + 1, n)
    OBVIOUS
  <2> HIDE DEF c
  <2> QED
    BY <2>1, SubSeqIs DEF Part
<1>4. Joined(w, a, b)
  BY <1>1, <1>2, PutTogether
<1> HIDE DEF w, c
<1>5. w \in Seq(Symbols) /\ Len(w) = n - g
  BY <1>1, <1>2, <1>4 DEF Joined
<1>6. ASSUME NEW j \in 1..(n - g) PROVE w[j] = c[j]
  <2>1. CASE j <= p - g
    <3>1. j \in 1..(p - g) /\ j \in 1..Len(a)
      BY <1>1, <2>1
    <3> QED
      BY <1>1, <1>3, <1>4, <3>1 DEF Joined
  <2>2. CASE ~(j <= p - g)
    <3> DEFINE l == j - (p - g)
    <3>1. l \in 1..(n - p) /\ p + l = g + j /\ Len(a) + l = j /\ l \in 1..Len(b)
      BY <1>1, <1>2, <2>2
    <3> HIDE DEF l
    <3>2. w[Len(a) + l] = b[l]
      BY <1>4, <3>1 DEF Joined
    <3>3. b[l] = t[p + l]
      BY <1>2, <3>1
    <3> QED
      BY <1>3, <3>1, <3>2, <3>3
  <2> QED
    BY <2>1, <2>2
<1>7. w = c
  BY <1>3, <1>5, <1>6
<1> QED
  BY <1>7 DEF w, c

(* A text of one symbol. *)
LEMMA OnlyOne ==
    ASSUME NEW s \in Seq(Symbols), Len(s) = 1, NEW x, s[1] = x
    PROVE  s = <<x>>
OBVIOUS

(* Noting what was emitted leaves a decoder where it is. *)
LEMMA EmittedAlike ==
    ASSUME NEW e \in Decoders, NEW b, NEW f, f = [e EXCEPT !.contentEmitted = @ \/ b]
    PROVE  Alike(e, f)
<1> DEFINE x == e.contentEmitted \/ b
<1>1. x \in BOOLEAN
  OBVIOUS
<1>2. f = [e EXCEPT !.contentEmitted = x]
  OBVIOUS
<1> HIDE DEF x
<1> QED
  BY <1>1, <1>2 DEF Alike, Decoders

(* A decoder whose symbols held back are put before the next chunk. *)
LEMMA Released ==
    ASSUME NEW d \in Decoders, NEW c, c = [d EXCEPT !.pending = <<>>]
    PROVE  /\ c \in Decoders /\ c.state = d.state /\ c.key = d.key /\ c.pending = <<>>
           /\ c.pendingQuote = d.pendingQuote /\ c.high = d.high /\ c.out = d.out
<1>1. <<>> \in Seq(Symbols)
  BY KeyTypes
<1> QED
  BY <1>1 DEF Decoders

(* After a quote at the end of a chunk comes the brace. *)
Braced(d, e) == e \in Decoders /\ e.out = d.out /\ e.pending = d.pending /\ ~e.pendingQuote

(* Behind a quote that was held back a brace alone ends the string. *)
LEMMA BraceAfterQuote ==
    ASSUME NEW d \in Decoders, d.state = "InString", d.pendingQuote,
           NEW w \in Seq(Symbols), Len(w) = 1, BraceFirst(w),
           NEW e, e = Worked(d, w)[Len(w)].d
    PROVE  Braced(d, e)
<1>1. Rest(w, 1) = w
  BY RestIsAll
<1> DEFINE f == Worked(d, w)
           m == 1
<1>2. Works(f, d, w, m)
  BY WorkedDefined
<1>3. m \in 1..m /\ m - 1 = 0 /\ m = 1
  OBVIOUS
<1>4. e = f[m].d
  OBVIOUS
<1> HIDE DEF f, m
<1>5. f[0] = [d |-> d, next |-> 1]
  BY <1>2 DEF Works
<1>6. f[m] = IF f[0].next > m THEN f[0]
             ELSE [d |-> Round(f[0].d, w, m).d, next |-> m + Round(f[0].d, w, m).len]
  BY <1>2, <1>3 DEF Works
<1>7. f[m].d = Round(d, w, m).d
  <2>1. f[0].next = 1 /\ f[0].d = d
    BY <1>5
  <2> QED
    BY <1>3, <1>6, <2>1
<1> DEFINE c == [d EXCEPT !.state = "InString"]
           b == [c EXCEPT !.pendingQuote = FALSE]
           a == [b EXCEPT !.state = "Completed"]
<1>8. Round(d, w, 1).d = a
  <2>1. Round(d, w, 1) = InString(d, w, 1)
    BY DEF Round
  <2>2. InString(d, w, 1).d = a
    <3>1. c.pendingQuote
      BY DEF Decoders
    <3> QED
      BY <1>1, <3>1 DEF InString
  <2> QED
    BY <2>1, <2>2
<1>9. c \in Decoders /\ c.out = d.out /\ c.pending = d.pending
  BY WithState DEF States
<1> HIDE DEF c
<1>10. b \in Decoders /\ b.out = d.out /\ b.pending = d.pending /\ ~b.pendingQuote
  BY <1>9 DEF Decoders
<1> HIDE DEF b
<1>11. a \in Decoders /\ a.out = d.out /\ a.pending = d.pending /\ ~a.pendingQuote
  BY <1>10, WithState DEF States
<1> HIDE DEF a
<1> QED
  BY <1>3, <1>4, <1>7, <1>8, <1>11 DEF Braced

(* Feeding any chunk leaves the decoder where its text ends. *)
LEMMA FeedStep ==
    ASSUME NEW doc, Layout(doc), NEW p \in Nat, NEW n \in Nat, p < n, n <= Len(doc.text),
           NEW d, Between(doc, p, d), NEW chunk, chunk = SubSeq(doc.text, p + 1, n)
    PROVE  Between(doc, n, Feed(d, chunk))
<1> DEFINE t == doc.text
           w == d.pending \o chunk
           c == [d EXCEPT !.pending = <<>>]
           e == Worked(c, w)[Len(w)].d
           f == Feed(d, chunk)
           b == e.out # d.out
<1>1. t \in Seq(Symbols) /\ chunk = SubSeq(t, p + 1, n) /\ n <= Len(t) /\ p <= n
  BY DEF Layout
<1>2. d \in Decoders
  BY BetweenTyped
<1>3. /\ c \in Decoders /\ c.state = d.state /\ c.key = d.key /\ c.pending = <<>>
      /\ c.pendingQuote = d.pendingQuote /\ c.high = d.high /\ c.out = d.out
  BY <1>2, Released
<1>4. f = [e EXCEPT !.contentEmitted = @ \/ b]
  BY DEF Feed
<1>5. chunk \in Seq(Symbols) /\ Len(chunk) = n - p /\ \A j \in 1..(n - p) : chunk[j] = t[p + j]
  <2> HIDE DEF t
  <2>1. Part(chunk, t, p, n)
    BY <1>1, SubSeqIs
  <2> QED
    BY <2>1 DEF Part
<1> HIDE DEF c, f, b
<1> SUFFICES Between(doc, n, e)
  <2> HIDE DEF e
  <2>1. e \in Decoders
    BY BetweenTyped
  <2>2. Alike(e, f)
    BY <1>4, <2>1, EmittedAlike
  <2> QED
    BY <2>2, BetweenAlike DEF f
<1>6. CASE At(doc, p, d)
  <2>1. d.pending = <<>>
    BY <1>6, AtTyped
  <2>2. w = chunk
    BY <1>5, <2>1
  <2>3. Alike(d, c)
    BY <1>3, <2>1 DEF Alike
  <2>4. At(doc, p, c)
    BY <1>6, <2>3, AtAlike
  <2>5. w = SubSeq(doc.text, p + 1, n)
    BY <2>2
  <2> HIDE DEF w
  <2> QED
    BY <1>1, <2>4, <2>5, ChunkDecoded
<1>7. CASE HeldItem(doc, p, d)
  <2>0. PICK k \in 1..Len(doc.body) : \E g \in End(doc, k - 1)..(p - 1) :
           /\ p < End(doc, k)
           /\ \/ g = End(doc, k - 1) /\ ~d.high
              \/ doc.body[k] = "pair" /\ g = End(doc, k - 1) + 3 /\ d.high
           /\ d \in Decoders /\ d.state = "InString" /\ ~d.pendingQuote
           /\ d.out = Sent(doc, k - 1) /\ d.pending = SubSeq(doc.text, g + 1, p)
    BY <1>7 DEF HeldItem
  <2>1. PICK g \in End(doc, k - 1)..(p - 1) :
           /\ p < End(doc, k)
           /\ \/ g = End(doc, k - 1) /\ ~d.high
              \/ doc.body[k] = "pair" /\ g = End(doc, k - 1) + 3 /\ d.high
           /\ d \in Decoders /\ d.state = "InString" /\ ~d.pendingQuote
           /\ d.out = Sent(doc, k - 1) /\ d.pending = SubSeq(doc.text, g + 1, p)
    BY <2>0
  <2>2. End(doc, k - 1) \in Nat
    BY ItemText
  <2>3. g \in Nat /\ g <= p /\ g <= n
    BY <1>1, <2>1, <2>2
  <2>4. Inside(c)
    BY <1>3, <2>1 DEF Inside
  <2>5. At(doc, g, c)
    <3>1. CASE g = End(doc, k - 1) /\ ~d.high
      <4> DEFINE l == k - 1
      <4>1. l \in 0..Len(doc.body)
        OBVIOUS
      <4>2. g = End(doc, l) /\ ~c.high /\ c.out = Sent(doc, l)
        BY <1>3, <2>1, <3>1
      <4> HIDE DEF l
      <4>3. AtItem(doc, g, c)
        BY <2>4, <4>1, <4>2 DEF AtItem
      <4> QED
        BY <4>3 DEF At
    <3>2. CASE doc.body[k] = "pair" /\ g = End(doc, k - 1) + 3 /\ d.high
      <4>1. AtHalf(doc, g, c)
        BY <1>3, <2>1, <2>4, <3>2 DEF AtHalf
      <4> QED
        BY <4>1 DEF At
    <3> QED
      BY <2>1, <3>1, <3>2
  <2>6. w = SubSeq(t, g + 1, n)
    <3> DEFINE a == d.pending
    <3>1. a = SubSeq(t, g + 1, p)
      BY <2>1
    <3> HIDE DEF a, t
    <3>2. a \o chunk = SubSeq(t, g + 1, n)
      BY <1>1, <2>3, <3>1, JoinedParts
    <3> QED
      BY <3>2 DEF a
  <2> HIDE DEF w
  <2> QED
    BY <1>1, <2>3, <2>5, <2>6, ChunkDecoded
<1>8. CASE HeldQuote(doc, p, d)
  <2> DEFINE m == Len(doc.body)
  <2>1. /\ p = End(doc, m) + 1 /\ d.state = "InString" /\ d.pending = <<>> /\ d.pendingQuote
        /\ d.out = Sent(doc, m)
    BY <1>8 DEF HeldQuote
  <2>2. t[End(doc, m) + 2] = "close" /\ Len(t) = End(doc, m) + 2
    BY DEF Layout, HasEnding
  <2>3. End(doc, m) \in Nat
    <3>1. m \in 0..m
      BY DEF Layout, HasString
    <3> QED
      BY <3>1 DEF Layout, HasString
  <2> HIDE DEF m
  <2>4. n = p + 1 /\ n = End(doc, m) + 2 /\ p + 1 = End(doc, m) + 2
    BY <1>1, <2>1, <2>2, <2>3
  <2>5. Len(chunk) = 1 /\ chunk[1] = "close"
    <3>1. n - p = 1
      BY <2>4
    <3>2. chunk[1] = t[p + 1]
      BY <1>5, <3>1
    <3> QED
      BY <1>5, <2>2, <2>4, <3>1, <3>2
  <2>6. w = chunk
    BY <1>5, <2>1
  <2>7. w = <<"close">> /\ w \in Seq(Symbols) /\ Len(w) = 1
    <3> HIDE DEF w
    <3>1. chunk = <<"close">>
      BY <1>5, <2>5, OnlyOne
    <3> QED
      BY <1>5, <2>5, <2>6, <3>1
  <2> HIDE DEF w
  <2>8. BraceFirst(w)
    BY <2>7, BraceIsFirst
  <2>9. e \in Decoders /\ e.out = c.out /\ e.pending = <<>> /\ ~e.pendingQuote
    <3>1. c.state = "InString" /\ c.pendingQuote
      BY <1>3, <2>1
    <3>2. w \in Seq(Symbols) /\ Len(w) = 1
      BY <2>7
    <3>3. Braced(c, e)
      BY <1>3, <2>8, <3>1, <3>2, BraceAfterQuote
    <3> HIDE DEF e
    <3> QED
      BY <1>3, <3>3 DEF Braced
  <2> HIDE DEF e
  <2>10. AtEnd(doc, n, e)
    BY <1>3, <2>1, <2>4, <2>9 DEF AtEnd, m
  <2> QED
    BY <2>10 DEF Between
<1>9. CASE AtEnd(doc, p, d)
  <2>1. Len(doc.text) = p
    BY <1>9 DEF AtEnd, Layout, HasEnding
  <2> QED
    BY <2>1
<1> QED
  BY <1>6, <1>7, <1>8, <1>9 DEF Between

-----------------------------------------------------------------------------
(* What the client has: the items whose text was read to its end.          *)
LEMMA EndsGrowStrictly ==
    ASSUME NEW doc, Layout(doc), NEW k \in 1..Len(doc.body)
    PROVE  End(doc, k - 1) < End(doc, k)
<1>1. /\ End(doc, k - 1) \in Nat /\ doc.body[k] \in Items
      /\ End(doc, k) = End(doc, k - 1) + Len(Source[doc.body[k]])
  BY ItemText
<1> DEFINE x == doc.body[k]
           len == Len(Source[x])
           before == End(doc, k - 1)
<1>2. len \in 1..6
  <2> HIDE DEF x
  <2> QED
    BY <1>1, TextsTyped DEF x
<1>3. before \in Nat /\ End(doc, k) = before + len
  BY <1>1
<1> HIDE DEF len, before
<1>4. before < End(doc, k)
  BY <1>2, <1>3
<1> QED
  BY <1>4 DEF before

(* Items end in the order of the body. *)
LEMMA EndsGrow ==
    ASSUME NEW doc, Layout(doc)
    PROVE  \A l \in 0..Len(doc.body) : \A k \in 0..l : End(doc, k) <= End(doc, l)
<1> DEFINE m == Len(doc.body)
           P(l) == \A k \in 0..l : End(doc, k) <= End(doc, l)
           I == {l \in 0..m : P(l)}
<1>1. m \in Nat /\ \A k \in 0..m : End(doc, k) \in Nat
  BY DEF Layout, HasString
<1>2. \A k \in 1..m : End(doc, k - 1) < End(doc, k)
  BY EndsGrowStrictly
<1> HIDE DEF m
<1>3. P(0)
  <2>1. 0 \in 0..m
    BY <1>1
  <2>2. End(doc, 0) \in Nat
    BY <1>1, <2>1
  <2> QED
    BY <2>2
<1>4. ASSUME NEW l \in 1..m, P(l - 1) PROVE P(l)
  <2> SUFFICES ASSUME NEW k \in 0..l PROVE End(doc, k) <= End(doc, l)
    OBVIOUS
  <2>1. k \in 0..m /\ l \in 0..m /\ l - 1 \in 0..m /\ (k = l \/ k \in 0..(l - 1))
    BY <1>1
  <2>2. End(doc, k) \in Nat /\ End(doc, l) \in Nat /\ End(doc, l - 1) \in Nat
    BY <1>1, <2>1
  <2>3. CASE k = l
    BY <2>2, <2>3
  <2>4. CASE k \in 0..(l - 1)
    <3>1. End(doc, k) <= End(doc, l - 1)
      BY <1>4, <2>4
    <3>2. End(doc, l - 1) < End(doc, l)
      BY <1>2
    <3> QED
      BY <2>2, <3>1, <3>2
  <2> QED
    BY <2>1, <2>3, <2>4
<1>5. \A l \in 0..m : l \in I
  <2> HIDE DEF P
  <2>1. 0 \in I
    BY <1>1, <1>3
  <2>2. \A l \in 1..m : l - 1 \in I => l \in I
    BY <1>1, <1>4
  <2> HIDE DEF I
  <2> QED
    BY <1>1, <2>1, <2>2, UpToInduction
<1> QED
  BY <1>5 DEF m

(* The first j items are complete in n symbols, and no more. *)
ReadToEnd(doc, n, j) ==
    /\ j \in 0..Len(doc.body)
    /\ j = 0 \/ End(doc, j) <= n
    /\ j = Len(doc.body) \/ n < End(doc, j + 1)

(* The items read to their end are those the property counts. *)
LEMMA Counted ==
    ASSUME NEW doc, Layout(doc), NEW n \in Nat, NEW j, ReadToEnd(doc, n, j)
    PROVE  ItemsIn(doc.body, doc.start, n) = j
<1> DEFINE m == Len(doc.body)
           S == {k \in 1..m : End(doc, k) <= n}
<1>1. m \in Nat /\ \A k \in 0..m : End(doc, k) \in Nat
  BY DEF Layout, HasString
<1>2. DOMAIN doc.body = 1..m
  BY DEF Layout, HasString
<1>3. ItemsIn(doc.body, doc.start, n) = Cardinality(S)
  BY <1>2 DEF ItemsIn, End
<1>4. j \in 0..m /\ j \in Nat /\ (j = 0 \/ End(doc, j) <= n) /\ (j = m \/ n < End(doc, j + 1))
  BY <1>1 DEF ReadToEnd
<1>5. \A l \in 0..m : \A k \in 0..l : End(doc, k) <= End(doc, l)
  BY EndsGrow
<1> HIDE DEF m
<1>6. ASSUME NEW k \in 1..m PROVE k \in 1..j <=> End(doc, k) <= n
  <2>1. k \in 0..m /\ End(doc, k) \in Nat
    BY <1>1
  <2>2. CASE k <= j
    <3>1. k \in 0..j /\ j # 0 /\ End(doc, j) \in Nat
      BY <1>1, <1>4, <2>1, <2>2
    <3>2. End(doc, k) <= End(doc, j)
      BY <1>4, <1>5, <3>1
    <3> QED
      BY <1>4, <2>1, <2>2, <3>1, <3>2
  <2>3. CASE ~(k <= j)
    <3> DEFINE i == j + 1
    <3>1. i \in 0..k /\ j # m /\ i \in 0..m
      BY <1>1, <1>4, <2>1, <2>3
    <3>2. n < End(doc, i)
      BY <1>4, <3>1
    <3> HIDE DEF i
    <3>3. End(doc, i) <= End(doc, k) /\ End(doc, i) \in Nat
      BY <1>1, <1>5, <2>1, <3>1
    <3> QED
      BY <2>1, <2>3, <3>2, <3>3
  <2> QED
    BY <1>1, <1>4, <2>2, <2>3
<1>7. S = 1..j
  BY <1>1, <1>4, <1>6
<1>8. Cardinality(1..j) = j
  BY <1>4, FS_Interval
<1> QED
  BY <1>3, <1>7, <1>8

(* What was sent are the items read to their end. *)
LEMMA Delivered ==
    ASSUME NEW doc, Layout(doc), NEW n \in Nat, NEW d, Between(doc, n, d)
    PROVE  \E j \in 0..Len(doc.body) : ReadToEnd(doc, n, j) /\ d.out = Sent(doc, j)
<1> DEFINE m == Len(doc.body)
<1>1. m \in Nat /\ (\A k \in 0..m : End(doc, k) \in Nat) /\ End(doc, 0) = doc.start
  BY DEF Layout, HasString
<1>2. \A l \in 0..m : \A k \in 0..l : End(doc, k) <= End(doc, l)
  BY EndsGrow
<1>3. CASE AtOpening(doc, n, d)
  <2>1. n \in 0..(doc.start - 1) /\ d.out = <<>>
    <3>1. Colon(doc) \in {5, 6} /\ doc.start \in {Colon(doc) + 1, Colon(doc) + 2}
      BY DEF Layout, HasOpening
    <3> QED
      BY <1>3, <3>1 DEF AtOpening, Waiting
  <2>2. Sent(doc, 0) = <<>>
    <3>1. doc.body \in Seq(Items)
      BY ClearItemsAre DEF Layout, HasString
    <3> QED
      BY <3>1, FlatMeaning DEF Sent
  <2>3. m = 0 \/ n < End(doc, 1)
    <3>1. ASSUME m # 0 PROVE n < End(doc, 1)
      <4>1. 1 \in 0..m /\ 0 \in 0..1 /\ 0 \in 0..m
        BY <1>1, <3>1
      <4>2. End(doc, 0) <= End(doc, 1) /\ End(doc, 0) \in Nat /\ End(doc, 1) \in Nat
        BY <1>1, <1>2, <4>1
      <4> QED
        BY <1>1, <2>1, <4>2
    <3> QED
      BY <3>1
  <2> DEFINE j == 0
  <2>4. j \in 0..m /\ j = 0 /\ (j = m \/ n < End(doc, j + 1))
    BY <1>1, <2>3
  <2>5. d.out = Sent(doc, j)
    BY <2>1, <2>2
  <2> HIDE DEF j
  <2> QED
    BY <2>4, <2>5 DEF ReadToEnd
<1>4. ASSUME NEW k \in 1..m, End(doc, k - 1) <= n, n < End(doc, k), d.out = Sent(doc, k - 1)
      PROVE  \E j \in 0..m : ReadToEnd(doc, n, j) /\ d.out = Sent(doc, j)
  <2> DEFINE j == k - 1
  <2>1. j \in 0..m /\ j + 1 = k
    BY <1>1
  <2>2. End(doc, j) <= n /\ n < End(doc, j + 1) /\ d.out = Sent(doc, j)
    BY <1>4, <2>1
  <2> HIDE DEF j
  <2> QED
    BY <2>1, <2>2 DEF ReadToEnd
<1>5. ASSUME End(doc, m) <= n, d.out = Sent(doc, m)
      PROVE  \E j \in 0..m : ReadToEnd(doc, n, j) /\ d.out = Sent(doc, j)
  <2>1. m \in 0..m
    BY <1>1
  <2> QED
    BY <1>5, <2>1 DEF ReadToEnd
<1> HIDE DEF m
<1>6. CASE AtItem(doc, n, d)
  <2>1. PICK k \in 0..m : n = End(doc, k) /\ d.out = Sent(doc, k)
    BY <1>6 DEF AtItem, m
  <2>2. CASE k = m
    BY <1>5, <2>1, <2>2 DEF m
  <2>3. CASE k # m
    <3> DEFINE i == k + 1
    <3>1. i \in 1..m /\ i - 1 = k
      BY <1>1, <2>3
    <3> HIDE DEF i
    <3>2. End(doc, i - 1) < End(doc, i)
      BY <3>1, EndsGrowStrictly DEF m
    <3>3. End(doc, i - 1) <= n /\ n < End(doc, i) /\ d.out = Sent(doc, i - 1)
      BY <2>1, <3>1, <3>2
    <3> QED
      BY <1>4, <3>1, <3>3 DEF m
  <2> QED
    BY <2>2, <2>3
<1>7. CASE AtHalf(doc, n, d)
  <2>1. PICK k \in 1..m :
          doc.body[k] = "pair" /\ n = End(doc, k - 1) + 3 /\ d.out = Sent(doc, k - 1)
    BY <1>7 DEF AtHalf, m
  <2> DEFINE g == End(doc, k - 1)
  <2>2. g \in Nat /\ End(doc, k) = g + 6
    BY <2>1, PairSymbols DEF m
  <2>3. g <= n /\ n < End(doc, k)
    BY <2>1, <2>2
  <2> QED
    BY <1>4, <2>1, <2>3 DEF m
<1>8. CASE HeldItem(doc, n, d)
  <2>1. PICK k \in 1..m : \E g \in End(doc, k - 1)..(n - 1) :
           n < End(doc, k) /\ d.out = Sent(doc, k - 1)
    BY <1>8 DEF HeldItem, m
  <2>2. PICK g \in End(doc, k - 1)..(n - 1) : n < End(doc, k) /\ d.out = Sent(doc, k - 1)
    BY <2>1
  <2>3. End(doc, k - 1) \in Nat
    BY ItemText DEF m
  <2>4. End(doc, k - 1) <= n
    BY <2>2, <2>3
  <2> QED
    BY <1>4, <2>2, <2>4 DEF m
<1>9. CASE HeldQuote(doc, n, d) \/ AtEnd(doc, n, d)
  <2>1. (n = End(doc, m) + 1 \/ n = End(doc, m) + 2) /\ d.out = Sent(doc, m)
    BY <1>9 DEF HeldQuote, AtEnd, m
  <2>2. m \in 0..m
    BY <1>1
  <2>3. End(doc, m) \in Nat
    BY <1>1, <2>2
  <2>4. End(doc, m) <= n
    BY <2>1, <2>3
  <2> QED
    BY <1>5, <2>1, <2>4 DEF m
<1> QED
  BY <1>3, <1>6, <1>7, <1>8, <1>9 DEF Between, At, m

-----------------------------------------------------------------------------
(* Nothing is needed beside where the decoder is between two chunks.       *)
DecoderInvariant ==
    /\ document \in Documents /\ pos \in 0..Len(document.text)
    /\ ~finished => Between(document, pos, decoder)

(* A new decoder is before the document. *)
LEMMA NewBetween ==
    ASSUME NEW doc
    PROVE  Between(doc, 0, New)
<1>1. <<>> \in Seq(Symbols) /\ "Init" \in States
  BY KeyTypes DEF States
<1>2. New \in Decoders
  BY <1>1 DEF New, Decoders
<1>3. Waiting(New, "Init") /\ New.key = <<>>
  BY <1>2 DEF New, Waiting
<1>4. AtOpening(doc, 0, New)
  BY <1>3 DEF AtOpening
<1> QED
  BY <1>4 DEF Between, At

(* The invariant, if the bodies are sequences of items that are not        *)
(* ambiguous and there is no white space before the closing brace: the     *)
(* decoder delivers too much when there is (MCStreamDecoderSpaced).        *)
THEOREM Invariant ==
    ASSUME Bodies \subseteq Seq(ClearItems), \A g \in Gaps : ~g["beforeBrace"]
    PROVE  Spec => []DecoderInvariant
<1>1. Init => DecoderInvariant
  <2> SUFFICES ASSUME Init PROVE DecoderInvariant
    OBVIOUS
  <2>1. document \in Documents /\ pos = 0 /\ decoder = New
    BY DEF Init
  <2>2. Len(document.text) \in Nat
    BY <2>1, DocumentLayout DEF Layout
  <2> QED
    BY <2>1, <2>2, NewBetween DEF DecoderInvariant
<1>2. DecoderInvariant /\ [Next]_vars => DecoderInvariant'
  <2> SUFFICES ASSUME DecoderInvariant, [Next]_vars PROVE DecoderInvariant'
    OBVIOUS
  <2>1. Layout(document) /\ document.text \in Seq(Symbols)
    BY DocumentLayout DEF DecoderInvariant, Layout
  <2>2. CASE FeedChunk
    <3>1. /\ ~finished /\ document' = document /\ finished' = finished
          /\ document \in Documents /\ pos \in 0..Len(document.text)
      BY <2>2 DEF FeedChunk, DecoderInvariant
    <3>2. PICK n \in (pos + 1)..Len(document.text) :
             decoder' = Feed(decoder, SubSeq(document.text, pos + 1, n)) /\ pos' = n
      BY <2>2 DEF FeedChunk
    <3> DEFINE chunk == SubSeq(document.text, pos + 1, n)
    <3>3. pos \in Nat /\ n \in Nat /\ pos < n /\ n <= Len(document.text)
          /\ n \in 0..Len(document.text)
      BY <2>1, <3>1, <3>2
    <3>4. Between(document, pos, decoder)
      BY <3>1 DEF DecoderInvariant
    <3>5. chunk = SubSeq(document.text, pos + 1, n) /\ decoder' = Feed(decoder, chunk)
      BY <3>2
    <3> HIDE DEF chunk
    <3>6. Between(document, n, Feed(decoder, chunk))
      BY <2>1, <3>3, <3>4, <3>5, FeedStep
    <3> QED
      BY <3>1, <3>2, <3>3, <3>5, <3>6 DEF DecoderInvariant
  <2>3. CASE FinishReason
    BY <2>3 DEF FinishReason, DecoderInvariant
  <2>4. CASE UNCHANGED vars
    BY <2>4 DEF vars, DecoderInvariant
  <2> QED
    BY <2>2, <2>3, <2>4 DEF Next
<1> QED
  BY <1>1, <1>2, PTL DEF Spec

(* At every moment the client has exactly the characters whose text was    *)
(* read to its end, for strings of any length, cut into chunks anywhere.   *)
THEOREM DeliveredPromptlyHolds ==
    ASSUME Bodies \subseteq Seq(ClearItems), \A g \in Gaps : ~g["beforeBrace"]
    PROVE  Spec => []DeliveredPromptly
<1>1. DecoderInvariant => DeliveredPromptly
  <2> SUFFICES ASSUME DecoderInvariant, ~finished
               PROVE  decoder.out = Flat(Meaning, Received)
    BY DEF DeliveredPromptly
  <2>1. Layout(document) /\ document.text \in Seq(Symbols) /\ Between(document, pos, decoder)
    BY DocumentLayout DEF DecoderInvariant, Layout
  <2>2. pos \in Nat
    BY DEF DecoderInvariant
  <2>3. PICK j \in 0..Len(document.body) :
           ReadToEnd(document, pos, j) /\ decoder.out = Sent(document, j)
    BY <2>1, <2>2, Delivered
  <2>4. ItemsIn(document.body, document.start, pos) = j
    BY <2>1, <2>2, <2>3, Counted
  <2> QED
    BY <2>3, <2>4 DEF Sent, Received
<1> QED
  BY <1>1, Invariant, PTL

(* The decoder e has what d has noted of what was delivered. *)
SameNote(d, e) ==
    "contentEmitted" \in DOMAIN d =>
        DOMAIN e = DOMAIN d /\ e["contentEmitted"] = d["contentEmitted"]

(* A decoder has the note it has. *)
LEMMA NoteItself == ASSUME NEW d PROVE SameNote(d, d)
BY DEF SameNote

(* The same note, by way of a third decoder. *)
LEMMA NoteBy == ASSUME NEW d, NEW e, NEW f, SameNote(d, e), SameNote(e, f) PROVE SameNote(d, f)
BY DEF SameNote

(* It is kept by a change of any other field. *)
LEMMA NoteExcept ==
    ASSUME NEW d, NEW v
    PROVE  /\ SameNote(d, [d EXCEPT !.state = v]) /\ SameNote(d, [d EXCEPT !.key = v])
           /\ SameNote(d, [d EXCEPT !.pending = v]) /\ SameNote(d, [d EXCEPT !.pendingQuote = v])
           /\ SameNote(d, [d EXCEPT !.high = v]) /\ SameNote(d, [d EXCEPT !.out = v])
BY DEF SameNote

(* Emit leaves the note alone. *)
LEMMA NoteEmit == ASSUME NEW d, NEW s PROVE SameNote(d, Emit(d, s))
BY NoteExcept DEF Emit

(* So does reading an escape. *)
LEMMA NoteEscape ==
    ASSUME NEW d, NEW w, NEW i
    PROVE  SameNote(d, Escape(d, w, i).d)
<1> DEFINE s == w[i + 1]
           v == w[i + 2]
           u == CASE v = "H" -> [d EXCEPT !.high = TRUE]
                  [] v = "L" /\ d.high -> [Emit(d, "U+HL") EXCEPT !.high = FALSE]
                  [] v = "L" /\ ~d.high -> Emit(d, "U+FFFD")
                  [] OTHER -> Emit(d, "U+X")
<1>1. SameNote(d, u)
  <2>1. u \in {[d EXCEPT !.high = TRUE], [Emit(d, "U+HL") EXCEPT !.high = FALSE],
               Emit(d, "U+FFFD"), Emit(d, "U+X")}
    <3> HIDE DEF v
    <3> QED
      OBVIOUS
  <2> HIDE DEF u
  <2>2. SameNote(d, [Emit(d, "U+HL") EXCEPT !.high = FALSE])
    <3> DEFINE c == Emit(d, "U+HL")
    <3>1. SameNote(d, c)
      BY NoteEmit
    <3> HIDE DEF c
    <3>2. SameNote(c, [c EXCEPT !.high = FALSE])
      BY NoteExcept
    <3>3. SameNote(d, [c EXCEPT !.high = FALSE])
      BY <3>1, <3>2, NoteBy
    <3> QED
      BY <3>3 DEF c
  <2>3. SameNote(d, [d EXCEPT !.high = TRUE])
    BY NoteExcept
  <2> DEFINE c1 == [d EXCEPT !.high = TRUE]
             c2 == [Emit(d, "U+HL") EXCEPT !.high = FALSE]
  <2>4. u \in {c1, c2, Emit(d, "U+FFFD"), Emit(d, "U+X")} /\ SameNote(d, c1) /\ SameNote(d, c2)
    BY <2>1, <2>2, <2>3
  <2> HIDE DEF c1, c2
  <2> QED
    BY <2>4, NoteEmit
<1>2. SameNote(d, Emit(Emit(d, "\\"), s))
  <2> HIDE DEF s
  <2> QED
    BY NoteEmit, NoteBy
<1>3. Escape(d, w, i).d \in {Emit(d, "q"), Emit(d, "\\"), Emit(d, "NL"), u, Emit(Emit(d, "\\"), s)}
  <2>1. Escape(d, w, i) =
          CASE s = "q" -> [d |-> Emit(d, "q"), len |-> 2]
            [] s = "\\" -> [d |-> Emit(d, "\\"), len |-> 2]
            [] s = "n" -> [d |-> Emit(d, "NL"), len |-> 2]
            [] s = "u" -> [len |-> 3, d |-> u]
            [] OTHER -> [d |-> Emit(Emit(d, "\\"), s), len |-> 2]
    BY DEF Escape
  <2> HIDE DEF s, u
  <2> QED
    BY <2>1
<1> HIDE DEF u, s
<1> QED
  BY <1>1, <1>2, <1>3, NoteEmit

(* So does a round inside the string. *)
LEMMA NoteFrom ==
    ASSUME NEW d, NEW w, NEW i
    PROVE  SameNote(d, StringFrom(d, w, i).d)
<1> DEFINE a == [d EXCEPT !.pending = Rest(w, i)]
           b == Emit(Emit(d, "r1"), w[i + 1])
           c == [d EXCEPT !.pendingQuote = TRUE]
           e == [d EXCEPT !.state = "Completed"]
<1>1. SameNote(d, b)
  <2> DEFINE s == w[i + 1]
  <2> HIDE DEF s
  <2> QED
    BY NoteEmit, NoteBy
<1>2. SameNote(d, a) /\ SameNote(d, c) /\ SameNote(d, e)
  <2> DEFINE r == Rest(w, i)
  <2> HIDE DEF r
  <2> QED
    BY NoteExcept
<1>3. StringFrom(d, w, i).d \in {a, Escape(d, w, i).d, b, c, e, Emit(d, w[i])}
  <2> HIDE DEF a, b, c, e
  <2> DEFINE held == ~Complete(w, i)
             esc == Complete(w, i) /\ w[i] = "\\"
             rune == Complete(w, i) /\ w[i] = "r1"
             last == w[i] = "q" /\ i = Len(w)
             done == w[i] = "q" /\ i < Len(w) /\ BraceFirst(Rest(w, i + 1))
             len == Len(w) - i + 1
  <2>1. StringFrom(d, w, i) =
          CASE held -> [d |-> a, len |-> len]
            [] esc -> Escape(d, w, i)
            [] rune -> [d |-> b, len |-> 2]
            [] last -> [d |-> c, len |-> 1]
            [] done -> [d |-> e, len |-> len]
            [] OTHER -> [d |-> Emit(d, w[i]), len |-> 1]
    BY DEF StringFrom, a, b, c, e
  <2> HIDE DEF held, esc, rune, last, done, len
  <2> QED
    BY <2>1
<1> HIDE DEF a, b, c, e
<1> QED
  BY <1>1, <1>2, <1>3, NoteEmit, NoteEscape

(* So does a round inside the string behind a quote held back. *)
LEMMA NoteIn ==
    ASSUME NEW d, NEW w, NEW i
    PROVE  SameNote(d, InString(d, w, i).d)
<1> DEFINE c == [d EXCEPT !.state = "InString"]
           b == [c EXCEPT !.pendingQuote = FALSE]
           a == [b EXCEPT !.state = "Completed"]
           x == [c EXCEPT !.pendingQuote = FALSE, !.state = "Completed"]
           e == Emit(b, "q")
           len == Len(Rest(w, i))
<1>1. SameNote(d, c)
  BY NoteExcept
<1>2. InString(d, w, i).d \in {StringFrom(c, w, i).d, x, StringFrom(e, w, i).d}
  <2>1. InString(d, w, i) =
          IF ~c.pendingQuote THEN StringFrom(c, w, i)
          ELSE IF BraceFirst(Rest(w, i)) \/ Blank(Rest(w, i)) THEN [d |-> x, len |-> len]
          ELSE StringFrom(e, w, i)
    BY DEF InString
  <2> HIDE DEF c, x, e, len
  <2> QED
    BY <2>1
<1>3. x = a
  OBVIOUS
<1> HIDE DEF c
<1>4. SameNote(c, b)
  BY NoteExcept
<1> HIDE DEF b
<1>5. SameNote(b, a) /\ SameNote(b, e)
  BY NoteExcept, NoteEmit
<1> HIDE DEF a, e, x
<1>6. SameNote(d, b)
  BY <1>1, <1>4, NoteBy
<1>7. SameNote(d, a) /\ SameNote(d, e)
  BY <1>5, <1>6, NoteBy
<1>8. SameNote(c, StringFrom(c, w, i).d) /\ SameNote(e, StringFrom(e, w, i).d)
  BY NoteFrom
<1>9. SameNote(d, StringFrom(c, w, i).d) /\ SameNote(d, StringFrom(e, w, i).d)
  BY <1>1, <1>7, <1>8, NoteBy
<1> QED
  BY <1>2, <1>3, <1>7, <1>9

(* No round notes that something was delivered: Feed does. *)
LEMMA NoteRound ==
    ASSUME NEW d, NEW w, NEW i
    PROVE  SameNote(d, Round(d, w, i).d)
<1> DEFINE key == Append(d.key, w[i])
           a == [d EXCEPT !.state = "LookingForKey"]
           b == [d EXCEPT !.state = "LookingForKey", !.key = <<"q">>]
           bb == [a EXCEPT !.key = <<"q">>]
           c == LookingForKey(d, w[i])
           e == [d EXCEPT !.state = "LookingForQuote"]
           f == [d EXCEPT !.state = "InString"]
<1>1. SameNote(d, a) /\ SameNote(d, e) /\ SameNote(d, f)
  BY NoteExcept
<1>2. SameNote(d, b)
  <2>1. b = bb
    OBVIOUS
  <2> HIDE DEF a, b
  <2>2. SameNote(a, bb)
    BY NoteExcept
  <2> HIDE DEF bb
  <2> QED
    BY <1>1, <2>1, <2>2, NoteBy
<1>3. SameNote(d, c)
  <2> DEFINE c1 == [d EXCEPT !.state = "LookingForColon", !.key = <<>>]
             c2 == [d EXCEPT !.state = "LookingForQuote", !.key = <<>>]
             c3 == [d EXCEPT !.key = key]
             d1 == [d EXCEPT !.state = "LookingForColon"]
             d2 == [d EXCEPT !.state = "LookingForQuote"]
             e1 == [d1 EXCEPT !.key = <<>>]
             e2 == [d2 EXCEPT !.key = <<>>]
  <2>1. c1 = e1 /\ c2 = e2
    OBVIOUS
  <2>2. c \in {c1, c2, c3}
    BY DEF LookingForKey
  <2>3. SameNote(d, d1) /\ SameNote(d, d2) /\ SameNote(d, c3)
    <3> HIDE DEF key
    <3> QED
      BY NoteExcept
  <2> HIDE DEF d1, d2, c3, c, c1, c2
  <2>4. SameNote(d1, e1) /\ SameNote(d2, e2)
    BY NoteExcept
  <2> HIDE DEF e1, e2
  <2>5. SameNote(d, e1) /\ SameNote(d, e2)
    BY <2>3, <2>4, NoteBy
  <2> QED
    BY <2>1, <2>2, <2>3, <2>5
<1> HIDE DEF a, b, c, e, f, key
<1>4. Round(d, w, i).d \in {a, b, c, d, e, f, InString(d, w, i).d}
  <2>1. /\ One(a).d = a /\ One(b).d = b /\ One(c).d = c /\ One(d).d = d
        /\ One(e).d = e /\ One(f).d = f
    BY DEF One
  <2> DEFINE len == Len(w) - i + 1
             c1 == d.state = "Init" /\ w[i] = "open"
             c2 == d.state = "Init" /\ w[i] = "q"
             c3 == d.state = "Init" /\ w[i] \in White \cup {"fence"}
             c4 == d.state = "LookingForKey"
             c5 == d.state \in {"LookingForColon", "LookingForQuote"} /\ w[i] \in White
             c6 == d.state = "LookingForColon" /\ w[i] = ":"
             c7 == d.state \in {"LookingForColon", "LookingForQuote"} /\ w[i] = "q"
             c8 == d.state = "Completed"
                     /\ TrimSpace(Rest(w, i)) \in {<<>>, <<"close">>, <<"close", ",">>}
  <2>2. Round(d, w, i) =
          CASE c1 -> One(a)
            [] c2 -> One(b)
            [] c3 -> One(d)
            [] c4 -> One(c)
            [] c5 -> One(d)
            [] c6 -> One(e)
            [] c7 -> One(f)
            [] c8 -> [d |-> d, len |-> len]
            [] OTHER -> InString(d, w, i)
    BY DEF Round, a, b, c, e, f
  <2> HIDE DEF c1, c2, c3, c4, c5, c6, c7, c8, len
  <2> QED
    BY <2>1, <2>2
<1> QED
  BY <1>1, <1>2, <1>3, <1>4, NoteItself, NoteIn

(* So does the work on a whole chunk. *)
LEMMA NoteWorked ==
    ASSUME NEW d, NEW w \in Seq(Symbols)
    PROVE  SameNote(d, Worked(d, w)[Len(w)].d)
<1> DEFINE f == Worked(d, w)
           m == Len(w)
           I == {i \in 0..m : SameNote(d, f[i].d)}
<1>1. m \in Nat
  OBVIOUS
<1>2. Works(f, d, w, m)
  BY WorkedDefined
<1> HIDE DEF f, m
<1>3. 0 \in I
  <2>1. f[0].d = d
    BY <1>2 DEF Works
  <2> QED
    BY <1>1, <2>1, NoteItself
<1>4. \A i \in 1..m : i - 1 \in I => i \in I
  <2> SUFFICES ASSUME NEW i \in 1..m, SameNote(d, f[i - 1].d) PROVE SameNote(d, f[i].d)
    BY <1>1
  <2> DEFINE e == f[i - 1].d
  <2>1. f[i] = IF f[i - 1].next > i THEN f[i - 1]
               ELSE [d |-> Round(e, w, i).d, next |-> i + Round(e, w, i).len]
    BY <1>2 DEF Works
  <2>2. f[i].d \in {e, Round(e, w, i).d}
    BY <2>1
  <2>3. SameNote(d, e)
    OBVIOUS
  <2> HIDE DEF e
  <2>4. SameNote(e, Round(e, w, i).d)
    BY NoteRound
  <2> QED
    BY <2>2, <2>3, <2>4, NoteBy
<1> HIDE DEF I
<1>5. \A i \in 0..m : i \in I
  BY <1>1, <1>3, <1>4, UpToInduction
<1>6. m \in I
  BY <1>1, <1>5
<1> QED
  BY <1>6 DEF I, f, m

(* Nothing put before or behind a text. *)
LEMMA Nothing ==
    ASSUME NEW s \in Seq(Symbols)
    PROVE  <<>> \o s = s /\ s \o <<>> = s
OBVIOUS

(* A document, and as much of it as was fed, is a writing. *)
Read(doc, n) == [text |-> [raw |-> doc.text, body |-> doc.body, start |-> doc.start,
                           key |-> doc.text[3], dress |-> "plain"], cut |-> n]

(* A document of which n symbols were read is a writing cut off behind them. *)
LEMMA DocumentIsWriting ==
    ASSUME Bodies \subseteq Seq(ClearItems), \A g \in Gaps : ~g["beforeBrace"],
           NEW doc \in Documents, NEW n \in 0..Len(doc.text)
    PROVE  IsWriting(Read(doc, n))
<1>1. PICK key \in {"content", "text", "other"}, gap \in Gaps, body \in Bodies :
         doc = Document(key, gap, body)
  BY KeysAssumption DEF Documents
<1>2. gap \in [Places -> BOOLEAN]
  BY GapsAssumption
<1>3. body \in Seq(Items) /\ \A k \in 1..Len(body) : body[k] \in ClearItems
  BY ClearItemsAre
<1>4. ~Ambiguous(body)
  <2>1. \A k \in DOMAIN body : body[k] # "rawQuote"
    BY <1>3 DEF ClearItems
  <2> QED
    BY <2>1 DEF Ambiguous
<1> DEFINE o == Opening(key, gap)
           f == Flat(Source, body)
           c == Closed(gap)
           text == Text(key, gap, body, "plain")
           first == Before["plain"] \o o
<1>5. doc.text = o \o f \o c /\ doc.body = body /\ doc.start = Len(o)
  BY <1>1 DEF Document, Json
<1>6. Layout(doc)
  BY DocumentLayout
<1>7. o \in Seq(Symbols) /\ o[3] = key /\ 3 \in 1..Len(o)
  <2>1. gap["afterKey"] \in BOOLEAN
    BY <1>2 DEF Places
  <2> DEFINE c1 == IF gap["afterKey"] THEN 6 ELSE 5
  <2>2. c1 \in {5, 6} /\ (c1 = 6 <=> gap["afterKey"])
    OBVIOUS
  <2> HIDE DEF c1, o
  <2>3. o = Opening(key, gap)
    BY DEF o
  <2>4. Opens(o, key, c1)
    BY <1>2, <2>2, <2>3, OpeningIs
  <2>5. o \in Seq(Symbols) /\ o[3] = key /\ Len(o) \in {c1 + 1, c1 + 2}
    BY <2>4 DEF Opens
  <2> QED
    BY <2>2, <2>5
<1>8. f \in Seq(Symbols)
  <2>1. Len(body) \in 0..Len(body) /\ SubSeq(body, 1, Len(body)) = body
    BY <1>3
  <2>2. Flat(Source, SubSeq(body, 1, Len(body))) \in Seq(Symbols)
    BY <1>3, <2>1, FlatSource
  <2> QED
    BY <2>1, <2>2
<1>9. doc.text \in Seq(Symbols)
  BY <1>6 DEF Layout
<1>10. Before["plain"] = <<>> /\ After["plain"] = <<>>
  BY DEF Before, After
<1>11. text = [raw |-> first \o f \o c \o After["plain"], body |-> body, start |-> Len(first),
               key |-> key, dress |-> "plain"]
  BY DEF Text
<1>12. doc.text[3] = key
  <2>1. c \in Seq(Symbols)
    <3>1. ~gap["beforeBrace"]
      OBVIOUS
    <3>2. c = <<"q", "close">>
      BY <1>2, <3>1, ClosedIs
    <3> QED
      BY <3>2 DEF Symbols
  <2> HIDE DEF o, f, c
  <2> DEFINE front == o \o f
             all == front \o c
  <2>2. Joined(front, o, f) /\ front \in Seq(Symbols)
    BY <1>7, <1>8, PutTogether DEF Joined
  <2> HIDE DEF front
  <2>3. Joined(all, front, c)
    BY <2>1, <2>2, PutTogether
  <2>4. doc.text = all
    BY <1>5 DEF front
  <2> HIDE DEF all
  <2>5. front[3] = o[3] /\ 3 \in 1..Len(front)
    BY <1>7, <2>2 DEF Joined
  <2>6. all[3] = front[3]
    BY <2>3, <2>5 DEF Joined
  <2> QED
    BY <1>7, <2>4, <2>5, <2>6
<1> HIDE DEF text
<1>13. first = o
  BY <1>7, <1>10, Nothing DEF first
<1> HIDE DEF first, o, f, c
<1>14. text = [raw |-> doc.text, body |-> doc.body, start |-> doc.start, key |-> key,
               dress |-> "plain"]
  <2>1. doc.text \o After["plain"] = doc.text
    BY <1>9, <1>10, Nothing
  <2> QED
    BY <1>5, <1>11, <1>13, <2>1
<1>15. Read(doc, n) = [text |-> text, cut |-> n]
  BY <1>12, <1>14 DEF Read
<1>16. text = Text(key, gap, body, "plain") /\ text.body = body /\ text.raw = doc.text
  BY <1>5, <1>14 DEF text
<1> DEFINE w == Read(doc, n)
<1>17. w.text = text /\ w.cut = n
  BY <1>15
<1> HIDE DEF w
<1> DEFINE dress == "plain"
<1>18. dress \in DOMAIN Before /\ w.text = Text(key, gap, w.text.body, dress)
  BY <1>16, <1>17 DEF Before
<1> HIDE DEF dress
<1>19. w.text.body \in Seq(DOMAIN Source) /\ ~Ambiguous(w.text.body) /\ w.cut \in 0..Len(w.text.raw)
  BY <1>3, <1>4, <1>16, <1>17 DEF Items
<1>20. IsWriting(w)
  BY <1>2, <1>18, <1>19 DEF IsWriting
<1> QED
  BY <1>20 DEF w

(* Of an item that was cut in two there are some symbols, or none. *)
LEMMA CutItemIs ==
    ASSUME NEW doc, Layout(doc), NEW n \in Nat, NEW j, ReadToEnd(doc, n, j)
    PROVE  /\ CutItem(doc.body, doc.start, n) \in Nat
           /\ j # Len(doc.body) /\ End(doc, j) <= n => CutItem(doc.body, doc.start, n) = n - End(doc, j)
<1>1. ItemsIn(doc.body, doc.start, n) = j
  BY Counted
<1> DEFINE m == Len(doc.body)
           f == Len(Flat(Source, SubSeq(doc.body, 1, j)))
           cut == CutItem(doc.body, doc.start, n)
<1>2. /\ m \in Nat /\ j \in 0..m /\ doc.start \in Nat
      /\ End(doc, 0) = doc.start /\ End(doc, j) \in Nat /\ (j = 0 \/ End(doc, j) <= n)
  BY DEF Layout, HasString, ReadToEnd
<1>3. End(doc, j) = doc.start + f
  BY DEF End
<1>4. cut = IF j = m \/ n < doc.start THEN 0 ELSE n - doc.start - f
  BY <1>1 DEF CutItem
<1>5. f \in Nat
  <2>1. doc.body \in Seq(Items)
    BY ClearItemsAre DEF Layout, HasString
  <2>2. Flat(Source, SubSeq(doc.body, 1, j)) \in Seq(Symbols)
    BY <1>2, <2>1, FlatSource
  <2> QED
    BY <2>2
<1> HIDE DEF m, f, cut
<1>6. cut \in Nat
  BY <1>2, <1>3, <1>4, <1>5
<1>7. j # m /\ End(doc, j) <= n => cut = n - End(doc, j)
  BY <1>2, <1>3, <1>4, <1>5
<1> QED
  BY <1>6, <1>7 DEF m, cut

(* It is noted that something was delivered if and only if it was. *)
Noted(d) == d.contentEmitted <=> d.out # <<>>

(* Nothing was sent if and only if no item was read to its end. *)
LEMMA SentNothing ==
    ASSUME NEW doc, Layout(doc), NEW k \in 0..Len(doc.body)
    PROVE  Sent(doc, k) = <<>> <=> k = 0
<1>1. doc.body \in Seq(Items)
  BY ClearItemsAre DEF Layout, HasString
<1>2. Sent(doc, 0) = <<>>
  BY <1>1, FlatMeaning DEF Sent
<1>3. ASSUME k # 0 PROVE Sent(doc, k) # <<>>
  <2> DEFINE a == Sent(doc, k - 1)
             x == doc.body[k]
             b == Meaning[x]
  <2>1. k \in 1..Len(doc.body) /\ k - 1 \in 0..Len(doc.body)
    BY <1>3
  <2>2. a \in Seq(Symbols) /\ x \in Items /\ Sent(doc, k) = a \o b
    BY <2>1, SentTypes
  <2>3. b \in Seq(Symbols) /\ Len(b) # 0
    <3> HIDE DEF x
    <3>1. Meaning[x] \in Seq(Symbols)
      BY <2>2, TextsTyped
    <3>2. Len(Meaning[x]) # 0
      <4>1. CASE x \in {"a", "n", "space", "brace", "fence", "rawNewline"}
        <5>1. PICK s \in Symbols : Meaning[x] = <<s>>
          BY <4>1, PlainItems
        <5> QED
          BY <5>1
      <4>2. CASE x \in {"newline", "quote", "backslash"}
        <5>1. PICK s \in Symbols : Meaning[x] = <<s>>
          BY <4>2, EscapeItems
        <5> QED
          BY <5>1
      <4>3. CASE x = "rune"
        BY <4>3, ItemTexts
      <4>4. CASE x = "rawQuote"
        BY <4>4, ItemTexts
      <4>5. CASE x = "unicode"
        BY <4>5, ItemTexts
      <4>6. CASE x = "pair"
        BY <4>6, ItemTexts
      <4>7. x \in Items
        BY <2>2
      <4> QED
        BY <4>1, <4>2, <4>3, <4>4, <4>5, <4>6, <4>7, ItemIsOne
    <3> QED
      BY <3>1, <3>2
  <2> HIDE DEF a, b
  <2>4. Len(a \o b) # 0
    BY <2>2, <2>3
  <2> QED
    BY <2>2, <2>4
<1> QED
  BY <1>2, <1>3

(* What is delivered only grows. *)
LEMMA ReadGrows ==
    ASSUME NEW doc, Layout(doc), NEW p \in Nat, NEW n \in Nat, p <= n,
           NEW j, ReadToEnd(doc, p, j), NEW k, ReadToEnd(doc, n, k)
    PROVE  j <= k
<1> DEFINE m == Len(doc.body)
<1>1. /\ j \in 0..m /\ k \in 0..m /\ m \in Nat
      /\ j = 0 \/ End(doc, j) <= p
      /\ k = m \/ n < End(doc, k + 1)
  BY DEF ReadToEnd, Layout, HasString
<1>2. \A l \in 0..m : End(doc, l) \in Nat
  BY DEF Layout, HasString
<1>3. \A l \in 0..m : \A i \in 0..l : End(doc, i) <= End(doc, l)
  BY EndsGrow
<1> HIDE DEF m
<1> SUFFICES ASSUME ~(j <= k) PROVE FALSE
  OBVIOUS
<1> DEFINE i == k + 1
<1>4. i \in 0..j /\ i \in 0..m /\ j # 0 /\ k # m
  BY <1>1
<1>5. n < End(doc, i) /\ End(doc, j) <= p
  BY <1>1, <1>4
<1> HIDE DEF i
<1>6. End(doc, i) <= End(doc, j) /\ End(doc, i) \in Nat /\ End(doc, j) \in Nat
  BY <1>1, <1>2, <1>3, <1>4
<1> QED
  BY <1>5, <1>6

(* A chunk keeps the note: it says that something was sent. *)
LEMMA FeedNotes ==
    ASSUME NEW doc, Layout(doc), NEW p \in Nat, NEW n \in Nat, p < n, n <= Len(doc.text),
           NEW d, Between(doc, p, d), Noted(d), NEW chunk, chunk = SubSeq(doc.text, p + 1, n)
    PROVE  Noted(Feed(d, chunk))
<1> DEFINE t == doc.text
           w == d.pending \o chunk
           c == [d EXCEPT !.pending = <<>>]
           e == Worked(c, w)[Len(w)].d
           f == Feed(d, chunk)
           b == e.out # d.out
<1>1. t \in Seq(Symbols) /\ chunk = SubSeq(t, p + 1, n) /\ n <= Len(t) /\ p <= n
  BY DEF Layout
<1>2. d \in Decoders
  BY BetweenTyped
<1>3. w \in Seq(Symbols)
  <2> HIDE DEF t
  <2>1. Part(chunk, t, p, n)
    BY <1>1, SubSeqIs
  <2>2. chunk \in Seq(Symbols) /\ d.pending \in Seq(Symbols)
    BY <1>2, <2>1, FieldTypes DEF Part
  <2> QED
    BY <2>2
<1>4. f = [e EXCEPT !.contentEmitted = @ \/ b]
  BY DEF Feed
<1>5. SameNote(d, e)
  <2>1. SameNote(d, c)
    BY NoteExcept
  <2> HIDE DEF c, w
  <2>2. SameNote(c, e)
    BY <1>3, NoteWorked
  <2> QED
    BY <2>1, <2>2, NoteBy
<1>6. Between(doc, n, f)
  BY FeedStep
<1> HIDE DEF c, w, e
<1>7. DOMAIN e = DOMAIN d /\ e.contentEmitted = d.contentEmitted /\ d.contentEmitted \in BOOLEAN
      /\ DOMAIN d = {"state", "key", "pending", "pendingQuote", "high", "contentEmitted", "out"}
  <2>1. DOMAIN d = {"state", "key", "pending", "pendingQuote", "high", "contentEmitted", "out"}
    BY <1>2 DEF Decoders
  <2> QED
    BY <1>2, <1>5, <2>1, FieldTypes DEF SameNote
<1>8. f.out = e.out /\ (f.contentEmitted <=> (d.contentEmitted \/ b))
  BY <1>4, <1>7
<1>9. PICK j \in 0..Len(doc.body) : ReadToEnd(doc, p, j) /\ d.out = Sent(doc, j)
  BY Delivered
<1>10. PICK k \in 0..Len(doc.body) : ReadToEnd(doc, n, k) /\ f.out = Sent(doc, k)
  <2> HIDE DEF f
  <2> QED
    BY <1>6, Delivered
<1>11. j <= k
  BY <1>1, <1>9, <1>10, ReadGrows
<1>12. (d.out = <<>> <=> j = 0) /\ (f.out = <<>> <=> k = 0)
  BY <1>9, <1>10, SentNothing
<1> HIDE DEF f
<1>13. d.out # <<>> => f.out # <<>>
  BY <1>9, <1>10, <1>11, <1>12
<1> QED
  BY <1>8, <1>13 DEF Noted, f

(* What is held back. *)
HeldBack(d) == (IF d.pendingQuote /\ ~d.contentEmitted THEN <<"q">> ELSE <<>>) \o d.pending

(* What is held back is less than an item, or the closing quote of an empty body. *)
LEMMA HeldIs ==
    ASSUME NEW doc, Layout(doc), NEW n \in Nat, NEW d, Between(doc, n, d), Noted(d),
           NEW j, ReadToEnd(doc, n, j), d.out = Sent(doc, j)
    PROVE  /\ HeldBack(d) \in Seq(Symbols)
           /\ \/ Len(HeldBack(d)) <= CutItem(doc.body, doc.start, n)
              \/ HeldBack(d) = <<"q">> /\ d.out = <<>> /\ doc.body = <<>> /\ n = doc.start + 1
<1> DEFINE m == Len(doc.body)
           cut == CutItem(doc.body, doc.start, n)
<1>1. d \in Decoders
  BY BetweenTyped
<1>2. d.pending \in Seq(Symbols) /\ d.pendingQuote \in BOOLEAN
  BY <1>1, FieldTypes
<1>3. cut \in Nat
  BY CutItemIs
<1>4. <<"q">> \in Seq(Symbols) /\ <<>> \in Seq(Symbols)
  BY KeyTypes
<1>5. HeldBack(d) \in Seq(Symbols)
  BY <1>2, <1>4 DEF HeldBack
<1>6. j \in 0..m /\ m \in Nat /\ doc.body \in Seq(ClearItems) /\ doc.start \in Nat
  BY DEF ReadToEnd, Layout, HasString
<1>7. ASSUME ~d.pendingQuote, d.pending = <<>>
      PROVE  Len(HeldBack(d)) <= cut
  <2>1. HeldBack(d) = <<>>
    BY <1>7 DEF HeldBack
  <2> HIDE DEF cut
  <2> QED
    BY <1>3, <2>1
<1>8. CASE At(doc, n, d)
  <2>1. ~d.pendingQuote /\ d.pending = <<>>
    BY <1>8 DEF At, AtOpening, AtItem, AtHalf, Waiting, Inside
  <2> QED
    BY <1>5, <1>7, <2>1
<1>9. CASE AtEnd(doc, n, d)
  <2>1. ~d.pendingQuote /\ d.pending = <<>>
    BY <1>9 DEF AtEnd
  <2> QED
    BY <1>5, <1>7, <2>1
<1>10. CASE HeldItem(doc, n, d)
  <2>0. PICK k \in 1..Len(doc.body) : \E g \in End(doc, k - 1)..(n - 1) :
           n < End(doc, k) /\ ~d.pendingQuote /\ d.pending = SubSeq(doc.text, g + 1, n)
    BY <1>10 DEF HeldItem
  <2>1. PICK g \in End(doc, k - 1)..(n - 1) :
           n < End(doc, k) /\ ~d.pendingQuote /\ d.pending = SubSeq(doc.text, g + 1, n)
    BY <2>0
  <2> DEFINE i == k - 1
  <2>7. i \in 0..m /\ i + 1 = k /\ i # m
    BY ONLY <1>6, k \in 1..m
  <2>8. End(doc, k - 1) \in Nat
    BY ItemText
  <2>2. End(doc, i) \in Nat /\ i \in 0..m /\ i + 1 = k /\ i # m
    BY <2>7, <2>8
  <2>3. n < End(doc, i + 1) /\ End(doc, i) <= g /\ g <= n - 1 /\ g \in Nat
    BY <2>1, <2>2
  <2> HIDE DEF i
  <2>4. ReadToEnd(doc, n, i)
    BY <2>2, <2>3 DEF ReadToEnd
  <2>5. cut = n - End(doc, i)
    <3>1. End(doc, i) <= n
      BY <2>2, <2>3
    <3> QED
      BY <2>2, <2>4, <3>1, CutItemIs
  <2>6. Len(d.pending) = n - g
    BY <2>1, <2>3
  <2>9. HeldBack(d) = d.pending
    BY <1>2, <2>1, Nothing DEF HeldBack
  <2> HIDE DEF cut
  <2>10. Len(HeldBack(d)) <= cut
    BY <2>2, <2>3, <2>5, <2>6, <2>9
  <2> QED
    BY <1>5, <2>10 DEF cut
<1>11. CASE HeldQuote(doc, n, d)
  <2>1. n = End(doc, m) + 1 /\ d.pending = <<>> /\ d.pendingQuote /\ d.out = Sent(doc, m)
    BY <1>11 DEF HeldQuote
  <2>2. CASE d.contentEmitted
    <3>1. HeldBack(d) = <<>>
      BY <2>1, <2>2 DEF HeldBack
    <3> HIDE DEF cut
    <3>2. Len(HeldBack(d)) <= cut
      BY <1>3, <3>1
    <3> QED
      BY <1>5, <3>2 DEF cut
  <2>3. CASE ~d.contentEmitted
    <3>1. HeldBack(d) = <<"q">>
      BY <2>1, <2>3 DEF HeldBack
    <3>2. d.out = <<>>
      BY <2>3 DEF Noted
    <3>3. m = 0
      <4>1. m \in 0..m
        BY <1>6
      <4> QED
        BY <2>1, <3>2, <4>1, SentNothing
    <3>4. doc.body = <<>>
      BY <1>6, <3>3
    <3>5. End(doc, m) = doc.start
      BY <3>3 DEF Layout, HasString
    <3> QED
      BY <1>5, <2>1, <3>1, <3>2, <3>4, <3>5
  <2> QED
    BY <2>2, <2>3
<1> QED
  BY <1>8, <1>9, <1>10, <1>11 DEF Between

(* What the repair finds where no item came complete is at most what came  *)
(* of the first.                                                           *)
LEMMA RepairedBeforeItems ==
    ASSUME Bodies \subseteq Seq(ClearItems), \A g \in Gaps : ~g["beforeBrace"],
           NEW doc \in Documents, NEW n \in 0..Len(doc.text), ReadToEnd(doc, n, 0),
           NEW r, r = RepairSyntheticArguments(SubSeq(doc.text, 1, n))
    PROVE  /\ r.content \in Seq(Symbols)
           /\ Len(r.content) <= CutItem(doc.body, doc.start, n)
<1> DEFINE w == Read(doc, n)
           cut == CutItem(doc.body, doc.start, n)
<1>1. IsWriting(w)
  BY DocumentIsWriting
<1>2. w.text.raw = doc.text /\ w.cut = n /\ w.text.body = doc.body /\ w.text.start = doc.start
  BY DEF Read
<1>3. Layout(doc) /\ n \in Nat
  BY DocumentLayout
<1>4. doc.body \in Seq(Items)
  BY <1>3, ClearItemsAre DEF Layout, HasString
<1>5. cut \in Nat
  BY <1>3, CutItemIs
<1> HIDE DEF w
<1>6. RepairOf(w, r)
  BY <1>1, <1>2, Repaired
<1>7. Arrived(w) = SubSeq(doc.body, 1, 0)
  <2>1. ItemsIn(doc.body, doc.start, n) = 0
    BY <1>3, Counted
  <2> QED
    BY <1>2, <2>1 DEF Arrived
<1>8. r.content \in Seq(Symbols)
  BY <1>6 DEF RepairOf
<1>9. CASE r = Undecoded
  <2>1. Len(r.content) = 0
    BY <1>9 DEF Undecoded
  <2> HIDE DEF cut
  <2>2. Len(r.content) <= cut
    BY <1>5, <2>1
  <2> QED
    BY <1>8, <2>2 DEF cut
<1>10. CASE Carries(r.content, w)
  <2>1. PICK m \in Meanings(w) :
           \/ IsPrefix(r.content, Flat(m, Arrived(w)))
           \/ Len(r.content) - Len(Flat(m, Arrived(w))) <= CutItem(w.text.body, w.text.start, w.cut)
    BY <1>10 DEF Carries
  <2>2. m = Meaning \/ m = Split
    BY DEF Meanings, Split
  <2>3. \A x \in Items : m[x] \in Seq(Symbols)
    BY <2>2, TextsTyped, SplitIs
  <2>4. Flat(m, Arrived(w)) = <<>>
    <3>1. Stepwise(m, Symbols, doc.body)
      BY ONLY <1>4, <2>3, FlatStep
    <3> QED
      BY <1>7, <3>1 DEF Stepwise
  <2>5. \/ IsPrefix(r.content, <<>>)
        \/ Len(r.content) - Len(<<>>) <= cut
    BY <1>2, <2>1, <2>4
  <2> HIDE DEF cut
  <2>6. Len(r.content) <= cut
    <3>1. CASE IsPrefix(r.content, <<>>)
      <4>1. Len(r.content) <= 0
        BY <3>1 DEF IsPrefix
      <4> QED
        BY <1>5, <1>8, <4>1
    <3>2. CASE Len(r.content) - Len(<<>>) <= cut
      BY <1>5, <1>8, <3>2
    <3> QED
      BY <2>5, <3>1, <3>2
  <2> QED
    BY <1>8, <2>6 DEF cut
<1> QED
  BY <1>6, <1>9, <1>10 DEF RepairOf

(* What a client has at the end, of the first j items and what came after. *)
InFull(doc, n, j, out) ==
    /\ IsPrefix(Sent(doc, j), out)
    /\ \/ Len(out) - Len(Sent(doc, j)) <= CutItem(doc.body, doc.start, n)
       \/ doc.body = <<>> /\ n = doc.start + 1 /\ out = <<"q">>

(* Finish sends what is owed of the document, and no more than was read. *)
LEMMA FinishStep ==
    ASSUME Bodies \subseteq Seq(ClearItems), \A g \in Gaps : ~g["beforeBrace"],
           NEW doc \in Documents, NEW n \in 0..Len(doc.text), NEW d, Between(doc, n, d), Noted(d),
           NEW j, ReadToEnd(doc, n, j), d.out = Sent(doc, j)
    PROVE  InFull(doc, n, j, Finish(d, SubSeq(doc.text, 1, n)).out)
<1> DEFINE r == RepairSyntheticArguments(SubSeq(doc.text, 1, n))
           held == HeldBack(d)
           last == IF ~d.contentEmitted /\ r.content # <<>> THEN r.content ELSE held
           e == Finish(d, SubSeq(doc.text, 1, n))
           out == e.out
           told == Sent(doc, j)
           cut == CutItem(doc.body, doc.start, n)
<1>1. Layout(doc) /\ n \in Nat /\ d \in Decoders
  BY DocumentLayout, BetweenTyped
<1>2. out = told \o last
  <2> DEFINE y == d.pendingQuote /\ d.contentEmitted
             z == d.out \o last
  <2>1. e = [d EXCEPT !.out = z, !.pending = <<>>, !.pendingQuote = y]
    BY DEF Finish, HeldBack
  <2> HIDE DEF y, z, e
  <2>2. e.out = z
    BY <1>1, <2>1 DEF Decoders
  <2> QED
    BY <2>2 DEF z
<1>3. told \in Seq(Symbols) /\ j \in 0..Len(doc.body)
  BY <1>1, SentTypes DEF ReadToEnd
<1>4. cut \in Nat
  BY <1>1, CutItemIs
<1>5. held \in Seq(Symbols)
      /\ (Len(held) <= cut \/ (held = <<"q">> /\ told = <<>> /\ doc.body = <<>> /\ n = doc.start + 1))
  BY <1>1, HeldIs
<1>6. ~d.contentEmitted => r.content \in Seq(Symbols) /\ Len(r.content) <= cut
  <2> SUFFICES ASSUME ~d.contentEmitted PROVE r.content \in Seq(Symbols) /\ Len(r.content) <= cut
    OBVIOUS
  <2>1. d.out = <<>>
    BY DEF Noted
  <2>2. j = 0
    BY <1>1, <1>3, <2>1, SentNothing
  <2>3. ReadToEnd(doc, n, 0)
    BY <2>2
  <2> QED
    BY <2>3, RepairedBeforeItems
<1> HIDE DEF out, told, cut, held, r
<1>7. last = r.content \/ last = held
  OBVIOUS
<1>8. last \in Seq(Symbols)
      /\ (Len(last) <= cut \/ (last = <<"q">> /\ told = <<>> /\ doc.body = <<>> /\ n = doc.start + 1))
  <2>1. CASE ~d.contentEmitted /\ r.content # <<>>
    BY <1>6, <2>1
  <2>2. CASE ~(~d.contentEmitted /\ r.content # <<>>)
    <3>1. last = held
      BY <2>2
    <3> QED
      BY <1>5, <3>1
  <2> QED
    BY <2>1, <2>2
<1> HIDE DEF last
<1>9. IsPrefix(told, out) /\ Len(out) = Len(told) + Len(last)
  BY <1>2, <1>3, <1>8, PrefixOfJoined
<1>10. CASE Len(last) <= cut
  <2>1. Len(out) - Len(told) <= cut
    BY <1>3, <1>4, <1>8, <1>9, <1>10
  <2> QED
    BY <1>9, <2>1 DEF InFull, out, told, cut
<1>11. CASE last = <<"q">> /\ told = <<>> /\ doc.body = <<>> /\ n = doc.start + 1
  <2>1. out = <<"q">>
    BY <1>2, <1>8, <1>11, Nothing
  <2> QED
    BY <1>9, <1>11, <2>1 DEF InFull, out, told, cut
<1> QED
  BY <1>8, <1>10, <1>11

-----------------------------------------------------------------------------
(* What is delivered is noted until the end, and then all is delivered. *)
DeliveryInvariant ==
    /\ DecoderInvariant
    /\ ~finished => Noted(decoder)
    /\ DeliveredInFull

(* All that came complete is delivered by the end, whatever the string,    *)
(* wherever its text was cut into chunks, and wherever it ended; and of an *)
(* item that was cut in two at most what came of it: also if nothing was   *)
(* delivered before and the text was repaired instead.                     *)
THEOREM DeliveredInFullHolds ==
    ASSUME Bodies \subseteq Seq(ClearItems), \A g \in Gaps : ~g["beforeBrace"]
    PROVE  Spec => []DeliveredInFull
<1>1. Init => Noted(decoder) /\ ~finished
  BY DEF Init, New, Noted
<1>2. DecoderInvariant /\ (~finished => Noted(decoder)) /\ FeedChunk => Noted(decoder')
  <2> SUFFICES ASSUME DecoderInvariant, ~finished => Noted(decoder), FeedChunk
               PROVE  Noted(decoder')
    OBVIOUS
  <2>1. Layout(document) /\ document.text \in Seq(Symbols)
    BY DocumentLayout DEF DecoderInvariant, Layout
  <2>2. ~finished /\ Noted(decoder) /\ pos \in 0..Len(document.text) /\ Between(document, pos, decoder)
    BY DEF FeedChunk, DecoderInvariant
  <2>3. PICK n \in (pos + 1)..Len(document.text) :
           decoder' = Feed(decoder, SubSeq(document.text, pos + 1, n))
    BY DEF FeedChunk
  <2> DEFINE chunk == SubSeq(document.text, pos + 1, n)
  <2>4. pos \in Nat /\ n \in Nat /\ pos < n /\ n <= Len(document.text)
    BY <2>1, <2>2
  <2>5. chunk = SubSeq(document.text, pos + 1, n) /\ decoder' = Feed(decoder, chunk)
    BY <2>3
  <2> HIDE DEF chunk
  <2>6. Noted(Feed(decoder, chunk))
    BY <2>1, <2>2, <2>4, <2>5, FeedNotes
  <2> QED
    BY <2>5, <2>6
<1>3. DecoderInvariant /\ (~finished => Noted(decoder)) /\ FinishReason => DeliveredInFull'
  <2> SUFFICES ASSUME DecoderInvariant, ~finished => Noted(decoder), FinishReason
               PROVE  DeliveredInFull'
    OBVIOUS
  <2>1. Layout(document)
    BY DocumentLayout DEF DecoderInvariant
  <2>2. /\ ~finished /\ Noted(decoder) /\ pos \in 0..Len(document.text) /\ pos \in Nat
        /\ document \in Documents /\ Between(document, pos, decoder)
    BY DEF FinishReason, DecoderInvariant
  <2>3. /\ decoder' = Finish(decoder, SubSeq(document.text, 1, pos))
        /\ document' = document /\ pos' = pos
    BY DEF FinishReason
  <2>4. PICK j \in 0..Len(document.body) :
           ReadToEnd(document, pos, j) /\ decoder.out = Sent(document, j)
    BY <2>1, <2>2, Delivered
  <2>5. InFull(document, pos, j, decoder'.out)
    BY <2>2, <2>3, <2>4, FinishStep
  <2>6. ItemsIn(document.body, document.start, pos) = j
    BY <2>1, <2>2, <2>4, Counted
  <2>7. Flat(Meaning, Received)' = Sent(document, j)
    BY <2>3, <2>6 DEF Received, Sent
  <2> QED
    BY <2>3, <2>5, <2>7 DEF DeliveredInFull, InFull
<1>4. DecoderInvariant /\ Init => DeliveryInvariant
  BY <1>1 DEF DeliveryInvariant, DeliveredInFull
<1>5. DecoderInvariant /\ DecoderInvariant' /\ DeliveryInvariant /\ [Next]_vars => DeliveryInvariant'
  <2> SUFFICES ASSUME DecoderInvariant, DecoderInvariant', DeliveryInvariant, [Next]_vars
               PROVE  DeliveryInvariant'
    OBVIOUS
  <2>1. ~finished => Noted(decoder)
    BY DEF DeliveryInvariant
  <2>2. CASE FeedChunk
    <3>1. Noted(decoder') /\ ~finished'
      BY <1>2, <2>1, <2>2 DEF FeedChunk
    <3> QED
      BY <3>1 DEF DeliveryInvariant, DeliveredInFull
  <2>3. CASE FinishReason
    <3>1. DeliveredInFull' /\ finished'
      BY <1>3, <2>1, <2>3 DEF FinishReason
    <3> QED
      BY <3>1 DEF DeliveryInvariant
  <2>4. CASE UNCHANGED vars
    <3>1. DeliveredInFull' = DeliveredInFull /\ Noted(decoder)' = Noted(decoder)
          /\ finished' = finished
      BY <2>4 DEF vars, DeliveredInFull, Received, Noted
    <3> QED
      BY <3>1 DEF DeliveryInvariant
  <2> QED
    BY <2>2, <2>3, <2>4 DEF Next
<1>6. Spec => []DecoderInvariant
  BY Invariant
<1>7. DeliveryInvariant => DeliveredInFull
  BY DEF DeliveryInvariant
<1> QED
  BY <1>4, <1>5, <1>6, <1>7, PTL DEF Spec

-----------------------------------------------------------------------------
Msg == [role : Roles, from : Int]

(* The lists that the code builds hold the client's messages, in order. *)
Keeps(messages, out) ==
    /\ \A i \in DOMAIN messages : \E j \in DOMAIN out : out[j] = messages[i]
    /\ \A j, k \in DOMAIN out :
          j < k /\ out[j].from > 0 /\ out[k].from > 0 => out[j].from < out[k].from

-----------------------------------------------------------------------------
(* InsertAfter is a list, one longer, with the rest in its old order.      *)
LEMMA InsertIsSeq ==
    ASSUME NEW ms \in Seq(Msg), NEW n \in 0..Len(ms), NEW m \in Msg
    PROVE  /\ InsertAfter(ms, n, m) \in Seq(Msg)
           /\ Len(InsertAfter(ms, n, m)) = Len(ms) + 1
           /\ DOMAIN InsertAfter(ms, n, m) = 1..(Len(ms) + 1)
           /\ InsertAfter(ms, n, m)[n + 1] = m
           /\ \A i \in 1..n : InsertAfter(ms, n, m)[i] = ms[i]
           /\ \A i \in (n + 2)..(Len(ms) + 1) : InsertAfter(ms, n, m)[i] = ms[i - 1]
<1>1. Len(ms) \in Nat /\ DOMAIN ms = 1..Len(ms) /\ n \in Nat
  OBVIOUS
<1>2. \A i \in 1..(Len(ms) + 1) : InsertAfter(ms, n, m)[i] \in Msg
  BY <1>1 DEF InsertAfter
<1>3. InsertAfter(ms, n, m) \in [1..(Len(ms) + 1) -> Msg]
  BY <1>1, <1>2 DEF InsertAfter
<1>4. InsertAfter(ms, n, m) \in Seq(Msg) /\ Len(InsertAfter(ms, n, m)) = Len(ms) + 1
  BY <1>1, <1>3
<1> QED
  BY <1>1, <1>4 DEF InsertAfter

(* Append as an insertion behind the last. *)
LEMMA AppendInserts ==
    ASSUME NEW ms \in Seq(Msg), NEW m \in Msg
    PROVE  Append(ms, m) = InsertAfter(ms, Len(ms), m)
<1>1. Len(ms) \in 0..Len(ms)
  OBVIOUS
<1>2. /\ InsertAfter(ms, Len(ms), m) \in Seq(Msg)
      /\ Len(InsertAfter(ms, Len(ms), m)) = Len(ms) + 1
      /\ InsertAfter(ms, Len(ms), m)[Len(ms) + 1] = m
      /\ \A i \in 1..Len(ms) : InsertAfter(ms, Len(ms), m)[i] = ms[i]
  BY <1>1, InsertIsSeq
<1> QED
  BY <1>2

(* A user's message at the end is the last turn. *)
LEMMA AppendedTurn ==
    ASSUME NEW ms \in Seq(Msg), NEW m \in Msg, m.role \in UserTurns
    PROVE  LastTurnIn(Append(ms, m), UserTurns)
<1>1. Append(ms, m) \in Seq(Msg) /\ Len(Append(ms, m)) = Len(ms) + 1
      /\ Append(ms, m)[Len(ms) + 1] = m
  OBVIOUS
<1>2. Conversational(m)
  BY DEF Conversational, UserTurns
<1> QED
  BY <1>1, <1>2 DEF LastTurnIn

(* A system message put anywhere leaves the last turn what it was. *)
LEMMA InsertedSystem ==
    ASSUME NEW ms \in Seq(Msg), NEW n \in 0..Len(ms), NEW m \in Msg, ~Conversational(m),
           LastTurnIn(ms, UserTurns)
    PROVE  LastTurnIn(InsertAfter(ms, n, m), UserTurns)
<1> DEFINE out == InsertAfter(ms, n, m)
<1>1. PICK i \in DOMAIN ms :
          /\ Conversational(ms[i]) /\ ms[i].role \in UserTurns
          /\ \A j \in DOMAIN ms : j > i => ~Conversational(ms[j])
  BY DEF LastTurnIn
<1>2. /\ DOMAIN out = 1..(Len(ms) + 1) /\ out[n + 1] = m
      /\ \A k \in 1..n : out[k] = ms[k]
      /\ \A k \in (n + 2)..(Len(ms) + 1) : out[k] = ms[k - 1]
  BY InsertIsSeq
<1>3. Len(ms) \in Nat /\ DOMAIN ms = 1..Len(ms) /\ n \in Nat /\ i \in 1..Len(ms)
  OBVIOUS
<1> HIDE DEF out
<1>4. CASE i <= n
  <2>1. i \in DOMAIN out /\ out[i] = ms[i]
    BY <1>2, <1>3, <1>4
  <2>2. \A j \in DOMAIN out : j > i => ~Conversational(out[j])
    <3> SUFFICES ASSUME NEW j \in DOMAIN out, j > i
                 PROVE  ~Conversational(out[j])
      OBVIOUS
    <3>1. CASE j <= n
      BY <1>1, <1>2, <1>3, <3>1
    <3>2. CASE j = n + 1
      BY <1>2, <3>2
    <3>3. CASE j > n + 1
      <4>1. j - 1 \in DOMAIN ms /\ j - 1 > i /\ out[j] = ms[j - 1]
        BY <1>2, <1>3, <1>4, <3>3
      <4> QED
        BY <1>1, <4>1
    <3> QED
      BY <1>2, <1>3, <3>1, <3>2, <3>3
  <2> QED
    BY <1>1, <2>1, <2>2 DEF LastTurnIn, out
<1>5. CASE i > n
  <2>1. i + 1 \in DOMAIN out /\ out[i + 1] = ms[i]
    BY <1>2, <1>3, <1>5
  <2>2. \A j \in DOMAIN out : j > i + 1 => ~Conversational(out[j])
    <3> SUFFICES ASSUME NEW j \in DOMAIN out, j > i + 1
                 PROVE  ~Conversational(out[j])
      OBVIOUS
    <3>1. j - 1 \in DOMAIN ms /\ j - 1 > i /\ out[j] = ms[j - 1]
      BY <1>2, <1>3, <1>5
    <3> QED
      BY <1>1, <3>1
  <2> QED
    BY <1>1, <2>1, <2>2 DEF LastTurnIn, out
<1> QED
  BY <1>3, <1>4, <1>5

(* One of the gateway's own messages, put anywhere, loses none of the      *)
(* client's and leaves them in order.                                      *)
LEMMA InsertKeeps ==
    ASSUME NEW messages, NEW ms \in Seq(Msg), NEW n \in 0..Len(ms), NEW m \in Msg,
           m.from <= 0, Keeps(messages, ms)
    PROVE  Keeps(messages, InsertAfter(ms, n, m))
<1> DEFINE out == InsertAfter(ms, n, m)
           old(k) == IF k <= n THEN k ELSE k - 1
<1>1. /\ DOMAIN out = 1..(Len(ms) + 1) /\ out[n + 1] = m
      /\ \A k \in 1..n : out[k] = ms[k]
      /\ \A k \in (n + 2)..(Len(ms) + 1) : out[k] = ms[k - 1]
  BY InsertIsSeq
<1>2. Len(ms) \in Nat /\ DOMAIN ms = 1..Len(ms) /\ n \in Nat
  OBVIOUS
<1> HIDE DEF out
<1>3. \A i \in DOMAIN messages : \E j \in DOMAIN out : out[j] = messages[i]
  <2> SUFFICES ASSUME NEW i \in DOMAIN messages
               PROVE  \E j \in DOMAIN out : out[j] = messages[i]
    OBVIOUS
  <2>1. PICK j \in DOMAIN ms : ms[j] = messages[i]
    BY DEF Keeps
  <2>2. CASE j <= n
    BY <1>1, <1>2, <2>1, <2>2
  <2>3. CASE j > n
    <3>1. j + 1 \in DOMAIN out /\ out[j + 1] = ms[j]
      BY <1>1, <1>2, <2>3
    <3> QED
      BY <2>1, <3>1
  <2> QED
    BY <1>2, <2>2, <2>3
<1>4. ASSUME NEW j \in DOMAIN out, out[j].from > 0
      PROVE  j # n + 1 /\ old(j) \in DOMAIN ms /\ out[j] = ms[old(j)]
  <2>1. j # n + 1
    <3>1. m.from \in Int
      BY DEF Msg
    <3> QED
      BY <1>1, <1>4, <3>1
  <2> QED
    BY <1>1, <1>2, <2>1
<1>5. ASSUME NEW j \in DOMAIN out, NEW k \in DOMAIN out, j < k, out[j].from > 0, out[k].from > 0
      PROVE  out[j].from < out[k].from
  <2>1. j # n + 1 /\ old(j) \in DOMAIN ms /\ out[j] = ms[old(j)]
    BY <1>4, <1>5
  <2>2. k # n + 1 /\ old(k) \in DOMAIN ms /\ out[k] = ms[old(k)]
    BY <1>4, <1>5
  <2>3. old(j) < old(k)
    BY <1>1, <1>2, <1>5, <2>1, <2>2
  <2> QED
    BY <1>5, <2>1, <2>2, <2>3 DEF Keeps
<1> QED
  BY <1>3, <1>5 DEF Keeps, out

(* The last of a list's messages with some property: one of the numbers    *)
(* n - i is the least.                                                     *)
LEMMA LatestExists ==
    ASSUME NEW n \in Nat, NEW I \in SUBSET (1..n), I # {}
    PROVE  \E i \in I : \A j \in I : j <= i
<1> DEFINE T == {k \in Nat : n - k \in I}
<1>1. PICK i0 \in I : TRUE
  OBVIOUS
<1>2. i0 \in 1..n /\ n - i0 \in Nat /\ n - (n - i0) = i0
  OBVIOUS
<1>3. n - i0 \in T
  BY <1>1, <1>2
<1>4. T \subseteq Nat /\ T # {}
  BY <1>3
<1>5. PICK t \in T : \A y \in T : ~(<<y, t>> \in OpToRel(<, Nat))
  <2> HIDE DEF T
  <2> QED
    BY <1>4, NatLessThanWellFounded, WFMin
<1>6. ASSUME NEW y \in T PROVE y >= t
  <2>1. y \in Nat /\ t \in Nat
    OBVIOUS
  <2>2. <<y, t>> \in Nat \X Nat /\ <<y, t>>[1] = y /\ <<y, t>>[2] = t
    BY <2>1
  <2>3. ~(y < t)
    BY <1>5, <2>2 DEF OpToRel
  <2> QED
    BY <2>1, <2>3
<1>7. n - t \in I
  OBVIOUS
<1>8. ASSUME NEW j \in I PROVE j <= n - t
  <2>1. j \in 1..n /\ n - j \in Nat /\ n - (n - j) = j
    OBVIOUS
  <2>2. n - j \in T
    BY <2>1
  <2>3. n - j >= t /\ t \in Nat
    BY <1>6, <2>2
  <2> QED
    BY <2>1, <2>3
<1> QED
  BY <1>7, <1>8

(* The control message follows one of the messages; at the tail, the last one. *)
LEMMA ControlPlaced ==
    ASSUME NEW ms \in Seq(Msg), NEW position
    PROVE  /\ ControlFollows(ms, position) \in 0..Len(ms)
           /\ position = "tail" => ControlFollows(ms, position) = Len(ms)
<1> DEFINE system == {i \in DOMAIN ms : ms[i].role \in {"system", "developer"}}
<1>1. Len(ms) \in Nat /\ system \in SUBSET (1..Len(ms))
  OBVIOUS
<1>2. CASE position = "tail"
  BY <1>1, <1>2 DEF ControlFollows
<1>3. CASE position = "system_tail" /\ system # {}
  <2>1. \E i \in system : \A j \in system : j <= i
    BY <1>1, <1>3, LatestExists
  <2>2. (CHOOSE i \in system : \A j \in system : j <= i) \in system
    BY <2>1
  <2>3. ControlFollows(ms, position) = CHOOSE i \in system : \A j \in system : j <= i
    BY <1>3 DEF ControlFollows
  <2>4. ControlFollows(ms, position) \in 1..Len(ms)
    BY <1>1, <2>2, <2>3
  <2> QED
    BY <1>1, <1>3, <2>4
<1>4. CASE position # "tail" /\ ~(position = "system_tail" /\ system # {})
  <2>1. ControlFollows(ms, position) = 0
    BY <1>4 DEF ControlFollows
  <2> QED
    BY <1>1, <1>4, <2>1
<1> QED
  BY <1>2, <1>3, <1>4

-----------------------------------------------------------------------------
(* What the client sends. *)
LEMMA ClientsMessages ==
    ASSUME NEW c \in Cases
    PROVE  /\ c.request.messages \in Seq(Msg)
           /\ Keeps(c.request.messages, c.request.messages)
           /\ c.config.role \in {"system", "developer"}
<1>1. /\ c.request.messages \in Seq(Msg)
      /\ \A i \in DOMAIN c.request.messages : c.request.messages[i].from = i
      /\ c.config.role \in {"system", "developer"}
  BY CasesAssumption DEF Msg
<1>2. DOMAIN c.request.messages \subseteq Int
  BY <1>1
<1> QED
  BY <1>1, <1>2 DEF Keeps

(* The messages the injector writes itself. *)
LEMMA OwnMessages ==
    /\ Message("user", Continue) \in Msg /\ Message("user", Control) \in Msg
    /\ \A role \in {"system", "developer"} :
          Message(role, Control) \in Msg /\ ~Conversational(Message(role, Control))
    /\ \A role \in Roles, from \in Int : Message(role, from).role = role /\ Message(role, from).from = from
    /\ Control <= 0 /\ Continue <= 0
BY DEF Message, Msg, Roles, Control, Continue, Conversational

(* There are no other roles. *)
LEMMA UserTurnLeft ==
    ASSUME NEW ms \in Seq(Msg), ~NeedsUserTurn(ms)
    PROVE  LastTurnIn(ms, UserTurns)
<1>1. PICK i \in DOMAIN ms :
            /\ Conversational(ms[i]) /\ ms[i].role \notin ModelTurns
            /\ \A j \in DOMAIN ms : j > i => ~Conversational(ms[j])
  BY DEF NeedsUserTurn, LastTurnIn
<1>2. ms[i] \in Msg
  OBVIOUS
<1>3. ms[i].role \in UserTurns
  BY <1>1, <1>2 DEF Msg, Roles, UserTurns, ModelTurns, Conversational
<1> QED
  BY <1>1, <1>3 DEF LastTurnIn

(* The list that is built ends with a user's turn and holds what came in.  *)
LEMMA Injected ==
    ASSUME NEW ms \in Seq(Msg), Keeps(ms, ms), NEW position,
           NEW role \in {"system", "developer"}
    PROVE  /\ LastTurnIn(SanitizeAndInjectMessages(ms, position, role), UserTurns)
           /\ Keeps(ms, SanitizeAndInjectMessages(ms, position, role))
<1> DEFINE n == ControlFollows(ms, position)
           needed == NeedsUserTurn(ms)
           control == Message(IF position = "tail" /\ needed THEN "user" ELSE role, Control)
           injected == InsertAfter(ms, n, control)
           turn == Message("user", Continue)
<1>1. n \in 0..Len(ms) /\ (position = "tail" => n = Len(ms))
  BY ControlPlaced
<1>2. control \in Msg /\ control.from <= 0
  BY OwnMessages DEF Message, Control
<1>3. injected \in Seq(Msg) /\ Keeps(ms, injected)
  BY <1>1, <1>2, InsertIsSeq, InsertKeeps
<1>4. turn \in Msg /\ turn.role \in UserTurns /\ turn.from <= 0
  BY OwnMessages DEF Message, UserTurns, Continue
<1>5. CASE position # "tail" /\ needed
  <2>1. SanitizeAndInjectMessages(ms, position, role) = Append(injected, turn)
    BY <1>5 DEF SanitizeAndInjectMessages
  <2>2. Append(injected, turn) = InsertAfter(injected, Len(injected), turn)
    BY <1>3, <1>4, AppendInserts
  <2>3. Len(injected) \in 0..Len(injected)
    BY <1>3
  <2>4. Keeps(ms, InsertAfter(injected, Len(injected), turn))
    <3> HIDE DEF turn, injected
    <3> QED
      BY <1>3, <1>4, <2>3, InsertKeeps
  <2>5. LastTurnIn(Append(injected, turn), UserTurns)
    <3> HIDE DEF turn, injected
    <3> QED
      BY <1>3, <1>4, AppendedTurn
  <2> QED
    BY <2>1, <2>2, <2>4, <2>5
<1>6. CASE position = "tail" /\ needed
  <2>1. SanitizeAndInjectMessages(ms, position, role) = injected
    BY <1>6 DEF SanitizeAndInjectMessages
  <2>2. control.role \in UserTurns
    BY <1>6 DEF Message, UserTurns
  <2>3. injected = Append(ms, control)
    BY <1>1, <1>2, <1>6, AppendInserts
  <2>4. LastTurnIn(Append(ms, control), UserTurns)
    <3> HIDE DEF control
    <3> QED
      BY <1>2, <2>2, AppendedTurn
  <2> QED
    BY <1>3, <2>1, <2>3, <2>4
<1>7. CASE ~needed
  <2>1. SanitizeAndInjectMessages(ms, position, role) = injected
    BY <1>7 DEF SanitizeAndInjectMessages
  <2>2. ~Conversational(control)
    BY <1>7, OwnMessages
  <2>3. LastTurnIn(ms, UserTurns)
    BY <1>7, UserTurnLeft
  <2>4. LastTurnIn(injected, UserTurns)
    <3> HIDE DEF control, n
    <3> QED
      BY <1>1, <1>2, <2>2, <2>3, InsertedSystem
  <2> QED
    BY <1>3, <2>1, <2>4
<1> QED
  BY <1>5, <1>6, <1>7

-----------------------------------------------------------------------------
(* Properties of one request that InjectContext may make. *)
TurnOf(s) == (s.tool = NoTool /\ s.messages = <<>>) \/ LastTurnIn(s.messages, UserTurns)

KeptOf(request, s) ==
    /\ Keeps(request.messages, s.messages)
    /\ s.tools \in {request.tools, Append(request.tools, s.tool)}

NameOf(request, s) == s.tool # NoTool => s.tool \in Names /\ s.tool \notin Range(request.tools)

(* What the invariant says of a request that is passed on as it is. *)
LEMMA Passed ==
    ASSUME NEW c \in Cases
    PROVE  /\ TurnOf(PassThrough(c.request))
           /\ KeptOf(c.request, PassThrough(c.request))
           /\ NameOf(c.request, PassThrough(c.request))
<1> DEFINE ms == c.request.messages
           s == PassThrough(c.request)
           turn == Message("user", Continue)
<1>1. ms \in Seq(Msg) /\ Keeps(ms, ms)
  BY ClientsMessages
<1>2. s.tool = NoTool /\ s.tools = c.request.tools
  BY DEF PassThrough
<1>3. turn \in Msg /\ turn.role \in UserTurns /\ turn.from <= 0
  BY OwnMessages DEF Message, UserTurns, Continue
<1>4. CASE ms # <<>> /\ NeedsUserTurn(ms)
  <2>1. s.messages = Append(ms, turn)
    BY <1>4 DEF PassThrough
  <2>2. LastTurnIn(Append(ms, turn), UserTurns)
    <3> HIDE DEF ms, turn
    <3> QED
      BY <1>1, <1>3, AppendedTurn
  <2>3. Keeps(ms, Append(ms, turn))
    <3> HIDE DEF ms, turn
    <3>1. Append(ms, turn) = InsertAfter(ms, Len(ms), turn) /\ Len(ms) \in 0..Len(ms)
      BY <1>1, <1>3, AppendInserts
    <3> QED
      BY <1>1, <1>3, <3>1, InsertKeeps
  <2> QED
    BY <1>2, <2>1, <2>2, <2>3 DEF TurnOf, KeptOf, NameOf
<1>5. CASE ~(ms # <<>> /\ NeedsUserTurn(ms))
  <2>1. s.messages = ms
    BY <1>5 DEF PassThrough
  <2>2. ms = <<>> \/ LastTurnIn(ms, UserTurns)
    BY <1>1, <1>5, UserTurnLeft
  <2> QED
    BY <1>1, <1>2, <2>1, <2>2 DEF TurnOf, KeptOf, NameOf
<1> QED
  BY <1>4, <1>5

(* What it says of a request whose answer is asked for through the transport tool. *)
LEMMA WrappedUp ==
    ASSUME NEW c \in Cases, NEW name \in UniqueToolNames(c.request.tools)
    PROVE  /\ TurnOf(Wrapped(c.config, c.request, name))
           /\ KeptOf(c.request, Wrapped(c.config, c.request, name))
           /\ NameOf(c.request, Wrapped(c.config, c.request, name))
<1> DEFINE ms == c.request.messages
           s == Wrapped(c.config, c.request, name)
<1>1. ms \in Seq(Msg) /\ Keeps(ms, ms) /\ c.config.role \in {"system", "developer"}
  BY ClientsMessages
<1>2. /\ s.tool = name /\ s.tools = Append(c.request.tools, name)
      /\ s.messages = SanitizeAndInjectMessages(ms, c.config.position, c.config.role)
  BY DEF Wrapped
<1>3. LastTurnIn(s.messages, UserTurns) /\ Keeps(ms, s.messages)
  <2> HIDE DEF ms, s
  <2> QED
    BY <1>1, <1>2, Injected
<1>4. name \in Names /\ name \notin Range(c.request.tools)
  BY DEF UniqueToolNames
<1> QED
  BY <1>2, <1>3, <1>4 DEF TurnOf, KeptOf, NameOf

(* Whatever is sent was made by InjectContext from the request of the case. *)
ExInv == case \in Cases /\ \A s \in sent : s \in InjectContext(case.config, case.request)

(* What the invariant says of any request that was sent upstream. *)
LEMMA SentWell ==
    ASSUME ExInv, NEW s \in sent
    PROVE  TurnOf(s) /\ KeptOf(case.request, s) /\ NameOf(case.request, s)
<1>1. case \in Cases /\ s \in InjectContext(case.config, case.request)
  BY DEF ExInv
<1>2. CASE Wraps(case.config, case.request)
  <2>1. PICK name \in UniqueToolNames(case.request.tools) :
            s = Wrapped(case.config, case.request, name)
    BY <1>1, <1>2 DEF InjectContext
  <2> QED
    BY <1>1, <2>1, WrappedUp
<1>3. CASE ~Wraps(case.config, case.request)
  <2>1. s = PassThrough(case.request)
    BY <1>1, <1>3 DEF InjectContext
  <2> QED
    BY <1>1, <2>1, Passed
<1> QED
  BY <1>2, <1>3

(* The invariant of the requests alone. *)
LEMMA ExInvariant == ExSpec => []ExInv
<1>1. ExInit => ExInv
  BY DEF ExInit, ExInv
<1>2. ExInv /\ [ExNext]_exchange => ExInv'
  <2> SUFFICES ASSUME ExInv, [ExNext]_exchange
               PROVE  ExInv'
    OBVIOUS
  <2>1. CASE Inject
    <3>1. PICK s \in InjectContext(case.config, case.request) : sent' = {s}
      BY <2>1 DEF Inject
    <3>2. case' = case
      BY <2>1 DEF Inject
    <3> QED
      BY <3>1, <3>2 DEF ExInv
  <2>2. CASE InjectFails
    BY <2>2 DEF InjectFails, ExInv
  <2>3. CASE Answer
    BY <2>3 DEF Answer, ExInv
  <2>4. CASE Normalize
    BY <2>4 DEF Normalize, ExInv
  <2>5. CASE UNCHANGED exchange
    BY <2>5 DEF exchange, ExInv
  <2> QED
    BY <2>1, <2>2, <2>3, <2>4, <2>5 DEF ExNext
<1> QED
  BY <1>1, <1>2, PTL DEF ExSpec

(* For every list of messages, of any length and roles, and every position *)
(* of the control message, what goes upstream ends with a user's turn      *)
(* (injector.go:113).                                                      *)
THEOREM EndsWithUserTurn == ExSpec => []UserTurnLast
<1>1. ExInv => UserTurnLast
  BY SentWell DEF UserTurnLast, TurnOf
<1> QED
  BY <1>1, ExInvariant, PTL

(* None of the client's messages and tools is lost, doubled or moved       *)
(* against the others (injector.go:149-157).                               *)
THEOREM NothingLost == ExSpec => []ClientKept
<1>1. ExInv => ClientKept
  <2> SUFFICES ASSUME ExInv, NEW s \in sent
               PROVE  KeptOf(case.request, s)
    BY DEF ClientKept, KeptOf, Keeps
  <2> QED
    BY SentWell
<1> QED
  BY <1>1, ExInvariant, PTL

(* The transport tool never has the name of one of the client's tools, so  *)
(* that no call of theirs is taken for it (injector.go:51).                *)
THEOREM NameIsNew ==
    ExSpec => [](\A s \in sent : s.tool # NoTool => s.tool \notin Range(case.request.tools))
<1>1. ExInv => \A s \in sent : s.tool # NoTool => s.tool \notin Range(case.request.tools)
  BY SentWell DEF NameOf
<1> QED
  BY <1>1, ExInvariant, PTL

-----------------------------------------------------------------------------
(* What one call adds to those that are kept. *)
KeptOne(c, names) == IF c.name \in names THEN <<c>> ELSE <<>>

(* The loop over the calls is well defined. *)
LEMMA KeptDefined ==
    ASSUME NEW S, NEW calls \in Seq(S), NEW names
    PROVE  /\ KeptCalls(calls, names)[0] = <<>>
           /\ \A n \in 1..Len(calls) :
                 KeptCalls(calls, names)[n] = KeptCalls(calls, names)[n - 1] \o KeptOne(calls[n], names)
<1> DEFINE m == Len(calls)
           Follows(w, n) == IF n = 0 THEN <<>> ELSE w[n - 1] \o KeptOne(calls[n], names)
           I == {j \in Nat : \E w : w = [n \in 0..j |-> Follows(w, n)]}
<1>1. m \in Nat
  OBVIOUS
<1>2. 0 \in I
  <2> DEFINE w == [n \in 0..0 |-> <<>>]
  <2>1. w = [n \in 0..0 |-> Follows(w, n)]
    OBVIOUS
  <2>2. \E v : v = [n \in 0..0 |-> Follows(v, n)]
    BY <2>1
  <2> QED
    BY <2>2
<1>3. ASSUME NEW t \in 1..m, t - 1 \in I PROVE t \in I
  <2>1. t \in Nat /\ t - 1 \in Nat /\ t # 0
    BY <1>1
  <2>2. PICK w : w = [n \in 0..(t - 1) |-> Follows(w, n)]
    BY <1>3
  <2> DEFINE v == [n \in 0..t |-> Follows(w, n)]
  <2>3. \A n \in 0..t : Follows(v, n) = Follows(w, n)
    <3> SUFFICES ASSUME NEW n \in 0..t PROVE Follows(v, n) = Follows(w, n)
      OBVIOUS
    <3>1. CASE n = 0
      BY <3>1
    <3>2. CASE n # 0
      <4>1. n - 1 \in 0..(t - 1) /\ n - 1 \in 0..t
        BY <2>1, <3>2
      <4>2. v[n - 1] = Follows(w, n - 1)
        BY <4>1
      <4>3. w[n - 1] = [i \in 0..(t - 1) |-> Follows(w, i)][n - 1]
        BY <2>2
      <4>4. w[n - 1] = Follows(w, n - 1)
        BY <4>1, <4>3
      <4>5. v[n - 1] = w[n - 1]
        BY <4>2, <4>4
      <4> HIDE DEF v
      <4> QED
        BY <4>5
    <3> QED
      BY <3>1, <3>2
  <2>4. v = [n \in 0..t |-> Follows(v, n)]
    BY <2>3
  <2>5. \E u : u = [n \in 0..t |-> Follows(u, n)]
    BY <2>4
  <2> QED
    BY <2>1, <2>5
<1>4. m \in I
  <2> HIDE DEF I, m
  <2>1. \A n \in 0..m : n \in I
    BY <1>1, <1>2, <1>3, UpToInduction
  <2> QED
    BY <1>1, <2>1
<1>5. \E w : w = [n \in 0..m |-> Follows(w, n)]
  BY <1>4
<1> DEFINE kept == KeptCalls(calls, names)
<1>6. kept = [n \in 0..m |-> Follows(kept, n)]
  <2>1. kept = CHOOSE w : w = [n \in 0..m |-> Follows(w, n)]
    BY DEF KeptCalls, KeptOne
  <2> HIDE DEF kept
  <2> QED
    BY <1>5, <2>1
<1> HIDE DEF kept
<1>7. \A n \in 0..m : kept[n] = Follows(kept, n)
  BY <1>6
<1>8. kept[0] = <<>>
  <2>1. 0 \in 0..m
    BY <1>1
  <2>2. kept[0] = Follows(kept, 0)
    BY <1>7, <2>1
  <2> QED
    BY <2>2
<1>9. ASSUME NEW n \in 1..m
      PROVE  kept[n] = kept[n - 1] \o KeptOne(calls[n], names)
  <2>1. n \in 0..m /\ n # 0
    BY <1>1
  <2>2. kept[n] = Follows(kept, n)
    BY <1>7, <2>1
  <2> QED
    BY <2>1, <2>2
<1> QED
  BY <1>8, <1>9 DEF kept

(* Either the call is added, or nothing. *)
LEMMA KeptStep ==
    ASSUME NEW S, NEW calls \in Seq(S), NEW names, NEW n \in 1..Len(calls),
           KeptCalls(calls, names)[n - 1] \in Seq(S)
    PROVE  /\ calls[n] \in S
           /\ calls[n].name \in names =>
                 KeptCalls(calls, names)[n] = Append(KeptCalls(calls, names)[n - 1], calls[n])
           /\ calls[n].name \notin names =>
                 KeptCalls(calls, names)[n] = KeptCalls(calls, names)[n - 1]
<1> DEFINE before == KeptCalls(calls, names)[n - 1]
<1>1. KeptCalls(calls, names)[n] = before \o KeptOne(calls[n], names)
  BY KeptDefined
<1>2. calls[n] \in S /\ before \in Seq(S)
  OBVIOUS
<1> HIDE DEF before
<1>3. before \o <<>> = before /\ before \o <<calls[n]>> = Append(before, calls[n])
  BY <1>2
<1> QED
  BY <1>1, <1>2, <1>3 DEF KeptOne, before

(* The calls that are kept are calls of the choice. *)
LEMMA KeptTyped ==
    ASSUME NEW S, NEW calls \in Seq(S), NEW names
    PROVE  \A n \in 0..Len(calls) : KeptCalls(calls, names)[n] \in Seq(S)
<1> DEFINE m == Len(calls)
           I == {n \in Nat : KeptCalls(calls, names)[n] \in Seq(S)}
<1>1. m \in Nat
  OBVIOUS
<1>2. 0 \in I
  <2>1. KeptCalls(calls, names)[0] = <<>>
    BY KeptDefined
  <2>2. <<>> \in Seq(S)
    OBVIOUS
  <2> QED
    BY <2>1, <2>2
<1>3. ASSUME NEW n \in 1..m, n - 1 \in I PROVE n \in I
  <2>1. KeptCalls(calls, names)[n - 1] \in Seq(S) /\ n \in Nat
    BY <1>1, <1>3
  <2>2. /\ calls[n] \in S
        /\ calls[n].name \in names =>
              KeptCalls(calls, names)[n] = Append(KeptCalls(calls, names)[n - 1], calls[n])
        /\ calls[n].name \notin names =>
              KeptCalls(calls, names)[n] = KeptCalls(calls, names)[n - 1]
    BY <2>1, KeptStep
  <2>3. Append(KeptCalls(calls, names)[n - 1], calls[n]) \in Seq(S)
    BY <2>1, <2>2
  <2>4. KeptCalls(calls, names)[n] \in Seq(S)
    BY <2>1, <2>2, <2>3
  <2> QED
    BY <2>1, <2>4
<1>4. \A n \in 0..m : n \in I
  <2> HIDE DEF I, m
  <2> QED
    BY <1>1, <1>2, <1>3, UpToInduction
<1> QED
  BY <1>4

(* The calls that are kept do not depend on those that follow. *)
LEMMA ThoseAppend ==
    ASSUME NEW S, NEW calls \in Seq(S), NEW x \in S, NEW names
    PROVE  /\ Those(calls, names) \in Seq(S)
           /\ x.name \in names => Those(Append(calls, x), names) = Append(Those(calls, names), x)
           /\ x.name \notin names => Those(Append(calls, x), names) = Those(calls, names)
<1> DEFINE m == Len(calls)
           more == Append(calls, x)
           I == {n \in Nat : KeptCalls(more, names)[n] = KeptCalls(calls, names)[n]}
<1>1. m \in Nat /\ more \in Seq(S) /\ Len(more) = m + 1 /\ more[m + 1] = x
      /\ \A n \in 1..m : more[n] = calls[n]
  OBVIOUS
<1> HIDE DEF more
<1>2. 0 \in I
  BY <1>1, KeptDefined
<1>3. ASSUME NEW n \in 1..m, n - 1 \in I PROVE n \in I
  <2>1. n \in 1..Len(more) /\ n \in Nat /\ more[n] = calls[n]
    BY <1>1
  <2>2. KeptCalls(more, names)[n] = KeptCalls(more, names)[n - 1] \o KeptOne(more[n], names)
    BY <1>1, <2>1, KeptDefined
  <2>3. KeptCalls(calls, names)[n] = KeptCalls(calls, names)[n - 1] \o KeptOne(calls[n], names)
    BY KeptDefined
  <2>4. KeptCalls(more, names)[n - 1] = KeptCalls(calls, names)[n - 1]
    BY <1>3
  <2> QED
    BY <2>1, <2>2, <2>3, <2>4
<1>4. \A n \in 0..m : n \in I
  <2> HIDE DEF I, m
  <2> QED
    BY <1>1, <1>2, <1>3, UpToInduction
<1>5. KeptCalls(more, names)[m] = KeptCalls(calls, names)[m]
  BY <1>1, <1>4
<1>6. KeptCalls(calls, names)[m] \in Seq(S)
  BY <1>1, KeptTyped
<1>7. m + 1 \in 1..Len(more) /\ (m + 1) - 1 = m
  BY <1>1
<1>8. /\ x.name \in names =>
            KeptCalls(more, names)[m + 1] = Append(KeptCalls(more, names)[m], x)
      /\ x.name \notin names => KeptCalls(more, names)[m + 1] = KeptCalls(more, names)[m]
  <2> DEFINE k == m + 1
  <2>1. k \in 1..Len(more) /\ k - 1 = m /\ more[k] = x
    BY <1>1, <1>7
  <2> HIDE DEF k
  <2>2. KeptCalls(more, names)[k - 1] \in Seq(S) /\ more \in Seq(S) /\ k \in 1..Len(more)
    BY <1>1, <1>5, <1>6, <2>1
  <2>3. /\ more[k].name \in names =>
              KeptCalls(more, names)[k] = Append(KeptCalls(more, names)[k - 1], more[k])
        /\ more[k].name \notin names => KeptCalls(more, names)[k] = KeptCalls(more, names)[k - 1]
    <3> HIDE DEF m
    <3> QED
      BY <2>2, KeptStep
  <2>4. /\ x.name \in names => KeptCalls(more, names)[k] = Append(KeptCalls(more, names)[m], x)
        /\ x.name \notin names => KeptCalls(more, names)[k] = KeptCalls(more, names)[m]
    BY <2>1, <2>3
  <2> QED
    BY <2>4 DEF k
<1>9. Those(calls, names) = KeptCalls(calls, names)[m] /\ Those(more, names) = KeptCalls(more, names)[m + 1]
  BY <1>1 DEF Those
<1> QED
  BY <1>5, <1>6, <1>8, <1>9 DEF more

(* Of no calls none is kept. *)
LEMMA ThoseEmpty == \A names : Those(<<>>, names) = <<>>
<1> TAKE names
<1>1. <<>> \in Seq({}) /\ Len(<<>>) = 0
  OBVIOUS
<1>2. KeptCalls(<<>>, names)[0] = <<>>
  BY <1>1, KeptDefined
<1> QED
  BY <1>1, <1>2 DEF Those

(* Keeping those with a name in A, and of them those with one in B. *)
LEMMA ThoseTwice ==
    ASSUME NEW S, NEW calls \in Seq(S), NEW A, NEW B
    PROVE  Those(Those(calls, A), B) = Those(calls, A \cap B)
<1> DEFINE m == Len(calls)
           a(n) == KeptCalls(calls, A)[n]
           both(n) == KeptCalls(calls, A \cap B)[n]
           I == {n \in Nat : Those(a(n), B) = both(n)}
<1>1. m \in Nat
  OBVIOUS
<1>2. 0 \in I
  BY KeptDefined, ThoseEmpty
<1>3. ASSUME NEW n \in 1..m, n - 1 \in I PROVE n \in I
  <2>1. n \in Nat /\ n - 1 \in 0..m
    BY <1>1
  <2>2. a(n - 1) \in Seq(S) /\ both(n - 1) \in Seq(S)
    BY <2>1, KeptTyped
  <2>3. Those(a(n - 1), B) = both(n - 1)
    BY <1>3
  <2>4. /\ calls[n] \in S
        /\ calls[n].name \in A => a(n) = Append(a(n - 1), calls[n])
        /\ calls[n].name \notin A => a(n) = a(n - 1)
    BY <2>2, KeptStep
  <2>5. /\ calls[n].name \in A \cap B => both(n) = Append(both(n - 1), calls[n])
        /\ calls[n].name \notin A \cap B => both(n) = both(n - 1)
    <3> DEFINE C == A \cap B
    <3>1. KeptCalls(calls, C)[n - 1] \in Seq(S)
      BY <2>2
    <3> HIDE DEF C
    <3>2. /\ calls[n].name \in C =>
                KeptCalls(calls, C)[n] = Append(KeptCalls(calls, C)[n - 1], calls[n])
          /\ calls[n].name \notin C => KeptCalls(calls, C)[n] = KeptCalls(calls, C)[n - 1]
      BY <3>1, KeptStep
    <3> QED
      BY <3>2 DEF C
  <2>6. /\ calls[n].name \in B => Those(Append(a(n - 1), calls[n]), B) = Append(Those(a(n - 1), B), calls[n])
        /\ calls[n].name \notin B => Those(Append(a(n - 1), calls[n]), B) = Those(a(n - 1), B)
    <3> DEFINE before == a(n - 1)
               x == calls[n]
    <3>1. before \in Seq(S) /\ x \in S
      BY <2>2, <2>4
    <3> HIDE DEF before, x
    <3>2. /\ x.name \in B => Those(Append(before, x), B) = Append(Those(before, B), x)
          /\ x.name \notin B => Those(Append(before, x), B) = Those(before, B)
      BY <3>1, ThoseAppend
    <3> QED
      BY <3>2 DEF before, x
  <2>7. Those(a(n), B) = both(n)
    <3> HIDE DEF a, both
    <3> QED
      BY <2>3, <2>4, <2>5, <2>6
  <2> QED
    BY <2>1, <2>7
<1>4. \A n \in 0..m : n \in I
  <2> HIDE DEF I, m
  <2> QED
    BY <1>1, <1>2, <1>3, UpToInduction
<1>5. Those(a(m), B) = both(m)
  <2>1. m \in 0..m
    BY <1>1
  <2>2. m \in I
    BY <1>4, <2>1
  <2> QED
    BY <2>2
<1> QED
  BY <1>5 DEF Those

(* Only the names that occur matter. *)
LEMMA ThoseAgree ==
    ASSUME NEW S, NEW calls \in Seq(S), NEW A, NEW B,
           \A n \in 1..Len(calls) : calls[n].name \in A <=> calls[n].name \in B
    PROVE  Those(calls, A) = Those(calls, B)
<1> DEFINE m == Len(calls)
           I == {n \in Nat : KeptCalls(calls, A)[n] = KeptCalls(calls, B)[n]}
<1>1. m \in Nat
  OBVIOUS
<1>2. 0 \in I
  BY KeptDefined
<1>3. ASSUME NEW n \in 1..m, n - 1 \in I PROVE n \in I
  <2>1. KeptCalls(calls, A)[n] = KeptCalls(calls, A)[n - 1] \o KeptOne(calls[n], A)
    BY KeptDefined
  <2>2. KeptCalls(calls, B)[n] = KeptCalls(calls, B)[n - 1] \o KeptOne(calls[n], B)
    BY KeptDefined
  <2>3. KeptOne(calls[n], A) = KeptOne(calls[n], B)
    BY DEF KeptOne
  <2>4. KeptCalls(calls, A)[n - 1] = KeptCalls(calls, B)[n - 1] /\ n \in Nat
    BY <1>1, <1>3
  <2> QED
    BY <2>1, <2>2, <2>3, <2>4
<1>4. \A n \in 0..m : n \in I
  <2> HIDE DEF I, m
  <2> QED
    BY <1>1, <1>2, <1>3, UpToInduction
<1> QED
  BY <1>1, <1>4 DEF Those

(* Without a name no call is kept. *)
LEMMA ThoseNone ==
    ASSUME NEW S, NEW calls \in Seq(S)
    PROVE  Those(calls, {}) = <<>>
<1> DEFINE m == Len(calls)
           I == {n \in Nat : KeptCalls(calls, {})[n] = <<>>}
<1>1. m \in Nat
  OBVIOUS
<1>2. 0 \in I
  BY KeptDefined
<1>3. ASSUME NEW n \in 1..m, n - 1 \in I PROVE n \in I
  <2>1. KeptCalls(calls, {})[n - 1] = <<>> /\ n \in Nat
    BY <1>1, <1>3
  <2>2. <<>> \in Seq(S)
    OBVIOUS
  <2>3. KeptCalls(calls, {})[n - 1] \in Seq(S)
    BY <2>1, <2>2
  <2>4. KeptCalls(calls, {})[n] = KeptCalls(calls, {})[n - 1]
    <3> DEFINE none == {}
    <3>1. KeptCalls(calls, none)[n - 1] \in Seq(S)
      BY <2>3
    <3>2. calls[n].name \notin none
      OBVIOUS
    <3> HIDE DEF none
    <3>3. KeptCalls(calls, none)[n] = KeptCalls(calls, none)[n - 1]
      BY <3>1, <3>2, KeptStep
    <3> QED
      BY <3>3 DEF none
  <2> QED
    BY <2>1, <2>4
<1>4. \A n \in 0..m : n \in I
  <2> HIDE DEF I, m
  <2> QED
    BY <1>1, <1>2, <1>3, UpToInduction
<1> QED
  BY <1>1, <1>4 DEF Those

-----------------------------------------------------------------------------
(* A call has a writing as its arguments, or none that matter.             *)
Argued(c) ==
    /\ c.by = {} => c.args = <<>>
    /\ \A w \in c.by : IsWriting(w) /\ c.args = SubSeq(w.text.raw, 1, w.cut)

(* A choice of a well-formed answer: its calls are a list; a choice        *)
(* without a message has none; and "tool_calls" is said of those with      *)
(* calls, unless the answer was cut off.                                   *)
WellFormed(choice) ==
    /\ \E S : choice.calls \in Seq(S) /\ \A c \in S : Argued(c)
    /\ ~choice.message => choice.calls = <<>>
    /\ choice.finish = "tool_calls" => choice.calls # <<>>
    /\ choice.calls # <<>> => choice.finish \in {"tool_calls", "length"}
    /\ {"calls", "finish", "content"} \subseteq DOMAIN choice

(* A transport tool that the upstream was not given is not called.         *)
NoneUnasked(s, choice) ==
    s.tool = NoTool => \A k \in DOMAIN choice.calls : choice.calls[k].name # NoTool

(* The choices of an answer are well formed, and none has a call nobody asked for. *)
LEMMA ChoicesWellFormed ==
    ASSUME case \in Cases, NEW s, NEW choice \in ChoicesFor(s)
    PROVE  WellFormed(choice) /\ NoneUnasked(s, choice)
<1>1. case.maxCalls \in Nat
  BY CasesAssumption
<1> DEFINE S == TransportCalls(s) \cup OtherCalls(s)
<1>5. ASSUME NEW c \in S PROVE Argued(c) /\ (s.tool = NoTool => c.name # NoTool)
  <2>1. CASE c \in TransportCalls(s)
    <3>1. s.tool # NoTool
      BY <2>1 DEF TransportCalls
    <3>2. PICK w \in case.writings :
             c = [name |-> s.tool, args |-> SubSeq(w.text.raw, 1, w.cut), by |-> {w}]
      BY <2>1, <3>1 DEF TransportCalls
    <3>3. IsWriting(w)
      BY CasesAssumption
    <3>4. c.by = {w} /\ c.args = SubSeq(w.text.raw, 1, w.cut)
      BY <3>2
    <3> QED
      BY <3>1, <3>3, <3>4 DEF Argued
  <2>2. CASE c \in OtherCalls(s)
    <3>1. PICK t \in (Range(s.tools) \ {s.tool}) \cup {"odd"} :
             c = [name |-> t, args |-> <<>>, by |-> {}]
      BY <2>2 DEF OtherCalls
    <3>2. c.by = {} /\ c.args = <<>> /\ c.name = t
      BY <3>1
    <3>3. s.tool = NoTool => t # NoTool
      BY DEF NoTool
    <3> QED
      BY <3>2, <3>3 DEF Argued
  <2> QED
    BY <2>1, <2>2
<1>2. CASE \E c \in Contents, f \in {"stop", "length"} :
              choice = [content |-> c, calls |-> <<>>, finish |-> f, message |-> TRUE]
  <2>1. choice.calls = <<>> /\ choice.finish \in {"stop", "length"} /\ choice.message
        /\ {"calls", "finish", "content"} \subseteq DOMAIN choice
    BY <1>2
  <2>2. <<>> \in Seq({})
    OBVIOUS
  <2>3. DOMAIN choice.calls = {} /\ choice.calls = <<>>
    BY <2>1
  <2>4. WellFormed(choice)
    <3> DEFINE T == {}
    <3>1. choice.calls \in Seq(T) /\ \A c \in T : Argued(c)
      BY <2>3
    <3> HIDE DEF T
    <3> QED
      BY <2>1, <2>3, <3>1 DEF WellFormed
  <2> QED
    BY <2>3, <2>4 DEF NoneUnasked
<1>3. CASE \E c \in Contents, f \in {"tool_calls", "length"},
              cs \in UNION {[1..n -> S] : n \in 1..case.maxCalls} :
              choice = [content |-> c, calls |-> cs, finish |-> f, message |-> TRUE]
  <2> HIDE DEF S
  <2>1. PICK n \in 1..case.maxCalls : choice.calls \in [1..n -> S]
    BY <1>3
  <2>2. n \in Nat /\ n # 0
    BY <1>1
  <2>3. choice.calls \in Seq(S) /\ choice.calls # <<>>
    BY <2>1, <2>2
  <2>4. choice.finish \in {"tool_calls", "length"} /\ choice.message
        /\ {"calls", "finish", "content"} \subseteq DOMAIN choice
    BY <1>3
  <2>5. \A k \in DOMAIN choice.calls : choice.calls[k] \in S
    BY <2>3
  <2> QED
    BY <1>5, <2>3, <2>4, <2>5 DEF WellFormed, NoneUnasked
<1>4. CASE choice = [content |-> [from |-> "none", text |-> <<>>], calls |-> <<>>, finish |-> "stop",
                     message |-> FALSE]
  <2>1. <<>> \in Seq({})
    OBVIOUS
  <2>3. DOMAIN choice.calls = {} /\ choice.calls = <<>>
    BY <1>4
  <2>4. WellFormed(choice)
    <3> DEFINE T == {}
    <3>1. choice.calls \in Seq(T) /\ \A c \in T : Argued(c)
      BY <2>3
    <3> HIDE DEF T
    <3> QED
      BY <1>4, <2>3, <3>1 DEF WellFormed
  <2> QED
    BY <2>3, <2>4 DEF NoneUnasked
<1> QED
  BY <1>2, <1>3, <1>4 DEF ChoicesFor

(* A choice stays as it is, or its calls are replaced by the real ones.    *)
LEMMA ChoiceNormalized ==
    ASSUME NEW mode, NEW tool, NEW choice, {"calls", "finish", "content"} \subseteq DOMAIN choice
    PROVE  LET new == NormalizeChoice(mode, tool, choice).choice
           IN  \/ new = choice /\ (~choice.message \/ CallsOf(choice, tool) = <<>>)
               \/ /\ new.calls = RealCalls(choice, tool)
                  /\ new.finish = FinishReasonOf(choice, RealCalls(choice, tool))
<1> DEFINE new == NormalizeChoice(mode, tool, choice).choice
           contents == [i \in DOMAIN CallsOf(choice, tool) |->
                            RepairSyntheticArguments(CallsOf(choice, tool)[i].args)]
           real == RealCalls(choice, tool)
<1>1. CASE ~choice.message \/ CallsOf(choice, tool) = <<>>
  <2>1. new = choice
    BY <1>1 DEF NormalizeChoice
  <2> QED
    BY <1>1, <2>1
<1>2. CASE choice.message /\ CallsOf(choice, tool) # <<>>
  <2>1. NormalizeChoice(mode, tool, choice) = Replace(choice, real, contents)
    BY <1>2 DEF NormalizeChoice
  <2>2. Replace(choice, real, contents).choice
            = [choice EXCEPT !.content = FromTransport(contents), !.calls = real,
                             !.finish = FinishReasonOf(choice, real)]
    BY DEF Replace
  <2> HIDE DEF contents, real
  <2>3. new.calls = real /\ new.finish = FinishReasonOf(choice, real)
    BY <2>1, <2>2
  <2> QED
    BY <2>3 DEF real
<1> QED
  BY <1>1, <1>2

(* The answer goes through as it is, or each of its choices is normalised. *)
AsItIs(mode, tool) == mode = "off" \/ tool = ""

(* Each choice of an answer is left as it is, or normalised by itself. *)
LEMMA AnswerNormalized ==
    ASSUME NEW mode, NEW tool, NEW choices, NEW i \in DOMAIN choices, NEW r,
           r = NormalizeNonStreaming(mode, tool, choices)
    PROVE  /\ AsItIs(mode, tool) => r.choices[i] = choices[i]
           /\ ~AsItIs(mode, tool) => r.choices[i] = NormalizeChoice(mode, tool, choices[i]).choice
<1> DEFINE done == [j \in DOMAIN choices |-> NormalizeChoice(mode, tool, choices[j])]
<1>1. CASE AsItIs(mode, tool)
  BY <1>1 DEF NormalizeNonStreaming, AsItIs
<1>2. CASE ~AsItIs(mode, tool)
  <2>1. choices # <<>>
    OBVIOUS
  <2>2. r = Outcome(tool, choices, done)
    BY <1>2, <2>1 DEF NormalizeNonStreaming, AsItIs
  <2>3. Outcome(tool, choices, done).choices = [j \in DOMAIN choices |-> done[j].choice]
    BY DEF Outcome
  <2>4. r.choices[i] = NormalizeChoice(mode, tool, choices[i]).choice
    BY <2>2, <2>3
  <2> QED
    BY <1>2, <2>4
<1> QED
  BY <1>1, <1>2

-----------------------------------------------------------------------------
(* What the client is told of a choice, given the one that came. *)
FinishOf(new) ==
    /\ new.finish = "tool_calls" => new.calls # <<>>
    /\ new.calls # <<>> => new.finish \in {"tool_calls", "length"}

(* The finish reason fits what is left of the calls. *)
LEMMA FinishNormalized ==
    ASSUME NEW mode, NEW tool, NEW choice, WellFormed(choice)
    PROVE  FinishOf(NormalizeChoice(mode, tool, choice).choice)
<1> DEFINE new == NormalizeChoice(mode, tool, choice).choice
           real == RealCalls(choice, tool)
<1>1. \/ new = choice
      \/ new.calls = real /\ new.finish = FinishReasonOf(choice, real)
  BY ChoiceNormalized DEF WellFormed
<1> HIDE DEF new, real
<1>2. ASSUME new = choice PROVE FinishOf(new)
  BY <1>2 DEF WellFormed, FinishOf
<1>3. ASSUME new.calls = real, new.finish = FinishReasonOf(choice, real) PROVE FinishOf(new)
  BY <1>3 DEF FinishOf, FinishReasonOf
<1>4. FinishOf(new)
  BY <1>1, <1>2, <1>3
<1> QED
  BY <1>4 DEF new

(* Calls of tools that are not the transport tool stay, in order; calls of *)
(* the transport tool go.                                                  *)
LEMMA CallsNormalized ==
    ASSUME NEW mode, NEW tool, NEW choice, WellFormed(choice),
           NEW tools, tool \notin tools, "odd" \notin tools
    PROVE  LET new == NormalizeChoice(mode, tool, choice).choice
           IN  /\ Those(new.calls, tools) = Those(choice.calls, tools)
               /\ CallsOf(new, tool) = <<>>
<1> DEFINE new == NormalizeChoice(mode, tool, choice).choice
           real == RealCalls(choice, tool)
           calls == choice.calls
           names == {c.name : c \in Range(calls)} \ {tool, "odd"}
<1>1. PICK S : calls \in Seq(S)
  BY DEF WellFormed
<1>2. \/ new = choice /\ (~choice.message \/ CallsOf(choice, tool) = <<>>)
      \/ new.calls = real
  BY ChoiceNormalized DEF WellFormed
<1>3. real = Those(calls, names)
  BY DEF RealCalls
<1>4. \A n \in 1..Len(calls) : calls[n].name \in {c.name : c \in Range(calls)}
  <2>1. DOMAIN calls = 1..Len(calls)
    BY <1>1
  <2> QED
    BY <2>1 DEF Range
<1>5. Those(real, tools) = Those(calls, tools)
  <2> DEFINE both == names \cap tools
  <2>1. \A n \in 1..Len(calls) : calls[n].name \in both <=> calls[n].name \in tools
    BY <1>4
  <2> HIDE DEF calls, names, both
  <2>2. Those(calls, both) = Those(calls, tools)
    BY <1>1, <2>1, ThoseAgree
  <2>3. Those(Those(calls, names), tools) = Those(calls, names \cap tools)
    BY <1>1, ThoseTwice
  <2> QED
    BY <1>3, <2>2, <2>3 DEF both
<1>6. Those(real, {tool}) = <<>>
  <2>1. names \cap {tool} = {}
    OBVIOUS
  <2> DEFINE its == {tool}
  <2> HIDE DEF calls, names, its
  <2>2. Those(Those(calls, names), its) = Those(calls, names \cap its)
    BY <1>1, ThoseTwice
  <2>3. Those(calls, {}) = <<>>
    BY <1>1, ThoseNone
  <2> QED
    BY <1>3, <2>1, <2>2, <2>3 DEF its
<1>7. Those(new.calls, tools) = Those(calls, tools) /\ CallsOf(new, tool) = <<>>
  <2> HIDE DEF new, real
  <2>1. CASE new = choice /\ ~choice.message
    <3>1. choice.calls = <<>>
      BY <2>1 DEF WellFormed
    <3> QED
      BY <2>1, <3>1, ThoseEmpty DEF CallsOf
  <2>2. CASE new = choice /\ CallsOf(choice, tool) = <<>>
    BY <2>2
  <2>3. CASE new.calls = real
    BY <1>5, <1>6, <2>3 DEF CallsOf
  <2> QED
    BY <1>2, <2>1, <2>2, <2>3
<1> QED
  BY <1>7

-----------------------------------------------------------------------------
(* At most one request goes out; the answer is one to it, well formed, and *)
(* without calls of a transport tool if it was given none; and what is     *)
(* returned is what the normaliser makes of it.                            *)
ReplyOf(r) == \A s \in sent : r = NormalizeNonStreaming(case.config.mode, s.tool, answer)

XInv ==
    /\ ExInv
    /\ \A s, t \in sent : s = t
    /\ sent = {} => answer = <<>>
    /\ \A i \in DOMAIN answer : WellFormed(answer[i])
    /\ \A s \in sent : \A i \in DOMAIN answer : NoneUnasked(s, answer[i])
    /\ \A r \in reply : ReplyOf(r)

(* The invariant of the exchange. *)
LEMMA ExchangeInvariant == ExSpec => []XInv
<1>1. ExInit => XInv
  BY DEF ExInit, XInv, ExInv
<1>2. XInv /\ ExInv' /\ [ExNext]_exchange => XInv'
  <2> SUFFICES ASSUME XInv, ExInv', [ExNext]_exchange
               PROVE  XInv'
    OBVIOUS
  <2>1. CASE Inject
    <3>1. PICK t : sent' = {t}
      BY <2>1 DEF Inject
    <3>2. case' = case /\ answer' = answer /\ reply' = {} /\ sent = {}
      BY <2>1 DEF Inject
    <3>3. answer' = <<>>
      BY <3>2 DEF XInv
    <3> QED
      BY <3>1, <3>2, <3>3 DEF XInv
  <2>2. CASE InjectFails
    <3>1. case' = case /\ answer' = answer /\ sent' = sent /\ sent = {}
      BY <2>2 DEF InjectFails
    <3> QED
      BY <3>1 DEF XInv, ReplyOf
  <2>3. CASE Answer
    <3>1. PICK s \in sent, n \in 1..case.maxChoices : answer' \in [1..n -> ChoicesFor(s)]
      BY <2>3 DEF Answer
    <3>2. case' = case /\ sent' = sent /\ reply' = {} /\ case \in Cases
      BY <2>3 DEF Answer, XInv, ExInv
    <3>3. \A i \in DOMAIN answer' : WellFormed(answer'[i]) /\ NoneUnasked(s, answer'[i])
      BY <3>1, <3>2, ChoicesWellFormed
    <3>4. \A t \in sent : t = s
      BY DEF XInv
    <3> QED
      BY <3>1, <3>2, <3>3, <3>4 DEF XInv
  <2>4. CASE Normalize
    <3>1. PICK s \in sent : reply' = {NormalizeNonStreaming(case.config.mode, s.tool, answer)}
      BY <2>4 DEF Normalize
    <3>2. case' = case /\ sent' = sent /\ answer' = answer
      BY <2>4 DEF Normalize
    <3>3. \A r \in reply' : r = NormalizeNonStreaming(case.config.mode, s.tool, answer)
      BY <3>1
    <3>4. \A t \in sent : t = s
      BY DEF XInv
    <3>5. \A r \in reply', t \in sent : r = NormalizeNonStreaming(case.config.mode, t.tool, answer)
      BY <3>3, <3>4
    <3> QED
      BY <3>2, <3>5 DEF XInv, ReplyOf
  <2>5. CASE UNCHANGED exchange
    BY <2>5 DEF exchange, XInv, ReplyOf
  <2> QED
    BY <2>1, <2>2, <2>3, <2>4, <2>5 DEF ExNext
<1> QED
  BY <1>1, <1>2, ExInvariant, PTL DEF ExSpec

(* A choice that the client gets has tool_calls as its finish reason only  *)
(* if there are calls left to run, and then has it unless it was cut off,  *)
(* whatever the texts in the transport calls (normalizer.go:146-157).      *)
THEOREM FinishHonestHolds == ExSpec => []FinishHonest
<1>1. XInv => FinishHonest
  <2> SUFFICES ASSUME XInv, NEW s \in sent, NEW r \in reply, ~r.failed, NEW i \in DOMAIN answer
               PROVE  FinishOf(r.choices[i])
    BY DEF FinishHonest, FinishOf
  <2> DEFINE mode == case.config.mode
             tool == s.tool
  <2>1. r = NormalizeNonStreaming(mode, tool, answer) /\ WellFormed(answer[i])
    BY DEF XInv, ReplyOf
  <2> HIDE DEF mode, tool
  <2>2. \/ r.choices[i] = answer[i]
        \/ r.choices[i] = NormalizeChoice(mode, tool, answer[i]).choice
    BY <2>1, AnswerNormalized
  <2>3. FinishOf(answer[i])
    BY <2>1 DEF WellFormed, FinishOf
  <2>4. FinishOf(NormalizeChoice(mode, tool, answer[i]).choice)
    BY <2>1, FinishNormalized
  <2> QED
    BY <2>2, <2>3, <2>4
<1> QED
  BY <1>1, ExchangeInvariant, PTL

(* In mode "off" a request is passed through. *)
LEMMA OffPasses ==
    ASSUME ExInv, NEW s \in sent, case.config.mode = "off"
    PROVE  s.tool = NoTool
BY DEF ExInv, InjectContext, Wraps, PassThrough

(* The calls of the client's tools come back to it, all and in their       *)
(* order, and never one of the transport tool, for all names that the      *)
(* client's tools may have (normalizer.go:95-117).                         *)
THEOREM ClientCallsReturnedHolds == ExSpec => []ClientCallsReturned
<1>1. XInv => ClientCallsReturned
  <2> SUFFICES ASSUME XInv, NEW s \in sent, NEW r \in reply, ~r.failed, NEW i \in DOMAIN answer
               PROVE  /\ Those(r.choices[i].calls, Range(case.request.tools))
                             = Those(answer[i].calls, Range(case.request.tools))
                      /\ s.tool # NoTool => CallsOf(r.choices[i], s.tool) = <<>>
    BY DEF ClientCallsReturned
  <2> DEFINE tools == Range(case.request.tools)
             mode == case.config.mode
             tool == s.tool
             new == NormalizeChoice(mode, tool, answer[i]).choice
  <2>1. r = NormalizeNonStreaming(mode, tool, answer) /\ WellFormed(answer[i]) /\ ExInv
    BY DEF XInv, ReplyOf
  <2>2. /\ AsItIs(mode, tool) => r.choices[i] = answer[i]
        /\ ~AsItIs(mode, tool) => r.choices[i] = new
    <3> HIDE DEF mode, tool
    <3> QED
      BY <2>1, AnswerNormalized
  <2>3. CASE AsItIs(mode, tool)
    BY <2>1, <2>2, <2>3, OffPasses DEF NoTool, AsItIs
  <2>4. CASE ~AsItIs(mode, tool)
    <3>1. s.tool \notin tools
      BY <2>1, <2>4, SentWell DEF NameOf, NoTool, AsItIs
    <3>2. "odd" \notin tools
      BY <2>1, CasesAssumption DEF ExInv
    <3> HIDE DEF tools
    <3>3. Those(new.calls, tools) = Those(answer[i].calls, tools) /\ CallsOf(new, s.tool) = <<>>
      BY <2>1, <3>1, <3>2, CallsNormalized
    <3> QED
      BY <2>2, <2>4, <3>3 DEF tools
  <2> QED
    BY <2>3, <2>4
<1> QED
  BY <1>1, ExchangeInvariant, PTL

(* What is kept are calls with one of the names. *)
LEMMA ThoseNamed ==
    ASSUME NEW S, NEW calls \in Seq(S), NEW names
    PROVE  Those(calls, names) \in Seq({c \in S : c.name \in names})
<1> DEFINE m == Len(calls)
           T == {c \in S : c.name \in names}
           I == {n \in Nat : KeptCalls(calls, names)[n] \in Seq(T)}
<1>1. m \in Nat
  OBVIOUS
<1>2. 0 \in I
  <2>1. KeptCalls(calls, names)[0] = <<>>
    BY KeptDefined
  <2>2. <<>> \in Seq(T)
    OBVIOUS
  <2> QED
    BY <2>1, <2>2
<1>3. ASSUME NEW n \in 1..m, n - 1 \in I PROVE n \in I
  <2> DEFINE before == KeptCalls(calls, names)[n - 1]
             now == KeptCalls(calls, names)[n]
  <2>1. before \in Seq(T) /\ n \in Nat /\ n - 1 \in 0..m
    BY <1>1, <1>3
  <2>2. before \in Seq(S)
    BY <2>1, KeptTyped
  <2>3. /\ calls[n] \in S
        /\ calls[n].name \in names => now = Append(before, calls[n])
        /\ calls[n].name \notin names => now = before
    BY <2>2, KeptStep
  <2> HIDE DEF before, now
  <2>4. now \in Seq(T)
    <3>1. CASE calls[n].name \in names
      <4>1. calls[n] \in T
        BY <2>3, <3>1
      <4> HIDE DEF T
      <4>2. Append(before, calls[n]) \in Seq(T)
        BY <2>1, <4>1
      <4> QED
        BY <2>3, <3>1, <4>2
    <3>2. CASE calls[n].name \notin names
      BY <2>1, <2>3, <3>2
    <3> QED
      BY <3>1, <3>2
  <2> QED
    BY <2>1, <2>4 DEF now
<1>4. \A n \in 0..m : n \in I
  <2> HIDE DEF I, m
  <2> QED
    BY <1>1, <1>2, <1>3, UpToInduction
<1>5. m \in I
  BY <1>1, <1>4
<1> QED
  BY <1>5 DEF Those

(* If nothing is kept, no call has one of the names. *)
LEMMA NoneNamed ==
    ASSUME NEW S, NEW calls \in Seq(S), NEW names, Those(calls, names) = <<>>
    PROVE  \A n \in 1..Len(calls) : calls[n].name \notin names
<1> DEFINE m == Len(calls)
           P(n) == KeptCalls(calls, names)[n] = <<>> => \A k \in 1..n : calls[k].name \notin names
           I == {n \in 0..m : P(n)}
<1>1. m \in Nat
  OBVIOUS
<1>2. 0 \in I
  BY <1>1
<1>3. ASSUME NEW n \in 1..m, n - 1 \in I PROVE n \in I
  <2> DEFINE before == KeptCalls(calls, names)[n - 1]
             now == KeptCalls(calls, names)[n]
  <2>1. n \in Nat /\ n - 1 \in 0..m /\ n \in 0..m
    BY <1>1
  <2>2. before \in Seq(S)
    BY <2>1, KeptTyped
  <2>3. /\ calls[n] \in S
        /\ calls[n].name \in names => now = Append(before, calls[n])
        /\ calls[n].name \notin names => now = before
    BY <2>2, KeptStep
  <2>4. before = <<>> => \A k \in 1..(n - 1) : calls[k].name \notin names
    BY <1>3
  <2> HIDE DEF before, now
  <2>5. now = <<>> => before = <<>> /\ calls[n].name \notin names
    <3>1. Append(before, calls[n]) # <<>>
      BY <2>2, <2>3
    <3> QED
      BY <2>3, <3>1
  <2>6. ASSUME now = <<>>, NEW k \in 1..n PROVE calls[k].name \notin names
    <3>1. k = n \/ k \in 1..(n - 1)
      BY <2>1
    <3> QED
      BY <2>4, <2>5, <2>6, <3>1
  <2> QED
    BY <2>1, <2>6 DEF now
<1>4. \A n \in 0..m : n \in I
  <2> HIDE DEF I, m
  <2> QED
    BY <1>1, <1>2, <1>3, UpToInduction
<1>5. m \in I
  BY <1>1, <1>4
<1> QED
  BY <1>5 DEF Those

(* The parts that were put together are parts of the whole. *)
PieceOf(p, w) == \E j, k \in 0..Len(w) : p = SubSeq(w, j + 1, k)

(* The pieces of a text are pieces of it when it is continued. *)
LEMMA PiecesStay ==
    ASSUME NEW S, NEW a \in Seq(S), NEW b \in Seq(S), NEW w, w = a \o b
    PROVE  /\ w \in Seq(S) /\ PieceOf(b, w)
           /\ \A p : PieceOf(p, a) => PieceOf(p, w)
<1>1. w \in Seq(S) /\ Len(w) = Len(a) + Len(b) /\ Len(a) \in Nat /\ Len(b) \in Nat
      /\ \A i \in 1..Len(a) : w[i] = a[i]
  OBVIOUS
<1>2. PieceOf(b, w)
  <2> DEFINE j == Len(a)
             k == Len(w)
  <2>1. j \in 0..Len(w) /\ k \in 0..Len(w)
    BY <1>1
  <2>2. b = SubSeq(w, j + 1, k)
    BY <1>1
  <2> HIDE DEF j, k
  <2> QED
    BY <2>1, <2>2 DEF PieceOf
<1>3. ASSUME NEW p, PieceOf(p, a) PROVE PieceOf(p, w)
  <2>1. PICK j \in 0..Len(a), k \in 0..Len(a) : p = SubSeq(a, j + 1, k)
    BY <1>3 DEF PieceOf
  <2>2. j \in 0..Len(w) /\ k \in 0..Len(w) /\ j \in Nat /\ k \in Nat /\ k <= Len(a)
    BY <1>1
  <2>3. SubSeq(a, j + 1, k) = SubSeq(w, j + 1, k)
    BY ONLY <1>1, <2>2, a \in Seq(S)
  <2> QED
    BY <2>1, <2>2, <2>3 DEF PieceOf
<1> QED
  BY <1>1, <1>2, <1>3

(* Every text of several is a piece of all of them together. *)
LEMMA PiecesOfWhole ==
    ASSUME NEW S, NEW ss \in Seq(Seq(S)), Len(ss) # 0
    PROVE  \A i \in 1..Len(ss) : PieceOf(ss[i], FlattenSeq(ss))
<1> DEFINE m == Len(ss)
           f == Flattened(ss)
           I == {n \in 0..m : \A i \in 1..n : PieceOf(ss[i], f[n])}
<1>1. m \in Nat /\ m # 0 /\ \A i \in 1..m : ss[i] \in Seq(S)
  OBVIOUS
<1>2. /\ FlattenSeq(ss) = f[m] /\ f[1] = ss[1]
      /\ \A i \in 2..m : f[i] = f[i - 1] \o ss[i]
  BY FlattenDefined
<1>3. \A i \in 1..m : f[i] \in Seq(S)
  BY FlattenedTyped
<1> HIDE DEF f, m
<1>4. 0 \in I
  BY <1>1
<1>5. ASSUME NEW n \in 1..m, n - 1 \in I PROVE n \in I
  <2>1. n \in 0..m /\ n \in Nat
    BY <1>1
  <2> SUFFICES ASSUME NEW i \in 1..n PROVE PieceOf(ss[i], f[n])
    BY <2>1
  <2>2. CASE n = 1
    <3> DEFINE e == <<>>
               b == ss[1]
    <3>1. e \in Seq(S) /\ b \in Seq(S) /\ b = e \o b /\ i = 1
      BY <1>1, <2>2
    <3> HIDE DEF e, b
    <3>2. PieceOf(b, b)
      BY ONLY <3>1, PiecesStay
    <3> QED
      BY <1>2, <2>2, <3>1, <3>2 DEF b
  <2>3. CASE n # 1
    <3> DEFINE a == f[n - 1]
               b == ss[n]
               w == f[n]
    <3>1. n - 1 \in 1..m /\ n \in 2..m
      BY <1>1, <2>3
    <3>2. a \in Seq(S) /\ b \in Seq(S) /\ w = a \o b
      BY <1>1, <1>2, <1>3, <3>1
    <3>3. \A k \in 1..(n - 1) : PieceOf(ss[k], a)
      BY <1>5
    <3>4. i = n \/ i \in 1..(n - 1)
      BY <2>1
    <3> HIDE DEF a, w
    <3>5. PieceOf(b, w) /\ \A p : PieceOf(p, a) => PieceOf(p, w)
      <4> HIDE DEF b
      <4> QED
        BY ONLY <3>2, PiecesStay
    <3> QED
      BY <3>3, <3>4, <3>5 DEF w
  <2> QED
    BY <2>2, <2>3
<1>6. \A n \in 0..m : n \in I
  <2> HIDE DEF I
  <2> QED
    BY <1>1, <1>4, <1>5, UpToInduction
<1>7. m \in I
  BY <1>1, <1>6
<1> QED
  BY <1>2, <1>7 DEF m

(* Empty arguments are not decoded. *)
LEMMA EmptyUndecoded == RepairSyntheticArguments(<<>>) = Undecoded
<1> DEFINE w == <<>>
<1>1. DOMAIN w = {} /\ Len(w) = 0
  OBVIOUS
<1>2. Blank(w)
  BY <1>1 DEF Blank
<1>3. TrimSpace(w) = w
  <2>1. TrimLeft(w) = w
    BY <1>2 DEF TrimLeft
  <2>2. TrimRight(w, White) = w
    BY <1>1 DEF TrimRight
  <2> QED
    BY <2>1, <2>2 DEF TrimSpace
<1>4. Object(w) = Undecoded
  BY <1>1 DEF Object
<1>5. Unmarshal(w) = Undecoded
  BY <1>3, <1>4 DEF Unmarshal
<1>6. StripMarkdownCodeFences(w) = w
  BY DEF StripMarkdownCodeFences, StartsWith
<1>7. AttemptStructuralRepair(w) = w
  BY <1>1 DEF AttemptStructuralRepair
<1>8. \A key : ScanKey(w, key) = Undecoded
  <2>1. \A key : {i \in 1..(Len(w) - 2) : SubSeq(w, i, i + 2) = <<"q", key, "q">>} = {}
    BY <1>1
  <2> QED
    BY <2>1 DEF ScanKey
<1>9. RepairCleaned(w) = Undecoded
  <2>1. ScanAndExtractContent(w) = Undecoded
    BY <1>8, Outcomes DEF ScanAndExtractContent
  <2> QED
    BY <1>5, <1>7, <2>1, Outcomes DEF RepairCleaned
<1> HIDE DEF w
<1>10. RepairSyntheticArguments(w) = Undecoded
  BY <1>3, <1>5, <1>6, <1>9, Outcomes DEF RepairSyntheticArguments
<1> QED
  BY <1>10 DEF w

(* What is made of the arguments of a call. *)
LEMMA CallRepaired ==
    ASSUME NEW c, Argued(c), NEW r, r = RepairSyntheticArguments(c.args)
    PROVE  r.content \in Seq(Symbols) /\ \A w \in c.by : RepairOf(w, r)
<1>1. CASE c.by = {}
  <2>1. r = Undecoded
    BY <1>1, EmptyUndecoded DEF Argued
  <2>2. r.content \in Seq(Symbols)
    BY <2>1 DEF Undecoded
  <2> QED
    BY <1>1, <2>2
<1>2. ASSUME NEW w \in c.by PROVE RepairOf(w, r)
  <2>1. IsWriting(w) /\ c.args = SubSeq(w.text.raw, 1, w.cut)
    BY DEF Argued
  <2> QED
    BY <2>1, Repaired
<1>3. CASE c.by # {}
  <2>1. PICK w \in c.by : TRUE
    BY <1>3
  <2>2. RepairOf(w, r)
    BY <1>2
  <2> QED
    BY <1>2, <2>2 DEF RepairOf
<1> QED
  BY <1>1, <1>3

(* The transport calls of a choice, and what the repair makes of them.     *)
Repairs(made) == [k \in DOMAIN made |-> RepairSyntheticArguments(made[k].args)]

(* Every transport call of a choice has arguments a provider may have sent. *)
LEMMA CallsMade ==
    ASSUME NEW choice, WellFormed(choice), NEW tool, NEW made, made = CallsOf(choice, tool)
    PROVE  /\ \E S : made \in Seq(S)
           /\ \A k \in DOMAIN made : Argued(made[k]) /\ made[k].name = tool
<1> DEFINE calls == choice.calls
           names == {tool}
<1>1. PICK S : calls \in Seq(S) /\ \A c \in S : Argued(c)
  BY DEF WellFormed
<1>2. made = Those(calls, names)
  BY DEF CallsOf
<1>3. \A x : x \in names => x = tool
  OBVIOUS
<1> HIDE DEF calls, names
<1> DEFINE T == {c \in S : c.name \in names}
<1>4. made \in Seq(T)
  BY <1>1, <1>2, ThoseNamed
<1>5. \A c \in T : Argued(c) /\ c.name = tool
  BY <1>1, <1>3
<1> HIDE DEF T
<1> QED
  BY <1>4, <1>5

(* An answer is refused if and only if one of its choices fails. *)
LEMMA AnswerFails ==
    ASSUME NEW mode, NEW tool, NEW choices, choices # <<>>, NEW r,
           r = NormalizeNonStreaming(mode, tool, choices)
    PROVE  /\ AsItIs(mode, tool) => ~r.failed
           /\ ~AsItIs(mode, tool) =>
                (r.failed <=> \E i \in DOMAIN choices : NormalizeChoice(mode, tool, choices[i]).failed)
<1> DEFINE done == [j \in DOMAIN choices |-> NormalizeChoice(mode, tool, choices[j])]
           failing == {j \in DOMAIN choices : done[j].failed}
<1>1. CASE AsItIs(mode, tool)
  BY <1>1 DEF NormalizeNonStreaming, AsItIs
<1>2. CASE ~AsItIs(mode, tool)
  <2>1. r = Outcome(tool, choices, done)
    BY <1>2 DEF NormalizeNonStreaming, AsItIs
  <2>2. Outcome(tool, choices, done).failed = (failing # {})
    BY DEF Outcome
  <2> QED
    BY <1>2, <2>1, <2>2
<1> QED
  BY <1>1, <1>2

(* A choice whose transport calls could all be repaired.                   *)
Delivers(choice, tool, new) ==
    LET made == CallsOf(choice, tool)
        text == new.content.text
    IN  \E parts \in [DOMAIN made -> Slices(text)] :
            /\ FlattenSeq(parts) = text
            /\ \A k \in DOMAIN made : \A w \in made[k].by : Carries(parts[k], w)

(* A choice that is normalised to a message delivers the text of its calls. *)
LEMMA ChoiceDelivered ==
    ASSUME NEW choice, WellFormed(choice), NEW mode, NEW tool, CallsOf(choice, tool) # <<>>,
           ~NormalizeChoice(mode, tool, choice).failed
    PROVE  Delivers(choice, tool, NormalizeChoice(mode, tool, choice).choice)
<1> DEFINE made == CallsOf(choice, tool)
           contents == Repairs(made)
           real == RealCalls(choice, tool)
           new == NormalizeChoice(mode, tool, choice).choice
           parts == [k \in DOMAIN contents |-> contents[k].content]
           text == new.content.text
<1>1. (\E S : made \in Seq(S)) /\ \A k \in DOMAIN made : Argued(made[k]) /\ made[k].name = tool
  BY CallsMade
<1>2. choice.message
  <2>1. ~choice.message => choice.calls = <<>>
    BY DEF WellFormed
  <2> QED
    BY <2>1, ThoseEmpty DEF CallsOf
<1>3. NormalizeChoice(mode, tool, choice) = Replace(choice, real, contents)
  BY <1>2 DEF NormalizeChoice, Repairs
<1>4. \A k \in DOMAIN contents : contents[k].ok
  <2>1. Replace(choice, real, contents).failed = \E k \in DOMAIN contents : ~contents[k].ok
    BY DEF Replace
  <2> QED
    BY <1>3, <2>1
<1>5. text = FlattenSeq(parts)
  <2> DEFINE c == FromTransport(contents)
             f == FinishReasonOf(choice, real)
  <2>1. new = [choice EXCEPT !.content = c, !.calls = real, !.finish = f]
    BY <1>3 DEF Replace
  <2>2. c.text = FlattenSeq(parts)
    BY DEF FromTransport
  <2>3. "content" \in DOMAIN choice
    BY DEF WellFormed
  <2> HIDE DEF c, f, real, new, parts
  <2>4. new.content = c
    BY <2>1, <2>3
  <2> QED
    BY <2>2, <2>4
<1> HIDE DEF new
<1>6. \A k \in DOMAIN made : /\ parts[k] \in Seq(Symbols)
                             /\ \A w \in made[k].by : Carries(parts[k], w)
  <2> SUFFICES ASSUME NEW k \in DOMAIN made
               PROVE  parts[k] \in Seq(Symbols) /\ \A w \in made[k].by : Carries(parts[k], w)
    OBVIOUS
  <2> DEFINE r == RepairSyntheticArguments(made[k].args)
             c == made[k]
  <2>1. contents[k] = r /\ k \in DOMAIN contents
    BY DEF Repairs
  <2>2. Argued(c) /\ r = RepairSyntheticArguments(c.args)
    BY <1>1
  <2>3. r.ok /\ parts[k] = r.content
    BY <1>4, <2>1
  <2> HIDE DEF r, c, parts
  <2>4. r.content \in Seq(Symbols) /\ \A w \in c.by : RepairOf(w, r)
    BY ONLY <2>2, CallRepaired
  <2>5. \A w \in c.by : Carries(r.content, w)
    BY <2>3, <2>4 DEF RepairOf
  <2> QED
    BY <2>3, <2>4, <2>5 DEF c
<1>7. DOMAIN parts = DOMAIN made /\ DOMAIN contents = DOMAIN made
  BY DEF Repairs
<1>8. DOMAIN made = 1..Len(made) /\ Len(made) \in Nat /\ Len(made) # 0
  BY <1>1
<1>9. parts = [k \in 1..Len(made) |-> parts[k]]
  BY <1>7, <1>8
<1> HIDE DEF parts, contents, made
<1>10. parts \in Seq(Seq(Symbols)) /\ Len(parts) = Len(made)
  BY <1>6, <1>8, <1>9
<1>11. \A k \in 1..Len(parts) : PieceOf(parts[k], text)
  BY <1>5, <1>8, <1>10, PiecesOfWhole
<1>12. parts \in [DOMAIN made -> Slices(text)]
  <2>1. \A k \in DOMAIN made : parts[k] \in Slices(text)
    <3> SUFFICES ASSUME NEW k \in DOMAIN made PROVE parts[k] \in Slices(text)
      OBVIOUS
    <3>1. PieceOf(parts[k], text)
      BY <1>8, <1>10, <1>11
    <3>2. PICK j \in 0..Len(text), l \in 0..Len(text) : parts[k] = SubSeq(text, j + 1, l)
      BY <3>1 DEF PieceOf
    <3> HIDE DEF text
    <3> QED
      BY <3>2 DEF Slices
  <2> QED
    BY <1>8, <1>9, <2>1
<1> QED
  BY <1>5, <1>6, <1>12 DEF Delivers, made, new

(* What the model put into its transport calls is what the client gets,    *)
(* alone and in their order, for every text that it may write, cut off     *)
(* anywhere, and for all lists of calls and choices (normalizer.go:132).   *)
THEOREM TextDeliveredHolds == ExSpec => []TextDelivered
<1>1. ASSUME XInv, NEW s \in sent, NEW r \in reply, ~r.failed, NEW i \in DOMAIN answer,
             CallsOf(answer[i], s.tool) # <<>>
      PROVE  Delivers(answer[i], s.tool, r.choices[i])
  <2> DEFINE mode == case.config.mode
             tool == s.tool
             done == NormalizeChoice(mode, tool, answer[i])
  <2>1. r = NormalizeNonStreaming(mode, tool, answer) /\ WellFormed(answer[i]) /\ ExInv
        /\ NoneUnasked(s, answer[i])
    BY <1>1 DEF XInv, ReplyOf
  <2>2. s.tool # NoTool
    <3> SUFFICES ASSUME s.tool = NoTool PROVE FALSE
      OBVIOUS
    <3> DEFINE made == CallsOf(answer[i], tool)
               calls == answer[i].calls
               names == {tool}
    <3>1. \A k \in DOMAIN calls : calls[k].name \notin names
      BY <2>1 DEF NoneUnasked
    <3>2. PICK S : calls \in Seq(S)
      BY <2>1 DEF WellFormed
    <3>3. made = Those(calls, names)
      BY DEF CallsOf
    <3> HIDE DEF calls, names
    <3>4. \A n \in 1..Len(calls) : calls[n].name \in names <=> calls[n].name \in {}
      BY <3>1, <3>2
    <3>5. Those(calls, names) = Those(calls, {})
      BY <3>2, <3>4, ThoseAgree
    <3>6. Those(calls, {}) = <<>>
      BY <3>2, ThoseNone
    <3> QED
      BY <1>1, <3>3, <3>5, <3>6 DEF made
  <2>3. ~AsItIs(mode, tool)
    BY <1>1, <2>1, <2>2, OffPasses DEF AsItIs, NoTool
  <2>4. r.choices[i] = done.choice
    <3> HIDE DEF mode, tool
    <3> QED
      BY <2>1, <2>3, AnswerNormalized
  <2>5. ~done.failed
    <3> HIDE DEF mode, tool
    <3> QED
      BY <1>1, <2>1, <2>3, AnswerFails
  <2> QED
    BY <1>1, <2>1, <2>4, <2>5, ChoiceDelivered
<1>2. XInv => TextDelivered
  <2> SUFFICES ASSUME XInv, NEW s \in sent, NEW r \in reply, ~r.failed, NEW i \in DOMAIN answer,
                      CallsOf(answer[i], s.tool) # <<>>
               PROVE  LET made == CallsOf(answer[i], s.tool)
                          text == r.choices[i].content.text
                      IN  \E parts \in [DOMAIN made -> Slices(text)] :
                              /\ FlattenSeq(parts) = text
                              /\ \A k \in DOMAIN made : \A w \in made[k].by : Carries(parts[k], w)
    BY DEF TextDelivered
  <2>1. Delivers(answer[i], s.tool, r.choices[i])
    BY <1>1
  <2> QED
    BY <2>1 DEF Delivers
<1> QED
  BY <1>2, ExchangeInvariant, PTL

(* Why a choice may fail. *)
Cause(mode, tool, choice) ==
    \/ \E c \in Range(CallsOf(choice, tool)) : \A w \in c.by :
          Owed(w) = <<>> \/ w.text.key = "other"
    \/ mode = "required" /\ \A c \in Range(choice.calls) : c.name = "odd"

(* A choice is refused for a cause the property names. *)
LEMMA ChoiceFails ==
    ASSUME NEW choice, WellFormed(choice), NEW mode, NEW tool,
           NormalizeChoice(mode, tool, choice).failed
    PROVE  Cause(mode, tool, choice)
<1> DEFINE made == CallsOf(choice, tool)
           contents == Repairs(made)
           real == RealCalls(choice, tool)
<1>1. choice.message
  BY DEF NormalizeChoice
<1>2. CASE made = <<>>
  <2>1. mode = "required" /\ real = <<>>
    BY <1>1, <1>2 DEF NormalizeChoice
  <2> DEFINE calls == choice.calls
             all == {c.name : c \in Range(calls)}
             names == all \ {tool, "odd"}
             its == {tool}
  <2>2. PICK S : calls \in Seq(S)
    BY DEF WellFormed
  <2>3. Those(calls, names) = <<>> /\ Those(calls, its) = <<>>
    BY <1>2, <2>1 DEF RealCalls, CallsOf
  <2>4. Range(calls) = {calls[n] : n \in 1..Len(calls)}
    BY <2>2 DEF Range
  <2>5. \A n \in 1..Len(calls) : calls[n].name \in all
    BY <2>4
  <2> HIDE DEF calls
  <2>6. (\A n \in 1..Len(calls) : calls[n].name \notin names)
        /\ \A n \in 1..Len(calls) : calls[n].name \notin its
    <3> HIDE DEF names, its
    <3> QED
      BY <2>2, <2>3, NoneNamed
  <2> HIDE DEF all
  <2>7. \A n \in 1..Len(calls) : calls[n].name = "odd"
    BY <2>5, <2>6
  <2>8. \A c \in Range(calls) : c.name = "odd"
    BY <2>4, <2>7
  <2> QED
    BY <2>1, <2>8 DEF Cause, calls
<1>3. CASE made # <<>>
  <2>1. (\E S : made \in Seq(S)) /\ \A k \in DOMAIN made : Argued(made[k])
    BY CallsMade
  <2>2. NormalizeChoice(mode, tool, choice) = Replace(choice, real, contents)
    BY <1>1, <1>3 DEF NormalizeChoice, Repairs
  <2>3. PICK k \in DOMAIN contents : ~contents[k].ok
    <3>1. Replace(choice, real, contents).failed = \E k \in DOMAIN contents : ~contents[k].ok
      BY DEF Replace
    <3> QED
      BY <2>2, <3>1
  <2> DEFINE c == made[k]
             r == RepairSyntheticArguments(made[k].args)
  <2>4. k \in DOMAIN made /\ contents[k] = r
    BY DEF Repairs
  <2>5. Argued(c) /\ r = RepairSyntheticArguments(c.args) /\ ~r.ok
    BY <2>1, <2>3, <2>4
  <2>6. c \in Range(made)
    BY <2>4 DEF Range
  <2> HIDE DEF c, r
  <2>7. \A w \in c.by : RepairOf(w, r)
    BY ONLY <2>5, CallRepaired
  <2>8. \A w \in c.by : Owed(w) = <<>> \/ w.text.key = "other"
    BY <2>5, <2>7 DEF RepairOf
  <2> QED
    BY <2>6, <2>8 DEF Cause
<1> QED
  BY <1>2, <1>3

(* An answer is refused only if there is nothing to be had from one of its *)
(* transport calls, or a call is required and there is none: whatever was  *)
(* written, and wherever it was cut off (normalizer.go:121-144).           *)
THEOREM RefusedForCauseHolds == ExSpec => []RefusedForCause
<1>1. ASSUME XInv, NEW s \in sent, NEW r \in reply, r.failed
      PROVE  \E i \in DOMAIN answer : Cause(case.config.mode, s.tool, answer[i])
  <2> DEFINE mode == case.config.mode
             tool == s.tool
  <2>1. r = NormalizeNonStreaming(mode, tool, answer) /\ \A i \in DOMAIN answer : WellFormed(answer[i])
    BY <1>1 DEF XInv, ReplyOf
  <2>2. answer # <<>>
    <3>1. answer = <<>> => ~NormalizeNonStreaming(mode, tool, answer).failed
      BY DEF NormalizeNonStreaming
    <3> QED
      BY <1>1, <2>1, <3>1
  <2> HIDE DEF mode, tool
  <2>3. PICK i \in DOMAIN answer : NormalizeChoice(mode, tool, answer[i]).failed
    BY <1>1, <2>1, <2>2, AnswerFails
  <2>4. Cause(mode, tool, answer[i])
    BY <2>1, <2>3, ChoiceFails
  <2> QED
    BY <2>4 DEF mode, tool
<1>2. XInv => RefusedForCause
  BY <1>1 DEF RefusedForCause, Cause
<1> QED
  BY <1>2, ExchangeInvariant, PTL

=============================================================================
