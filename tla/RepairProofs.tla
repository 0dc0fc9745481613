---------------------------- MODULE RepairProofs ----------------------------
(***************************************************************************)
(* The repair of the arguments of a transport call, for every text a       *)
(* provider may write and every place it may be cut at: it gives the items *)
(* the text has in full, in their order, what is cut from the last one     *)
(* apart, and nothing that was not written (Repaired). What remains of a   *)
(* text is put in one of its forms, the scan of what is left of a string   *)
(* is followed through each, and the stages are put together.              *)
(***************************************************************************)
EXTENDS TextProofs

-----------------------------------------------------------------------------
(* What the second stage can find in a text that was cut after an item. *)
CutAfterFound(u, key, body, k) ==
    /\ \/ u = Undecoded
       \/ Quoteless(body, k) /\ key = "content" /\ u = Decoded(Flat(Meaning, SubSeq(body, 1, k)))
       \/ /\ k # 0 /\ body[k] = "rawQuote" /\ key = "content"
          /\ u = Decoded(Flat(Meaning, SubSeq(body, 1, k - 1)))
    /\ key = "content" /\ Quoteless(body, k) => u = Decoded(Flat(Meaning, SubSeq(body, 1, k)))

(* structuralRepair of a text cut behind an item gives the items before the cut. *)
LEMMA CutAfterPlain ==
    ASSUME NEW c, NEW n, NEW key, NEW o, NEW body, NEW k, NEW g,
           CutAfter(c, 0, n, key, o, body, k, g)
    PROVE  CutAfterFound(Unmarshal(AttemptStructuralRepair(c)), key, body, k)
<1>1. Cleaned(c, 0, n, key, o, body, k, g)
  BY DEF CutAfter
<1>2. k \in Nat
  BY <1>1, CleanedTyped
<1> DEFINE u == Unmarshal(AttemptStructuralRepair(c))
<1>3. CASE Quoteless(body, k)
  <2>1. u = IF key = "content" THEN Decoded(Flat(Meaning, SubSeq(body, 1, k))) ELSE Undecoded
    BY <1>3, CutAfterQuoteless
  <2> HIDE DEF u
  <2>2. CutAfterFound(u, key, body, k)
    BY <1>3, <2>1 DEF CutAfterFound
  <2> QED
    BY <2>2 DEF u
<1>4. CASE ~Quoteless(body, k)
  <2>1. PICK p \in 1..k : body[p] = "rawQuote" /\ Quoteless(body, p - 1)
    BY <1>2, <1>4, FirstQuote
  <2>2. CASE p = k
    <3>1. k # 0 /\ body[k] = "rawQuote" /\ Quoteless(body, k - 1)
      BY <2>1, <2>2
    <3>2. u = IF key = "content" THEN Decoded(Flat(Meaning, SubSeq(body, 1, k - 1)))
              ELSE Undecoded
      BY <3>1, CutAfterQuote
    <3> HIDE DEF u
    <3>3. CutAfterFound(u, key, body, k)
      BY <1>4, <3>1, <3>2 DEF CutAfterFound
    <3> QED
      BY <3>3 DEF u
  <2>3. CASE p # k
    <3>1. u = Undecoded
      BY <1>1, <2>1, <2>3, BrokenCleaned
    <3> HIDE DEF u
    <3>2. CutAfterFound(u, key, body, k)
      BY <1>4, <3>1 DEF CutAfterFound
    <3> QED
      BY <3>2 DEF u
  <2> QED
    BY <2>2, <2>3
<1> QED
  BY <1>3, <1>4

(* The same for a text cut within an item, and one that ended. *)
CutWithinFound(u, key, body, k) ==
    u = Undecoded \/ (key = "content" /\ u = Decoded(Append(Flat(Meaning, SubSeq(body, 1, k)), "U+FFFD")))

(* structuralRepair of a text cut in the middle of an item gives the items before it. *)
LEMMA CutWithinPlain ==
    ASSUME NEW c, NEW n, NEW key, NEW o, NEW body, NEW k, NEW g, NEW l,
           CutWithin(c, 0, n, key, o, body, k, g, l)
    PROVE  CutWithinFound(Unmarshal(AttemptStructuralRepair(c)), key, body, k)
<1>1. Cleaned(c, 0, n, key, o, body, k, g) /\ l \in 1..5 /\ Halved(c, g, l)
      /\ Len(c) = g + l
  BY DEF CutWithin
<1>2. k \in Nat /\ g \in Nat
  BY <1>1, CleanedTyped
<1> DEFINE u == Unmarshal(AttemptStructuralRepair(c))
<1>3. CASE Quoteless(body, k)
  BY <1>3, CutWithinQuoteless DEF CutWithinFound
<1>4. CASE ~Quoteless(body, k)
  <2>1. PICK p \in 1..k : body[p] = "rawQuote" /\ Quoteless(body, p - 1)
    BY <1>2, <1>4, FirstQuote
  <2>2. g + 1 <= Len(c)
    <3>1. Len(c) = g + l /\ l \in 1..5
      BY <1>1
    <3> QED
      BY <1>2, <3>1
  <2>3. c[g + 1] \in {"r1", "\\"}
    BY <1>1, <1>2, HalvedSymbols
  <2>4. c[g + 1] \in Textual \ {"s", "NL", "close"}
    BY <2>3 DEF Textual
  <2>5. u = Undecoded
    BY <1>1, <2>1, <2>2, <2>4, BrokenCleaned
  <2> QED
    BY <2>5 DEF CutWithinFound
<1> QED
  BY <1>3, <1>4

ThroughFound(u, c, key, body, k, g) ==
    /\ u = Undecoded \/ (key = "content" /\ u = Decoded(Flat(Meaning, SubSeq(body, 1, k))))
    /\ key = "content" /\ Quoteless(body, k) /\ ~(Len(c) = g + 3 /\ c[g + 2] = ",")
          => u = Decoded(Flat(Meaning, SubSeq(body, 1, k)))

(* structuralRepair of a text with all of its body gives the body. *)
LEMMA ThroughPlain ==
    ASSUME NEW c, NEW n, NEW key, NEW o, NEW body, NEW k, NEW g,
           Through(c, 0, n, key, o, body, k, g)
    PROVE  ThroughFound(Unmarshal(AttemptStructuralRepair(c)), c, key, body, k, g)
<1>1. Cleaned(c, 0, n, key, o, body, k, g) /\ k = Len(body)
  BY DEF Through
<1>2. k \in Nat /\ ~Ambiguous(body) /\ body \in Seq(Items)
  <2>1. Cleaned(c, 0, n, key, o, body, k, g)
    BY <1>1
  <2>2. k \in Nat /\ ~Ambiguous(body) /\ body \in Seq(Items)
    BY <2>1, CleanedTyped
  <2> QED
    BY <2>2
<1> DEFINE u == Unmarshal(AttemptStructuralRepair(c))
<1>3. CASE Quoteless(body, k)
  <2>1. \/ u = IF key = "content" THEN Decoded(Flat(Meaning, SubSeq(body, 1, k))) ELSE Undecoded
        \/ /\ Len(c) = g + 3 /\ c[g + 2] = "," /\ c[g + 3] = "close"
           /\ u = Undecoded
    BY <1>3, ThroughQuoteless
  <2> HIDE DEF u
  <2>2. ThroughFound(u, c, key, body, k, g)
    BY <2>1 DEF ThroughFound
  <2> QED
    BY <2>2 DEF u
<1>4. CASE ~Quoteless(body, k)
  <2>1. PICK p \in 1..k : body[p] = "rawQuote" /\ Quoteless(body, p - 1)
    BY <1>2, <1>4, FirstQuote
  <2>2. p # k
    <3>1. p \in DOMAIN body
      BY <1>1, <1>2
    <3> QED
      BY <1>1, <1>2, <2>1, <3>1 DEF Ambiguous
  <2>3. Cleaned(c, 0, n, key, o, body, k, g)
    BY <1>1
  <2>4. u = Undecoded
    BY <2>1, <2>2, <2>3, BrokenCleaned
  <2> HIDE DEF u
  <2>5. ThroughFound(u, c, key, body, k, g)
    BY <1>4, <2>4 DEF ThroughFound
  <2> QED
    BY <2>5 DEF u
<1> QED
  BY <1>3, <1>4

-----------------------------------------------------------------------------
(* And with prose before it. *)
LEMMA RepairedCleaned ==
    ASSUME NEW c, NEW j, NEW n, NEW key, NEW o, NEW body, NEW k, NEW g
    PROVE  LET u == Unmarshal(AttemptStructuralRepair(c))
           IN  /\ CutAfter(c, j, n, key, o, body, k, g) => CutAfterFound(u, key, body, k)
               /\ \A l : CutWithin(c, j, n, key, o, body, k, g, l) => CutWithinFound(u, key, body, k)
               /\ Through(c, j, n, key, o, body, k, g) => ThroughFound(u, c, key, body, k, g)
<1> DEFINE w == Rest(c, j + 1)
<1>1. CASE Cleaned(c, j, n, key, o, body, k, g)
  <2> DEFINE m == n - j
             a == o - j
             h == g - j
  <2>1. /\ Cleaned(w, 0, m, key, a, body, k, h)
        /\ Len(w) = Len(c) - j
        /\ \A i \in 1..(Len(c) - j) : w[i] = c[j + i]
        /\ AttemptStructuralRepair(c) = AttemptStructuralRepair(w)
    BY <1>1, Unprosed
  <2>2. g \in Nat /\ j \in Nat /\ o \in Nat /\ o >= j + 6 /\ g >= o /\ Len(c) \in Nat
        /\ g <= Len(c)
    BY <1>1, CleanedTyped
  <2>3. h \in 1..(Len(c) - j) /\ j + h = g
    BY <2>2
  <2>4. w[h] = c[g]
    BY <2>1, <2>3
  <2>5. \A i \in Nat : h + i <= Len(c) - j => w[h + i] = c[g + i]
    <3>1. ASSUME NEW i \in Nat, h + i <= Len(c) - j PROVE w[h + i] = c[g + i]
      <4>1. h + i \in 1..(Len(c) - j) /\ j + (h + i) = g + i
        BY <2>2, <3>1
      <4>2. w[h + i] = c[j + (h + i)]
        BY <2>1, <4>1
      <4> QED
        BY <4>1, <4>2
    <3> QED
      BY <3>1
  <2>6. \A i \in Nat : Len(c) = g + i <=> Len(w) = h + i
    BY <2>1, <2>2
  <2> DEFINE u == Unmarshal(AttemptStructuralRepair(c))
  <2>7. u = Unmarshal(AttemptStructuralRepair(w))
    BY <2>1
  <2>8. 0 \in Nat /\ 1 \in Nat /\ 2 \in Nat /\ 3 \in Nat
    OBVIOUS
  <2>9. h + 0 = h /\ g + 0 = g
    BY <2>2
  <2> HIDE DEF w, m, a, h, u
  <2>10. ASSUME CutAfter(c, j, n, key, o, body, k, g) PROVE CutAfterFound(u, key, body, k)
    <3>1. Len(c) = g /\ c[g] \notin White
      BY <2>10 DEF CutAfter
    <3>2. Len(c) = g + 0
      BY <2>9, <3>1
    <3>3. Len(w) = h
      BY <2>6, <2>8, <2>9, <3>2
    <3>4. CutAfter(w, 0, m, key, a, body, k, h)
      BY <2>1, <2>4, <3>1, <3>3 DEF CutAfter
    <3> QED
      BY <2>7, <3>4, CutAfterPlain
  <2>11. ASSUME NEW l, CutWithin(c, j, n, key, o, body, k, g, l)
         PROVE  CutWithinFound(u, key, body, k)
    <3>1. k < Len(body) /\ l \in 1..5 /\ Halved(c, g, l) /\ Len(c) = g + l
      BY <2>11 DEF CutWithin
    <3>2. l \in Nat
      BY <3>1
    <3>3. Len(w) = h + l
      BY <2>6, <3>1, <3>2
    <3>4. \A i \in 1..l : w[h + i] = c[g + i]
      <4>1. \A i \in 1..l : i \in Nat /\ h + i <= Len(c) - j
        <5>1. Len(c) - j = h + l /\ h \in Nat
          BY <2>1, <2>3, <3>3
        <5> QED
          BY <3>2, <5>1
      <4> QED
        BY <2>5, <4>1
    <3>5. Halved(w, h, l)
      <4>1. h \in Nat
        BY <2>3
      <4> QED
        BY <2>2, <3>1, <3>4, <4>1, HalvedSame
    <3>6. CutWithin(w, 0, m, key, a, body, k, h, l)
      BY <2>1, <3>1, <3>3, <3>5 DEF CutWithin
    <3> QED
      BY <2>7, <3>6, CutWithinPlain
  <2>12. ASSUME Through(c, j, n, key, o, body, k, g)
         PROVE  ThroughFound(u, c, key, body, k, g)
    <3>1. /\ k = Len(body) /\ c[g + 1] = "q"
          /\ \/ Len(c) = g + 1
             \/ Len(c) = g + 2 /\ c[g + 2] \in {"close", ","}
             \/ Len(c) = g + 3 /\ c[g + 2] \in {"s", ","} /\ c[g + 3] = "close"
      BY <2>12 DEF Through
    <3>2. Len(c) = g + 1 \/ Len(c) = g + 2 \/ Len(c) = g + 3
      BY <3>1
    <3>3. Len(c) - j = Len(w) /\ h \in Nat
      BY <2>1, <2>3
    <3>4. /\ Len(w) = h + 1 <=> Len(c) = g + 1
          /\ Len(w) = h + 2 <=> Len(c) = g + 2
          /\ Len(w) = h + 3 <=> Len(c) = g + 3
      BY <2>6, <2>8
    <3>5. w[h + 1] = c[g + 1]
      <4>1. h + 1 <= Len(c) - j
        BY <3>2, <3>3, <3>4
      <4> QED
        BY <2>5, <2>8, <4>1
    <3>6. Len(c) = g + 2 \/ Len(c) = g + 3 => w[h + 2] = c[g + 2]
      <4>1. Len(c) = g + 2 \/ Len(c) = g + 3 => h + 2 <= Len(c) - j
        BY <3>3, <3>4
      <4> QED
        BY <2>5, <2>8, <4>1
    <3>7. Len(c) = g + 3 => w[h + 3] = c[g + 3]
      <4>1. Len(c) = g + 3 => h + 3 <= Len(c) - j
        BY <3>3, <3>4
      <4> QED
        BY <2>5, <2>8, <4>1
    <3>8. \/ Len(w) = h + 1
          \/ Len(w) = h + 2 /\ w[h + 2] \in {"close", ","}
          \/ Len(w) = h + 3 /\ w[h + 2] \in {"s", ","} /\ w[h + 3] = "close"
      BY <3>1, <3>4, <3>6, <3>7
    <3>9. Through(w, 0, m, key, a, body, k, h)
      BY <2>1, <3>1, <3>5, <3>8 DEF Through
    <3>10. ThroughFound(u, w, key, body, k, h)
      BY <2>7, <3>9, ThroughPlain
    <3>11. ~(Len(c) = g + 3 /\ c[g + 2] = ",") => ~(Len(w) = h + 3 /\ w[h + 2] = ",")
      BY <3>4, <3>6
    <3> QED
      BY <3>10, <3>11 DEF ThroughFound
  <2> QED
    BY <2>10, <2>11, <2>12 DEF u
<1>2. CASE ~Cleaned(c, j, n, key, o, body, k, g)
  BY <1>2 DEF CutAfter, CutWithin, Through
<1> QED
  BY <1>1, <1>2

(* The scan does not join surrogate pairs. *)
Split == [Meaning EXCEPT !["pair"] = <<"U+FFFD", "U+FFFD">>]

(* scanJSONString reads the halves of a surrogate pair apart. *)
LEMMA SplitIs ==
    ASSUME NEW x \in Items
    PROVE  /\ Split[x] \in Seq(Symbols)
           /\ x # "pair" => Split[x] = Meaning[x]
           /\ x = "pair" => Split[x] = <<"U+FFFD", "U+FFFD">>
           /\ Split[x] # <<>>
<1>1. Items = DOMAIN Meaning
  BY DEF Items, Source, Meaning
<1>2. x # "pair" => Split[x] = Meaning[x]
  BY <1>1 DEF Split
<1>3. x = "pair" => Split[x] = <<"U+FFFD", "U+FFFD">>
  BY <1>1 DEF Split
<1>4. <<"U+FFFD", "U+FFFD">> \in Seq(Symbols) /\ <<"U+FFFD", "U+FFFD">> # <<>>
  BY SymbolsTyped, TwoAreSeq
<1>5. Meaning[x] \in Seq(Symbols) /\ Meaning[x] # <<>>
  <2>1. Meaning[x] \in Seq(Symbols) /\ Len(Meaning[x]) \in 1..2
    BY TextsTyped, MeaningEnds
  <2> DEFINE t == Meaning[x]
  <2>2. Len(t) \in 1..2 /\ t \in Seq(Symbols)
    BY <2>1
  <2> HIDE DEF t
  <2>3. Len(t) # 0
    BY <2>2
  <2>4. t # <<>>
    BY <2>3
  <2> QED
    BY <2>1, <2>4 DEF t
<1> QED
  BY <1>2, <1>3, <1>4, <1>5

(* What scanJSONString reads of a body grows item by item. *)
LEMMA FlatSplit ==
    ASSUME NEW body \in Seq(Items)
    PROVE  /\ Flat(Split, SubSeq(body, 1, 0)) = <<>>
           /\ \A k \in 0..Len(body) : Flat(Split, SubSeq(body, 1, k)) \in Seq(Symbols)
           /\ \A k \in 1..Len(body) : Flat(Split, SubSeq(body, 1, k))
                 = Flat(Split, SubSeq(body, 1, k - 1)) \o Split[body[k]]
           /\ \A k \in 1..Len(body) : Flat(Split, SubSeq(body, 1, k)) # <<>>
<1>1. \A x \in Items : Split[x] \in Seq(Symbols)
  BY SplitIs
<1>2. Stepwise(Split, Symbols, body)
  BY <1>1, FlatStep
<1>3. ASSUME NEW k \in 1..Len(body) PROVE Flat(Split, SubSeq(body, 1, k)) # <<>>
  <2> DEFINE u == Flat(Split, SubSeq(body, 1, k - 1))
             v == Split[body[k]]
  <2>1. Flat(Split, SubSeq(body, 1, k)) = u \o v
    BY <1>2 DEF Stepwise
  <2>2. k - 1 \in 0..Len(body)
    OBVIOUS
  <2>3. u \in Seq(Symbols) /\ v \in Seq(Symbols) /\ v # <<>>
    BY <1>2, <2>2, SplitIs DEF Stepwise
  <2> HIDE DEF u, v
  <2>4. Len(u) \in Nat /\ Len(v) \in Nat /\ Len(v) # 0
    BY <2>3
  <2>5. Len(u \o v) # 0
    BY <2>3, <2>4, Associative
  <2>6. u \o v # <<>>
    BY <2>5
  <2> QED
    BY <2>1, <2>6
<1> QED
  BY <1>2, <1>3 DEF Stepwise

-----------------------------------------------------------------------------
(* The states of the scan of a string literal. *)
Reading(out) == [mode |-> "plain", out |-> out]

ReadEscape(out) == [mode |-> "escaped", out |-> out]

ReadUnicode(out) == [mode |-> "unicode", out |-> out]

Ended(out) == [mode |-> "closed", out |-> out]

(* One lemma for each case of a step. *)
LEMMA ScanPlain ==
    ASSUME NEW w, NEW i, NEW out, w[i] \notin {"\\", "q"}
    PROVE  ScanStep(w, Reading(out), i) = Reading(out \o <<w[i]>>)
BY DEF ScanStep, Reading

(* Reading a string, a backslash begins an escape. *)
LEMMA ScanBackslash ==
    ASSUME NEW w, NEW i, NEW out, w[i] = "\\"
    PROVE  ScanStep(w, Reading(out), i) = ReadEscape(out)
BY DEF ScanStep, Reading, ReadEscape

(* Reading a string, a quote that closes it ends the reading. *)
LEMMA ScanClosing ==
    ASSUME NEW w, NEW i, NEW out, w[i] = "q", Closing(w, i)
    PROVE  ScanStep(w, Reading(out), i) = Ended(out)
BY DEF ScanStep, Reading, Ended

(* Reading a string, a quote that does not close it is read as itself. *)
LEMMA ScanQuote ==
    ASSUME NEW w, NEW i, NEW out, w[i] = "q", ~Closing(w, i)
    PROVE  ScanStep(w, Reading(out), i) = Reading(out \o <<"q">>)
BY DEF ScanStep, Reading

(* Once it ended, nothing more is read. *)
LEMMA ScanEnded ==
    ASSUME NEW w, NEW i, NEW out
    PROVE  ScanStep(w, Ended(out), i) = Ended(out)
BY DEF ScanStep, Ended

(* An escaped newline is read as a newline. *)
LEMMA ScanNewline ==
    ASSUME NEW w, NEW i, NEW out, w[i] = "n"
    PROVE  ScanStep(w, ReadEscape(out), i) = Reading(out \o <<"NL">>)
BY DEF ScanStep, Reading, ReadEscape

(* An escaped quote or backslash is read as itself. *)
LEMMA ScanEscaped ==
    ASSUME NEW w, NEW i, NEW out, w[i] = "q" \/ w[i] = "\\"
    PROVE  ScanStep(w, ReadEscape(out), i) = Reading(out \o <<w[i]>>)
BY DEF ScanStep, Reading, ReadEscape

(* An escape with a code has its digits still to come. *)
LEMMA ScanUnicode ==
    ASSUME NEW w, NEW i, NEW out, w[i] = "u", i < Len(w), w[i + 1] \in {"X", "H", "L"}
    PROVE  ScanStep(w, ReadEscape(out), i) = ReadUnicode(out)
BY DEF ScanStep, ReadUnicode, ReadEscape

(* A backslash and a u at the very end are read as themselves. *)
LEMMA ScanUncoded ==
    ASSUME NEW w, NEW i, NEW out, w[i] = "u", ~(i < Len(w))
    PROVE  ScanStep(w, ReadEscape(out), i) = Reading(out \o <<"\\", "u">>)
BY DEF ScanStep, Reading, ReadEscape

(* A code that is no surrogate is read as its character. *)
LEMMA ScanDigits ==
    ASSUME NEW w, NEW i, NEW out, w[i] = "X"
    PROVE  ScanStep(w, ReadUnicode(out), i) = Reading(out \o <<"U+X">>)
BY DEF ScanStep, Reading, ReadUnicode

(* Each half of a surrogate pair is read as a replacement character. *)
LEMMA ScanSurrogate ==
    ASSUME NEW w, NEW i, NEW out, w[i] \in {"H", "L"}
    PROVE  ScanStep(w, ReadUnicode(out), i) = Reading(out \o <<"U+FFFD">>)
BY DEF ScanStep, Reading, ReadUnicode

(* Reading over the symbols of one item. *)
LEMMA ScansSteps ==
    ASSUME NEW w \in Seq(Symbols), NEW f, Scans(f, w), NEW g \in Nat, NEW m \in 1..6,
           g + m <= Len(w)
    PROVE  /\ f[g + 1] = ScanStep(w, f[g], g + 1)
           /\ m >= 2 => f[g + 2] = ScanStep(w, f[g + 1], g + 2)
           /\ m >= 3 => f[g + 3] = ScanStep(w, f[g + 2], g + 3)
           /\ m >= 4 => f[g + 4] = ScanStep(w, f[g + 3], g + 4)
           /\ m >= 5 => f[g + 5] = ScanStep(w, f[g + 4], g + 5)
           /\ m = 6 => f[g + 6] = ScanStep(w, f[g + 5], g + 6)
<1>1. ASSUME NEW j \in 1..m PROVE f[g + j] = ScanStep(w, f[g + j - 1], g + j)
  <2> DEFINE i == g + j
  <2>1. i \in 1..Len(w)
    OBVIOUS
  <2> HIDE DEF i
  <2>2. f[i] = ScanStep(w, f[i - 1], i)
    BY <2>1 DEF Scans
  <2> QED
    BY <2>2 DEF i
<1>2. /\ g + 1 - 1 = g /\ g + 2 - 1 = g + 1 /\ g + 3 - 1 = g + 2 /\ g + 4 - 1 = g + 3
      /\ g + 5 - 1 = g + 4 /\ g + 6 - 1 = g + 5
  OBVIOUS
<1>3. f[g + 1] = ScanStep(w, f[g], g + 1)
  BY <1>1, <1>2
<1>4. m >= 2 => f[g + 2] = ScanStep(w, f[g + 1], g + 2)
  BY <1>1, <1>2
<1>5. m >= 3 => f[g + 3] = ScanStep(w, f[g + 2], g + 3)
  BY <1>1, <1>2
<1>6. m >= 4 => f[g + 4] = ScanStep(w, f[g + 3], g + 4)
  BY <1>1, <1>2
<1>7. m >= 5 => f[g + 5] = ScanStep(w, f[g + 4], g + 5)
  BY <1>1, <1>2
<1>8. m = 6 => f[g + 6] = ScanStep(w, f[g + 5], g + 6)
  BY <1>1, <1>2
<1> QED
  BY <1>3, <1>4, <1>5, <1>6, <1>7, <1>8

(* A quote ends the string unless something else than white space, a brace *)
(* or a comma comes next.                                                  *)
GoesOn(w, i) == i + 1 <= Len(w) /\ w[i + 1] \notin {"s", "NL", "close", ","}

(* A quote followed by text does not close the string it is in. *)
LEMMA NotClosing ==
    ASSUME NEW w \in Seq(Symbols), NEW i \in Nat, GoesOn(w, i)
    PROVE  ~Closing(w, i)
<1> DEFINE l == Len(w)
           a == i + 1
           u == Rest(w, a)
<1>1. l \in Nat /\ a \in Nat /\ a <= l /\ 1 <= a /\ a \in a..l
  <2>1. i + 1 <= Len(w)
    BY DEF GoesOn
  <2> QED
    BY <2>1
<1>2. IsPart(u, w, a, l)
  BY <1>1 DEF IsPart, Rest
<1>3. w[a] \notin White /\ w[a] \notin {"close", ","}
  BY DEF White, GoesOn
<1> HIDE DEF u, a, l
<1>4. IsPart(TrimLeft(u), w, a, l)
  <2>1. \A j \in a..(a - 1) : w[j] \in White
    <3>1. ASSUME NEW j \in a..(a - 1) PROVE FALSE
      BY <1>1
    <3> QED
      BY <3>1
  <2> QED
    BY <1>1, <1>2, <1>3, <2>1, TrimLeftIs
<1> DEFINE t == TrimLeft(u)
<1> HIDE DEF t
<1>5. Len(t) = l - a + 1 /\ (\A j \in 1..(l - a + 1) : t[j] = w[a + j - 1]) /\ t \in Seq(Symbols)
  BY <1>4, PartIs DEF PartBounds, t
<1>6. 1 \in 1..(l - a + 1) /\ a + 1 - 1 = a /\ Len(t) # 0
  BY <1>1, <1>5
<1>7. t # <<>> /\ t[1] = w[a]
  BY <1>5, <1>6
<1> QED
  BY <1>3, <1>7 DEF Closing, t, u, a

(* What the scan makes of an item. *)
LEMMA ScansItem ==
    ASSUME NEW w, NEW f, Scans(f, w), NEW g, NEW x, ItemAt(w, g, x),
           x = "rawQuote" => GoesOn(w, g + 1),
           NEW out \in Seq(Symbols), f[g] = Reading(out)
    PROVE  f[g + Len(Source[x])] = Reading(out \o Split[x])
<1> DEFINE m == Len(Source[x])
<1>1. /\ w \in Seq(Symbols) /\ g \in Nat /\ x \in Items /\ g + m <= Len(w)
      /\ Shows(w, g, Source[x])
  BY DEF ItemAt
<1>2. m \in 1..6
  BY <1>1, TextsTyped
<1>3. Len(w) \in Nat
  BY <1>1
<1>4. x # "pair" => Split[x] = Meaning[x]
  BY <1>1, SplitIs
<1> HIDE DEF m
<1> DEFINE a1 == g + 1
           a2 == g + 2
           a3 == g + 3
           a4 == g + 4
           a5 == g + 5
           a6 == g + 6
<1>5. /\ f[a1] = ScanStep(w, f[g], a1)
      /\ m >= 2 => f[a2] = ScanStep(w, f[a1], a2)
      /\ m >= 3 => f[a3] = ScanStep(w, f[a2], a3)
      /\ m >= 4 => f[a4] = ScanStep(w, f[a3], a4)
      /\ m >= 5 => f[a5] = ScanStep(w, f[a4], a5)
      /\ m = 6 => f[a6] = ScanStep(w, f[a5], a6)
  BY <1>1, <1>2, ScansSteps
<1>12. /\ m = 1 => g + m = a1
       /\ m = 2 => g + m = a2
       /\ m = 3 => g + m = a3
       /\ m = 6 => g + m = a6
  OBVIOUS
<1>13. /\ m \in {3, 6} => a2 < Len(w) /\ a2 + 1 = a3
       /\ m = 6 => a5 < Len(w) /\ a5 + 1 = a6
       /\ m = 2 => m >= 2
       /\ m \in {3, 6} => m >= 2 /\ m >= 3
       /\ m = 6 => m >= 4 /\ m >= 5
  BY <1>1, <1>3
<1>14. a1 \in Nat /\ (x = "rawQuote" => GoesOn(w, a1))
  BY <1>1
<1> HIDE DEF a1, a2, a3, a4, a5, a6
<1>6. f[a1] = ScanStep(w, Reading(out), a1)
  BY <1>5
<1> SUFFICES f[g + m] = Reading(out \o Split[x])
  BY DEF m
<1>7. CASE x \in Singles
  <2>1. Meaning[x] = <<w[a1]>> /\ m = 1
    <3>1. Source[x] = Meaning[x] /\ Source[x] = <<w[a1]>> /\ Len(Source[x]) = 1
      BY <1>1, <1>7, SymbolsOf DEF a1, a2, a3, a4, a5, a6
    <3> QED
      BY <3>1 DEF m
  <2>2. Split[x] = <<w[a1]>>
    BY <1>4, <1>7, <2>1 DEF Singles
  <2>3. CASE x = "rawQuote"
    <3>1. w[a1] = "q"
      BY <1>1, <2>3, SymbolsOf DEF a1, a2, a3, a4, a5, a6
    <3>2. ~Closing(w, a1)
      BY <1>1, <1>14, <2>3, NotClosing
    <3>3. f[a1] = Reading(out \o <<"q">>)
      BY <1>6, <3>1, <3>2, ScanQuote
    <3> QED
      BY <1>12, <2>1, <2>2, <3>1, <3>3
  <2>4. CASE x # "rawQuote"
    <3>1. w[a1] \in {"a", "n", "s", "close", "fence", "NL"}
      BY <1>1, <1>7, <2>4, SymbolsOf, ZenonT(60) DEF Singles, a1, a2, a3, a4, a5, a6
    <3>2. f[a1] = Reading(out \o <<w[a1]>>)
      <4>1. w[a1] \notin {"\\", "q"}
        BY <3>1
      <4> QED
        BY <1>6, <4>1, ScanPlain
    <3> QED
      BY <1>12, <2>1, <2>2, <3>2
  <2> QED
    BY <2>3, <2>4
<1>8. CASE x = "rune"
  <2>1. m = 2 /\ w[a1] = "r1" /\ w[a2] = "r2"
    BY <1>1, <1>8, SymbolsOf DEF m, a1, a2, a3, a4, a5, a6
  <2>2. Split[x] = <<"r1", "r2">>
    BY <1>4, <1>8, ItemTexts
  <2>3. f[a1] = Reading(out \o <<"r1">>)
    <3>1. w[a1] \notin {"\\", "q"}
      BY <2>1
    <3> QED
      BY <1>6, <2>1, <3>1, ScanPlain
  <2> DEFINE v == out \o <<"r1">>
  <2>4. f[a2] = ScanStep(w, Reading(v), a2)
    <3>1. f[a2] = ScanStep(w, f[a1], a2)
      BY <1>5, <2>1
    <3> QED
      BY <2>3, <3>1
  <2> HIDE DEF v
  <2>5. f[a2] = Reading(v \o <<"r2">>)
    <3>1. w[a2] \notin {"\\", "q"}
      BY <2>1
    <3> QED
      BY <2>1, <2>4, <3>1, ScanPlain
  <2>6. v \o <<"r2">> = out \o <<"r1", "r2">>
    <3>1. "r1" \in Symbols /\ "r2" \in Symbols
      BY SymbolsTyped
    <3>2. (out \o <<"r1">>) \o <<"r2">> = out \o <<"r1", "r2">>
      BY <3>1, TwoMore
    <3> QED
      BY <3>2 DEF v
  <2> QED
    BY <1>12, <2>1, <2>2, <2>5, <2>6
<1>9. CASE x \in {"newline", "quote", "backslash"}
  <2>1. m = 2 /\ w[a1] = "\\"
    <3>1. CASE x = "newline"
      BY <1>1, <3>1, SymbolsOf DEF m, a1, a2, a3, a4, a5, a6
    <3>2. CASE x = "quote"
      BY <1>1, <3>2, SymbolsOf DEF m, a1, a2, a3, a4, a5, a6
    <3>3. CASE x = "backslash"
      BY <1>1, <3>3, SymbolsOf DEF m, a1, a2, a3, a4, a5, a6
    <3> QED
      BY <1>9, <3>1, <3>2, <3>3
  <2>2. f[a1] = ReadEscape(out)
    BY <1>6, <2>1, ScanBackslash
  <2>3. f[a2] = ScanStep(w, ReadEscape(out), a2)
    <3>1. f[a2] = ScanStep(w, f[a1], a2)
      BY <1>5, <2>1
    <3> QED
      BY <2>2, <3>1
  <2>4. CASE x = "newline"
    <3>1. w[a2] = "n" /\ Split[x] = <<"NL">>
      BY <1>1, <1>4, <2>4, SymbolsOf, ItemTexts DEF a1, a2, a3, a4, a5, a6
    <3>2. f[a2] = Reading(out \o <<"NL">>)
      BY <2>3, <3>1, ScanNewline
    <3> QED
      BY <1>12, <2>1, <3>1, <3>2
  <2>5. CASE x = "quote"
    <3>1. w[a2] = "q" /\ Split[x] = <<"q">>
      BY <1>1, <1>4, <2>5, SymbolsOf, ItemTexts DEF a1, a2, a3, a4, a5, a6
    <3>2. f[a2] = Reading(out \o <<w[a2]>>)
      <4>1. w[a2] = "q" \/ w[a2] = "\\"
        BY <3>1
      <4>2. ScanStep(w, ReadEscape(out), a2) = Reading(out \o <<w[a2]>>)
        BY <4>1, ScanEscaped
      <4> QED
        BY <2>3, <4>2
    <3> QED
      BY <1>12, <2>1, <3>1, <3>2
  <2>6. CASE x = "backslash"
    <3>1. w[a2] = "\\" /\ Split[x] = <<"\\">>
      BY <1>1, <1>4, <2>6, SymbolsOf, ItemTexts DEF a1, a2, a3, a4, a5, a6
    <3>2. f[a2] = Reading(out \o <<w[a2]>>)
      <4>1. w[a2] = "q" \/ w[a2] = "\\"
        BY <3>1
      <4>2. ScanStep(w, ReadEscape(out), a2) = Reading(out \o <<w[a2]>>)
        BY <4>1, ScanEscaped
      <4> QED
        BY <2>3, <4>2
    <3> QED
      BY <1>12, <2>1, <3>1, <3>2
  <2> QED
    BY <1>9, <2>4, <2>5, <2>6
<1>10. CASE x \in {"unicode", "pair"}
  <2>1. /\ m \in {3, 6} /\ w[a1] = "\\" /\ w[a2] = "u" /\ w[a3] \in {"X", "H"}
        /\ x = "unicode" => m = 3 /\ w[a3] = "X"
        /\ x = "pair" => /\ m = 6 /\ w[a3] = "H" /\ w[a4] = "\\" /\ w[a5] = "u"
                         /\ w[a6] = "L"
    <3>1. CASE x = "unicode"
      BY <1>1, <3>1, SymbolsOf DEF m, a1, a2, a3, a4, a5, a6
    <3>2. CASE x = "pair"
      BY <1>1, <3>2, SymbolsOf DEF m, a1, a2, a3, a4, a5, a6
    <3> QED
      BY <1>10, <3>1, <3>2
  <2>2. m >= 2 /\ m >= 3 /\ (m = 6 => m >= 4 /\ m >= 5) /\ a2 < Len(w)
        /\ (m = 6 => a5 < Len(w) /\ a5 + 1 = a6) /\ a2 + 1 = a3
    <3>1. m \in {3, 6}
      BY <2>1
    <3> QED
      BY <1>13, <3>1
  <2>3. f[a1] = ReadEscape(out)
    BY <1>6, <2>1, ScanBackslash
  <2>4. f[a2] = ReadUnicode(out)
    <3>1. f[a2] = ScanStep(w, f[a1], a2)
      BY <1>5, <2>2
    <3>2. f[a2] = ScanStep(w, ReadEscape(out), a2)
      BY <2>3, <3>1
    <3>3. w[a2 + 1] \in {"X", "H", "L"}
      BY <2>1, <2>2
    <3> QED
      BY <2>1, <2>2, <3>2, <3>3, ScanUnicode
  <2>5. f[a3] = ScanStep(w, ReadUnicode(out), a3)
    <3>1. f[a3] = ScanStep(w, f[a2], a3)
      BY <1>5, <2>2
    <3> QED
      BY <2>4, <3>1
  <2>6. CASE x = "unicode"
    <3>1. Split[x] = <<"U+X">>
      BY <1>4, <2>6, ItemTexts
    <3>2. f[a3] = Reading(out \o <<"U+X">>)
      BY <2>1, <2>5, <2>6, ScanDigits
    <3> QED
      BY <1>12, <2>1, <2>6, <3>1, <3>2
  <2>7. CASE x = "pair"
    <3> DEFINE v == out \o <<"U+FFFD">>
    <3>1. f[a3] = Reading(v)
      BY <2>1, <2>5, <2>7, ScanSurrogate
    <3>2. f[a4] = ScanStep(w, Reading(v), a4)
      <4>1. f[a4] = ScanStep(w, f[a3], a4)
        BY <1>5, <2>1, <2>2, <2>7
      <4> QED
        BY <3>1, <4>1
    <3>3. v \o <<"U+FFFD">> = out \o <<"U+FFFD", "U+FFFD">>
      <4>1. "U+FFFD" \in Symbols
        BY SymbolsTyped
      <4> QED
        BY <4>1, TwoMore
    <3> HIDE DEF v
    <3>4. f[a4] = ReadEscape(v)
      BY <2>1, <2>7, <3>2, ScanBackslash
    <3>5. f[a5] = ReadUnicode(v)
      <4>1. f[a5] = ScanStep(w, f[a4], a5)
        BY <1>5, <2>1, <2>2, <2>7
      <4>2. f[a5] = ScanStep(w, ReadEscape(v), a5)
        BY <3>4, <4>1
      <4>3. w[a5 + 1] \in {"X", "H", "L"} /\ w[a5] = "u" /\ a5 < Len(w)
        BY <2>1, <2>2, <2>7
      <4> QED
        BY <4>2, <4>3, ScanUnicode
    <3>6. f[a6] = Reading(v \o <<"U+FFFD">>)
      <4>1. f[a6] = ScanStep(w, f[a5], a6)
        BY <1>5, <2>1, <2>7
      <4>2. f[a6] = ScanStep(w, ReadUnicode(v), a6)
        BY <3>5, <4>1
      <4>3. w[a6] \in {"H", "L"}
        BY <2>1, <2>7
      <4> QED
        BY <4>2, <4>3, ScanSurrogate
    <3>7. Split[x] = <<"U+FFFD", "U+FFFD">>
      BY <1>1, <2>7, SplitIs
    <3> QED
      BY <1>12, <2>1, <2>7, <3>3, <3>6, <3>7
  <2> QED
    BY <1>10, <2>6, <2>7
<1>11. x \in Singles \cup {"rune", "newline", "quote", "backslash", "unicode", "pair"}
  BY <1>1, ItemIsOne DEF Singles
<1> QED
  BY <1>7, <1>8, <1>9, <1>10, <1>11

(* And of items one after another, no quote of which may end the string. *)
Open(w, body, n) == \A k \in 1..n : body[k] = "rawQuote" => GoesOn(w, EndOf(body, k))

ScansTo(f, body, k) == f[EndOf(body, k)] = Reading(Flat(Split, SubSeq(body, 1, k)))

(* Reading a body whose raw quotes close nothing gives the body, with pairs split. *)
LEMMA ScansRun ==
    ASSUME NEW w, NEW f, Scans(f, w), NEW body, NEW n, Holds(w, 0, body, n), Open(w, body, n)
    PROVE  \A k \in 0..n : ScansTo(f, body, k)
<1>1. /\ w \in Seq(Symbols) /\ body \in Seq(Items) /\ n \in 0..Len(body) /\ n \in Nat
      /\ \A k \in 1..n : ItemAt(w, 0 + EndOf(body, k - 1), body[k])
  BY DEF Holds
<1> DEFINE I == {k \in 0..n : ScansTo(f, body, k)}
<1>2. 0 \in I
  <2>1. EndOf(body, 0) = 0 /\ Flat(Split, SubSeq(body, 1, 0)) = <<>>
    BY <1>1, Ends, FlatSplit
  <2>2. f[0] = Reading(<<>>)
    BY DEF Scans, Reading
  <2>3. f[EndOf(body, 0)] = Reading(Flat(Split, SubSeq(body, 1, 0)))
    BY <2>1, <2>2
  <2>4. 0 \in 0..n
    BY <1>1
  <2> QED
    BY <2>3, <2>4 DEF ScansTo
<1>3. ASSUME NEW k \in 1..n, k - 1 \in I PROVE k \in I
  <2> DEFINE out == Flat(Split, SubSeq(body, 1, k - 1))
             g == EndOf(body, k - 1)
             x == body[k]
  <2>1. k \in 1..Len(body) /\ k \in 0..n /\ k - 1 \in 0..Len(body) /\ k \in 0..Len(body)
    BY <1>1
  <2>2. /\ g \in Nat /\ Len(Source[x]) \in 1..6 /\ EndOf(body, k) = g + Len(Source[x])
        /\ x \in Items
    BY <1>1, <2>1, Ends
  <2>3. ItemAt(w, g, x)
    <3>1. ItemAt(w, 0 + g, x) /\ 0 + g = g
      BY <1>1, <2>2
    <3> QED
      BY <3>1
  <2>4. out \in Seq(Symbols) /\ Flat(Split, SubSeq(body, 1, k)) = out \o Split[x]
    BY <1>1, <2>1, FlatSplit
  <2>5. f[g] = Reading(out)
    BY <1>3 DEF ScansTo
  <2>6. x = "rawQuote" => GoesOn(w, g + 1)
    <3>1. x = "rawQuote" => Len(Source[x]) = 1
      <4>1. Len(Source["rawQuote"]) = 1
        BY ItemTexts
      <4> QED
        BY <4>1
    <3> QED
      BY <2>2, <3>1 DEF Open
  <2> HIDE DEF g, x, out
  <2>7. f[g + Len(Source[x])] = Reading(out \o Split[x])
    BY <2>3, <2>4, <2>5, <2>6, ScansItem
  <2>8. ScansTo(f, body, k)
    BY <2>2, <2>4, <2>7 DEF ScansTo
  <2> QED
    BY <2>1, <2>8
<1>4. \A k \in 0..n : k \in I
  <2> HIDE DEF I
  <2> QED
    BY <1>1, <1>2, <1>3, UpToInduction
<1> QED
  BY <1>4

-----------------------------------------------------------------------------
(* Concatenation is associative, for all texts at once. *)
LEMMA Associates == \A p, q, r \in Seq(Symbols) : (p \o q) \o r = p \o (q \o r)
BY Associative

(* The scan of an item that was cut in two adds no more than there was of it. *)
Adds(st, out, l) ==
    \E x \in Seq(Symbols) : Len(x) <= l /\ st.out = out \o x /\ st.mode # "closed"

(* What is read of an item cut in its middle is at most what it holds. *)
LEMMA ScansHalved ==
    ASSUME NEW w \in Seq(Symbols), NEW f, Scans(f, w), NEW g \in Nat, NEW l, l \in 1..5,
           Halved(w, g, l), Len(w) = g + l, NEW out \in Seq(Symbols), f[g] = Reading(out)
    PROVE  Adds(f[g + l], out, l)
<1> SUFFICES \E x \in Seq(Symbols) : /\ Len(x) <= l /\ f[g + l].out = out \o x
                                     /\ f[g + l].mode # "closed"
  BY DEF Adds
<1>1. /\ f[g + 1] = ScanStep(w, f[g], g + 1)
      /\ l >= 2 => f[g + 2] = ScanStep(w, f[g + 1], g + 2)
      /\ l >= 3 => f[g + 3] = ScanStep(w, f[g + 2], g + 3)
      /\ l >= 4 => f[g + 4] = ScanStep(w, f[g + 3], g + 4)
      /\ l >= 5 => f[g + 5] = ScanStep(w, f[g + 4], g + 5)
  <2>1. l \in 1..6 /\ g + l <= Len(w)
    OBVIOUS
  <2> QED
    BY <2>1, ScansSteps, ZenonT(60)
<1> DEFINE a1 == g + 1
           a2 == g + 2
           a3 == g + 3
           a4 == g + 4
           a5 == g + 5
<1>8. /\ f[a1] = ScanStep(w, f[g], a1)
      /\ l >= 2 => f[a2] = ScanStep(w, f[a1], a2)
      /\ l >= 3 => f[a3] = ScanStep(w, f[a2], a3)
      /\ l >= 4 => f[a4] = ScanStep(w, f[a3], a4)
      /\ l >= 5 => f[a5] = ScanStep(w, f[a4], a5)
  BY <1>1
<1>9. /\ l = 1 => g + l = a1
      /\ l = 2 => g + l = a2 /\ ~(a2 < Len(w)) /\ l >= 2
      /\ l = 3 => g + l = a3 /\ a2 < Len(w) /\ a2 + 1 = a3 /\ l >= 2 /\ l >= 3
      /\ l = 4 => g + l = a4 /\ a2 < Len(w) /\ a2 + 1 = a3 /\ l >= 2 /\ l >= 3 /\ l >= 4
      /\ l = 5 => g + l = a5 /\ a2 < Len(w) /\ a2 + 1 = a3 /\ ~(a5 < Len(w)) /\ l >= 2 /\ l >= 3
                  /\ l >= 4 /\ l >= 5
  OBVIOUS
<1>10. /\ l = 1 => w[a1] \in {"r1", "\\"}
       /\ l >= 2 => w[a1] = "\\" /\ w[a2] = "u"
       /\ l >= 3 => w[a3] = "H"
       /\ l >= 4 => w[a4] = "\\"
       /\ l = 5 => w[a5] = "u"
  BY DEF Halved
<1>11. \A k \in 1..5 : k = 1 \/ k = 2 \/ k \in {3, 4, 5}
  OBVIOUS
<1> HIDE DEF a1, a2, a3, a4, a5
<1>2. \A o \in Seq(Symbols) :
        /\ ReadEscape(o).out = o /\ ReadEscape(o).mode # "closed"
        /\ Reading(o).out = o /\ Reading(o).mode # "closed"
  BY DEF ReadEscape, Reading
<1>3. <<>> \in Seq(Symbols) /\ Len(<<>>) = 0 /\ out \o <<>> = out
  OBVIOUS
<1>4. "r1" \in Symbols /\ "\\" \in Symbols /\ "u" \in Symbols /\ "U+FFFD" \in Symbols
  BY SymbolsTyped
<1>5. f[a1] = ScanStep(w, Reading(out), a1)
  BY <1>8
<1>6. CASE l = 1 /\ w[a1] = "r1"
  <2> DEFINE x == <<"r1">>
  <2>1. x \in Seq(Symbols) /\ Len(x) = 1
    BY <1>4, OneIsSeq
  <2>2. f[a1] = Reading(out \o x)
    <3>1. w[a1] \notin {"\\", "q"} /\ <<w[a1]>> = x
      BY <1>6
    <3> QED
      BY <1>5, <3>1, ScanPlain
  <2> HIDE DEF x
  <2>3. out \o x \in Seq(Symbols)
    BY <2>1, Associative
  <2>4. f[g + l].out = out \o x /\ f[g + l].mode # "closed" /\ Len(x) <= l
    <3>1. f[g + l] = Reading(out \o x)
      BY <1>6, <1>9, <2>2
    <3>2. Len(x) <= l
      BY <1>6, <2>1
    <3> QED
      BY <1>2, <2>3, <3>1, <3>2
  <2> QED
    BY <2>1, <2>4
<1>7. CASE w[a1] = "\\"
  <2>1. f[a1] = ReadEscape(out)
    BY <1>5, <1>7, ScanBackslash
  <2>2. CASE l = 1
    <3>1. f[g + l].out = out \o <<>> /\ f[g + l].mode # "closed" /\ Len(<<>>) <= l
      BY <1>2, <1>3, <1>9, <2>1, <2>2
    <3> QED
      BY <1>3, <3>1
  <2>3. CASE l = 2
    <3> DEFINE x == <<"\\", "u">>
    <3>1. x \in Seq(Symbols) /\ Len(x) = 2
      BY <1>4, TwoAreSeq
    <3>2. f[a2] = ScanStep(w, ReadEscape(out), a2)
      BY <1>8, <1>9, <2>1, <2>3
    <3>3. ~(a2 < Len(w))
      BY <1>9, <2>3
    <3>4. w[a2] = "u"
      BY <1>9, <1>10, <2>3
    <3>5. f[a2] = Reading(out \o x)
      BY <3>2, <3>3, <3>4, ScanUncoded
    <3> HIDE DEF x
    <3>6. out \o x \in Seq(Symbols)
      BY <3>1, Associative
    <3>7. f[g + l].out = out \o x /\ f[g + l].mode # "closed" /\ Len(x) <= l
      BY <1>2, <1>9, <2>3, <3>1, <3>5, <3>6
    <3> QED
      BY <3>1, <3>7
  <2>4. CASE l \in {3, 4, 5}
    <3> DEFINE x == <<"U+FFFD">>
               v == out \o x
    <3>1. x \in Seq(Symbols) /\ Len(x) = 1
      BY <1>4, OneIsSeq
    <3>2. l >= 2 /\ l >= 3 /\ a2 < Len(w) /\ a2 + 1 = a3
      BY <1>9, <2>4
    <3>3. w[a2] = "u" /\ w[a3] = "H" /\ (l \in {4, 5} => w[a4] = "\\")
          /\ (l = 5 => w[a5] = "u")
      BY <1>9, <1>10, <2>4
    <3>4. f[a2] = ReadUnicode(out)
      <4>1. f[a2] = ScanStep(w, ReadEscape(out), a2)
        BY <1>8, <2>1, <3>2
      <4>2. w[a2 + 1] \in {"X", "H", "L"}
        BY <3>2, <3>3
      <4> QED
        BY <3>2, <3>3, <4>1, <4>2, ScanUnicode
    <3>5. f[a3] = Reading(v)
      <4>1. f[a3] = ScanStep(w, ReadUnicode(out), a3)
        BY <1>8, <3>2, <3>4
      <4> QED
        BY <3>3, <4>1, ScanSurrogate
    <3>6. v \in Seq(Symbols)
      <4> HIDE DEF x
      <4> QED
        BY <3>1, Associative
    <3>7. v = out \o x
      OBVIOUS
    <3> HIDE DEF x, v
    <3>8. CASE l = 3
      <4>1. f[g + l].out = out \o x /\ f[g + l].mode # "closed" /\ Len(x) <= l
        <5>1. f[g + l] = Reading(v)
          BY <1>9, <3>5, <3>8
        <5>2. Len(x) <= l
          BY <3>1, <3>8
        <5> QED
          BY <1>2, <3>6, <3>7, <5>1, <5>2
      <4> QED
        BY <3>1, <4>1
    <3>9. ASSUME l \in {4, 5} PROVE f[a4] = ReadEscape(v)
      <4>1. f[a4] = ScanStep(w, Reading(v), a4)
        BY <1>8, <1>9, <3>5, <3>9
      <4> QED
        BY <3>3, <3>9, <4>1, ScanBackslash
    <3>10. CASE l = 4
      <4>1. f[a4] = ReadEscape(v)
        BY <3>9, <3>10
      <4>2. f[g + l].out = out \o x /\ f[g + l].mode # "closed" /\ Len(x) <= l
        <5>1. f[g + l] = ReadEscape(v)
          BY <1>9, <3>10, <4>1
        <5>2. Len(x) <= l
          BY <3>1, <3>10
        <5> QED
          BY <1>2, <3>6, <3>7, <5>1, <5>2
      <4> QED
        BY <3>1, <4>2
    <3>11. CASE l = 5
      <4> DEFINE y == <<"\\", "u">>
                 z == x \o y
      <4>1. y \in Seq(Symbols) /\ Len(y) = 2
        BY <1>4, TwoAreSeq
      <4>2. f[a5] = ScanStep(w, ReadEscape(v), a5)
        BY <1>8, <1>9, <3>9, <3>11
      <4>3. ~(a5 < Len(w))
        BY <1>9, <3>11
      <4>4. f[a5] = Reading(v \o y)
        BY <3>3, <3>11, <4>2, <4>3, ScanUncoded
      <4> HIDE DEF y
      <4>5. z \in Seq(Symbols) /\ Len(z) = 3 /\ v \o y = out \o z /\ v \o y \in Seq(Symbols)
        <5>4. z \in Seq(Symbols)
          BY <3>1, <4>1, Associative
        <5>5. v \o y = out \o (x \o y)
          <6>1. (out \o x) \o y = out \o (x \o y)
            BY <3>1, <4>1, Associates, Zenon
          <6> QED
            BY <3>7, <6>1
        <5>1. z \in Seq(Symbols) /\ v \o y = out \o z
          BY <5>4, <5>5
        <5>2. v \o y \in Seq(Symbols)
          BY <3>6, <4>1, Associative
        <5>3. Len(z) = Len(x) + Len(y)
          BY <3>1, <4>1, Associative
        <5> QED
          BY <3>1, <4>1, <5>1, <5>2, <5>3
      <4> HIDE DEF z
      <4>6. f[g + l].out = out \o z /\ f[g + l].mode # "closed" /\ Len(z) <= l
        <5>1. f[g + l] = Reading(v \o y)
          BY <1>9, <3>11, <4>4
        <5>2. Len(z) <= l
          BY <3>11, <4>5
        <5> QED
          BY <1>2, <4>5, <5>1, <5>2
      <4> QED
        BY <4>5, <4>6
    <3> QED
      BY <2>4, <3>8, <3>10, <3>11
  <2> QED
    BY <1>11, <2>2, <2>3, <2>4
<1> QED
  <2>1. l = 1 \/ l >= 2
    BY <1>11
  <2> QED
    BY <1>6, <1>7, <1>10, <2>1

(* A quote that ends the string: it is the last symbol, or a brace or a    *)
(* comma follows.                                                          *)
Stops(w, i) ==
    \/ i = Len(w)
    \/ i + 1 <= Len(w) /\ w[i + 1] \in {"close", ","}
    \/ i + 2 <= Len(w) /\ w[i + 1] = "s" /\ w[i + 2] = "close"

(* A quote at the end, or before a comma or brace, closes its string. *)
LEMMA StopsClosing ==
    ASSUME NEW w \in Seq(Symbols), NEW i \in 1..Len(w), Stops(w, i)
    PROVE  Closing(w, i)
<1> DEFINE l == Len(w)
           a == i + 1
           b == i + 2
           u == Rest(w, a)
<1>1. l \in Nat /\ a \in Nat /\ b \in Nat /\ 1 <= a /\ a <= l + 1 /\ b = a + 1
  OBVIOUS
<1>2. IsPart(u, w, a, l)
  BY <1>1 DEF IsPart, Rest
<1>3. \/ a = l + 1
      \/ a <= l /\ w[a] \in {"close", ","}
      \/ b <= l /\ w[a] = "s" /\ w[b] = "close"
  <2>1. CASE i = Len(w)
    BY <2>1
  <2>2. CASE i + 1 <= Len(w) /\ w[i + 1] \in {"close", ","}
    BY <2>2
  <2>3. CASE i + 2 <= Len(w) /\ w[i + 1] = "s" /\ w[i + 2] = "close"
    BY <2>3
  <2> QED
    BY <2>1, <2>2, <2>3 DEF Stops
<1> HIDE DEF u, a, b, l
<1>4. CASE a = l + 1
  <2>1. u \in Seq(Symbols) /\ Len(u) = 0
    <3>1. u \in Seq(Symbols) /\ Len(u) = l - a + 1
      BY <1>2, PartIs DEF PartBounds
    <3> QED
      BY <1>1, <1>4, <3>1
  <2>2. Blank(u)
    BY <2>1 DEF Blank
  <2>3. TrimLeft(u) = <<>>
    BY <2>2 DEF TrimLeft
  <2> QED
    BY <2>3 DEF Closing, u, a
<1>5. ASSUME NEW f \in a..l, w[f] \in {"close", ","}, \A j \in a..(f - 1) : w[j] \in White
      PROVE  Closing(w, i)
  <2>1. w[f] \notin White
    BY <1>5 DEF White
  <2>2. IsPart(TrimLeft(u), w, f, l)
    BY <1>2, <1>5, <2>1, TrimLeftIs
  <2> DEFINE t == TrimLeft(u)
  <2> HIDE DEF t
  <2>3. Len(t) = l - f + 1 /\ \A j \in 1..(l - f + 1) : t[j] = w[f + j - 1]
    BY <2>2, PartIs DEF PartBounds, t
  <2>4. 1 \in 1..(l - f + 1) /\ f + 1 - 1 = f
    BY <1>1
  <2>5. t[1] = w[f]
    BY <2>3, <2>4
  <2> QED
    BY <1>5, <2>5 DEF Closing, t, u, a
<1>6. CASE a <= l /\ w[a] \in {"close", ","}
  <2>3. a <= l
    BY <1>6
  <2>1. a \in a..l
    BY <1>1, <2>3
  <2>2. ASSUME NEW j \in a..(a - 1) PROVE FALSE
    BY <1>1
  <2> QED
    BY <1>5, <1>6, <2>1, <2>2
<1>7. CASE b <= l /\ w[a] = "s" /\ w[b] = "close"
  <2>1. b \in a..l /\ \A j \in a..(b - 1) : j = a
    BY <1>1, <1>7
  <2>2. \A j \in a..(b - 1) : w[j] \in White
    BY <1>7, <2>1 DEF White
  <2> QED
    BY <1>5, <1>7, <2>1, <2>2
<1> QED
  BY <1>3, <1>4, <1>6, <1>7

(* Once the string has ended, the rest is not looked at. *)
LEMMA EndedStays ==
    ASSUME NEW w \in Seq(Symbols), NEW f, Scans(f, w), NEW i \in 0..Len(w), NEW out,
           f[i] = Ended(out)
    PROVE  f[Len(w)] = Ended(out)
<1> DEFINE m == Len(w) - i
           I == {d \in 0..m : f[i + d] = Ended(out)}
<1>1. m \in Nat /\ i + m = Len(w) /\ i \in Nat
  OBVIOUS
<1> HIDE DEF m
<1>2. 0 \in I
  BY <1>1
<1>3. ASSUME NEW d \in 1..m, d - 1 \in I PROVE d \in I
  <2> DEFINE a == i + d
  <2>1. a \in 1..Len(w) /\ a - 1 = i + (d - 1)
    BY <1>1
  <2>2. f[a - 1] = Ended(out)
    BY <1>3, <2>1
  <2> HIDE DEF a
  <2>3. f[a] = ScanStep(w, f[a - 1], a)
    BY <2>1 DEF Scans
  <2>4. f[a] = Ended(out)
    BY <2>2, <2>3, ScanEnded
  <2> QED
    BY <2>4 DEF a
<1>4. \A d \in 0..m : d \in I
  <2> HIDE DEF I
  <2> QED
    BY <1>1, <1>2, <1>3, UpToInduction
<1>5. m \in 0..m
  BY <1>1
<1> QED
  BY <1>1, <1>4, <1>5

(* The value of a text, after its opening quote. *)
LEMMA ValueOf ==
    ASSUME NEW c, NEW j, NEW n, NEW key, NEW o, NEW body, NEW k, NEW g,
           Cleaned(c, j, n, key, o, body, k, g), NEW v, v = Rest(c, o + 1)
    PROVE  /\ v \in Seq(Symbols) /\ Len(v) = Len(c) - o
           /\ Holds(v, 0, body, k) /\ EndOf(body, k) = g - o
           /\ \A i \in 1..(Len(c) - o) : v[i] = c[o + i]
           /\ Scans(Scanning(v), v) /\ Scan(v) = Scanning(v)[Len(v)]
<1> DEFINE l == Len(c)
           a == o + 1
<1>1. /\ c \in Seq(Symbols) /\ l \in Nat /\ o \in Nat /\ g \in Nat /\ g <= l /\ g >= o
      /\ EndOf(body, k) \in Nat /\ g = o + EndOf(body, k) /\ Holds(c, o, body, k)
  BY CleanedTyped
<1>2. a \in Nat /\ 1 <= a /\ a <= l + 1 /\ a <= o + 1 /\ l - a + 1 = l - o
      /\ o - a + 1 = 0 /\ o + EndOf(body, k) <= l
  BY <1>1
<1>3. IsPart(v, c, a, l)
  BY <1>1, <1>2 DEF IsPart, Rest
<1> HIDE DEF l, a
<1>4. v \in Seq(Symbols) /\ Len(v) = l - o /\ \A i \in 1..(l - o) : v[i] = c[a + i - 1]
  BY <1>2, <1>3, PartIs DEF PartBounds
<1>5. \A i \in 1..(l - o) : a + i - 1 = o + i
  BY <1>1 DEF a
<1>6. Holds(v, 0, body, k)
  <2>1. Holds(v, o - a + 1, body, k)
    BY <1>1, <1>2, <1>3, HoldsInPart
  <2> QED
    BY <1>2, <2>1
<1>7. EndOf(body, k) = g - o
  BY <1>1
<1>8. Scans(Scanning(v), v)
  BY <1>4, ScanningDefined
<1> QED
  BY <1>4, <1>5, <1>6, <1>7, <1>8 DEF Scan, l

(* A bare quote before the k-th item does not end the string. *)
LEMMA OpenBefore ==
    ASSUME NEW v, NEW body, NEW k, Holds(v, 0, body, k), ~Ambiguous(body),
           NEW p \in 1..k, p # k, body[p] = "rawQuote"
    PROVE  GoesOn(v, EndOf(body, p))
<1>1. /\ 0 + EndOf(body, p) + 1 <= 0 + EndOf(body, k)
      /\ v[0 + EndOf(body, p) + 1] \in Textual \ {"s", "NL", "close"}
  BY QuoteFollowed
<1>2. /\ v \in Seq(Symbols) /\ body \in Seq(Items) /\ k \in 0..Len(body)
      /\ 0 + EndOf(body, k) <= Len(v)
  BY DEF Holds
<1> DEFINE e == EndOf(body, p)
<1>3. e \in Nat /\ EndOf(body, k) \in Nat
  BY <1>2, Ends
<1> HIDE DEF e
<1>4. 0 + e + 1 = e + 1 /\ e + 1 <= Len(v)
  BY <1>1, <1>2, <1>3 DEF e
<1>5. v[e + 1] \in Textual \ {"s", "NL", "close"}
  BY <1>1, <1>4 DEF e
<1>6. v[e + 1] \notin {"s", "NL", "close", ","}
  BY <1>5, TextualSymbols
<1> QED
  BY <1>4, <1>6 DEF GoesOn, e

(* What the scan makes of a text that was cut after an item. *)
LEMMA ScanCutAfter ==
    ASSUME NEW c, NEW j, NEW n, NEW key, NEW o, NEW body, NEW k, NEW g,
           CutAfter(c, j, n, key, o, body, k, g)
    PROVE  /\ k = 0 \/ body[k] # "rawQuote"
                => Scan(Rest(c, o + 1)) = Reading(Flat(Split, SubSeq(body, 1, k)))
           /\ k # 0 /\ body[k] = "rawQuote"
                => Scan(Rest(c, o + 1)) = Ended(Flat(Split, SubSeq(body, 1, k - 1)))
<1> DEFINE v == Rest(c, o + 1)
           f == Scanning(v)
           e == EndOf(body, k)
<1>1. Cleaned(c, j, n, key, o, body, k, g) /\ Len(c) = g
  BY DEF CutAfter
<1>2. /\ v \in Seq(Symbols) /\ Len(v) = Len(c) - o /\ Holds(v, 0, body, k)
      /\ e = g - o /\ Scans(f, v) /\ Scan(v) = f[Len(v)]
  BY <1>1, ValueOf
<1>3. /\ body \in Seq(Items) /\ k \in 0..Len(body) /\ k \in Nat /\ ~Ambiguous(body)
      /\ Len(body) \in Nat /\ e \in Nat
  BY <1>1, CleanedTyped
<1>4. Len(v) = e
  BY <1>1, <1>2
<1> HIDE DEF f, v, e
<1>5. CASE k = 0 \/ body[k] # "rawQuote"
  <2>1. Open(v, body, k)
    <3>1. ASSUME NEW p \in 1..k, body[p] = "rawQuote" PROVE GoesOn(v, EndOf(body, p))
      <4>1. p # k
        BY <1>5, <3>1
      <4> QED
        BY <1>2, <1>3, <3>1, <4>1, OpenBefore
    <3> QED
      BY <3>1 DEF Open
  <2>2. ScansTo(f, body, k)
    <3>1. k \in 0..k
      BY <1>3
    <3> QED
      BY <1>2, <2>1, <3>1, ScansRun
  <2>3. f[e] = Reading(Flat(Split, SubSeq(body, 1, k)))
    BY <2>2 DEF ScansTo, e
  <2> QED
    BY <1>2, <1>4, <1>5, <2>3 DEF v
<1>6. CASE k # 0 /\ body[k] = "rawQuote"
  <2> DEFINE q == k - 1
             out == Flat(Split, SubSeq(body, 1, q))
             b == EndOf(body, q)
  <2>1. q \in Nat /\ q \in 0..k /\ k \in 1..Len(body) /\ q \in 0..Len(body) /\ q \in 0..q
        /\ (\A p \in 1..q : p \in 1..k /\ p # k)
    BY <1>3, <1>6
  <2>2. e = b + 1 /\ b \in Nat
    <3>1. Len(Source["rawQuote"]) = 1
      BY ItemTexts
    <3>2. b \in Nat /\ e = b + Len(Source[body[k]])
      BY <1>3, <2>1, Ends DEF e
    <3> QED
      BY <1>6, <3>1, <3>2
  <2>3. v[e] = "q"
    <3>1. ItemAt(v, 0 + b, body[k])
      BY <1>2, <2>1 DEF Holds
    <3>2. 0 + b = b
      BY <2>2
    <3>3. Shows(v, b, Source[body[k]])
      BY <3>1, <3>2 DEF ItemAt
    <3>4. v[b + 1] = "q"
      BY <1>6, <3>3, SymbolsOf
    <3> QED
      BY <2>2, <3>4
  <2> HIDE DEF q
  <2>4. Open(v, body, q)
    <3>1. ASSUME NEW p \in 1..q, body[p] = "rawQuote" PROVE GoesOn(v, EndOf(body, p))
      <4>1. p \in 1..k /\ p # k
        BY <2>1, <3>1
      <4> QED
        BY <1>2, <1>3, <3>1, <4>1, OpenBefore
    <3> QED
      BY <3>1 DEF Open
  <2>5. Holds(v, 0, body, q)
    BY <1>2, <2>1, HoldsLess
  <2>6. f[b] = Reading(out)
    BY <1>2, <2>1, <2>4, <2>5, ScansRun DEF ScansTo
  <2> HIDE DEF out, b
  <2>7. e \in 1..Len(v) /\ e - 1 = b
    BY <1>3, <1>4, <2>2
  <2>8. Closing(v, e)
    <3>1. Stops(v, e)
      BY <1>4 DEF Stops
    <3> QED
      BY <1>2, <2>7, <3>1, StopsClosing
  <2>9. f[e] = ScanStep(v, f[e - 1], e)
    BY <1>2, <2>7 DEF Scans
  <2>10. f[e] = ScanStep(v, Reading(out), e)
    BY <2>6, <2>7, <2>9
  <2>11. f[e] = Ended(out)
    BY <2>3, <2>8, <2>10, ScanClosing
  <2> QED
    BY <1>2, <1>4, <1>6, <2>11 DEF v, out, q
<1> QED
  BY <1>5, <1>6 DEF v

(* Of one that was cut within an item. *)
LEMMA ScanCutWithin ==
    ASSUME NEW c, NEW j, NEW n, NEW key, NEW o, NEW body, NEW k, NEW g, NEW l,
           CutWithin(c, j, n, key, o, body, k, g, l)
    PROVE  Adds(Scan(Rest(c, o + 1)), Flat(Split, SubSeq(body, 1, k)), l)
<1> DEFINE v == Rest(c, o + 1)
           f == Scanning(v)
           e == EndOf(body, k)
           out == Flat(Split, SubSeq(body, 1, k))
<1>1. Cleaned(c, j, n, key, o, body, k, g) /\ Len(c) = g + l /\ Halved(c, g, l) /\ l \in 1..5
  BY DEF CutWithin
<1>2. /\ v \in Seq(Symbols) /\ Len(v) = Len(c) - o /\ Holds(v, 0, body, k)
      /\ e = g - o /\ Scans(f, v) /\ Scan(v) = f[Len(v)]
      /\ \A i \in 1..(Len(c) - o) : v[i] = c[o + i]
  BY <1>1, ValueOf
<1>3. /\ body \in Seq(Items) /\ k \in 0..Len(body) /\ k \in Nat /\ ~Ambiguous(body)
      /\ Len(body) \in Nat /\ e \in Nat /\ g \in Nat /\ o \in Nat /\ g >= o
  BY <1>1, CleanedTyped
<1>4. Len(v) = e + l /\ l \in Nat
  <2>1. e = g - o /\ Len(v) = Len(c) - o
    BY <1>2
  <2>2. Len(c) = g + l /\ l \in 1..5
    BY <1>1
  <2> QED
    BY <1>3, <2>1, <2>2
<1>5. \A i \in 1..l : v[e + i] = c[g + i]
  <2>1. ASSUME NEW i \in 1..l PROVE v[e + i] = c[g + i]
    <3>1. l \in 1..5
      BY <1>1
    <3>2. Len(c) = g + l /\ e = g - o
      BY <1>1, <1>2
    <3>3. e + i \in 1..(Len(c) - o) /\ o + (e + i) = g + i
      BY <1>3, <3>1, <3>2
    <3> QED
      BY <1>2, <3>3
  <2> QED
    BY <2>1
<1> HIDE DEF f, v, e
<1>6. Halved(v, e, l)
  BY <1>1, <1>3, <1>5, HalvedSame
<1>7. v[e + 1] \in {"r1", "\\"}
  BY <1>1, <1>3, <1>6, HalvedSymbols
<1>8. GoesOn(v, e)
  <2>1. e + 1 <= Len(v)
    <3>1. l \in 1..5
      BY <1>1
    <3> QED
      BY <1>3, <1>4, <3>1
  <2>2. v[e + 1] \notin {"s", "NL", "close", ","}
    BY <1>7
  <2> QED
    BY <2>1, <2>2 DEF GoesOn
<1>9. Open(v, body, k)
  <2>1. ASSUME NEW p \in 1..k, body[p] = "rawQuote" PROVE GoesOn(v, EndOf(body, p))
    <3>1. CASE p = k
      BY <1>8, <3>1 DEF e
    <3>2. CASE p # k
      BY <1>2, <1>3, <2>1, <3>2, OpenBefore
    <3> QED
      BY <3>1, <3>2
  <2> QED
    BY <2>1 DEF Open
<1>10. f[e] = Reading(out)
  <2>1. k \in 0..k
    BY <1>3
  <2>2. ScansTo(f, body, k)
    BY <1>2, <1>9, <2>1, ScansRun
  <2> QED
    BY <2>2 DEF ScansTo, e
<1>11. out \in Seq(Symbols)
  BY <1>3, FlatSplit
<1> HIDE DEF out
<1>12. Adds(f[e + l], out, l)
  <2>1. v \in Seq(Symbols) /\ Scans(f, v) /\ e \in Nat /\ l \in 1..5
    BY <1>1, <1>2, <1>3
  <2>2. Len(v) = e + l
    BY <1>4
  <2> QED
    BY <1>6, <1>10, <1>11, <2>1, <2>2, ScansHalved
<1> QED
  BY <1>2, <1>4, <1>12 DEF v, out

(* And of one that ended. *)
LEMMA ScanThrough ==
    ASSUME NEW c, NEW j, NEW n, NEW key, NEW o, NEW body, NEW k, NEW g,
           Through(c, j, n, key, o, body, k, g)
    PROVE  Scan(Rest(c, o + 1)) = Ended(Flat(Split, SubSeq(body, 1, k)))
<1> DEFINE v == Rest(c, o + 1)
           f == Scanning(v)
           e == EndOf(body, k)
           out == Flat(Split, SubSeq(body, 1, k))
           a == e + 1
<1>1. /\ Cleaned(c, j, n, key, o, body, k, g) /\ c[g + 1] = "q"
      /\ \/ Len(c) = g + 1
         \/ Len(c) = g + 2 /\ c[g + 2] \in {"close", ","}
         \/ Len(c) = g + 3 /\ c[g + 2] \in {"s", ","} /\ c[g + 3] = "close"
  BY DEF Through
<1>2. /\ v \in Seq(Symbols) /\ Len(v) = Len(c) - o /\ Holds(v, 0, body, k)
      /\ e = g - o /\ Scans(f, v) /\ Scan(v) = f[Len(v)]
      /\ \A i \in 1..(Len(c) - o) : v[i] = c[o + i]
  <2>1. Cleaned(c, j, n, key, o, body, k, g)
    BY <1>1
  <2> QED
    BY <2>1, ValueOf
<1>3. /\ body \in Seq(Items) /\ k \in 0..Len(body) /\ k \in Nat /\ ~Ambiguous(body)
      /\ Len(body) \in Nat /\ e \in Nat /\ g \in Nat /\ o \in Nat /\ g >= o
      /\ Len(c) \in Nat
  <2>1. Cleaned(c, j, n, key, o, body, k, g)
    BY <1>1
  <2> QED
    BY <2>1, CleanedTyped
<1>4. Len(c) \in {g + 1, g + 2, g + 3}
  BY <1>1
<1>5. Len(v) \in {e + 1, e + 2, e + 3} /\ \A i \in 1..3 : g + i <= Len(c) => v[e + i] = c[g + i]
  <2>1. e = g - o /\ Len(v) = Len(c) - o
    BY <1>2
  <2>2. Len(v) \in {e + 1, e + 2, e + 3}
    BY <1>3, <1>4, <2>1
  <2>3. ASSUME NEW i \in 1..3, g + i <= Len(c) PROVE v[e + i] = c[g + i]
    <3>1. e + i \in 1..(Len(c) - o) /\ o + (e + i) = g + i
      BY <1>3, <2>1, <2>3
    <3> QED
      BY <1>2, <3>1
  <2> QED
    BY <2>2, <2>3
<1>6. v[a] = "q" /\ a \in 1..Len(v) /\ a - 1 = e /\ a \in 0..Len(v) /\ e + 1 <= Len(v)
  <2>1. 1 \in 1..3 /\ g + 1 <= Len(c)
    BY <1>3, <1>4
  <2>2. v[e + 1] = "q"
    BY <1>1, <1>5, <2>1
  <2>3. Len(v) \in Nat
    BY <1>2
  <2>4. e + 1 \in 1..Len(v) /\ (e + 1) - 1 = e /\ e + 1 \in 0..Len(v)
    BY <1>3, <1>5, <2>3, SMTT(30)
  <2> QED
    BY <2>2, <2>4
<1>7. Stops(v, a)
  <2>1. /\ Len(c) = g + 1 => Len(v) = a
        /\ Len(c) >= g + 2 => a + 1 <= Len(v) /\ v[a + 1] = c[g + 2]
        /\ Len(c) >= g + 3 => a + 2 <= Len(v) /\ v[a + 2] = c[g + 3]
    <3>1. e = g - o /\ Len(v) = Len(c) - o
      BY <1>2
    <3>2. 2 \in 1..3 /\ 3 \in 1..3 /\ a + 1 = e + 2 /\ a + 2 = e + 3
      BY <1>3
    <3> QED
      BY <1>3, <1>5, <3>1, <3>2
  <2>2. CASE Len(c) = g + 1
    BY <2>1, <2>2 DEF Stops
  <2>3. CASE Len(c) = g + 2 /\ c[g + 2] \in {"close", ","}
    <3>1. Len(c) = g + 2
      BY <2>3
    <3>2. Len(c) >= g + 2
      BY <1>3, <3>1
    <3> QED
      BY <2>1, <2>3, <3>2 DEF Stops
  <2>4. CASE Len(c) = g + 3 /\ c[g + 2] \in {"s", ","} /\ c[g + 3] = "close"
    <3>1. Len(c) = g + 3
      BY <2>4
    <3>2. Len(c) >= g + 2 /\ Len(c) >= g + 3
      BY <1>3, <3>1
    <3> QED
      BY <2>1, <2>4, <3>2 DEF Stops
  <2> QED
    BY <1>1, <2>2, <2>3, <2>4
<1> HIDE DEF f, v, e
<1>8. GoesOn(v, e)
  <2>1. v[e + 1] = "q" /\ e + 1 <= Len(v)
    BY <1>6
  <2>2. v[e + 1] \notin {"s", "NL", "close", ","}
    BY <2>1
  <2> QED
    BY <2>1, <2>2 DEF GoesOn
<1>9. Open(v, body, k)
  <2>1. ASSUME NEW p \in 1..k, body[p] = "rawQuote" PROVE GoesOn(v, EndOf(body, p))
    <3>1. CASE p = k
      BY <1>8, <3>1 DEF e
    <3>2. CASE p # k
      BY <1>2, <1>3, <2>1, <3>2, OpenBefore
    <3> QED
      BY <3>1, <3>2
  <2> QED
    BY <2>1 DEF Open
<1>10. f[e] = Reading(out)
  <2>1. k \in 0..k
    BY <1>3
  <2>2. ScansTo(f, body, k)
    BY <1>2, <1>9, <2>1, ScansRun
  <2> QED
    BY <2>2 DEF ScansTo, e
<1> HIDE DEF out, a
<1>11. Closing(v, a)
  BY <1>2, <1>6, <1>7, StopsClosing
<1>12. f[a] = ScanStep(v, Reading(out), a)
  <2>1. f[a] = ScanStep(v, f[a - 1], a)
    BY <1>2, <1>6 DEF Scans
  <2> QED
    BY <1>6, <1>10, <2>1
<1>13. f[a] = Ended(out)
  BY <1>6, <1>11, <1>12, ScanClosing
<1>14. f[Len(v)] = Ended(out)
  BY <1>2, <1>6, <1>13, EndedStays
<1> QED
  BY <1>2, <1>14 DEF v, out

(* A text with an opening in which the keys that are looked for are        *)
(* nowhere else.                                                           *)
Wordless(s) == s \notin {"content", "text"}

Worded(c, j, n, key, o) ==
    /\ Prose(c, j) /\ Begins(c, j, n, key, o) /\ c[Len(c)] \notin White
    /\ \A i \in (o + 1)..Len(c) : Wordless(c[i])

(* The words that are keys scanJSONString looks for, and the symbols that are not. *)
LEMMA WordsAre ==
    /\ Wordless("other") /\ Wordless("s") /\ Wordless("open") /\ Wordless("q") /\ Wordless(":")
    /\ ~Wordless("content") /\ ~Wordless("text")
    /\ \A s \in Textual : Wordless(s)
BY DEF Wordless, Textual

(* A text has one such word at most, at the place of its key. *)
LEMMA WordAt ==
    ASSUME NEW c, NEW j, NEW n, NEW key, NEW o, Worded(c, j, n, key, o),
           NEW i \in 1..Len(c), ~Wordless(c[i])
    PROVE  i = j + 3
<1>1. /\ Len(c) \in Nat /\ j \in Nat /\ n \in {j + 5, j + 6} /\ o \in {n + 1, n + 2}
      /\ o <= Len(c)
  <2>1. Begins(c, j, n, key, o)
    BY DEF Worded
  <2> QED
    BY <2>1 DEF Begins
<1>2. /\ Wordless(c[j + 1]) /\ Wordless(c[j + 2]) /\ Wordless(c[j + 4])
      /\ (n = j + 6 => Wordless(c[j + 5])) /\ Wordless(c[n])
      /\ (o = n + 2 => Wordless(c[n + 1])) /\ Wordless(c[o])
  <2>1. /\ c[j + 1] = "open" /\ c[j + 2] = "q" /\ c[j + 4] = "q"
        /\ (n = j + 6 => c[j + 5] = "s") /\ c[n] = ":" /\ (o = n + 2 => c[n + 1] = "s")
        /\ c[o] = "q"
    BY DEF Worded, Begins
  <2> QED
    BY <2>1, WordsAre
<1>3. j = 0 \/ (j = 2 /\ Wordless(c[1]) /\ Wordless(c[2]))
  <2>1. j = 0 \/ (j = 2 /\ c[1] = "other" /\ c[2] = "s")
    BY DEF Worded, Prose
  <2> QED
    BY <2>1, WordsAre
<1>4. i \notin (o + 1)..Len(c)
  BY DEF Worded
<1>5. i <= o
  BY <1>1, <1>4
<1>6. i <= j \/ i = j + 1 \/ i = j + 2 \/ i = j + 3 \/ i = j + 4 \/ (i = j + 5 /\ n = j + 6)
      \/ i = n \/ (i = n + 1 /\ o = n + 2) \/ i = o
  BY <1>1, <1>5
<1>7. i <= j => j = 2 /\ (i = 1 \/ i = 2)
  BY <1>3
<1>8. ~(i <= j)
  BY <1>3, <1>7
<1> QED
  BY <1>2, <1>6, <1>8

(* Where a word stands in quotes. *)
Quoted(c, word) == {i \in 1..(Len(c) - 2) : SubSeq(c, i, i + 2) = <<"q", word, "q">>}

(* Where a word stands between quotes. *)
LEMMA QuotedIs ==
    ASSUME NEW c \in Seq(Symbols), NEW word, NEW i \in 1..(Len(c) - 2)
    PROVE  i \in Quoted(c, word) <=> c[i] = "q" /\ c[i + 1] = word /\ c[i + 2] = "q"
<1> DEFINE u == SubSeq(c, i, i + 2)
           b == i + 2
<1>1. i \in Nat /\ b \in Nat /\ 1 <= i /\ i <= b + 1 /\ b <= Len(c) /\ b - i + 1 = 3
  OBVIOUS
<1>2. IsPart(u, c, i, b)
  BY <1>1 DEF IsPart
<1> HIDE DEF u
<1>3. u \in Seq(Symbols) /\ Len(u) = 3 /\ u[1] = c[i] /\ u[2] = c[i + 1] /\ u[3] = c[i + 2]
  <2>1. u \in Seq(Symbols) /\ Len(u) = b - i + 1 /\ \A m \in 1..(b - i + 1) : u[m] = c[i + m - 1]
    BY <1>2, PartIs DEF PartBounds
  <2>2. 1 \in 1..(b - i + 1) /\ 2 \in 1..(b - i + 1) /\ 3 \in 1..(b - i + 1)
        /\ i + 1 - 1 = i /\ i + 2 - 1 = i + 1 /\ i + 3 - 1 = i + 2
    BY <1>1
  <2> QED
    BY <1>1, <2>1, <2>2
<1>4. u = <<"q", word, "q">> <=> u[1] = "q" /\ u[2] = word /\ u[3] = "q"
  <2>1. ASSUME u[1] = "q", u[2] = word, u[3] = "q" PROVE u = <<"q", word, "q">>
    <3>1. u = <<u[1], u[2], u[3]>>
      BY <1>3
    <3> QED
      BY <2>1, <3>1
  <2>2. ASSUME u = <<"q", word, "q">> PROVE u[1] = "q" /\ u[2] = word /\ u[3] = "q"
    BY <2>2
  <2> QED
    BY <2>1, <2>2
<1> QED
  BY <1>3, <1>4 DEF Quoted, u

(* What the scan makes of the string's state at the end. *)
Extracted(end) ==
    IF end.mode = "closed" \/ end.out # <<>> THEN Decoded(end.out) ELSE Undecoded

(* A key that is not in the text is not found. *)
LEMMA ScanKeyOther ==
    ASSUME NEW c, NEW j, NEW n, NEW key, NEW o, Worded(c, j, n, key, o),
           NEW word, ~Wordless(word), word # key
    PROVE  ScanKey(c, word) = Undecoded
<1>1. c \in Seq(Symbols) /\ Len(c) \in Nat /\ j \in Nat /\ c[j + 3] = key
  BY DEF Worded, Begins
<1>2. ASSUME NEW i \in Quoted(c, word) PROVE FALSE
  <2>1. i \in 1..(Len(c) - 2)
    BY DEF Quoted
  <2>2. c[i + 1] = word
    BY <1>1, <2>1, QuotedIs
  <2>3. i + 1 \in 1..Len(c)
    BY <1>1, <2>1
  <2> DEFINE a == i + 1
  <2> HIDE DEF a
  <2>4. a = j + 3
    <3>1. a \in 1..Len(c) /\ ~Wordless(c[a])
      BY <2>2, <2>3 DEF a
    <3> QED
      BY <3>1, WordAt
  <2> QED
    BY <1>1, <2>2, <2>4 DEF a
<1>3. Quoted(c, word) = {}
  BY <1>2
<1> QED
  BY <1>3 DEF ScanKey, Quoted

(* The key of the text is found, and its string is read. *)
LEMMA ScanKeyFound ==
    ASSUME NEW c, NEW j, NEW n, NEW key, NEW o, Worded(c, j, n, key, o), ~Wordless(key)
    PROVE  ScanKey(c, key) = Extracted(Scan(Rest(c, o + 1)))
<1> DEFINE l == Len(c)
           after == Rest(c, FirstOf(Quoted(c, key)) + 3)
           colons == {i \in DOMAIN after : after[i] = ":"}
           value == TrimSpace(Rest(after, FirstOf(colons) + 1))
           a == j + 5
           m == n - a + 1
           b == n + 1
<1>1. /\ c \in Seq(Symbols) /\ l \in Nat /\ j \in Nat /\ n \in {j + 5, j + 6} /\ o \in {n + 1, n + 2}
      /\ o <= l
  BY DEF Worded, Begins
<1>2. /\ c[j + 2] = "q" /\ c[j + 3] = key /\ c[j + 4] = "q" /\ (n = j + 6 => c[j + 5] = "s")
      /\ c[n] = ":" /\ (o = n + 2 => c[n + 1] = "s") /\ c[o] = "q" /\ c[l] \notin White
  BY DEF Worded, Begins
<1>3. FirstOf(Quoted(c, key)) = j + 2 /\ Quoted(c, key) # {}
  <2> DEFINE i == j + 2
  <2>1. i \in 1..(Len(c) - 2) /\ i + 1 = j + 3 /\ i + 2 = j + 4
    BY <1>1
  <2>2. c[i] = "q" /\ c[i + 1] = key /\ c[i + 2] = "q"
    BY <1>2, <2>1
  <2> HIDE DEF i
  <2>3. i \in Quoted(c, key)
    BY <1>1, <2>1, <2>2, QuotedIs
  <2>4. ASSUME NEW h \in Quoted(c, key) PROVE i <= h
    <3>1. h \in 1..(Len(c) - 2)
      BY DEF Quoted
    <3>2. c[h + 1] = key
      BY <1>1, <3>1, QuotedIs
    <3> DEFINE d == h + 1
    <3>3. d \in 1..Len(c)
      BY <1>1, <3>1
    <3> HIDE DEF d
    <3>4. d = j + 3
      <4>1. ~Wordless(c[d])
        BY <3>2 DEF d
      <4> QED
        BY <3>3, <4>1, WordAt
    <3> QED
      BY <1>1, <3>1, <3>4 DEF d, i
  <2>5. Quoted(c, key) \subseteq Int
    BY <1>1 DEF Quoted
  <2>6. FirstOf(Quoted(c, key)) = i
    BY <2>3, <2>4, <2>5, FirstIs
  <2> QED
    BY <2>3, <2>6 DEF i
<1>4. /\ a \in Nat /\ 1 <= a /\ a <= l + 1 /\ a <= l /\ a = (j + 2) + 3 /\ m \in {1, 2} /\ m \in Nat
      /\ a + m - 1 = n /\ b \in Nat /\ b = a + (m + 1) - 1 /\ m + 1 \in Nat /\ 1 <= m + 1
      /\ m <= l - a + 1 /\ m + 1 <= l - a + 2
      /\ b <= l /\ n <= l
  BY <1>1
<1>5. IsPart(after, c, a, l)
  <2>1. after = Rest(c, a)
    BY <1>3, <1>4
  <2> QED
    <3> HIDE DEF after
    <3>1. IsPart(Rest(c, a), c, a, l)
      BY <1>1, <1>4 DEF IsPart, Rest
    <3> QED
      BY <2>1, <3>1
<1> HIDE DEF after
<1>6. /\ after \in Seq(Symbols) /\ Len(after) = l - a + 1
      /\ \A i \in 1..(l - a + 1) : after[i] = c[a + i - 1]
  BY <1>5, PartIs DEF PartBounds
<1>7. FirstOf(colons) = m /\ colons # {}
  <2>1. DOMAIN after = 1..(l - a + 1)
    BY <1>6
  <2>2. m \in 1..(l - a + 1)
    BY <1>1, <1>4
  <2>3. after[m] = ":"
    <3>1. after[m] = c[a + m - 1]
      BY <1>6, <2>2
    <3> QED
      BY <1>2, <1>4, <3>1
  <2>4. m = 2 => after[1] # ":"
    <3>1. ASSUME m = 2 PROVE n = j + 6 /\ 1 \in 1..(l - a + 1) /\ a + 1 - 1 = j + 5
      BY <1>1, <1>4, <2>2, <3>1
    <3>2. ASSUME m = 2 PROVE after[1] = c[j + 5] /\ c[j + 5] = "s"
      <4>1. after[1] = c[a + 1 - 1]
        BY <1>6, <3>1, <3>2
      <4> QED
        BY <1>2, <3>1, <3>2, <4>1
    <3> QED
      BY <3>2
  <2> HIDE DEF m
  <2>5. m \in colons
    BY <2>1, <2>2, <2>3
  <2>6. ASSUME NEW i \in colons PROVE m <= i
    <3>1. i \in 1..(l - a + 1) /\ after[i] = ":"
      BY <2>1
    <3>2. i # 1 \/ m # 2
      BY <2>4, <3>1
    <3>3. i \in Int /\ i >= 1
      BY <3>1
    <3> QED
      BY <1>4, <3>2, <3>3
  <2>7. colons \subseteq Int
    BY <2>1
  <2> HIDE DEF colons
  <2>8. FirstOf(colons) = m
    BY <2>5, <2>6, <2>7, FirstIs
  <2> QED
    BY <2>5, <2>8
<1>8. IsPart(Rest(after, m + 1), c, b, l)
  <2>1. IsPart(Rest(after, m + 1), c, a + (m + 1) - 1, l)
    <3> DEFINE h == m + 1
    <3>1. h \in Nat /\ 1 <= h /\ h <= l - a + 2
      BY <1>4
    <3> HIDE DEF h
    <3>2. IsPart(Rest(after, h), c, a + h - 1, l)
      BY <1>5, <3>1, RestOfPart
    <3> QED
      BY <3>2 DEF h
  <2> QED
    BY <1>4, <2>1
<1>9. IsPart(value, c, o, l)
  <2>1. value = TrimSpace(Rest(after, m + 1))
    BY <1>7
  <2> HIDE DEF value, b
  <2>2. o \in b..l /\ c[o] \notin White
    <3>1. c[o] \notin White
      BY <1>2 DEF White
    <3> QED
      BY <1>1, <3>1 DEF b
  <2>3. \A i \in b..(o - 1) : c[i] \in White
    <3>1. ASSUME NEW i \in b..(o - 1) PROVE i = n + 1 /\ o = n + 2
      BY <1>1 DEF b
    <3>2. "s" \in White
      BY DEF White
    <3> QED
      BY <1>2, <3>1, <3>2
  <2>4. l \in o..l /\ c[l] \notin White
    BY <1>1, <1>2
  <2>5. \A i \in (l + 1)..l : c[i] \in White
    <3>1. ASSUME NEW i \in (l + 1)..l PROVE FALSE
      BY <1>1
    <3> QED
      BY <3>1
  <2>6. IsPart(TrimSpace(Rest(after, m + 1)), c, o, l)
    <3> DEFINE u == Rest(after, m + 1)
    <3> HIDE DEF u, l, m
    <3>1. IsPart(u, c, b, l)
      BY <1>8 DEF u
    <3>2. IsPart(TrimSpace(u), c, o, l)
      BY <2>2, <2>3, <2>4, <2>5, <3>1, TrimSpaceIs
    <3> QED
      BY <3>2 DEF u
  <2> QED
    BY <2>1, <2>6
<1> HIDE DEF value
<1>10. value \in Seq(Symbols) /\ Len(value) = l - o + 1 /\ value[1] = c[o] /\ value # <<>>
  <2>1. /\ value \in Seq(Symbols) /\ Len(value) = l - o + 1
        /\ \A i \in 1..(l - o + 1) : value[i] = c[o + i - 1]
    BY <1>9, PartIs DEF PartBounds
  <2>2. 1 \in 1..(l - o + 1) /\ o + 1 - 1 = o /\ l - o + 1 # 0
    BY <1>1
  <2>3. value[1] = c[o]
    BY <2>1, <2>2
  <2>4. value # <<>>
    BY <2>1, <2>2
  <2> QED
    BY <2>1, <2>3, <2>4
<1>11. StartsWith(value, "q")
  BY <1>2, <1>10 DEF StartsWith
<1>12. Tail(value) = Rest(c, o + 1)
  <2>1. o <= l
    BY <1>1
  <2> HIDE DEF l
  <2>2. IsPart(Tail(value), c, o + 1, l)
    BY <1>9, <2>1, TailOfPart
  <2>3. Tail(value) = SubSeq(c, o + 1, l)
    BY <2>2 DEF IsPart
  <2> QED
    BY <2>3 DEF Rest, l
<1>13. ScanKey(c, key)
         = IF Quoted(c, key) = {} \/ colons = {} THEN Undecoded
           ELSE IF ~StartsWith(value, "q") THEN Undecoded
           ELSE IF Scan(Tail(value)).mode = "closed" \/ Scan(Tail(value)).out # <<>>
                THEN Decoded(Scan(Tail(value)).out)
           ELSE Undecoded
  BY DEF ScanKey, Quoted, after, value
<1> QED
  BY <1>3, <1>7, <1>11, <1>12, <1>13 DEF Extracted

(* scanAndExtractContent reads the string of content, else that of text. *)
LEMMA ScanWorded ==
    ASSUME NEW c, NEW j, NEW n, NEW key, NEW o, Worded(c, j, n, key, o)
    PROVE  ScanAndExtractContent(c)
             = IF key = "other" THEN Undecoded ELSE Extracted(Scan(Rest(c, o + 1)))
<1>1. key \in {"content", "text", "other"}
  BY DEF Worded, Begins
<1>2. ~Wordless("content") /\ ~Wordless("text")
  BY WordsAre
<1>3. ~Undecoded.ok /\ \A x : OrElse(Undecoded, x) = x
  BY DEF Undecoded, OrElse
<1>4. CASE key = "content"
  <2>1. ScanKey(c, "content") = Extracted(Scan(Rest(c, o + 1)))
    BY <1>2, <1>4, ScanKeyFound
  <2>2. ScanKey(c, "text") = Undecoded
    BY <1>2, <1>4, ScanKeyOther
  <2>3. OrElse(Extracted(Scan(Rest(c, o + 1))), Undecoded) = Extracted(Scan(Rest(c, o + 1)))
    BY DEF OrElse, Extracted, Decoded, Undecoded
  <2> QED
    BY <1>4, <2>1, <2>2, <2>3 DEF ScanAndExtractContent
<1>5. CASE key = "text"
  <2>1. ScanKey(c, "text") = Extracted(Scan(Rest(c, o + 1)))
    BY <1>2, <1>5, ScanKeyFound
  <2>2. ScanKey(c, "content") = Undecoded
    BY <1>2, <1>5, ScanKeyOther
  <2> QED
    BY <1>3, <1>5, <2>1, <2>2 DEF ScanAndExtractContent
<1>6. CASE key = "other"
  <2>1. ScanKey(c, "content") = Undecoded /\ ScanKey(c, "text") = Undecoded
    BY <1>2, <1>6, ScanKeyOther
  <2> QED
    BY <1>3, <1>6, <2>1 DEF ScanAndExtractContent
<1> QED
  BY <1>1, <1>4, <1>5, <1>6

(* The items of a string, and then no keyword either. *)
LEMMA CleanedWorded ==
    ASSUME NEW c, NEW j, NEW n, NEW key, NEW o, NEW body, NEW k, NEW g,
           Cleaned(c, j, n, key, o, body, k, g), c[Len(c)] \notin White,
           \A i \in (g + 1)..Len(c) : Wordless(c[i])
    PROVE  Worded(c, j, n, key, o)
<1>1. /\ Begins(c, j, n, key, o) /\ Holds(c, o, body, k) /\ g = o + EndOf(body, k)
      /\ o \in Nat /\ g \in Nat /\ Len(c) \in Nat
  BY CleanedTyped
<1>2. Prose(c, j)
  BY DEF Cleaned
<1>3. ASSUME NEW i \in (o + 1)..Len(c) PROVE Wordless(c[i])
  <2>1. CASE i > g
    <3>1. i \in (g + 1)..Len(c)
      BY <1>1, <2>1
    <3> QED
      BY <3>1
  <2>2. CASE ~(i > g)
    <3>1. i \in (o + 1)..(o + EndOf(body, k))
      BY <1>1, <2>2
    <3>2. c[i] \in Textual
      BY <1>1, <3>1, HeldSymbol DEF FitsIn
    <3> QED
      BY <3>2, WordsAre
  <2> QED
    BY <2>1, <2>2
<1> QED
  BY <1>1, <1>2, <1>3 DEF Worded

(* Every form of a cleaned text has one key at most. *)
LEMMA FormsWorded ==
    ASSUME NEW c, NEW j, NEW n, NEW key, NEW o, NEW body, NEW k, NEW g
    PROVE  /\ CutAfter(c, j, n, key, o, body, k, g) => Worded(c, j, n, key, o)
           /\ \A l : CutWithin(c, j, n, key, o, body, k, g, l) => Worded(c, j, n, key, o)
           /\ Through(c, j, n, key, o, body, k, g) => Worded(c, j, n, key, o)
<1>1. ASSUME CutAfter(c, j, n, key, o, body, k, g) PROVE Worded(c, j, n, key, o)
  <2>1. Cleaned(c, j, n, key, o, body, k, g) /\ Len(c) = g /\ c[Len(c)] \notin White
    BY <1>1 DEF CutAfter
  <2>2. g \in Nat
    BY <2>1, CleanedTyped
  <2>3. ASSUME NEW i \in (g + 1)..Len(c) PROVE FALSE
    BY <2>1, <2>2
  <2> QED
    BY <2>1, <2>3, CleanedWorded
<1>2. ASSUME NEW l, CutWithin(c, j, n, key, o, body, k, g, l) PROVE Worded(c, j, n, key, o)
  <2>1. /\ Cleaned(c, j, n, key, o, body, k, g) /\ Len(c) = g + l /\ l \in 1..5
        /\ Halved(c, g, l)
    BY <1>2 DEF CutWithin
  <2>2. g \in Nat
    BY <2>1, CleanedTyped
  <2>3. \A s \in {"r1", "\\", "u", "H"} : Wordless(s) /\ s \notin White
    BY DEF Wordless, White
  <2>4. /\ c[g + l] \in {"r1", "\\", "u", "H"}
        /\ \A i \in 1..l : c[g + i] \in {"r1", "\\", "u", "H"}
    BY <2>1, <2>2, HalvedSymbols
  <2>5. c[Len(c)] \notin White
    BY <2>1, <2>3, <2>4
  <2>6. ASSUME NEW i \in (g + 1)..Len(c) PROVE Wordless(c[i])
    <3> DEFINE d == i - g
    <3>1. d \in 1..l /\ g + d = i
      <4>1. Len(c) = g + l /\ l \in 1..5
        BY <2>1
      <4> QED
        BY <2>2, <4>1
    <3> HIDE DEF d
    <3>2. c[g + d] \in {"r1", "\\", "u", "H"}
      BY <2>4, <3>1
    <3> QED
      BY <2>3, <3>1, <3>2
  <2> QED
    BY <2>1, <2>5, <2>6, CleanedWorded
<1>3. ASSUME Through(c, j, n, key, o, body, k, g) PROVE Worded(c, j, n, key, o)
  <2>1. /\ Cleaned(c, j, n, key, o, body, k, g) /\ c[g + 1] = "q"
        /\ \/ Len(c) = g + 1
           \/ Len(c) = g + 2 /\ c[g + 2] \in {"close", ","}
           \/ Len(c) = g + 3 /\ c[g + 2] \in {"s", ","} /\ c[g + 3] = "close"
    BY <1>3 DEF Through
  <2>2. g \in Nat /\ Len(c) \in Nat
    <3>1. Cleaned(c, j, n, key, o, body, k, g)
      BY <2>1
    <3> QED
      BY <3>1, CleanedTyped
  <2>3. \A s \in {"q", "close", ",", "s"} : Wordless(s)
    BY DEF Wordless
  <2>4. "q" \notin White /\ "close" \notin White /\ "," \notin White
    BY DEF White
  <2>5. c[Len(c)] \notin White
    BY <2>1, <2>4
  <2>6. Wordless(c[g + 1]) /\ (Len(c) # g + 1 => Wordless(c[g + 2]))
        /\ (Len(c) = g + 3 => Wordless(c[g + 3]))
    <3>1. CASE Len(c) = g + 1
      <4>1. Len(c) # g + 3
        BY <2>2, <3>1
      <4> QED
        BY <2>1, <2>3, <3>1, <4>1
    <3>2. CASE Len(c) = g + 2 /\ c[g + 2] \in {"close", ","}
      <4>2. Len(c) = g + 2
        BY <3>2
      <4>1. Len(c) # g + 3
        BY <2>2, <4>2
      <4> QED
        BY <2>1, <2>3, <3>2, <4>1
    <3>3. CASE Len(c) = g + 3 /\ c[g + 2] \in {"s", ","} /\ c[g + 3] = "close"
      BY <2>1, <2>3, <3>3
    <3> QED
      BY <2>1, <3>1, <3>2, <3>3
  <2>7. Len(c) \in {g + 1, g + 2, g + 3}
    BY <2>1
  <2>8. ASSUME NEW i \in (g + 1)..Len(c) PROVE Wordless(c[i])
    <3>1. i = g + 1 \/ (i = g + 2 /\ Len(c) # g + 1) \/ (i = g + 3 /\ Len(c) = g + 3)
      BY <2>2, <2>7
    <3> QED
      BY <2>6, <3>1
  <2>9. Cleaned(c, j, n, key, o, body, k, g)
    BY <2>1
  <2> QED
    BY <2>5, <2>8, <2>9, CleanedWorded
<1> QED
  BY <1>1, <1>2, <1>3

(* The first q items in the meaning m, and at most l symbols more. *)
Gives(r, m, body, q, l) ==
    \E x \in Seq(Symbols) : Len(x) <= l /\ r = Decoded(Flat(m, SubSeq(body, 1, q)) \o x)

(* An answer that is exactly what the items mean. *)
LEMMA ExactAnswer ==
    ASSUME NEW r, NEW m, NEW body, NEW q, Flat(m, SubSeq(body, 1, q)) \in Seq(Symbols),
           r = Decoded(Flat(m, SubSeq(body, 1, q)))
    PROVE  Gives(r, m, body, q, 0)
<1> DEFINE t == Flat(m, SubSeq(body, 1, q))
<1>1. <<>> \in Seq(Symbols) /\ Len(<<>>) <= 0
  OBVIOUS
<1> HIDE DEF t
<1>2. t \o <<>> = t
  BY DEF t
<1>3. r = Decoded(t \o <<>>)
  BY <1>2 DEF t
<1> QED
  BY <1>1, <1>3 DEF Gives, t

(* The meaning that a stage used. *)
Told(r, key, body, k, q, l) ==
    \/ Gives(r, Meaning, body, q, l)
    \/ Gives(r, Split, body, q, l) /\ (key # "content" \/ ~Quoteless(body, k))

(* What comes of a text that was cut after an item. *)
AnswerAfter(r, key, body, k) ==
    /\ \/ r = Undecoded
       \/ \E q \in 0..k : (q = k \/ (q + 1 = k /\ body[k] = "rawQuote")) /\ Told(r, key, body, k, q, 0)
    /\ key = "other" => r = Undecoded
    /\ key # "other" /\ k # 0 => r.ok

(* The two outcomes of a stage, and what the next stage is asked. *)
LEMMA Outcomes ==
    /\ ~Undecoded.ok
    /\ \A x : Decoded(x).ok /\ Decoded(x).content = x
    /\ \A x : OrElse(Undecoded, x) = x
    /\ \A x, y : OrElse(Decoded(x), y) = Decoded(x)
BY DEF Undecoded, Decoded, OrElse

(* All stages together, for a text cut behind an item: the items before the cut. *)
LEMMA RepairedAfter ==
    ASSUME NEW c, NEW j, NEW n, NEW key, NEW o, NEW body, NEW k, NEW g,
           CutAfter(c, j, n, key, o, body, k, g)
    PROVE  AnswerAfter(RepairCleaned(c), key, body, k)
<1> DEFINE u == Unmarshal(AttemptStructuralRepair(c))
           s == ScanAndExtractContent(c)
           r == RepairCleaned(c)
           end == Scan(Rest(c, o + 1))
           mean == Flat(Meaning, SubSeq(body, 1, k))
           split == Flat(Split, SubSeq(body, 1, k))
<1>1. /\ body \in Seq(Items) /\ k \in 0..Len(body) /\ k \in Nat /\ Len(body) \in Nat
      /\ key \in {"content", "text", "other"}
  <2>1. Cleaned(c, j, n, key, o, body, k, g)
    BY DEF CutAfter
  <2> QED
    BY <2>1, CleanedTyped
<1>2. r = OrElse(u, s)
  <2>1. Unmarshal(c) = Undecoded
    BY CutAfterUndecoded
  <2> QED
    BY <2>1, Outcomes DEF RepairCleaned
<1>3. CutAfterFound(u, key, body, k)
  BY RepairedCleaned
<1>4. s = IF key = "other" THEN Undecoded ELSE Extracted(end)
  BY FormsWorded, ScanWorded
<1>5. /\ k = 0 \/ body[k] # "rawQuote" => end = Reading(split)
      /\ k # 0 /\ body[k] = "rawQuote" => end = Ended(Flat(Split, SubSeq(body, 1, k - 1)))
  BY ScanCutAfter
<1>6. /\ mean \in Seq(Symbols) /\ split \in Seq(Symbols) /\ (k = 0 <=> split = <<>>)
      /\ k # 0 => /\ k - 1 \in 0..k /\ (k - 1) + 1 = k
                  /\ Flat(Meaning, SubSeq(body, 1, k - 1)) \in Seq(Symbols)
                  /\ Flat(Split, SubSeq(body, 1, k - 1)) \in Seq(Symbols)
      /\ k \in 0..k
  <2>1. k # 0 => k \in 1..Len(body) /\ k - 1 \in 0..Len(body) /\ k - 1 \in 0..k /\ (k - 1) + 1 = k
    BY <1>1
  <2>2. k \in 0..k
    BY <1>1
  <2> QED
    BY <1>1, <2>1, <2>2, FlatSplit, FlatMeaning
<1> HIDE DEF u, s, r, end
<1>7. CASE u = Decoded(mean)
  <2>1. r = Decoded(mean)
    BY <1>2, <1>7, Outcomes
  <2>2. Gives(r, Meaning, body, k, 0)
    BY <1>6, <2>1, ExactAnswer
  <2>3. key # "other"
    <3>1. u # Undecoded
      BY <1>7, Outcomes
    <3> QED
      BY <1>3, <3>1 DEF CutAfterFound
  <2> QED
    BY <1>6, <2>1, <2>2, <2>3, Outcomes DEF AnswerAfter, Told, r
<1>8. CASE /\ k # 0 /\ body[k] = "rawQuote" /\ key = "content"
           /\ u = Decoded(Flat(Meaning, SubSeq(body, 1, k - 1)))
  <2> DEFINE q == k - 1
  <2>1. r = Decoded(Flat(Meaning, SubSeq(body, 1, q)))
    BY <1>2, <1>8, Outcomes
  <2>2. q \in 0..k /\ q + 1 = k /\ Flat(Meaning, SubSeq(body, 1, q)) \in Seq(Symbols)
    BY <1>6, <1>8
  <2> HIDE DEF q
  <2>3. Gives(r, Meaning, body, q, 0)
    BY <2>1, <2>2, ExactAnswer
  <2>4. Told(r, key, body, k, q, 0) /\ r.ok
    BY <2>1, <2>3, Outcomes DEF Told
  <2> QED
    BY <1>8, <2>2, <2>4 DEF AnswerAfter, r
<1>9. CASE u = Undecoded
  <2>1. r = s
    BY <1>2, <1>9, Outcomes
  <2>2. key = "content" => ~Quoteless(body, k)
    <3>1. \A x : Decoded(x) # Undecoded
      BY Outcomes
    <3> QED
      BY <1>3, <1>9, <3>1 DEF CutAfterFound
  <2>3. CASE key = "other"
    BY <1>4, <2>1, <2>3 DEF AnswerAfter, r
  <2>4. CASE key # "other" /\ (k = 0 \/ body[k] # "rawQuote")
    <3>1. s = IF split = <<>> THEN Undecoded ELSE Decoded(split)
      BY <1>4, <1>5, <2>4 DEF Extracted, Reading
    <3>2. CASE k = 0
      BY <1>6, <2>1, <2>4, <3>1, <3>2 DEF AnswerAfter, r
    <3>3. CASE k # 0
      <4>1. r = Decoded(split)
        BY <1>6, <2>1, <3>1, <3>3
      <4>2. Gives(r, Split, body, k, 0)
        BY <1>6, <4>1, ExactAnswer
      <4>3. Told(r, key, body, k, k, 0) /\ r.ok
        BY <2>2, <4>1, <4>2, Outcomes DEF Told
      <4> QED
        BY <1>6, <2>4, <4>3 DEF AnswerAfter, r
    <3> QED
      BY <3>2, <3>3
  <2>5. CASE key # "other" /\ k # 0 /\ body[k] = "rawQuote"
    <3> DEFINE q == k - 1
               out == Flat(Split, SubSeq(body, 1, q))
    <3>1. q \in 0..k /\ q + 1 = k /\ out \in Seq(Symbols)
      BY <1>6, <2>5
    <3>2. end = Ended(out)
      BY <1>5, <2>5
    <3>3. s = Decoded(out)
      <4> HIDE DEF out
      <4> QED
        BY <1>4, <2>5, <3>2 DEF Extracted, Ended
    <3> HIDE DEF q
    <3>4. Gives(r, Split, body, q, 0)
      BY <2>1, <3>1, <3>3, ExactAnswer
    <3>5. Told(r, key, body, k, q, 0) /\ r.ok
      BY <2>1, <2>2, <3>3, <3>4, Outcomes DEF Told
    <3> QED
      BY <2>5, <3>1, <3>5 DEF AnswerAfter, r
  <2> QED
    BY <2>3, <2>4, <2>5
<1> QED
  BY <1>3, <1>7, <1>8, <1>9 DEF CutAfterFound

-----------------------------------------------------------------------------
(* Of one that was cut within an item. *)
AnswerWithin(r, key, body, k, l) ==
    /\ r = Undecoded \/ Gives(r, Meaning, body, k, l) \/ Gives(r, Split, body, k, l)
    /\ key = "other" => r = Undecoded
    /\ key # "other" /\ k # 0 => r.ok

(* All stages together, for a text cut in an item: the items before it, and its pieces. *)
LEMMA RepairedWithin ==
    ASSUME NEW c, NEW j, NEW n, NEW key, NEW o, NEW body, NEW k, NEW g, NEW l,
           CutWithin(c, j, n, key, o, body, k, g, l)
    PROVE  AnswerWithin(RepairCleaned(c), key, body, k, l)
<1> DEFINE u == Unmarshal(AttemptStructuralRepair(c))
           s == ScanAndExtractContent(c)
           r == RepairCleaned(c)
           end == Scan(Rest(c, o + 1))
           mean == Flat(Meaning, SubSeq(body, 1, k))
           split == Flat(Split, SubSeq(body, 1, k))
<1>1. /\ body \in Seq(Items) /\ k \in 0..Len(body) /\ k \in Nat /\ Len(body) \in Nat
      /\ key \in {"content", "text", "other"} /\ l \in 1..5
  <2>1. Cleaned(c, j, n, key, o, body, k, g) /\ l \in 1..5
    BY DEF CutWithin
  <2> QED
    BY <2>1, CleanedTyped
<1>2. r = OrElse(u, s)
  <2>1. Unmarshal(c) = Undecoded
    BY CutWithinUndecoded
  <2> QED
    BY <2>1, Outcomes DEF RepairCleaned
<1>3. CutWithinFound(u, key, body, k)
  BY RepairedCleaned
<1>4. s = IF key = "other" THEN Undecoded ELSE Extracted(end)
  BY FormsWorded, ScanWorded
<1>5. Adds(end, split, l)
  BY ScanCutWithin
<1>6. /\ mean \in Seq(Symbols) /\ split \in Seq(Symbols) /\ (k # 0 => split # <<>>)
  <2>1. k # 0 => k \in 1..Len(body)
    BY <1>1
  <2> QED
    BY <1>1, <2>1, FlatSplit, FlatMeaning
<1> HIDE DEF u, s, r, end
<1>7. CASE key = "content" /\ u = Decoded(Append(mean, "U+FFFD"))
  <2> DEFINE x == <<"U+FFFD">>
  <2>1. Append(mean, "U+FFFD") = mean \o x /\ x \in Seq(Symbols) /\ Len(x) <= l
    <3> HIDE DEF mean
    <3>1. "U+FFFD" \in Symbols
      BY SymbolsTyped
    <3>2. Append(mean, "U+FFFD") = mean \o x
      BY <1>6, <3>1, AppendOne
    <3>3. x \in Seq(Symbols) /\ Len(x) = 1
      BY <3>1, OneIsSeq
    <3>4. 1 <= l
      BY <1>1
    <3> QED
      BY <3>2, <3>3, <3>4
  <2> HIDE DEF x
  <2>2. r = Decoded(mean \o x)
    BY <1>2, <1>7, <2>1, Outcomes
  <2>3. Gives(r, Meaning, body, k, l)
    BY <2>1, <2>2 DEF Gives
  <2>4. r.ok /\ key # "other"
    BY <1>7, <2>2, Outcomes
  <2> QED
    BY <2>3, <2>4 DEF AnswerWithin, r
<1>8. CASE u = Undecoded
  <2>1. r = s
    BY <1>2, <1>8, Outcomes
  <2>2. CASE key = "other"
    BY <1>4, <2>1, <2>2 DEF AnswerWithin, r
  <2>3. CASE key # "other"
    <3>1. PICK x \in Seq(Symbols) : Len(x) <= l /\ end.out = split \o x /\ end.mode # "closed"
      BY <1>5 DEF Adds
    <3>2. s = IF split \o x = <<>> THEN Undecoded ELSE Decoded(split \o x)
      BY <1>4, <2>3, <3>1 DEF Extracted
    <3>3. Gives(Decoded(split \o x), Split, body, k, l)
      BY <3>1 DEF Gives
    <3>4. k # 0 => split \o x # <<>>
      <4> HIDE DEF split
      <4>1. split # <<>> => split \o x # <<>>
        BY <1>6
      <4> QED
        BY <1>6, <4>1
    <3> QED
      BY <2>1, <2>3, <3>2, <3>3, <3>4, Outcomes DEF AnswerWithin, r
  <2> QED
    BY <2>2, <2>3
<1> QED
  BY <1>3, <1>7, <1>8 DEF CutWithinFound

-----------------------------------------------------------------------------
(* And of one that ended. *)
AnswerThrough(r, c, key, body, k, g) ==
    /\ \/ r = Undecoded
       \/ Told(r, key, body, k, k, 0)
       \/ Gives(r, Split, body, k, 0) /\ Len(c) = g + 3 /\ c[g + 2] = ","
    /\ key = "other" => r = Undecoded
    /\ key # "other" => r.ok

(* All stages together, for a text with all of its body. *)
LEMMA RepairedThrough ==
    ASSUME NEW c, NEW j, NEW n, NEW key, NEW o, NEW body, NEW k, NEW g,
           Through(c, j, n, key, o, body, k, g)
    PROVE  AnswerThrough(RepairCleaned(c), c, key, body, k, g)
<1> DEFINE t == Unmarshal(c)
           u == Unmarshal(AttemptStructuralRepair(c))
           s == ScanAndExtractContent(c)
           r == RepairCleaned(c)
           end == Scan(Rest(c, o + 1))
           mean == Flat(Meaning, SubSeq(body, 1, k))
           split == Flat(Split, SubSeq(body, 1, k))
<1>1. /\ body \in Seq(Items) /\ k \in 0..Len(body) /\ key \in {"content", "text", "other"}
  <2>1. Cleaned(c, j, n, key, o, body, k, g)
    BY DEF Through
  <2> QED
    BY <2>1, CleanedTyped
<1>2. r = OrElse(t, OrElse(u, s))
  BY DEF RepairCleaned
<1>3. t = Undecoded \/ (key = "content" /\ t = Decoded(mean))
  BY ThroughUnmarshal
<1>4. ThroughFound(u, c, key, body, k, g)
  BY RepairedCleaned
<1>5. s = IF key = "other" THEN Undecoded ELSE Extracted(end)
  BY FormsWorded, ScanWorded
<1>6. end = Ended(split)
  BY ScanThrough
<1>7. mean \in Seq(Symbols) /\ split \in Seq(Symbols)
  BY <1>1, FlatSplit, FlatMeaning
<1> HIDE DEF t, u, s, r, end
<1>8. CASE key = "content" /\ (t = Decoded(mean) \/ (t = Undecoded /\ u = Decoded(mean)))
  <2>1. r = Decoded(mean)
    BY <1>2, <1>8, Outcomes
  <2>2. Gives(r, Meaning, body, k, 0)
    BY <1>7, <2>1, ExactAnswer
  <2>3. r.ok /\ key # "other"
    BY <1>8, <2>1, Outcomes
  <2> QED
    BY <2>2, <2>3 DEF AnswerThrough, Told, r
<1>9. CASE t = Undecoded /\ u = Undecoded
  <2>1. r = s
    BY <1>2, <1>9, Outcomes
  <2>2. CASE key = "other"
    BY <1>5, <2>1, <2>2 DEF AnswerThrough, r
  <2>3. CASE key # "other"
    <3>1. r = Decoded(split)
      <4>1. s = Decoded(split)
        <5> HIDE DEF split
        <5> QED
          BY <1>5, <1>6, <2>3 DEF Extracted, Ended
      <4> QED
        BY <2>1, <4>1
    <3>2. Gives(r, Split, body, k, 0) /\ r.ok
      BY <1>7, <3>1, ExactAnswer, Outcomes
    <3>3. \/ key # "content" \/ ~Quoteless(body, k)
          \/ Len(c) = g + 3 /\ c[g + 2] = ","
      <4>1. \A x : Decoded(x) # Undecoded
        BY Outcomes
      <4> QED
        BY <1>4, <1>9, <4>1 DEF ThroughFound
    <3> QED
      BY <2>3, <3>2, <3>3 DEF AnswerThrough, Told, r
  <2> QED
    BY <2>2, <2>3
<1> QED
  BY <1>3, <1>4, <1>8, <1>9 DEF ThroughFound

(* A text without a brace, and the beginning of an opening: its first p    *)
(* symbols.                                                                *)
Braceless(c) == c \in Seq(Symbols) /\ Valueless(c) /\ \A i \in 1..Len(c) : c[i] # "open"

Begun(c, j, n, key, o, p) ==
    /\ c \in Seq(Symbols) /\ Prose(c, j) /\ Len(c) = j + p /\ p \in 1..(o - 1)
    /\ Starts(Rest(c, j + 1), n, key, o, p)

(* It has no value. *)
LEMMA StartsValueless ==
    ASSUME NEW d, NEW n, NEW key, NEW o, NEW p, Starts(d, n, key, o, p), p < o, Len(d) = p
    PROVE  Valueless(d)
<1>1. /\ d \in Seq(Symbols) /\ n \in {5, 6} /\ o \in {n + 1, n + 2} /\ p \in 0..o
      /\ key # ":"
      /\ (p >= 1 => d[1] = "open") /\ (p >= 2 => d[2] = "q") /\ (p >= 3 => d[3] = key)
      /\ (p >= 4 => d[4] = "q") /\ (p >= 5 /\ n = 6 => d[5] = "s")
      /\ (p >= n + 1 /\ o = n + 2 => d[n + 1] = "s")
  BY DEF Starts
<1>2. ASSUME NEW i \in 1..Len(d), NEW h \in 1..Len(d), i < h, d[i] = ":", d[h] = "q" PROVE FALSE
  <2>1. n \in {5, 6} /\ o \in {n + 1, n + 2} /\ p \in 0..o
    BY <1>1
  <2>2. i \in 1..p /\ h \in 1..p /\ p < o
    BY <1>2
  <2>3. i # 1 /\ i # 2 /\ i # 3 /\ i # 4 /\ (n = 6 => i # 5)
    <3>1. (i = 1 => p >= 1) /\ (i = 2 => p >= 2) /\ (i = 3 => p >= 3) /\ (i = 4 => p >= 4)
          /\ (i = 5 => p >= 5)
      BY <2>1, <2>2
    <3> QED
      BY <1>1, <1>2, <3>1
  <2>4. h = n + 1 /\ o = n + 2 /\ p >= n + 1
    BY <2>1, <2>2, <2>3, <1>2
  <2> QED
    BY <1>1, <1>2, <2>4
<1> QED
  BY <1>2 DEF Valueless

(* A text that ends within its opening. *)
LEMMA BegunTyped ==
    ASSUME NEW c, NEW j, NEW n, NEW key, NEW o, NEW p, Begun(c, j, n, key, o, p)
    PROVE  /\ c \in Seq(Symbols) /\ Len(c) = j + p /\ j \in {0, 2} /\ p \in Nat /\ p # 0 /\ p < o
           /\ n \in {5, 6} /\ o \in Nat
           /\ \A i \in 1..j : c[i] # "open" /\ c[i] # ":"
           /\ Rest(c, j + 1) \in Seq(Symbols) /\ Len(Rest(c, j + 1)) = p
           /\ \A i \in 1..p : Rest(c, j + 1)[i] = c[j + i]
           /\ Starts(Rest(c, j + 1), n, key, o, p)
<1>1. /\ c \in Seq(Symbols) /\ Prose(c, j) /\ Len(c) = j + p /\ p \in 1..(o - 1)
      /\ Starts(Rest(c, j + 1), n, key, o, p)
  BY DEF Begun
<1>2. j = 0 \/ (j = 2 /\ c[1] = "other" /\ c[2] = "s")
  BY <1>1 DEF Prose
<1>3. n \in {5, 6} /\ o \in {n + 1, n + 2}
  BY <1>1 DEF Starts
<1>4. j \in {0, 2} /\ p \in Nat /\ p # 0 /\ p < o /\ o \in Nat
  <2>1. j \in {0, 2}
    BY <1>2
  <2>2. p \in 1..(o - 1)
    BY <1>1
  <2> QED
    BY <1>3, <2>1, <2>2
<1>5. \A i \in 1..j : c[i] # "open" /\ c[i] # ":"
  <2>1. ASSUME NEW i \in 1..j PROVE j = 2 /\ i \in {1, 2}
    BY <1>4
  <2> QED
    BY <1>2, <2>1
<1> DEFINE d == Rest(c, j + 1)
           a == j + 1
           l == Len(c)
<1>6. a \in Nat /\ l \in Nat /\ 1 <= a /\ a <= l + 1 /\ l - a + 1 = p
  <2>1. l = j + p
    BY <1>1
  <2> QED
    BY <1>4, <2>1
<1>7. IsPart(d, c, a, l)
  BY <1>1, <1>6 DEF IsPart, Rest
<1> HIDE DEF d, a, l
<1>8. d \in Seq(Symbols) /\ Len(d) = p /\ \A i \in 1..p : d[i] = c[a + i - 1]
  BY <1>6, <1>7, PartIs DEF PartBounds
<1>9. \A i \in 1..p : a + i - 1 = j + i
  BY <1>4 DEF a
<1> QED
  BY <1>1, <1>3, <1>4, <1>5, <1>8, <1>9 DEF d

(* A text that ends within its opening has no value yet. *)
LEMMA BegunValueless ==
    ASSUME NEW c, NEW j, NEW n, NEW key, NEW o, NEW p, Begun(c, j, n, key, o, p)
    PROVE  Valueless(c)
<1> DEFINE d == Rest(c, j + 1)
<1>1. /\ c \in Seq(Symbols) /\ Len(c) = j + p /\ j \in {0, 2} /\ p \in Nat /\ p # 0 /\ p < o
      /\ \A i \in 1..j : c[i] # ":"
      /\ Len(d) = p /\ \A i \in 1..p : d[i] = c[j + i]
      /\ Starts(d, n, key, o, p)
  BY BegunTyped
<1> HIDE DEF d
<1>2. Valueless(d)
  BY <1>1, StartsValueless
<1>3. ASSUME NEW i \in 1..Len(c), NEW h \in 1..Len(c), i < h, c[i] = ":", c[h] = "q" PROVE FALSE
  <2>1. ~(i <= j)
    <3>1. i \notin 1..j
      BY <1>1, <1>3
    <3> QED
      BY <3>1
  <2> DEFINE x == i - j
             y == h - j
  <2>2. x \in 1..p /\ y \in 1..p /\ x < y /\ j + x = i /\ j + y = h
    <3>1. j \in Nat /\ p \in Nat /\ Len(c) = j + p
      BY <1>1
    <3> QED
      BY <1>3, <2>1, <3>1
  <2> HIDE DEF x, y
  <2>3. d[x] = ":" /\ d[y] = "q"
    BY <1>1, <1>3, <2>2
  <2> QED
    BY <1>1, <1>2, <2>2, <2>3 DEF Valueless
<1> QED
  BY <1>3 DEF Valueless

(* A value does not come of a closing quote or brace. *)
LEMMA ValuelessMore ==
    ASSUME NEW u \in Seq(Symbols), Valueless(u), NEW s \in Symbols,
           s # "q" \/ \A i \in 1..Len(u) : u[i] # ":"
    PROVE  Valueless(u \o <<s>>) /\ u \o <<s>> \in Seq(Symbols)
<1> DEFINE w == u \o <<s>>
           l == Len(u)
<1>1. /\ w \in Seq(Symbols) /\ w[Len(w)] = s /\ Len(w) = l + 1 /\ \A i \in 1..l : w[i] = u[i]
  BY LastOfMore
<1>2. l \in Nat
  OBVIOUS
<1> HIDE DEF w
<1>3. ASSUME NEW i \in 1..Len(w), NEW h \in 1..Len(w), i < h, w[i] = ":", w[h] = "q" PROVE FALSE
  <2>1. i \in 1..l /\ (h \in 1..l \/ h = Len(w))
    <3>1. Len(w) = l + 1
      BY <1>1
    <3> QED
      BY <1>2, <1>3, <3>1
  <2>2. u[i] = ":"
    BY <1>1, <1>3, <2>1
  <2>3. CASE h \in 1..l
    <3>1. u[h] = "q"
      BY <1>1, <1>3, <2>3
    <3> QED
      BY <1>3, <2>1, <2>2, <2>3, <3>1 DEF Valueless
  <2>4. CASE h = Len(w)
    <3>1. s = "q"
      BY <1>1, <1>3, <2>4
    <3> QED
      BY <2>1, <2>2, <3>1
  <2> QED
    BY <2>1, <2>3, <2>4
<1>4. Valueless(w)
  BY <1>3 DEF Valueless
<1> QED
  BY <1>1, <1>4 DEF w

(* The structural repair of an opening that was cut off. *)
LEMMA BegunEnds ==
    ASSUME NEW c, NEW j, NEW n, NEW key, NEW o, NEW p, Begun(c, j, n, key, o, p),
           NEW d, d = Rest(c, j + 1)
    PROVE  /\ p \in {2, 3} => EndsIn(c, j, InText(d))
           /\ p \notin {2, 3} => EndsIn(c, j, Outside(d, 1))
<1> DEFINE f == Structuring(d)
<1>1. /\ c \in Seq(Symbols) /\ Len(c) = j + p /\ j \in {0, 2} /\ p \in Nat /\ p # 0 /\ p < o
      /\ o \in Nat /\ \A i \in 1..j : c[i] # "open"
      /\ d \in Seq(Symbols) /\ Len(d) = p
      /\ \A i \in 1..p : d[i] = c[j + i]
      /\ Starts(d, n, key, o, p)
  BY BegunTyped
<1>2. Structures(f, d)
  BY <1>1, StructuringDefined
<1>3. c[j + 1] = "open"
  <2>1. 1 \in 1..p /\ p >= 1
    BY <1>1
  <2>2. d[1] = "open"
    BY <1>1, <2>1 DEF Starts
  <2> QED
    BY <1>1, <2>1, <2>2
<1>4. StructsOpening(f, d, o, p)
  <2>1. p \in 0..p
    BY <1>1
  <2> HIDE DEF f
  <2> QED
    BY <1>1, <1>2, <2>1, StructsOpen
<1>5. SubSeq(d, 1, p) = d
  BY <1>1, WholeIs DEF Rest
<1>6. /\ p \in {2, 3} => f[p] = InText(d)
      /\ p \notin {2, 3} => f[p] = Outside(d, 1)
  <2>1. p \in 1..(o - 1) /\ p # 0
    BY <1>1
  <2> HIDE DEF f
  <2> QED
    BY <1>4, <1>5, <2>1 DEF StructsOpening
<1>7. j \in Nat /\ j + 1 <= Len(c)
  BY <1>1
<1>8. EndsIn(c, j, f[p])
  <2>1. Structuring(Rest(c, j + 1))[Len(Rest(c, j + 1))] = f[p]
    BY <1>1
  <2> HIDE DEF f
  <2> QED
    BY <1>1, <1>3, <1>7, <2>1 DEF EndsIn
<1> HIDE DEF f
<1> QED
  BY <1>6, <1>8

(* structuralRepair does not make it one that is decoded. *)
LEMMA BegunRepaired ==
    ASSUME NEW c, NEW j, NEW n, NEW key, NEW o, NEW p, Begun(c, j, n, key, o, p)
    PROVE  Unmarshal(AttemptStructuralRepair(c)) = Undecoded
<1> DEFINE d == Rest(c, j + 1)
<1>1. /\ p \in Nat /\ p < o /\ o \in Nat /\ d \in Seq(Symbols) /\ Len(d) = p
      /\ Starts(d, n, key, o, p)
  BY BegunTyped
<1>2. /\ p \in {2, 3} => EndsIn(c, j, InText(d))
      /\ p \notin {2, 3} => EndsIn(c, j, Outside(d, 1))
  BY BegunEnds
<1> HIDE DEF d
<1>3. Valueless(d)
  BY <1>1, StartsValueless
<1>4. "q" \in Symbols /\ "close" \in Symbols /\ "close" # "q"
  BY SymbolsTyped
<1>5. CASE p \in {2, 3}
  <2> DEFINE u == d \o <<"q">>
  <2>1. \A i \in 1..Len(d) : d[i] # ":"
    <3>1. /\ p >= 1 => d[1] = "open"
          /\ p >= 2 => d[2] = "q"
          /\ p >= 3 => d[3] = key
          /\ key # ":"
      BY <1>1 DEF Starts
    <3>2. ASSUME NEW i \in 1..Len(d)
          PROVE  (i = 1 /\ p >= 1) \/ (i = 2 /\ p >= 2) \/ (i = 3 /\ p >= 3)
      BY <1>1, <1>5
    <3> QED
      BY <3>1, <3>2
  <2>2. Valueless(u) /\ u \in Seq(Symbols)
    BY <1>1, <1>3, <1>4, <2>1, ValuelessMore
  <2>3. AttemptStructuralRepair(c) = u \o <<"close">>
    BY <1>1, <1>2, <1>5, RepairOpen
  <2> HIDE DEF u
  <2>4. Valueless(u \o <<"close">>) /\ u \o <<"close">> \in Seq(Symbols)
    BY <1>4, <2>2, ValuelessMore
  <2> QED
    BY <2>3, <2>4, UnmarshalValueless
<1>6. CASE p \notin {2, 3}
  <2> DEFINE u == TrimRight(d, White \cup {","})
  <2>1. AttemptStructuralRepair(c) = u \o <<"close">>
    <3>1. EndsIn(c, j, Outside(d, 1))
      BY <1>2, <1>6
    <3>2. 1 \in {0, 1}
      OBVIOUS
    <3> DEFINE one == 1
    <3>3. one \in {0, 1} /\ one = 1 /\ EndsIn(c, j, Outside(d, one))
      BY <3>1
    <3> HIDE DEF one
    <3>4. AttemptStructuralRepair(c)
            = TrimRight(d, White \cup {","}) \o (IF one = 1 THEN <<"close">> ELSE <<>>)
      BY <3>3, RepairOutside
    <3> QED
      BY <3>3, <3>4
  <2>2. Within(u, d)
    BY <1>1, TrimRightWithin
  <2> HIDE DEF u
  <2>3. Valueless(u) /\ u \in Seq(Symbols)
    BY <1>3, <2>2, ValuelessWithin, WithinTyped
  <2>4. Valueless(u \o <<"close">>) /\ u \o <<"close">> \in Seq(Symbols)
    BY <1>4, <2>3, ValuelessMore
  <2> QED
    BY <2>1, <2>4, UnmarshalValueless
<1> QED
  BY <1>5, <1>6

(* Nothing comes of a text that has no string yet. *)
LEMMA ValuelessUndecoded ==
    ASSUME NEW c \in Seq(Symbols), Valueless(c), Unmarshal(AttemptStructuralRepair(c)) = Undecoded
    PROVE  RepairCleaned(c) = Undecoded
<1>1. Unmarshal(c) = Undecoded
  BY UnmarshalValueless
<1>2. ScanAndExtractContent(c) = Undecoded
  <2>1. ScanKey(c, "content") = Undecoded /\ ScanKey(c, "text") = Undecoded
    BY ScanKeyValueless
  <2> QED
    BY <2>1, Outcomes DEF ScanAndExtractContent
<1> QED
  BY <1>1, <1>2, Outcomes DEF RepairCleaned

(* No stage decodes a text that ends within its opening. *)
LEMMA BegunUndecoded ==
    ASSUME NEW c, NEW j, NEW n, NEW key, NEW o, NEW p, Begun(c, j, n, key, o, p)
    PROVE  RepairCleaned(c) = Undecoded
<1>1. c \in Seq(Symbols)
  BY BegunTyped
<1> QED
  BY <1>1, BegunValueless, BegunRepaired, ValuelessUndecoded

(* No stage decodes a text without a brace. *)
LEMMA BracelessUndecoded ==
    ASSUME NEW c, Braceless(c)
    PROVE  RepairCleaned(c) = Undecoded
<1>1. c \in Seq(Symbols) /\ Valueless(c) /\ \A i \in 1..Len(c) : c[i] # "open"
  BY DEF Braceless
<1>2. {i \in DOMAIN c : c[i] = "open"} = {}
  <2>1. DOMAIN c = 1..Len(c)
    BY <1>1
  <2> QED
    BY <1>1, <2>1
<1>3. AttemptStructuralRepair(c) = c
  BY <1>2 DEF AttemptStructuralRepair
<1> QED
  BY <1>1, <1>3, UnmarshalValueless, ValuelessUndecoded

(* A text as it was written: the opening starts after b symbols, the       *)
(* string's last item ends at g, and its brace is at e.                    *)
Ahead(dress) == IF dress = "fenced" THEN 3 ELSE IF dress = "prose" THEN 2 ELSE 0

Written(raw, dress, b, n, key, o, body, g, e) ==
    /\ b = Ahead(dress) /\ Begins(raw, b, n, key, o) /\ Holds(raw, o, body, Len(body))
    /\ g = o + EndOf(body, Len(body)) /\ e \in {g + 2, g + 3} /\ raw[g + 1] = "q"
    /\ (e = g + 3 => raw[g + 2] = (IF dress = "comma" THEN "," ELSE "s")) /\ raw[e] = "close"
    /\ dress = "comma" => e = g + 3
    /\ dress = "prose" => raw[1] = "other" /\ raw[2] = "s"
    /\ dress = "fenced" => raw[1] = "fence" /\ raw[2] = "other" /\ raw[3] = "NL"
    /\ Len(raw) = IF dress = "fenced" THEN e + 2 ELSE e
    /\ dress = "fenced" => raw[e + 1] = "NL" /\ raw[e + 2] = "fence"

(* What stands before the opening. *)
LEMMA AheadIs ==
    ASSUME NEW dress \in DOMAIN Before
    PROVE  /\ dress \in {"plain", "comma", "prose", "fenced"}
           /\ Before[dress] \in Seq(Symbols) /\ Len(Before[dress]) = Ahead(dress)
           /\ dress = "prose" => Before[dress] = <<"other", "s">>
           /\ dress = "fenced" => Before[dress] = <<"fence", "other", "NL">>
           /\ dress # "fenced" => After[dress] = <<>>
           /\ dress = "fenced" => After[dress] = <<"NL", "fence">>
<1>1. DOMAIN Before = {"plain", "comma", "prose", "fenced"}
  BY DEF Before
<1>2. dress \in {"plain", "comma", "prose", "fenced"}
  BY <1>1
<1>3. "other" \in Symbols /\ "s" \in Symbols /\ "fence" \in Symbols /\ "NL" \in Symbols
  BY SymbolsTyped
<1>4. <<"other", "s">> \in Seq(Symbols) /\ Len(<<"other", "s">>) = 2
  BY <1>3, TwoAreSeq
<1>5. <<"fence", "other", "NL">> \in Seq(Symbols) /\ Len(<<"fence", "other", "NL">>) = 3
  BY <1>3, ThreeAreSeq
<1>6. <<>> \in Seq(Symbols) /\ Len(<<>>) = 0
  OBVIOUS
<1>7. /\ dress \in {"plain", "comma"} => Before[dress] = <<>>
      /\ dress = "prose" => Before[dress] = <<"other", "s">>
      /\ dress = "fenced" => Before[dress] = <<"fence", "other", "NL">>
      /\ dress # "fenced" => After[dress] = <<>>
      /\ dress = "fenced" => After[dress] = <<"NL", "fence">>
  BY <1>2 DEF Before, After
<1>8. Before[dress] \in Seq(Symbols) /\ Len(Before[dress]) = Ahead(dress)
  <2>1. CASE dress \in {"plain", "comma"}
    <3>1. Ahead(dress) = 0
      BY <2>1 DEF Ahead
    <3> QED
      BY <1>6, <1>7, <2>1, <3>1
  <2>2. CASE dress = "prose"
    <3>1. Ahead(dress) = 2
      BY <2>2 DEF Ahead
    <3> QED
      BY <1>4, <1>7, <2>2, <3>1
  <2>3. CASE dress = "fenced"
    <3>1. Ahead(dress) = 3
      BY <2>3 DEF Ahead
    <3> QED
      BY <1>5, <1>7, <2>3, <3>1
  <2> QED
    BY <1>2, <2>1, <2>2, <2>3
<1> QED
  BY <1>2, <1>7, <1>8

(* What closes the string and the object. *)
Close(gap, dress) == IF dress = "comma" THEN <<"q", ",", "close">> ELSE Closed(gap)

(* How an object ends: the quote, perhaps a space or a comma, the brace. *)
LEMMA CloseIs ==
    ASSUME NEW gap, NEW dress
    PROVE  /\ Close(gap, dress) \in Seq(Symbols) /\ Len(Close(gap, dress)) \in {2, 3}
           /\ Close(gap, dress)[1] = "q" /\ Close(gap, dress)[Len(Close(gap, dress))] = "close"
           /\ Len(Close(gap, dress)) = 3
                => Close(gap, dress)[2] = (IF dress = "comma" THEN "," ELSE "s")
           /\ dress = "comma" => Len(Close(gap, dress)) = 3
<1>1. "q" \in Symbols /\ "s" \in Symbols /\ "close" \in Symbols /\ "," \in Symbols
  BY SymbolsTyped
<1>2. CASE dress = "comma"
  <2> DEFINE t == <<"q", ",", "close">>
  <2>1. t \in Seq(Symbols) /\ Len(t) = 3 /\ t[1] = "q" /\ t[2] = "," /\ t[3] = "close"
    BY <1>1, ThreeAreSeq
  <2>2. Close(gap, dress) = t
    BY <1>2 DEF Close
  <2> HIDE DEF t
  <2> QED
    BY <1>2, <2>1, <2>2
<1>3. CASE dress # "comma" /\ gap["beforeBrace"]
  <2> DEFINE v == <<"q">>
             u == v \o <<"s">>
             t == u \o <<"close">>
  <2>3. v \in Seq(Symbols) /\ Len(v) = 1 /\ v[1] = "q"
    BY <1>1, OneIsSeq
  <2> HIDE DEF v
  <2>4. u \in Seq(Symbols) /\ Len(u) = 2 /\ u[1] = "q" /\ u[2] = "s"
    <3>1. /\ u \in Seq(Symbols) /\ u[Len(u)] = "s" /\ Len(u) = Len(v) + 1
          /\ \A i \in 1..Len(v) : u[i] = v[i]
      BY <1>1, <2>3, LastOfMore
    <3> HIDE DEF u
    <3>2. Len(u) = 2 /\ 1 \in 1..Len(v)
      BY <2>3, <3>1
    <3> QED
      BY <2>3, <3>1, <3>2
  <2> HIDE DEF u
  <2>1. t \in Seq(Symbols) /\ Len(t) = 3 /\ t[1] = "q" /\ t[2] = "s" /\ t[3] = "close"
    <3>1. /\ t \in Seq(Symbols) /\ t[Len(t)] = "close" /\ Len(t) = Len(u) + 1
          /\ \A i \in 1..Len(u) : t[i] = u[i]
      BY <1>1, <2>4, LastOfMore
    <3> HIDE DEF t
    <3>2. Len(t) = 3 /\ 1 \in 1..Len(u) /\ 2 \in 1..Len(u)
      BY <2>4, <3>1
    <3> QED
      BY <2>4, <3>1, <3>2
  <2>2. Close(gap, dress) = t
    BY <1>3 DEF Close, Closed, Space, t, u, v
  <2> HIDE DEF t
  <2> QED
    BY <1>3, <2>1, <2>2
<1>4. CASE dress # "comma" /\ ~gap["beforeBrace"]
  <2> DEFINE t == <<"q", "close">>
  <2>1. t \in Seq(Symbols) /\ Len(t) = 2 /\ t[1] = "q" /\ t[2] = "close"
    BY <1>1, TwoAreSeq
  <2>2. Close(gap, dress) = t
    BY <1>4, ClosedIs DEF Close
  <2> HIDE DEF t
  <2>3. Len(t) # 3 /\ Len(t) \in {2, 3}
    BY <2>1
  <2> QED
    BY <1>4, <2>1, <2>2, <2>3
<1> QED
  BY <1>2, <1>3, <1>4

(* The text of the whole body, at its place. *)
LEMMA HoldsFlat ==
    ASSUME NEW w \in Seq(Symbols), NEW o \in Nat, NEW body \in Seq(Items), NEW m, m = Len(body),
           NEW t, t = Flat(Source, SubSeq(body, 1, m)), o + Len(t) <= Len(w),
           \A i \in 1..Len(t) : w[o + i] = t[i]
    PROVE  Holds(w, o, body, m)
<1>1. m \in 0..Len(body) /\ m \in Nat /\ Len(t) = EndOf(body, m) /\ EndOf(body, m) \in Nat
  BY Ends DEF EndOf
<1>2. ASSUME NEW k \in 1..m PROVE ItemAt(w, o + EndOf(body, k - 1), body[k])
  <2> DEFINE b == EndOf(body, k - 1)
             x == body[k]
             l == Len(Source[x])
  <2>1. k \in 1..Len(body) /\ x \in Items /\ b \in Nat /\ l \in 1..6
    BY Ends
  <2>2. \A i \in 1..l : b + i <= Len(t) /\ t[b + i] = Source[x][i]
    BY <1>1, FlatPlaces DEF EndOf
  <2> HIDE DEF b, x, l
  <2>3. o + b \in Nat /\ o + b + l <= Len(w)
    <3>1. l \in 1..l
      BY <2>1
    <3>2. b + l <= Len(t)
      BY <2>2, <3>1
    <3>3. Len(t) \in Nat /\ Len(w) \in Nat
      BY <1>1
    <3> QED
      BY <2>1, <3>2, <3>3, SMTT(30)
  <2>4. Shows(w, o + b, Source[x])
    <3>1. ASSUME NEW i \in 1..l PROVE w[o + b + i] = Source[x][i]
      <4> DEFINE h == b + i
      <4>1. h \in 1..Len(t) /\ o + h = o + b + i
        <5>1. b + i <= Len(t)
          BY <2>2
        <5>2. Len(t) \in Nat
          BY <1>1
        <5> QED
          BY <2>1, <5>1, <5>2
      <4>2. t[h] = Source[x][i]
        BY <2>2
      <4> HIDE DEF h
      <4>3. w[o + h] = t[h]
        BY <4>1
      <4> QED
        BY <4>1, <4>2, <4>3
    <3> QED
      BY <3>1 DEF Shows, l
  <2> QED
    BY <2>1, <2>3, <2>4 DEF ItemAt, b, x, l
<1>3. o + EndOf(body, m) <= Len(w)
  BY <1>1
<1> QED
  BY <1>1, <1>2, <1>3 DEF Holds

(* Four pieces, one after the other. *)
Pieces(r, s, t, u, v) ==
    /\ r \in Seq(Symbols) /\ Len(r) = Len(s) + Len(t) + Len(u) + Len(v)
    /\ \A i \in 1..Len(s) : r[i] = s[i]
    /\ \A i \in 1..Len(t) : r[Len(s) + i] = t[i]
    /\ \A i \in 1..Len(u) : r[Len(s) + Len(t) + i] = u[i]
    /\ \A i \in 1..Len(v) : r[Len(s) + Len(t) + Len(u) + i] = v[i]

(* Four texts put together, symbol by symbol. *)
LEMMA PiecesAre ==
    ASSUME NEW s \in Seq(Symbols), NEW t \in Seq(Symbols), NEW u \in Seq(Symbols),
           NEW v \in Seq(Symbols), NEW r, r = ((s \o t) \o u) \o v
    PROVE  Pieces(r, s, t, u, v)
<1> DEFINE a == s \o t
           b == a \o u
<1>1. Joined(a, s, t)
  BY PutTogether
<1>2. a \in Seq(Symbols) /\ Len(a) = Len(s) + Len(t) /\ Len(s) \in Nat /\ Len(t) \in Nat
      /\ (\A i \in 1..Len(s) : a[i] = s[i]) /\ (\A i \in 1..Len(t) : a[Len(s) + i] = t[i])
  BY <1>1 DEF Joined
<1> HIDE DEF a
<1>3. Joined(b, a, u)
  BY <1>2, PutTogether
<1>4. b \in Seq(Symbols) /\ Len(b) = Len(a) + Len(u) /\ Len(u) \in Nat
      /\ (\A i \in 1..Len(a) : b[i] = a[i]) /\ (\A i \in 1..Len(u) : b[Len(a) + i] = u[i])
  BY <1>3 DEF Joined
<1>9. r = b \o v
  BY DEF a
<1> HIDE DEF b
<1>5. Joined(r, b, v)
  BY <1>4, <1>9, PutTogether
<1>6. r \in Seq(Symbols) /\ Len(r) = Len(b) + Len(v) /\ Len(v) \in Nat
      /\ (\A i \in 1..Len(b) : r[i] = b[i]) /\ (\A i \in 1..Len(v) : r[Len(b) + i] = v[i])
  BY <1>5 DEF Joined
<1>7. ASSUME NEW i \in 1..Len(s) PROVE r[i] = s[i]
  <2>1. i \in 1..Len(a) /\ i \in 1..Len(b)
    BY <1>2, <1>4
  <2> QED
    BY <1>2, <1>4, <1>6, <2>1
<1>8. ASSUME NEW i \in 1..Len(t) PROVE r[Len(s) + i] = t[i]
  <2> DEFINE h == Len(s) + i
  <2>1. h \in 1..Len(a) /\ h \in 1..Len(b)
    BY <1>2, <1>4
  <2>2. a[h] = t[i]
    BY <1>2
  <2> HIDE DEF h
  <2>3. r[h] = t[i]
    BY <1>4, <1>6, <2>1, <2>2
  <2> QED
    BY <2>3 DEF h
<1>10. ASSUME NEW i \in 1..Len(u) PROVE r[Len(s) + Len(t) + i] = u[i]
  <2> DEFINE h == Len(s) + Len(t) + i
  <2>1. h \in 1..Len(b) /\ h = Len(a) + i
    BY <1>2, <1>4
  <2>2. b[h] = u[i]
    BY <1>4, <2>1
  <2> HIDE DEF h
  <2>3. r[h] = u[i]
    BY <1>6, <2>1, <2>2
  <2> QED
    BY <2>3 DEF h
<1>11. ASSUME NEW i \in 1..Len(v) PROVE r[Len(s) + Len(t) + Len(u) + i] = v[i]
  <2>1. Len(s) + Len(t) + Len(u) + i = Len(b) + i
    BY <1>2, <1>4
  <2> QED
    BY <1>6, <2>1
<1>12. Len(r) = Len(s) + Len(t) + Len(u) + Len(v)
  BY <1>2, <1>4, <1>6
<1> QED
  BY <1>6, <1>7, <1>8, <1>10, <1>11, <1>12 DEF Pieces

(* An opening after others. *)
LEMMA BeginsAfter ==
    ASSUME NEW raw \in Seq(Symbols), NEW b \in Nat, NEW op, NEW key, NEW c \in {5, 6},
           key \in {"content", "text", "other"}, Opens(op, key, c), b + Len(op) <= Len(raw),
           \A i \in 1..Len(op) : raw[b + i] = op[i]
    PROVE  Begins(raw, b, b + c, key, b + Len(op))
<1> DEFINE l == Len(op)
           n == b + c
           o == b + l
<1>1. /\ l \in {c + 1, c + 2}
      /\ op[1] = "open" /\ op[2] = "q" /\ op[3] = key /\ op[4] = "q"
      /\ c = 6 => op[5] = "s"
      /\ op[c] = ":" /\ (l = c + 2 => op[c + 1] = "s") /\ op[l] = "q"
  BY DEF Opens
<1>2. l \in {c + 1, c + 2}
  BY <1>1
<1> HIDE DEF l
<1>3. /\ 1 \in 1..l /\ 2 \in 1..l /\ 3 \in 1..l /\ 4 \in 1..l /\ 5 \in 1..l /\ c \in 1..l
      /\ c + 1 \in 1..l /\ l \in 1..l
      /\ b + (c + 1) = n + 1 /\ (o = n + 2 => l = c + 2) /\ (n = b + 6 => c = 6)
      /\ n \in {b + 5, b + 6} /\ o \in {n + 1, n + 2}
  BY <1>2
<1>4. /\ raw[b + 1] = op[1] /\ raw[b + 2] = op[2] /\ raw[b + 3] = op[3] /\ raw[b + 4] = op[4]
      /\ raw[b + 5] = op[5] /\ raw[n] = op[c] /\ raw[n + 1] = op[c + 1] /\ raw[o] = op[l]
  <2>1. \A i \in 1..l : raw[b + i] = op[i]
    BY DEF l
  <2>2. /\ raw[b + 1] = op[1] /\ raw[b + 2] = op[2] /\ raw[b + 3] = op[3] /\ raw[b + 4] = op[4]
        /\ raw[b + 5] = op[5]
    BY ONLY <1>3, <2>1
  <2>3. raw[b + c] = op[c] /\ raw[b + (c + 1)] = op[c + 1] /\ raw[b + l] = op[l]
    BY ONLY <1>3, <2>1
  <2>4. b + (c + 1) = n + 1
    BY <1>3
  <2> QED
    BY ONLY <2>2, <2>3, <2>4 DEF n, o
<1>5. o <= Len(raw)
  BY DEF l
<1>6. Begins(raw, b, n, key, o)
  BY <1>1, <1>3, <1>4, <1>5 DEF Begins
<1> QED
  BY <1>6 DEF l

(* What TransportText writes is an opening, a body, a close, in its dress. *)
LEMMA WrittenText ==
    ASSUME NEW key \in {"content", "text", "other"}, NEW gap \in [Places -> BOOLEAN],
           NEW body \in Seq(Items), NEW dress \in DOMAIN Before,
           NEW t, t = Text(key, gap, body, dress)
    PROVE  \E n, e : Written(t.raw, dress, Ahead(dress), n, key, t.start, body,
                             t.start + EndOf(body, Len(body)), e)
<1> DEFINE pre == Before[dress]
           one == Opening(key, gap)
           op == pre \o one
           m == Len(body)
           f == Flat(Source, SubSeq(body, 1, m))
           cl == Close(gap, dress)
           af == After[dress]
           raw == t.raw
           o == t.start
           b == Ahead(dress)
           g == o + EndOf(body, m)
           e == g + Len(cl)
<1>1. PICK c \in {5, 6} : c = 6 <=> gap["afterKey"]
  BY DEF Places
<1>2. Opens(one, key, c)
  BY <1>1, OpeningIs
<1>3. /\ one \in Seq(Symbols) /\ Len(one) \in {c + 1, c + 2}
  BY <1>2 DEF Opens
<1>4. /\ pre \in Seq(Symbols) /\ Len(pre) = b
      /\ dress = "prose" => pre = <<"other", "s">>
      /\ dress = "fenced" => pre = <<"fence", "other", "NL">>
      /\ dress # "fenced" => af = <<>>
      /\ dress = "fenced" => af = <<"NL", "fence">>
  BY AheadIs
<1>5. b \in Nat /\ (dress = "prose" => b = 2) /\ (dress = "fenced" => b = 3)
  BY DEF Ahead
<1>6. /\ cl \in Seq(Symbols) /\ Len(cl) \in {2, 3} /\ cl[1] = "q" /\ cl[Len(cl)] = "close"
      /\ Len(cl) = 3 => cl[2] = (IF dress = "comma" THEN "," ELSE "s")
      /\ dress = "comma" => Len(cl) = 3
  BY CloseIs
<1>7. m \in 0..m /\ m \in Nat /\ f \in Seq(Symbols) /\ Len(f) = EndOf(body, m)
  BY FlatTyped
<1>8. SubSeq(body, 1, m) = body
  OBVIOUS
<1>9. raw = ((op \o f) \o cl) \o af /\ o = Len(op)
  BY <1>8 DEF Text, Close
<1>10. af \in Seq(Symbols) /\ Len(af) = (IF dress = "fenced" THEN 2 ELSE 0)
       /\ (dress = "fenced" => af[1] = "NL" /\ af[2] = "fence")
  <2>1. "NL" \in Symbols /\ "fence" \in Symbols
    BY SymbolsTyped
  <2>2. <<"NL", "fence">> \in Seq(Symbols) /\ Len(<<"NL", "fence">>) = 2
    BY <2>1, TwoAreSeq
  <2>3. <<>> \in Seq(Symbols) /\ Len(<<>>) = 0
    OBVIOUS
  <2>4. CASE dress = "fenced"
    <3>1. af = <<"NL", "fence">>
      BY <1>4, <2>4
    <3>2. af[1] = "NL" /\ af[2] = "fence"
      <4> HIDE DEF af
      <4> QED
        BY <3>1
    <3> HIDE DEF af
    <3>3. af \in Seq(Symbols) /\ Len(af) = 2
      BY <2>2, <3>1
    <3> QED
      BY <2>4, <3>2, <3>3
  <2>5. CASE dress # "fenced"
    <3>1. af = <<>>
      BY <1>4, <2>5
    <3> HIDE DEF af
    <3>2. af \in Seq(Symbols) /\ Len(af) = 0
      BY <2>3, <3>1
    <3> QED
      BY <2>5, <3>2
  <2> QED
    BY <2>4, <2>5
<1> HIDE DEF pre, one, f, cl, af, b, raw, o
<1>11. Joined(op, pre, one)
  BY <1>3, <1>4, PutTogether
<1>12. op \in Seq(Symbols) /\ Len(op) = b + Len(one)
       /\ (\A i \in 1..b : op[i] = pre[i]) /\ (\A i \in 1..Len(one) : op[b + i] = one[i])
  BY <1>4, <1>11 DEF Joined
<1> HIDE DEF op
<1>13. Pieces(raw, op, f, cl, af)
  BY <1>6, <1>7, <1>9, <1>10, <1>12, PiecesAre
<1>14. o \in Nat /\ EndOf(body, m) \in Nat /\ g \in Nat /\ g = o + Len(f) /\ Len(cl) \in Nat
       /\ Len(one) \in Nat /\ o = b + Len(one) /\ 1 \in 1..Len(cl)
  <2>1. Len(cl) \in {2, 3} /\ Len(one) \in {c + 1, c + 2}
    BY <1>3, <1>6
  <2>2. b \in Nat
    BY <1>5
  <2>3. Len(op) = b + Len(one)
    BY <1>12
  <2>4. o \in Nat /\ o = b + Len(one)
    BY <1>9, <2>1, <2>2, <2>3
  <2>5. EndOf(body, m) \in Nat
    BY <1>7
  <2>6. Len(f) = EndOf(body, m)
    BY <1>7
  <2>7. Len(cl) \in Nat /\ Len(one) \in Nat /\ 1 \in 1..Len(cl)
    <3> DEFINE h == Len(cl)
               a == Len(one)
    <3>1. h \in {2, 3} /\ a \in {c + 1, c + 2}
      BY <2>1
    <3> HIDE DEF h, a
    <3>2. h \in Nat /\ a \in Nat /\ 1 \in 1..h
      BY <3>1
    <3> QED
      BY <3>2 DEF h, a
  <2>8. g \in Nat /\ g = o + Len(f)
    BY <2>4, <2>5, <2>6
  <2> HIDE DEF g
  <2> QED
    BY <2>4, <2>5, <2>7, <2>8
<1>15. /\ raw \in Seq(Symbols) /\ Len(raw) = e + Len(af)
       /\ \A i \in 1..o : raw[i] = op[i]
       /\ \A i \in 1..Len(f) : raw[o + i] = f[i]
       /\ \A i \in 1..Len(cl) : raw[g + i] = cl[i]
       /\ \A i \in 1..Len(af) : raw[e + i] = af[i]
  <2>1. /\ raw \in Seq(Symbols) /\ Len(raw) = Len(op) + Len(f) + Len(cl) + Len(af)
        /\ \A i \in 1..Len(op) : raw[i] = op[i]
        /\ \A i \in 1..Len(f) : raw[Len(op) + i] = f[i]
        /\ \A i \in 1..Len(cl) : raw[Len(op) + Len(f) + i] = cl[i]
        /\ \A i \in 1..Len(af) : raw[Len(op) + Len(f) + Len(cl) + i] = af[i]
    BY <1>13 DEF Pieces
  <2>2. Len(op) = o /\ Len(op) + Len(f) = g /\ Len(op) + Len(f) + Len(cl) = e
    BY <1>9, <1>14
  <2> HIDE DEF g, e
  <2> QED
    BY ONLY <2>1, <2>2
<1>16. o + Len(f) <= Len(raw) /\ o <= Len(raw) /\ e \in Nat
  <2>1. Len(af) \in Nat /\ Len(f) \in Nat
    BY <1>7, <1>10
  <2> QED
    <3> DEFINE h == Len(cl)
               a == Len(af)
    <3>1. Len(raw) = o + Len(f) + h + a /\ h \in Nat /\ a \in Nat /\ o \in Nat
          /\ Len(f) \in Nat
      BY <1>14, <1>15, <2>1
    <3>2. e = o + Len(f) + h
      BY <1>14
    <3> HIDE DEF h, a, e
    <3> QED
      BY <3>1, <3>2
<1>17. Begins(raw, b, b + c, key, o)
  <2>1. \A i \in 1..Len(one) : raw[b + i] = one[i]
    <3>1. ASSUME NEW i \in 1..Len(one) PROVE b + i \in 1..o
      BY <1>5, <1>14
    <3>2. ASSUME NEW i \in 1..Len(one) PROVE raw[b + i] = one[i]
      <4> DEFINE h == b + i
      <4>1. h \in 1..o /\ op[h] = one[i]
        BY <1>12, <3>1
      <4> HIDE DEF h
      <4>2. raw[h] = one[i]
        BY <1>15, <4>1
      <4> QED
        BY <4>2 DEF h
    <3> QED
      BY <3>2
  <2>2. Begins(raw, b, b + c, key, b + Len(one))
    BY <1>2, <1>5, <1>14, <1>15, <1>16, <2>1, BeginsAfter
  <2> QED
    BY <1>14, <2>2
<1>18. Holds(raw, o, body, m)
  BY <1>7, <1>14, <1>15, <1>16, HoldsFlat DEF f
<1>19. /\ dress = "prose" => raw[1] = "other" /\ raw[2] = "s"
       /\ dress = "fenced" => raw[1] = "fence" /\ raw[2] = "other" /\ raw[3] = "NL"
  <2>1. \A i \in 1..b : raw[i] = pre[i]
    <3>1. ASSUME NEW i \in 1..b PROVE i \in 1..o
      BY <1>5, <1>14
    <3> QED
      BY <1>12, <1>15, <3>1
  <2>2. dress = "prose" => 1 \in 1..b /\ 2 \in 1..b
    BY <1>5
  <2>3. dress = "fenced" => 1 \in 1..b /\ 2 \in 1..b /\ 3 \in 1..b
    BY <1>5
  <2>4. CASE dress = "prose"
    <3>1. pre[1] = "other" /\ pre[2] = "s"
      BY <1>4, <2>4
    <3> QED
      BY <2>1, <2>2, <2>4, <3>1
  <2>5. CASE dress = "fenced"
    <3>1. pre[1] = "fence" /\ pre[2] = "other" /\ pre[3] = "NL"
      BY <1>4, <2>5
    <3> QED
      BY <2>1, <2>3, <2>5, <3>1
  <2> QED
    BY <2>4, <2>5
<1>20. /\ raw[g + 1] = "q" /\ e \in {g + 2, g + 3} /\ raw[e] = "close"
       /\ (e = g + 3 => raw[g + 2] = (IF dress = "comma" THEN "," ELSE "s"))
       /\ (dress = "comma" => e = g + 3)
  <2> DEFINE h == Len(cl)
  <2>1. h \in {2, 3} /\ (dress = "comma" => h = 3)
    BY <1>6
  <2>2. /\ raw[g + 1] = cl[1] /\ raw[g + 2] = cl[2] /\ raw[g + h] = cl[h]
    <3>1. 2 \in 1..h /\ h \in 1..h /\ 1 \in 1..h
      BY <2>1, SMTT(30)
    <3> QED
      BY <1>15, <3>1
  <2>3. e = g + h /\ (e = g + 3 => h = 3)
    <3>1. e = g + h
      OBVIOUS
    <3>2. h \in Nat
      BY <1>14
    <3>3. g \in Nat
      BY <1>14
    <3> HIDE DEF h, e, g
    <3> QED
      BY <3>1, <3>2, <3>3
  <2>4. e \in {g + 2, g + 3} /\ (dress = "comma" => e = g + 3)
    BY <2>1, <2>3
  <2>5. raw[g + 1] = "q" /\ raw[e] = "close"
    BY <1>6, <2>2, <2>3
  <2>6. e = g + 3 => raw[g + 2] = (IF dress = "comma" THEN "," ELSE "s")
    BY <1>6, <2>2, <2>3
  <2> QED
    BY <2>4, <2>5, <2>6
<1>21. /\ Len(raw) = IF dress = "fenced" THEN e + 2 ELSE e
       /\ dress = "fenced" => raw[e + 1] = "NL" /\ raw[e + 2] = "fence"
  <2>1. CASE dress = "fenced"
    <3>1. Len(af) = 2 /\ 1 \in 1..Len(af) /\ 2 \in 1..Len(af)
      BY <1>10, <2>1
    <3> QED
      BY <1>10, <1>15, <2>1, <3>1
  <2>2. CASE dress # "fenced"
    <3>1. Len(af) = 0
      BY <1>10, <2>2
    <3> QED
      BY <1>15, <1>16, <2>2, <3>1
  <2> QED
    BY <2>1, <2>2
<1> HIDE DEF g, e
<1>22. Written(raw, dress, b, b + c, key, o, body, g, e)
  BY <1>17, <1>18, <1>19, <1>20, <1>21 DEF Written, g, b
<1> QED
  BY <1>22 DEF raw, b, o, g

(* A text without the white space around it. *)
LEMMA Trimmed ==
    ASSUME NEW raw, NEW cut, NEW t, IsPart(t, raw, 1, cut), cut # 0, raw[1] \notin White
    PROVE  \E e \in 1..cut : /\ raw[e] \notin White /\ \A i \in (e + 1)..cut : raw[i] \in White
                             /\ IsPart(TrimSpace(t), raw, 1, e)
<1>1. cut \in Nat /\ 1 \in Nat /\ 1 <= cut
  BY DEF IsPart
<1>2. PICK e \in 1..cut : raw[e] \notin White /\ \A i \in (e + 1)..cut : raw[i] \in White
  BY <1>1, LastNotIn
<1>3. 1 \in 1..cut
  BY <1>1
<1>4. \A i \in 1..(1 - 1) : raw[i] \in White
  <2>1. ASSUME NEW i \in 1..(1 - 1) PROVE FALSE
    OBVIOUS
  <2> QED
    BY <2>1
<1>5. IsPart(TrimSpace(t), raw, 1, e)
  BY <1>2, <1>3, <1>4, TrimSpaceIs
<1> QED
  BY <1>2, <1>5

(* A part of a text is a text. *)
LEMMA PartTyped ==
    ASSUME NEW u, NEW t, NEW a, NEW b, IsPart(u, t, a, b)
    PROVE  /\ u \in Seq(Symbols) /\ Len(u) = b - a + 1 /\ a \in Nat /\ b \in Nat
           /\ (a <= b => u # <<>> /\ u[1] = t[a] /\ u[Len(u)] = t[b])
<1>1. /\ a \in Nat /\ b \in Nat /\ u \in Seq(Symbols) /\ Len(u) = b - a + 1
      /\ \A j \in 1..(b - a + 1) : u[j] = t[a + j - 1]
  BY PartIs DEF PartBounds
<1>2. ASSUME a <= b PROVE u # <<>> /\ u[1] = t[a] /\ u[Len(u)] = t[b]
  <2> DEFINE l == b - a + 1
  <2>1. l \in Nat /\ l # 0 /\ 1 \in 1..l /\ l \in 1..l /\ a + 1 - 1 = a /\ a + l - 1 = b
    BY <1>1, <1>2
  <2> HIDE DEF l
  <2>2. Len(u) = l /\ \A j \in 1..l : u[j] = t[a + j - 1]
    BY <1>1 DEF l
  <2>3. u # <<>>
    BY <2>1, <2>2
  <2> QED
    BY <2>1, <2>2, <2>3
<1> QED
  BY <1>1, <1>2

(* The first stage finds nothing before the cleaning that it would not     *)
(* find after it.                                                          *)
LEMMA RepairUnfenced ==
    ASSUME NEW t, NEW u, u = TrimSpace(t), u \in Seq(Symbols), u # <<>>,
           u[1] \notin White, u[Len(u)] \notin White, u[1] # "fence"
    PROVE  RepairSyntheticArguments(t) = RepairCleaned(u)
<1>1. StripMarkdownCodeFences(u) = u
  BY DEF StripMarkdownCodeFences, StartsWith
<1>2. Unmarshal(t) = Unmarshal(u)
  <2>1. TrimSpace(u) = u
    BY NothingToTrim
  <2>2. Unmarshal(t) = Object(u)
    BY DEF Unmarshal
  <2>3. Unmarshal(u) = Object(u)
    BY <2>1 DEF Unmarshal
  <2> QED
    BY <2>2, <2>3
<1>3. RepairSyntheticArguments(t) = OrElse(Unmarshal(u), RepairCleaned(u))
  BY <1>1, <1>2 DEF RepairSyntheticArguments
<1>4. \A x, y : OrElse(x, OrElse(x, y)) = OrElse(x, y)
  BY DEF OrElse
<1> QED
  BY <1>3, <1>4 DEF RepairCleaned

(* A text that begins with a fence has its fences stripped before it is repaired. *)
LEMMA RepairFenced ==
    ASSUME NEW t, NEW u, u = TrimSpace(t), u \in Seq(Symbols), u # <<>>, u[1] = "fence"
    PROVE  RepairSyntheticArguments(t) = RepairCleaned(StripMarkdownCodeFences(u))
<1>1. Unmarshal(t) = Undecoded
  BY DEF Unmarshal, Object
<1> QED
  BY <1>1, Outcomes DEF RepairSyntheticArguments

(* What is between the fences. *)
Opened(w) ==
    LET newlines == {i \in DOMAIN w : w[i] = "NL"}
    IN  IF newlines = {} THEN Tail(w) ELSE Rest(w, FirstOf(newlines) + 1)

Unfenced(w) ==
    LET fences == {i \in DOMAIN w : w[i] = "fence"}
    IN  TrimSpace(IF fences = {} THEN w ELSE SubSeq(w, 1, LastOf(fences) - 1))

(* stripMarkdownCodeFences takes the first line away, then the last fence. *)
LEMMA StripIs ==
    ASSUME NEW w \in Seq(Symbols), w # <<>>, w[1] = "fence"
    PROVE  StripMarkdownCodeFences(w) = Unfenced(Opened(w))
BY DEF StripMarkdownCodeFences, StartsWith, Opened, Unfenced

(* Where the first line ends. *)
LEMMA OpenedIs ==
    ASSUME NEW w, NEW raw, NEW e, IsPart(w, raw, 1, e), e >= 4,
           raw[1] = "fence", raw[2] = "other", raw[3] = "NL"
    PROVE  IsPart(Opened(w), raw, 4, e)
<1> DEFINE newlines == {i \in DOMAIN w : w[i] = "NL"}
<1>1. /\ e \in Nat /\ w \in Seq(Symbols) /\ Len(w) = e /\ \A j \in 1..e : w[j] = raw[j]
  <2>1. /\ e \in Nat /\ w \in Seq(Symbols) /\ Len(w) = e - 1 + 1
        /\ \A j \in 1..(e - 1 + 1) : w[j] = raw[1 + j - 1]
    BY PartIs DEF PartBounds
  <2>2. e - 1 + 1 = e
    BY <2>1
  <2>3. \A j \in 1..e : w[j] = raw[j]
    <3>1. ASSUME NEW j \in 1..e PROVE 1 + j - 1 = j
      OBVIOUS
    <3> QED
      BY <2>1, <2>2, <3>1
  <2> QED
    BY <2>1, <2>2, <2>3
<1>2. DOMAIN w = 1..e
  BY <1>1
<1>3. 1 \in 1..e /\ 2 \in 1..e /\ 3 \in 1..e
  BY <1>1
<1>4. 3 \in newlines
  BY <1>1, <1>2, <1>3
<1>5. ASSUME NEW i \in newlines PROVE 3 <= i
  <2>1. i \in 1..e /\ w[i] = "NL"
    BY <1>2
  <2>2. w[1] # "NL" /\ w[2] # "NL"
    <3>1. w[1] = "fence" /\ w[2] = "other"
      BY <1>1, <1>3
    <3> QED
      BY <3>1
  <2>3. i # 1 /\ i # 2
    BY <2>1, <2>2
  <2> QED
    BY <2>1, <2>3
<1>6. newlines \subseteq Int
  BY <1>2
<1>7. newlines # {} /\ FirstOf(newlines) = 3
  <2> HIDE DEF newlines
  <2> QED
    BY <1>4, <1>5, <1>6, FirstIs
<1>8. Opened(w) = Rest(w, 4)
  <2>1. Opened(w) = Rest(w, FirstOf(newlines) + 1)
    BY <1>7 DEF Opened
  <2> QED
    BY <1>7, <2>1
<1>9. IsPart(Rest(w, 4), raw, 1 + 4 - 1, e)
  <2>1. 4 \in Nat /\ 1 <= 4 /\ 4 <= e - 1 + 2
    BY <1>1
  <2> QED
    BY <2>1, RestOfPart
<1> QED
  BY <1>8, <1>9

(* What remains of the symbols s+1 to y: without the white space at the    *)
(* end, those up to x.                                                     *)
Left(c, raw, s, x, y) ==
    /\ IsPart(c, raw, s + 1, x) /\ x \in (s + 1)..y /\ s \in Nat /\ y \in Nat
    /\ raw[x] \notin White /\ \A i \in (x + 1)..y : raw[i] \in White

(* The last fence of the symbols up to cut follows y, if there is one after s. *)
LastFence(raw, s, y, cut) ==
    \/ y = cut /\ \A i \in (s + 1)..cut : raw[i] # "fence"
    \/ y + 1 <= cut /\ raw[y + 1] = "fence" /\ \A i \in (y + 2)..cut : raw[i] # "fence"

(* What is left of a text cut at its last fence, its white space trimmed. *)
LEMMA UnfencedIs ==
    ASSUME NEW w, NEW raw, NEW e, IsPart(w, raw, 4, e), e >= 4,
           raw[4] = "open", raw[e] \notin White
    PROVE  \E x, y : Left(Unfenced(w), raw, 3, x, y) /\ LastFence(raw, 3, y, e)
<1> DEFINE fences == {i \in DOMAIN w : w[i] = "fence"}
           l == e - 4 + 1
<1>1. /\ e \in Nat /\ raw \in Seq(Symbols) /\ e <= Len(raw)
      /\ w \in Seq(Symbols) /\ Len(w) = l /\ \A j \in 1..l : w[j] = raw[4 + j - 1]
  BY PartIs DEF PartBounds
<1>2. l \in Nat /\ DOMAIN w = 1..l /\ e = l + 3 /\ l # 0
  BY <1>1
<1>3. \A j \in 1..l : w[j] = raw[j + 3]
  <2>1. ASSUME NEW j \in 1..l PROVE 4 + j - 1 = j + 3
    BY <1>2
  <2> QED
    BY <1>1, <2>1
<1>4. raw[4] \notin White /\ raw[4] # "fence"
  BY DEF White
<1> HIDE DEF l
<1>5. CASE fences = {}
  <2>1. Unfenced(w) = TrimSpace(w)
    BY <1>5 DEF Unfenced
  <2>2. TrimSpace(w) = w
    <3>1. w # <<>> /\ w[1] = raw[4] /\ w[Len(w)] = raw[e]
      BY PartTyped
    <3> QED
      BY <1>1, <1>4, <3>1, NothingToTrim
  <2>3. e \in (3 + 1)..e /\ 3 \in Nat /\ 3 + 1 = 4
    BY <1>1
  <2>4. \A i \in (e + 1)..e : raw[i] \in White
    <3>1. ASSUME NEW i \in (e + 1)..e PROVE FALSE
      BY <1>1
    <3> QED
      BY <3>1
  <2>5. Left(Unfenced(w), raw, 3, e, e)
    BY <1>1, <2>1, <2>2, <2>3, <2>4 DEF Left
  <2>6. \A i \in (3 + 1)..e : raw[i] # "fence"
    <3>1. ASSUME NEW i \in (3 + 1)..e PROVE raw[i] # "fence"
      <4> DEFINE h == i - 3
      <4>1. h \in 1..l /\ h + 3 = i
        BY <1>2
      <4> HIDE DEF h
      <4>2. w[h] # "fence"
        BY <1>2, <1>5, <4>1
      <4> QED
        BY <1>3, <4>1, <4>2
    <3> QED
      BY <3>1
  <2>7. LastFence(raw, 3, e, e)
    BY <2>6 DEF LastFence
  <2> QED
    BY <2>5, <2>7
<1>6. CASE fences # {}
  <2> DEFINE cutset == Symbols \ {"fence"}
  <2>1. \A j \in 1..l : w[j] \notin cutset <=> w[j] = "fence"
    <3>1. \A j \in 1..l : w[j] \in Symbols
      BY <1>1
    <3> QED
      BY <3>1
  <2>2. PICK i \in fences : TRUE
    BY <1>6
  <2>3. i \in 1..l /\ i \in Nat /\ i <= l /\ w[i] \notin cutset
    <3>1. i \in 1..l /\ w[i] = "fence"
      BY <1>2
    <3> QED
      BY <2>1, <3>1
  <2> HIDE DEF cutset
  <2>4. PICK z \in i..l : w[z] \notin cutset /\ \A j \in (z + 1)..l : w[j] \in cutset
    BY <1>2, <2>3, LastNotIn
  <2>5. z \in 1..l
    BY <1>2, <2>3
  <2>6. w[z] = "fence"
    BY <2>1, <2>4, <2>5
  <2>7. ASSUME NEW j \in fences PROVE j <= z
    <3>1. j \in 1..l /\ w[j] = "fence"
      BY <1>2
    <3>2. j \notin (z + 1)..l
      BY <2>1, <2>4, <3>1
    <3> QED
      BY <1>2, <2>5, <3>1, <3>2
  <2>8. z \in fences /\ fences \subseteq Int
    BY <1>2, <2>5, <2>6
  <2>9. LastOf(fences) = z
    <3> HIDE DEF fences
    <3> QED
      BY <2>7, <2>8, LastIs
  <2> DEFINE y == z + 2
             a == z - 1
             u == SubSeq(w, 1, a)
  <2>10. z # 1
    <3>1. 1 \in 1..l /\ 1 + 3 = 4
      BY <1>2
    <3>2. w[1] = raw[4]
      BY <1>3, <3>1
    <3> QED
      BY <1>4, <2>6, <3>2
  <2>11. /\ a \in Nat /\ 1 <= a /\ 1 <= a + 1 /\ a <= Len(w) /\ 1 \in Nat
         /\ y \in Nat /\ 4 + 1 - 1 = 4 /\ 4 + a - 1 = y /\ 4 <= y /\ y + 1 = z + 3 /\ y + 1 <= e
         /\ z + 3 \in 1..e
    BY <1>1, <1>2, <2>5, <2>10
  <2>12. IsPart(u, raw, 4, y)
    <3>1. IsPart(u, w, 1, a)
      BY <1>1, <2>11 DEF IsPart
    <3> HIDE DEF u, a, y
    <3>2. IsPart(u, raw, 4 + 1 - 1, 4 + a - 1)
      BY <3>1, PartOfPart
    <3> QED
      BY <2>11, <3>2
  <2>13. Unfenced(w) = TrimSpace(u)
    BY <1>6, <2>9 DEF Unfenced
  <2>14. PICK x \in 4..y : raw[x] \notin White /\ \A j \in (x + 1)..y : raw[j] \in White
    <3>1. 4 \in Nat
      OBVIOUS
    <3>2. raw[4] \notin White /\ y \in Nat /\ 4 <= y
      BY <1>4, <2>11
    <3> HIDE DEF y
    <3> DEFINE h == 4
    <3>3. h \in Nat /\ h <= y /\ raw[h] \notin White
      BY <3>1, <3>2
    <3> HIDE DEF h
    <3>4. \E x \in h..y : raw[x] \notin White /\ \A j \in (x + 1)..y : raw[j] \in White
      BY <3>2, <3>3, LastNotIn
    <3> QED
      BY <3>4 DEF h
  <2> HIDE DEF u, a, y
  <2>15. IsPart(TrimSpace(u), raw, 4, x)
    <3>1. 4 \in 4..y
      BY <2>11
    <3>2. \A j \in 4..(4 - 1) : raw[j] \in White
      <4>1. ASSUME NEW j \in 4..(4 - 1) PROVE FALSE
        OBVIOUS
      <4> QED
        BY <4>1
    <3> QED
      BY <1>4, <2>12, <2>14, <3>1, <3>2, TrimSpaceIs
  <2>16. Left(Unfenced(w), raw, 3, x, y)
    <3>1. 3 + 1 = 4 /\ 3 \in Nat
      OBVIOUS
    <3> QED
      BY <2>11, <2>13, <2>14, <2>15, <3>1 DEF Left
  <2>17. raw[y + 1] = "fence"
    BY <1>3, <2>5, <2>6, <2>11
  <2>18. \A j \in (y + 2)..e : raw[j] # "fence"
    <3>1. ASSUME NEW j \in (y + 2)..e PROVE raw[j] # "fence"
      <4> DEFINE h == j - 3
      <4>1. h \in (z + 1)..l /\ h \in 1..l /\ h + 3 = j
        BY <1>2, <2>5, <2>11
      <4> HIDE DEF h
      <4>2. w[h] # "fence"
        BY <2>1, <2>4, <4>1
      <4> QED
        BY <1>3, <4>1, <4>2
    <3> QED
      BY <3>1
  <2>19. LastFence(raw, 3, y, e)
    BY <2>11, <2>17, <2>18 DEF LastFence
  <2> QED
    BY <2>16, <2>19
<1> QED
  BY <1>5, <1>6

Fence(dress) == IF dress = "fenced" THEN 3 ELSE 0

(* What is left after the cleaning of the first cut symbols of a text:     *)
(* nothing to speak of, or a part of the object.                           *)
CleaningOf(c, raw, dress, cut) ==
    \/ Braceless(c) /\ cut <= 3
    \/ \E x, y : /\ Left(c, raw, Fence(dress), x, y)
                 /\ IF dress = "fenced" THEN LastFence(raw, 3, y, cut) ELSE y = cut

(* What holds of a text that was written. *)
LEMMA WrittenTyped ==
    ASSUME NEW raw, NEW dress, NEW b, NEW n, NEW key, NEW o, NEW body, NEW g, NEW e,
           Written(raw, dress, b, n, key, o, body, g, e)
    PROVE  /\ raw \in Seq(Symbols) /\ Len(raw) \in Nat /\ b \in Nat /\ n \in Nat /\ o \in Nat
           /\ o >= b + 6 /\ g \in Nat /\ g >= o /\ e \in Nat /\ e \in {g + 2, g + 3} /\ e <= Len(raw)
           /\ b = Ahead(dress) /\ Begins(raw, b, n, key, o)
           /\ body \in Seq(Items) /\ Holds(raw, o, body, Len(body))
           /\ g = o + EndOf(body, Len(body)) /\ EndOf(body, Len(body)) \in Nat
           /\ raw[b + 1] = "open" /\ raw[1] \notin White
           /\ (dress # "fenced" => raw[1] # "fence")
<1>1. /\ b = Ahead(dress) /\ Begins(raw, b, n, key, o) /\ Holds(raw, o, body, Len(body))
      /\ g = o + EndOf(body, Len(body)) /\ e \in {g + 2, g + 3}
      /\ (dress = "prose" => raw[1] = "other")
      /\ (dress = "fenced" => raw[1] = "fence")
      /\ Len(raw) = IF dress = "fenced" THEN e + 2 ELSE e
  BY DEF Written
<1>2. /\ raw \in Seq(Symbols) /\ Len(raw) \in Nat /\ b \in Nat /\ n \in Nat /\ o \in Nat
      /\ o >= b + 6 /\ raw[b + 1] = "open"
  BY <1>1, BeginsTyped
<1>3. body \in Seq(Items) /\ Len(body) \in 0..Len(body)
  BY <1>1 DEF Holds
<1>4. EndOf(body, Len(body)) \in Nat
  BY <1>3, Ends
<1>5. g \in Nat /\ g >= o
  <2>1. g = o + EndOf(body, Len(body)) /\ o \in Nat
    BY <1>1, <1>2
  <2> QED
    BY <1>4, <2>1
<1>6. e \in Nat
  <2>1. e \in {g + 2, g + 3}
    BY <1>1
  <2> QED
    BY <1>5, <2>1
<1>7. e <= Len(raw)
  <2>1. Len(raw) = e \/ Len(raw) = e + 2
    BY <1>1
  <2> QED
    BY <1>6, <2>1
<1>8. raw[1] \notin White /\ (dress # "fenced" => raw[1] # "fence")
  <2>1. \A s \in {"open", "other", "fence"} : s \notin White
    BY DEF White
  <2>2. CASE dress = "prose"
    BY <1>1, <2>1, <2>2
  <2>3. CASE dress = "fenced"
    BY <1>1, <2>1, <2>3
  <2>4. CASE dress # "prose" /\ dress # "fenced"
    <3>1. b = 0
      BY <1>1, <2>4 DEF Ahead
    <3>2. raw[1] = "open"
      BY <1>2, <3>1
    <3> QED
      BY <2>1, <3>2
  <2> QED
    BY <2>2, <2>3, <2>4
<1> QED
  BY <1>1, <1>2, <1>3, <1>4, <1>5, <1>6, <1>7, <1>8

(* Of nothing, nothing is left. *)
LEMMA EmptyCleaning ==
    ASSUME NEW cut, cut = 0
    PROVE  /\ RepairSyntheticArguments(<<>>) = RepairCleaned(<<>>)
           /\ Braceless(<<>>) /\ cut <= 3
<1>1. TrimSpace(<<>>) = <<>>
  BY DEF TrimSpace, TrimLeft, TrimRight, Blank
<1>2. Unmarshal(<<>>) = Undecoded
  BY <1>1 DEF Unmarshal, Object
<1>3. StripMarkdownCodeFences(<<>>) = <<>>
  BY DEF StripMarkdownCodeFences, StartsWith
<1>4. Braceless(<<>>)
  BY DEF Braceless, Valueless
<1> QED
  BY <1>1, <1>2, <1>3, <1>4, Outcomes DEF RepairSyntheticArguments

(* Of a text without fences TrimSpace alone takes away. *)
LEMMA CleaningUnfenced ==
    ASSUME NEW raw, NEW cut, NEW t, IsPart(t, raw, 1, cut), cut # 0, raw[1] \notin White,
           raw[1] # "fence"
    PROVE  \E c, x : /\ RepairSyntheticArguments(t) = RepairCleaned(c)
                     /\ Left(c, raw, 0, x, cut)
<1> DEFINE u == TrimSpace(t)
<1>1. PICK e \in 1..cut : /\ raw[e] \notin White /\ \A i \in (e + 1)..cut : raw[i] \in White
                          /\ IsPart(u, raw, 1, e)
  BY Trimmed
<1>2. cut \in Nat
  BY DEF IsPart
<1>3. e \in Nat /\ 1 <= e
  BY <1>2
<1> HIDE DEF u
<1>4. u \in Seq(Symbols) /\ u # <<>> /\ u[1] = raw[1] /\ u[Len(u)] = raw[e]
  BY <1>1, <1>3, PartTyped
<1>5. RepairSyntheticArguments(t) = RepairCleaned(u)
  BY <1>1, <1>4, RepairUnfenced DEF u
<1>6. Left(u, raw, 0, e, cut)
  <2>1. 0 + 1 = 1 /\ 0 \in Nat
    OBVIOUS
  <2> QED
    BY <1>1, <1>2, <2>1 DEF Left
<1> QED
  BY <1>5, <1>6

(* A single word has no brace. *)
LEMMA OneWordBraceless ==
    ASSUME NEW c \in Seq(Symbols), Len(c) = 1, c[1] = "other"
    PROVE  Braceless(c) /\ Unfenced(c) = c
<1>1. DOMAIN c = 1..1
  OBVIOUS
<1>2. \A i \in 1..Len(c) : c[i] = "other"
  OBVIOUS
<1>3. {i \in DOMAIN c : c[i] = "fence"} = {}
  BY <1>1, <1>2
<1>4. TrimSpace(c) = c
  <2>1. c # <<>> /\ c[1] \notin White /\ c[Len(c)] \notin White
    BY DEF White
  <2> QED
    BY <2>1, NothingToTrim
<1>5. Unfenced(c) = c
  BY <1>3, <1>4 DEF Unfenced
<1>6. Valueless(c)
  BY <1>2 DEF Valueless
<1>7. Braceless(c)
  BY <1>2, <1>6 DEF Braceless
<1> QED
  BY <1>5, <1>7

(* What is left of the first symbols of a fenced text. *)
LEMMA CleaningFenced ==
    ASSUME NEW raw, NEW cut, NEW t, IsPart(t, raw, 1, cut), cut # 0, raw[1] = "fence",
           raw[2] = "other", raw[3] = "NL", raw[4] = "open"
    PROVE  \E c : /\ RepairSyntheticArguments(t) = RepairCleaned(c)
                  /\ \/ Braceless(c) /\ cut <= 3
                     \/ \E x, y : Left(c, raw, 3, x, y) /\ LastFence(raw, 3, y, cut)
<1> DEFINE u == TrimSpace(t)
           c == Unfenced(Opened(u))
<1>1. raw[1] \notin White
  BY DEF White
<1>2. PICK e \in 1..cut : /\ raw[e] \notin White /\ \A i \in (e + 1)..cut : raw[i] \in White
                          /\ IsPart(u, raw, 1, e)
  BY <1>1, Trimmed
<1>3. cut \in Nat /\ raw \in Seq(Symbols)
  BY DEF IsPart
<1>4. e \in Nat /\ 1 <= e /\ e <= cut
  BY <1>3
<1> HIDE DEF u
<1>5. u \in Seq(Symbols) /\ u # <<>> /\ u[1] = "fence" /\ Len(u) = e - 1 + 1
  <2>1. IsPart(u, raw, 1, e)
    BY <1>2
  <2>2. PartBounds(u, raw, 1, e)
    BY <2>1, PartIs
  <2>3. u \in Seq(Symbols) /\ Len(u) = e - 1 + 1 /\ \A j \in 1..(e - 1 + 1) : u[j] = raw[1 + j - 1]
    BY <2>2 DEF PartBounds
  <2>4. u[1] = raw[1]
    <3>1. 1 \in 1..(e - 1 + 1) /\ 1 + 1 - 1 = 1
      BY <1>4
    <3> QED
      BY <2>3, <3>1
  <2>5. u # <<>>
    BY <1>4, <2>3
  <2> QED
    BY <2>3, <2>4, <2>5
<1>6. RepairSyntheticArguments(t) = RepairCleaned(c)
  <2>1. RepairSyntheticArguments(t) = RepairCleaned(StripMarkdownCodeFences(u))
    BY <1>5, RepairFenced DEF u
  <2>2. StripMarkdownCodeFences(u) = c
    BY <1>5, StripIs
  <2> QED
    BY <2>1, <2>2
<1>7. e # 3
  <2>1. raw[3] \in White
    BY DEF White
  <2> QED
    BY <1>2, <2>1
<1>8. CASE e >= 4
  <2>1. IsPart(Opened(u), raw, 4, e)
    BY <1>2, <1>8, OpenedIs
  <2>2. PICK x, y : Left(c, raw, 3, x, y) /\ LastFence(raw, 3, y, e)
    <3> DEFINE w == Opened(u)
    <3> HIDE DEF w
    <3>1. IsPart(w, raw, 4, e)
      BY <2>1 DEF w
    <3>2. raw[e] \notin White
      BY <1>2
    <3>3. \E x, y : Left(Unfenced(w), raw, 3, x, y) /\ LastFence(raw, 3, y, e)
      BY <1>8, <3>1, <3>2, UnfencedIs
    <3> QED
      BY <3>3 DEF w
  <2>3. \A i \in (e + 1)..cut : raw[i] # "fence"
    <3>1. \A s \in White : s # "fence"
      BY DEF White
    <3> QED
      BY <1>2, <3>1
  <2> HIDE DEF c
  <2>4. IsPart(c, raw, 3 + 1, x) /\ x \in (3 + 1)..y /\ y \in Nat
        /\ raw[x] \notin White /\ \A i \in (x + 1)..y : raw[i] \in White
    BY <2>2 DEF Left
  <2>5. CASE y = e /\ \A i \in (3 + 1)..e : raw[i] # "fence"
    <3>1. x = e
      <4>1. e \notin (x + 1)..y
        BY <1>2, <2>4
      <4>2. x \in 4..y
        BY <2>4
      <4> QED
        BY <1>4, <2>5, <4>1, <4>2
    <3>2. x \in (3 + 1)..cut
      BY <1>3, <1>4, <1>8, <3>1
    <3>3. 3 \in Nat
      OBVIOUS
    <3>4. Left(c, raw, 3, x, cut)
      BY <1>2, <1>3, <2>4, <3>1, <3>2, <3>3 DEF Left
    <3>5. \A i \in (3 + 1)..cut : raw[i] # "fence"
      <4>1. ASSUME NEW i \in (3 + 1)..cut PROVE i \in (3 + 1)..e \/ i \in (e + 1)..cut
        BY <1>3, <1>4
      <4> QED
        BY <2>3, <2>5, <4>1
    <3>6. LastFence(raw, 3, cut, cut)
      BY <3>5 DEF LastFence
    <3> QED
      BY <1>6, <3>4, <3>6
  <2>6. CASE y + 1 <= e /\ raw[y + 1] = "fence" /\ \A i \in (y + 2)..e : raw[i] # "fence"
    <3>1. y + 1 <= cut
      BY <1>3, <1>4, <2>4, <2>6
    <3>2. \A i \in (y + 2)..cut : raw[i] # "fence"
      <4>1. ASSUME NEW i \in (y + 2)..cut PROVE i \in (y + 2)..e \/ i \in (e + 1)..cut
        BY <1>3, <1>4, <2>4
      <4> QED
        BY <2>3, <2>6, <4>1
    <3>3. LastFence(raw, 3, y, cut)
      BY <2>6, <3>1, <3>2 DEF LastFence
    <3> QED
      BY <1>6, <2>2, <3>3
  <2> QED
    BY <2>2, <2>5, <2>6 DEF LastFence
<1>9. CASE e \in {1, 2}
  <2>1. cut <= 3
    <3>1. raw[4] \notin White
      BY DEF White
    <3>2. 4 \notin (e + 1)..cut
      BY <1>2, <3>1
    <3> QED
      BY <1>3, <1>9, <3>2
  <2>2. DOMAIN u = 1..e /\ \A i \in 1..e : u[i] # "NL"
    <3>1. /\ \A j \in 1..(e - 1 + 1) : u[j] = raw[1 + j - 1]
      BY <1>2, PartIs DEF PartBounds
    <3>2. e - 1 + 1 = e
      BY <1>4
    <3>3. \A j \in 1..e : 1 + j - 1 = j /\ (j = 1 \/ j = 2)
      BY <1>9
    <3>4. \A j \in 1..e : u[j] = raw[j] /\ raw[j] # "NL"
      <4>1. raw[1] # "NL" /\ raw[2] # "NL"
        OBVIOUS
      <4> QED
        BY <3>1, <3>2, <3>3, <4>1
    <3> QED
      BY <1>5, <3>2, <3>4
  <2>3. {i \in DOMAIN u : u[i] = "NL"} = {}
    BY <2>2
  <2>4. Opened(u) = Tail(u)
    BY <2>3 DEF Opened
  <2>5. IsPart(Tail(u), raw, 2, e)
    <3>1. IsPart(Tail(u), raw, 1 + 1, e)
      BY <1>2, <1>4, TailOfPart
    <3> QED
      BY <3>1
  <2> DEFINE v == Tail(u)
  <2> HIDE DEF v
  <2>6. v \in Seq(Symbols) /\ Len(v) = e - 2 + 1 /\ \A j \in 1..(e - 2 + 1) : v[j] = raw[2 + j - 1]
    BY <2>5, PartIs DEF PartBounds, v
  <2>7. Braceless(c)
    <3>1. CASE e = 1
      <4>1. v = <<>>
        BY <2>6, <3>1
      <4>2. Unfenced(<<>>) = <<>>
        BY DEF Unfenced, TrimSpace, TrimLeft, TrimRight, Blank
      <4>3. c = <<>>
        BY <2>4, <4>1, <4>2 DEF v
      <4> HIDE DEF c
      <4> DEFINE nothing == 0
      <4>4. Braceless(<<>>)
        <5>1. nothing = 0
          OBVIOUS
        <5> HIDE DEF nothing
        <5> QED
          BY <5>1, EmptyCleaning
      <4> QED
        BY <4>3, <4>4
    <3>2. CASE e = 2
      <4>1. Len(v) = 1 /\ v[1] = "other"
        <5>1. e - 2 + 1 = 1 /\ 1 \in 1..1 /\ 2 + 1 - 1 = 2
          BY <3>2
        <5>2. v[1] = raw[2]
          BY <2>6, <5>1
        <5> QED
          BY <2>6, <5>1, <5>2
      <4>2. Braceless(v) /\ Unfenced(v) = v
        BY <2>6, <4>1, OneWordBraceless
      <4>3. c = v
        BY <2>4, <4>2 DEF v
      <4> HIDE DEF c
      <4> QED
        BY <4>2, <4>3
    <3> QED
      BY <1>9, <3>1, <3>2
  <2> HIDE DEF c
  <2> QED
    BY <1>6, <2>1, <2>7
<1>10. e >= 4 \/ e \in {1, 2}
  BY <1>4, <1>7
<1> QED
  BY <1>8, <1>9, <1>10

(* Trimming and stripping leave the first symbols of what was written, from its object on. *)
LEMMA Cleaning ==
    ASSUME NEW raw, NEW dress, NEW b, NEW n, NEW key, NEW o, NEW body, NEW g, NEW e,
           Written(raw, dress, b, n, key, o, body, g, e), NEW cut \in 0..Len(raw),
           NEW t, t = SubSeq(raw, 1, cut)
    PROVE  \E c : /\ RepairSyntheticArguments(t) = RepairCleaned(c)
                  /\ CleaningOf(c, raw, dress, cut)
<1>1. /\ raw \in Seq(Symbols) /\ Len(raw) \in Nat /\ raw[1] \notin White
      /\ (dress # "fenced" => raw[1] # "fence") /\ raw[b + 1] = "open"
      /\ b = Ahead(dress)
  BY WrittenTyped
<1>2. CASE cut = 0
  <2>1. t = <<>>
    BY <1>2
  <2> QED
    BY <1>2, <2>1, EmptyCleaning DEF CleaningOf
<1>3. CASE cut # 0
  <2>1. IsPart(t, raw, 1, cut)
    <3>1. cut \in Nat /\ 1 \in Nat /\ 1 <= cut + 1 /\ cut <= Len(raw)
      BY <1>1
    <3> QED
      BY <1>1, <3>1 DEF IsPart
  <2>2. CASE dress # "fenced"
    <3>1. PICK c, x : /\ RepairSyntheticArguments(t) = RepairCleaned(c)
                      /\ Left(c, raw, 0, x, cut)
      BY <1>1, <1>3, <2>1, <2>2, CleaningUnfenced
    <3>2. CleaningOf(c, raw, dress, cut)
      BY <2>2, <3>1 DEF CleaningOf, Fence
    <3> QED
      BY <3>1, <3>2
  <2>3. CASE dress = "fenced"
    <3>1. raw[1] = "fence" /\ raw[2] = "other" /\ raw[3] = "NL"
      BY <2>3 DEF Written
    <3>2. raw[4] = "open"
      <4>1. b + 1 = 4
        BY <1>1, <2>3 DEF Ahead
      <4> QED
        BY <1>1, <4>1
    <3>3. PICK c : /\ RepairSyntheticArguments(t) = RepairCleaned(c)
                   /\ \/ Braceless(c) /\ cut <= 3
                      \/ \E x, y : Left(c, raw, 3, x, y) /\ LastFence(raw, 3, y, cut)
      BY <1>3, <2>1, <3>1, <3>2, CleaningFenced
    <3>4. CleaningOf(c, raw, dress, cut)
      BY <2>3, <3>3 DEF CleaningOf, Fence
    <3> QED
      BY <3>3, <3>4
  <2> QED
    BY <2>2, <2>3
<1> QED
  BY <1>2, <1>3

(* A part of an item's text that is not all of it. *)
LEMMA HalvedItem ==
    ASSUME NEW w, NEW g, NEW i, ItemAt(w, g, i), NEW l \in Nat, l # 0, l < Len(Source[i])
    PROVE  Halved(w, g, l) /\ l \in 1..5
<1>1. Shows(w, g, Source[i]) /\ i \in Items /\ g \in Nat
  BY DEF ItemAt
<1>2. CASE i \in Singles
  <2>1. Len(Source[i]) = 1
    BY <1>1, <1>2, SymbolsOf
  <2> QED
    BY <2>1
<1>3. CASE i = "rune"
  <2>1. Len(Source[i]) = 2 /\ w[g + 1] = "r1"
    BY <1>1, <1>3, SymbolsOf
  <2>2. l = 1
    BY <2>1
  <2> QED
    BY <2>1, <2>2 DEF Halved
<1>4. CASE i \in {"newline", "quote", "backslash"}
  <2>1. Len(Source[i]) = 2 /\ w[g + 1] = "\\"
    <3>1. i = "newline" => Len(Source[i]) = 2 /\ w[g + 1] = "\\"
      BY <1>1, SymbolsOf
    <3>2. i = "quote" => Len(Source[i]) = 2 /\ w[g + 1] = "\\"
      BY <1>1, SymbolsOf
    <3>3. i = "backslash" => Len(Source[i]) = 2 /\ w[g + 1] = "\\"
      BY <1>1, SymbolsOf
    <3> QED
      BY <1>4, <3>1, <3>2, <3>3
  <2>2. l = 1
    BY <2>1
  <2> QED
    BY <2>1, <2>2 DEF Halved
<1>5. CASE i = "unicode"
  <2>1. Len(Source[i]) = 3 /\ w[g + 1] = "\\" /\ w[g + 2] = "u"
    BY <1>1, <1>5, SymbolsOf
  <2>2. l = 1 \/ l = 2
    BY <2>1
  <2> QED
    BY <2>1, <2>2 DEF Halved
<1>6. CASE i = "pair"
  <2>1. /\ Len(Source[i]) = 6 /\ w[g + 1] = "\\" /\ w[g + 2] = "u" /\ w[g + 3] = "H"
        /\ w[g + 4] = "\\" /\ w[g + 5] = "u"
    BY <1>1, <1>6, SymbolsOf
  <2>2. l = 1 \/ l = 2 \/ l = 3 \/ l = 4 \/ l = 5
    BY <2>1
  <2> QED
    BY <2>1, <2>2 DEF Halved
<1> QED
  BY <1>1, <1>2, <1>3, <1>4, <1>5, <1>6, ItemIsOne DEF Singles

(* What remains of a text, and where it was in it.                         *)
Remains(c, raw, dress, s, b, n, key, o, body, g, e, x, y) ==
    /\ s = Fence(dress) /\ Written(raw, dress, b, n, key, o, body, g, e)
    /\ Left(c, raw, s, x, y) /\ ~Ambiguous(body)

(* What holds of a text that remains. *)
LEMMA RemainsTyped ==
    ASSUME NEW c, NEW raw, NEW dress, NEW s, NEW b, NEW n, NEW key, NEW o, NEW body, NEW g, NEW e,
           NEW x, NEW y, Remains(c, raw, dress, s, b, n, key, o, body, g, e, x, y)
    PROVE  /\ s \in Nat /\ b \in Nat /\ (b = s \/ b = s + 2)
           /\ (b # s => s = 0 /\ raw[1] = "other" /\ raw[2] = "s")
           /\ x \in Nat /\ y \in Nat /\ s + 1 <= x /\ x <= y /\ x <= Len(raw)
           /\ c \in Seq(Symbols) /\ Len(c) = x - s /\ (\A i \in 1..(x - s) : c[i] = raw[s + i])
           /\ raw[x] \notin White /\ (\A i \in (x + 1)..y : raw[i] \in White)
           /\ IsPart(c, raw, s + 1, x)
           /\ Written(raw, dress, b, n, key, o, body, g, e) /\ ~Ambiguous(body)
<1>1. Written(raw, dress, b, n, key, o, body, g, e)
  BY DEF Remains
<1>2. b = Ahead(dress) /\ Len(raw) \in Nat
  BY <1>1, WrittenTyped
<1>3. s \in Nat /\ b \in Nat /\ (b = s \/ b = s + 2) /\ (b # s => s = 0 /\ dress = "prose")
  BY <1>2 DEF Remains, Fence, Ahead
<1>4. b # s => raw[1] = "other" /\ raw[2] = "s"
  BY <1>1, <1>3 DEF Written
<1>5. IsPart(c, raw, s + 1, x) /\ x \in (s + 1)..y /\ y \in Nat
      /\ raw[x] \notin White /\ \A i \in (x + 1)..y : raw[i] \in White
  BY DEF Remains, Left
<1>6. x \in Nat /\ s + 1 <= x /\ x <= y
  BY <1>3, <1>5
<1>7. PartBounds(c, raw, s + 1, x)
  BY <1>5, PartIs
<1>8. /\ c \in Seq(Symbols) /\ Len(c) = x - (s + 1) + 1 /\ x <= Len(raw)
      /\ \A i \in 1..(x - (s + 1) + 1) : c[i] = raw[(s + 1) + i - 1]
  BY <1>7 DEF PartBounds
<1>9. x - (s + 1) + 1 = x - s /\ \A i \in 1..(x - s) : (s + 1) + i - 1 = s + i
  BY <1>3, <1>6
<1>10. Len(c) = x - s /\ \A i \in 1..(x - s) : c[i] = raw[s + i]
  BY <1>8, <1>9
<1> QED
  BY <1>1, <1>3, <1>4, <1>5, <1>6, <1>8, <1>10 DEF Remains

(* Cut before the string. *)
LEMMA BeforeString ==
    ASSUME NEW c, NEW raw, NEW dress, NEW s, NEW b, NEW n, NEW key, NEW o, NEW body, NEW g, NEW e,
           NEW x, NEW y, Remains(c, raw, dress, s, b, n, key, o, body, g, e, x, y), x < o
    PROVE  RepairCleaned(c) = Undecoded
<1>1. /\ s \in Nat /\ b \in Nat /\ (b = s \/ b = s + 2)
      /\ (b # s => s = 0 /\ raw[1] = "other" /\ raw[2] = "s")
      /\ x \in Nat /\ s + 1 <= x /\ x <= Len(raw)
      /\ c \in Seq(Symbols) /\ Len(c) = x - s /\ (\A i \in 1..(x - s) : c[i] = raw[s + i])
      /\ raw[x] \notin White
      /\ Written(raw, dress, b, n, key, o, body, g, e)
  BY RemainsTyped
<1>2. Begins(raw, b, n, key, o) /\ Len(raw) \in Nat /\ n \in Nat /\ o \in Nat
  BY <1>1, WrittenTyped
<1>3. CASE x <= b
  <2>1. s = 0 /\ raw[1] = "other" /\ raw[2] = "s" /\ (x = 1 \/ x = 2)
    BY <1>1, <1>3
  <2>2. x # 2
    BY <1>1, <2>1 DEF White
  <2>3. x = 1 /\ 1 \in 1..(x - s) /\ s + 1 = 1 /\ x - s = 1
    BY <2>1, <2>2
  <2>4. Len(c) = 1 /\ c[1] = "other"
    BY <1>1, <2>1, <2>3
  <2>5. Braceless(c)
    BY <1>1, <2>4, OneWordBraceless
  <2> QED
    BY <2>5, BracelessUndecoded
<1>4. CASE b < x
  <2> DEFINE j == b - s
             p == x - b
             d == Rest(c, j + 1)
             h == n - b
             q == o - b
  <2>1. (j = 0 \/ j = 2) /\ p \in Nat /\ p # 0 /\ j + p = x - s /\ s + j = b /\ p < q
    BY <1>1, <1>2, <1>4
  <2>2. (h = 5 \/ h = 6) /\ (q = h + 1 \/ q = h + 2) /\ b + h = n /\ b + q = o
    BY <1>1, <1>2 DEF Begins
  <2>3. \A i \in 1..p : c[j + i] = raw[b + i]
    <3> TAKE i \in 1..p
    <3>1. j + i \in 1..(x - s) /\ s + (j + i) = b + i
      BY <1>1, <2>1
    <3> QED
      BY <1>1, <3>1
  <2>4. Prose(c, j)
    <3>1. CASE j = 0
      BY <3>1 DEF Prose
    <3>2. CASE j # 0
      <4>1. j = 2 /\ s = 0 /\ 1 \in 1..(x - s) /\ 2 \in 1..(x - s) /\ s + 1 = 1 /\ s + 2 = 2
        BY <1>1, <1>4, <2>1, <3>2
      <4>2. c[1] = raw[1] /\ c[2] = raw[2]
        BY <1>1, <4>1
      <4>3. raw[1] = "other" /\ raw[2] = "s"
        BY <1>1, <2>1, <3>2
      <4> HIDE DEF j
      <4> QED
        BY <4>1, <4>2, <4>3 DEF Prose
    <3> QED
      BY <3>1, <3>2
  <2> HIDE DEF j, p, h, q
  <2>5. Len(c) = j + p
    BY <1>1, <2>1
  <2>6. d \in Seq(Symbols) /\ Len(d) = p /\ \A i \in 1..p : d[i] = c[j + i]
    <3>1. j \in Nat /\ 1 <= j + 1 /\ j + 1 <= Len(c) + 1 /\ j + 1 \in Nat
      BY <2>1, <2>5
    <3> DEFINE a == j + 1
               m == Len(c)
    <3>2. IsPart(c, c, 1, m)
      BY <1>1, WholeIs
    <3>3. a \in Nat /\ 1 <= a /\ a <= m - 1 + 2 /\ 1 + a - 1 = j + 1 /\ m - (j + 1) + 1 = p
      BY <2>1, <2>5
    <3> HIDE DEF a, m
    <3>4. IsPart(Rest(c, a), c, 1 + a - 1, m)
      BY <3>2, <3>3, RestOfPart
    <3>5. IsPart(d, c, j + 1, m)
      BY <3>3, <3>4 DEF d, a
    <3>6. PartBounds(d, c, j + 1, m)
      BY <3>5, PartIs
    <3>7. /\ d \in Seq(Symbols) /\ Len(d) = m - (j + 1) + 1
          /\ \A i \in 1..(m - (j + 1) + 1) : d[i] = c[(j + 1) + i - 1]
      BY <3>6 DEF PartBounds
    <3>8. \A i \in 1..p : (j + 1) + i - 1 = j + i
      BY <2>1
    <3> QED
      BY <3>3, <3>7, <3>8
  <2> HIDE DEF d
  <2>7. \A i \in 1..p : d[i] = raw[b + i]
    BY <2>3, <2>6
  <2>8. Starts(d, h, key, q, p)
    <3>1. /\ key \in {"content", "text", "other"}
          /\ raw[b + 1] = "open" /\ raw[b + 2] = "q" /\ raw[b + 3] = key /\ raw[b + 4] = "q"
          /\ (n = b + 6 => raw[b + 5] = "s") /\ raw[n] = ":" /\ (o = n + 2 => raw[n + 1] = "s")
      BY <1>2 DEF Begins
    <3>2. \A i \in {1, 2, 3, 4, 5, h, h + 1} : p >= i => i \in 1..p
      BY <2>1, <2>2
    <3>3. (p >= 1 => d[1] = "open") /\ (p >= 2 => d[2] = "q") /\ (p >= 3 => d[3] = key)
          /\ (p >= 4 => d[4] = "q")
      BY <2>7, <3>1, <3>2
    <3>4. p >= 5 /\ h = 6 => d[5] = "s"
      <4>1. h = 6 => n = b + 6
        BY <2>2, <1>1
      <4> QED
        BY <2>7, <3>1, <3>2, <4>1
    <3>5. p >= h => d[h] = ":"
      BY <2>2, <2>7, <3>1, <3>2
    <3>6. p >= h + 1 /\ q = h + 2 => d[h + 1] = "s"
      <4>1. q = h + 2 => o = n + 2
        BY <1>1, <1>2, <2>2, SMTT(30)
      <4>2. b + (h + 1) = n + 1
        BY <1>1, <2>2
      <4> QED
        BY <2>7, <3>1, <3>2, <4>1, <4>2
    <3>7. p \in 0..q /\ p <= Len(d) /\ ~(p >= q) /\ h \in {5, 6} /\ q \in {h + 1, h + 2}
      BY <2>1, <2>2, <2>6
    <3> QED
      BY <2>6, <3>1, <3>3, <3>4, <3>5, <3>6, <3>7 DEF Starts
  <2>9. Begun(c, j, h, key, q, p)
    <3>1. p \in 1..(q - 1)
      BY <2>1, <2>2
    <3> QED
      BY <1>1, <2>4, <2>5, <2>8, <3>1 DEF Begun, d
  <2> QED
    BY <2>9, BegunUndecoded
<1> QED
  BY <1>1, <1>3, <1>4

(* Cut after the quote that opens the string. *)
LEMMA AfterOpening ==
    ASSUME NEW c, NEW raw, NEW dress, NEW s, NEW b, NEW n, NEW key, NEW o, NEW body, NEW g, NEW e,
           NEW x, NEW y, Remains(c, raw, dress, s, b, n, key, o, body, g, e, x, y), o <= x
    PROVE  Prose(c, b - s) /\ Begins(c, b - s, n - s, key, o - s)
<1>1. /\ s \in Nat /\ b \in Nat /\ (b = s \/ b = s + 2)
      /\ (b # s => s = 0 /\ raw[1] = "other" /\ raw[2] = "s")
      /\ x \in Nat /\ s + 1 <= x /\ x <= Len(raw)
      /\ c \in Seq(Symbols) /\ Len(c) = x - s /\ (\A i \in 1..(x - s) : c[i] = raw[s + i])
      /\ Written(raw, dress, b, n, key, o, body, g, e)
  BY RemainsTyped
<1>2. Begins(raw, b, n, key, o) /\ Len(raw) \in Nat /\ n \in Nat /\ o \in Nat
  BY <1>1, WrittenTyped
<1>3. (n = b + 5 \/ n = b + 6) /\ (o = n + 1 \/ o = n + 2)
  BY <1>2 DEF Begins
<1>4. \A i \in 1..(o - s) : c[i] = raw[s + i]
  BY <1>1, <1>2
<1> DEFINE j == b - s
           h == n - s
           q == o - s
<1>5. /\ (j = 0 \/ j = 2) /\ (h = j + 5 \/ h = j + 6) /\ (q = h + 1 \/ q = h + 2)
      /\ s + j = b /\ s + h = n /\ s + q = o /\ q <= Len(c)
  BY <1>1, <1>2, <1>3
<1>6. \A i \in 1..q : c[i] = raw[s + i]
  BY <1>4
<1> HIDE DEF j, h, q
<1>7. Prose(c, j)
  <2>1. CASE j # 0
    <3>1. j = 2 /\ s = 0 /\ 1 \in 1..q /\ 2 \in 1..q /\ s + 1 = 1 /\ s + 2 = 2
          /\ raw[1] = "other" /\ raw[2] = "s"
      BY <1>1, <1>5, <2>1
    <3>2. c[1] = raw[1] /\ c[2] = raw[2]
      BY <1>6, <3>1
    <3> QED
      BY <3>1, <3>2 DEF Prose
  <2> QED
    BY <2>1 DEF Prose
<1>8. Begins(c, j, h, key, q)
  <2>1. /\ key \in {"content", "text", "other"}
        /\ raw[b + 1] = "open" /\ raw[b + 2] = "q" /\ raw[b + 3] = key /\ raw[b + 4] = "q"
        /\ (n = b + 6 => raw[b + 5] = "s") /\ raw[n] = ":" /\ (o = n + 2 => raw[n + 1] = "s")
        /\ raw[o] = "q"
    BY <1>2 DEF Begins
  <2>2. /\ j + 1 \in 1..q /\ j + 2 \in 1..q /\ j + 3 \in 1..q /\ j + 4 \in 1..q /\ j + 5 \in 1..q
        /\ h \in 1..q /\ h + 1 \in 1..q /\ q \in 1..q
    BY <1>5
  <2>9. s \in Nat /\ b \in Nat /\ n \in Nat /\ o \in Nat /\ j \in Nat /\ h \in Nat /\ q \in Nat
        /\ s + j = b /\ s + h = n /\ s + q = o
    <3>1. s \in Nat /\ b \in Nat /\ n \in Nat /\ o \in Nat
      BY <1>1, <1>2
    <3>2. j \in Nat /\ h \in Nat /\ q \in Nat /\ s + j = b /\ s + h = n /\ s + q = o
      BY <1>5
    <3> QED
      BY <3>1, <3>2
  <2>3. /\ s + (j + 1) = b + 1 /\ s + (j + 2) = b + 2 /\ s + (j + 3) = b + 3
        /\ s + (j + 4) = b + 4 /\ s + (j + 5) = b + 5 /\ s + (h + 1) = n + 1
    BY <2>9
  <2>4. /\ c[j + 1] = "open" /\ c[j + 2] = "q" /\ c[j + 3] = key /\ c[j + 4] = "q"
    BY <1>6, <2>1, <2>2, <2>3
  <2>5. c[h] = ":" /\ c[q] = "q"
    BY <1>5, <1>6, <2>1, <2>2
  <2>6. h = j + 6 => c[j + 5] = "s"
    <3>1. h = j + 6 => n = b + 6
      BY <1>1, <1>5, SMTT(30)
    <3> QED
      BY <1>6, <2>1, <2>2, <2>3, <3>1
  <2>7. q = h + 2 => c[h + 1] = "s"
    <3>1. q = h + 2 => o = n + 2
      BY <2>9
    <3> QED
      BY <1>6, <2>1, <2>2, <2>3, <3>1
  <2>8. j \in Nat /\ h \in {j + 5, j + 6} /\ q \in {h + 1, h + 2} /\ q <= Len(c)
    BY <1>5
  <2> QED
    BY <1>1, <2>1, <2>4, <2>5, <2>6, <2>7, <2>8 DEF Begins
<1> QED
  BY <1>7, <1>8 DEF j, h, q

(* What remains is a cleaned text of all items that it has in full. *)
LEMMA RemainsCleaned ==
    ASSUME NEW c, NEW raw, NEW dress, NEW s, NEW b, NEW n, NEW key, NEW o, NEW body, NEW g, NEW e,
           NEW x, NEW y, Remains(c, raw, dress, s, b, n, key, o, body, g, e, x, y), o <= x,
           NEW k \in 0..Len(body), o + EndOf(body, k) <= x
    PROVE  Cleaned(c, b - s, n - s, key, o - s, body, k, (o - s) + EndOf(body, k))
<1>1. /\ s \in Nat /\ (b = s \/ b = s + 2) /\ x \in Nat /\ s + 1 <= x
      /\ IsPart(c, raw, s + 1, x) /\ ~Ambiguous(body)
      /\ Written(raw, dress, b, n, key, o, body, g, e)
  BY RemainsTyped
<1>2. /\ Holds(raw, o, body, Len(body)) /\ body \in Seq(Items) /\ o \in Nat /\ o >= b + 6
      /\ b \in Nat
  BY <1>1, WrittenTyped
<1>3. Holds(raw, o, body, k)
  BY <1>2, HoldsLess
<1>4. s + 1 <= o + 1 /\ o - (s + 1) + 1 = o - s
  BY <1>1, <1>2
<1>5. Holds(c, o - (s + 1) + 1, body, k)
  <2> DEFINE a == s + 1
  <2>1. IsPart(c, raw, a, x) /\ a <= o + 1
    BY <1>1, <1>4
  <2> HIDE DEF a
  <2>2. Holds(c, o - a + 1, body, k)
    BY <1>3, <2>1, HoldsInPart
  <2> QED
    BY <2>2 DEF a
<1>6. Holds(c, o - s, body, k)
  BY <1>4, <1>5
<1>7. Prose(c, b - s) /\ Begins(c, b - s, n - s, key, o - s)
  BY AfterOpening
<1> QED
  BY <1>1, <1>6, <1>7 DEF Cleaned

(* Cut after an item, or within one, or after the string. *)
LEMMA RemainsCutAfter ==
    ASSUME NEW c, NEW raw, NEW dress, NEW s, NEW b, NEW n, NEW key, NEW o, NEW body, NEW g, NEW e,
           NEW x, NEW y, Remains(c, raw, dress, s, b, n, key, o, body, g, e, x, y),
           NEW k \in 0..Len(body), x = o + EndOf(body, k)
    PROVE  AnswerAfter(RepairCleaned(c), key, body, k)
<1>1. /\ s \in Nat /\ x \in Nat /\ s + 1 <= x /\ raw[x] \notin White
      /\ Len(c) = x - s /\ (\A i \in 1..(x - s) : c[i] = raw[s + i])
      /\ Written(raw, dress, b, n, key, o, body, g, e)
  BY RemainsTyped
<1>2. body \in Seq(Items) /\ o \in Nat
  BY <1>1, WrittenTyped
<1>3. EndOf(body, k) \in Nat
  BY <1>2, Ends
<1> DEFINE h == (o - s) + EndOf(body, k)
<1>4. o <= x /\ o + EndOf(body, k) <= x /\ h = x - s /\ s + h = x /\ h \in 1..(x - s)
  BY <1>1, <1>2, <1>3
<1>5. Cleaned(c, b - s, n - s, key, o - s, body, k, h)
  BY <1>4, RemainsCleaned
<1>6. Len(c) = h /\ c[h] \notin White
  BY <1>1, <1>4
<1> HIDE DEF h
<1>7. CutAfter(c, b - s, n - s, key, o - s, body, k, h)
  BY <1>5, <1>6 DEF CutAfter
<1> QED
  BY <1>7, RepairedAfter

(* The answer for what remains and ends within an item. *)
LEMMA RemainsCutWithin ==
    ASSUME NEW c, NEW raw, NEW dress, NEW s, NEW b, NEW n, NEW key, NEW o, NEW body, NEW g, NEW e,
           NEW x, NEW y, Remains(c, raw, dress, s, b, n, key, o, body, g, e, x, y),
           NEW k \in 1..Len(body), NEW l \in Nat, l # 0,
           x = o + EndOf(body, k - 1) + l, x < o + EndOf(body, k)
    PROVE  AnswerWithin(RepairCleaned(c), key, body, k - 1, l)
<1>1. /\ s \in Nat /\ x \in Nat /\ s + 1 <= x
      /\ c \in Seq(Symbols) /\ Len(c) = x - s /\ (\A i \in 1..(x - s) : c[i] = raw[s + i])
      /\ (b = s \/ b = s + 2) /\ Written(raw, dress, b, n, key, o, body, g, e)
  BY RemainsTyped
<1>2. /\ body \in Seq(Items) /\ o \in Nat /\ Holds(raw, o, body, Len(body)) /\ o >= b + 6
  BY <1>1, WrittenTyped
<1>3. /\ EndOf(body, k - 1) \in Nat /\ EndOf(body, k) = EndOf(body, k - 1) + Len(Source[body[k]])
      /\ Len(Source[body[k]]) \in 1..6
  BY <1>2, Ends
<1> DEFINE i == k - 1
           h == (o - s) + EndOf(body, i)
           u == o + EndOf(body, i)
<1>4. ItemAt(raw, u, body[k])
  BY <1>2 DEF Holds
<1> DEFINE a == EndOf(body, i)
           m == Len(Source[body[k]])
<1>14. /\ i \in 0..Len(body) /\ i < Len(body)
  OBVIOUS
<1>15. /\ o \in Nat /\ s \in Nat /\ x \in Nat /\ a \in Nat /\ m \in Nat /\ s <= o
       /\ x = o + a + l /\ x < o + EndOf(body, k) /\ EndOf(body, k) = a + m
  <2>1. o \in Nat /\ o >= b + 6 /\ s \in Nat /\ x \in Nat /\ (b = s \/ b = s + 2)
    BY <1>1, <1>2
  <2>2. s <= o
    BY <2>1
  <2>3. a \in Nat /\ m \in Nat /\ EndOf(body, k) = a + m
    BY <1>3
  <2> QED
    BY <2>1, <2>2, <2>3
<1>16. h = (o - s) + a /\ u = o + a
  OBVIOUS
<1> HIDE DEF a, m, u, h
<1>6. l < m
  BY <1>15
<1>5. /\ i \in 0..Len(body) /\ i < Len(body) /\ o <= x /\ u <= x /\ u \in Nat
      /\ u + l = x /\ h + l = x - s /\ h \in Nat /\ s + h = u
  <2>1. o <= x /\ u <= x /\ u \in Nat /\ u + l = x /\ h + l = x - s /\ h \in Nat /\ s + h = u
    BY <1>15, <1>16
  <2> QED
    BY <1>14, <2>1
<1>17. o + EndOf(body, i) <= x
  BY <1>5, <1>16 DEF a
<1>7. Cleaned(c, b - s, n - s, key, o - s, body, i, h)
  <2>1. Cleaned(c, b - s, n - s, key, o - s, body, i, (o - s) + EndOf(body, i))
    BY <1>5, <1>17, RemainsCleaned
  <2> QED
    BY <2>1 DEF h
<1>8. Halved(raw, u, l) /\ l \in 1..5
  BY <1>4, <1>6, HalvedItem DEF m, u
<1> HIDE DEF i
<1>9. \A v \in 1..l : c[h + v] = raw[u + v]
  <2> TAKE v \in 1..l
  <2>1. h + v \in 1..(x - s) /\ s + (h + v) = u + v
    BY <1>1, <1>5
  <2> QED
    BY <1>1, <2>1
<1>10. Halved(c, h, l)
  BY <1>5, <1>8, <1>9, HalvedSame
<1>11. Len(c) = h + l
  BY <1>1, <1>5
<1>12. CutWithin(c, b - s, n - s, key, o - s, body, i, h, l)
  BY <1>5, <1>7, <1>8, <1>10, <1>11 DEF CutWithin
<1>13. AnswerWithin(RepairCleaned(c), key, body, i, l)
  BY <1>12, RepairedWithin
<1> QED
  BY <1>13 DEF i

(* What follows the string. *)
AnswerWhole(r, dress, key, body) ==
    /\ \/ r = Undecoded
       \/ Told(r, key, body, Len(body), Len(body), 0)
       \/ Gives(r, Split, body, Len(body), 0) /\ dress = "comma"
    /\ key = "other" => r = Undecoded
    /\ key # "other" => r.ok

(* The answer for what remains and ends behind its body. *)
LEMMA RemainsThrough ==
    ASSUME NEW c, NEW raw, NEW dress, NEW s, NEW b, NEW n, NEW key, NEW o, NEW body, NEW g, NEW e,
           NEW x, NEW y, Remains(c, raw, dress, s, b, n, key, o, body, g, e, x, y),
           g < x, x <= e
    PROVE  AnswerWhole(RepairCleaned(c), dress, key, body)
<1>1. /\ s \in Nat /\ x \in Nat /\ s + 1 <= x /\ raw[x] \notin White
      /\ c \in Seq(Symbols) /\ Len(c) = x - s /\ (\A i \in 1..(x - s) : c[i] = raw[s + i])
      /\ (b = s \/ b = s + 2) /\ Written(raw, dress, b, n, key, o, body, g, e)
  BY RemainsTyped
<1>2. /\ body \in Seq(Items) /\ o \in Nat /\ o >= b + 6 /\ b \in Nat
      /\ EndOf(body, Len(body)) \in Nat /\ g = o + EndOf(body, Len(body)) /\ g \in Nat
      /\ (e = g + 2 \/ e = g + 3)
  BY <1>1, WrittenTyped
<1> DEFINE k == Len(body)
           h == (o - s) + EndOf(body, k)
<1>3. k \in 0..Len(body) /\ o <= x /\ o + EndOf(body, k) <= x /\ h = g - s /\ h \in Nat /\ s + h = g
  BY <1>1, <1>2, SMTT(30)
<1>4. Cleaned(c, b - s, n - s, key, o - s, body, k, h)
  BY <1>3, RemainsCleaned
<1> HIDE DEF h
<1>12. /\ s \in Nat /\ x \in Nat /\ g \in Nat /\ e \in Nat /\ (e = g + 2 \/ e = g + 3)
  BY <1>1, <1>2, WrittenTyped
<1>5. x = g + 1 \/ x = g + 2 \/ (x = g + 3 /\ e = g + 3)
  BY <1>12
<1>13. Len(c) = x - s /\ h = g - s /\ h \in Nat /\ s + h = g
  BY <1>1, <1>3
<1>6. /\ raw[g + 1] = "q" /\ (e = g + 3 => raw[g + 2] = (IF dress = "comma" THEN "," ELSE "s"))
      /\ raw[e] = "close"
  BY <1>1 DEF Written
<1>7. s + (h + 1) = g + 1 /\ s + (h + 2) = g + 2 /\ s + (h + 3) = g + 3 /\ h + 1 \in 1..(x - s)
  BY <1>12, <1>13
<1>8. c[h + 1] = "q"
  BY <1>1, <1>6, <1>7
<1>9. CASE x = g + 1
  <2>1. Len(c) = h + 1
    BY <1>9, <1>12, <1>13
  <2> QED
    <3>1. Through(c, b - s, n - s, key, o - s, body, k, h)
      BY <1>4, <1>8, <2>1 DEF Through
    <3>2. AnswerThrough(RepairCleaned(c), c, key, body, k, h)
      BY <3>1, RepairedThrough
    <3>3. Len(c) # h + 3
      BY <1>3, <2>1
    <3> QED
      BY <3>2, <3>3 DEF AnswerThrough, AnswerWhole
<1>10. CASE x = g + 2
  <2>1. Len(c) = h + 2 /\ h + 2 \in 1..(x - s)
    BY <1>10, <1>12, <1>13
  <2>2. c[h + 2] = raw[g + 2]
    BY <1>1, <1>7, <2>1
  <2>3. raw[g + 2] # "s"
    BY <1>1, <1>10 DEF White
  <2>4. c[h + 2] \in {"close", ","}
    BY <1>2, <1>6, <2>2, <2>3
  <2> QED
    <3>1. Through(c, b - s, n - s, key, o - s, body, k, h)
      BY <1>4, <1>8, <2>1, <2>4 DEF Through
    <3>2. AnswerThrough(RepairCleaned(c), c, key, body, k, h)
      BY <3>1, RepairedThrough
    <3>3. Len(c) # h + 3
      BY <1>3, <2>1
    <3> QED
      BY <3>2, <3>3 DEF AnswerThrough, AnswerWhole
<1>11. CASE x = g + 3 /\ e = g + 3
  <2>1. Len(c) = h + 3 /\ h + 2 \in 1..(x - s) /\ h + 3 \in 1..(x - s)
    BY <1>11, <1>12, <1>13
  <2>2. c[h + 2] = raw[g + 2] /\ c[h + 3] = raw[g + 3]
    BY <1>1, <1>7, <2>1
  <2>3. c[h + 3] = "close"
    BY <1>6, <1>11, <2>2
  <2>4. c[h + 2] \in {"s", ","} /\ (c[h + 2] = "," => dress = "comma")
    BY <1>6, <1>11, <2>2
  <2> QED
    <3>1. Through(c, b - s, n - s, key, o - s, body, k, h)
      BY <1>4, <1>8, <2>1, <2>3, <2>4 DEF Through
    <3>2. AnswerThrough(RepairCleaned(c), c, key, body, k, h)
      BY <3>1, RepairedThrough
    <3> QED
      BY <2>4, <3>2 DEF AnswerThrough, AnswerWhole
<1> QED
  BY <1>5, <1>9, <1>10, <1>11

(* The last member of a set of positions, if there is one. *)
LEMMA LastExists ==
    ASSUME NEW m \in Nat, NEW S, S \subseteq 1..m, S # {}
    PROVE  \E f \in S : (\A i \in S : i <= f) /\ LastOf(S) = f
<1> DEFINE t == [i \in 1..m |-> IF i \in S THEN 1 ELSE 0]
<1>1. PICK k \in S : TRUE
  OBVIOUS
<1>2. k \in Nat /\ k <= m /\ t[k] \notin {0}
  BY <1>1
<1>3. PICK f \in k..m : t[f] \notin {0} /\ \A j \in (f + 1)..m : t[j] \in {0}
  <2> DEFINE cut == {0}
  <2>1. t[k] \notin cut
    BY <1>2
  <2> HIDE DEF t, cut
  <2>2. \E f \in k..m : t[f] \notin cut /\ \A j \in (f + 1)..m : t[j] \in cut
    <3>1. k \in Nat /\ m \in Nat /\ k <= m
      BY <1>2
    <3> QED
      BY ONLY <2>1, <3>1, LastNotIn
  <2> QED
    BY <2>2 DEF cut
<1>4. f \in 1..m /\ f \in S
  BY <1>1, <1>3
<1>5. \A i \in S : i <= f
  <2> SUFFICES ASSUME NEW i \in S, i > f PROVE FALSE
    BY <1>4
  <2>1. i \in (f + 1)..m /\ i \in 1..m
    BY <1>4
  <2> QED
    BY <1>3, <2>1
<1>6. LastOf(S) = f
  <2>1. S \subseteq Int
    OBVIOUS
  <2> QED
    BY <1>4, <1>5, <2>1, LastIs
<1> QED
  BY <1>4, <1>5, <1>6

(* The first part of a part. *)
LEMMA FirstOfFirst ==
    ASSUME NEW S, NEW body \in Seq(S), NEW a \in 0..Len(body), NEW p \in 0..a,
           NEW u, u = SubSeq(body, 1, a)
    PROVE  u \in Seq(S) /\ DOMAIN u = 1..a /\ Len(u) = a /\ (\A i \in 1..a : u[i] = body[i])
           /\ SubSeq(u, 1, p) = SubSeq(body, 1, p)
<1>1. a \in Nat /\ p \in Nat /\ p <= a /\ a <= Len(body)
  OBVIOUS
<1>2. u \in Seq(S) /\ DOMAIN u = 1..a /\ Len(u) = a /\ \A i \in 1..a : u[i] = body[i]
  BY <1>1
<1>3. SubSeq(u, 1, p) = SubSeq(body, 1, p)
  <2>1. /\ SubSeq(u, 1, p) = [i \in 1..p |-> u[i]]
        /\ SubSeq(body, 1, p) = [i \in 1..p |-> body[i]]
    BY <1>1, <1>2
  <2>2. \A i \in 1..p : u[i] = body[i]
    BY <1>1, <1>2
  <2> QED
    BY <2>1, <2>2
<1> QED
  BY <1>2, <1>3

(* What is trimmed of the first items. *)
LEMMA TrimmedTo ==
    ASSUME NEW S, NEW body \in Seq(S), NEW a \in 0..Len(body), NEW q \in 0..a, NEW cutset,
           \A i \in (q + 1)..a : body[i] \in cutset
    PROVE  \E p \in 0..q : TrimRight(SubSeq(body, 1, a), cutset) = SubSeq(body, 1, p)
<1> DEFINE u == SubSeq(body, 1, a)
           kept == {i \in DOMAIN u : u[i] \notin cutset}
<1>1. u \in Seq(S) /\ DOMAIN u = 1..a /\ Len(u) = a /\ (\A i \in 1..a : u[i] = body[i])
  BY FirstOfFirst
<1>2. \A p \in 0..a : SubSeq(u, 1, p) = SubSeq(body, 1, p)
  BY FirstOfFirst
<1>3. a \in Nat /\ q \in Nat /\ q <= a
  OBVIOUS
<1> HIDE DEF u
<1>4. CASE kept = {}
  <2>1. TrimRight(u, cutset) = <<>>
    BY <1>4 DEF TrimRight
  <2>2. SubSeq(body, 1, 0) = <<>>
    OBVIOUS
  <2>3. 0 \in 0..q
    BY <1>3
  <2> QED
    BY <2>1, <2>2, <2>3 DEF u
<1>5. CASE kept # {}
  <2>1. kept \subseteq 1..a
    BY <1>1
  <2>2. PICK f \in kept : LastOf(kept) = f
    BY <1>3, <1>5, <2>1, LastExists
  <2>3. f \in 1..a /\ u[f] \notin cutset
    BY <1>1, <2>2
  <2>4. f \in 0..q
    <3>1. f \notin (q + 1)..a
      BY <1>1, <2>3
    <3> QED
      BY <1>3, <2>3, <3>1
  <2>5. TrimRight(u, cutset) = SubSeq(u, 1, f)
    BY <1>5, <2>2 DEF TrimRight
  <2>6. f \in 0..a
    BY <2>3
  <2> QED
    BY <1>2, <2>4, <2>5, <2>6 DEF u
<1> QED
  BY <1>4, <1>5

(* The first j items end in the first n symbols, and no more. *)
Counts(body, start, n, j) ==
    /\ j \in 0..Len(body)
    /\ j # 0 => start + EndOf(body, j) <= n
    /\ j # Len(body) => n < start + EndOf(body, j + 1)

(* How many items of a body are within the first n symbols. *)
LEMMA CountsItems ==
    ASSUME NEW body \in Seq(Items), NEW start \in Nat, NEW n \in Nat, NEW j,
           Counts(body, start, n, j)
    PROVE  /\ ItemsIn(body, start, n) = j
           /\ \A k \in 1..Len(body) : k <= j <=> start + EndOf(body, k) <= n
<1> DEFINE m == Len(body)
           S == {k \in 1..m : start + EndOf(body, k) <= n}
<1>1. m \in Nat /\ \A k \in 0..m : EndOf(body, k) \in Nat
  BY Ends
<1>2. DOMAIN body = 1..m
  OBVIOUS
<1>3. ItemsIn(body, start, n) = Cardinality(S)
  BY <1>2 DEF ItemsIn, EndOf
<1>4. /\ j \in 0..m /\ j \in Nat /\ (j # 0 => start + EndOf(body, j) <= n)
      /\ (j # m => n < start + EndOf(body, j + 1))
  BY <1>1 DEF Counts
<1>5. \A l \in 0..m : \A k \in 0..l : EndOf(body, k) <= EndOf(body, l)
  BY EndsInOrder
<1> HIDE DEF m
<1>6. ASSUME NEW k \in 1..m PROVE k <= j <=> start + EndOf(body, k) <= n
  <2>1. k \in 0..m /\ EndOf(body, k) \in Nat
    BY <1>1
  <2>2. CASE k <= j
    <3>1. k \in 0..j /\ j # 0 /\ EndOf(body, j) \in Nat
      BY <1>1, <1>4, <2>1, <2>2
    <3>2. EndOf(body, k) <= EndOf(body, j)
      BY <1>4, <1>5, <3>1
    <3> QED
      BY <1>4, <2>1, <2>2, <3>1, <3>2
  <2>3. CASE ~(k <= j)
    <3> DEFINE i == j + 1
    <3>1. i \in 0..k /\ j # m /\ i \in 0..m
      BY <1>1, <1>4, <2>1, <2>3
    <3>2. n < start + EndOf(body, i)
      BY <1>4, <3>1
    <3> HIDE DEF i
    <3>3. EndOf(body, i) <= EndOf(body, k) /\ EndOf(body, i) \in Nat
      BY <1>1, <1>5, <2>1, <3>1
    <3> QED
      BY <2>1, <2>3, <3>2, <3>3
  <2> QED
    BY <1>1, <1>4, <2>2, <2>3
<1>7. S = 1..j
  BY <1>1, <1>4, <1>6
<1>8. Cardinality(1..j) = j
  BY <1>4, FS_Interval
<1> QED
  BY <1>3, <1>6, <1>7, <1>8 DEF m

(* Some number of items always is. *)
LEMMA CountsExist ==
    ASSUME NEW body \in Seq(Items), NEW start \in Nat, NEW n \in Nat
    PROVE  \E j : Counts(body, start, n, j)
<1> DEFINE m == Len(body)
           S == {k \in 1..m : n < start + EndOf(body, k)}
<1>1. m \in Nat /\ \A k \in 0..m : EndOf(body, k) \in Nat
  BY Ends
<1>2. CASE S = {}
  <2>1. m \in 0..m /\ (m # 0 => m \in 1..m /\ ~(n < start + EndOf(body, m)))
    BY <1>1, <1>2
  <2>2. m # 0 => start + EndOf(body, m) <= n
    BY <1>1, <2>1
  <2> QED
    BY <2>1, <2>2 DEF Counts
<1>3. CASE S # {}
  <2>1. S \subseteq 1..m
    OBVIOUS
  <2> HIDE DEF m
  <2>2. PICK f \in S : \A i \in S : f <= i
    <3> HIDE DEF S
    <3> QED
      BY <1>1, <1>3, <2>1, FirstExists
  <2> DEFINE j == f - 1
  <2>3. f \in 1..m /\ n < start + EndOf(body, f) /\ j \in 0..m /\ j + 1 = f /\ j \in Nat
    BY <1>1, <2>2
  <2>4. j # 0 => start + EndOf(body, j) <= n
    <3> SUFFICES ASSUME j # 0 PROVE start + EndOf(body, j) <= n
      OBVIOUS
    <3>1. j \in 1..m /\ ~(f <= j)
      BY <1>1, <2>3
    <3> HIDE DEF j
    <3>2. ~(n < start + EndOf(body, j))
      BY <2>2, <3>1
    <3>3. EndOf(body, j) \in Nat
      BY <1>1, <2>3
    <3> QED
      BY <3>2, <3>3
  <2> HIDE DEF j
  <2> QED
    BY <2>3, <2>4 DEF Counts, m
<1> QED
  BY <1>2, <1>3

(* What one sequence of symbols begins with. *)
LEMMA PrefixSelf ==
    ASSUME NEW a \in Seq(Symbols)
    PROVE  IsPrefix(a, a)
BY DEF IsPrefix

(* A text is a prefix of itself with another behind it. *)
LEMMA PrefixOfJoined ==
    ASSUME NEW a \in Seq(Symbols), NEW t \in Seq(Symbols)
    PROVE  IsPrefix(a, a \o t) /\ a \o t \in Seq(Symbols) /\ Len(a \o t) = Len(a) + Len(t)
<1>1. Len(a) \in Nat /\ Len(t) \in Nat /\ a \o t \in Seq(Symbols) /\ Len(a \o t) = Len(a) + Len(t)
  OBVIOUS
<1>2. \A i \in 1..Len(a) : (a \o t)[i] = a[i]
  OBVIOUS
<1>3. SubSeq(a, 1, Len(a)) = SubSeq(a \o t, 1, Len(a))
  <2>1. SubSeq(a, 1, Len(a)) = [i \in 1..Len(a) |-> a[i]]
    OBVIOUS
  <2>2. SubSeq(a \o t, 1, Len(a)) = [i \in 1..Len(a) |-> (a \o t)[i]]
    OBVIOUS
  <2> QED
    BY <1>2, <2>1, <2>2
<1> QED
  BY <1>1, <1>3 DEF IsPrefix

(* A prefix stays one when the text grows. *)
LEMMA PrefixAfter ==
    ASSUME NEW a \in Seq(Symbols), NEW b \in Seq(Symbols), NEW t \in Seq(Symbols), IsPrefix(a, b)
    PROVE  IsPrefix(a, b \o t)
<1>1. /\ Len(a) \in Nat /\ Len(b) \in Nat /\ b \o t \in Seq(Symbols)
      /\ Len(a) <= Len(b) /\ Len(a) <= Len(b \o t)
      /\ SubSeq(a, 1, Len(a)) = SubSeq(b, 1, Len(a))
  BY DEF IsPrefix
<1>2. SubSeq(b, 1, Len(a)) = SubSeq(b \o t, 1, Len(a))
  <2>1. SubSeq(b, 1, Len(a)) = [i \in 1..Len(a) |-> b[i]]
    BY <1>1
  <2>2. SubSeq(b \o t, 1, Len(a)) = [i \in 1..Len(a) |-> (b \o t)[i]]
    BY <1>1
  <2>3. \A i \in 1..Len(a) : (b \o t)[i] = b[i]
    BY <1>1
  <2> QED
    BY <2>1, <2>2, <2>3
<1> QED
  BY <1>1, <1>2 DEF IsPrefix

(* The text of fewer items. *)
LEMMA FlatPrefix ==
    ASSUME NEW f, NEW body \in Seq(Items), \A x \in Items : f[x] \in Seq(Symbols),
           NEW q \in 0..Len(body), NEW p \in 0..q
    PROVE  /\ IsPrefix(Flat(f, SubSeq(body, 1, p)), Flat(f, SubSeq(body, 1, q)))
           /\ Flat(f, SubSeq(body, 1, p)) \in Seq(Symbols)
           /\ Flat(f, SubSeq(body, 1, q)) \in Seq(Symbols)
<1>1. Stepwise(f, Symbols, body)
  BY FlatStep
<1>2. q \in Nat /\ p \in Nat /\ p <= q /\ q <= Len(body) /\ Len(body) \in Nat
  OBVIOUS
<1> DEFINE h(i) == Flat(f, SubSeq(body, 1, i))
           I == {i \in 0..(q - p) : IsPrefix(h(p), h(p + i))}
           m == q - p
<1>3. \A i \in 0..Len(body) : h(i) \in Seq(Symbols)
  BY <1>1 DEF Stepwise
<1>4. \A i \in 1..Len(body) : h(i) = h(i - 1) \o f[body[i]] /\ f[body[i]] \in Seq(Symbols)
  <2>1. \A i \in 1..Len(body) : body[i] \in Items
    OBVIOUS
  <2>2. \A i \in 1..Len(body) : h(i) = h(i - 1) \o f[body[i]]
    BY <1>1 DEF Stepwise
  <2> HIDE DEF h
  <2> QED
    BY <2>1, <2>2
<1> HIDE DEF h
<1>5. m \in Nat /\ p + m = q /\ p + 0 = p /\ p \in 0..Len(body)
  BY <1>2
<1>6. 0 \in I
  BY <1>3, <1>5, PrefixSelf
<1>7. ASSUME NEW i \in 1..m, i - 1 \in I PROVE i \in I
  <2> DEFINE k == p + i
  <2>1. k \in 1..Len(body) /\ p + (i - 1) = k - 1 /\ k - 1 \in 0..Len(body) /\ i \in 0..(q - p)
    BY <1>2, <1>5
  <2>2. IsPrefix(h(p), h(k - 1))
    BY <1>7, <2>1
  <2> HIDE DEF k
  <2>3. h(k) = h(k - 1) \o f[body[k]] /\ f[body[k]] \in Seq(Symbols)
        /\ h(p) \in Seq(Symbols) /\ h(k - 1) \in Seq(Symbols)
    BY <1>3, <1>4, <1>5, <2>1
  <2>4. IsPrefix(h(p), h(k))
    BY <2>2, <2>3, PrefixAfter
  <2> QED
    BY <2>1, <2>4 DEF k
<1>8. m \in I
  <2> HIDE DEF I, m
  <2>1. \A i \in 0..m : i \in I
    BY <1>5, <1>6, <1>7, UpToInduction
  <2> QED
    BY <1>5, <2>1
<1>9. IsPrefix(h(p), h(q))
  BY <1>5, <1>8
<1>10. h(p) \in Seq(Symbols) /\ h(q) \in Seq(Symbols)
  BY <1>2, <1>3
<1> QED
  BY <1>9, <1>10 DEF h

(* A writing, and where everything is in its text.                         *)
Writes(w, raw, dress, b, n, key, o, body, g, e) ==
    /\ w.text.raw = raw /\ w.text.body = body /\ w.text.start = o /\ w.text.key = key
    /\ w.text.dress = dress /\ w.cut \in 0..Len(raw)
    /\ ~Ambiguous(body) /\ Written(raw, dress, b, n, key, o, body, g, e)

(* A writing is a text as it was written, and where it was cut. *)
LEMMA WritingIs ==
    ASSUME NEW w, IsWriting(w)
    PROVE  \E b, n, g, e : Writes(w, w.text.raw, w.text.dress, b, n, w.text.key, w.text.start,
                                  w.text.body, g, e)
<1>1. /\ w.text.body \in Seq(Items) /\ ~Ambiguous(w.text.body) /\ w.cut \in 0..Len(w.text.raw)
  BY DEF IsWriting, Items
<1>2. PICK key \in {"content", "text", "other"}, gap \in [Places -> BOOLEAN], dress \in DOMAIN Before :
         w.text = Text(key, gap, w.text.body, dress)
  BY DEF IsWriting
<1>3. w.text.key = key /\ w.text.dress = dress
  <2>1. \A y : Text(key, gap, y, dress).key = key /\ Text(key, gap, y, dress).dress = dress
    BY DEF Text
  <2> QED
    BY <1>2, <2>1
<1> DEFINE t == w.text
           body == w.text.body
           g == t.start + EndOf(body, Len(body))
<1>4. t = Text(key, gap, body, dress) /\ body \in Seq(Items)
  BY <1>1, <1>2
<1> HIDE DEF body, t
<1>5. PICK n, e : Written(t.raw, dress, Ahead(dress), n, key, t.start, body, g, e)
  BY <1>2, <1>4, WrittenText
<1> HIDE DEF g
<1>6. Writes(w, w.text.raw, w.text.dress, Ahead(dress), n, w.text.key, w.text.start, w.text.body, g, e)
  BY <1>1, <1>3, <1>5 DEF Writes, t, body
<1> QED
  BY <1>6

(* What the client must get of it is among the first q items. *)
Owes(w, body, q) == \E p \in 0..q : Owed(w) = SubSeq(body, 1, p)

(* What a stage made of q items, and of an item cut in two. *)
LEMMA AnswerCarries ==
    ASSUME NEW w, NEW body, NEW o, NEW i, NEW r, NEW m, NEW q, NEW l,
           body \in Seq(Items), w.text.body = body, w.text.start = o,
           i \in 0..Len(body), ItemsIn(body, o, w.cut) = i, q \in 0..i, Owes(w, body, q),
           m = Meaning \/ (m = Split /\ Scanned(w)), Gives(r, m, body, q, l),
           l = 0 \/ (q = i /\ l = CutItem(body, o, w.cut))
    PROVE  r.ok /\ r.content \in Seq(Symbols) /\ Carries(r.content, w)
<1>1. PICK x \in Seq(Symbols) : Len(x) <= l /\ r = Decoded(Flat(m, SubSeq(body, 1, q)) \o x)
  BY DEF Gives
<1>2. PICK p \in 0..q : Owed(w) = SubSeq(body, 1, p)
  BY DEF Owes
<1>3. Arrived(w) = SubSeq(body, 1, i)
  BY DEF Arrived
<1>4. m \in Meanings(w)
  BY DEF Meanings, Split
<1>5. \A y \in Items : m[y] \in Seq(Symbols)
  BY TextsTyped, SplitIs
<1>6. Len(body) \in Nat /\ q \in 0..Len(body) /\ i \in Nat /\ q \in Nat
  OBVIOUS
<1> DEFINE owed == Flat(m, SubSeq(body, 1, p))
           had == Flat(m, SubSeq(body, 1, q))
           all == Flat(m, SubSeq(body, 1, i))
<1>7. IsPrefix(owed, had) /\ owed \in Seq(Symbols) /\ had \in Seq(Symbols)
  BY <1>5, <1>6, FlatPrefix
<1>8. IsPrefix(had, all) /\ all \in Seq(Symbols)
  BY <1>5, <1>6, FlatPrefix
<1>9. r.ok /\ r.content = had \o x
  BY <1>1 DEF Decoded
<1>10. owed = Flat(m, Owed(w)) /\ all = Flat(m, Arrived(w))
  BY <1>2, <1>3
<1>11. q = i => had = all
  OBVIOUS
<1> HIDE DEF owed, had, all
<1>12. IsPrefix(owed, had \o x)
  BY <1>7, PrefixAfter
<1>13. ASSUME l = 0 PROVE Carries(r.content, w)
  <2>1. x = <<>>
    BY <1>1, <1>13
  <2>2. had \o x = had
    BY <1>7, <2>1
  <2> QED
    BY <1>4, <1>8, <1>9, <1>10, <1>12, <2>2 DEF Carries
<1>14. ASSUME q = i /\ l = CutItem(body, o, w.cut) PROVE Carries(r.content, w)
  <2>1. IsPrefix(all, all \o x) /\ Len(all \o x) = Len(all) + Len(x)
    BY <1>8, PrefixOfJoined
  <2>2. Len(all \o x) - Len(all) <= CutItem(w.text.body, w.text.start, w.cut)
    <3>1. Len(all \o x) - Len(all) = Len(x)
      BY <1>8, <2>1
    <3> QED
      BY <1>1, <1>14, <3>1
  <2>3. r.content = all \o x
    BY <1>9, <1>11, <1>14
  <2> QED
    BY <1>4, <1>9, <1>10, <1>11, <1>12, <1>14, <2>1, <2>2, <2>3 DEF Carries
<1>15. r.content \in Seq(Symbols)
  BY <1>7, <1>9, PrefixOfJoined
<1> QED
  BY <1>9, <1>13, <1>14, <1>15

(* Items that are white space. *)
LEMMA WhiteItems ==
    ASSUME NEW raw, NEW o, NEW body, NEW m, Holds(raw, o, body, m), NEW k \in 0..m, NEW a \in k..m,
           NEW x, x = o + EndOf(body, k), NEW y \in Nat, o + EndOf(body, a) <= y,
           \A i \in (x + 1)..y : raw[i] \in White
    PROVE  \A i \in (k + 1)..a : body[i] \in {"space", "rawNewline"}
<1> SUFFICES ASSUME NEW i \in (k + 1)..a PROVE body[i] \in {"space", "rawNewline"}
  OBVIOUS
<1>1. o \in Nat /\ body \in Seq(Items) /\ m \in 0..Len(body)
  BY DEF Holds
<1>2. i \in 1..m /\ i \in 1..Len(body) /\ i - 1 \in 0..m /\ k \in 0..(i - 1)
      /\ i - 1 \in 0..Len(body) /\ a \in 0..Len(body) /\ i \in 0..a /\ k \in 0..Len(body)
  BY <1>1
<1> DEFINE u == EndOf(body, i - 1)
           l == Len(Source[body[i]])
<1>3. ItemAt(raw, o + u, body[i])
  BY <1>2 DEF Holds
<1>4. u \in Nat /\ l \in 1..6 /\ EndOf(body, i) = u + l
  BY <1>1, <1>2, Ends
<1>5. EndOf(body, k) <= u /\ EndOf(body, i) <= EndOf(body, a)
  BY <1>1, <1>2, EndsInOrder
<1>6. EndOf(body, k) \in Nat /\ EndOf(body, a) \in Nat /\ EndOf(body, i) \in Nat
  BY <1>1, <1>2, Ends
<1> HIDE DEF u, l
<1>7. (o + u) + 1 \in (x + 1)..y /\ 1 \in 1..l
  BY <1>1, <1>4, <1>5, <1>6, SMTT(30)
<1>8. FitsIn(raw[(o + u) + 1], body[i], 1)
  BY <1>3, <1>7, ItemSymbols DEF l
<1> QED
  BY <1>7, <1>8 DEF FitsIn

(* Within an item there is no white space after its first symbol. *)
LEMMA NoWhiteWithin ==
    ASSUME NEW raw, NEW u, NEW i, ItemAt(raw, u, i), NEW l \in Nat, l # 0, l < Len(Source[i])
    PROVE  raw[u + (l + 1)] \notin White
<1>1. Shows(raw, u, Source[i]) /\ u \in Nat /\ i \in Items
  BY DEF ItemAt
<1>2. Len(Source[i]) \in 1..6
  BY <1>1, TextsTyped
<1>3. l + 1 \in 1..Len(Source[i])
  BY <1>2
<1>4. FitsIn(raw[u + (l + 1)], i, l + 1)
  BY <1>3, ItemSymbols
<1>5. Len(Source[i]) # 1
  <2> DEFINE m == Len(Source[i])
  <2>1. m \in Nat /\ l \in Nat /\ l # 0 /\ l < m
    BY <1>2
  <2> HIDE DEF m
  <2>2. m # 1
    BY <2>1
  <2> QED
    BY <2>2 DEF m
<1>6. i # "space" /\ i # "rawNewline"
  <2>1. i \in Singles => Len(Source[i]) = 1
    BY <1>1, SymbolsOf
  <2> QED
    BY <1>5, <2>1 DEF Singles
<1> QED
  BY <1>4, <1>6 DEF FitsIn

(* The items of a text that came complete. *)
LEMMA ArrivedItems ==
    ASSUME NEW w, NEW raw, NEW dress, NEW b, NEW n, NEW key, NEW o, NEW body, NEW g, NEW e,
           Writes(w, raw, dress, b, n, key, o, body, g, e)
    PROVE  \E i \in 0..Len(body) : /\ ItemsIn(body, o, w.cut) = i /\ Counts(body, o, w.cut, i)
                                   /\ Arrived(w) = SubSeq(body, 1, i)
<1>1. Written(raw, dress, b, n, key, o, body, g, e) /\ w.cut \in 0..Len(raw)
  BY DEF Writes
<1>2. body \in Seq(Items) /\ o \in Nat /\ Len(raw) \in Nat
  BY <1>1, WrittenTyped
<1>3. w.cut \in Nat
  BY <1>1, <1>2
<1> DEFINE cut == w.cut
<1> HIDE DEF cut
<1>4. cut \in Nat
  BY <1>3 DEF cut
<1>5. PICK i : Counts(body, o, cut, i)
  BY <1>2, <1>4, CountsExist
<1>6. ItemsIn(body, o, cut) = i
  BY <1>2, <1>4, <1>5, CountsItems
<1>7. i \in 0..Len(body)
  BY <1>5 DEF Counts
<1>8. Arrived(w) = SubSeq(body, 1, i)
  BY <1>6 DEF Arrived, Writes, cut
<1> QED
  BY <1>5, <1>6, <1>7, <1>8 DEF cut

(* The symbols that may be trimmed at the end of a text that was cut off.  *)
Trimmings == {"space", "rawNewline", "rawQuote"}

(* Whatever is owed, it is a first part of what arrived. *)
LEMMA OwedArrived ==
    ASSUME NEW w, NEW body \in Seq(Items), NEW i \in 0..Len(body), Arrived(w) = SubSeq(body, 1, i)
    PROVE  Owes(w, body, i)
<1> DEFINE fences == {f \in DOMAIN Arrived(w) : Arrived(w)[f] = "fence"}
<1>1. i \in Nat /\ i <= Len(body) /\ Len(body) \in Nat
  OBVIOUS
<1>2. ASSUME NEW cutset, NEW a \in 0..i
      PROVE  \E p \in 0..i : TrimRight(SubSeq(body, 1, a), cutset) = SubSeq(body, 1, p)
  <2>1. a \in 0..Len(body) /\ a \in 0..a /\ a \in Nat
    BY <1>1
  <2>2. \A l \in (a + 1)..a : body[l] \in cutset
    BY <2>1
  <2>3. \E p \in 0..a : TrimRight(SubSeq(body, 1, a), cutset) = SubSeq(body, 1, p)
    BY <2>1, <2>2, TrimmedTo
  <2>4. \A p \in 0..a : p \in 0..i
    BY <1>1
  <2> QED
    BY <2>3, <2>4
<1>3. CASE w.text.dress = "fenced" /\ w.cut < Len(w.text.raw) /\ fences # {}
  <2>1. DOMAIN Arrived(w) = 1..i
    BY <1>1
  <2>2. fences \subseteq 1..i
    BY <2>1
  <2>3. PICK f \in fences : LastOf(fences) = f
    <3> HIDE DEF fences
    <3> QED
      BY <1>1, <1>3, <2>2, LastExists
  <2> DEFINE a == f - 1
  <2>4. f \in 1..i /\ a \in 0..i
    BY <2>2, <2>3
  <2>5. SubSeq(Arrived(w), 1, a) = SubSeq(body, 1, a)
    BY <2>4, FirstOfFirst
  <2>6. Owed(w) = TrimRight(SubSeq(body, 1, a), Trimmings)
    BY <1>3, <2>3, <2>5 DEF Owed, Trimmings
  <2> HIDE DEF a
  <2> QED
    BY <1>2, <2>4, <2>6 DEF Owes
<1>4. CASE ~(w.text.dress = "fenced" /\ w.cut < Len(w.text.raw) /\ fences # {})
  <2> DEFINE cutset == IF CutOff(w) THEN Trimmings ELSE {}
  <2>1. Owed(w) = TrimRight(SubSeq(body, 1, i), cutset)
    BY <1>4 DEF Owed, Trimmings
  <2>2. i \in 0..i
    BY <1>1
  <2> HIDE DEF cutset
  <2> QED
    BY <1>2, <2>1, <2>2 DEF Owes
<1> QED
  BY <1>3, <1>4

(* Less is, of a text that was cut off: not what may be trimmed, and, if a *)
(* fence among the items was taken for the closing one, not what is after it. *)
LEMMA OwedCutOff ==
    ASSUME NEW w, NEW body \in Seq(Items), NEW i \in 0..Len(body), Arrived(w) = SubSeq(body, 1, i),
           CutOff(w), w.text.dress # "fenced" \/ \A f \in 1..i : body[f] # "fence",
           NEW q \in 0..i, \A l \in (q + 1)..i : body[l] \in Trimmings
    PROVE  Owes(w, body, q)
<1>1. ~(w.text.dress = "fenced" /\ {f \in DOMAIN Arrived(w) : Arrived(w)[f] = "fence"} # {})
  <2>1. DOMAIN Arrived(w) = 1..i /\ \A f \in 1..i : Arrived(w)[f] = body[f]
    OBVIOUS
  <2> QED
    BY <2>1
<1>2. Owed(w) = TrimRight(SubSeq(body, 1, i), Trimmings)
  BY <1>1 DEF Owed, Trimmings
<1>3. \E p \in 0..q : TrimRight(SubSeq(body, 1, i), Trimmings) = SubSeq(body, 1, p)
  BY TrimmedTo
<1> QED
  BY <1>2, <1>3 DEF Owes

(* Cut off within fences, no more is owed than the items before the last fence. *)
LEMMA OwedFenced ==
    ASSUME NEW w, NEW body \in Seq(Items), NEW i \in 0..Len(body), Arrived(w) = SubSeq(body, 1, i),
           w.text.dress = "fenced", w.cut < Len(w.text.raw),
           NEW f \in 1..i, body[f] = "fence", \A l \in (f + 1)..i : body[l] # "fence",
           NEW q \in 0..(f - 1), \A l \in (q + 1)..(f - 1) : body[l] \in Trimmings
    PROVE  Owes(w, body, q)
<1> DEFINE fences == {l \in DOMAIN Arrived(w) : Arrived(w)[l] = "fence"}
           a == f - 1
<1>1. DOMAIN Arrived(w) = 1..i /\ \A l \in 1..i : Arrived(w)[l] = body[l]
  OBVIOUS
<1>2. f \in fences
  BY <1>1
<1>3. \A l \in fences : l <= f
  <2> SUFFICES ASSUME NEW l \in fences, l > f PROVE FALSE
    BY <1>1
  <2>1. l \in (f + 1)..i /\ body[l] = "fence"
    BY <1>1
  <2> QED
    BY <2>1
<1>4. LastOf(fences) = f
  <2>1. fences \subseteq Int
    BY <1>1
  <2> HIDE DEF fences
  <2> QED
    BY <1>2, <1>3, <2>1, LastIs
<1>5. a \in 0..i /\ a \in 0..Len(body) /\ q \in 0..a
  OBVIOUS
<1>6. SubSeq(Arrived(w), 1, a) = SubSeq(body, 1, a)
  BY <1>5, FirstOfFirst
<1>7. Owed(w) = TrimRight(SubSeq(body, 1, a), Trimmings)
  BY <1>2, <1>4, <1>6 DEF Owed, Trimmings
<1>8. \E p \in 0..q : TrimRight(SubSeq(body, 1, a), Trimmings) = SubSeq(body, 1, p)
  <2>1. \A l \in (q + 1)..a : body[l] \in Trimmings
    OBVIOUS
  <2> HIDE DEF a
  <2> QED
    BY <1>5, <2>1, TrimmedTo, ZenonT(60)
<1> QED
  BY <1>7, <1>8 DEF Owes

(* What must be true of the repair r of the text of a writing. *)
RepairOf(w, r) ==
    /\ r.content \in Seq(Symbols)
    /\ r.ok => Carries(r.content, w)
    /\ r.ok \/ Owed(w) = <<>> \/ w.text.key = "other"
    /\ w.cut < w.text.start => ~r.ok
    /\ r.ok \/ r = Undecoded

(* Where a writing's items are counted. *)
Arrives(w, key, dress, o, body, i) ==
    /\ w.text.body = body /\ w.text.start = o /\ w.text.key = key /\ w.text.dress = dress
    /\ body \in Seq(Items) /\ i \in 0..Len(body) /\ ItemsIn(body, o, w.cut) = i

(* Nothing comes of it, and nothing is owed. *)
LEMMA RepairNothing ==
    ASSUME NEW w, NEW body, NEW r, r = Undecoded, Owes(w, body, 0) \/ w.text.key = "other"
    PROVE  RepairOf(w, r)
<1>1. Owes(w, body, 0) => Owed(w) = <<>>
  <2> SUFFICES ASSUME Owes(w, body, 0) PROVE Owed(w) = <<>>
    OBVIOUS
  <2>1. PICK p \in 0..0 : Owed(w) = SubSeq(body, 1, p)
    BY DEF Owes
  <2>2. p = 0 /\ SubSeq(body, 1, 0) = <<>>
    BY <2>1
  <2> QED
    BY <2>1, <2>2
<1>2. ~r.ok
  BY Outcomes
<1>3. r.content \in Seq(Symbols)
  BY DEF Undecoded
<1> QED
  BY <1>1, <1>2, <1>3 DEF RepairOf

(* Something comes of it. *)
LEMMA RepairCarries ==
    ASSUME NEW w, NEW key, NEW dress, NEW o, NEW body, NEW i, Arrives(w, key, dress, o, body, i),
           ~(w.cut < o), NEW r, NEW m, NEW q \in 0..i, Owes(w, body, q),
           m = Meaning \/ (m = Split /\ Scanned(w)), NEW l, Gives(r, m, body, q, l),
           l = 0 \/ (q = i /\ l = CutItem(body, o, w.cut))
    PROVE  RepairOf(w, r)
<1>1. r.ok /\ r.content \in Seq(Symbols) /\ Carries(r.content, w)
  BY AnswerCarries DEF Arrives
<1> QED
  BY <1>1 DEF RepairOf, Arrives

(* Why the scan was used. *)
LEMMA ScannedFor ==
    ASSUME NEW w, NEW key, NEW dress, NEW o, NEW body, NEW i, Arrives(w, key, dress, o, body, i),
           NEW k \in 0..Len(body), key # "content" \/ ~Quoteless(body, k) \/ dress = "comma"
    PROVE  Scanned(w)
<1>1. w.text.key = key /\ w.text.dress = dress /\ w.text.body = body /\ body \in Seq(Items)
  BY DEF Arrives
<1>2. ~Quoteless(body, k) => "rawQuote" \in Range(body)
  <2> SUFFICES ASSUME ~Quoteless(body, k) PROVE "rawQuote" \in Range(body)
    OBVIOUS
  <2>1. PICK l \in 1..k : body[l] = "rawQuote"
    BY DEF Quoteless
  <2>2. l \in DOMAIN body
    BY <1>1
  <2> QED
    BY <2>1, <2>2 DEF Range
<1> QED
  BY <1>1, <1>2 DEF Scanned

(* An answer with the items before a cut gives what is owed and no more than arrived. *)
LEMMA RepairAfter ==
    ASSUME NEW w, NEW key, NEW dress, NEW o, NEW body, NEW i, Arrives(w, key, dress, o, body, i),
           ~(w.cut < o), NEW k \in 0..i, Owes(w, body, k),
           k # 0 /\ body[k] = "rawQuote" => Owes(w, body, k - 1),
           NEW r, AnswerAfter(r, key, body, k)
    PROVE  RepairOf(w, r)
<1>1. i \in 0..Len(body) /\ w.text.key = key
  BY DEF Arrives
<1>2. k \in 0..Len(body)
  BY <1>1
<1>3. CASE r = Undecoded
  <2>1. ~r.ok
    BY <1>3, Outcomes
  <2>2. key = "other" \/ k = 0
    BY <2>1 DEF AnswerAfter
  <2>3. Owes(w, body, 0) \/ w.text.key = "other"
    BY <1>1, <2>2
  <2> QED
    BY <1>3, <2>3, RepairNothing
<1>4. ASSUME NEW q \in 0..k, q = k \/ (q + 1 = k /\ body[k] = "rawQuote"),
             Told(r, key, body, k, q, 0)
      PROVE  RepairOf(w, r)
  <2>1. q \in 0..i
    BY <1>1
  <2>2. Owes(w, body, q)
    <3>1. CASE q + 1 = k /\ body[k] = "rawQuote"
      <4>1. k # 0 /\ k - 1 = q
        BY <1>1, <3>1
      <4> QED
        BY <3>1, <4>1
    <3> QED
      BY <1>4, <3>1
  <2>3. CASE Gives(r, Meaning, body, q, 0)
    <3> DEFINE m == Meaning
    <3>1. m = Meaning /\ Gives(r, m, body, q, 0)
      BY <2>3
    <3> HIDE DEF m
    <3> QED
      BY <2>1, <2>2, <3>1, RepairCarries
  <2>4. CASE Gives(r, Split, body, q, 0) /\ (key # "content" \/ ~Quoteless(body, k))
    <3> DEFINE m == Split
    <3>1. Scanned(w)
      BY <1>2, <2>4, ScannedFor
    <3>2. m = Split /\ Gives(r, m, body, q, 0)
      BY <2>4
    <3> HIDE DEF m
    <3> QED
      BY <2>1, <2>2, <3>1, <3>2, RepairCarries
  <2> QED
    BY <1>4, <2>3, <2>4 DEF Told
<1> QED
  BY <1>3, <1>4 DEF AnswerAfter

(* The same of a cut within an item. *)
LEMMA RepairWithin ==
    ASSUME NEW w, NEW key, NEW dress, NEW o, NEW body, NEW i, Arrives(w, key, dress, o, body, i),
           ~(w.cut < o), Owes(w, body, i), NEW l \in Nat, l # 0, l = CutItem(body, o, w.cut),
           NEW r, AnswerWithin(r, key, body, i, l)
    PROVE  RepairOf(w, r)
<1>1. i \in 0..Len(body) /\ w.text.key = key /\ w.text.body = body /\ w.text.start = o
  BY DEF Arrives
<1>2. i \in 0..i /\ i \in Nat
  BY <1>1
<1>3. Scanned(w)
  <2>1. CutItem(body, o, w.cut) > 0
    OBVIOUS
  <2> QED
    BY <1>1, <2>1 DEF Scanned
<1>4. CASE r = Undecoded
  <2>1. ~r.ok
    BY <1>4, Outcomes
  <2>2. key = "other" \/ i = 0
    BY <2>1 DEF AnswerWithin
  <2>3. Owes(w, body, 0) \/ w.text.key = "other"
    BY <1>1, <2>2
  <2> QED
    BY <1>4, <2>3, RepairNothing
<1>5. ASSUME NEW m, m = Meaning \/ m = Split, Gives(r, m, body, i, l)
      PROVE  RepairOf(w, r)
  <2>1. m = Meaning \/ (m = Split /\ Scanned(w))
    BY <1>3, <1>5
  <2> QED
    BY <1>2, <1>5, <2>1, RepairCarries
<1> QED
  BY <1>4, <1>5 DEF AnswerWithin

(* The same when all of the body arrived. *)
LEMMA RepairWhole ==
    ASSUME NEW w, NEW key, NEW dress, NEW o, NEW body, NEW i, Arrives(w, key, dress, o, body, i),
           ~(w.cut < o), i = Len(body), Owes(w, body, i), NEW r, AnswerWhole(r, dress, key, body)
    PROVE  RepairOf(w, r)
<1>1. i \in 0..Len(body) /\ w.text.key = key
  BY DEF Arrives
<1>2. i \in 0..i /\ i \in Nat /\ Len(body) \in 0..Len(body)
  BY <1>1
<1>3. CASE r = Undecoded
  <2>1. ~r.ok
    BY <1>3, Outcomes
  <2>2. key = "other"
    BY <2>1 DEF AnswerWhole
  <2> QED
    BY <1>1, <1>3, <2>2, RepairNothing
<1>4. ASSUME NEW m, m = Meaning \/ (m = Split /\ Scanned(w)), Gives(r, m, body, i, 0)
      PROVE  RepairOf(w, r)
  BY <1>2, <1>4, RepairCarries
<1>5. CASE Gives(r, Split, body, i, 0)
           /\ (key # "content" \/ ~Quoteless(body, Len(body)) \/ dress = "comma")
  <2>1. Scanned(w)
    BY <1>2, <1>5, ScannedFor
  <2> QED
    BY <1>4, <1>5, <2>1
<1>6. CASE Gives(r, Meaning, body, i, 0)
  BY <1>4, <1>6
<1> QED
  BY <1>3, <1>5, <1>6 DEF AnswerWhole, Told

(* There is no fence in an opening, and one in the text of a fence. *)
LEMMA NoFenceInOpening ==
    ASSUME NEW raw, NEW b, NEW n, NEW key, NEW o, Begins(raw, b, n, key, o), NEW i \in (b + 1)..o
    PROVE  raw[i] # "fence"
<1>1. /\ b \in Nat /\ (n = b + 5 \/ n = b + 6) /\ (o = n + 1 \/ o = n + 2)
  BY DEF Begins
<1>2. /\ key # "fence" /\ raw[b + 1] # "fence" /\ raw[b + 2] # "fence" /\ raw[b + 3] # "fence"
      /\ raw[b + 4] # "fence" /\ raw[n] # "fence" /\ raw[o] # "fence"
  BY DEF Begins
<1>3. (n = b + 6 => raw[b + 5] # "fence") /\ (o = n + 2 => raw[n + 1] # "fence")
  BY DEF Begins
<1>4. \/ i = b + 1 \/ i = b + 2 \/ i = b + 3 \/ i = b + 4 \/ (n = b + 6 /\ i = b + 5)
      \/ i = n \/ (o = n + 2 /\ i = n + 1) \/ i = o
  BY <1>1
<1> QED
  BY <1>2, <1>3, <1>4

(* Where the body has a fence, the text has one. *)
LEMMA FenceSymbol ==
    ASSUME NEW raw, NEW o, NEW body, NEW m, Holds(raw, o, body, m), NEW f \in 1..m,
           body[f] = "fence"
    PROVE  /\ raw[o + EndOf(body, f - 1) + 1] = "fence"
           /\ EndOf(body, f) = EndOf(body, f - 1) + 1
<1>1. o \in Nat /\ body \in Seq(Items) /\ m \in 0..Len(body)
  BY DEF Holds
<1>2. f \in 1..Len(body)
  BY <1>1
<1> DEFINE u == o + EndOf(body, f - 1)
<1>3. ItemAt(raw, u, body[f])
  BY DEF Holds
<1>4. Shows(raw, u, Source[body[f]])
  BY <1>3 DEF ItemAt
<1> HIDE DEF u
<1>5. raw[u + 1] = "fence" /\ (body[f] \in Singles => Len(Source[body[f]]) = 1)
  BY <1>4, SymbolsOf
<1>6. Len(Source[body[f]]) = 1
  BY <1>5 DEF Singles
<1>7. EndOf(body, f) = EndOf(body, f - 1) + 1
  BY <1>1, <1>2, <1>6, Ends
<1> QED
  BY <1>5, <1>7 DEF u

(* The first a items are those before y, and what the client must get does *)
(* not include what may be trimmed of them.                                *)
OwedUpTo(w, o, body, y, a) ==
    /\ Counts(body, o, y, a)
    /\ \A q \in 0..a : (\A l \in (q + 1)..a : body[l] \in Trimmings) => Owes(w, body, q)

(* The text was cut off within the string. *)
LEMMA OwedAtCut ==
    ASSUME NEW w, NEW raw, NEW dress, NEW b, NEW n, NEW key, NEW o, NEW body, NEW g, NEW e,
           Writes(w, raw, dress, b, n, key, o, body, g, e), NEW i \in 0..Len(body),
           Counts(body, o, w.cut, i), Arrived(w) = SubSeq(body, 1, i), w.cut <= g,
           dress # "fenced" \/ \A l \in (3 + 1)..w.cut : raw[l] # "fence"
    PROVE  OwedUpTo(w, o, body, w.cut, i)
<1>1. Written(raw, dress, b, n, key, o, body, g, e) /\ w.text.dress = dress
      /\ w.text.body = body /\ w.text.start = o
  BY DEF Writes
<1>2. /\ body \in Seq(Items) /\ o \in Nat /\ o >= b + 6 /\ b \in Nat /\ b = Ahead(dress)
      /\ g = o + EndOf(body, Len(body)) /\ Holds(raw, o, body, Len(body)) /\ Len(raw) \in Nat
  BY <1>1, WrittenTyped
<1>3. CutOff(w)
  <2>1. SubSeq(body, 1, Len(body)) = body
    BY <1>2
  <2> QED
    BY <1>1, <1>2, <2>1 DEF CutOff, EndOf
<1>4. dress # "fenced" \/ \A f \in 1..i : body[f] # "fence"
  <2> SUFFICES ASSUME NEW f \in 1..i, body[f] = "fence",
                      \A l \in (3 + 1)..w.cut : raw[l] # "fence"
               PROVE  FALSE
    OBVIOUS
  <2> DEFINE p == o + EndOf(body, f - 1) + 1
             m == Len(body)
             cut == w.cut
  <2>1. f \in 1..m /\ m \in Nat
    BY <1>2
  <2>2. raw[p] = "fence" /\ EndOf(body, f) = EndOf(body, f - 1) + 1
    BY <1>2, <2>1, FenceSymbol
  <2>3. EndOf(body, f - 1) \in Nat
    BY <1>2, <2>1, Ends
  <2>4. cut \in Nat
    BY <1>2 DEF Writes
  <2> HIDE DEF cut
  <2>5. \A k \in 1..m : k <= i <=> o + EndOf(body, k) <= cut
    <3>1. Counts(body, o, cut, i)
      BY DEF cut
    <3> QED
      BY <1>2, <2>4, <3>1, CountsItems
  <2>6. o + EndOf(body, f) <= cut
    BY <2>1, <2>5
  <2>7. p <= cut /\ 4 <= p /\ p \in Nat
    <3>1. o >= 6
      BY <1>2
    <3>2. o \in Nat
      BY <1>2
    <3> HIDE DEF m
    <3> QED
      BY <2>2, <2>3, <2>4, <2>6, <3>1, <3>2
  <2>8. p \in (3 + 1)..cut
    BY <2>4, <2>7
  <2> HIDE DEF p
  <2> QED
    BY <2>2, <2>8 DEF cut
<1>5. ASSUME NEW q \in 0..i, \A l \in (q + 1)..i : body[l] \in Trimmings PROVE Owes(w, body, q)
  BY <1>1, <1>2, <1>3, <1>4, <1>5, OwedCutOff
<1> QED
  BY <1>5 DEF OwedUpTo

(* Or the last fence in it is one of its items. *)
LEMMA OwedAtFence ==
    ASSUME NEW w, NEW raw, NEW dress, NEW b, NEW n, NEW key, NEW o, NEW body, NEW g, NEW e,
           Writes(w, raw, dress, b, n, key, o, body, g, e), NEW i \in 0..Len(body),
           Counts(body, o, w.cut, i), Arrived(w) = SubSeq(body, 1, i),
           dress = "fenced", NEW y \in Nat, o <= y, y < g, y + 1 <= w.cut, raw[y + 1] = "fence",
           \A l \in (y + 2)..w.cut : raw[l] # "fence"
    PROVE  \E a \in 0..i : OwedUpTo(w, o, body, y, a) /\ y = o + EndOf(body, a)
<1> DEFINE m == Len(body)
           cut == w.cut
<1>1. Written(raw, dress, b, n, key, o, body, g, e) /\ w.text.dress = dress
      /\ w.text.raw = raw /\ w.text.body = body /\ w.text.start = o /\ cut \in 0..Len(raw)
  BY DEF Writes
<1>2. /\ body \in Seq(Items) /\ o \in Nat /\ g = o + EndOf(body, m) /\ Holds(raw, o, body, m)
      /\ Len(raw) \in Nat /\ EndOf(body, m) \in Nat /\ m \in Nat /\ (e = g + 2 \/ e = g + 3)
      /\ e \in Nat
  BY <1>1, WrittenTyped
<1>3. cut \in Nat /\ y + 1 <= cut /\ \A l \in (y + 2)..cut : raw[l] # "fence"
  BY <1>1, <1>2
<1>4. \A k \in 1..m : k <= i <=> o + EndOf(body, k) <= cut
  <2>1. Counts(body, o, cut, i)
    OBVIOUS
  <2> HIDE DEF cut
  <2> QED
    BY <1>2, <1>3, <2>1, CountsItems
<1>5. cut < Len(raw)
  <2> SUFFICES ASSUME cut = Len(raw) PROVE FALSE
    BY <1>1, <1>2, SMTT(30)
  <2>1. Len(raw) = e + 2 /\ raw[e + 2] = "fence"
    BY <1>1 DEF Written
  <2>2. e + 2 \in (y + 2)..cut
    BY <1>2, <1>3, <2>1
  <2> QED
    BY <1>3, <2>1, <2>2
<1> HIDE DEF m, cut
<1>6. y + 1 \in (o + 1)..(o + EndOf(body, m))
  <2>1. o \in Nat /\ EndOf(body, m) \in Nat /\ y \in Nat /\ o <= y /\ y < o + EndOf(body, m)
    BY <1>2
  <2> QED
    BY ONLY <2>1
<1>17. PICK f \in 1..m : \E j \in 1..Len(Source[body[f]]) :
          y + 1 = o + EndOf(body, f - 1) + j /\ FitsIn(raw[y + 1], body[f], j)
  BY <1>2, <1>6, HeldSymbol
<1>7. PICK j \in 1..Len(Source[body[f]]) :
          y + 1 = o + EndOf(body, f - 1) + j /\ FitsIn(raw[y + 1], body[f], j)
  BY <1>17
<1>8. body[f] = "fence"
  BY <1>7 DEF FitsIn
<1>9. \A l \in 1..m : body[l] = "fence" =>
          raw[o + EndOf(body, l - 1) + 1] = "fence" /\ EndOf(body, l) = EndOf(body, l - 1) + 1
  <2> SUFFICES ASSUME NEW l \in 1..m, body[l] = "fence"
               PROVE  /\ raw[o + EndOf(body, l - 1) + 1] = "fence"
                      /\ EndOf(body, l) = EndOf(body, l - 1) + 1
    OBVIOUS
  <2>1. Holds(raw, o, body, m)
    BY <1>2
  <2> QED
    BY ONLY <2>1, l \in 1..m, body[l] = "fence", FenceSymbol
<1>10. EndOf(body, f - 1) \in Nat /\ EndOf(body, f) = EndOf(body, f - 1) + Len(Source[body[f]])
       /\ Len(Source[body[f]]) \in 1..6
  BY <1>2, Ends DEF m
<1>11. y = o + EndOf(body, f - 1) /\ EndOf(body, f) = EndOf(body, f - 1) + 1
  <2>1. EndOf(body, f) = EndOf(body, f - 1) + 1
    BY <1>8, <1>9
  <2> DEFINE u == EndOf(body, f - 1)
             v == EndOf(body, f)
             z == Len(Source[body[f]])
  <2>4. v = u + 1 /\ v = u + z /\ u \in Nat
    BY <1>10, <2>1
  <2>5. z \in Nat
    BY <1>10
  <2>6. y + 1 = o + u + j /\ j \in 1..z
    BY <1>7
  <2>7. o \in Nat
    BY <1>2
  <2>2. /\ v = u + 1 /\ v = u + z /\ z \in Nat /\ u \in Nat /\ y + 1 = o + u + j /\ o \in Nat
        /\ y \in Nat /\ j \in 1..z
    BY <2>4, <2>5, <2>6, <2>7
  <2> HIDE DEF u, v, z
  <2>3. y = o + u
    BY ONLY <2>2
  <2> QED
    BY <2>1, <2>3 DEF u
<1> DEFINE a == f - 1
<1>12. a \in 0..i /\ f \in 1..i /\ a + 1 = f /\ a # m
  <2>1. o + EndOf(body, f) <= cut
    BY <1>2, <1>3, <1>10, <1>11, SMTT(30)
  <2>2. f <= i
    BY <1>4, <2>1
  <2>3. i \in Nat
    BY <1>2 DEF m
  <2> QED
    BY <1>2, <2>2, <2>3
<1>13. \A l \in (f + 1)..i : body[l] # "fence"
  <2> SUFFICES ASSUME NEW l \in (f + 1)..i, body[l] = "fence" PROVE FALSE
    OBVIOUS
  <2> DEFINE p == o + EndOf(body, l - 1) + 1
  <2>7. m \in Nat /\ i \in 0..m /\ f \in 1..m
    BY <1>2 DEF m
  <2>1. l \in 1..m /\ l - 1 \in 0..m /\ f \in 0..(l - 1) /\ l <= i
    BY ONLY <2>7, l \in (f + 1)..i
  <2>2. raw[p] = "fence" /\ EndOf(body, l) = EndOf(body, l - 1) + 1
    BY <1>9, <2>1
  <2>3. EndOf(body, f) <= EndOf(body, l - 1)
    BY <1>2, <2>1, EndsInOrder DEF m
  <2>4. o + EndOf(body, l) <= cut
    BY <1>4, <2>1
  <2>5. EndOf(body, l - 1) \in Nat
    BY <1>2, <2>1, Ends DEF m
  <2>6. p \in (y + 2)..cut
    <3> DEFINE u == EndOf(body, f - 1)
               v == EndOf(body, f)
               x == EndOf(body, l - 1)
               z == EndOf(body, l)
    <3>1. /\ y = o + u /\ v = u + 1 /\ v <= x /\ z = x + 1 /\ o + z <= cut /\ p = o + x + 1
          /\ u \in Nat /\ x \in Nat /\ o \in Nat /\ cut \in Nat
      BY <1>2, <1>3, <1>10, <1>11, <2>2, <2>3, <2>4, <2>5
    <3> HIDE DEF p, u, v, x, z
    <3> QED
      BY ONLY <3>1
  <2> HIDE DEF p
  <2> QED
    BY <1>3, <2>2, <2>6
<1>14. ASSUME NEW q \in 0..a, \A l \in (q + 1)..a : body[l] \in Trimmings PROVE Owes(w, body, q)
  <2>1. q \in 0..(f - 1) /\ \A l \in (q + 1)..(f - 1) : body[l] \in Trimmings
    BY <1>14
  <2>2. w.text.dress = "fenced" /\ w.cut < Len(w.text.raw)
    BY <1>1, <1>5 DEF cut
  <2>3. i \in 0..Len(body) /\ Arrived(w) = SubSeq(body, 1, i)
    OBVIOUS
  <2> HIDE DEF a
  <2> QED
    BY <1>2, <1>8, <1>12, <1>13, <2>1, <2>2, <2>3, OwedFenced
<1>15. Counts(body, o, y, a)
  <2>1. a \in 0..m
    BY <1>2, <1>12 DEF m
  <2>2. o + EndOf(body, a) <= y /\ y < o + EndOf(body, a + 1)
    <3> DEFINE u == EndOf(body, f - 1)
               v == EndOf(body, f)
    <3>1. y = o + u /\ v = u + 1 /\ u \in Nat /\ o \in Nat
      BY <1>2, <1>10, <1>11
    <3>2. EndOf(body, a) = u /\ EndOf(body, a + 1) = v
      BY <1>12
    <3> HIDE DEF a, u, v
    <3>3. o + u <= y /\ y < o + v
      BY ONLY <3>1
    <3> QED
      BY <3>2, <3>3
  <2> HIDE DEF a
  <2> QED
    BY <2>1, <2>2 DEF Counts, m
<1>16. OwedUpTo(w, o, body, y, a)
  BY <1>14, <1>15 DEF OwedUpTo
<1> QED
  BY <1>11, <1>12, <1>16

(* A writing, and what remained of its text. *)
Leaves(w, c, raw, dress, s, b, n, key, o, body, g, e, x, y, cut) ==
    /\ Writes(w, raw, dress, b, n, key, o, body, g, e) /\ cut = w.cut
    /\ Remains(c, raw, dress, s, b, n, key, o, body, g, e, x, y)
    /\ IF dress = "fenced" THEN LastFence(raw, 3, y, cut) ELSE y = cut

(* What holds of a text that is left of a writing. *)
LEMMA LeavesTyped ==
    ASSUME NEW w, NEW c, NEW raw, NEW dress, NEW s, NEW b, NEW n, NEW key, NEW o, NEW body, NEW g,
           NEW e, NEW x, NEW y, NEW cut,
           Leaves(w, c, raw, dress, s, b, n, key, o, body, g, e, x, y, cut)
    PROVE  /\ o \in Nat /\ g \in Nat /\ e \in Nat /\ x \in Nat /\ y \in Nat /\ cut \in Nat
           /\ o <= g /\ x <= y /\ y <= cut /\ cut <= Len(raw) /\ Len(raw) \in Nat /\ 6 <= o
           /\ (e = g + 2 \/ e = g + 3) /\ b + 6 <= o /\ b \in Nat /\ s \in Nat /\ s + 1 <= x
           /\ b <= s + 2
<1>1. /\ Writes(w, raw, dress, b, n, key, o, body, g, e) /\ cut = w.cut
      /\ Written(raw, dress, b, n, key, o, body, g, e)
      /\ Remains(c, raw, dress, s, b, n, key, o, body, g, e, x, y)
      /\ IF dress = "fenced" THEN LastFence(raw, 3, y, cut) ELSE y = cut
  BY DEF Leaves, Writes
<1>2. /\ Len(raw) \in Nat /\ b \in Nat /\ o \in Nat /\ o >= b + 6 /\ g \in Nat /\ g >= o
      /\ e \in Nat /\ (e = g + 2 \/ e = g + 3)
  BY <1>1, WrittenTyped
<1>3. s \in Nat /\ x \in Nat /\ y \in Nat /\ s + 1 <= x /\ x <= y /\ (b = s \/ b = s + 2)
  BY <1>1, RemainsTyped
<1>4. cut \in 0..Len(raw)
  BY <1>1 DEF Writes
<1>5. cut \in Nat /\ cut <= Len(raw)
  BY <1>2, <1>4
<1>6. y = cut \/ y + 1 <= cut
  BY <1>1 DEF LastFence
<1>7. y <= cut
  BY <1>3, <1>5, <1>6
<1> QED
  BY ONLY <1>2, <1>3, <1>5, <1>7

(* Cut before the string. *)
LEMMA LeavesNothing ==
    ASSUME NEW w, NEW c, NEW raw, NEW dress, NEW s, NEW b, NEW n, NEW key, NEW o, NEW body, NEW g,
           NEW e, NEW x, NEW y, NEW cut,
           Leaves(w, c, raw, dress, s, b, n, key, o, body, g, e, x, y, cut), x < o
    PROVE  cut < o /\ RepairCleaned(c) = Undecoded
<1>1. /\ Remains(c, raw, dress, s, b, n, key, o, body, g, e, x, y)
      /\ Written(raw, dress, b, n, key, o, body, g, e)
      /\ IF dress = "fenced" THEN LastFence(raw, 3, y, cut) ELSE y = cut
  BY DEF Leaves, Writes
<1>2. /\ o \in Nat /\ x \in Nat /\ y \in Nat /\ cut \in Nat /\ x <= y /\ y <= cut
      /\ s \in Nat /\ s + 1 <= x /\ b \in Nat
  BY LeavesTyped
<1>3. /\ \A i \in (x + 1)..y : raw[i] \in White
  BY <1>1, RemainsTyped
<1>4. Begins(raw, b, n, key, o) /\ b = Ahead(dress)
  BY <1>1, WrittenTyped
<1>5. RepairCleaned(c) = Undecoded
  BY <1>1, BeforeString
<1>6. y < o
  <2>1. raw[o] \notin White
    BY <1>4 DEF Begins, White
  <2>2. o \notin (x + 1)..y
    BY <1>3, <2>1
  <2> QED
    BY ONLY <1>2, <2>2, x < o
<1>7. y = cut
  <2>1. CASE dress = "fenced" /\ y + 1 <= cut /\ raw[y + 1] = "fence"
    <3>1. s = 3 /\ b = 3
      BY <1>1, <1>4, <2>1 DEF Remains, Fence, Ahead
    <3>2. y + 1 \in (b + 1)..o
      BY ONLY <1>2, <1>6, <3>1
    <3> QED
      BY <1>4, <2>1, <3>2, NoFenceInOpening
  <2> QED
    BY <1>1, <2>1 DEF LastFence
<1> QED
  BY <1>5, <1>6, <1>7

(* Cut after the string. *)
LEMMA LeavesWhole ==
    ASSUME NEW w, NEW c, NEW raw, NEW dress, NEW s, NEW b, NEW n, NEW key, NEW o, NEW body, NEW g,
           NEW e, NEW x, NEW y, NEW cut,
           Leaves(w, c, raw, dress, s, b, n, key, o, body, g, e, x, y, cut), g < x
    PROVE  g < cut /\ AnswerWhole(RepairCleaned(c), dress, key, body)
<1>1. /\ Remains(c, raw, dress, s, b, n, key, o, body, g, e, x, y)
      /\ Written(raw, dress, b, n, key, o, body, g, e)
      /\ IF dress = "fenced" THEN LastFence(raw, 3, y, cut) ELSE y = cut
  BY DEF Leaves, Writes
<1>2. /\ g \in Nat /\ e \in Nat /\ x \in Nat /\ y \in Nat /\ cut \in Nat /\ x <= y /\ y <= cut
      /\ cut <= Len(raw) /\ (e = g + 2 \/ e = g + 3) /\ Len(raw) \in Nat /\ s \in Nat /\ s + 1 <= x
  BY LeavesTyped
<1>3. g < cut
  BY ONLY <1>2, g < x
<1>4. raw[x] \notin White
  BY <1>1, RemainsTyped
<1>5. x <= e
  <2>1. CASE dress # "fenced"
    <3>1. Len(raw) = e
      BY <1>1, <2>1 DEF Written
    <3> QED
      BY ONLY <1>2, <3>1
  <2>2. CASE dress = "fenced"
    <3>1. Len(raw) = e + 2 /\ raw[e + 1] = "NL" /\ raw[e + 2] = "fence"
      BY <1>1, <2>2 DEF Written
    <3>2. x # e + 1
      BY <1>4, <3>1 DEF White
    <3>3. x # e + 2
      <4>1. CASE y = cut /\ \A i \in (3 + 1)..cut : raw[i] # "fence"
        <5>1. x = e + 2 => e + 2 \in (3 + 1)..cut
          <6>1. s = 3
            BY <1>1, <2>2 DEF Remains, Fence
          <6> QED
            BY ONLY <1>2, <6>1
        <5> QED
          BY <3>1, <4>1, <5>1
      <4>2. CASE y + 1 <= cut
        <5>1. Len(raw) = e + 2
          BY <3>1
        <5> QED
          BY ONLY <1>2, <4>2, <5>1
      <4> QED
        BY <1>1, <2>2, <4>1, <4>2 DEF LastFence
    <3>4. Len(raw) = e + 2
      BY <3>1
    <3> QED
      BY ONLY <1>2, <3>2, <3>3, <3>4
  <2> QED
    BY <2>1, <2>2
<1> QED
  BY <1>1, <1>3, <1>5, RemainsThrough

(* Cut within it: what is owed is not after what remains. *)
LEMMA LeavesOwed ==
    ASSUME NEW w, NEW c, NEW raw, NEW dress, NEW s, NEW b, NEW n, NEW key, NEW o, NEW body, NEW g,
           NEW e, NEW x, NEW y, NEW cut,
           Leaves(w, c, raw, dress, s, b, n, key, o, body, g, e, x, y, cut), o <= x, x <= g,
           NEW i \in 0..Len(body), Counts(body, o, cut, i), Arrived(w) = SubSeq(body, 1, i)
    PROVE  \/ y = cut /\ OwedUpTo(w, o, body, y, i)
           \/ \E a \in 0..i : OwedUpTo(w, o, body, y, a) /\ y = o + EndOf(body, a)
<1>1. /\ Remains(c, raw, dress, s, b, n, key, o, body, g, e, x, y)
      /\ Written(raw, dress, b, n, key, o, body, g, e) /\ cut = w.cut
      /\ Writes(w, raw, dress, b, n, key, o, body, g, e)
      /\ IF dress = "fenced" THEN LastFence(raw, 3, y, cut) ELSE y = cut
  BY DEF Leaves, Writes
<1>2. /\ o \in Nat /\ g \in Nat /\ x \in Nat /\ y \in Nat /\ cut \in Nat /\ x <= y /\ y <= cut
  BY LeavesTyped
<1>3. \A l \in (x + 1)..y : raw[l] \in White
  BY <1>1, RemainsTyped
<1>4. raw[g + 1] = "q"
  BY <1>1 DEF Written
<1>5. y <= g
  <2>1. g + 1 \notin (x + 1)..y
    BY <1>3, <1>4 DEF White
  <2> QED
    BY ONLY <1>2, <2>1, x <= g
<1>6. CASE y = cut /\ (dress # "fenced" \/ \A l \in (3 + 1)..cut : raw[l] # "fence")
  <2>1. cut <= g
    BY <1>5, <1>6
  <2>2. OwedUpTo(w, o, body, cut, i)
    BY <1>1, <1>6, <2>1, OwedAtCut
  <2> QED
    BY <1>6, <2>2
<1>7. CASE dress = "fenced" /\ y + 1 <= cut /\ raw[y + 1] = "fence"
           /\ \A l \in (y + 2)..cut : raw[l] # "fence"
  <2>1. y # g
    BY <1>4, <1>7
  <2>2. o <= y /\ y < g
    BY ONLY <1>2, <1>5, <2>1, o <= x
  <2>3. \E a \in 0..i : OwedUpTo(w, o, body, y, a) /\ y = o + EndOf(body, a)
    <3>1. /\ Writes(w, raw, dress, b, n, key, o, body, g, e) /\ Counts(body, o, w.cut, i)
          /\ Arrived(w) = SubSeq(body, 1, i)
      BY <1>1
    <3>2. dress = "fenced" /\ raw[y + 1] = "fence" /\ y \in Nat /\ o <= y /\ y < g
      BY <1>2, <1>7, <2>2
    <3>3. y + 1 <= w.cut /\ \A l \in (y + 2)..w.cut : raw[l] # "fence"
      BY <1>1, <1>7
    <3>4. i \in 0..Len(body)
      OBVIOUS
    <3> QED
      BY ONLY <3>1, <3>2, <3>3, <3>4, OwedAtFence
  <2> QED
    BY <2>3
<1> QED
  BY <1>1, <1>6, <1>7 DEF LastFence

(* The repair of what is left gives what is owed and no more than arrived. *)
LEMMA RepairLeft ==
    ASSUME NEW w, NEW c, NEW raw, NEW dress, NEW s, NEW b, NEW n, NEW key, NEW o, NEW body, NEW g,
           NEW e, NEW x, NEW y, NEW cut,
           Leaves(w, c, raw, dress, s, b, n, key, o, body, g, e, x, y, cut)
    PROVE  RepairOf(w, RepairCleaned(c))
<1> DEFINE r == RepairCleaned(c)
<1>1. /\ Remains(c, raw, dress, s, b, n, key, o, body, g, e, x, y)
      /\ Written(raw, dress, b, n, key, o, body, g, e) /\ cut = w.cut
      /\ Writes(w, raw, dress, b, n, key, o, body, g, e)
  BY DEF Leaves, Writes
<1>2. /\ o \in Nat /\ g \in Nat /\ x \in Nat /\ y \in Nat /\ cut \in Nat /\ x <= y /\ y <= cut
  BY LeavesTyped
<1>3. /\ body \in Seq(Items) /\ g = o + EndOf(body, Len(body)) /\ Holds(raw, o, body, Len(body))
  BY <1>1, WrittenTyped
<1>4. PICK i \in 0..Len(body) :
         /\ ItemsIn(body, o, w.cut) = i /\ Counts(body, o, w.cut, i)
         /\ Arrived(w) = SubSeq(body, 1, i)
  BY <1>1, ArrivedItems
<1>5. Arrives(w, key, dress, o, body, i)
  BY <1>1, <1>3, <1>4 DEF Arrives, Writes
<1>6. Owes(w, body, i)
  BY <1>3, <1>4, OwedArrived
<1>7. \A k \in 0..Len(body) : EndOf(body, k) \in Nat
  BY <1>3, Ends
<1>8. Counts(body, o, cut, i) /\ Len(body) \in Nat
  BY <1>1, <1>3, <1>4
<1>9. CASE x < o
  <2>1. cut < o /\ r = Undecoded
    BY <1>9, LeavesNothing
  <2>2. i = 0
    <3>1. i # 0 => o + EndOf(body, i) <= cut
      BY <1>8 DEF Counts
    <3>2. EndOf(body, i) \in Nat
      BY <1>7
    <3> QED
      BY ONLY <1>2, <2>1, <3>1, <3>2
  <2> HIDE DEF r
  <2>3. Owes(w, body, 0)
    BY <1>6, <2>2
  <2>4. RepairOf(w, r)
    BY <2>1, <2>3, RepairNothing
  <2> QED
    BY <2>4 DEF r
<1>10. CASE g < x
  <2>1. g < cut /\ AnswerWhole(r, dress, key, body)
    BY <1>10, LeavesWhole
  <2>2. i = Len(body) /\ ~(cut < o)
    <3> DEFINE m == Len(body)
    <3>1. i # m => cut < o + EndOf(body, i + 1)
      BY <1>8 DEF Counts
    <3>2. i # m => EndOf(body, i + 1) <= EndOf(body, m)
      <4>1. i # m => i + 1 \in 0..m /\ m \in 0..m
        BY <1>8
      <4> QED
        BY <1>3, <4>1, EndsInOrder
    <3>3. EndOf(body, m) \in Nat /\ g = o + EndOf(body, m) /\ (i # m => EndOf(body, i + 1) \in Nat)
      <4>1. m \in 0..m /\ (i # m => i + 1 \in 0..m)
        BY <1>8
      <4> QED
        BY <1>3, <1>7, <4>1
    <3> HIDE DEF m
    <3>4. i = m /\ ~(cut < o)
      BY ONLY <1>2, <2>1, <3>1, <3>2, <3>3
    <3> QED
      BY <3>4 DEF m
  <2>3. ~(w.cut < o)
    BY <1>1, <2>2
  <2> HIDE DEF r
  <2>4. RepairOf(w, r)
    BY <1>5, <1>6, <2>1, <2>2, <2>3, RepairWhole
  <2> QED
    BY <2>4 DEF r
<1>11. CASE o <= x /\ x <= g
  <2>1. \/ y = cut /\ OwedUpTo(w, o, body, y, i)
        \/ \E a \in 0..i : OwedUpTo(w, o, body, y, a) /\ y = o + EndOf(body, a)
    BY <1>4, <1>8, <1>11, LeavesOwed
  <2>2. i \in 0..i
    BY <1>8
  <2>3. PICK a \in 0..i : /\ OwedUpTo(w, o, body, y, a)
                          /\ (y = cut /\ a = i) \/ y = o + EndOf(body, a)
    BY <2>1, <2>2
  <2>4. Counts(body, o, y, a) /\ a \in 0..Len(body)
    BY <2>3 DEF OwedUpTo, Counts
  <2>5. PICK k : Counts(body, o, x, k)
    BY <1>2, <1>3, CountsExist
  <2>6. k \in 0..Len(body) /\ (k # 0 => o + EndOf(body, k) <= x)
        /\ (k # Len(body) => x < o + EndOf(body, k + 1))
    BY <2>5 DEF Counts
  <2>7. ~(w.cut < o) /\ ~(cut < o)
    <3>1. ~(cut < o)
      BY ONLY <1>2, <1>11
    <3> QED
      BY <1>1, <3>1
  <2>8. EndOf(body, 0) = 0 /\ EndOf(body, k) \in Nat /\ EndOf(body, a) \in Nat
    BY <1>3, <1>7, <2>4, <2>6, Ends
  <2>9. o + EndOf(body, k) <= x
    <3>1. CASE k = 0
      BY ONLY <1>2, <1>11, <2>8, <3>1
    <3> QED
      BY <2>6, <3>1
  <2>10. k <= a
    <3>1. \A l \in 1..Len(body) : l <= a <=> o + EndOf(body, l) <= y
      BY <1>2, <1>3, <2>4, CountsItems
    <3>2. o + EndOf(body, k) <= y
      BY ONLY <1>2, <2>8, <2>9
    <3>3. a \in Nat /\ (k = 0 \/ k \in 1..Len(body))
      BY <1>8, <2>4, <2>6
    <3> QED
      BY <3>1, <3>2, <3>3
  <2>11. k \in 0..a /\ k \in 0..i /\ k \in Nat /\ a \in k..Len(body) /\ a \in Nat
    BY <1>8, <2>4, <2>6, <2>10
  <2>12. \A l \in (x + 1)..y : raw[l] \in White
    BY <1>1, RemainsTyped
  <2>13. CASE x = o + EndOf(body, k)
    <3>1. AnswerAfter(r, key, body, k)
      BY <1>1, <2>6, <2>13, RemainsCutAfter
    <3>2. o + EndOf(body, a) <= y
      <4>1. a # 0 => o + EndOf(body, a) <= y
        BY <2>4 DEF Counts
      <4>2. CASE a = 0
        BY ONLY <1>2, <1>11, <2>8, <4>2
      <4> QED
        BY <4>1, <4>2
    <3>3. \A l \in (k + 1)..a : body[l] \in {"space", "rawNewline"}
      <4>1. k \in 0..Len(body) /\ a \in k..Len(body) /\ y \in Nat
        BY <1>2, <2>6, <2>11
      <4> QED
        BY <1>3, <2>12, <2>13, <3>2, <4>1, WhiteItems
    <3>4. \A l \in (k + 1)..a : body[l] \in Trimmings
      BY <3>3 DEF Trimmings
    <3>5. Owes(w, body, k)
      BY <2>3, <2>11, <3>4 DEF OwedUpTo
    <3>6. k # 0 /\ body[k] = "rawQuote" => Owes(w, body, k - 1)
      <4> SUFFICES ASSUME k # 0, body[k] = "rawQuote" PROVE Owes(w, body, k - 1)
        OBVIOUS
      <4> DEFINE q == k - 1
      <4>1. q \in 0..a /\ q + 1 = k
        BY <2>11
      <4>2. ASSUME NEW l \in (q + 1)..a PROVE body[l] \in Trimmings
        <5>1. l = k \/ l \in (k + 1)..a
          BY <2>11, <4>1
        <5> QED
          BY <3>4, <5>1 DEF Trimmings
      <4> HIDE DEF q
      <4>3. Owes(w, body, q)
        BY <2>3, <4>1, <4>2 DEF OwedUpTo
      <4> QED
        BY <4>3 DEF q
    <3> HIDE DEF r
    <3>7. RepairOf(w, r)
      BY <1>5, <2>7, <2>11, <3>1, <3>5, <3>6, RepairAfter
    <3> QED
      BY <3>7 DEF r
  <2>14. CASE x # o + EndOf(body, k)
    <3> DEFINE f == k + 1
               u == o + EndOf(body, k)
               l == x - u
               m == Len(body)
    <3>1. k # m
      <4>1. k = m => g = o + EndOf(body, k)
        BY <1>3
      <4> QED
        BY ONLY <1>2, <1>11, <2>8, <2>9, <2>14, <4>1
    <3>2. f \in 1..m /\ f - 1 = k /\ x < o + EndOf(body, f)
      BY <1>8, <2>6, <2>11, <3>1
    <3>3. u \in Nat /\ l \in Nat /\ l # 0 /\ u + l = x
      BY ONLY <1>2, <2>8, <2>9, <2>14
    <3>4. EndOf(body, f) = EndOf(body, f - 1) + Len(Source[body[f]]) /\ Len(Source[body[f]]) \in 1..6
      BY <1>3, <3>2, Ends
    <3> HIDE DEF f, l, m
    <3>5. ItemAt(raw, u, body[f])
      BY <1>3, <3>2 DEF Holds, m
    <3>6. l < Len(Source[body[f]])
      <4> DEFINE z == Len(Source[body[f]])
                 v == EndOf(body, k)
      <4>1. EndOf(body, f) = v + z /\ z \in Nat /\ v \in Nat /\ u = o + v
        BY <2>8, <3>2, <3>4
      <4> HIDE DEF z, v, u
      <4>2. l < z
        BY ONLY <1>2, <3>2, <3>3, <4>1
      <4> QED
        BY <4>2 DEF z
    <3>7. x = y
      <4>1. raw[u + (l + 1)] \notin White
        BY <3>3, <3>5, <3>6, NoWhiteWithin
      <4> HIDE DEF u
      <4>2. u + (l + 1) = x + 1
        BY ONLY <1>2, <3>3
      <4>3. x + 1 \notin (x + 1)..y
        BY <2>12, <4>1, <4>2
      <4> QED
        BY ONLY <1>2, <4>3
    <3>8. k = a
      <4>1. ItemsIn(body, o, x) = k
        BY <1>2, <1>3, <2>5, CountsItems
      <4>2. ItemsIn(body, o, y) = a
        BY <1>2, <1>3, <2>4, CountsItems
      <4> QED
        BY <3>7, <4>1, <4>2
    <3>9. y = cut /\ k = i
      BY <2>3, <2>14, <3>7, <3>8
    <3>10. l = CutItem(body, o, w.cut)
      <4>1. w.cut = x /\ i # Len(body) /\ ItemsIn(body, o, w.cut) = i
        BY <1>1, <1>4, <3>1, <3>7, <3>9 DEF m
      <4>2. CutItem(body, o, w.cut) = x - o - EndOf(body, k)
        BY <2>7, <3>9, <4>1 DEF CutItem, EndOf
      <4>3. x - o - EndOf(body, k) = l
        BY ONLY <1>2, <2>8 DEF l, u
      <4> QED
        BY <4>2, <4>3
    <3>11. AnswerWithin(r, key, body, f - 1, l)
      <4>1. x = o + EndOf(body, f - 1) + l
        BY <3>2, <3>3
      <4>2. f \in 1..Len(body)
        BY <3>2 DEF m
      <4> HIDE DEF u
      <4> QED
        BY <1>1, <3>2, <3>3, <4>1, <4>2, RemainsCutWithin
    <3>12. AnswerWithin(r, key, body, i, l)
      BY <3>2, <3>9, <3>11
    <3> HIDE DEF r
    <3>13. RepairOf(w, r)
      BY <1>5, <1>6, <2>7, <3>3, <3>10, <3>12, RepairWithin
    <3> QED
      BY <3>13 DEF r
  <2> QED
    BY <2>13, <2>14
<1> QED
  BY ONLY <1>2, <1>9, <1>10, <1>11

(* What the repair finds in a writing is what the client must get of it,   *)
(* and no more than came complete: whatever was cut off, and whatever      *)
(* stands around the object.                                               *)
THEOREM Repaired ==
    ASSUME NEW w, IsWriting(w)
    PROVE  RepairOf(w, RepairSyntheticArguments(SubSeq(w.text.raw, 1, w.cut)))
<1> DEFINE raw == w.text.raw
           dress == w.text.dress
           key == w.text.key
           o == w.text.start
           body == w.text.body
           cut == w.cut
           t == SubSeq(raw, 1, cut)
           s == Fence(dress)
<1>1. PICK b, n, g, e : Writes(w, raw, dress, b, n, key, o, body, g, e)
  BY WritingIs
<1>2. Written(raw, dress, b, n, key, o, body, g, e) /\ cut \in 0..Len(raw) /\ ~Ambiguous(body)
  BY <1>1 DEF Writes
<1> HIDE DEF raw, dress, key, o, body, s
<1>3. /\ Len(raw) \in Nat /\ o \in Nat /\ b \in Nat /\ o >= b + 6 /\ body \in Seq(Items)
  BY <1>2, WrittenTyped
<1>4. cut \in Nat
  BY <1>2, <1>3
<1>5. PICK c : RepairSyntheticArguments(t) = RepairCleaned(c) /\ CleaningOf(c, raw, dress, cut)
  <2> HIDE DEF cut
  <2> QED
    BY <1>2, Cleaning
<1>6. CASE Braceless(c) /\ cut <= 3
  <2>1. RepairCleaned(c) = Undecoded
    BY <1>6, BracelessUndecoded
  <2>2. PICK i \in 0..Len(body) :
           /\ ItemsIn(body, o, cut) = i /\ Counts(body, o, cut, i)
           /\ Arrived(w) = SubSeq(body, 1, i)
    BY <1>1, ArrivedItems
  <2>3. Owes(w, body, i)
    BY <1>3, <2>2, OwedArrived
  <2>4. i = 0
    <3>1. i # 0 => o + EndOf(body, i) <= cut
      BY <2>2 DEF Counts
    <3>2. EndOf(body, i) \in Nat
      BY <1>3, Ends
    <3>3. cut <= 3
      BY <1>6
    <3> HIDE DEF cut
    <3> QED
      BY ONLY <1>3, <1>4, <3>1, <3>2, <3>3
  <2>5. Owes(w, body, 0)
    BY <2>3, <2>4
  <2> DEFINE r == RepairCleaned(c)
  <2>6. r = Undecoded
    BY <2>1
  <2> HIDE DEF r
  <2>7. RepairOf(w, r)
    BY <2>5, <2>6, RepairNothing
  <2> QED
    BY <1>5, <2>7 DEF r, raw
<1>7. ASSUME NEW x, NEW y, Left(c, raw, s, x, y),
             IF dress = "fenced" THEN LastFence(raw, 3, y, cut) ELSE y = cut
      PROVE  RepairOf(w, RepairCleaned(c))
  <2>1. Remains(c, raw, dress, s, b, n, key, o, body, g, e, x, y)
    BY <1>2, <1>7 DEF Remains, s
  <2>2. Leaves(w, c, raw, dress, s, b, n, key, o, body, g, e, x, y, cut)
    BY <1>1, <1>7, <2>1 DEF Leaves
  <2> HIDE DEF cut
  <2> QED
    BY <2>2, RepairLeft
<1>8. CASE \E x, y : /\ Left(c, raw, s, x, y)
                     /\ IF dress = "fenced" THEN LastFence(raw, 3, y, cut) ELSE y = cut
  <2>1. RepairOf(w, RepairCleaned(c))
    BY <1>7, <1>8
  <2> QED
    BY <1>5, <2>1 DEF raw
<1> QED
  BY <1>5, <1>6, <1>8 DEF CleaningOf, s

============================================================================
